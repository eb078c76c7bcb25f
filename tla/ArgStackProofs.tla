--------------------------- MODULE ArgStackProofs ---------------------------
(***************************************************************************)
(* Theorems about the command line and the cron strings in it, for every   *)
(* command line, every string, any limits of the fields and any width of   *)
(* the counters.                                                           *)
(***************************************************************************)
EXTENDS ArgStack, SequenceTheorems, FiniteSetTheorems, WellFoundedInduction, TLAPS

-----------------------------------------------------------------------------
(* The inductive invariant.                                                *)

Characters == Numerals \cup Marks

\* The parser has a position until it has met something it does not understand.
PlaceOK  == where \notin {"finish", "done"} => ps > 0
LoopOK   == loop \in [i : Nat, to : Nat, step : Nat]
TablesOK == tables \in [Fields -> SUBSET Nat]
CronInv  == CronTypeOK /\ PlaceOK /\ LoopOK /\ TablesOK

\* getopts has the arguments from av on, ac of them, until the options end.
CountOK ==
  /\ pc \in {"options", "cron"} => av + ac = Len(argv) + 1
  /\ pc = "rest" => av <= Len(argv) + 1
TextsOK == \A n \in DOMAIN texts : texts[n] \in Seq(Characters)

IInv == ArgStackTypeOK /\ CronInv /\ CountOK /\ TextsOK

-----------------------------------------------------------------------------
(* Constants, and the first position of a kind.                            *)

LEMMA Constants ==
  /\ FieldMin \in [Fields -> Nat] /\ FieldMax \in [Fields -> Nat]
  /\ FieldSize \in [Fields -> Nat]
  /\ Byte \in Nat \ {0} /\ Value \in [Numerals -> Nat]
  /\ \A f \in Fields : FieldMin[f] <= FieldMax[f] /\ FieldMax[f] < FieldSize[f]
  /\ Weekday \in Fields /\ FieldSize[Weekday] > 7
  /\ FileStackSize \in Nat \ {0} /\ IntMax \in Nat
  /\ \A n \in DOMAIN Number : Number[n] \in Int
  /\ End \notin Characters /\ \A c \in Marks : c \notin Numerals
<1>1. /\ FieldMin \in [Fields -> Nat] /\ FieldMax \in [Fields -> Nat]
      /\ FieldSize \in [Fields -> Nat]
      /\ Byte \in Nat /\ Value \in [Numerals -> Nat]
      /\ \A f \in Fields : FieldMin[f] <= FieldMax[f] /\ FieldMax[f] < FieldSize[f]
                             /\ FieldSize[f] < Byte
      /\ FieldSize[Weekday] > 7
      /\ Numerals \cap (Marks \cup {End}) = {}
  BY CronAssumption
<1>2. Weekday \in Fields
  BY DEF Weekday, Fields
<1>3. Byte # 0
  BY <1>1, <1>2
<1>4. End \notin Marks
  BY DEF End, Marks
<1>5. End \notin Characters /\ \A c \in Marks : c \notin Numerals
  BY <1>1, <1>4 DEF Characters
<1>6. QED BY <1>1, <1>2, <1>3, <1>5, ArgStackAssumption

\* A set of natural numbers has a least one.
LEMMA Least ==
  ASSUME NEW T, T \subseteq Nat, T # {}
  PROVE  \E m \in T : \A n \in T : m <= n
<1> DEFINE U == {0..n : n \in T}
           R == StrictSubsetOrdering(Nat)
<1>1. \A n \in Nat : 0..n \in FiniteSubsetsOf(Nat)
  BY FS_Interval DEF FiniteSubsetsOf
<1>2. U \subseteq FiniteSubsetsOf(Nat) /\ U # {}
  BY <1>1
<1>3. \E x \in U : \A y \in U : ~(<<y, x>> \in R)
  <2> HIDE DEF U, R
  <2>1. IsWellFoundedOn(R, FiniteSubsetsOf(Nat))
    BY FS_StrictSubsetOrderingWellFounded DEF R
  <2> QED BY <1>2, <2>1, WFMin
<1>4. PICK m \in T : \A n \in T : <<0..n, 0..m>> \notin R
  BY <1>3
<1>5. ASSUME NEW n \in T, n < m PROVE FALSE
  <2>1. 0..n \subseteq 0..m /\ 0..n # 0..m /\ 0..n \subseteq Nat /\ 0..m \subseteq Nat
    <3>1. m \in 0..m /\ m \notin 0..n
      BY <1>5
    <3> QED BY <1>5, <3>1
  <2> QED BY <1>4, <2>1, <1>5 DEF StrictSubsetOrdering
<1> QED BY <1>4, <1>5

\* The first position from m on that is in S.
LEMMA First ==
  ASSUME NEW S, NEW m \in Nat, NEW n \in S, n \in Nat, m <= n
  PROVE  \E q \in m..n : q \in S /\ \A r \in m..(q - 1) : r \notin S
<1> DEFINE T == {q \in m..n : q \in S}
<1>1. T \subseteq Nat /\ T # {}
  OBVIOUS
<1>2. PICK q \in T : \A r \in T : q <= r
  BY <1>1, Least
<1>3. \A r \in m..(q - 1) : r \notin S
  BY <1>2
<1>4. QED BY <1>2, <1>3

-----------------------------------------------------------------------------
(* Reading.                                                                *)

InText(p) == p \in 1..(Len(text) + 1)

LEMMA TextShape ==
  ASSUME text \in Seq(Characters)
  PROVE  /\ Len(text) \in Nat /\ DOMAIN text = 1..Len(text)
         /\ \A p \in 1..Len(text) : text[p] \in Characters
BY LenProperties, ElementOfSeq

LEMMA Reads ==
  ASSUME text \in Seq(Characters), NEW p
  PROVE  /\ CharAt(p) \in Characters \cup {End}
         /\ CharAt(p) # End => p \in 1..Len(text)
         /\ CharAt(Len(text) + 1) = End
<1>1. ~(Len(text) + 1 \in DOMAIN text)
  BY TextShape
<1>2. QED BY <1>1, TextShape DEF CharAt

LEMMA SkipSpacesOK ==
  ASSUME text \in Seq(Characters), NEW p, InText(p)
  PROVE  SkipSpaces(p) \in p..(Len(text) + 1) /\ InText(SkipSpaces(p))
<1>1. p \in Nat \ {0} /\ Len(text) + 1 \in Nat /\ p <= Len(text) + 1
  BY TextShape DEF InText
<1> DEFINE S == {q \in Nat : CharAt(q) # " "}
<1>2. Len(text) + 1 \in S
  BY <1>1, Reads DEF End
<1>3. \E q \in p..(Len(text) + 1) : q \in S /\ \A r \in p..(q - 1) : r \notin S
  <2> HIDE DEF S
  <2>1. PICK n \in S : n = Len(text) + 1
    BY <1>2
  <2>2. QED BY <1>1, <2>1, First
<1>4. PICK q \in p..(Len(text) + 1) : q \in S /\ \A r \in p..(q - 1) : r \notin S
  BY <1>3
<1>5. CharAt(q) # " " /\ \A r \in p..(q - 1) : CharAt(r) = " "
  <2>1. q \in Nat /\ \A r \in p..(q - 1) : r \in Nat
    BY <1>1
  <2>2. QED BY <1>4, <2>1
<1>6. SkipSpaces(p) \in p..(Len(text) + 1)
  BY <1>5 DEF SkipSpaces
<1>7. QED BY <1>1, <1>6 DEF InText

LEMMA SkipToEolOK ==
  ASSUME text \in Seq(Characters), NEW p, InText(p)
  PROVE  InText(SkipToEol(p))
<1>1. p \in Nat \ {0} /\ Len(text) + 1 \in Nat /\ p <= Len(text) + 1
  BY TextShape DEF InText
<1> DEFINE S == {q \in Nat : Eol(q)}
<1>2. Len(text) + 1 \in S
  BY <1>1, Reads DEF Eol
<1>3. \E q \in p..(Len(text) + 1) : q \in S /\ \A r \in p..(q - 1) : r \notin S
  <2> HIDE DEF S
  <2>1. PICK n \in S : n = Len(text) + 1
    BY <1>2
  <2>2. QED BY <1>1, <2>1, First
<1>4. PICK q \in p..(Len(text) + 1) : q \in S /\ \A r \in p..(q - 1) : r \notin S
  BY <1>3
<1>5. Eol(q) /\ \A r \in p..(q - 1) : ~Eol(r)
  BY <1>1, <1>4
<1>6. SkipToEol(p) \in p..(Len(text) + 1)
  BY <1>5 DEF SkipToEol
<1>7. QED BY <1>1, <1>6 DEF InText

LEMMA NumberOK ==
  ASSUME text \in Seq(Characters), NEW p, InText(p)
  PROVE  NumberAt(p) \in Nat /\ InText(AfterNumber(p))
<1>1. CASE CharAt(p) \in Numerals
  <2>1. PICK v \in Nat : v = Value[CharAt(p)]
    BY <1>1, Constants
  <2>2. v % Byte \in Nat
    BY <2>1, Constants
  <2>3. p \in 1..Len(text)
    BY <1>1, Reads, Constants DEF Characters
  <2>4. InText(p + 1)
    BY <2>3, TextShape DEF InText
  <2>5. QED BY <1>1, <2>1, <2>2, <2>4 DEF NumberAt, AfterNumber
<1>2. CASE CharAt(p) \notin Numerals
  BY <1>2 DEF NumberAt, AfterNumber
<1>3. QED BY <1>1, <1>2

\* A character that is none of the end's is followed by another or the end.
LEMMA NextInText ==
  ASSUME text \in Seq(Characters), NEW p, CharAt(p) # End
  PROVE  InText(p) /\ InText(p + 1)
<1>1. p \in 1..Len(text) /\ Len(text) \in Nat
  BY Reads, TextShape
<1>2. QED BY <1>1 DEF InText

LEMMA StepOK ==
  ASSUME text \in Seq(Characters), NEW p, InText(p)
  PROVE  StepAt(p) \in Nat /\ InText(AfterStep(p))
<1>1. CASE CharAt(p) = "/"
  <2>1. InText(p + 1)
    BY <1>1, NextInText DEF End
  <2>2. NumberAt(p + 1) \in Nat /\ InText(AfterNumber(p + 1))
    BY <2>1, NumberOK
  <2>3. QED BY <1>1, <2>2 DEF StepAt, AfterStep
<1>2. CASE CharAt(p) # "/"
  BY <1>2 DEF StepAt, AfterStep
<1>3. QED BY <1>1, <1>2

LEMMA ClampOK ==
  ASSUME field \in Fields, NEW n \in Nat
  PROVE  Clamp(n) \in Nat /\ Clamp(n) <= FieldMax[field]
BY Constants DEF Clamp

-----------------------------------------------------------------------------
(* The parser.                                                             *)

\* What CronInv says while the parser is in its string.
LEMMA CronShape ==
  ASSUME CronInv
  PROVE  /\ text \in Seq(Characters) /\ field \in Fields
         /\ where \notin {"finish", "done"} => InText(ps)
         /\ loop.i \in Nat /\ loop.to \in Nat /\ loop.step \in Nat
         /\ where = "loop" => loop.to <= FieldMax[field]
         /\ \A f \in Fields : tables[f] \subseteq 0..(FieldSize[f] - 1)
         /\ FieldMin[field] \in Nat /\ FieldMax[field] \in Nat
         /\ FieldMin[field] <= FieldMax[field] /\ FieldMax[field] < FieldSize[field]
         /\ Len(text) \in Nat
<1>1. text \in Seq(Characters) /\ field \in Fields
      /\ ps \in 0..(Len(text) + 1)
  BY DEF CronInv, CronTypeOK, Characters
<1>2. where \notin {"finish", "done"} => InText(ps)
  BY <1>1, TextShape DEF CronInv, PlaceOK, InText
<1>3. loop.i \in Nat /\ loop.to \in Nat /\ loop.step \in Nat
  BY DEF CronInv, LoopOK
<1>4. (where = "loop" => loop.to <= FieldMax[field])
      /\ \A f \in Fields : tables[f] \subseteq 0..(FieldSize[f] - 1)
  BY DEF CronInv, CronTypeOK
<1>5. /\ FieldMin[field] \in Nat /\ FieldMax[field] \in Nat
      /\ FieldMin[field] <= FieldMax[field] /\ FieldMax[field] < FieldSize[field]
  BY <1>1, Constants
<1>6. QED BY <1>1, <1>2, <1>3, <1>4, <1>5, TextShape

\* A step that stays in the same string.
LEMMA MakeCron ==
  ASSUME CronInv, UNCHANGED text, InText(ps'), field' \in Fields,
         where' \in {"list", "element", "comma", "entry", "finish", "loop"},
         where' = "loop" => loop'.to <= FieldMax[field'],
         LoopOK', tables' \in [Fields -> SUBSET Nat],
         \A f \in Fields : tables'[f] \subseteq 0..(FieldSize[f] - 1)
  PROVE  CronInv'
<1>1. text \in Seq(Numerals \cup Marks) /\ Len(text) \in Nat
  BY CronShape DEF Characters
<1>2. ps' \in 0..(Len(text) + 1) /\ ps' > 0
  BY <1>1 DEF InText
<1>3. CronTypeOK'
  BY <1>1, <1>2 DEF CronTypeOK
<1>4. QED BY <1>2, <1>3 DEF CronInv, PlaceOK, TablesOK

\* Indices that are put into the table of the field are in it.
LEMMA PutOK ==
  ASSUME CronInv, NEW S, S \subseteq 0..FieldMax[field], Put(S)
  PROVE  /\ tables' \in [Fields -> SUBSET Nat]
         /\ \A f \in Fields : tables'[f] \subseteq 0..(FieldSize[f] - 1)
<1>1. tables \in [Fields -> SUBSET Nat] /\ field \in Fields
  BY CronShape DEF CronInv, TablesOK
<1>2. tables' = [tables EXCEPT ![field] = @ \cup S]
  BY DEF Put
<1>3. S \subseteq 0..(FieldSize[field] - 1) /\ S \subseteq Nat
  BY <1>1, Constants, CronShape
<1>4. \A f \in Fields : tables[f] \subseteq 0..(FieldSize[f] - 1)
  BY CronShape
<1>5. QED BY <1>1, <1>2, <1>3, <1>4

LEMMA SameTables ==
  ASSUME CronInv, UNCHANGED tables
  PROVE  /\ tables' \in [Fields -> SUBSET Nat]
         /\ \A f \in Fields : tables'[f] \subseteq 0..(FieldSize[f] - 1)
BY CronShape DEF CronInv, TablesOK

LEMMA NextFieldOK ==
  ASSUME CronInv, NextField
  PROVE  field' \in Fields /\ where' \in {"list", "entry"}
BY CronShape DEF NextField, Fields, Weekday

LEMMA ListDefaultOK ==
  ASSUME CronInv, ListDefault PROVE CronInv'
<1>1. InText(ps) /\ InText(SkipSpaces(ps))
  BY CronShape, SkipSpacesOK DEF ListDefault
<1>2. InText(ps')
  BY <1>1 DEF ListDefault, InText
<1>3. FieldMin[field]..FieldMax[field] \subseteq 0..FieldMax[field]
  BY CronShape
<1>4. /\ tables' \in [Fields -> SUBSET Nat]
      /\ \A f \in Fields : tables'[f] \subseteq 0..(FieldSize[f] - 1)
  BY <1>3, PutOK DEF ListDefault
<1>5. field' \in Fields /\ where' \in {"list", "entry"}
  BY NextFieldOK DEF ListDefault
<1>6. LoopOK' /\ UNCHANGED text
  BY DEF ListDefault, CronInv, LoopOK
<1>7. QED BY <1>2, <1>4, <1>5, <1>6, MakeCron

LEMMA ListBeginsOK ==
  ASSUME CronInv, ListBegins PROVE CronInv'
<1>1. InText(ps) /\ InText(SkipSpaces(ps))
  BY CronShape, SkipSpacesOK DEF ListBegins
<1>2. InText(ps') /\ field' \in Fields
  BY <1>1, CronShape DEF ListBegins, InText
<1>3. UNCHANGED <<text, tables>> /\ where' = "element" /\ LoopOK'
  BY DEF ListBegins, CronInv, LoopOK
<1>4. QED BY <1>2, <1>3, SameTables, MakeCron

LEMMA NextElementOK ==
  ASSUME CronInv, NextElement PROVE CronInv'
<1>1. CharAt(ps) # End
  BY DEF NextElement, End
<1>2. InText(ps + 1)
  BY <1>1, CronShape, NextInText
<1>3. InText(ps') /\ field' \in Fields
  BY <1>2, CronShape DEF NextElement, InText
<1>4. UNCHANGED <<text, tables>> /\ where' = "element" /\ LoopOK'
  BY DEF NextElement, CronInv, LoopOK
<1>5. QED BY <1>3, <1>4, SameTables, MakeCron

LEMMA ListEndsOK ==
  ASSUME CronInv, ListEnds PROVE CronInv'
<1>1. InText(ps)
  BY CronShape DEF ListEnds
<1>2. CharAt(ps) # End => InText(ps + 1)
  BY CronShape, NextInText
<1>3. ps' = (IF CharAt(ps) = " " \/ Eol(ps) THEN ps ELSE ps + 1) /\ UNCHANGED text
  BY DEF ListEnds
<1>4. InText(ps')
  BY <1>1, <1>2, <1>3 DEF Eol, InText
<1>5. field' \in Fields /\ where' \in {"list", "entry"}
  BY NextFieldOK DEF ListEnds
<1>6. UNCHANGED tables /\ LoopOK'
  BY DEF ListEnds, CronInv, LoopOK
<1>7. QED BY <1>3, <1>4, <1>5, <1>6, SameTables, MakeCron

LEMMA StarOK ==
  ASSUME CronInv, Star PROVE CronInv'
<1>1. PICK next : next = SkipSpaces(ps) + 1
  OBVIOUS
<1>2. /\ loop' = [i |-> FieldMin[field], to |-> FieldMax[field], step |-> StepAt(next)]
      /\ where' = "loop" /\ ps' = AfterStep(next) /\ UNCHANGED <<text, field, tables>>
  BY <1>1 DEF Star, Loop
<1>3. CharAt(SkipSpaces(ps)) # End
  BY DEF Star, AtElement, End
<1>4. InText(next)
  BY <1>1, <1>3, CronShape, NextInText
<1>5. StepAt(next) \in Nat /\ InText(AfterStep(next))
  BY <1>4, CronShape, StepOK
<1>6. InText(ps') /\ field' \in Fields
  BY <1>2, <1>5, CronShape DEF InText
<1>7. LoopOK' /\ loop'.to <= FieldMax[field']
  BY <1>2, <1>5, CronShape DEF LoopOK
<1>8. QED BY <1>2, <1>6, <1>7, SameTables, MakeCron

LEMMA SingleOK ==
  ASSUME CronInv, Single PROVE CronInv'
<1>1. PICK here : here = SkipSpaces(ps)
  OBVIOUS
<1>2. /\ Put({Clamp(NumberAt(here))}) /\ ps' = here + 1
      /\ where' = "comma" /\ UNCHANGED <<text, field, loop>>
  BY <1>1 DEF Single
<1>3. CharAt(here) # End
  BY <1>1, Constants DEF Single, AtElement, Characters
<1>4. InText(here) /\ InText(here + 1)
  BY <1>3, CronShape, NextInText
<1>5. Clamp(NumberAt(here)) \in Nat /\ Clamp(NumberAt(here)) <= FieldMax[field]
  BY <1>4, CronShape, NumberOK, ClampOK
<1>6. {Clamp(NumberAt(here))} \subseteq 0..FieldMax[field]
  BY <1>5, CronShape
<1>7. /\ tables' \in [Fields -> SUBSET Nat]
      /\ \A f \in Fields : tables'[f] \subseteq 0..(FieldSize[f] - 1)
  BY <1>2, <1>6, PutOK
<1>8. InText(ps') /\ field' \in Fields /\ LoopOK'
  BY <1>2, <1>4, CronShape DEF InText, CronInv, LoopOK
<1>9. QED BY <1>2, <1>7, <1>8, MakeCron

LEMMA RangeOK ==
  ASSUME CronInv, RangeElement PROVE CronInv'
<1>1. PICK here : here = SkipSpaces(ps)
  OBVIOUS
<1>2. PICK from : from = IF NumberAt(here) < FieldMin[field] THEN FieldMin[field]
                         ELSE Clamp(NumberAt(here))
  OBVIOUS
<1>3. PICK next : next = AfterNumber(here + 2)
  OBVIOUS
<1>4. /\ CharAt(here) \in Numerals /\ CharAt(here + 1) = "-"
      /\ loop' = [i |-> from, to |-> Clamp(NumberAt(here + 2)), step |-> StepAt(next)]
      /\ where' = "loop" /\ ps' = AfterStep(next) /\ UNCHANGED <<text, field, tables>>
  BY <1>1, <1>2, <1>3 DEF RangeElement, Loop, AtElement
<1>5. CharAt(here) # End /\ CharAt(here + 1) # End
  BY <1>4, Constants DEF Characters, End
<1>6. InText(here) /\ InText((here + 1) + 1) /\ here + 2 = (here + 1) + 1
  <2>1. InText(here) /\ InText(here + 1) /\ InText((here + 1) + 1)
    BY <1>5, CronShape, NextInText
  <2>2. here \in Nat
    BY <2>1, CronShape DEF InText
  <2>3. QED BY <2>1, <2>2
<1>7. NumberAt(here) \in Nat /\ NumberAt(here + 2) \in Nat /\ InText(next)
  BY <1>3, <1>6, CronShape, NumberOK
<1>8. from \in Nat
  BY <1>2, <1>7, CronShape, ClampOK
<1>9. Clamp(NumberAt(here + 2)) \in Nat /\ Clamp(NumberAt(here + 2)) <= FieldMax[field]
  BY <1>7, CronShape, ClampOK
<1>10. StepAt(next) \in Nat /\ InText(AfterStep(next))
  BY <1>7, CronShape, StepOK
<1>11. InText(ps') /\ field' \in Fields
  BY <1>4, <1>10, CronShape DEF InText
<1>12. LoopOK' /\ loop'.to <= FieldMax[field']
  BY <1>4, <1>8, <1>9, <1>10 DEF LoopOK
<1>13. QED BY <1>4, <1>11, <1>12, SameTables, MakeCron

LEMMA BadElementOK ==
  ASSUME CronInv, BadElement PROVE CronInv'
<1>1. /\ ps' = 0 /\ where' = "finish" /\ UNCHANGED <<text, field, loop, tables>>
  BY DEF BadElement, NULL
<1>2. 0 \in 0..(Len(text) + 1)
  BY CronShape
<1>3. CronTypeOK'
  BY <1>1, <1>2 DEF CronInv, CronTypeOK
<1>4. QED BY <1>1, <1>3 DEF CronInv, PlaceOK, LoopOK, TablesOK

LEMMA MarkOK ==
  ASSUME CronInv, Mark PROVE CronInv'
<1>1. /\ Put({loop.i}) /\ loop' = [loop EXCEPT !.i = Counted]
      /\ where = "loop" /\ loop.i <= loop.to /\ UNCHANGED <<text, ps, field, where>>
  BY DEF Mark, InLoop
<1>2. {loop.i} \subseteq 0..FieldMax[field]
  BY <1>1, CronShape
<1>3. /\ tables' \in [Fields -> SUBSET Nat]
      /\ \A f \in Fields : tables'[f] \subseteq 0..(FieldSize[f] - 1)
  BY <1>1, <1>2, PutOK
<1>4. Counted \in Nat
  <2>1. PICK n \in Nat : n = loop.i + loop.step
    BY CronShape
  <2>2. n % Byte \in Nat
    BY Constants
  <2>3. QED BY <2>1, <2>2 DEF Counted
<1>5. LoopOK' /\ loop'.to = loop.to
  BY <1>1, <1>4 DEF CronInv, LoopOK
<1>6. InText(ps') /\ field' \in Fields /\ loop'.to <= FieldMax[field']
  BY <1>1, <1>5, CronShape DEF InText
<1>7. QED BY <1>1, <1>3, <1>5, <1>6, MakeCron

LEMMA LoopEndsOK ==
  ASSUME CronInv, LoopEnds PROVE CronInv'
<1>1. where = "loop" /\ where' = "comma" /\ UNCHANGED <<text, ps, field, loop, tables>>
  BY DEF LoopEnds
<1>2. InText(ps') /\ field' \in Fields /\ LoopOK'
  BY <1>1, CronShape DEF InText, CronInv, LoopOK
<1>3. QED BY <1>1, <1>2, SameTables, MakeCron

LEMMA EntryEndsOK ==
  ASSUME CronInv, EntryEnds PROVE CronInv'
<1>1. PICK next : next = SkipSpaces(AfterEntry(ps))
  OBVIOUS
<1>2. /\ ps' = next /\ UNCHANGED <<text, loop, tables>>
      /\ \/ where' = "finish" /\ UNCHANGED field
         \/ where' = "list" /\ field' = 1
  BY <1>1 DEF EntryEnds
<1>3. InText(SkipToEol(ps))
  BY CronShape, SkipToEolOK DEF EntryEnds
<1>4. CharAt(SkipToEol(ps)) = ";" => InText(SkipToEol(ps) + 1)
  BY CronShape, NextInText DEF End
<1>5. InText(AfterEntry(ps))
  BY <1>3, <1>4 DEF AfterEntry
<1>6. InText(next)
  BY <1>1, <1>5, CronShape, SkipSpacesOK
<1>7. InText(ps') /\ field' \in Fields /\ LoopOK'
  BY <1>2, <1>6, CronShape DEF InText, CronInv, LoopOK, Fields
<1>8. QED BY <1>2, <1>7, SameTables, MakeCron

LEMMA FinishOK ==
  ASSUME CronInv, Finish PROVE CronInv'
<1>1. /\ where' = "done" /\ UNCHANGED <<text, ps, field, loop>>
      /\ tables' = IF 7 \in tables[Weekday]
                   THEN [tables EXCEPT ![Weekday] = @ \cup {0}] ELSE tables
  BY DEF Finish
<1>2. tables \in [Fields -> SUBSET Nat] /\ 0 \in 0..(FieldSize[Weekday] - 1)
  BY Constants DEF CronInv, TablesOK
<1>3. tables' \in [Fields -> SUBSET Nat]
  <2>1. [tables EXCEPT ![Weekday] = @ \cup {0}] \in [Fields -> SUBSET Nat]
    BY <1>2, Constants
  <2>2. QED BY <1>1, <1>2, <2>1
<1>4. ASSUME NEW f \in Fields PROVE tables'[f] \subseteq 0..(FieldSize[f] - 1)
  <2>1. tables[f] \subseteq 0..(FieldSize[f] - 1)
    BY CronShape
  <2>2. tables'[f] \subseteq tables[f] \cup (IF f = Weekday THEN {0} ELSE {})
    BY <1>1, <1>2
  <2>3. QED BY <1>2, <2>1, <2>2
<1>5. CronTypeOK'
  BY <1>1, <1>4 DEF CronInv, CronTypeOK
<1>6. QED BY <1>1, <1>3, <1>5 DEF CronInv, PlaceOK, LoopOK, TablesOK

LEMMA CronNextOK ==
  ASSUME CronInv, CronNext PROVE CronInv'
BY ListDefaultOK, ListBeginsOK, NextElementOK, ListEndsOK, StarOK, SingleOK, RangeOK,
   BadElementOK, MarkOK, LoopEndsOK, EntryEndsOK, FinishOK DEF CronNext

LEMMA StartCronOK ==
  ASSUME CronInv, NEW t \in Seq(Characters), StartCron(t) PROVE CronInv'
<1>1. /\ text' = t /\ field' = 1 /\ UNCHANGED loop
  BY DEF StartCron
<1>2. Len(t) \in Nat /\ DOMAIN t = 1..Len(t)
  BY LenProperties
<1>3. field' \in Fields /\ LoopOK'
  BY <1>1 DEF Fields, CronInv, LoopOK
<1>4. CASE t = <<>>
  <2>1. where' = "done" /\ ps' = 1 /\ UNCHANGED tables
    BY <1>4 DEF StartCron
  <2>2. ps' \in 0..(Len(t) + 1)
    BY <1>2, <2>1
  <2>3. CronTypeOK'
    BY <1>1, <1>3, <2>1, <2>2, SameTables DEF CronTypeOK, Characters
  <2>4. QED BY <1>3, <2>1, <2>3 DEF CronInv, PlaceOK, TablesOK
<1>5. CASE t # <<>>
  <2> DEFINE S == {q \in Nat : q \in DOMAIN t => t[q] # " "}
             First1(q) == /\ q \in DOMAIN t => t[q] # " "
                          /\ \A r \in 1..(q - 1) : t[r] = " "
  <2>1. PICK start : start = CHOOSE q \in 1..(Len(t) + 1) : First1(q)
    OBVIOUS
  <2>2. \E q \in 1..(Len(t) + 1) : First1(q)
    <3>1. Len(t) + 1 \in S
      <4>1. Len(t) + 1 \in Nat /\ Len(t) + 1 \notin 1..Len(t)
        BY <1>2
      <4>2. QED BY <1>2, <4>1
    <3>2. \E q \in 1..(Len(t) + 1) : q \in S /\ \A r \in 1..(q - 1) : r \notin S
      <4> HIDE DEF S
      <4>1. PICK n \in S : n = Len(t) + 1
        BY <3>1
      <4>2. 1 \in Nat /\ n \in Nat /\ 1 <= n
        BY <1>2, <4>1
      <4>3. QED BY <4>1, <4>2, First
    <3>3. PICK q \in 1..(Len(t) + 1) : q \in S /\ \A r \in 1..(q - 1) : r \notin S
      BY <3>2
    <3>4. First1(q)
      <4>1. q \in Nat /\ \A r \in 1..(q - 1) : r \in Nat
        BY <1>2
      <4>2. (q \in DOMAIN t => t[q] # " ") /\ \A r \in 1..(q - 1) : t[r] = " "
        BY <3>3, <4>1
      <4>3. QED BY <4>2
    <3>5. QED BY <3>4
  <2>3. start \in 1..(Len(t) + 1)
    <3> HIDE DEF First1
    <3>1. QED BY <2>1, <2>2
  <2>4. /\ ps' = IF start \in DOMAIN t /\ t[start] \in {"Z", "L"} THEN start + 1 ELSE start
        /\ tables' = Cleared /\ where' = "list"
    BY <1>5, <2>1 DEF StartCron
  <2>5. ps' \in 0..(Len(t) + 1) /\ ps' > 0
    BY <1>2, <2>3, <2>4
  <2>6. tables' \in [Fields -> SUBSET Nat] /\ \A f \in Fields : tables'[f] = {}
    BY <2>4 DEF Cleared
  <2>7. CronTypeOK'
    BY <1>1, <1>3, <2>4, <2>5, <2>6 DEF CronTypeOK, Characters
  <2>8. QED BY <1>3, <2>5, <2>6, <2>7 DEF CronInv, PlaceOK, TablesOK
<1>6. QED BY <1>4, <1>5

LEMMA SameCron ==
  ASSUME CronInv, UNCHANGED cronVars PROVE CronInv'
BY DEF CronInv, CronTypeOK, PlaceOK, LoopOK, TablesOK, cronVars

-----------------------------------------------------------------------------
(* The command line.                                                       *)

ArgsOK ==
  /\ argv \in Seq(Arguments)
  /\ ac \in 0..Len(argv) /\ av \in 1..(Len(argv) + 2)
  /\ DOMAIN stack = 0..FileStackSize - 1 /\ top \in 0..FileStackSize - 1
  /\ seconds \in 0..(2 * IntMax + 1) /\ cron \in BOOLEAN
  /\ pc \in {"options", "cron", "rest", "reverse", "service", "served", "exit"}

LEMMA Parts == IInv <=> ArgsOK /\ CronInv /\ CountOK /\ TextsOK
BY DEF IInv, ArgsOK, ArgStackTypeOK, CronInv

LEMMA ArgsShape ==
  ASSUME IInv
  PROVE  /\ Len(argv) \in Nat /\ DOMAIN argv = 1..Len(argv)
         /\ ac \in Nat /\ av \in Nat /\ ac <= Len(argv) /\ av >= 1
         /\ top \in Nat /\ top <= FileStackSize - 1
BY Constants, LenProperties, Parts DEF ArgsOK

LEMMA PushOK ==
  ASSUME IInv, NEW f, Push(f)
  PROVE  DOMAIN stack' = 0..FileStackSize - 1 /\ top' \in 0..FileStackSize - 1
<1>1. DOMAIN stack = 0..FileStackSize - 1 /\ top \in Nat /\ top <= FileStackSize - 1
  BY ArgsShape, Parts DEF ArgsOK
<1>2. QED BY <1>1, Constants DEF Push

\* Steps of the loop that leave the strings alone.
LEMMA NoArgumentsOK ==
  ASSUME IInv, NoArguments PROVE IInv'
<1>1. CronInv'
  BY Parts, SameCron DEF NoArguments
<1>2. ArgsOK' /\ CountOK' /\ TextsOK'
  BY Parts DEF NoArguments, ArgsOK, CountOK, TextsOK
<1>3. QED BY <1>1, <1>2 DEF IInv, ArgsOK, ArgStackTypeOK, CronInv

LEMMA EndOfOptionsOK ==
  ASSUME IInv, EndOfOptions PROVE IInv'
<1>1. CronInv'
  BY Parts, SameCron DEF EndOfOptions
<1>2. ArgsOK' /\ CountOK' /\ TextsOK'
  BY Parts, ArgsShape DEF EndOfOptions, ArgsOK, CountOK, TextsOK
<1>3. QED BY <1>1, <1>2, Parts DEF IInv, ArgsOK, ArgStackTypeOK, CronInv

LEMMA FileOK ==
  ASSUME IInv, File PROVE IInv'
<1>1. CronInv'
  BY Parts, SameCron DEF File
<1>2. DOMAIN stack' = 0..FileStackSize - 1 /\ top' \in 0..FileStackSize - 1
  <2>1. CASE top = FileStackSize
    BY <2>1, Parts DEF File, ArgsOK
  <2>2. CASE top # FileStackSize
    BY <2>2, PushOK DEF File
  <2>3. QED BY <2>1, <2>2
<1>3. ac > 0 /\ av' = av + 1 /\ ac' = ac - 1 /\ UNCHANGED <<argv, texts, seconds, cron, pc>>
      /\ pc = "options"
  BY DEF File, Advance
<1>4. av' \in 1..(Len(argv) + 2) /\ ac' \in 0..Len(argv)
      /\ av' + ac' = Len(argv) + 1
  BY <1>3, ArgsShape, Parts DEF CountOK
<1>5. ArgsOK' /\ CountOK' /\ TextsOK'
  BY <1>2, <1>3, <1>4, Parts DEF ArgsOK, CountOK, TextsOK
<1>6. QED BY <1>1, <1>5 DEF IInv, ArgsOK, ArgStackTypeOK, CronInv

LEMMA FlagOK ==
  ASSUME IInv, Flag PROVE IInv'
<1>1. CronInv'
  BY Parts, SameCron DEF Flag
<1>2. ac > 0 /\ av' = av + 1 /\ ac' = ac - 1 /\ pc = "options"
      /\ UNCHANGED <<argv, texts, stack, top, seconds, cron, pc>>
  BY DEF Flag, Advance
<1>3. av' \in 1..(Len(argv) + 2) /\ ac' \in 0..Len(argv)
      /\ av' + ac' = Len(argv) + 1
  BY <1>2, ArgsShape, Parts DEF CountOK
<1>4. ArgsOK' /\ CountOK' /\ TextsOK'
  BY <1>2, <1>3, Parts DEF ArgsOK, CountOK, TextsOK
<1>5. QED BY <1>1, <1>4 DEF IInv, ArgsOK, ArgStackTypeOK, CronInv

\* An option with an argument takes two of the arguments that are left.
LEMMA TakesTwo ==
  ASSUME IInv, pc = "options", ac > 1, Advance(2), UNCHANGED argv
  PROVE  /\ av' \in 1..(Len(argv') + 2) /\ ac' \in 0..Len(argv')
         /\ av' + ac' = Len(argv') + 1
<1>1. av' = av + 2 /\ ac' = ac - 2 /\ av + ac = Len(argv) + 1
  BY Parts DEF Advance, CountOK
<1>2. QED BY <1>1, ArgsShape

\* What -c is given is a string, whichever argument it is.
LEMMA TextOfIs ==
  ASSUME TextsOK, NEW a PROVE TextOf(a) \in Seq(Characters)
<1>1. "x" \in Characters
  BY DEF Characters, Marks
<1>2. <<"x">> \in Seq(Characters) /\ <<>> \in Seq(Characters)
  BY <1>1
<1>3. QED BY <1>2 DEF TextOf, TextsOK

LEMMA CronArgOK ==
  ASSUME IInv, CronArg PROVE IInv'
<1>1. PICK t : t = TextOf(At(av + 1))
  OBVIOUS
<1>2. /\ pc = "options" /\ ac > 1 /\ Advance(2) /\ cron' = TRUE /\ pc' = "cron"
      /\ StartCron(t) /\ UNCHANGED <<argv, texts, stack, top, seconds>>
  BY <1>1 DEF CronArg, HasArg
<1>3. t \in Seq(Characters)
  BY <1>1, TextOfIs, Parts
<1>4. CronInv'
  BY <1>2, <1>3, Parts, StartCronOK
<1>5. ArgsOK' /\ CountOK' /\ TextsOK'
  BY <1>2, TakesTwo, Parts DEF ArgsOK, CountOK, TextsOK
<1>6. QED BY <1>4, <1>5 DEF IInv, ArgsOK, ArgStackTypeOK, CronInv

LEMMA ParseCronOK ==
  ASSUME IInv, ParseCron PROVE IInv'
<1>1. CronInv'
  BY Parts, CronNextOK DEF ParseCron
<1>2. ArgsOK' /\ CountOK' /\ TextsOK'
  BY Parts DEF ParseCron, argVars, ArgsOK, CountOK, TextsOK
<1>3. QED BY <1>1, <1>2 DEF IInv, ArgsOK, ArgStackTypeOK, CronInv

LEMMA CronParsedOK ==
  ASSUME IInv, CronParsed PROVE IInv'
<1>1. CronInv'
  BY Parts, SameCron DEF CronParsed
<1>2. ArgsOK' /\ CountOK' /\ TextsOK'
  BY Parts DEF CronParsed, ArgsOK, CountOK, TextsOK
<1>3. QED BY <1>1, <1>2 DEF IInv, ArgsOK, ArgStackTypeOK, CronInv

\* The remainder of a number, for any number that the text may stand for.
LEMMA UnsignedOK ==
  ASSUME NEW n \in Int PROVE AsUnsigned(n) \in 0..(2 * IntMax + 1)
<1>1. PICK m \in Nat \ {0} : m = 2 * (IntMax + 1)
  BY Constants
<1>2. n % m \in 0..(m - 1)
  OBVIOUS
<1>3. m - 1 = 2 * IntMax + 1
  BY <1>1, Constants
<1>4. QED BY <1>1, <1>2, <1>3 DEF AsUnsigned

LEMMA SecondsArgOK ==
  ASSUME IInv, SecondsArg PROVE IInv'
<1>1. CronInv'
  BY Parts, SameCron DEF SecondsArg
<1>2. PICK a : a = At(av + 1)
  OBVIOUS
<1>3. /\ pc = "options" /\ ac > 1 /\ Advance(2) /\ UNCHANGED <<argv, texts, stack, top, cron>>
      /\ \/ ParsesTo(a) /\ seconds' = AsUnsigned(Number[a]) /\ UNCHANGED pc
         \/ a = Empty /\ UNCHANGED <<seconds, pc>>
         \/ pc' = "exit" /\ UNCHANGED seconds
  <2>1. a # Empty /\ Accepted(a) => ParsesTo(a) /\ SecondsAfter(a) = AsUnsigned(Number[a])
    BY DEF Accepted, SecondsAfter
  <2>2. a = Empty => SecondsAfter(a) = seconds
    BY DEF SecondsAfter
  <2>3. QED BY <1>2, <2>1, <2>2 DEF SecondsArg, HasArg
<1>4. seconds' \in 0..(2 * IntMax + 1)
  <2>1. CASE ParsesTo(a) /\ seconds' = AsUnsigned(Number[a])
    <3>1. Number[a] \in Int
      BY <2>1, Constants DEF ParsesTo
    <3>2. QED BY <2>1, <3>1, UnsignedOK
  <2>2. CASE UNCHANGED seconds
    BY <2>2, Parts DEF ArgsOK
  <2>3. QED BY <1>3, <2>1, <2>2
<1>5. pc' \in {"options", "exit"}
  BY <1>3
<1>6. ArgsOK' /\ CountOK' /\ TextsOK'
  BY <1>3, <1>4, <1>5, TakesTwo, Parts DEF ArgsOK, CountOK, TextsOK
<1>7. QED BY <1>1, <1>6 DEF IInv, ArgsOK, ArgStackTypeOK, CronInv

LEMMA StopsOK ==
  ASSUME IInv, Stops PROVE IInv'
<1>1. CronInv'
  BY Parts, SameCron DEF Stops
<1>2. /\ ac > 0 /\ av' = av + 1 /\ ac' = ac - 1 /\ pc = "options" /\ pc' = "exit"
      /\ UNCHANGED <<argv, texts, stack, top, seconds, cron>>
  BY DEF Stops, Advance
<1>3. av' \in 1..(Len(argv) + 2) /\ ac' \in 0..Len(argv)
  BY <1>2, ArgsShape, Parts DEF CountOK
<1>4. ArgsOK' /\ CountOK' /\ TextsOK'
  BY <1>2, <1>3, Parts DEF ArgsOK, CountOK, TextsOK
<1>5. QED BY <1>1, <1>4 DEF IInv, ArgsOK, ArgStackTypeOK, CronInv

\* The end of main: the walk ends on the NULL after the last argument.
LEMMA RestOK ==
  ASSUME IInv, Rest PROVE IInv'
<1>1. CronInv'
  BY Parts, SameCron DEF Rest
<1>2. /\ pc = "rest" /\ av' = av + 1 /\ UNCHANGED <<argv, texts, ac, seconds, cron>>
      /\ \/ /\ At(av + 1) # Null /\ Push(At(av + 1)) /\ UNCHANGED pc
         \/ pc' = "reverse" /\ UNCHANGED <<stack, top>>
  BY DEF Rest
<1>3. DOMAIN stack' = 0..FileStackSize - 1 /\ top' \in 0..FileStackSize - 1
  <2>1. UNCHANGED <<stack, top>> =>
           DOMAIN stack' = 0..FileStackSize - 1 /\ top' \in 0..FileStackSize - 1
    BY Parts DEF ArgsOK
  <2>2. Push(At(av + 1)) =>
           DOMAIN stack' = 0..FileStackSize - 1 /\ top' \in 0..FileStackSize - 1
    BY PushOK
  <2>3. QED BY <1>2, <2>1, <2>2
<1>4. av \in Nat /\ av >= 1 /\ av <= Len(argv) + 1 /\ Len(argv) \in Nat
  BY <1>2, ArgsShape, Parts DEF CountOK
<1>5. At(av + 1) # Null => av + 1 <= Len(argv)
  BY <1>4, ArgsShape DEF At
<1>6. pc' = "rest" => av' <= Len(argv) + 1
  BY <1>2, <1>4, <1>5
<1>7. av' \in 1..(Len(argv) + 2) /\ pc' \in {"rest", "reverse"}
  BY <1>2, <1>4
<1>8. ArgsOK' /\ CountOK' /\ TextsOK'
  BY <1>2, <1>3, <1>6, <1>7, Parts DEF ArgsOK, CountOK, TextsOK
<1>9. QED BY <1>1, <1>8 DEF IInv, ArgsOK, ArgStackTypeOK, CronInv

LEMMA ReverseOK ==
  ASSUME IInv, Reverse PROVE IInv'
<1>1. CronInv'
  BY Parts, SameCron DEF Reverse
<1>2. /\ stack' = Reversed /\ pc' \in {"exit", "service"}
      /\ UNCHANGED <<argv, texts, av, ac, top, seconds, cron>>
  BY DEF Reverse
<1>3. DOMAIN stack' = 0..FileStackSize - 1
  BY <1>2, Parts DEF Reversed, ArgsOK
<1>4. ArgsOK' /\ CountOK' /\ TextsOK'
  BY <1>2, <1>3, Parts DEF ArgsOK, CountOK, TextsOK
<1>5. QED BY <1>1, <1>4 DEF IInv, ArgsOK, ArgStackTypeOK, CronInv

LEMMA PopOK ==
  ASSUME IInv, Pop PROVE IInv'
<1>1. CronInv'
  BY Parts, SameCron DEF Pop
<1>2. /\ UNCHANGED <<argv, texts, av, ac, stack, seconds, cron>>
      /\ top' = top \/ (top > 0 /\ top' = top - 1)
      /\ pc' \in {"service", "served"}
  BY DEF Pop
<1>3. top' \in 0..FileStackSize - 1
  BY <1>2, ArgsShape, Constants
<1>4. ArgsOK' /\ CountOK' /\ TextsOK'
  BY <1>2, <1>3, Parts DEF ArgsOK, CountOK, TextsOK
<1>5. QED BY <1>1, <1>4 DEF IInv, ArgsOK, ArgStackTypeOK, CronInv

-----------------------------------------------------------------------------
(* The specification.                                                      *)

LEMMA InitOK == Init => IInv
<1> SUFFICES ASSUME Init PROVE IInv
  OBVIOUS
<1>1. CronInv
  <2>1. /\ text = <<>> /\ ps = 1 /\ field = 1 /\ where = "idle"
        /\ loop = [i |-> 0, to |-> 0, step |-> 0] /\ tables = Cleared
    BY DEF Init, CronInit
  <2>2. text \in Seq(Numerals \cup Marks) /\ ps \in 0..(Len(text) + 1)
    BY <2>1
  <2>3. \A f \in Fields : tables[f] \subseteq 0..(FieldSize[f] - 1)
    BY <2>1 DEF Cleared
  <2>4. CronTypeOK
    BY <2>1, <2>2, <2>3 DEF CronTypeOK, Fields
  <2>5. PlaceOK /\ LoopOK /\ TablesOK
    BY <2>1 DEF PlaceOK, LoopOK, TablesOK, Cleared
  <2>6. QED BY <2>4, <2>5 DEF CronInv
<1>2. PICK input \in Inputs : argv = input.argv /\ texts = input.texts
  BY DEF Init
<1>3. argv \in Seq(Arguments) /\ TextsOK
  BY <1>2, ArgStackAssumption DEF TextsOK, Characters
<1>4. Len(argv) \in Nat
  BY <1>3, LenProperties
<1>5. /\ av = 1 /\ ac = Len(argv) /\ top = 0 /\ seconds = 0 /\ cron = FALSE
      /\ pc = "options" /\ stack = [i \in 0..FileStackSize - 1 |-> Null]
  BY DEF Init
<1>6. ac \in 0..Len(argv) /\ av \in 1..(Len(argv) + 2) /\ av + ac = Len(argv) + 1
  BY <1>4, <1>5
<1>7. top \in 0..FileStackSize - 1 /\ seconds \in 0..(2 * IntMax + 1)
  BY <1>5, Constants
<1>8. ArgsOK
  BY <1>3, <1>5, <1>6, <1>7 DEF ArgsOK
<1>9. CountOK
  BY <1>5, <1>6 DEF CountOK
<1>10. QED BY <1>1, <1>3, <1>8, <1>9, Parts

LEMMA NextOK == IInv /\ [Next]_vars => IInv'
<1>1. ASSUME IInv, Next PROVE IInv'
  BY <1>1, NoArgumentsOK, EndOfOptionsOK, FileOK, FlagOK, CronArgOK, ParseCronOK,
     CronParsedOK, SecondsArgOK, StopsOK, RestOK, ReverseOK, PopOK DEF Next
<1>2. ASSUME IInv, UNCHANGED vars PROVE IInv'
  <2>1. CronInv'
    BY <1>2, Parts, SameCron DEF vars
  <2>2. ArgsOK' /\ CountOK' /\ TextsOK'
    BY <1>2, Parts DEF vars, argVars, ArgsOK, CountOK, TextsOK
  <2>3. QED BY <2>1, <2>2 DEF IInv, ArgsOK, ArgStackTypeOK, CronInv
<1>3. QED BY <1>1, <1>2

LEMMA Invariance == Spec => []IInv
BY InitOK, NextOK, PTL DEF Spec

\* The counters of getopts and the stack of file names stay within their
\* bounds, and no string makes the parser leave it or its tables.
THEOREM ArgStackTypeCorrect == Spec => []ArgStackTypeOK
<1>1. IInv => ArgStackTypeOK
  BY DEF IInv
<1>2. QED BY <1>1, Invariance, PTL

-----------------------------------------------------------------------------
(* What the command line says: its places, and the files among them.       *)

\* A set that is defined from the end of 1..(n + 2) on.
Walks(f, n, Ends, Twice) ==
  f = [i \in 1..(n + 2) |->
         IF i > n \/ i \in Ends THEN {}
         ELSE {i} \cup f[IF i \in Twice THEN i + 2 ELSE i + 1]]

LEMMA Backwards ==
  ASSUME NEW n \in Nat, NEW Ends, NEW Twice
  PROVE  \E f : Walks(f, n, Ends, Twice)
<1> DEFINE Val(f, i) == IF i > n \/ i \in Ends THEN {}
                        ELSE {i} \cup f[IF i \in Twice THEN i + 2 ELSE i + 1]
           Good(k) == \E f : /\ f \in [k..(n + 2) -> SUBSET Nat]
                             /\ \A i \in k..(n + 2) : f[i] = Val(f, i)
           T == {d \in 0..n : ~Good(n + 1 - d)}
<1>1. Good(n + 1)
  <2> DEFINE f == [i \in (n + 1)..(n + 2) |-> {}]
  <2>1. f \in [(n + 1)..(n + 2) -> SUBSET Nat]
    OBVIOUS
  <2>2. \A i \in (n + 1)..(n + 2) : f[i] = {} /\ i > n
    OBVIOUS
  <2> HIDE DEF f
  <2>3. QED BY <2>1, <2>2
<1>2. ASSUME NEW k \in 1..n, Good(k + 1) PROVE Good(k)
  <2>1. PICK f \in [(k + 1)..(n + 2) -> SUBSET Nat] :
                 \A i \in (k + 1)..(n + 2) : f[i] = Val(f, i)
    BY <1>2
  <2> DEFINE w == Val(f, k)
             g == [i \in k..(n + 2) |-> IF i = k THEN w ELSE f[i]]
  <2>2. w \in SUBSET Nat
    <3>1. k + 1 \in (k + 1)..(n + 2) /\ k + 2 \in (k + 1)..(n + 2)
      OBVIOUS
    <3>2. f[k + 1] \in SUBSET Nat /\ f[k + 2] \in SUBSET Nat
      BY <2>1, <3>1
    <3>3. QED BY <3>2
  <2> HIDE DEF w, T, Good
  <2>3. \A i \in k..(n + 2) : i = k \/ i \in (k + 1)..(n + 2)
    OBVIOUS
  <2>4. g \in [k..(n + 2) -> SUBSET Nat]
    BY <2>1, <2>2, <2>3
  <2>5. g[k] = w /\ \A i \in (k + 1)..(n + 2) : g[i] = f[i]
    OBVIOUS
  <2> HIDE DEF g
  <2>6. ASSUME NEW i \in k..(n + 2) PROVE g[i] = Val(g, i)
    <3>1. CASE i > n
      <4>1. i \in (k + 1)..(n + 2)
        BY <3>1
      <4>2. f[i] = {}
        BY <2>1, <3>1, <4>1
      <4>3. QED BY <2>5, <3>1, <4>1, <4>2
    <3>2. CASE i <= n
      <4>1. i + 1 \in (k + 1)..(n + 2) /\ i + 2 \in (k + 1)..(n + 2)
        BY <3>2
      <4>2. Val(g, i) = Val(f, i)
        BY <2>5, <4>1
      <4>3. CASE i = k
        BY <2>5, <4>2, <4>3 DEF w
      <4>4. CASE i # k
        <5>1. i \in (k + 1)..(n + 2)
          BY <4>4
        <5>2. QED BY <2>1, <2>5, <4>2, <5>1
      <4>5. QED BY <4>3, <4>4
    <3>3. QED BY <3>1, <3>2
  <2>7. QED BY <2>4, <2>6 DEF Good
<1> HIDE DEF Good
<1>3. Good(1)
  <2> SUFFICES ASSUME ~Good(1) PROVE FALSE
    OBVIOUS
  <2>1. T \subseteq Nat /\ n \in T
    <3>1. n + 1 - n = 1 /\ n \in 0..n
      OBVIOUS
    <3>2. QED BY <3>1
  <2>2. PICK d \in T : \A e \in T : d <= e
    BY <2>1, Least
  <2>3. d \in 1..n
    <3>1. d # 0
      <4> SUFFICES ASSUME d = 0 PROVE FALSE
        OBVIOUS
      <4>1. n + 1 - d = n + 1
        OBVIOUS
      <4>2. QED BY <1>1, <4>1
    <3>2. QED BY <3>1
  <2>4. d - 1 \notin T /\ d - 1 \in 0..n
    BY <2>2, <2>3
  <2>5. Good(n + 1 - (d - 1))
    BY <2>4
  <2>6. PICK k \in 1..n : k = n + 1 - d
    BY <2>3
  <2>7. n + 1 - (d - 1) = k + 1
    BY <2>3, <2>6
  <2>8. Good(k)
    BY <1>2, <2>5, <2>7
  <2>9. QED BY <2>2, <2>6, <2>8
<1>4. PICK f \in [1..(n + 2) -> SUBSET Nat] : \A i \in 1..(n + 2) : f[i] = Val(f, i)
  BY <1>3 DEF Good
<1>5. f = [i \in 1..(n + 2) |-> Val(f, i)]
  BY <1>4
<1>6. QED BY <1>5 DEF Walks

StepTo(i) == IF At(i) \in WithArg THEN i + 2 ELSE i + 1

\* PlacesFrom is what it is defined to be.
LEMMA PlacesRule ==
  ASSUME argv \in Seq(Arguments), NEW i \in 1..(Len(argv) + 2)
  PROVE  PlacesFrom[i] = IF i > Len(argv) \/ At(i) = "--" THEN {}
                         ELSE {i} \cup PlacesFrom[StepTo(i)]
<1>1. PICK n \in Nat : n = Len(argv)
  BY LenProperties
<1> DEFINE Ends  == {j \in Nat : At(j) = "--"}
           Twice == {j \in Nat : At(j) \in WithArg}
           V(f, j) == IF j > Len(argv) \/ At(j) = "--" THEN {}
                      ELSE {j} \cup f[IF At(j) \in WithArg THEN j + 2 ELSE j + 1]
<1>2. PICK f : Walks(f, n, Ends, Twice)
  <2> HIDE DEF Ends, Twice
  <2>1. QED BY Backwards
<1>3. f = [j \in 1..(Len(argv) + 2) |-> V(f, j)]
  <2>1. \A j \in 1..(n + 2) : (j \in Ends <=> At(j) = "--")
                               /\ (j \in Twice <=> At(j) \in WithArg)
    OBVIOUS
  <2> HIDE DEF Ends, Twice
  <2>2. QED BY <1>1, <1>2, <2>1 DEF Walks
<1>4. PlacesFrom = [j \in 1..(Len(argv) + 2) |-> V(PlacesFrom, j)]
  <2>1. PlacesFrom = CHOOSE g : g = [j \in 1..(Len(argv) + 2) |-> V(g, j)]
    BY DEF PlacesFrom
  <2> HIDE DEF V
  <2>2. QED BY <1>3, <2>1
<1>5. QED BY <1>4 DEF StepTo

\* From i on there are only places from i on.
LEMMA PlacesAhead ==
  ASSUME argv \in Seq(Arguments)
  PROVE  \A i \in 1..(Len(argv) + 2) : PlacesFrom[i] \subseteq i..Len(argv)
<1>1. PICK n \in Nat : n = Len(argv)
  BY LenProperties
<1> DEFINE Bad(d) == ~(PlacesFrom[n + 2 - d] \subseteq (n + 2 - d)..n)
           T == {d \in 0..(n + 1) : Bad(d)}
<1>2. T = {}
  <2> SUFFICES ASSUME T # {} PROVE FALSE
    OBVIOUS
  <2>1. PICK d \in T : \A e \in T : d <= e
    <3>1. T \subseteq Nat
      OBVIOUS
    <3> HIDE DEF T
    <3>2. QED BY <3>1, Least
  <2>2. PICK i \in 1..(n + 2) : i = n + 2 - d
    BY <2>1
  <2>3. PlacesFrom[i] = IF i > n \/ At(i) = "--" THEN {}
                        ELSE {i} \cup PlacesFrom[StepTo(i)]
    BY <1>1, PlacesRule
  <2>4. i <= n /\ PlacesFrom[i] = {i} \cup PlacesFrom[StepTo(i)]
    BY <2>1, <2>2, <2>3
  <2>5. PICK e \in {d - 1, d - 2} : StepTo(i) = n + 2 - e
    BY <2>1, <2>2 DEF StepTo
  <2>6. e \in 0..(n + 1) /\ e < d /\ d \in 0..(n + 1)
    BY <2>1, <2>2, <2>4, <2>5
  <2>7. ~Bad(e)
    <3> HIDE DEF Bad
    <3>1. e \notin T
      <4> HIDE DEF T
      <4>1. d \in Nat /\ e \in Nat
        BY <2>6
      <4>2. QED BY <2>1, <2>6, <4>1
    <3>2. QED BY <2>6, <3>1
  <2>8. PlacesFrom[StepTo(i)] \subseteq i..n
    BY <2>1, <2>2, <2>5, <2>6, <2>7
  <2>9. PlacesFrom[i] \subseteq i..n
    BY <2>4, <2>8
  <2>10. QED BY <2>1, <2>2, <2>9
<1>3. ASSUME NEW i \in 1..(Len(argv) + 2) PROVE PlacesFrom[i] \subseteq i..Len(argv)
  <2>1. PICK d \in 0..(n + 1) : d = n + 2 - i
    <3>1. n + 2 - i \in 0..(n + 1)
      BY <1>1
    <3>2. QED BY <3>1
  <2>2. n + 2 - d = i
    BY <1>1, <2>1
  <2>3. ~Bad(d)
    BY <1>2
  <2>4. QED BY <1>1, <2>2, <2>3
<1>4. QED BY <1>3

\* What is said of the arguments does not change while they do not.
LEMMA SamePlaces ==
  ASSUME UNCHANGED argv
  PROVE  UNCHANGED <<PlacesFrom, Places, DashDash>>
<1>1. UNCHANGED PlacesFrom
  BY DEF PlacesFrom, At
<1>2. UNCHANGED Places
  BY <1>1 DEF Places
<1>3. UNCHANGED DashDash
  BY <1>2 DEF DashDash
<1>4. QED BY <1>1, <1>2, <1>3

LEMMA SameFiles ==
  ASSUME UNCHANGED argv, NEW i
  PROVE  (IsFile(i)' <=> IsFile(i)) /\ UNCHANGED FileName(i)
BY SamePlaces DEF IsFile, FileName

\* The files up to position p, and their number.
FilesTo(p) == {j \in DOMAIN argv : j <= p /\ IsFile(j)}
Count(p)   == Cardinality(FilesTo(p))

LEMMA FilesFinite ==
  ASSUME argv \in Seq(Arguments), NEW p \in Nat
  PROVE  IsFiniteSet(FilesTo(p)) /\ Count(p) \in Nat
<1>1. IsFiniteSet(1..Len(argv)) /\ DOMAIN argv = 1..Len(argv)
  BY FS_Interval, LenProperties
<1>2. FilesTo(p) \subseteq 1..Len(argv)
  BY <1>1 DEF FilesTo
<1>3. QED BY <1>1, <1>2, FS_Subset, FS_CardinalityType DEF Count

LEMMA CountZero == ASSUME argv \in Seq(Arguments) PROVE Count(0) = 0
<1>1. FilesTo(0) = {}
  BY LenProperties DEF FilesTo
<1>2. QED BY <1>1, FS_EmptySet DEF Count

\* One more position is one more file, or none.
LEMMA CountNext ==
  ASSUME argv \in Seq(Arguments), NEW p \in Nat
  PROVE  /\ p + 1 \in DOMAIN argv /\ IsFile(p + 1) => Count(p + 1) = Count(p) + 1
         /\ p + 1 \notin DOMAIN argv \/ ~IsFile(p + 1) => Count(p + 1) = Count(p)
<1>1. DOMAIN argv = 1..Len(argv) /\ Len(argv) \in Nat
  BY LenProperties
<1>2. ASSUME p + 1 \in DOMAIN argv, IsFile(p + 1) PROVE Count(p + 1) = Count(p) + 1
  <2>1. FilesTo(p + 1) = FilesTo(p) \cup {p + 1} /\ p + 1 \notin FilesTo(p)
    BY <1>1, <1>2 DEF FilesTo
  <2>2. QED BY <2>1, FilesFinite, FS_AddElement DEF Count
<1>3. ASSUME p + 1 \notin DOMAIN argv \/ ~IsFile(p + 1) PROVE Count(p + 1) = Count(p)
  <2>1. FilesTo(p + 1) = FilesTo(p)
    BY <1>1, <1>3 DEF FilesTo
  <2>2. QED BY <2>1 DEF Count
<1>4. QED BY <1>2, <1>3

\* Files further on have larger numbers.
LEMMA CountGrows ==
  ASSUME argv \in Seq(Arguments), NEW p \in Nat, NEW q \in Nat, p <= q
  PROVE  /\ Count(p) <= Count(q)
         /\ p < q /\ q \in DOMAIN argv /\ IsFile(q) => Count(p) < Count(q)
<1>1. DOMAIN argv = 1..Len(argv) /\ Len(argv) \in Nat
  BY LenProperties
<1>2. IsFiniteSet(FilesTo(p)) /\ IsFiniteSet(FilesTo(q)) /\ Count(p) \in Nat /\ Count(q) \in Nat
  BY FilesFinite
<1>3. FilesTo(p) \subseteq FilesTo(q)
  BY <1>1 DEF FilesTo
<1>4. Count(p) <= Count(q)
  BY <1>2, <1>3, FS_Subset DEF Count
<1>5. ASSUME p < q, q \in DOMAIN argv, IsFile(q) PROVE Count(p) < Count(q)
  <2>1. q \in FilesTo(q) /\ q \notin FilesTo(p)
    BY <1>5 DEF FilesTo
  <2>2. FilesTo(p) # FilesTo(q)
    BY <2>1
  <2>3. QED BY <1>2, <1>3, <2>2, FS_Subset DEF Count
<1>6. QED BY <1>4, <1>5

\* Each number up to Count(p) is that of one file.
LEMMA CountFinds ==
  ASSUME argv \in Seq(Arguments), NEW p \in Nat, NEW n \in 1..Count(p)
  PROVE  \E i \in DOMAIN argv : i <= p /\ IsFile(i) /\ Count(i) = n
<1> DEFINE T == {q \in Nat : Count(q) >= n}
<1>1. p \in T /\ T \subseteq Nat
  BY FilesFinite
<1>2. PICK q \in T : \A r \in T : q <= r
  <2> HIDE DEF T
  <2>1. QED BY <1>1, Least
<1>3. q \in Nat /\ q <= p /\ Count(q) >= n /\ n \in Nat
  BY <1>1, <1>2
<1>4. q # 0
  BY <1>3, CountZero
<1>5. PICK r \in Nat : r + 1 = q
  <2>1. q - 1 \in Nat /\ (q - 1) + 1 = q
    BY <1>3, <1>4
  <2>2. QED BY <2>1
<1>6. r \notin T
  <2> HIDE DEF T
  <2>1. ~(q <= r)
    BY <1>5
  <2>2. QED BY <1>2, <2>1
<1>7. Count(r) \in Nat /\ Count(q) \in Nat /\ Count(r) < n
  BY <1>3, <1>5, <1>6, FilesFinite
<1>8. q \in DOMAIN argv /\ IsFile(q) /\ Count(q) = Count(r) + 1
  BY <1>3, <1>5, <1>7, CountNext
<1>9. Count(q) = n
  BY <1>3, <1>7, <1>8
<1>10. QED BY <1>3, <1>8, <1>9

\* The file that has a number is the one NthFile gives.
LEMMA NthFileIs ==
  ASSUME argv \in Seq(Arguments), NEW i \in DOMAIN argv, IsFile(i)
  PROVE  NthFile(Count(i)) = i
<1>1. DOMAIN argv = 1..Len(argv) /\ Len(argv) \in Nat
  BY LenProperties
<1>2. ASSUME NEW k \in DOMAIN argv
      PROVE  Cardinality({j \in 1..k : IsFile(j)}) = Count(k)
  <2>1. {j \in 1..k : IsFile(j)} = FilesTo(k)
    BY <1>1 DEF FilesTo
  <2>2. QED BY <2>1 DEF Count
<1>3. ASSUME NEW k \in DOMAIN argv, IsFile(k), Count(k) = Count(i) PROVE k = i
  <2>0. k \in Nat /\ i \in Nat
    BY <1>1
  <2>1. k \in Nat /\ i \in Nat /\ Count(k) \in Nat /\ Count(i) \in Nat
    BY <2>0, FilesFinite
  <2>2. ~(k < i) /\ ~(i < k)
    BY <1>3, <2>1, CountGrows
  <2>3. QED BY <2>1, <2>2
<1>4. \A k \in DOMAIN argv :
        (IsFile(k) /\ Cardinality({j \in 1..k : IsFile(j)}) = Count(i)) <=> k = i
  BY <1>2, <1>3
<1>5. QED BY <1>4 DEF NthFile

LEMMA FilesGivenAre ==
  ASSUME argv \in Seq(Arguments)
  PROVE  /\ DOMAIN FilesGiven = 1..Count(Len(argv))
         /\ \A i \in DOMAIN argv : IsFile(i) =>
              Count(i) \in DOMAIN FilesGiven /\ FilesGiven[Count(i)] = FileName(i)
<1>1. DOMAIN argv = 1..Len(argv) /\ Len(argv) \in Nat
  BY LenProperties
<1>2. {i \in DOMAIN argv : IsFile(i)} = FilesTo(Len(argv))
  BY <1>1 DEF FilesTo
<1>3. FilesGiven = [n \in 1..Count(Len(argv)) |-> FileName(NthFile(n))]
  BY <1>2 DEF FilesGiven, Count
<1>4. ASSUME NEW i \in DOMAIN argv, IsFile(i)
      PROVE  Count(i) \in 1..Count(Len(argv))
  <2>0. i \in Nat /\ 0 < i /\ i <= Len(argv)
    BY <1>1
  <2>1. i \in Nat /\ 0 < i /\ i <= Len(argv) /\ Count(i) \in Nat /\ Count(Len(argv)) \in Nat
    BY <1>1, <2>0, FilesFinite
  <2>2. Count(0) < Count(i) /\ Count(i) <= Count(Len(argv))
    BY <1>1, <1>4, <2>1, CountGrows
  <2>3. QED BY <2>1, <2>2, CountZero
<1>5. ASSUME NEW i \in DOMAIN argv, IsFile(i)
      PROVE  Count(i) \in DOMAIN FilesGiven /\ FilesGiven[Count(i)] = FileName(i)
  BY <1>3, <1>4, <1>5, NthFileIs
<1>6. QED BY <1>3, <1>5

LEMMA SameCount ==
  ASSUME UNCHANGED argv, NEW p PROVE UNCHANGED Count(p)
<1>1. UNCHANGED FilesTo(p)
  BY SameFiles DEF FilesTo
<1>2. QED BY <1>1 DEF Count

-----------------------------------------------------------------------------
(* The walk of getopts over the places.                                    *)

\* Up to position a getopts has been at the places, and at what else is there
\* as the argument of an option.
Walked(a) ==
  /\ \A i \in DOMAIN argv : i >= a => (i \in Places <=> i \in PlacesFrom[a])
  /\ \A i \in DOMAIN argv : i < a =>
       \/ i \in Places /\ argv[i] # "--" /\ (argv[i] \in WithArg => i + 1 < a)
       \/ i \notin Places /\ i - 1 \in Places /\ argv[i - 1] \in WithArg

LEMMA ArgvShape ==
  ASSUME argv \in Seq(Arguments)
  PROVE  /\ Len(argv) \in Nat /\ DOMAIN argv = 1..Len(argv)
         /\ Places \subseteq DOMAIN argv
         /\ \A i \in DOMAIN argv : argv[i] \in Arguments /\ At(i) = argv[i]
<1>1. Len(argv) \in Nat /\ DOMAIN argv = 1..Len(argv)
  BY LenProperties
<1>2. 1 \in 1..(Len(argv) + 2)
  BY <1>1
<1>3. Places \subseteq DOMAIN argv
  BY <1>1, <1>2, PlacesAhead DEF Places
<1>4. QED BY <1>1, <1>3, ElementOfSeq DEF At

LEMMA WalkBegins ==
  ASSUME argv \in Seq(Arguments) PROVE Walked(1)
BY ArgvShape DEF Walked, Places

\* An option or a file that getopts is at is a place, its argument is none.
LEMMA Here ==
  ASSUME argv \in Seq(Arguments), NEW a \in DOMAIN argv, Walked(a), argv[a] # "--"
  PROVE  /\ a \in Places
         /\ \A i \in DOMAIN argv : i >= StepTo(a) =>
              (i \in Places <=> i \in PlacesFrom[StepTo(a)])
         /\ \A i \in DOMAIN argv : a < i /\ i < StepTo(a) => i \notin Places
<1>1. a \in 1..Len(argv) /\ Len(argv) \in Nat /\ At(a) = argv[a]
  BY ArgvShape
<1>2. a \in 1..(Len(argv) + 2) /\ StepTo(a) \in 1..(Len(argv) + 2) /\ a < StepTo(a)
  BY <1>1 DEF StepTo
<1>3. PlacesFrom[a] = {a} \cup PlacesFrom[StepTo(a)]
  <2>1. PlacesFrom[a] = IF a > Len(argv) \/ At(a) = "--" THEN {}
                        ELSE {a} \cup PlacesFrom[StepTo(a)]
    BY <1>2, PlacesRule
  <2>2. ~(a > Len(argv))
    BY <1>1
  <2>3. QED BY <1>1, <2>1, <2>2
<1>4. PlacesFrom[StepTo(a)] \subseteq StepTo(a)..Len(argv)
  BY <1>2, PlacesAhead
<1>5. \A i \in DOMAIN argv : i >= a => (i \in Places <=> i \in PlacesFrom[a])
  BY DEF Walked
<1>6. a \in Places
  BY <1>1, <1>3, <1>5
<1>7. ASSUME NEW i \in DOMAIN argv, i >= StepTo(a)
      PROVE  i \in Places <=> i \in PlacesFrom[StepTo(a)]
  <2>1. i \in Nat /\ i >= a /\ i # a
    BY <1>1, <1>2, <1>7, ArgvShape
  <2>2. QED BY <1>3, <1>5, <2>1
<1>8. ASSUME NEW i \in DOMAIN argv, a < i, i < StepTo(a) PROVE i \notin Places
  <2>1. i \in Nat /\ i >= a /\ i # a /\ i \notin StepTo(a)..Len(argv)
    BY <1>1, <1>2, <1>8, ArgvShape
  <2>2. QED BY <1>3, <1>4, <1>5, <2>1
<1>9. QED BY <1>6, <1>7, <1>8

LEMMA WalkGoesOn ==
  ASSUME argv \in Seq(Arguments), NEW a \in DOMAIN argv, Walked(a), argv[a] # "--"
  PROVE  Walked(StepTo(a))
<1>1. a \in Nat /\ At(a) = argv[a] /\ DOMAIN argv \subseteq Nat
  BY ArgvShape
<1>2. a \in Places
  BY Here
<1>3. \A i \in DOMAIN argv : i >= StepTo(a) =>
         (i \in Places <=> i \in PlacesFrom[StepTo(a)])
  BY Here
<1>4. ASSUME NEW i \in DOMAIN argv, i < StepTo(a)
      PROVE  \/ i \in Places /\ argv[i] # "--" /\ (argv[i] \in WithArg => i + 1 < StepTo(a))
             \/ i \notin Places /\ i - 1 \in Places /\ argv[i - 1] \in WithArg
  <2>1. CASE i < a
    <3>1. i \in Nat /\ StepTo(a) \in Nat /\ a <= StepTo(a)
      BY <1>1 DEF StepTo
    <3>2. i + 1 < a => i + 1 < StepTo(a)
      BY <1>1, <3>1
    <3>3. QED BY <2>1, <3>2 DEF Walked
  <2>2. CASE i = a
    <3>1. argv[a] \in WithArg => a + 1 < StepTo(a)
      BY <1>1 DEF StepTo
    <3>2. QED BY <1>2, <2>2, <3>1
  <2>3. CASE i > a
    <3>1. i = a + 1 /\ argv[a] \in WithArg
      BY <1>1, <1>4, <2>3 DEF StepTo
    <3>2. i - 1 = a
      BY <1>1, <3>1
    <3>3. i \notin Places
      BY <1>4, <2>3, Here
    <3>4. QED BY <1>2, <3>1, <3>2, <3>3
  <2>4. i \in Nat
    BY <1>1
  <2>5. QED BY <1>1, <2>1, <2>2, <2>3, <2>4
<1>5. QED BY <1>3, <1>4 DEF Walked

\* The options do not end before getopts is there.
LEMMA NoDashBefore ==
  ASSUME argv \in Seq(Arguments), NEW a \in Nat, Walked(a), NEW d \in DashDash
  PROVE  d >= a
<1>1. /\ d \in DOMAIN argv /\ argv[d] = "--" /\ Places \subseteq 1..(d - 1)
      /\ d - 1 \in Places => argv[d - 1] \notin WithArg
  BY DEF DashDash
<1>2. d \in Nat
  BY <1>1, ArgvShape
<1>3. ~(d < a)
  BY <1>1 DEF Walked
<1>4. QED BY <1>2, <1>3

\* The "--" that getopts comes to ends the options.
LEMMA DashHere ==
  ASSUME argv \in Seq(Arguments), NEW a \in DOMAIN argv, Walked(a), argv[a] = "--"
  PROVE  a \in DashDash
<1>1. a \in 1..Len(argv) /\ Len(argv) \in Nat /\ At(a) = argv[a] /\ DOMAIN argv = 1..Len(argv)
  BY ArgvShape
<1>2. PlacesFrom[a] = {}
  <2>1. a \in 1..(Len(argv) + 2)
    BY <1>1
  <2>2. QED BY <1>1, <2>1, PlacesRule
<1>3. Places \subseteq 1..(a - 1)
  <2>1. ASSUME NEW i \in Places PROVE i \in 1..(a - 1)
    <3>1. i \in DOMAIN argv /\ i \in Nat /\ i >= 1
      BY <1>1, ArgvShape
    <3>2. ~(i >= a)
      BY <1>2, <3>1 DEF Walked
    <3>3. QED BY <1>1, <3>1, <3>2
  <2>2. QED BY <2>1
<1>4. ASSUME a - 1 \in Places PROVE argv[a - 1] \notin WithArg
  <2>1. a - 1 \in DOMAIN argv /\ a - 1 < a /\ (a - 1) + 1 = a
    BY <1>1, <1>4, ArgvShape
  <2>2. SUFFICES ASSUME argv[a - 1] \in WithArg PROVE FALSE
    OBVIOUS
  <2>3. \/ ~((a - 1) + 1 >= a)
        \/ a - 1 \notin Places
    BY <1>1, <2>1, <2>2 DEF Walked
  <2>4. QED BY <1>1, <1>4, <2>3
<1>5. QED BY <1>1, <1>3, <1>4 DEF DashDash

-----------------------------------------------------------------------------
(* The files on the stack.                                                 *)

\* How many of n files are kept, and what the stack holds for the files up to
\* position p.
Kept(n) == IF n < FileStackSize THEN n ELSE FileStackSize - 1
Stacked(p, st, t) ==
  /\ t = Kept(Count(p))
  /\ \A i \in DOMAIN argv : i <= p /\ IsFile(i) /\ Count(i) < FileStackSize =>
       st[Count(i)] = FileName(i)

LEMMA NothingStacked ==
  ASSUME argv \in Seq(Arguments), NEW st PROVE Stacked(0, st, 0)
<1>1. Kept(Count(0)) = 0
  BY CountZero, Constants DEF Kept
<1>2. \A i \in DOMAIN argv : ~(i <= 0)
  BY ArgvShape
<1>3. QED BY <1>1, <1>2 DEF Stacked

\* A position without a file changes nothing.
LEMMA NoFileThere ==
  ASSUME argv \in Seq(Arguments), NEW p \in Nat, NEW st, NEW t, Stacked(p, st, t),
         p + 1 \notin DOMAIN argv \/ ~IsFile(p + 1)
  PROVE  Stacked(p + 1, st, t)
<1>1. Count(p + 1) = Count(p)
  BY CountNext
<1>2. ASSUME NEW i \in DOMAIN argv, i <= p + 1, IsFile(i) PROVE i <= p
  <2>1. i \in Nat /\ i # p + 1
    BY <1>2, ArgvShape
  <2>2. QED BY <1>2, <2>1
<1>3. QED BY <1>1, <1>2 DEF Stacked

\* A file goes on the stack, or is dropped when that is full.
LEMMA FileThere ==
  ASSUME argv \in Seq(Arguments), DOMAIN stack = 0..FileStackSize - 1,
         NEW p \in Nat, Stacked(p, stack, top), p + 1 \in DOMAIN argv, IsFile(p + 1),
         Push(FileName(p + 1))
  PROVE  Stacked(p + 1, stack', top')
<1>1. Count(p + 1) = Count(p) + 1 /\ Count(p) \in Nat /\ FileStackSize \in Nat \ {0}
  BY CountNext, FilesFinite, Constants
<1>2. top = Kept(Count(p))
  BY DEF Stacked
<1>3. ASSUME NEW i \in DOMAIN argv, i <= p, IsFile(i)
      PROVE  i \in Nat /\ Count(i) \in Nat /\ Count(i) <= Count(p)
  <2>1. i \in Nat
    BY ArgvShape
  <2>2. QED BY <1>3, <2>1, FilesFinite, CountGrows
<1>4. ASSUME NEW i \in DOMAIN argv, i <= p + 1, IsFile(i) PROVE i <= p \/ i = p + 1
  <2>1. i \in Nat
    BY ArgvShape
  <2>2. QED BY <1>4, <2>1
<1>5. CASE Count(p) < FileStackSize - 1
  <2>1. top = Count(p) /\ top < FileStackSize - 1 /\ Kept(Count(p + 1)) = top + 1
    BY <1>1, <1>2, <1>5 DEF Kept
  <2>2. top' = top + 1 /\ stack' = [stack EXCEPT ![top + 1] = FileName(p + 1)]
    BY <2>1 DEF Push
  <2>3. top + 1 \in DOMAIN stack
    BY <1>1, <2>1
  <2>4. ASSUME NEW i \in DOMAIN argv, i <= p + 1, IsFile(i), Count(i) < FileStackSize
        PROVE  stack'[Count(i)] = FileName(i)
    <3>1. CASE i = p + 1
      BY <1>1, <2>1, <2>2, <2>3, <3>1
    <3>2. CASE i <= p
      <4>1. Count(i) # top + 1
        BY <1>1, <1>3, <2>1, <2>4, <3>2
      <4>2. stack'[Count(i)] = stack[Count(i)]
        BY <2>2, <4>1
      <4>3. QED BY <2>4, <3>2, <4>2 DEF Stacked
    <3>3. QED BY <1>4, <2>4, <3>1, <3>2
  <2>5. QED BY <2>1, <2>2, <2>4 DEF Stacked
<1>6. CASE ~(Count(p) < FileStackSize - 1)
  <2>1. top = FileStackSize - 1 /\ Kept(Count(p + 1)) = top /\ ~(Count(p + 1) < FileStackSize)
    BY <1>1, <1>2, <1>6 DEF Kept
  <2>2. UNCHANGED <<stack, top>>
    <3>1. ~(top < FileStackSize - 1)
      BY <1>1, <2>1
    <3>2. QED BY <3>1 DEF Push
  <2>3. ASSUME NEW i \in DOMAIN argv, i <= p + 1, IsFile(i), Count(i) < FileStackSize
        PROVE  stack'[Count(i)] = FileName(i)
    <3>1. i <= p
      BY <1>4, <2>1, <2>3
    <3>2. QED BY <2>2, <2>3, <3>1 DEF Stacked
  <2>4. QED BY <2>1, <2>2, <2>3 DEF Stacked
<1>7. QED BY <1>5, <1>6

\* What Stacked says is said of the same command line in the next state.
LEMMA SameStacked ==
  ASSUME UNCHANGED argv, NEW p, Stacked(p, stack', top')
  PROVE  Stacked(p, stack, top)'
<1>1. UNCHANGED Count(p)
  BY SameCount
<1>2. \A i : (IsFile(i)' <=> IsFile(i)) /\ UNCHANGED FileName(i) /\ UNCHANGED Count(i)
  BY SameFiles, SameCount
<1>3. QED BY <1>1, <1>2 DEF Stacked, Kept

\* A name that the stack or the service has.
FileNames == Arguments \cup {"./"}

LEMMA FileNameIs ==
  ASSUME argv \in Seq(Arguments), NEW i \in DOMAIN argv PROVE FileName(i) \in FileNames
BY ArgvShape DEF FileName, FileNames

-----------------------------------------------------------------------------
(* The invariant of the files.                                             *)

WalkOK == pc \in {"options", "cron"} => Walked(av)

\* Nothing after the end of the options is an option.
EndOK ==
  pc = "rest" =>
    /\ \A i \in DOMAIN argv : i > av => i \notin Places
    /\ av > Len(argv) \/ \E d \in DashDash : d <= av

\* How far main has dealt with the command line.
Done == CASE pc \in {"options", "cron"} -> av - 1
          [] pc = "rest" -> av
          [] OTHER -> Len(argv)
FilesOK ==
  pc \in {"options", "cron", "rest", "reverse"} => Stacked(Done, stack, top)

\* What the service has popped of the k files that are kept, and what is left.
Served(k, s, st, t) ==
  /\ t <= k /\ s \in Seq(FileNames) /\ Len(s) = k - t
  /\ \A i \in DOMAIN argv : IsFile(i) /\ Count(i) <= k =>
       IF Count(i) <= k - t THEN s[Count(i)] = FileName(i)
                            ELSE st[k + 1 - Count(i)] = FileName(i)
ServedOK ==
  /\ pc \notin {"service", "served"} => popped = <<>>
  /\ pc \in {"service", "served"} => Served(Kept(Count(Len(argv))), popped, stack, top)
  /\ pc = "served" => top = 0

FInv == IInv /\ WalkOK /\ EndOK /\ FilesOK /\ ServedOK

LEMMA SameWalked ==
  ASSUME UNCHANGED argv, NEW a PROVE Walked(a)' <=> Walked(a)
BY SamePlaces DEF Walked

LEMMA SameServed ==
  ASSUME UNCHANGED argv, NEW k, Served(k, popped', stack', top')
  PROVE  Served(k, popped, stack, top)'
<1>1. \A i : (IsFile(i)' <=> IsFile(i)) /\ UNCHANGED FileName(i) /\ UNCHANGED Count(i)
  BY SameFiles, SameCount
<1>2. QED BY <1>1 DEF Served, FileNames, Arguments

\* An argument is no null pointer, and of one kind.
LEMMA Words ==
  /\ \A w \in Arguments : w # Null
  /\ \A w \in Names : w # "--" /\ w \notin WithArg
  /\ \A w \in Flags : w # "--" /\ w \notin WithArg /\ w \notin Names
  /\ \A w \in WithArg : w # "--" /\ w \notin Names
  /\ "--" \notin Names
BY ArgStackAssumption DEF Arguments, Flags, WithArg, EndsHere, Null

LEMMA LoopShape ==
  ASSUME FInv, pc = "options"
  PROVE  /\ argv \in Seq(Arguments) /\ av \in Nat \ {0}
         /\ Walked(av) /\ Stacked(av - 1, stack, top) /\ popped = <<>>
         /\ ac > 0 => av \in DOMAIN argv /\ At(av) = argv[av]
         /\ ac > 1 => av + 1 \in DOMAIN argv
         /\ ac = 0 => av \notin DOMAIN argv
         /\ DOMAIN stack = 0..FileStackSize - 1
<1>1. argv \in Seq(Arguments) /\ DOMAIN stack = 0..FileStackSize - 1 /\ av + ac = Len(argv) + 1
  BY Parts DEF FInv, ArgsOK, CountOK
<1>2. av \in Nat \ {0} /\ ac \in Nat /\ Len(argv) \in Nat /\ DOMAIN argv = 1..Len(argv)
  BY ArgsShape DEF FInv
<1>3. Walked(av) /\ popped = <<>>
  BY DEF FInv, WalkOK, ServedOK
<1>4. Done = av - 1
  BY DEF Done
<1>5. Stacked(av - 1, stack, top)
  BY <1>4 DEF FInv, FilesOK
<1>6. /\ ac > 0 => av \in DOMAIN argv
      /\ ac > 1 => av + 1 \in DOMAIN argv
      /\ ac = 0 => av \notin DOMAIN argv
  BY <1>1, <1>2
<1>7. QED BY <1>1, <1>2, <1>3, <1>5, <1>6, ArgvShape

\* A step of the loop that leaves getopts at the next place.
LEMMA MakeLoop ==
  ASSUME IInv', UNCHANGED argv, pc' \in {"options", "cron"}, UNCHANGED popped,
         popped = <<>>, Walked(av'), Stacked(av' - 1, stack', top')
  PROVE  FInv'
<1>1. WalkOK'
  BY SameWalked DEF WalkOK
<1>2. Done' = av' - 1
  BY DEF Done
<1>3. FilesOK'
  <2>1. PICK p : p = av' - 1
    OBVIOUS
  <2>2. Stacked(p, stack, top)'
    BY <2>1, SameStacked
  <2>3. QED BY <1>2, <2>1, <2>2 DEF FilesOK
<1>4. EndOK' /\ ServedOK'
  BY DEF EndOK, ServedOK
<1>5. QED BY <1>1, <1>3, <1>4 DEF FInv

LEMMA IsAFile ==
  ASSUME argv \in Seq(Arguments), NEW a \in DOMAIN argv, Walked(a), argv[a] \in Names
  PROVE  IsFile(a) /\ FileName(a) = (IF argv[a] = "current" THEN "./" ELSE argv[a])
<1>1. a \in Places
  BY Here, Words
<1>2. QED BY <1>1 DEF IsFile, FileName

LEMMA IsNoFile ==
  ASSUME argv \in Seq(Arguments), NEW a \in DOMAIN argv, Walked(a), argv[a] \notin Names
  PROVE  ~IsFile(a)
<1>1. a \in Nat
  BY ArgvShape
<1>2. \A d \in DashDash : ~(a > d)
  <2>1. \A d \in DashDash : d >= a /\ d \in Nat
    BY <1>1, NoDashBefore, ArgvShape DEF DashDash
  <2>2. QED BY <1>1, <2>1
<1>3. QED BY <1>2 DEF IsFile

LEMMA ArgumentIsNoFile ==
  ASSUME argv \in Seq(Arguments), NEW a \in DOMAIN argv, Walked(a), argv[a] \in WithArg,
         a + 1 \in DOMAIN argv
  PROVE  ~IsFile(a + 1)
<1>1. a \in Nat /\ At(a) = argv[a]
  BY ArgvShape
<1>2. a + 1 \notin Places
  <2>1. a < a + 1 /\ a + 1 < StepTo(a)
    BY <1>1 DEF StepTo
  <2>2. QED BY <2>1, Here, Words
<1>3. \A d \in DashDash : ~(a + 1 > d)
  <2>1. ASSUME NEW d \in DashDash PROVE ~(a + 1 > d)
    <3>1. d >= a /\ d \in Nat
      BY <1>1, NoDashBefore, ArgvShape DEF DashDash
    <3>2. d # a
      BY Words DEF DashDash
    <3>3. QED BY <1>1, <3>1, <3>2
  <2>2. QED BY <2>1
<1>4. QED BY <1>2, <1>3 DEF IsFile

LEMMA FileKeeps ==
  ASSUME FInv, File PROVE FInv'
<1>1. /\ pc = "options" /\ ac > 0 /\ At(av) \in Names /\ av' = av + 1
      /\ UNCHANGED <<argv, pc, popped>>
  BY DEF File, Advance
<1>2. IInv'
  BY FileOK DEF FInv
<1>3. /\ av \in DOMAIN argv /\ argv[av] \in Names /\ argv \in Seq(Arguments)
      /\ Walked(av) /\ Stacked(av - 1, stack, top) /\ popped = <<>>
      /\ DOMAIN stack = 0..FileStackSize - 1 /\ av \in Nat \ {0}
  BY <1>1, LoopShape
<1>4. Walked(av')
  <2>1. StepTo(av) = av'
    BY <1>1, Words DEF StepTo
  <2>2. QED BY <1>3, <2>1, WalkGoesOn, Words
<1>5. PICK p \in Nat : p + 1 = av /\ p = av - 1 /\ av' - 1 = p + 1
  BY <1>1, <1>3
<1>6. IsFile(p + 1) /\ Push(FileName(p + 1))
  <2>1. IsFile(av) /\ FileName(av) = (IF argv[av] = "current" THEN "./" ELSE argv[av])
    BY <1>3, IsAFile
  <2>2. top # FileStackSize
    BY ArgsShape, Constants DEF FInv
  <2>3. Push(IF At(av) = "current" THEN "./" ELSE At(av))
    BY <2>2 DEF File
  <2>4. At(av) = argv[av]
    BY <1>3, ArgvShape
  <2>5. QED BY <1>5, <2>1, <2>3, <2>4
<1>7. Stacked(p + 1, stack', top')
  BY <1>3, <1>5, <1>6, FileThere
<1>8. QED BY <1>1, <1>2, <1>3, <1>4, <1>5, <1>7, MakeLoop

LEMMA FlagKeeps ==
  ASSUME FInv, Flag PROVE FInv'
<1>1. /\ pc = "options" /\ ac > 0 /\ At(av) \in Flags /\ av' = av + 1
      /\ UNCHANGED <<argv, pc, popped, stack, top>>
  BY DEF Flag, Advance
<1>2. IInv'
  BY FlagOK DEF FInv
<1>3. /\ av \in DOMAIN argv /\ argv[av] \in Flags /\ argv \in Seq(Arguments)
      /\ Walked(av) /\ Stacked(av - 1, stack, top) /\ popped = <<>> /\ av \in Nat \ {0}
  BY <1>1, LoopShape
<1>4. Walked(av')
  <2>1. StepTo(av) = av'
    BY <1>1, Words DEF StepTo
  <2>2. QED BY <1>3, <2>1, WalkGoesOn, Words
<1>5. PICK p \in Nat : p + 1 = av /\ p = av - 1 /\ av' - 1 = p + 1
  BY <1>1, <1>3
<1>6. ~IsFile(p + 1)
  BY <1>3, <1>5, IsNoFile, Words
<1>7. Stacked(p + 1, stack, top)
  BY <1>3, <1>5, <1>6, NoFileThere
<1>8. Stacked(av' - 1, stack', top')
  BY <1>1, <1>5, <1>7
<1>9. QED BY <1>1, <1>2, <1>3, <1>4, <1>8, MakeLoop

\* An option and its argument.
LEMMA TwoKeep ==
  ASSUME FInv, IInv', pc = "options", ac > 1, At(av) \in WithArg, av' = av + 2,
         UNCHANGED <<argv, popped, stack, top>>, pc' \in {"options", "cron"}
  PROVE  FInv'
<1>1. ac > 0
  BY ArgsShape DEF FInv
<1>2. /\ av \in DOMAIN argv /\ argv[av] \in WithArg /\ argv \in Seq(Arguments)
      /\ Walked(av) /\ Stacked(av - 1, stack, top) /\ popped = <<>> /\ av \in Nat \ {0}
      /\ av + 1 \in DOMAIN argv
  BY <1>1, LoopShape
<1>3. Walked(av')
  <2>1. StepTo(av) = av'
    BY DEF StepTo
  <2>2. QED BY <1>2, <2>1, WalkGoesOn, Words
<1>4. PICK p \in Nat : p + 1 = av /\ p = av - 1 /\ av' - 1 = (p + 1) + 1 /\ av + 1 = (p + 1) + 1
  BY <1>2
<1>5. ~IsFile(p + 1) /\ ~IsFile((p + 1) + 1)
  BY <1>2, <1>4, IsNoFile, ArgumentIsNoFile, Words
<1>6. Stacked(p + 1, stack, top)
  BY <1>2, <1>4, <1>5, NoFileThere
<1>7. Stacked((p + 1) + 1, stack, top)
  BY <1>2, <1>4, <1>5, <1>6, NoFileThere
<1>8. Stacked(av' - 1, stack', top')
  BY <1>4, <1>7
<1>9. QED BY <1>2, <1>3, <1>8, MakeLoop

\* A step that leaves all of this where it is.
LEMMA AllKeep ==
  ASSUME FInv, IInv', UNCHANGED <<argv, av, stack, top, popped>>,
         pc \in {"options", "cron"} => pc' \in {"options", "cron"},
         pc \notin {"options", "cron"} => UNCHANGED pc
  PROVE  FInv'
<1>1. CASE pc \in {"options", "cron"}
  <2>1. Walked(av) /\ Done = av - 1 /\ Stacked(av - 1, stack, top) /\ popped = <<>>
    <3>1. Done = av - 1
      BY <1>1 DEF Done
    <3>2. QED BY <1>1, <3>1 DEF FInv, WalkOK, FilesOK, ServedOK
  <2>2. Walked(av') /\ Stacked(av' - 1, stack', top')
    BY <2>1
  <2>3. QED BY <1>1, <2>1, <2>2, MakeLoop
<1>2. CASE pc \notin {"options", "cron"}
  <2>1. UNCHANGED <<argv, av, stack, top, popped, pc, Places, DashDash>>
    BY <1>2, SamePlaces
  <2>2. WalkOK' /\ EndOK'
    BY <1>2, <2>1 DEF FInv, WalkOK, EndOK
  <2>3. UNCHANGED Done
    BY <2>1 DEF Done
  <2>4. FilesOK'
    <3>1. PICK p : p = Done
      OBVIOUS
    <3>2. pc \in {"options", "cron", "rest", "reverse"} => Stacked(p, stack, top)'
      BY <2>1, <3>1, SameStacked DEF FInv, FilesOK
    <3>3. QED BY <2>1, <2>3, <3>1, <3>2 DEF FilesOK
  <2>5. ServedOK'
    <3>1. PICK k : k = Kept(Count(Len(argv)))
      OBVIOUS
    <3>2. Kept(Count(Len(argv)))' = k
      <4>1. PICK l : l = Len(argv)
        OBVIOUS
      <4>2. UNCHANGED Count(l)
        BY SameCount
      <4>3. QED BY <3>1, <4>1, <4>2 DEF Kept
    <3>3. pc \in {"service", "served"} => Served(k, popped, stack, top)'
      BY <2>1, <3>1, SameServed DEF FInv, ServedOK
    <3>4. QED BY <2>1, <3>2, <3>3 DEF FInv, ServedOK
  <2>6. QED BY <2>2, <2>4, <2>5 DEF FInv
<1>3. QED BY <1>1, <1>2

LEMMA CronKeeps ==
  ASSUME FInv, CronArg \/ ParseCron \/ CronParsed PROVE FInv'
<1>1. IInv'
  BY CronArgOK, ParseCronOK, CronParsedOK DEF FInv
<1>2. CASE CronArg
  <2>1. /\ pc = "options" /\ ac > 1 /\ At(av) \in WithArg /\ av' = av + 2
        /\ UNCHANGED <<argv, popped, stack, top>> /\ pc' = "cron"
    BY <1>2 DEF CronArg, HasArg, Advance, WithArg
  <2>2. QED BY <1>1, <2>1, TwoKeep
<1>3. CASE ParseCron
  BY <1>1, <1>3, AllKeep DEF ParseCron, argVars
<1>4. CASE CronParsed
  BY <1>1, <1>4, AllKeep DEF CronParsed
<1>5. QED BY <1>2, <1>3, <1>4

\* The program ends before there is a service.
LEMMA MakeExit ==
  ASSUME IInv', pc' = "exit", popped' = <<>> PROVE FInv'
BY DEF FInv, WalkOK, EndOK, FilesOK, ServedOK

LEMMA SecondsKeep ==
  ASSUME FInv, SecondsArg PROVE FInv'
<1>1. IInv'
  BY SecondsArgOK DEF FInv
<1>2. /\ pc = "options" /\ ac > 1 /\ At(av) \in WithArg /\ av' = av + 2
      /\ UNCHANGED <<argv, popped, stack, top>> /\ pc' \in {"options", "exit"}
  BY DEF SecondsArg, HasArg, Advance, WithArg
<1>3. popped' = <<>>
  BY <1>2, LoopShape
<1>4. QED BY <1>1, <1>2, <1>3, TwoKeep, MakeExit

LEMMA StopsKeeps ==
  ASSUME FInv, Stops \/ NoArguments PROVE FInv'
<1>1. IInv'
  BY StopsOK, NoArgumentsOK DEF FInv
<1>2. pc' = "exit" /\ popped' = <<>>
  BY LoopShape DEF Stops, NoArguments
<1>3. QED BY <1>1, <1>2, MakeExit

\* A state of the end of main, before the service.
LEMMA MakeRest ==
  ASSUME IInv', UNCHANGED argv, pc' = "rest", popped' = <<>>,
         Stacked(av', stack', top'),
         \A i \in DOMAIN argv : i > av' => i \notin Places,
         av' > Len(argv) \/ \E d \in DashDash : d <= av'
  PROVE  FInv'
<1>1. PICK p : p = av'
  OBVIOUS
<1>2. Stacked(p, stack, top)'
  BY <1>1, SameStacked
<1>3. Done' = p
  BY <1>1 DEF Done
<1>4. FilesOK'
  BY <1>2, <1>3 DEF FilesOK
<1>5. EndOK'
  BY SamePlaces DEF EndOK
<1>6. WalkOK' /\ ServedOK'
  BY DEF WalkOK, ServedOK
<1>7. QED BY <1>4, <1>5, <1>6 DEF FInv

LEMMA MakeReverse ==
  ASSUME IInv', UNCHANGED argv, pc' = "reverse", popped' = <<>>,
         Stacked(Len(argv), stack', top')
  PROVE  FInv'
<1>1. PICK p : p = Len(argv)
  OBVIOUS
<1>2. Stacked(p, stack, top)'
  BY <1>1, SameStacked
<1>3. Done' = p
  BY <1>1 DEF Done
<1>4. FilesOK'
  BY <1>2, <1>3 DEF FilesOK
<1>5. WalkOK' /\ EndOK' /\ ServedOK'
  BY DEF WalkOK, EndOK, ServedOK
<1>6. QED BY <1>4, <1>5 DEF FInv

LEMMA EndKeeps ==
  ASSUME FInv, EndOfOptions PROVE FInv'
<1>1. IInv'
  BY EndOfOptionsOK DEF FInv
<1>2. /\ argv \in Seq(Arguments) /\ av \in Nat \ {0} /\ Walked(av) /\ popped = <<>>
      /\ Stacked(av - 1, stack, top)
      /\ ac = 0 => av \notin DOMAIN argv
  BY LoopShape DEF EndOfOptions
<1>3. pc' = "rest" /\ (ac = 0 \/ At(av) = "--") /\ UNCHANGED <<argv, av, stack, top, popped>>
  BY DEF EndOfOptions
<1>4. PICK p \in Nat : p + 1 = av /\ p = av - 1
  BY <1>2
<1>5. Len(argv) \in Nat /\ DOMAIN argv = 1..Len(argv) /\ Places \subseteq DOMAIN argv
  BY <1>2, ArgvShape
<1>6. CASE av \notin DOMAIN argv
  <2>1. Stacked(p + 1, stack, top)
    BY <1>2, <1>4, <1>6, NoFileThere
  <2>2. av > Len(argv) /\ \A i \in DOMAIN argv : ~(i > av)
    BY <1>2, <1>5, <1>6
  <2>3. QED BY <1>1, <1>2, <1>3, <1>4, <2>1, <2>2, MakeRest
<1>7. CASE av \in DOMAIN argv
  <2>1. argv[av] = "--"
    BY <1>2, <1>3, <1>7 DEF At
  <2>2. av \in DashDash
    BY <1>2, <1>7, <2>1, DashHere
  <2>3. ~IsFile(p + 1)
    BY <1>2, <1>4, <1>7, <2>1, IsNoFile, Words
  <2>4. Stacked(p + 1, stack, top)
    BY <1>2, <1>4, <2>3, NoFileThere
  <2>5. Places \subseteq 1..(av - 1)
    BY <2>2 DEF DashDash
  <2>6. \A i \in DOMAIN argv : i > av => i \notin Places
    BY <1>2, <1>5, <2>5
  <2>7. av <= av
    BY <1>2
  <2>8. QED BY <1>1, <1>2, <1>3, <1>4, <2>2, <2>4, <2>6, <2>7, MakeRest
<1>8. QED BY <1>6, <1>7

\* Beyond the last argument there is no file.
LEMMA StackedBeyond ==
  ASSUME argv \in Seq(Arguments), NEW p \in Nat, p >= Len(argv), p <= Len(argv) + 1,
         NEW st, NEW t, Stacked(p, st, t)
  PROVE  Stacked(Len(argv), st, t)
<1>1. PICK l \in Nat : l = Len(argv)
  BY LenProperties
<1>2. CASE p = l
  BY <1>1, <1>2
<1>3. CASE p # l
  <2>1. p = l + 1 /\ l + 1 \notin DOMAIN argv /\ DOMAIN argv = 1..l
    BY <1>1, <1>3, ArgvShape
  <2>2. Count(p) = Count(l)
    BY <2>1, CountNext
  <2>3. \A i \in DOMAIN argv : i <= p
    BY <2>1
  <2>4. QED BY <1>1, <2>2, <2>3 DEF Stacked
<1>4. QED BY <1>2, <1>3

LEMMA RestKeeps ==
  ASSUME FInv, Rest PROVE FInv'
<1>1. IInv'
  BY RestOK DEF FInv
<1>2. /\ pc = "rest" /\ av' = av + 1 /\ UNCHANGED <<argv, popped>> /\ popped = <<>>
      /\ \/ /\ At(av) # Null /\ At(av + 1) # Null /\ Push(At(av + 1)) /\ UNCHANGED pc
         \/ /\ At(av) = Null \/ At(av + 1) = Null
            /\ pc' = "reverse" /\ UNCHANGED <<stack, top>>
  BY DEF Rest, FInv, ServedOK
<1>3. /\ argv \in Seq(Arguments) /\ DOMAIN stack = 0..FileStackSize - 1
      /\ av \in Nat /\ av <= Len(argv) + 1
  BY <1>2, ArgsShape, Parts DEF FInv, ArgsOK, CountOK
<1>4. Stacked(av, stack, top)
  <2>1. Done = av
    BY <1>2 DEF Done
  <2>2. QED BY <1>2, <2>1 DEF FInv, FilesOK
<1>5. /\ \A i \in DOMAIN argv : i > av => i \notin Places
      /\ av > Len(argv) \/ \E d \in DashDash : d <= av
  BY <1>2 DEF FInv, EndOK
<1>6. Len(argv) \in Nat /\ DOMAIN argv = 1..Len(argv) /\ DashDash \subseteq Nat
  BY <1>3, ArgvShape DEF DashDash
<1>7. CASE /\ At(av) # Null /\ At(av + 1) # Null /\ Push(At(av + 1)) /\ UNCHANGED pc
  <2>1. av + 1 \in DOMAIN argv /\ At(av + 1) = argv[av + 1]
    BY <1>7 DEF At
  <2>2. PICK d \in DashDash : d <= av /\ d \in Nat
    BY <1>3, <1>5, <1>6, <2>1
  <2>3. av + 1 \notin Places
    BY <1>3, <1>5, <2>1
  <2>4. av + 1 > d
    BY <1>3, <2>2
  <2>5. IsFile(av + 1) /\ FileName(av + 1) = argv[av + 1]
    BY <2>2, <2>3, <2>4 DEF IsFile, FileName
  <2>6. Stacked(av + 1, stack', top')
    BY <1>3, <1>4, <1>7, <2>1, <2>5, FileThere
  <2>7. \A i \in DOMAIN argv : i > av + 1 => i \notin Places
    BY <1>3, <1>5, <1>6
  <2>8. d <= av + 1
    BY <1>3, <2>2
  <2>9. QED BY <1>1, <1>2, <1>7, <2>2, <2>6, <2>7, <2>8, MakeRest
<1>8. CASE /\ At(av) = Null \/ At(av + 1) = Null
           /\ pc' = "reverse" /\ UNCHANGED <<stack, top>>
  <2>1. av \notin DOMAIN argv \/ av + 1 \notin DOMAIN argv
    BY <1>3, <1>8, ArgvShape, Words
  <2>2. av >= Len(argv) \/ av = 0
    BY <1>3, <1>6, <2>1
  <2>3. av # 0
    BY ArgsShape DEF FInv
  <2>4. Stacked(Len(argv), stack', top')
    BY <1>3, <1>4, <1>8, <2>2, <2>3, StackedBeyond
  <2>5. QED BY <1>1, <1>2, <1>8, <2>4, MakeReverse
<1>9. QED BY <1>2, <1>7, <1>8

LEMMA KeptIs ==
  ASSUME NEW n \in Nat
  PROVE  Kept(n) \in Nat /\ Kept(n) <= n /\ Kept(n) < FileStackSize
BY Constants DEF Kept

\* Files are numbered from 1 on.
LEMMA CountOfFile ==
  ASSUME argv \in Seq(Arguments), NEW i \in DOMAIN argv, IsFile(i)
  PROVE  i \in Nat /\ i <= Len(argv) /\ Count(i) \in Nat /\ Count(i) >= 1
         /\ Count(i) <= Count(Len(argv))
<1>1. i \in Nat /\ 0 < i /\ i <= Len(argv) /\ Len(argv) \in Nat
  BY ArgvShape
<1>2. Count(i) \in Nat
  BY <1>1, FilesFinite
<1>3. Count(0) < Count(i) /\ Count(i) <= Count(Len(argv))
  BY <1>1, CountGrows
<1>4. QED BY <1>1, <1>2, <1>3, CountZero

\* A state of the service.
LEMMA MakeServed ==
  ASSUME IInv', UNCHANGED argv, pc' \in {"service", "served"}, pc' = "served" => top' = 0,
         Served(Kept(Count(Len(argv))), popped', stack', top')
  PROVE  FInv'
<1>1. PICK k : k = Kept(Count(Len(argv)))
  OBVIOUS
<1>2. Kept(Count(Len(argv)))' = k
  <2>1. PICK l : l = Len(argv)
    OBVIOUS
  <2>2. UNCHANGED Count(l)
    BY SameCount
  <2>3. QED BY <1>1, <2>1, <2>2 DEF Kept
<1>3. Served(k, popped, stack, top)'
  BY <1>1, SameServed
<1>4. ServedOK'
  BY <1>2, <1>3 DEF ServedOK
<1>5. WalkOK' /\ EndOK' /\ FilesOK'
  BY DEF WalkOK, EndOK, FilesOK
<1>6. QED BY <1>4, <1>5 DEF FInv

LEMMA ReverseKeeps ==
  ASSUME FInv, Reverse PROVE FInv'
<1>1. IInv'
  BY ReverseOK DEF FInv
<1>2. /\ pc = "reverse" /\ stack' = Reversed /\ pc' \in {"exit", "service"}
      /\ UNCHANGED <<argv, top, popped>> /\ popped' = <<>>
  BY DEF Reverse, FInv, ServedOK
<1>3. argv \in Seq(Arguments) /\ DOMAIN stack = 0..FileStackSize - 1
  BY Parts DEF FInv, ArgsOK
<1>4. PICK k \in Nat : k = Kept(Count(Len(argv))) /\ k < FileStackSize
  BY <1>3, ArgvShape, FilesFinite, KeptIs
<1>5. Stacked(Len(argv), stack, top)
  <2>1. Done = Len(argv)
    BY <1>2 DEF Done
  <2>2. QED BY <1>2, <2>1 DEF FInv, FilesOK
<1>6. top = k
  BY <1>4, <1>5 DEF Stacked
<1>7. ASSUME NEW i \in DOMAIN argv, IsFile(i), Count(i) <= k
      PROVE  ~(Count(i) <= 0) /\ stack'[k + 1 - Count(i)] = FileName(i)
  <2>1. i <= Len(argv) /\ Count(i) \in Nat /\ Count(i) >= 1
    BY <1>3, <1>7, CountOfFile
  <2>2. stack[Count(i)] = FileName(i)
    BY <1>4, <1>5, <1>7, <2>1, Constants DEF Stacked
  <2>3. PICK j \in 1..k : j = k + 1 - Count(i) /\ k + 1 - j = Count(i)
    BY <1>4, <1>7, <2>1
  <2>4. j \in DOMAIN stack
    BY <1>3, <1>4, Constants
  <2>5. stack'[j] = stack[k + 1 - j]
    BY <1>2, <1>6, <2>4 DEF Reversed
  <2>6. QED BY <2>1, <2>2, <2>3, <2>5
<1>8. Served(k, <<>>, stack', k)
  <2>1. k <= k /\ <<>> \in Seq(FileNames) /\ Len(<<>>) = k - k /\ k - k = 0
    BY <1>4
  <2>2. QED BY <1>7, <2>1 DEF Served
<1>9. QED BY <1>1, <1>2, <1>4, <1>6, <1>8, MakeExit, MakeServed

LEMMA PopKeeps ==
  ASSUME FInv, Pop PROVE FInv'
<1>1. IInv'
  BY PopOK DEF FInv
<1>2. pc = "service" /\ UNCHANGED <<argv, stack>>
  BY DEF Pop
<1>3. argv \in Seq(Arguments) /\ top \in Nat
  BY Parts, ArgsShape DEF FInv, ArgsOK
<1>4. Count(Len(argv)) \in Nat
  BY <1>3, ArgvShape, FilesFinite
<1>5. PICK k \in Nat : k = Kept(Count(Len(argv))) /\ k <= Count(Len(argv))
  BY <1>4, KeptIs
<1>6. Served(k, popped, stack, top)
  BY <1>2, <1>5 DEF FInv, ServedOK
<1>7. top <= k /\ popped \in Seq(FileNames) /\ Len(popped) = k - top
  BY <1>6 DEF Served
<1>8. CASE top > 0
  <2>1. top' = top - 1 /\ popped' = Append(popped, stack[top]) /\ pc' = pc
    BY <1>8 DEF Pop
  <2>2. PICK n \in Nat : n = k - top /\ n + 1 = k - top' /\ k + 1 - (n + 1) = top
                         /\ n + 1 <= k
    <3>1. k \in Nat /\ top \in Nat /\ top <= k /\ top > 0 /\ top' = top - 1
      BY <1>3, <1>7, <1>8, <2>1
    <3>2. /\ k - top \in Nat /\ (k - top) + 1 = k - top'
          /\ k + 1 - ((k - top) + 1) = top /\ (k - top) + 1 <= k
      BY <3>1
    <3>3. QED BY <3>2
  <2>3. stack[top] \in FileNames
    <3>1. n + 1 \in 1..Count(Len(argv)) /\ Len(argv) \in Nat
      <4>1. PICK m \in Nat : m = Count(Len(argv)) /\ k <= m
        BY <1>4, <1>5
      <4>2. n + 1 \in 1..m
        BY <2>2, <4>1
      <4>3. QED BY <1>3, <4>1, <4>2, LenProperties
    <3>2. PICK i \in DOMAIN argv : IsFile(i) /\ Count(i) = n + 1
      BY <1>3, <3>1, CountFinds
    <3>3. Count(i) <= k /\ ~(Count(i) <= k - top)
      BY <2>2, <3>2
    <3>4. stack[k + 1 - Count(i)] = FileName(i)
      BY <1>6, <3>2, <3>3 DEF Served
    <3>5. QED BY <1>3, <2>2, <3>2, <3>4, FileNameIs
  <2>4. /\ popped' \in Seq(FileNames) /\ Len(popped') = n + 1
        /\ popped'[n + 1] = stack[top]
        /\ \A j \in 1..n : popped'[j] = popped[j]
    BY <1>7, <2>1, <2>2, <2>3, AppendProperties
  <2>5. ASSUME NEW i \in DOMAIN argv, IsFile(i), Count(i) <= k
        PROVE  IF Count(i) <= n + 1 THEN popped'[Count(i)] = FileName(i)
                                    ELSE stack[k + 1 - Count(i)] = FileName(i)
    <3>1. Count(i) \in Nat /\ Count(i) >= 1
      BY <1>3, <2>5, CountOfFile
    <3>2. IF Count(i) <= n THEN popped[Count(i)] = FileName(i)
                           ELSE stack[k + 1 - Count(i)] = FileName(i)
      BY <1>6, <2>2, <2>5 DEF Served
    <3>3. CASE Count(i) <= n
      <4>1. Count(i) \in 1..n /\ Count(i) <= n + 1
        BY <2>2, <3>1, <3>3
      <4>2. QED BY <2>4, <3>2, <3>3, <4>1
    <3>4. CASE Count(i) = n + 1
      <4>1. ~(Count(i) <= n) /\ Count(i) <= n + 1
        BY <2>2, <3>4
      <4>2. QED BY <2>2, <2>4, <3>2, <3>4, <4>1
    <3>5. CASE Count(i) > n + 1
      <4>1. ~(Count(i) <= n) /\ ~(Count(i) <= n + 1)
        BY <2>2, <3>1, <3>5
      <4>2. QED BY <3>2, <4>1
    <3>6. QED BY <2>2, <3>1, <3>3, <3>4, <3>5
  <2>6. top' <= k
    BY <1>3, <1>5, <1>7, <2>1
  <2>7. Served(k, popped', stack', top')
    BY <1>2, <2>2, <2>4, <2>5, <2>6 DEF Served
  <2>8. QED BY <1>1, <1>2, <1>5, <2>1, <2>7, MakeServed
<1>9. CASE ~(top > 0)
  <2>1. pc' = "served" /\ UNCHANGED <<top, popped>> /\ top = 0
    BY <1>3, <1>9 DEF Pop
  <2>2. Served(k, popped', stack', top')
    BY <1>2, <1>6, <2>1
  <2>3. QED BY <1>1, <1>2, <1>5, <2>1, <2>2, MakeServed
<1>10. QED BY <1>8, <1>9

LEMMA FilesInit == Init => FInv
<1> SUFFICES ASSUME Init PROVE FInv
  OBVIOUS
<1>1. IInv
  BY InitOK
<1>2. argv \in Seq(Arguments)
  BY <1>1, Parts DEF ArgsOK
<1>3. av = 1 /\ top = 0 /\ pc = "options" /\ popped = <<>>
  BY DEF Init
<1>4. Walked(av)
  BY <1>2, <1>3, WalkBegins
<1>5. Done = 0
  BY <1>3 DEF Done
<1>6. Stacked(Done, stack, top)
  BY <1>2, <1>3, <1>5, NothingStacked
<1>7. QED BY <1>1, <1>3, <1>4, <1>6 DEF FInv, WalkOK, EndOK, FilesOK, ServedOK

LEMMA FilesNext == FInv /\ [Next]_vars => FInv'
<1>1. ASSUME FInv, Next PROVE FInv'
  BY <1>1, EndKeeps, FileKeeps, FlagKeeps, CronKeeps, SecondsKeep, StopsKeeps, RestKeeps,
     ReverseKeeps, PopKeeps DEF Next
<1>2. ASSUME FInv, UNCHANGED vars PROVE FInv'
  <2>1. IInv'
    BY <1>2, NextOK DEF FInv
  <2>2. UNCHANGED <<argv, av, stack, top, popped, pc>>
    BY <1>2 DEF vars, argVars
  <2>3. QED BY <1>2, <2>1, <2>2, AllKeep
<1>3. QED BY <1>1, <1>2

LEMMA FilesInvariance == Spec => []FInv
BY FilesInit, FilesNext, PTL DEF Spec

\* What is popped is what was given first, and all that the stack has room for.
LEMMA ServedInOrder ==
  ASSUME FInv PROVE FilesInOrder
<1>1. argv \in Seq(Arguments) /\ top \in Nat
  BY Parts, ArgsShape DEF FInv, ArgsOK
<1>2. PICK m \in Nat : m = Count(Len(argv))
  BY <1>1, ArgvShape, FilesFinite
<1>3. PICK k \in Nat : k = Kept(m) /\ k <= m
  BY <1>2, KeptIs
<1>4. DOMAIN FilesGiven = 1..m
  BY <1>1, <1>2, FilesGivenAre
<1>5. Len(FilesGiven) = m
  <2>1. FilesGiven = [j \in 1..m |-> FilesGiven[j]]
    BY <1>4 DEF FilesGiven
  <2>2. Len([j \in 1..m |-> FilesGiven[j]]) = m
    OBVIOUS
  <2>3. QED BY <2>1, <2>2
<1>6. CASE pc \notin {"service", "served"}
  BY <1>6 DEF FInv, ServedOK, FilesInOrder
<1>7. CASE pc \in {"service", "served"}
  <2>1. Served(k, popped, stack, top) /\ (pc = "served" => top = 0)
    BY <1>2, <1>3, <1>7 DEF FInv, ServedOK
  <2>2. popped \in Seq(FileNames) /\ Len(popped) = k - top /\ top <= k
    BY <2>1 DEF Served
  <2>3. PICK n \in Nat : n = Len(popped) /\ n = k - top /\ n <= k /\ n <= m
    BY <1>1, <1>3, <2>2
  <2>4. popped = [j \in 1..n |-> popped[j]]
    BY <2>2, <2>3, LenProperties
  <2>5. ASSUME NEW j \in 1..n PROVE popped[j] = FilesGiven[j]
    <3>1. j \in 1..Count(Len(argv)) /\ Len(argv) \in Nat /\ j <= k
      BY <1>1, <1>2, <1>3, <2>3, ArgvShape
    <3>2. PICK i \in DOMAIN argv : IsFile(i) /\ Count(i) = j
      BY <1>1, <3>1, CountFinds
    <3>3. Count(i) <= k /\ Count(i) <= k - top
      BY <2>3, <3>1, <3>2
    <3>4. popped[Count(i)] = FileName(i)
      BY <2>1, <3>2, <3>3 DEF Served
    <3>5. FilesGiven[Count(i)] = FileName(i)
      BY <1>1, <3>2, FilesGivenAre
    <3>6. QED BY <3>2, <3>4, <3>5
  <2>6. popped = SubSeq(FilesGiven, 1, n)
    <3>1. popped = [j \in 1..n |-> FilesGiven[j]]
      BY <2>4, <2>5
    <3>2. SubSeq(FilesGiven, 1, n) = [j \in 1..n |-> FilesGiven[j]]
      <4>1. n - 1 + 1 = n /\ \A j \in 1..n : j + 1 - 1 = j
        BY <2>3
      <4>2. SubSeq(FilesGiven, 1, n) = [j \in 1..(1 + n - 1) |-> FilesGiven[1 + j - 1]]
        OBVIOUS
      <4>3. QED BY <4>1, <4>2
    <3>3. QED BY <3>1, <3>2
  <2>7. ASSUME pc = "served"
        PROVE  \/ popped = FilesGiven
               \/ n = FileStackSize - 1 /\ m >= FileStackSize
    <3>1. n = k
      BY <1>3, <2>1, <2>3, <2>7
    <3>2. CASE m < FileStackSize
      <4>1. n = m
        BY <1>3, <3>1, <3>2 DEF Kept
      <4>2. popped = [j \in 1..m |-> FilesGiven[j]]
        BY <2>4, <2>5, <4>1
      <4>3. FilesGiven = [j \in 1..m |-> FilesGiven[j]]
        BY <1>4 DEF FilesGiven
      <4>4. QED BY <4>2, <4>3
    <3>3. CASE ~(m < FileStackSize)
      BY <1>2, <1>3, <3>1, <3>3, Constants DEF Kept
    <3>4. QED BY <3>2, <3>3
  <2>8. QED BY <1>5, <2>3, <2>6, <2>7 DEF FilesInOrder
<1>8. QED BY <1>6, <1>7

\* The service gets the files in the order they were given (the comment of the
\* stack in main.c), all of them that the stack has room for, and none else.
THEOREM FilesInOrderHolds == Spec => []FilesInOrder
BY ServedInOrder, FilesInvariance, PTL

-----------------------------------------------------------------------------
(* The options that take an argument.                                      *)

UsesTo(opt, p)    == {i \in Uses(opt) : i <= p}
LastTo(opt, p, i) == i \in UsesTo(opt, p) /\ \A j \in UsesTo(opt, p) : j <= i

NumberedTo(p)      == {i \in UsesTo("-s", p) : argv[i + 1] # Empty}
LastNumber(p, i)   == i \in NumberedTo(p) /\ \A j \in NumberedTo(p) : j <= i

\* What the places up to position p say of the seconds and of the cron string.
SecondsSaid(p, n) ==
  IF NumberedTo(p) = {} THEN n = 0
  ELSE \E i : LastNumber(p, i) /\ n = AsUnsigned(Number[argv[i + 1]])
CronSaid(p, c, t) ==
  /\ c \in BOOLEAN /\ (c <=> UsesTo("-c", p) # {})
  /\ c => \E i : LastTo("-c", p, i) /\ t = TextOf(argv[i + 1])
Said(p, n, c, t) == SecondsSaid(p, n) /\ CronSaid(p, c, t)

Seen == IF pc \in {"options", "cron"} THEN av - 1 ELSE Len(argv)
SaidOK == pc # "exit" => Said(Seen, seconds, cron, text)

\* A cron string that was given has been read to its end.
ReadOK ==
  pc # "exit" => IF pc = "cron" THEN cron ELSE where = (IF cron THEN "done" ELSE "idle")

OInv == FInv /\ SaidOK /\ ReadOK

LEMMA UsesShape ==
  ASSUME argv \in Seq(Arguments), NEW opt
  PROVE  /\ \A i \in Uses(opt) : i \in Nat /\ i >= 1 /\ i <= Len(argv) /\ argv[i] = opt
                                 /\ i \in DOMAIN argv
         /\ UsesTo(opt, Len(argv)) = Uses(opt)
<1>1. \A i \in Uses(opt) : i \in Nat /\ i >= 1 /\ i <= Len(argv) /\ argv[i] = opt
                           /\ i \in DOMAIN argv
  BY ArgvShape DEF Uses
<1>2. QED BY <1>1 DEF UsesTo

\* Another argument that getopts is at is no use of the option.
LEMMA NoUse ==
  ASSUME argv \in Seq(Arguments), NEW a \in DOMAIN argv, NEW opt, argv[a] # opt
  PROVE  UsesTo(opt, a) = UsesTo(opt, a - 1)
<1>1. a \in Nat
  BY ArgvShape
<1>2. \A i \in Uses(opt) : i \in Nat /\ i # a
  BY UsesShape
<1>3. \A i \in Uses(opt) : i <= a <=> i <= a - 1
  BY <1>1, <1>2
<1>4. QED BY <1>3 DEF UsesTo

\* An option is, and what it takes is none.
LEMMA OneUse ==
  ASSUME argv \in Seq(Arguments), NEW a \in DOMAIN argv, Walked(a), argv[a] \in WithArg,
         NEW opt
  PROVE  /\ argv[a] # opt => UsesTo(opt, a + 1) = UsesTo(opt, a - 1)
         /\ argv[a] = opt => /\ LastTo(opt, a + 1, a)
                             /\ UsesTo(opt, a + 1) = UsesTo(opt, a - 1) \cup {a}
<1>1. a \in Nat /\ At(a) = argv[a]
  BY ArgvShape
<1>2. a \in Places
  BY Here, Words
<1>3. a + 1 \notin Uses(opt)
  <2>1. a < a + 1 /\ a + 1 < StepTo(a)
    BY <1>1 DEF StepTo
  <2>2. a + 1 \in DOMAIN argv => a + 1 \notin Places
    BY <2>1, Here, Words
  <2>3. QED BY <2>2, UsesShape DEF Uses
<1>4. \A i \in Uses(opt) : i \in Nat /\ i # a + 1 /\ argv[i] = opt
  BY <1>3, UsesShape
<1>5. ASSUME argv[a] # opt PROVE UsesTo(opt, a + 1) = UsesTo(opt, a - 1)
  <2>1. \A i \in Uses(opt) : i <= a + 1 <=> i <= a - 1
    <3>1. \A i \in Uses(opt) : i # a
      BY <1>4, <1>5
    <3>2. QED BY <1>1, <1>4, <3>1
  <2>2. QED BY <2>1 DEF UsesTo
<1>6. ASSUME argv[a] = opt
      PROVE  LastTo(opt, a + 1, a) /\ UsesTo(opt, a + 1) = UsesTo(opt, a - 1) \cup {a}
  <2>1. a \in Uses(opt) /\ a <= a + 1
    BY <1>1, <1>2, <1>6 DEF Uses
  <2>2. \A i \in Uses(opt) : i <= a + 1 => i <= a
    BY <1>1, <1>4
  <2>3. \A i \in Uses(opt) : i <= a + 1 <=> i <= a - 1 \/ i = a
    BY <1>1, <1>4
  <2>4. QED BY <2>1, <2>2, <2>3 DEF LastTo, UsesTo
<1>7. QED BY <1>5, <1>6

\* After the end of the options there is none.
LEMMA NoMoreUses ==
  ASSUME argv \in Seq(Arguments), NEW a \in Nat \ {0}, Walked(a), NEW opt,
         a \notin DOMAIN argv \/ argv[a] = "--"
  PROVE  UsesTo(opt, a - 1) = UsesTo(opt, Len(argv))
<1>1. Len(argv) \in Nat /\ DOMAIN argv = 1..Len(argv)
  BY ArgvShape
<1>2. \A i \in Uses(opt) : i \in Nat /\ i <= Len(argv) /\ i \in Places
  BY UsesShape DEF Uses
<1>3. \A i \in Uses(opt) : i <= a - 1
  <2>1. CASE a \notin DOMAIN argv
    <3>1. Len(argv) <= a - 1
      BY <1>1, <2>1
    <3>2. QED BY <1>1, <1>2, <3>1
  <2>2. CASE a \in DOMAIN argv
    <3>1. Places \subseteq 1..(a - 1)
      BY <2>2, DashHere DEF DashDash
    <3>2. QED BY <1>2, <3>1
  <2>3. QED BY <2>1, <2>2
<1>4. QED BY <1>2, <1>3 DEF UsesTo

LEMMA SaidAlike ==
  ASSUME NEW p, NEW q, UsesTo("-s", p) = UsesTo("-s", q), UsesTo("-c", p) = UsesTo("-c", q),
         NEW n, NEW c, NEW t, Said(p, n, c, t)
  PROVE  Said(q, n, c, t)
BY DEF Said, SecondsSaid, CronSaid, LastTo, LastNumber, NumberedTo

LEMMA SameSaid ==
  ASSUME UNCHANGED <<argv, texts>>, NEW p, Said(p, seconds', cron', text')
  PROVE  Said(p, seconds, cron, text)'
<1>1. UNCHANGED Uses("-s") /\ UNCHANGED Uses("-c")
  BY SamePlaces DEF Uses
<1>2. UNCHANGED UsesTo("-s", p) /\ UNCHANGED UsesTo("-c", p)
  BY <1>1 DEF UsesTo
<1>3. SecondsSaid(p, seconds)'
  BY <1>2 DEF Said, SecondsSaid, LastNumber, NumberedTo, AsUnsigned
<1>4. CronSaid(p, cron, text)'
  BY <1>2 DEF Said, CronSaid, LastTo, TextOf
<1>5. QED BY <1>3, <1>4 DEF Said

\* A step to a state of which this is said.
LEMMA MakeSaid ==
  ASSUME FInv', UNCHANGED <<argv, texts>>, ReadOK', NEW p, Seen' = p,
         Said(p, seconds', cron', text')
  PROVE  OInv'
BY SameSaid DEF OInv, SaidOK

LEMMA OptionsShape ==
  ASSUME OInv, pc = "options"
  PROVE  Said(av - 1, seconds, cron, text) /\ where = (IF cron THEN "done" ELSE "idle")
BY DEF OInv, SaidOK, ReadOK, Seen

LEMMA EndSaid ==
  ASSUME OInv, EndOfOptions PROVE OInv'
<1>1. FInv'
  BY EndKeeps DEF OInv
<1>2. /\ pc = "options" /\ (ac = 0 \/ At(av) = "--") /\ pc' = "rest"
      /\ UNCHANGED <<argv, texts, seconds, cron, text, where>>
  BY DEF EndOfOptions, cronVars
<1>3. /\ argv \in Seq(Arguments) /\ av \in Nat \ {0} /\ Walked(av)
      /\ ac = 0 => av \notin DOMAIN argv
  BY <1>2, LoopShape DEF OInv
<1>4. av \notin DOMAIN argv \/ argv[av] = "--"
  BY <1>2, <1>3 DEF At
<1>5. Said(Len(argv), seconds, cron, text)
  <2>1. \A opt : UsesTo(opt, av - 1) = UsesTo(opt, Len(argv))
    BY <1>3, <1>4, NoMoreUses
  <2>2. QED BY <1>2, <2>1, OptionsShape, SaidAlike
<1>6. ReadOK' /\ Seen' = Len(argv)
  BY <1>2, OptionsShape DEF ReadOK, Seen
<1>7. QED BY <1>1, <1>2, <1>5, <1>6, MakeSaid

LEMMA OneSaid ==
  ASSUME OInv, File \/ Flag PROVE OInv'
<1>1. FInv'
  BY FileKeeps, FlagKeeps DEF OInv
<1>2. /\ pc = "options" /\ pc' = pc /\ ac > 0 /\ av' = av + 1
      /\ At(av) \in Names \cup Flags
      /\ UNCHANGED <<argv, texts, seconds, cron, text, where>>
  BY DEF File, Flag, Advance, cronVars
<1>3. argv \in Seq(Arguments) /\ av \in Nat /\ av \in DOMAIN argv /\ At(av) = argv[av]
  BY <1>2, LoopShape DEF OInv
<1>4. Said(av, seconds, cron, text)
  <2>1. argv[av] # "-s" /\ argv[av] # "-c"
    BY <1>2, <1>3, Words DEF WithArg
  <2>2. UsesTo("-s", av) = UsesTo("-s", av - 1) /\ UsesTo("-c", av) = UsesTo("-c", av - 1)
    BY <1>3, <2>1, NoUse
  <2>3. QED BY <1>2, <2>2, OptionsShape, SaidAlike
<1>5. ReadOK' /\ Seen' = av
  BY <1>2, <1>3, OptionsShape DEF ReadOK, Seen
<1>6. QED BY <1>1, <1>2, <1>4, <1>5, MakeSaid

LEMMA CronArgSaid ==
  ASSUME OInv, CronArg PROVE OInv'
<1>1. FInv'
  BY CronKeeps DEF OInv
<1>2. /\ pc = "options" /\ pc' = "cron" /\ ac > 1 /\ At(av) = "-c" /\ av' = av + 2
      /\ cron' = TRUE /\ text' = TextOf(At(av + 1)) /\ UNCHANGED <<argv, texts, seconds>>
  BY DEF CronArg, HasArg, Advance, StartCron
<1>3. ac > 0
  BY <1>2, ArgsShape DEF OInv, FInv
<1>4. /\ argv \in Seq(Arguments) /\ av \in Nat /\ av \in DOMAIN argv /\ argv[av] = "-c"
      /\ At(av + 1) = argv[av + 1] /\ Walked(av)
  BY <1>2, <1>3, LoopShape, ArgvShape DEF OInv
<1>5. /\ UsesTo("-s", av + 1) = UsesTo("-s", av - 1)
      /\ LastTo("-c", av + 1, av)
  <2>1. argv[av] \in WithArg /\ argv[av] # "-s"
    BY <1>4 DEF WithArg
  <2>2. QED BY <1>4, <2>1, OneUse
<1>6. SecondsSaid(av + 1, seconds)
  <2>1. SecondsSaid(av - 1, seconds)
    BY <1>2, OptionsShape DEF Said
  <2>2. QED BY <1>5, <2>1 DEF SecondsSaid, LastNumber, NumberedTo
<1>7. CronSaid(av + 1, cron', text')
  BY <1>2, <1>4, <1>5 DEF CronSaid, LastTo
<1>8. Said(av + 1, seconds', cron', text')
  BY <1>2, <1>6, <1>7 DEF Said
<1>9. ReadOK' /\ Seen' = av + 1
  BY <1>2, <1>4 DEF ReadOK, Seen
<1>10. QED BY <1>1, <1>2, <1>8, <1>9, MakeSaid

LEMMA SecondsArgSaid ==
  ASSUME OInv, SecondsArg PROVE OInv'
<1>1. FInv'
  BY SecondsKeep DEF OInv
<1>2. /\ pc = "options" /\ ac > 1 /\ At(av) = "-s" /\ av' = av + 2
      /\ UNCHANGED <<argv, texts, cron, text, where>>
      /\ \/ pc' = "exit"
         \/ pc' = pc /\ seconds' = SecondsAfter(At(av + 1))
  BY DEF SecondsArg, HasArg, Advance, cronVars
<1>3. CASE pc' = "exit"
  BY <1>1, <1>3 DEF OInv, SaidOK, ReadOK
<1>4. CASE pc' = pc /\ seconds' = SecondsAfter(At(av + 1))
  <2>1. ac > 0
    BY <1>2, ArgsShape DEF OInv, FInv
  <2>2. /\ argv \in Seq(Arguments) /\ av \in Nat /\ av \in DOMAIN argv /\ argv[av] = "-s"
        /\ At(av + 1) = argv[av + 1] /\ Walked(av)
    BY <1>2, <2>1, LoopShape, ArgvShape DEF OInv
  <2>3. /\ UsesTo("-c", av + 1) = UsesTo("-c", av - 1)
        /\ LastTo("-s", av + 1, av)
        /\ UsesTo("-s", av + 1) = UsesTo("-s", av - 1) \cup {av}
    <3>1. argv[av] \in WithArg /\ argv[av] # "-c"
      BY <2>2 DEF WithArg
    <3>2. QED BY <2>2, <3>1, OneUse
  <2>4. CronSaid(av + 1, cron, text)
    <3>1. CronSaid(av - 1, cron, text)
      BY <1>2, OptionsShape DEF Said
    <3>2. QED BY <2>3, <3>1 DEF CronSaid, LastTo
  <2>5. SecondsSaid(av + 1, seconds')
    <3>1. CASE argv[av + 1] = Empty
      <4>1. NumberedTo(av + 1) = NumberedTo(av - 1)
        BY <2>3, <3>1 DEF NumberedTo
      <4>2. SecondsSaid(av - 1, seconds) /\ seconds' = seconds
        BY <1>2, <1>4, <2>2, <3>1, OptionsShape DEF Said, SecondsAfter
      <4>3. QED BY <4>1, <4>2 DEF SecondsSaid, LastNumber
    <3>2. CASE argv[av + 1] # Empty
      <4>1. LastNumber(av + 1, av)
        BY <2>3, <3>2 DEF LastNumber, LastTo, NumberedTo
      <4>2. seconds' = AsUnsigned(Number[argv[av + 1]])
        BY <1>4, <2>2, <3>2 DEF SecondsAfter
      <4>3. QED BY <4>1, <4>2 DEF SecondsSaid, LastNumber
    <3>3. QED BY <3>1, <3>2
  <2>6. Said(av + 1, seconds', cron', text')
    BY <1>2, <2>4, <2>5 DEF Said
  <2>7. ReadOK' /\ Seen' = av + 1
    BY <1>2, <1>4, <2>2, OptionsShape DEF ReadOK, Seen
  <2>8. QED BY <1>1, <1>2, <2>6, <2>7, MakeSaid
<1>5. QED BY <1>2, <1>3, <1>4

\* The parser does not write to the string it reads.
LEMMA SameText == ASSUME CronNext PROVE UNCHANGED text
BY DEF CronNext, ListDefault, ListBegins, NextElement, ListEnds, Star, Single,
       RangeElement, BadElement, Mark, LoopEnds, EntryEnds, Finish

LEMMA ParseSaid ==
  ASSUME OInv, ParseCron \/ CronParsed PROVE OInv'
<1>1. FInv'
  BY CronKeeps DEF OInv
<1>2. /\ pc = "cron" /\ pc' \in {"cron", "options"} /\ UNCHANGED <<argv, texts, av, seconds, cron, text>>
      /\ pc' = "options" => where' = "done"
  BY SameText DEF ParseCron, CronParsed, argVars, cronVars
<1>3. cron /\ cron \in BOOLEAN /\ Said(av - 1, seconds, cron, text)
  BY <1>2 DEF OInv, SaidOK, ReadOK, Seen, Said, CronSaid
<1>4. ReadOK' /\ Seen' = av - 1
  BY <1>2, <1>3 DEF ReadOK, Seen
<1>5. QED BY <1>1, <1>2, <1>3, <1>4, MakeSaid

\* A step of the end of main changes none of this, or ends the program.
LEMMA RestSaid ==
  ASSUME OInv, FInv', UNCHANGED <<argv, texts, seconds, cron, text, where>>,
         pc \in {"rest", "reverse", "service"},
         pc' \in {"rest", "reverse", "service", "served", "exit"}
  PROVE  OInv'
<1>1. CASE pc' = "exit"
  BY <1>1 DEF OInv, SaidOK, ReadOK
<1>2. CASE pc' # "exit"
  <2>1. Said(Len(argv), seconds, cron, text)
    BY DEF OInv, SaidOK, Seen
  <2>2. ReadOK' /\ Seen' = Len(argv)
    BY <1>2 DEF OInv, ReadOK, Seen
  <2>3. QED BY <2>1, <2>2, MakeSaid
<1>3. QED BY <1>1, <1>2

LEMMA OptionsInit == Init => OInv
<1> SUFFICES ASSUME Init PROVE OInv
  OBVIOUS
<1>1. FInv
  BY FilesInit
<1>2. argv \in Seq(Arguments)
  BY <1>1, Parts DEF FInv, ArgsOK
<1>3. av = 1 /\ seconds = 0 /\ cron = FALSE /\ pc = "options" /\ where = "idle"
  BY DEF Init, CronInit
<1>4. Seen = 0
  BY <1>3 DEF Seen
<1>5. UsesTo("-s", 0) = {} /\ UsesTo("-c", 0) = {}
  BY <1>2, UsesShape DEF UsesTo
<1>6. Said(0, seconds, cron, text)
  BY <1>3, <1>5 DEF Said, SecondsSaid, CronSaid, NumberedTo
<1>7. QED BY <1>1, <1>3, <1>4, <1>6 DEF OInv, SaidOK, ReadOK

LEMMA OptionsNext == OInv /\ [Next]_vars => OInv'
<1>1. ASSUME OInv, Next PROVE OInv'
  <2>1. FInv'
    BY <1>1, FilesNext DEF OInv
  <2>2. CASE EndOfOptions \/ File \/ Flag \/ CronArg \/ ParseCron \/ CronParsed \/ SecondsArg
    BY <1>1, <2>2, EndSaid, OneSaid, CronArgSaid, ParseSaid, SecondsArgSaid
  <2>3. CASE Stops \/ NoArguments
    BY <2>1, <2>3 DEF Stops, NoArguments, OInv, SaidOK, ReadOK
  <2>4. CASE Rest \/ Reverse \/ Pop
    <3>1. /\ UNCHANGED <<argv, texts, seconds, cron, text, where>>
          /\ pc \in {"rest", "reverse", "service"}
          /\ pc' \in {"rest", "reverse", "service", "served", "exit"}
      BY <2>4 DEF Rest, Reverse, Pop, cronVars
    <3>2. QED BY <1>1, <2>1, <3>1, RestSaid
  <2>5. QED BY <1>1, <2>2, <2>3, <2>4 DEF Next
<1>2. ASSUME OInv, UNCHANGED vars PROVE OInv'
  <2>1. FInv'
    BY <1>2, FilesNext DEF OInv
  <2>2. UNCHANGED <<argv, texts, av, seconds, cron, pc, text, where>>
    BY <1>2 DEF vars, argVars, cronVars
  <2>3. ReadOK' /\ UNCHANGED Seen
    BY <1>2, <2>2 DEF OInv, ReadOK, Seen
  <2>4. CASE pc = "exit"
    BY <2>1, <2>2, <2>3, <2>4 DEF OInv, SaidOK
  <2>5. CASE pc # "exit"
    <3>1. Said(Seen, seconds, cron, text)
      BY <1>2, <2>5 DEF OInv, SaidOK
    <3>2. PICK p : p = Seen
      OBVIOUS
    <3>3. QED BY <2>1, <2>2, <2>3, <3>1, <3>2, MakeSaid
  <2>6. QED BY <2>4, <2>5
<1>3. QED BY <1>1, <1>2

LEMMA OptionsInvariance == Spec => []OInv
BY OptionsInit, OptionsNext, PTL DEF Spec

\* The last use of some is the one that LastArg chooses.
LEMMA LastArgIs ==
  ASSUME NEW uses, uses \subseteq Nat, NEW i \in uses, \A j \in uses : j <= i
  PROVE  LastArg(uses) = argv[i + 1]
<1>1. \A k \in uses : (\A j \in uses : j <= k) <=> k = i
  OBVIOUS
<1>2. (CHOOSE k \in uses : \A j \in uses : j <= k) = i
  BY <1>1
<1>3. 1 + i = i + 1
  OBVIOUS
<1>4. QED BY <1>2, <1>3 DEF LastArg

LEMMA SaidAsGiven ==
  ASSUME OInv PROVE OptionsAsGiven
<1> SUFFICES ASSUME pc = "service"
             PROVE  /\ seconds = IF Numbered = {} THEN 0
                                 ELSE Number[LastArg(Numbered)] % (2 * (IntMax + 1))
                    /\ cron = (Uses("-c") # {})
                    /\ cron => text = TextOf(LastArg(Uses("-c")))
                    /\ where = (IF cron THEN "done" ELSE "idle")
  BY DEF OptionsAsGiven
<1>1. argv \in Seq(Arguments)
  BY Parts DEF OInv, FInv, ArgsOK
<1>2. Seen = Len(argv)
  BY DEF Seen
<1>3. SecondsSaid(Len(argv), seconds) /\ CronSaid(Len(argv), cron, text)
  BY <1>2 DEF OInv, SaidOK, Said
<1>4. \A opt : UsesTo(opt, Len(argv)) = Uses(opt) /\ Uses(opt) \subseteq Nat
  BY <1>1, UsesShape
<1>5. seconds = IF Numbered = {} THEN 0
                ELSE Number[LastArg(Numbered)] % (2 * (IntMax + 1))
  <2>1. NumberedTo(Len(argv)) = Numbered /\ Numbered \subseteq Nat
    BY <1>4 DEF NumberedTo, Numbered
  <2>2. CASE Numbered = {}
    BY <1>3, <2>1, <2>2 DEF SecondsSaid
  <2>3. CASE Numbered # {}
    <3>1. PICK i : LastNumber(Len(argv), i) /\ seconds = AsUnsigned(Number[argv[i + 1]])
      BY <1>3, <2>1, <2>3 DEF SecondsSaid
    <3>2. LastArg(Numbered) = argv[i + 1]
      BY <2>1, <3>1, LastArgIs DEF LastNumber
    <3>3. QED BY <2>3, <3>1, <3>2 DEF AsUnsigned
  <2>4. QED BY <2>2, <2>3
<1>6. cron = (Uses("-c") # {})
  BY <1>3, <1>4 DEF CronSaid
<1>7. ASSUME cron PROVE text = TextOf(LastArg(Uses("-c")))
  <2>1. PICK i : LastTo("-c", Len(argv), i) /\ text = TextOf(argv[i + 1])
    BY <1>3, <1>7 DEF CronSaid
  <2>2. LastArg(Uses("-c")) = argv[i + 1]
    BY <1>4, <2>1, LastArgIs DEF LastTo
  <2>3. QED BY <2>1, <2>2
<1>8. where = (IF cron THEN "done" ELSE "idle")
  BY DEF OInv, ReadOK
<1>9. QED BY <1>5, <1>6, <1>7, <1>8

\* The service starts with what the last -s that names a number and the last -c say
\* (main.c:81), and a cron string that was given has been read to its end.
THEOREM OptionsAsGivenHolds == Spec => []OptionsAsGiven
BY SaidAsGiven, OptionsInvariance, PTL

-----------------------------------------------------------------------------
(* What a cron string says: pieces, and what has been read of them.        *)

\* a and b are cuts of s, and the piece between them has no cut.
Adjacent(s, sep, a, b) ==
  /\ a \in Cuts(s, sep) /\ b \in Cuts(s, sep) /\ a < b
  /\ \A c \in Cuts(s, sep) : c <= a \/ c >= b
Word(s, a, b)  == SubSeq(s, a + 1, b - 1)
Nth(s, sep, a) == Cardinality({c \in Cuts(s, sep) : c <= a})

\* The pieces of s that end up to position k.
WordsTo(s, sep, k) ==
  {w \in Seq(Characters) : \E a, b : Adjacent(s, sep, a, b) /\ b <= k /\ w = Word(s, a, b)}

LEMMA CutsShape ==
  ASSUME NEW s \in Seq(Characters), NEW sep
  PROVE  /\ Len(s) \in Nat /\ DOMAIN s = 1..Len(s)
         /\ Cuts(s, sep) \subseteq 0..(Len(s) + 1) /\ IsFiniteSet(Cuts(s, sep))
         /\ 0 \in Cuts(s, sep) /\ Len(s) + 1 \in Cuts(s, sep)
         /\ \A n \in 1..Len(s) : n \in Cuts(s, sep) <=> s[n] = sep
<1>1. Len(s) \in Nat /\ DOMAIN s = 1..Len(s)
  BY LenProperties
<1>2. Cuts(s, sep) \subseteq 0..(Len(s) + 1)
  BY <1>1 DEF Cuts
<1>3. IsFiniteSet(Cuts(s, sep))
  <2>1. IsFiniteSet(0..(Len(s) + 1))
    BY <1>1, FS_Interval
  <2>2. QED BY <1>2, <2>1, FS_Subset
<1>4. QED BY <1>1, <1>2, <1>3 DEF Cuts

LEMMA AdjacentShape ==
  ASSUME NEW s \in Seq(Characters), NEW sep, NEW a, NEW b, Adjacent(s, sep, a, b)
  PROVE  /\ a \in 0..Len(s) /\ b \in 1..(Len(s) + 1) /\ a < b /\ Len(s) \in Nat
         /\ a = 0 \/ s[a] = sep
         /\ b = Len(s) + 1 \/ s[b] = sep
         /\ \A n \in (a + 1)..(b - 1) : n \in 1..Len(s) /\ s[n] # sep
<1>1. a \in 0..(Len(s) + 1) /\ b \in 0..(Len(s) + 1) /\ a < b /\ Len(s) \in Nat
  BY CutsShape DEF Adjacent
<1>2. a \in 0..Len(s) /\ b \in 1..(Len(s) + 1)
  BY <1>1
<1>3. (a = 0 \/ s[a] = sep) /\ (b = Len(s) + 1 \/ s[b] = sep)
  BY <1>2, CutsShape DEF Adjacent
<1>4. ASSUME NEW n \in (a + 1)..(b - 1)
      PROVE  n \in 1..Len(s) /\ s[n] # sep
  <2>1. n \in 1..Len(s) /\ ~(n <= a \/ n >= b)
    BY <1>2
  <2>2. n \notin Cuts(s, sep)
    BY <2>1 DEF Adjacent
  <2>3. QED BY <2>1, <2>2, CutsShape
<1>5. QED BY <1>1, <1>2, <1>3, <1>4

LEMMA WordShape ==
  ASSUME NEW s \in Seq(Characters), NEW sep, NEW a, NEW b, Adjacent(s, sep, a, b)
  PROVE  /\ Word(s, a, b) \in Seq(Characters)
         /\ Len(Word(s, a, b)) = b - a - 1
         /\ \A n \in 1..(b - a - 1) : Word(s, a, b)[n] = s[a + n] /\ s[a + n] # sep
<1>1. /\ a \in 0..Len(s) /\ b \in 1..(Len(s) + 1) /\ a < b /\ Len(s) \in Nat
      /\ \A n \in (a + 1)..(b - 1) : n \in 1..Len(s) /\ s[n] # sep
  BY AdjacentShape
<1>2. \A n \in (a + 1)..(b - 1) : s[n] \in Characters
  BY <1>1, ElementOfSeq
<1>3. a + 1 \in Int /\ b - 1 \in Int
  BY <1>1
<1>4. Word(s, a, b) \in Seq(Characters)
  BY <1>2, <1>3, SubSeqProperties DEF Word
<1>5. Len(Word(s, a, b)) = b - a - 1
  <2>1. Len(Word(s, a, b)) = IF a + 1 <= b - 1 THEN (b - 1) - (a + 1) + 1 ELSE 0
    BY <1>3, SubSeqProperties DEF Word
  <2>2. QED BY <1>1, <2>1
<1>6. ASSUME NEW n \in 1..(b - a - 1)
      PROVE  Word(s, a, b)[n] = s[a + n] /\ s[a + n] # sep
  <2>1. a + n \in (a + 1)..(b - 1) /\ (a + 1) + n - 1 = a + n
        /\ n \in 1..((b - 1) - (a + 1) + 1)
    BY <1>1
  <2>2. Word(s, a, b)[n] = s[(a + 1) + n - 1]
    BY <1>3, <2>1, SubSeqProperties DEF Word
  <2>3. QED BY <1>1, <2>1, <2>2
<1>7. QED BY <1>4, <1>5, <1>6

\* After a cut that is not the end there is a piece.
LEMMA NextCut ==
  ASSUME NEW s \in Seq(Characters), NEW sep, NEW a \in Cuts(s, sep), a <= Len(s)
  PROVE  \E b : Adjacent(s, sep, a, b)
<1> DEFINE T == {b \in Cuts(s, sep) : a < b}
<1>1. T \subseteq Nat /\ T # {} /\ a \in Nat
  <2>1. Cuts(s, sep) \subseteq Nat /\ Len(s) \in Nat
    BY CutsShape
  <2>2. Len(s) + 1 \in T
    BY <2>1, CutsShape
  <2>3. QED BY <2>1, <2>2
<1>2. PICK b \in T : \A c \in T : b <= c
  <2> HIDE DEF T
  <2>1. QED BY <1>1, Least
<1>3. \A c \in Cuts(s, sep) : c <= a \/ c >= b
  <2>1. Cuts(s, sep) \subseteq Nat
    BY CutsShape
  <2>2. QED BY <1>1, <1>2, <2>1
<1>4. QED BY <1>2, <1>3 DEF Adjacent

\* Two pieces that begin together are the same, and two that end together.
LEMMA SameCut ==
  ASSUME NEW s \in Seq(Characters), NEW sep, NEW a, NEW b, NEW c, NEW d,
         Adjacent(s, sep, a, b), Adjacent(s, sep, c, d)
  PROVE  a = c <=> b = d
<1>1. a \in Nat /\ b \in Nat /\ c \in Nat /\ d \in Nat
  BY AdjacentShape
<1>2. QED BY <1>1 DEF Adjacent

-----------------------------------------------------------------------------
(* The words, one more with each piece.                                    *)

LEMMA NoWords ==
  ASSUME NEW s \in Seq(Characters), NEW sep
  PROVE  WordsTo(s, sep, 0) = {}
<1>1. \A a, b : Adjacent(s, sep, a, b) => ~(b <= 0)
  BY AdjacentShape
<1>2. QED BY <1>1 DEF WordsTo

LEMMA OneMoreWord ==
  ASSUME NEW s \in Seq(Characters), NEW sep, NEW a, NEW b, Adjacent(s, sep, a, b)
  PROVE  WordsTo(s, sep, b) = WordsTo(s, sep, a) \cup {Word(s, a, b)}
<1>1. a \in Nat /\ b \in Nat /\ a < b
  BY AdjacentShape
<1>2. ASSUME NEW c, NEW d, Adjacent(s, sep, c, d)
      PROVE  d <= b <=> (d <= a \/ (c = a /\ d = b))
  <2>1. c \in Nat /\ d \in Nat
    BY <1>2, AdjacentShape
  <2>2. d <= a \/ d >= b
    BY <1>2 DEF Adjacent
  <2>3. a = c <=> b = d
    BY <1>2, SameCut
  <2>4. QED BY <1>1, <2>1, <2>2, <2>3
<1>3. Word(s, a, b) \in Seq(Characters)
  BY WordShape
<1>4. ASSUME NEW w
      PROVE  w \in WordsTo(s, sep, b) <=> w \in WordsTo(s, sep, a) \cup {Word(s, a, b)}
  <2>1. ASSUME w \in WordsTo(s, sep, b)
        PROVE  w \in WordsTo(s, sep, a) \cup {Word(s, a, b)}
    BY <1>2, <2>1 DEF WordsTo
  <2>2. ASSUME w \in WordsTo(s, sep, a)
        PROVE  w \in WordsTo(s, sep, b)
    BY <1>2, <2>2 DEF WordsTo
  <2>3. ASSUME w = Word(s, a, b)
        PROVE  w \in WordsTo(s, sep, b)
    BY <1>1, <1>3, <2>3 DEF WordsTo
  <2>4. QED BY <2>1, <2>2, <2>3
<1>5. QED BY <1>4

\* The definitions of Pieces with adjacent cuts.
LEMMA PiecesAre ==
  ASSUME NEW s \in Seq(Characters), NEW sep
  PROVE  \A p : p \in Pieces(s, sep) <=>
           \E a, b : Adjacent(s, sep, a, b) /\ p = [nth |-> Nth(s, sep, a), word |-> Word(s, a, b)]
<1> DEFINE C == Cuts(s, sep)
           ends(a) == {b \in C : b > a /\ \A c \in C : c <= a \/ c >= b}
           piece(a, b) == [nth |-> Cardinality({c \in C : c <= a}),
                           word |-> SubSeq(s, a + 1, b - 1)]
<1>1. Pieces(s, sep) = UNION {{piece(a, b) : b \in ends(a)} : a \in C}
  BY DEF Pieces
<1>2. \A p : p \in Pieces(s, sep) <=> \E a \in C : \E b \in ends(a) : p = piece(a, b)
  <2> HIDE DEF C, ends, piece
  <2>1. QED BY <1>1
<1>3. \A a, b : piece(a, b) = [nth |-> Nth(s, sep, a), word |-> Word(s, a, b)]
  BY DEF Nth, Word
<1>4. ASSUME NEW a, NEW b
      PROVE  Adjacent(s, sep, a, b) <=> a \in C /\ b \in ends(a)
  <2>1. \A c \in C : c \in Nat
    BY CutsShape
  <2>2. QED BY <2>1 DEF Adjacent
<1>5. QED
  <2> HIDE DEF C, ends, piece
  <2>1. QED BY <1>2, <1>3, <1>4

LEMMA AllWords ==
  ASSUME NEW s \in Seq(Characters), NEW sep
  PROVE  {p.word : p \in Pieces(s, sep)} = WordsTo(s, sep, Len(s) + 1)
<1>1. ASSUME NEW w
      PROVE  w \in {p.word : p \in Pieces(s, sep)} <=>
               \E a, b : Adjacent(s, sep, a, b) /\ w = Word(s, a, b)
  <2>1. ASSUME w \in {p.word : p \in Pieces(s, sep)}
        PROVE  \E a, b : Adjacent(s, sep, a, b) /\ w = Word(s, a, b)
    <3>1. PICK p \in Pieces(s, sep) : w = p.word
      BY <2>1
    <3>2. PICK a, b : /\ Adjacent(s, sep, a, b)
                      /\ p = [nth |-> Nth(s, sep, a), word |-> Word(s, a, b)]
      BY PiecesAre
    <3>3. QED BY <3>1, <3>2
  <2>2. ASSUME NEW a, NEW b, Adjacent(s, sep, a, b), w = Word(s, a, b)
        PROVE  w \in {p.word : p \in Pieces(s, sep)}
    <3>1. PICK p : p = [nth |-> Nth(s, sep, a), word |-> Word(s, a, b)]
      OBVIOUS
    <3>2. p \in Pieces(s, sep) /\ p.word = w
      BY <2>2, <3>1, PiecesAre
    <3>3. QED BY <3>2
  <2>3. QED BY <2>1, <2>2
<1>2. \A a, b : Adjacent(s, sep, a, b) => b <= Len(s) + 1 /\ Word(s, a, b) \in Seq(Characters)
  <2>1. ASSUME NEW a, NEW b, Adjacent(s, sep, a, b)
        PROVE  b <= Len(s) + 1 /\ Word(s, a, b) \in Seq(Characters)
    <3>1. b \in 1..(Len(s) + 1) /\ Len(s) \in Nat
      BY <2>1, AdjacentShape
    <3>2. QED BY <2>1, <3>1, WordShape
  <2>2. QED BY <2>1
<1>3. \A w : w \in {p.word : p \in Pieces(s, sep)} <=> w \in WordsTo(s, sep, Len(s) + 1)
  <2>1. ASSUME NEW w
        PROVE  w \in WordsTo(s, sep, Len(s) + 1) <=>
                 /\ w \in Seq(Characters)
                 /\ \E a, b : Adjacent(s, sep, a, b) /\ b <= Len(s) + 1 /\ w = Word(s, a, b)
    BY DEF WordsTo
  <2>2. QED BY <1>1, <1>2, <2>1
<1>4. QED BY <1>3

-----------------------------------------------------------------------------
(* The numbers of the pieces.                                              *)

LEMMA NthNat ==
  ASSUME NEW s \in Seq(Characters), NEW sep, NEW a
  PROVE  /\ Nth(s, sep, a) \in Nat
         /\ IsFiniteSet({c \in Cuts(s, sep) : c <= a})
<1>1. {c \in Cuts(s, sep) : c <= a} \in SUBSET Cuts(s, sep)
  OBVIOUS
<1>2. IsFiniteSet({c \in Cuts(s, sep) : c <= a})
  BY <1>1, CutsShape, FS_Subset
<1>3. QED BY <1>2, FS_CardinalityType DEF Nth

LEMMA NthZero ==
  ASSUME NEW s \in Seq(Characters), NEW sep
  PROVE  Nth(s, sep, 0) = 1
<1>1. {c \in Cuts(s, sep) : c <= 0} = {0}
  <2>1. Cuts(s, sep) \subseteq Nat /\ 0 \in Cuts(s, sep)
    BY CutsShape
  <2>2. QED BY <2>1
<1>2. QED BY <1>1, FS_Singleton DEF Nth

LEMMA NthNext ==
  ASSUME NEW s \in Seq(Characters), NEW sep, NEW a, NEW b, Adjacent(s, sep, a, b)
  PROVE  Nth(s, sep, b) = Nth(s, sep, a) + 1
<1> DEFINE To(k) == {c \in Cuts(s, sep) : c <= k}
<1>1. Cuts(s, sep) \subseteq Nat /\ a \in Nat /\ b \in Nat /\ a < b
  BY CutsShape, AdjacentShape
<1>2. To(b) = To(a) \cup {b} /\ b \notin To(a)
  BY <1>1 DEF Adjacent
<1>3. IsFiniteSet(To(a))
  BY NthNat
<1>4. Cardinality(To(b)) = Cardinality(To(a)) + 1
  <2> HIDE DEF To
  <2>1. QED BY <1>2, <1>3, FS_AddElement
<1>5. QED BY <1>4 DEF Nth

LEMMA NthGrows ==
  ASSUME NEW s \in Seq(Characters), NEW sep, NEW a \in Cuts(s, sep), NEW b \in Cuts(s, sep),
         a < b
  PROVE  Nth(s, sep, a) < Nth(s, sep, b)
<1> DEFINE To(k) == {c \in Cuts(s, sep) : c <= k}
<1>1. Cuts(s, sep) \subseteq Nat /\ a \in Nat /\ b \in Nat
  BY CutsShape
<1>2. To(a) \in SUBSET To(b) /\ b \in To(b) /\ b \notin To(a)
  BY <1>1
<1>3. /\ IsFiniteSet(To(b)) /\ IsFiniteSet(To(a))
      /\ Cardinality(To(a)) \in Nat /\ Cardinality(To(b)) \in Nat
  BY NthNat DEF Nth
<1>4. Cardinality(To(a)) <= Cardinality(To(b))
      /\ (Cardinality(To(b)) = Cardinality(To(a)) => To(b) = To(a))
  <2> HIDE DEF To
  <2>1. QED BY <1>2, <1>3, FS_Subset
<1>5. Cardinality(To(a)) < Cardinality(To(b))
  <2> HIDE DEF To
  <2>1. QED BY <1>2, <1>3, <1>4
<1>6. QED BY <1>5 DEF Nth

LEMMA NthOne ==
  ASSUME NEW s \in Seq(Characters), NEW sep, NEW a \in Cuts(s, sep), NEW b \in Cuts(s, sep),
         Nth(s, sep, a) = Nth(s, sep, b)
  PROVE  a = b
<1>1. Cuts(s, sep) \subseteq Nat
  BY CutsShape
<1>2. Nth(s, sep, a) \in Nat /\ Nth(s, sep, b) \in Nat
  BY NthNat
<1>3. ~(a < b) /\ ~(b < a)
  BY <1>2, NthGrows
<1>4. QED BY <1>1, <1>3

\* There are as many pieces as cuts but one.
LEMMA PiecesCount ==
  ASSUME NEW s \in Seq(Characters), NEW sep
  PROVE  Cardinality(Pieces(s, sep)) = Nth(s, sep, Len(s))
<1> DEFINE T == {c \in Cuts(s, sep) : c <= Len(s)}
           F == [a \in T |-> [nth |-> Nth(s, sep, a),
                              word |-> Word(s, a, CHOOSE b : Adjacent(s, sep, a, b))]]
<1>1. ASSUME NEW a, NEW b, Adjacent(s, sep, a, b)
      PROVE  a \in T /\ (CHOOSE d : Adjacent(s, sep, a, d)) = b
  <2>1. a \in T
    <3>1. a \in Cuts(s, sep) /\ a \in 0..Len(s) /\ Len(s) \in Nat
      BY <1>1, AdjacentShape DEF Adjacent
    <3>2. QED BY <3>1
  <2>2. Adjacent(s, sep, a, CHOOSE d : Adjacent(s, sep, a, d))
    BY <1>1
  <2>3. QED BY <1>1, <2>1, <2>2, SameCut
<1>2. ASSUME NEW a \in T
      PROVE  /\ F[a] \in Pieces(s, sep)
             /\ F[a].nth = Nth(s, sep, a)
  <2>1. PICK b : Adjacent(s, sep, a, b)
    BY NextCut
  <2>2. F[a] = [nth |-> Nth(s, sep, a), word |-> Word(s, a, b)]
    BY <1>1, <2>1
  <2>3. F[a] \in Pieces(s, sep)
    BY <2>1, <2>2, PiecesAre
  <2>4. QED BY <2>2, <2>3
<1>3. ASSUME NEW p \in Pieces(s, sep)
      PROVE  \E a \in T : F[a] = p
  <2>1. PICK a, b : /\ Adjacent(s, sep, a, b)
                    /\ p = [nth |-> Nth(s, sep, a), word |-> Word(s, a, b)]
    BY PiecesAre
  <2>2. a \in T /\ F[a] = p
    BY <1>1, <2>1
  <2>3. QED BY <2>2
<1>4. F \in Bijection(T, Pieces(s, sep))
  <2>1. F \in [T -> Pieces(s, sep)] /\ DOMAIN F = T
    <3>1. DOMAIN F = T /\ F = [a \in T |-> F[a]]
      OBVIOUS
    <3>2. QED
      <4> HIDE DEF T, F
      <4>1. QED BY <1>2, <3>1
  <2>2. \A a, b \in T : F[a] = F[b] => a = b
    <3>1. \A a \in T : a \in Cuts(s, sep)
      OBVIOUS
    <3>2. QED
      <4> HIDE DEF T, F
      <4>1. QED BY <1>2, <3>1, NthOne
  <2>3. QED
    <3> HIDE DEF T, F
    <3>1. QED BY <1>3, <2>1, <2>2 DEF Bijection, Injection, Surjection, IsInjective
<1>5. IsFiniteSet(T)
  BY NthNat
<1>6. Cardinality(Pieces(s, sep)) = Cardinality(T)
  <2> HIDE DEF T, F
  <2>1. ExistsBijection(T, Pieces(s, sep))
    BY <1>4 DEF ExistsBijection
  <2>2. QED BY <1>5, <2>1, FS_Bijection
<1>7. QED BY <1>6 DEF Nth

\* Past the last of the lists that are read is the end of the entry.
LEMMA LastPiece ==
  ASSUME NEW s \in Seq(Characters), NEW sep, NEW a, NEW b, Adjacent(s, sep, a, b),
         Cardinality(Pieces(s, sep)) <= Nth(s, sep, a)
  PROVE  b = Len(s) + 1
<1>1. /\ Len(s) \in Nat /\ b \in 1..(Len(s) + 1)
      /\ Nth(s, sep, a) \in Nat /\ Nth(s, sep, b) = Nth(s, sep, a) + 1
  <2>1. Len(s) \in Nat /\ b \in 1..(Len(s) + 1)
    BY AdjacentShape
  <2>2. Nth(s, sep, a) \in Nat /\ Nth(s, sep, b) = Nth(s, sep, a) + 1
    BY NthNat, NthNext
  <2>3. QED BY <2>1, <2>2
<1>2. Nth(s, sep, Len(s)) <= Nth(s, sep, a) /\ Nth(s, sep, Len(s)) \in Nat
  BY PiecesCount, NthNat
<1>3. ASSUME b <= Len(s) PROVE FALSE
  <2>1. {c \in Cuts(s, sep) : c <= b} \in SUBSET {c \in Cuts(s, sep) : c <= Len(s)}
    <3>1. Cuts(s, sep) \subseteq Nat
      BY CutsShape
    <3>2. QED BY <1>1, <1>3, <3>1
  <2>2. Nth(s, sep, b) <= Nth(s, sep, Len(s))
    BY <2>1, NthNat, FS_Subset DEF Nth
  <2>3. QED BY <1>1, <1>2, <2>2
<1>4. QED BY <1>1, <1>3

-----------------------------------------------------------------------------
(* What has been read.                                                     *)

Comma     == ","
Semicolon == ";"
Blank     == " "

\* The elements of a list that end up to position e, the entries of a string that
\* end up to a.
ReadTo(l, f, e)    == UNION {MeaningOf(x, f) : x \in WordsTo(l, Comma, e)}
EarlierTo(B, f, a) == UNION {Meaning(w, f) : w \in WordsTo(B, Semicolon, a)}

LEMMA OneMoreElement ==
  ASSUME NEW l \in Seq(Characters), NEW e, NEW g, Adjacent(l, Comma, e, g), NEW f
  PROVE  ReadTo(l, f, g) = ReadTo(l, f, e) \cup MeaningOf(Word(l, e, g), f)
<1>1. WordsTo(l, Comma, g) = WordsTo(l, Comma, e) \cup {Word(l, e, g)}
  BY OneMoreWord
<1>2. QED BY <1>1 DEF ReadTo

LEMMA OneMoreEntry ==
  ASSUME NEW B \in Seq(Characters), NEW a, NEW b, Adjacent(B, Semicolon, a, b), NEW f
  PROVE  EarlierTo(B, f, b) = EarlierTo(B, f, a) \cup Meaning(Word(B, a, b), f)
<1>1. WordsTo(B, Semicolon, b) = WordsTo(B, Semicolon, a) \cup {Word(B, a, b)}
  BY OneMoreWord
<1>2. QED BY <1>1 DEF EarlierTo

LEMMA NothingRead ==
  ASSUME NEW s \in Seq(Characters), NEW f
  PROVE  ReadTo(s, f, 0) = {} /\ EarlierTo(s, f, 0) = {}
BY NoWords DEF ReadTo, EarlierTo

\* The list with number f says what the field means.
LEMMA ListMeans ==
  ASSUME NEW w \in Seq(Characters), NEW c, NEW d, Adjacent(w, Blank, c, d),
         NEW f, f = Nth(w, Blank, c)
  PROVE  /\ Meaning(w, f) = ReadTo(Word(w, c, d), f, Len(Word(w, c, d)) + 1)
         /\ Elements(w, f) = WordsTo(Word(w, c, d), Comma, Len(Word(w, c, d)) + 1)
<1>1. Word(w, c, d) \in Seq(Characters)
  BY WordShape
<1>2. ASSUME NEW l PROVE l \in Lists(w, f) <=> l = Word(w, c, d)
  <2>1. l \in Lists(w, f) <=> \E p \in Pieces(w, Blank) : p.nth = f /\ l = p.word
    BY DEF Lists, Blank
  <2>2. ASSUME NEW p \in Pieces(w, Blank), p.nth = f PROVE p.word = Word(w, c, d)
    <3>1. PICK a, b : /\ Adjacent(w, Blank, a, b)
                      /\ p = [nth |-> Nth(w, Blank, a), word |-> Word(w, a, b)]
      BY PiecesAre
    <3>2. Nth(w, Blank, a) = Nth(w, Blank, c) /\ p.word = Word(w, a, b)
      BY <2>2, <3>1
    <3>3. a = c
      BY <3>1, <3>2, NthOne DEF Adjacent
    <3>4. b = d
      BY <3>1, <3>3, SameCut
    <3>5. QED BY <3>2, <3>3, <3>4
  <2>3. \E p \in Pieces(w, Blank) : p.nth = f /\ p.word = Word(w, c, d)
    <3>1. PICK p : p = [nth |-> Nth(w, Blank, c), word |-> Word(w, c, d)]
      OBVIOUS
    <3>2. p \in Pieces(w, Blank) /\ p.nth = f /\ p.word = Word(w, c, d)
      BY <3>1, PiecesAre
    <3>3. QED BY <3>2
  <2>4. QED BY <2>1, <2>2, <2>3
<1>3. Lists(w, f) = {Word(w, c, d)}
  BY <1>2
<1>4. Elements(w, f) = {p.word : p \in Pieces(Word(w, c, d), Comma)}
  BY <1>3 DEF Elements, Comma
<1>5. Elements(w, f) = WordsTo(Word(w, c, d), Comma, Len(Word(w, c, d)) + 1)
  BY <1>1, <1>4, AllWords
<1>6. QED BY <1>3, <1>5 DEF Meaning, ReadTo

\* A field beyond the last list has no list.
LEMMA NoListMeans ==
  ASSUME NEW w \in Seq(Characters), NEW f \in Nat, Nth(w, Blank, Len(w) + 1) <= f
  PROVE  Meaning(w, f) = FieldMin[f]..FieldMax[f]
<1>1. ASSUME NEW l \in Lists(w, f) PROVE FALSE
  <2>1. PICK p \in Pieces(w, Blank) : p.nth = f
    BY DEF Lists, Blank
  <2>2. PICK a, b : /\ Adjacent(w, Blank, a, b)
                    /\ p = [nth |-> Nth(w, Blank, a), word |-> Word(w, a, b)]
    BY PiecesAre
  <2>3. /\ a \in Cuts(w, Blank) /\ Len(w) + 1 \in Cuts(w, Blank) /\ a < Len(w) + 1
    <3>1. a \in 0..Len(w) /\ Len(w) \in Nat
      BY <2>2, AdjacentShape
    <3>2. QED BY <2>2, <3>1, CutsShape DEF Adjacent
  <2>4. Nth(w, Blank, a) < Nth(w, Blank, Len(w) + 1)
    BY <2>3, NthGrows
  <2>5. Nth(w, Blank, a) = f /\ Nth(w, Blank, Len(w) + 1) \in Nat
    BY <2>1, <2>2, NthNat
  <2>6. QED BY <2>4, <2>5
<1>2. QED BY <1>1 DEF Meaning

-----------------------------------------------------------------------------
(* Where the pieces are in the string.                                     *)

Asterisk == "*"
Dash     == "-"
Slash    == "/"

Chr(t, p)   == IF p \in DOMAIN t THEN t[p] ELSE End
Prefixed(t) == t # <<>> /\ t[1] \in {"L", "Z"}
Offset(t)   == IF Prefixed(t) THEN 1 ELSE 0
BodyOf(t)   == IF Prefixed(t) THEN Tail(t) ELSE t

RegularText(t) ==
  /\ t # <<>>
  /\ \A w \in WordsTo(BodyOf(t), Semicolon, Len(BodyOf(t)) + 1) : RegularFields(w, Fields)

\* The characters are told apart.
LEMMA Signs ==
  /\ {Comma, Semicolon, Blank, Asterisk, Dash, Slash} \subseteq Characters
  /\ \A c \in {Comma, Semicolon, Blank, Asterisk, Dash, Slash} : c \notin Numerals /\ c # End
  /\ Comma # Semicolon /\ Comma # Blank /\ Comma # Asterisk /\ Comma # Dash /\ Comma # Slash
  /\ Semicolon # Blank /\ Semicolon # Asterisk /\ Semicolon # Dash /\ Semicolon # Slash
  /\ Blank # Asterisk /\ Blank # Dash /\ Blank # Slash
  /\ Asterisk # Dash /\ Asterisk # Slash /\ Dash # Slash
  /\ End \notin Numerals
<1>1. {Comma, Semicolon, Blank, Asterisk, Dash, Slash} \subseteq Marks
  BY DEF Comma, Semicolon, Blank, Asterisk, Dash, Slash, Marks
<1>2. End \notin Characters /\ \A c \in Marks : c \notin Numerals
  BY Constants
<1>3. Marks \subseteq Characters /\ Numerals \subseteq Characters
  BY DEF Characters
<1>4. Comma # Semicolon /\ Comma # Blank /\ Comma # Asterisk /\ Comma # Dash /\ Comma # Slash
  BY DEF Comma, Semicolon, Blank, Asterisk, Dash, Slash
<1>5. Semicolon # Blank /\ Semicolon # Asterisk /\ Semicolon # Dash /\ Semicolon # Slash
  BY DEF Comma, Semicolon, Blank, Asterisk, Dash, Slash
<1>6. /\ Blank # Asterisk /\ Blank # Dash /\ Blank # Slash
      /\ Asterisk # Dash /\ Asterisk # Slash /\ Dash # Slash
  BY DEF Comma, Semicolon, Blank, Asterisk, Dash, Slash
<1>7. QED BY <1>1, <1>2, <1>3, <1>4, <1>5, <1>6

LEMMA BodyShape ==
  ASSUME NEW t \in Seq(Characters)
  PROVE  /\ BodyOf(t) \in Seq(Characters) /\ Offset(t) \in {0, 1}
         /\ Len(t) \in Nat /\ Len(BodyOf(t)) \in Nat
         /\ Len(t) = Offset(t) + Len(BodyOf(t))
         /\ \A n \in 1..Len(BodyOf(t)) : Chr(t, Offset(t) + n) = BodyOf(t)[n]
         /\ Chr(t, Len(t) + 1) = End
<1>1. Len(t) \in Nat /\ DOMAIN t = 1..Len(t)
  BY LenProperties
<1>2. Chr(t, Len(t) + 1) = End
  BY <1>1 DEF Chr
<1>3. CASE Prefixed(t)
  <2>1. BodyOf(t) = Tail(t) /\ Offset(t) = 1 /\ t # <<>>
    BY <1>3 DEF BodyOf, Offset, Prefixed
  <2>2. /\ Tail(t) \in Seq(Characters) /\ Len(Tail(t)) = Len(t) - 1
        /\ \A n \in 1..Len(Tail(t)) : Tail(t)[n] = t[n + 1]
    BY <2>1, HeadTailProperties
  <2>3. Len(Tail(t)) \in Nat
    BY <2>2, LenProperties
  <2>4. ASSUME NEW n \in 1..Len(Tail(t)) PROVE Chr(t, 1 + n) = Tail(t)[n]
    <3>1. n + 1 \in 1..Len(t) /\ 1 + n = n + 1
      BY <1>1, <2>2, <2>3
    <3>2. QED BY <1>1, <2>2, <3>1 DEF Chr
  <2>5. QED BY <1>1, <1>2, <2>1, <2>2, <2>3, <2>4
<1>4. CASE ~Prefixed(t)
  <2>1. BodyOf(t) = t /\ Offset(t) = 0
    BY <1>4 DEF BodyOf, Offset
  <2>2. ASSUME NEW n \in 1..Len(t) PROVE Chr(t, 0 + n) = t[n]
    <3>1. n \in DOMAIN t /\ 0 + n = n
      BY <1>1
    <3>2. QED BY <3>1 DEF Chr
  <2>3. QED BY <1>1, <1>2, <2>1, <2>2
<1>5. QED BY <1>3, <1>4

\* After position k of t comes s.
Spells(t, k, s) == \A n \in 1..Len(s) : Chr(t, k + n) = s[n]

LEMMA PieceReads ==
  ASSUME NEW t, NEW k \in Nat, NEW s \in Seq(Characters), Spells(t, k, s),
         NEW sep, NEW a, NEW b, Adjacent(s, sep, a, b),
         NEW w, w = Word(s, a, b), NEW p, p = k + a
  PROVE  Spells(t, p, w)
<1>1. /\ a \in 0..Len(s) /\ b \in 1..(Len(s) + 1) /\ a < b /\ Len(s) \in Nat
  BY AdjacentShape
<1>2. /\ w \in Seq(Characters) /\ Len(w) = b - a - 1
      /\ \A n \in 1..(b - a - 1) : w[n] = s[a + n]
  BY WordShape
<1>3. ASSUME NEW n \in 1..(b - a - 1) PROVE Chr(t, p + n) = w[n]
  <2>1. a + n \in 1..Len(s) /\ p + n = k + (a + n)
    BY <1>1
  <2>2. QED BY <1>2, <2>1 DEF Spells
<1>4. QED BY <1>2, <1>3 DEF Spells

LEMMA CutReads ==
  ASSUME NEW t, NEW k \in Nat, NEW s \in Seq(Characters), Spells(t, k, s),
         NEW sep, NEW a, NEW b, Adjacent(s, sep, a, b),
         b # Len(s) + 1, NEW q, q = k + b
  PROVE  Chr(t, q) = sep
<1>1. /\ b \in 1..(Len(s) + 1) /\ Len(s) \in Nat /\ (b = Len(s) + 1 \/ s[b] = sep)
  BY AdjacentShape
<1>2. QED BY <1>1 DEF Spells

\* The entry w of t, the list l of w with number f, the element x of l.
InEntry(t, a, b, w)    == Adjacent(BodyOf(t), Semicolon, a, b) /\ w = Word(BodyOf(t), a, b)
InList(w, f, c, d, l)  == Adjacent(w, Blank, c, d) /\ l = Word(w, c, d) /\ f = Nth(w, Blank, c)
InElement(l, e, g, x)  == Adjacent(l, Comma, e, g) /\ x = Word(l, e, g)

LEMMA EntryReads ==
  ASSUME NEW t \in Seq(Characters), RegularText(t), NEW o \in Nat, o = Offset(t),
         NEW a, NEW b, NEW w, InEntry(t, a, b, w),
         NEW p, p = o + a, NEW q, q = o + b
  PROVE  /\ w \in Seq(Characters) /\ RegularFields(w, Fields)
         /\ a \in Nat /\ b \in Nat /\ Len(w) \in Nat /\ Len(w) = b - a - 1
         /\ q \in 1..(Len(t) + 1) /\ Len(t) \in Nat
         /\ Spells(t, p, w)
         /\ b # Len(BodyOf(t)) + 1 => Chr(t, q) = Semicolon
         /\ b = Len(BodyOf(t)) + 1 => q = Len(t) + 1 /\ Chr(t, q) = End
<1>1. PICK s \in Seq(Characters) : s = BodyOf(t)
  BY BodyShape
<1>2. /\ Len(t) = o + Len(s) /\ Len(s) \in Nat /\ Chr(t, Len(t) + 1) = End
      /\ Spells(t, o, s)
  BY <1>1, BodyShape DEF Spells
<1>3. Adjacent(s, Semicolon, a, b) /\ w = Word(s, a, b)
  BY <1>1 DEF InEntry
<1>4. /\ w \in Seq(Characters)
      /\ a \in Nat /\ b \in Nat /\ Len(w) \in Nat /\ Len(w) = b - a - 1
      /\ Spells(t, p, w)
      /\ b <= Len(s) + 1
      /\ b # Len(s) + 1 => Chr(t, q) = Semicolon
  <2>1. w \in Seq(Characters) /\ Len(w) = b - a - 1
    BY <1>3, WordShape
  <2>2. b \in 1..(Len(s) + 1) /\ a < b /\ a \in Nat /\ b \in Nat
    BY <1>3, AdjacentShape
  <2>3. Spells(t, p, w)
    BY <1>2, <1>3, PieceReads
  <2>4. b # Len(s) + 1 => Chr(t, q) = Semicolon
    BY <1>2, <1>3, CutReads
  <2>5. QED BY <1>2, <2>1, <2>2, <2>3, <2>4
<1>5. w \in WordsTo(s, Semicolon, Len(s) + 1)
  BY <1>3, <1>4 DEF WordsTo
<1>6. RegularFields(w, Fields)
  BY <1>1, <1>5 DEF RegularText
<1>7. /\ q \in 1..(Len(t) + 1) /\ Len(t) \in Nat
      /\ b = Len(s) + 1 => q = Len(t) + 1 /\ Chr(t, q) = End
  <2>1. q \in 1..(Len(t) + 1) /\ Len(t) \in Nat /\ (b = Len(s) + 1 => q = Len(t) + 1)
    <3>1. b \in 1..(Len(s) + 1) /\ Len(s) \in Nat /\ Len(t) = o + Len(s)
      BY <1>2, <1>3, AdjacentShape
    <3>2. QED BY <3>1, SMTT(30)
  <2>2. q = Len(t) + 1 => Chr(t, q) = End
    BY <1>2
  <2>3. QED BY <2>1, <2>2
<1>8. QED BY <1>1, <1>4, <1>6, <1>7

\* A regular entry has a piece in each list, and its pieces are regular.
LEMMA RegularShape ==
  ASSUME NEW w, RegularFields(w, Fields)
  PROVE  /\ w # <<>> /\ Cardinality(Pieces(w, Blank)) <= 5
         /\ \A f \in Fields : \A x \in Elements(w, f) : RegularElement(x, f)
BY DEF RegularFields, Blank

LEMMA ListReads ==
  ASSUME NEW t \in Seq(Characters), RegularText(t), NEW o \in Nat, o = Offset(t),
         NEW a, NEW b, NEW w, InEntry(t, a, b, w),
         NEW f \in Fields, NEW c, NEW d, NEW l, InList(w, f, c, d, l),
         NEW p, p = o + a + c, NEW q, q = o + a + d
  PROVE  /\ l \in Seq(Characters) /\ Len(l) \in Nat /\ Len(l) = d - c - 1
         /\ c \in Nat /\ d \in Nat /\ p \in Nat /\ q \in Nat
         /\ Spells(t, p, l)
         /\ Chr(t, q) \in {Blank, Semicolon, End}
         /\ d # Len(w) + 1 => Chr(t, q) = Blank
         /\ d = Len(w) + 1 => q = o + b
<1>1. PICK k, r : k = o + a /\ r = o + b
  OBVIOUS
<1>2. /\ w \in Seq(Characters) /\ Len(w) = b - a - 1 /\ a \in Nat /\ b \in Nat
      /\ Chr(t, r) \in {Semicolon, End} /\ Spells(t, k, w)
  BY <1>1, EntryReads
<1>3. Adjacent(w, Blank, c, d) /\ l = Word(w, c, d)
  BY DEF InList
<1>4. /\ l \in Seq(Characters) /\ Len(l) = d - c - 1
      /\ c \in Nat /\ d \in Nat /\ Len(w) \in Nat /\ c < d
  <2>1. l \in Seq(Characters) /\ Len(l) = d - c - 1
    BY <1>2, <1>3, WordShape
  <2>2. d \in 1..(Len(w) + 1) /\ c < d /\ c \in 0..Len(w) /\ Len(w) \in Nat
    BY <1>2, <1>3, AdjacentShape
  <2>3. QED BY <2>1, <2>2
<1>5. k \in Nat /\ p = k + c /\ q = k + d /\ p \in Nat /\ q \in Nat
  <2>1. a \in Nat /\ c \in Nat /\ d \in Nat
    BY <1>2, <1>4
  <2>2. k \in Nat /\ p \in Nat /\ q \in Nat
    BY <1>1, <2>1, SMTT(30)
  <2>3. p = k + c
    BY <1>1, <2>1
  <2>4. q = k + d
    BY <1>1, <2>1
  <2>5. QED BY <2>2, <2>3, <2>4
<1>6. Spells(t, p, l)
  BY <1>2, <1>3, <1>5, PieceReads
<1>7. d # Len(w) + 1 => Chr(t, q) = Blank
  BY <1>2, <1>3, <1>5, CutReads, SMTT(30)
<1>8. d = Len(w) + 1 => q = r
  BY <1>1, <1>2, <1>4, <1>5, SMTT(30)
<1>9. QED BY <1>1, <1>2, <1>4, <1>5, <1>6, <1>7, <1>8, SMTT(30)

Stepped(from, to, step) == {m \in from..to : (m - from) % step = 0}

LEMMA Undivided == ASSUME NEW from \in Nat, NEW to \in Nat PROVE Stepped(from, to, 1) = from..to
BY DEF Stepped

\* The forms of a regular element, and what each of them means.
LEMMA Forms ==
  ASSUME NEW x \in Seq(Characters), NEW f \in Fields, RegularElement(x, f)
  PROVE  \/ /\ Len(x) = 1 /\ x[1] = Asterisk
            /\ MeaningOf(x, f) = FieldMin[f]..FieldMax[f]
         \/ /\ Len(x) = 3 /\ x[1] = Asterisk /\ x[2] = Slash /\ IsNumber(x, 3, Steps(f))
            /\ MeaningOf(x, f) = Stepped(FieldMin[f], FieldMax[f], Value[x[3]])
         \/ /\ Len(x) = 1 /\ IsNumber(x, 1, FieldMin[f]..FieldMax[f])
            /\ MeaningOf(x, f) = {Value[x[1]]}
         \/ /\ Len(x) = 3 /\ x[2] = Dash
            /\ IsNumber(x, 1, FieldMin[f]..FieldMax[f]) /\ IsNumber(x, 3, FieldMin[f]..FieldMax[f])
            /\ MeaningOf(x, f) = Value[x[1]]..Value[x[3]]
         \/ /\ Len(x) = 5 /\ x[2] = Dash /\ x[4] = Slash
            /\ IsNumber(x, 1, FieldMin[f]..FieldMax[f]) /\ IsNumber(x, 3, FieldMin[f]..FieldMax[f])
            /\ IsNumber(x, 5, Steps(f))
            /\ MeaningOf(x, f) = Stepped(Value[x[1]], Value[x[3]], Value[x[5]])
<1>1. \/ x = <<Asterisk>>
      \/ Len(x) = 3 /\ x[1] = Asterisk /\ x[2] = Slash /\ IsNumber(x, 3, Steps(f))
      \/ /\ Len(x) \in {1, 3, 5}
         /\ IsNumber(x, 1, FieldMin[f]..FieldMax[f])
         /\ Len(x) >= 3 => x[2] = Dash /\ IsNumber(x, 3, FieldMin[f]..FieldMax[f])
         /\ Len(x) = 5 => x[4] = Slash /\ IsNumber(x, 5, Steps(f))
  BY DEF RegularElement, Asterisk, Slash, Dash
<1>2. /\ x[1] = Asterisk /\ Len(x) = 1 => MeaningOf(x, f) = FieldMin[f]..FieldMax[f]
      /\ x[1] = Asterisk /\ Len(x) = 3 =>
           MeaningOf(x, f) = Stepped(FieldMin[f], FieldMax[f], Value[x[3]])
      /\ x[1] # Asterisk /\ Len(x) = 1 => MeaningOf(x, f) = {Value[x[1]]}
      /\ x[1] # Asterisk /\ Len(x) = 3 => MeaningOf(x, f) = Value[x[1]]..Value[x[3]]
      /\ x[1] # Asterisk /\ Len(x) = 5 =>
           MeaningOf(x, f) = Stepped(Value[x[1]], Value[x[3]], Value[x[5]])
  BY DEF MeaningOf, Asterisk, Stepped
<1>3. \A c \in Numerals : c # Asterisk
  BY Signs
<1>4. QED BY <1>1, <1>2, <1>3 DEF IsNumber

-----------------------------------------------------------------------------
(* Reading an element.                                                     *)

LEMMA CharIs == \A p : CharAt(p) = Chr(text, p)
BY DEF CharAt, Chr

LEMMA Widths ==
  ASSUME NEW f \in Fields
  PROVE  /\ FieldMin[f] \in Nat /\ FieldMax[f] \in Nat /\ Byte \in Nat
         /\ FieldMin[f] <= FieldMax[f]
         /\ FieldMin[f]..FieldMax[f] \subseteq 0..(Byte - 1)
         /\ 1 \in Steps(f)
         /\ \A s \in Steps(f) : s \in Nat \ {0} /\ FieldMax[f] + s < Byte /\ s \in 0..(Byte - 1)
<1>1. /\ FieldMin[f] \in Nat /\ FieldMax[f] \in Nat /\ FieldSize[f] \in Nat /\ Byte \in Nat
      /\ FieldMin[f] <= FieldMax[f] /\ FieldMax[f] < FieldSize[f] /\ FieldSize[f] < Byte
  BY CronAssumption
<1>2. QED BY <1>1 DEF Steps

\* The element x is at position p of the string, q is the position behind it.
LEMMA ElementHere ==
  ASSUME text \in Seq(Characters), RegularText(text), NEW o \in Nat, o = Offset(text),
         NEW a, NEW b, NEW w, InEntry(text, a, b, w),
         NEW f \in Fields, NEW c, NEW d, NEW l, InList(w, f, c, d, l),
         NEW e, NEW g, NEW x, InElement(l, e, g, x),
         NEW k, k = o + a + c, NEW r, r = o + a + d, NEW p, p = k + e, NEW q, q = k + g
  PROVE  /\ x \in Seq(Characters) /\ RegularElement(x, f) /\ Spells(text, p, x)
         /\ p \in Nat /\ q \in Nat /\ Len(x) \in Nat /\ q = p + Len(x) + 1
         /\ CharAt(q) \in {Comma, Blank, Semicolon, End}
         /\ g # Len(l) + 1 => CharAt(q) = Comma
         /\ g = Len(l) + 1 => q = r /\ CharAt(q) # Comma
<1>2. /\ l \in Seq(Characters) /\ Len(l) \in Nat /\ Len(l) = d - c - 1
      /\ c \in Nat /\ d \in Nat /\ k \in Nat /\ r \in Nat
      /\ Spells(text, k, l) /\ Chr(text, r) \in {Blank, Semicolon, End}
  BY ListReads
<1>3. w \in Seq(Characters) /\ a \in Nat /\ RegularFields(w, Fields)
  <2>1. PICK i, j : i = o + a /\ j = o + b
    OBVIOUS
  <2>2. QED BY <2>1, EntryReads
<1>4. Adjacent(l, Comma, e, g) /\ x = Word(l, e, g)
  BY DEF InElement
<1>5. x \in Seq(Characters) /\ Len(x) = g - e - 1
  BY <1>2, <1>4, WordShape
<1>6. e \in 0..Len(l) /\ g \in 1..(Len(l) + 1) /\ e < g
  BY <1>2, <1>4, AdjacentShape
<1>7. p = k + e /\ q = k + g /\ p \in Nat /\ q \in Nat
  <2>1. e \in Nat /\ g \in Nat /\ k \in Nat
    BY <1>2, <1>6
  <2>2. QED BY <2>1
<1>8. Spells(text, p, x)
  BY <1>2, <1>4, <1>7, PieceReads
<1>9. g # Len(l) + 1 => CharAt(q) = Comma
  <2>1. g # Len(l) + 1 => Chr(text, q) = Comma
    BY <1>2, <1>4, <1>7, CutReads, SMTT(30)
  <2>2. QED BY <2>1, CharIs
<1>10. g = Len(l) + 1 => q = r
  <2>1. /\ a \in Nat /\ c \in Nat /\ d \in Nat /\ Len(l) = d - c - 1
        /\ g \in Nat /\ k \in Nat /\ q = k + g
    BY <1>2, <1>3, <1>6
  <2>2. QED BY <2>1, SMTT(30)
<1>11. CharAt(r) \in {Blank, Semicolon, End} /\ CharAt(r) # Comma
  BY <1>2, CharIs, Signs
<1>12. RegularElement(x, f)
  <2>1. x \in WordsTo(l, Comma, Len(l) + 1)
    BY <1>4, <1>5, <1>6 DEF WordsTo
  <2>2. x \in Elements(w, f)
    BY <1>3, <2>1, ListMeans DEF InList
  <2>3. QED BY <1>3, <2>2, RegularShape
<1>13. Len(x) \in Nat /\ q = p + Len(x) + 1
  <2>1. /\ e \in Nat /\ g \in Nat /\ e < g /\ k \in Nat /\ p = k + e /\ q = k + g
        /\ Len(x) = g - e - 1
    BY <1>2, <1>5, <1>6
  <2>2. QED BY <2>1, SMTT(30)
<1>14. QED BY <1>5, <1>7, <1>8, <1>9, <1>10, <1>11, <1>12, <1>13

LEMMA NumberRead ==
  ASSUME NEW x, NEW n, NEW S, S \subseteq 0..(Byte - 1), IsNumber(x, n, S),
         NEW p, CharAt(p) = x[n]
  PROVE  /\ NumberAt(p) = Value[x[n]]
         /\ CharAt(p) \in Numerals /\ Value[x[n]] \in Nat
<1>1. Value[x[n]] \in 0..(Byte - 1) /\ x[n] \in Numerals /\ Byte \in Nat
  BY Constants DEF IsNumber
<1>2. Value[x[n]] % Byte = Value[x[n]]
  BY <1>1
<1>3. QED BY <1>1, <1>2 DEF NumberAt

LEMMA StepRead ==
  ASSUME NEW p, NEW q, q = p + 1, CharAt(p) = Slash
  PROVE  StepAt(p) = NumberAt(q) /\ AfterStep(p) = AfterNumber(q)
BY DEF StepAt, AfterStep, Slash

LEMMA NoStep ==
  ASSUME NEW p, CharAt(p) \in {Comma, Blank, Semicolon, End}
  PROVE  StepAt(p) = 1 /\ AfterStep(p) = p
<1>1. CharAt(p) # Slash
  BY Signs
<1>2. CharAt(p) # "/"
  BY <1>1 DEF Slash
<1>3. QED BY <1>2 DEF StepAt, AfterStep

LEMMA NothingToSkip ==
  ASSUME text \in Seq(Characters), NEW p, InText(p), CharAt(p) # Blank
  PROVE  SkipSpaces(p) = p
<1>1. p \in Nat \ {0} /\ p <= Len(text) + 1 /\ Len(text) \in Nat
  BY TextShape DEF InText
<1>2. PICK m : m = Len(text) + 1
  OBVIOUS
<1>3. SkipSpaces(p) = CHOOSE q \in p..m : CharAt(q) # Blank /\ \A r \in p..(q - 1) : CharAt(r) = Blank
  BY <1>2 DEF SkipSpaces, Blank
<1>4. p \in p..m /\ \A r \in p..(p - 1) : CharAt(r) = Blank
  BY <1>1, <1>2
<1>5. ASSUME NEW q \in p..m, \A r \in p..(q - 1) : CharAt(r) = Blank, q # p
      PROVE  FALSE
  <2>1. p \in p..(q - 1)
    BY <1>1, <1>2, <1>5
  <2>2. QED BY <1>5, <2>1
<1>6. QED BY <1>3, <1>4, <1>5

\* What the parser reads in a regular element, and what it means.
ReadsStar(x, f, n, q) ==
  /\ StepAt(n) \in Steps(f) /\ AfterStep(n) = q
  /\ MeaningOf(x, f) = Stepped(FieldMin[f], FieldMax[f], StepAt(n))
ReadsSingle(x, f, h) ==
  /\ NumberAt(h) \in FieldMin[f]..FieldMax[f]
  /\ MeaningOf(x, f) = {NumberAt(h)}
ReadsRange(x, f, h, m, n, q) ==
  /\ NumberAt(h) \in FieldMin[f]..FieldMax[f] /\ NumberAt(m) \in FieldMin[f]..FieldMax[f]
  /\ StepAt(n) \in Steps(f) /\ AfterStep(n) = q
  /\ MeaningOf(x, f) = Stepped(NumberAt(h), NumberAt(m), StepAt(n))

LEMMA ElementForms ==
  ASSUME text \in Seq(Characters), NEW f \in Fields, NEW x \in Seq(Characters),
         RegularElement(x, f), NEW p \in Nat, Spells(text, p, x),
         NEW q, q = p + Len(x) + 1, CharAt(q) \in {Comma, Blank, Semicolon, End},
         NEW h, h = p + 1, NEW h1, h1 = p + 2, NEW h2, h2 = p + 3
  PROVE  /\ CharAt(h) \in Numerals \cup {Asterisk}
         /\ \/ CharAt(h) = Asterisk /\ ReadsStar(x, f, h1, q)
            \/ CharAt(h) \in Numerals /\ CharAt(h1) # Dash /\ h1 = q /\ ReadsSingle(x, f, h)
            \/ /\ CharAt(h) \in Numerals /\ CharAt(h1) = Dash
               /\ ReadsRange(x, f, h, h2, AfterNumber(h2), q)
<1>1. /\ FieldMin[f] \in Nat /\ FieldMax[f] \in Nat /\ 1 \in Steps(f)
      /\ \A s \in Steps(f) : s \in Nat \ {0}
  BY Widths
<1>2. CharAt(q) # Dash /\ StepAt(q) = 1 /\ AfterStep(q) = q
  BY NoStep, Signs
<1> DEFINE valid == FieldMin[f]..FieldMax[f]
<1>9. valid \subseteq 0..(Byte - 1) /\ Steps(f) \subseteq 0..(Byte - 1)
  BY Widths
<1>10. \A n \in 1..Len(x) : CharAt(p + n) = x[n]
  BY CharIs DEF Spells
<1>11. Len(x) \in Nat
  BY LenProperties
<1>3. CASE /\ Len(x) = 1 /\ x[1] = Asterisk
           /\ MeaningOf(x, f) = FieldMin[f]..FieldMax[f]
  <2>1. CharAt(h) = Asterisk /\ h1 = q
    BY <1>3, <1>10
  <2>2. MeaningOf(x, f) = Stepped(FieldMin[f], FieldMax[f], 1)
    BY <1>1, <1>3, Undivided
  <2>3. QED BY <1>1, <1>2, <2>1, <2>2 DEF ReadsStar
<1>4. CASE /\ Len(x) = 3 /\ x[1] = Asterisk /\ x[2] = Slash /\ IsNumber(x, 3, Steps(f))
           /\ MeaningOf(x, f) = Stepped(FieldMin[f], FieldMax[f], Value[x[3]])
  <2>1. /\ 1 \in 1..Len(x) /\ 2 \in 1..Len(x) /\ 3 \in 1..Len(x)
        /\ h2 = h1 + 1 /\ q = h2 + 1
    BY <1>4
  <2>2. CharAt(h) = Asterisk /\ CharAt(h1) = Slash /\ CharAt(h2) = x[3]
    BY <1>4, <1>10, <2>1
  <2>3. NumberAt(h2) = Value[x[3]] /\ CharAt(h2) \in Numerals
    BY <1>4, <1>9, <2>2, NumberRead, ZenonT(60)
  <2>4. StepAt(h1) = Value[x[3]] /\ AfterStep(h1) = q
    <3>1. AfterNumber(h2) = q
      BY <2>1, <2>3 DEF AfterNumber
    <3>2. QED BY <2>1, <2>2, <2>3, <3>1, StepRead
  <2>5. Value[x[3]] \in Steps(f)
    BY <1>4 DEF IsNumber
  <2>6. QED BY <1>4, <2>2, <2>4, <2>5 DEF ReadsStar
<1>5. CASE /\ Len(x) = 1 /\ IsNumber(x, 1, FieldMin[f]..FieldMax[f])
           /\ MeaningOf(x, f) = {Value[x[1]]}
  <2>1. CharAt(h) = x[1] /\ h1 = q /\ h1 = h + 1
    BY <1>5, <1>10
  <2>2. NumberAt(h) = Value[x[1]] /\ CharAt(h) \in Numerals
    BY <1>5, <1>9, <2>1, NumberRead, ZenonT(60)
  <2>3. Value[x[1]] \in FieldMin[f]..FieldMax[f]
    BY <1>5 DEF IsNumber
  <2>4. QED BY <1>2, <1>5, <2>1, <2>2, <2>3 DEF ReadsSingle
<1>6. CASE /\ Len(x) = 3 /\ x[2] = Dash
           /\ IsNumber(x, 1, FieldMin[f]..FieldMax[f]) /\ IsNumber(x, 3, FieldMin[f]..FieldMax[f])
           /\ MeaningOf(x, f) = Value[x[1]]..Value[x[3]]
  <2>1. /\ 1 \in 1..Len(x) /\ 2 \in 1..Len(x) /\ 3 \in 1..Len(x)
        /\ h1 = h + 1 /\ q = h2 + 1
    BY <1>6
  <2>2. CharAt(h) = x[1] /\ CharAt(h1) = Dash /\ CharAt(h2) = x[3]
    BY <1>6, <1>10, <2>1
  <2>3. /\ NumberAt(h) = Value[x[1]] /\ CharAt(h) \in Numerals
        /\ Value[x[1]] \in Nat
    BY <1>6, <1>9, <2>1, <2>2, NumberRead, ZenonT(60)
  <2>4. NumberAt(h2) = Value[x[3]] /\ AfterNumber(h2) = q /\ Value[x[3]] \in Nat
    <3>1. NumberAt(h2) = Value[x[3]] /\ CharAt(h2) \in Numerals /\ Value[x[3]] \in Nat
      BY <1>6, <1>9, <2>2, NumberRead, ZenonT(60)
    <3>2. QED BY <2>1, <3>1 DEF AfterNumber
  <2>5. Value[x[1]] \in FieldMin[f]..FieldMax[f] /\ Value[x[3]] \in FieldMin[f]..FieldMax[f]
    BY <1>6 DEF IsNumber
  <2>6. MeaningOf(x, f) = Stepped(Value[x[1]], Value[x[3]], 1)
    BY <1>6, <2>3, <2>4, Undivided
  <2>7. ReadsRange(x, f, h, h2, q, q)
    BY <1>1, <1>2, <2>3, <2>4, <2>5, <2>6 DEF ReadsRange
  <2>8. QED BY <2>2, <2>3, <2>4, <2>7
<1>7. CASE /\ Len(x) = 5 /\ x[2] = Dash /\ x[4] = Slash
           /\ IsNumber(x, 1, FieldMin[f]..FieldMax[f]) /\ IsNumber(x, 3, FieldMin[f]..FieldMax[f])
           /\ IsNumber(x, 5, Steps(f))
           /\ MeaningOf(x, f) = Stepped(Value[x[1]], Value[x[3]], Value[x[5]])
  <2>1. PICK h3, h4 : h3 = p + 4 /\ h4 = p + 5
    OBVIOUS
  <2>2. /\ 1 \in 1..Len(x) /\ 2 \in 1..Len(x) /\ 3 \in 1..Len(x) /\ 4 \in 1..Len(x)
        /\ 5 \in 1..Len(x) /\ h1 = h + 1 /\ h3 = h2 + 1 /\ h4 = h3 + 1 /\ q = h4 + 1
    BY <1>7, <2>1
  <2>3. /\ CharAt(h) = x[1] /\ CharAt(h1) = Dash /\ CharAt(h2) = x[3]
        /\ CharAt(h3) = Slash /\ CharAt(h4) = x[5]
    BY <1>7, <1>10, <2>1, <2>2
  <2>4. NumberAt(h) = Value[x[1]] /\ CharAt(h) \in Numerals
    BY <1>7, <1>9, <2>2, <2>3, NumberRead, ZenonT(60)
  <2>5. NumberAt(h2) = Value[x[3]] /\ AfterNumber(h2) = h3
    <3>1. NumberAt(h2) = Value[x[3]] /\ CharAt(h2) \in Numerals
      BY <1>7, <1>9, <2>3, NumberRead, ZenonT(60)
    <3>2. QED BY <2>2, <3>1 DEF AfterNumber
  <2>6. NumberAt(h4) = Value[x[5]] /\ AfterNumber(h4) = q
    <3>1. NumberAt(h4) = Value[x[5]] /\ CharAt(h4) \in Numerals
      BY <1>7, <1>9, <2>3, NumberRead, ZenonT(60)
    <3>2. QED BY <2>2, <3>1 DEF AfterNumber
  <2>7. StepAt(h3) = Value[x[5]] /\ AfterStep(h3) = q
    BY <2>2, <2>3, <2>6, StepRead
  <2>8. /\ Value[x[1]] \in FieldMin[f]..FieldMax[f] /\ Value[x[3]] \in FieldMin[f]..FieldMax[f]
        /\ Value[x[5]] \in Steps(f)
    BY <1>7 DEF IsNumber
  <2>9. ReadsRange(x, f, h, h2, h3, q)
    BY <1>7, <2>4, <2>5, <2>7, <2>8 DEF ReadsRange
  <2>10. QED BY <2>3, <2>4, <2>5, <2>9
<1>8. QED BY <1>3, <1>4, <1>5, <1>6, <1>7, Forms

-----------------------------------------------------------------------------
(* The next piece.                                                         *)

LEMMA NextElementIs ==
  ASSUME NEW l \in Seq(Characters), NEW e, NEW g, NEW x, InElement(l, e, g, x),
         g # Len(l) + 1
  PROVE  \E h, y : InElement(l, g, h, y)
<1>1. g \in Cuts(l, Comma) /\ g <= Len(l)
  <2>1. g \in Cuts(l, Comma) /\ g \in 1..(Len(l) + 1) /\ Len(l) \in Nat
    BY AdjacentShape DEF InElement, Adjacent
  <2>2. QED BY <2>1
<1>2. QED BY <1>1, NextCut DEF InElement

LEMMA NextListIs ==
  ASSUME NEW w \in Seq(Characters), NEW f, NEW c, NEW d, NEW l, InList(w, f, c, d, l),
         d # Len(w) + 1, NEW n, n = f + 1
  PROVE  d # 0 /\ \E h, y : InList(w, n, d, h, y)
<1>1. Adjacent(w, Blank, c, d) /\ f = Nth(w, Blank, c)
  BY DEF InList
<1>2. d \in Cuts(w, Blank) /\ d <= Len(w) /\ d # 0
  <2>1. d \in Cuts(w, Blank) /\ d \in 1..(Len(w) + 1) /\ Len(w) \in Nat
    BY <1>1, AdjacentShape DEF Adjacent
  <2>2. QED BY <2>1
<1>3. Nth(w, Blank, d) = n
  BY <1>1, NthNext
<1>4. QED BY <1>2, <1>3, NextCut DEF InList

LEMMA NextEntryIs ==
  ASSUME NEW t \in Seq(Characters), NEW a, NEW b, NEW w, InEntry(t, a, b, w),
         b # Len(BodyOf(t)) + 1
  PROVE  \E c, v : InEntry(t, b, c, v)
<1>1. BodyOf(t) \in Seq(Characters) /\ Adjacent(BodyOf(t), Semicolon, a, b)
  BY BodyShape DEF InEntry
<1>2. b \in Cuts(BodyOf(t), Semicolon) /\ b <= Len(BodyOf(t))
  <2>1. /\ b \in Cuts(BodyOf(t), Semicolon) /\ b \in 1..(Len(BodyOf(t)) + 1)
        /\ Len(BodyOf(t)) \in Nat
    BY <1>1, AdjacentShape DEF Adjacent
  <2>2. QED BY <2>1
<1>3. QED BY <1>1, <1>2, NextCut DEF InEntry

\* Each string has a first piece.
LEMMA FirstPiece ==
  ASSUME NEW s \in Seq(Characters), NEW sep
  PROVE  \E b : Adjacent(s, sep, 0, b)
<1>1. 0 \in Cuts(s, sep) /\ 0 <= Len(s)
  BY CutsShape
<1>2. QED BY <1>1, NextCut

LEMMA FirstElementIs ==
  ASSUME NEW l \in Seq(Characters)
  PROVE  \E g, x : InElement(l, 0, g, x)
BY FirstPiece DEF InElement

LEMMA FirstListIs ==
  ASSUME NEW w \in Seq(Characters)
  PROVE  \E d, l : InList(w, 1, 0, d, l)
BY FirstPiece, NthZero DEF InList

LEMMA FirstEntryIs ==
  ASSUME NEW t \in Seq(Characters)
  PROVE  \E b, w : InEntry(t, 0, b, w)
BY FirstPiece, BodyShape DEF InEntry

-----------------------------------------------------------------------------
(* How far the tables are filled.                                          *)

\* The earlier entries are in the tables T, of the entry w the fields before f, and of
\* field f the set S.
Filled(T, t, a, w, f, S) ==
  \A k \in Fields : T[k] = EarlierTo(BodyOf(t), k, a)
                             \cup (IF k < f THEN Meaning(w, k) ELSE IF k = f THEN S ELSE {})

LEMMA FilledMore ==
  ASSUME CronInv, NEW t, NEW a, NEW w, NEW S, Filled(tables, t, a, w, field, S),
         NEW R, Put(R)
  PROVE  Filled(tables', t, a, w, field, S \cup R)
<1>1. tables \in [Fields -> SUBSET Nat] /\ field \in Fields
  BY CronShape DEF CronInv, TablesOK
<1>2. tables' = [tables EXCEPT ![field] = @ \cup R]
  BY DEF Put
<1>3. Fields \subseteq Nat
  BY DEF Fields
<1>4. ASSUME NEW k \in Fields
      PROVE  tables'[k] = EarlierTo(BodyOf(t), k, a)
                \cup (IF k < field THEN Meaning(w, k) ELSE IF k = field THEN S \cup R ELSE {})
  <2>1. tables[k] = EarlierTo(BodyOf(t), k, a)
                \cup (IF k < field THEN Meaning(w, k) ELSE IF k = field THEN S ELSE {})
    BY DEF Filled
  <2>2. CASE k = field
    <3>1. tables'[k] = tables[k] \cup R /\ ~(k < field)
      BY <1>1, <1>2, <1>3, <2>2
    <3>2. QED BY <2>1, <2>2, <3>1
  <2>3. CASE k # field
    <3>1. tables'[k] = tables[k]
      BY <1>1, <1>2, <2>3
    <3>2. QED BY <2>1, <2>3, <3>1
  <2>4. QED BY <2>2, <2>3
<1>5. QED BY <1>4 DEF Filled

LEMMA FilledNext ==
  ASSUME NEW T, NEW t, NEW a, NEW w, NEW f \in Fields, Filled(T, t, a, w, f, Meaning(w, f)),
         NEW n, n = f + 1
  PROVE  Filled(T, t, a, w, n, {})
<1>1. ASSUME NEW k \in Fields
      PROVE  T[k] = EarlierTo(BodyOf(t), k, a)
                \cup (IF k < n THEN Meaning(w, k) ELSE IF k = n THEN {} ELSE {})
  <2>1. T[k] = EarlierTo(BodyOf(t), k, a)
                \cup (IF k < f THEN Meaning(w, k) ELSE IF k = f THEN Meaning(w, f) ELSE {})
    BY DEF Filled
  <2>2. k < n <=> k < f \/ k = f
    BY DEF Fields
  <2>3. QED BY <2>1, <2>2
<1>2. QED BY <1>1 DEF Filled

\* After the last field the entry is among the earlier ones.
LEMMA FilledEntry ==
  ASSUME NEW T, NEW t \in Seq(Characters), NEW a, NEW b, NEW w, InEntry(t, a, b, w),
         Filled(T, t, a, w, Weekday, Meaning(w, Weekday))
  PROVE  /\ \A k \in Fields : T[k] = EarlierTo(BodyOf(t), k, b)
         /\ \A v : Filled(T, t, b, v, 1, {})
<1>1. ASSUME NEW k \in Fields
      PROVE  T[k] = EarlierTo(BodyOf(t), k, b)
  <2>1. T[k] = EarlierTo(BodyOf(t), k, a) \cup Meaning(w, k)
    <3>1. k < Weekday \/ k = Weekday
      BY DEF Fields, Weekday
    <3>2. QED BY <3>1 DEF Filled
  <2>2. BodyOf(t) \in Seq(Characters) /\ Adjacent(BodyOf(t), Semicolon, a, b)
        /\ w = Word(BodyOf(t), a, b)
    BY BodyShape DEF InEntry
  <2>3. QED BY <2>1, <2>2, OneMoreEntry
<1>2. ASSUME NEW v PROVE Filled(T, t, b, v, 1, {})
  <2>1. \A k \in Fields : ~(k < 1)
    BY DEF Fields
  <2>2. QED BY <1>1, <2>1 DEF Filled
<1>3. QED BY <1>1, <1>2

-----------------------------------------------------------------------------
(* Where the parser is in a regular string.                                *)

\* k is the position before the list l, which has the number f in the entry w.
Spot(t, f, a, b, w, c, d, l, k) ==
  InEntry(t, a, b, w) /\ InList(w, f, c, d, l) /\ k = Offset(t) + a + c

ListAhead(t, T, f, p) ==
  \E a, b, w :
    /\ InEntry(t, a, b, w) /\ Filled(T, t, a, w, f, {})
    /\ \/ \E c, d, l, k : Spot(t, f, a, b, w, c, d, l, k) /\ p = (IF c = 0 THEN k + 1 ELSE k)
       \/ Nth(w, Blank, Len(w) + 1) <= f /\ p = Offset(t) + b

ElementAhead(t, T, f, p) ==
  \E a, b, w, c, d, l, k, e, g, x :
    /\ Spot(t, f, a, b, w, c, d, l, k) /\ InElement(l, e, g, x)
    /\ Filled(T, t, a, w, f, ReadTo(l, f, e)) /\ p = k + e + 1

ElementBehind(t, T, f, p) ==
  \E a, b, w, c, d, l, k, e, g, x :
    /\ Spot(t, f, a, b, w, c, d, l, k) /\ InElement(l, e, g, x)
    /\ Filled(T, t, a, w, f, ReadTo(l, f, g)) /\ p = k + g

Turn(i, to, step, j) == i <= to /\ j = i + step
Below(M, i) == {m \in M : m < i}
Reached(from, step, i) == from <= i /\ (i - from) % step = 0

\* The loop goes over the values in M and has come to loop.i.
Counts(M, f, i, to, step) ==
  \E from \in FieldMin[f]..FieldMax[f] :
    /\ M = Stepped(from, to, step)
    /\ Reached(from, step, i)
    /\ to <= FieldMax[f] /\ step \in Steps(f) /\ i <= FieldMax[f] + step

InsideLoop(t, T, f, p, i, to, step) ==
  \E a, b, w, c, d, l, k, e, g, x :
    /\ Spot(t, f, a, b, w, c, d, l, k) /\ InElement(l, e, g, x)
    /\ Filled(T, t, a, w, f, ReadTo(l, f, e) \cup Below(MeaningOf(x, f), i))
    /\ p = k + g /\ Counts(MeaningOf(x, f), f, i, to, step)

EntryBehind(t, T, f, p) ==
  /\ f = Weekday
  /\ \E a, b, w : /\ InEntry(t, a, b, w) /\ Filled(T, t, a, w, f, Meaning(w, f))
                  /\ p = Offset(t) + b

AllRead(t, T) ==
  \A f \in Fields : T[f] = EarlierTo(BodyOf(t), f, Len(BodyOf(t)) + 1)

\* In a regular string each part of the code is reached at such a place, and with the
\* tables filled so far.
MeansInv ==
  RegularText(text) =>
    /\ where = "list" => ListAhead(text, tables, field, ps)
    /\ where = "element" => ElementAhead(text, tables, field, ps)
    /\ where = "loop" => InsideLoop(text, tables, field, ps, loop.i, loop.to, loop.step)
    /\ where = "comma" => ElementBehind(text, tables, field, ps)
    /\ where = "entry" => EntryBehind(text, tables, field, ps)
    /\ where \in {"finish", "done"} => AllRead(text, tables)

-----------------------------------------------------------------------------
(* Counting.                                                               *)

LEMMA Divided ==
  ASSUME NEW s \in Nat \ {0}, NEW d \in Nat
  PROVE  \E q \in Nat : \E z \in 0..(s - 1) : z = d % s /\ d = s * q + z
<1>1. d \div s \in Nat /\ d % s \in 0..(s - 1)
  OBVIOUS
<1>2. d = s * (d \div s) + (d % s)
  OBVIOUS
<1>3. QED BY <1>1, <1>2

\* The multiples of s that follow the multiple d.
LEMMA NextMultiple ==
  ASSUME NEW s \in Nat \ {0}, NEW d \in Nat, d % s = 0, NEW r \in 1..s
  PROVE  (d + r) % s = 0 <=> r = s
<1>1. PICK q \in Nat : d = s * q
  <2>1. PICK q \in Nat : \E z \in 0..(s - 1) : z = d % s /\ d = s * q + z
    BY Divided
  <2>2. d = s * q
    BY <2>1
  <2>3. QED BY <2>2
<1>2. PICK q2 \in Nat, z2 \in 0..(s - 1) : z2 = (d + r) % s /\ d + r = s * q2 + z2
  <2>1. PICK n \in Nat : n = d + r
    OBVIOUS
  <2>2. \E q2 \in Nat : \E z2 \in 0..(s - 1) : z2 = n % s /\ n = s * q2 + z2
    BY Divided
  <2>3. QED BY <2>1, <2>2
<1>3. s * q \in Nat /\ s * q2 \in Nat
  OBVIOUS
<1>4. ASSUME z2 = 0 PROVE r = s
  <2>1. s * q2 = s * q + r
    BY <1>1, <1>2, <1>3, <1>4
  <2>2. CASE q2 <= q
    <3>1. s * q2 <= s * q
      BY <2>2
    <3>2. QED BY <2>1, <3>1, <1>3
  <2>3. CASE q2 > q
    <3>1. s * (q + 1) <= s * q2
      BY <2>3
    <3>2. s * (q + 1) = s * q + s
      OBVIOUS
    <3>3. QED BY <2>1, <3>1, <3>2, <1>3
  <2>4. QED BY <2>2, <2>3
<1>5. ASSUME r = s PROVE z2 = 0
  <2>1. s * q + s = s * q2 + z2
    BY <1>1, <1>2, <1>3, <1>5
  <2>2. s * (q + 1) = s * q + s
    OBVIOUS
  <2>3. CASE q2 <= q
    <3>1. s * q2 <= s * q
      BY <2>3
    <3>2. QED BY <2>1, <3>1, <1>2, <1>3
  <2>4. CASE q2 = q + 1
    BY <2>1, <2>2, <2>4, <1>3, <1>2
  <2>5. CASE q2 > q + 1
    <3>1. s * (q + 1) <= s * q2
      BY <2>5
    <3>2. s * (q + 2) <= s * q2
      BY <2>5
    <3>3. s * (q + 2) = s * q + s + s
      OBVIOUS
    <3>4. QED BY <2>1, <3>2, <3>3, <1>2, <1>3
  <2>6. QED BY <2>3, <2>4, <2>5
<1>6. QED BY <1>2, <1>4, <1>5

\* One value more; the counter does not wrap.
LEMMA CountsMore ==
  ASSUME NEW M, NEW f \in Fields, NEW i \in Nat, NEW to \in Nat, NEW s \in Nat,
         Counts(M, f, i, to, s), NEW j, Turn(i, to, s, j)
  PROVE  /\ Counts(M, f, j, to, s) /\ Below(M, j) = Below(M, i) \cup {i}
         /\ j \in Nat /\ j < Byte
<1>1. /\ FieldMin[f] \in Nat /\ FieldMax[f] \in Nat /\ Byte \in Nat
      /\ \A x \in Steps(f) : x \in Nat \ {0} /\ FieldMax[f] + x < Byte
  BY Widths
<1>2. PICK from \in FieldMin[f]..FieldMax[f] :
        /\ M = Stepped(from, to, s) /\ Reached(from, s, i)
        /\ to <= FieldMax[f] /\ s \in Steps(f) /\ i <= FieldMax[f] + s
  BY DEF Counts
<1>3. s # 0 /\ s \in Nat \ {0} /\ FieldMax[f] + s < Byte /\ from \in Nat
  BY <1>1, <1>2
<1>4. from <= i /\ (i - from) % s = 0 /\ i <= to /\ j = i + s
  BY <1>2 DEF Reached, Turn
<1>5. j \in Nat /\ j < Byte /\ j <= FieldMax[f] + s /\ from <= j
  BY <1>1, <1>2, <1>3, <1>4
<1>6. PICK d : d \in Nat /\ d = i - from /\ d % s = 0
  BY <1>3, <1>4
<1>7. \A r \in 1..s : (d + r) % s = 0 <=> r = s
  BY <1>3, <1>6, NextMultiple
<1>8. ASSUME NEW m \in Nat, i < m, m < j PROVE (m - from) % s # 0
  <2>1. PICK r : r \in 1..s /\ r = m - i /\ r # s
    BY <1>3, <1>4, <1>8
  <2>2. m - from = d + r
    BY <1>3, <1>6, <2>1
  <2>3. (d + r) % s = 0 <=> r = s
    BY <1>7, <2>1
  <2>4. QED BY <2>1, <2>2, <2>3
<1>9. (j - from) % s = 0
  <2>1. j - from = d + s /\ s \in 1..s
    BY <1>3, <1>4, <1>6
  <2>2. (d + s) % s = 0
    BY <1>7, <2>1
  <2>3. QED BY <2>1, <2>2
<1>10. ASSUME NEW m \in M
      PROVE  m < j <=> m < i \/ m = i
  <2>1. m \in Nat /\ (m - from) % s = 0
    BY <1>2, <1>3, <1>10 DEF Stepped
  <2>2. m < j => ~(i < m)
    BY <1>8, <2>1
  <2>3. i < j
    BY <1>3, <1>4
  <2>4. QED BY <1>5, <2>1, <2>2, <2>3
<1>11. i \in M
  BY <1>2, <1>3, <1>4 DEF Stepped
<1>12. Below(M, j) = Below(M, i) \cup {i}
  BY <1>10, <1>11 DEF Below
<1>13. Counts(M, f, j, to, s)
  BY <1>2, <1>5, <1>9 DEF Counts, Reached
<1>14. QED BY <1>5, <1>12, <1>13

\* All values once the counter is beyond the last.
LEMMA SteppedAll ==
  ASSUME NEW from \in Nat, NEW to \in Nat, NEW s, NEW i \in Nat, i > to
  PROVE  Below(Stepped(from, to, s), i) = Stepped(from, to, s)
BY DEF Stepped, Below

LEMMA SteppedNone ==
  ASSUME NEW from \in Nat, NEW to \in Nat, NEW s
  PROVE  Below(Stepped(from, to, s), from) = {}
BY DEF Stepped, Below

-----------------------------------------------------------------------------
(* Elements.                                                               *)

LEMMA SpotShape ==
  ASSUME CronInv, RegularText(text), NEW f \in Fields, NEW a, NEW b, NEW w, NEW c, NEW d,
         NEW l, NEW k, Spot(text, f, a, b, w, c, d, l, k)
  PROVE  /\ k \in Nat /\ a \in Nat /\ b \in Nat /\ c \in Nat /\ d \in Nat
         /\ w \in Seq(Characters) /\ l \in Seq(Characters) /\ Len(l) \in Nat
         /\ Len(w) \in Nat
         /\ RegularFields(w, Fields)
         /\ Len(l) = d - c - 1
<1>1. text \in Seq(Characters)
  BY CronShape
<1>2. PICK o \in Nat : o = Offset(text)
  BY <1>1, BodyShape
<1>3. InEntry(text, a, b, w) /\ InList(w, f, c, d, l) /\ k = o + a + c
  BY <1>2 DEF Spot
<1>4. /\ w \in Seq(Characters) /\ RegularFields(w, Fields) /\ a \in Nat /\ b \in Nat
      /\ Len(w) \in Nat
  BY <1>1, <1>2, <1>3, EntryReads
<1>5. /\ l \in Seq(Characters) /\ Len(l) \in Nat /\ Len(l) = d - c - 1
      /\ c \in Nat /\ d \in Nat
  BY <1>1, <1>2, <1>3, ListReads
<1>6. k \in Nat
  BY <1>2, <1>3, <1>4, <1>5
<1>7. QED BY <1>4, <1>5, <1>6

\* What is at the beginning and behind the element x.
LEMMA ElementIs ==
  ASSUME CronInv, RegularText(text), NEW f \in Fields, NEW a, NEW b, NEW w, NEW c, NEW d,
         NEW l, NEW k, Spot(text, f, a, b, w, c, d, l, k),
         NEW e, NEW g, NEW x, InElement(l, e, g, x),
         NEW h, h = k + e + 1, NEW h1, h1 = h + 1, NEW h2, h2 = h + 2, NEW q, q = k + g,
         NEW r, r = Offset(text) + a + d
  PROVE  /\ h \in Nat /\ q \in Nat /\ SkipSpaces(h) = h
         /\ CharAt(h) \in Numerals \cup {Asterisk}
         /\ \/ CharAt(h) = Asterisk /\ ReadsStar(x, f, h1, q)
            \/ CharAt(h) \in Numerals /\ CharAt(h1) # Dash /\ h1 = q /\ ReadsSingle(x, f, h)
            \/ /\ CharAt(h) \in Numerals /\ CharAt(h1) = Dash
               /\ ReadsRange(x, f, h, h2, AfterNumber(h2), q)
         /\ CharAt(q) \in {Comma, Blank, Semicolon, End}
         /\ g # Len(l) + 1 => CharAt(q) = Comma
         /\ g = Len(l) + 1 => q = r /\ CharAt(q) # Comma
<1>1. text \in Seq(Characters)
  BY CronShape
<1>2. PICK o \in Nat : o = Offset(text)
  BY <1>1, BodyShape
<1>3. InEntry(text, a, b, w) /\ InList(w, f, c, d, l) /\ k = o + a + c
  BY <1>2 DEF Spot
<1>4. PICK p : p = k + e
  OBVIOUS
<1>5. r = o + a + d
  BY <1>2
<1>6. /\ x \in Seq(Characters) /\ RegularElement(x, f) /\ Spells(text, p, x)
      /\ p \in Nat /\ q \in Nat /\ Len(x) \in Nat /\ q = p + Len(x) + 1
      /\ CharAt(q) \in {Comma, Blank, Semicolon, End}
      /\ g # Len(l) + 1 => CharAt(q) = Comma
      /\ g = Len(l) + 1 => q = r /\ CharAt(q) # Comma
  BY <1>1, <1>2, <1>3, <1>4, <1>5, ElementHere, SMTT(60)
<1>7. h = p + 1 /\ h1 = p + 2 /\ h2 = p + 3
  <2>1. h = p + 1
    BY <1>4
  <2>2. QED BY <1>6, <2>1
<1>8. /\ CharAt(h) \in Numerals \cup {Asterisk}
      /\ \/ CharAt(h) = Asterisk /\ ReadsStar(x, f, h1, q)
         \/ CharAt(h) \in Numerals /\ CharAt(h1) # Dash /\ h1 = q /\ ReadsSingle(x, f, h)
         \/ /\ CharAt(h) \in Numerals /\ CharAt(h1) = Dash
            /\ ReadsRange(x, f, h, h2, AfterNumber(h2), q)
  BY <1>1, <1>6, <1>7, ElementForms
<1>9. CharAt(h) # Blank /\ CharAt(h) # End
  BY <1>8, Signs
<1>10. SkipSpaces(h) = h
  <2>1. InText(h)
    BY <1>1, <1>9, NextInText
  <2>2. QED BY <1>1, <1>9, <2>1, NothingToSkip
<1>11. h \in Nat
  BY <1>6, <1>7
<1>12. QED BY <1>6, <1>8, <1>10, <1>11

\* How MeansInv is established after a step.
LEMMA MakeMeans ==
  ASSUME NEW W, where' = W, UNCHANGED text,
         RegularText(text) =>
           /\ W = "list" => ListAhead(text, tables', field', ps')
           /\ W = "element" => ElementAhead(text, tables', field', ps')
           /\ W = "loop" => InsideLoop(text, tables', field', ps', loop'.i, loop'.to, loop'.step)
           /\ W = "comma" => ElementBehind(text, tables', field', ps')
           /\ W = "entry" => EntryBehind(text, tables', field', ps')
           /\ W \in {"finish", "done"} => AllRead(text, tables')
  PROVE  MeansInv'
BY DEF MeansInv

LEMMA StarMeans ==
  ASSUME CronInv, MeansInv, Star PROVE MeansInv'
<1>1. PICK next : next = SkipSpaces(ps) + 1
  OBVIOUS
<1>2. /\ where = "element" /\ CharAt(SkipSpaces(ps)) = Asterisk
      /\ loop' = [i |-> FieldMin[field], to |-> FieldMax[field], step |-> StepAt(next)]
      /\ where' = "loop" /\ ps' = AfterStep(next) /\ UNCHANGED <<text, field, tables>>
  BY <1>1 DEF Star, Loop, AtElement, Asterisk
<1>3. ASSUME RegularText(text)
      PROVE  InsideLoop(text, tables, field, AfterStep(next), FieldMin[field],
                        FieldMax[field], StepAt(next))
  <2>1. PICK a, b, w, c, d, l, k, e, g, x :
          /\ Spot(text, field, a, b, w, c, d, l, k) /\ InElement(l, e, g, x)
          /\ Filled(tables, text, a, w, field, ReadTo(l, field, e)) /\ ps = k + e + 1
    BY <1>2, <1>3 DEF MeansInv, ElementAhead
  <2>2. PICK h1, h2, q, r : /\ h1 = ps + 1 /\ h2 = ps + 2 /\ q = k + g
                            /\ r = Offset(text) + a + d
    OBVIOUS
  <2>3. field \in Fields /\ FieldMin[field] \in Nat /\ FieldMax[field] \in Nat
        /\ FieldMin[field] <= FieldMax[field]
    BY CronShape
  <2>4. /\ ps \in Nat /\ SkipSpaces(ps) = ps
        /\ \/ CharAt(ps) = Asterisk /\ ReadsStar(x, field, h1, q)
           \/ CharAt(ps) \in Numerals
    BY <1>3, <2>1, <2>2, <2>3, ElementIs, SMTT(60)
  <2>5. ReadsStar(x, field, next, q)
    <3>1. CharAt(ps) = Asterisk /\ h1 = next
      BY <1>1, <1>2, <2>2, <2>4
    <3>2. QED BY <2>4, <3>1, Signs
  <2>6. /\ StepAt(next) \in Steps(field) /\ AfterStep(next) = q
        /\ MeaningOf(x, field) = Stepped(FieldMin[field], FieldMax[field], StepAt(next))
    BY <2>5 DEF ReadsStar
  <2>7. PICK s \in Nat \ {0} : s = StepAt(next) /\ s \in Steps(field)
    BY <2>3, <2>6, Widths
  <2>8. Counts(MeaningOf(x, field), field, FieldMin[field], FieldMax[field], s)
    <3>1. /\ FieldMin[field] \in FieldMin[field]..FieldMax[field]
          /\ Reached(FieldMin[field], s, FieldMin[field])
      BY <2>3, <2>7 DEF Reached
    <3>2. FieldMin[field] <= FieldMax[field] + s
      BY <2>3, <2>7
    <3>3. QED BY <2>3, <2>6, <2>7, <3>1, <3>2 DEF Counts
  <2>9. Below(MeaningOf(x, field), FieldMin[field]) = {}
    BY <2>3, <2>6, SteppedNone
  <2>10. Filled(tables, text, a, w, field,
                ReadTo(l, field, e) \cup Below(MeaningOf(x, field), FieldMin[field]))
    BY <2>1, <2>9
  <2>11. QED BY <2>1, <2>2, <2>6, <2>7, <2>8, <2>10 DEF InsideLoop
<1>4. loop'.i = FieldMin[field] /\ loop'.to = FieldMax[field] /\ loop'.step = StepAt(next)
  BY <1>2
<1>5. QED BY <1>2, <1>3, <1>4, MakeMeans

LEMMA ClampSame ==
  ASSUME field \in Fields, NEW n, n \in FieldMin[field]..FieldMax[field]
  PROVE  Clamp(n) = n /\ n \in Nat /\ ~(n < FieldMin[field])
BY Constants DEF Clamp

LEMMA SingleMeans ==
  ASSUME CronInv, MeansInv, Single PROVE MeansInv'
<1>1. PICK here : here = SkipSpaces(ps)
  OBVIOUS
<1>2. /\ where = "element" /\ CharAt(here) \in Numerals /\ CharAt(here + 1) # Dash
      /\ Put({Clamp(NumberAt(here))}) /\ ps' = here + 1
      /\ where' = "comma" /\ UNCHANGED <<text, field, loop>>
  BY <1>1 DEF Single, AtElement, Dash
<1>3. ASSUME RegularText(text)
      PROVE  ElementBehind(text, tables', field, here + 1)
  <2>1. PICK a, b, w, c, d, l, k, e, g, x :
          /\ Spot(text, field, a, b, w, c, d, l, k) /\ InElement(l, e, g, x)
          /\ Filled(tables, text, a, w, field, ReadTo(l, field, e)) /\ ps = k + e + 1
    BY <1>2, <1>3 DEF MeansInv, ElementAhead
  <2>2. PICK h1, h2, q, r : /\ h1 = ps + 1 /\ h2 = ps + 2 /\ q = k + g
                            /\ r = Offset(text) + a + d
    OBVIOUS
  <2>3. field \in Fields
    BY CronShape
  <2>4. /\ SkipSpaces(ps) = ps
        /\ \/ CharAt(ps) = Asterisk
           \/ h1 = q /\ ReadsSingle(x, field, ps)
           \/ CharAt(h1) = Dash
    BY <1>3, <2>1, <2>2, <2>3, ElementIs, SMTT(60)
  <2>5. here = ps /\ h1 = here + 1
    BY <1>1, <2>2, <2>4
  <2>6. h1 = q /\ ReadsSingle(x, field, here)
    BY <1>2, <2>4, <2>5, Signs
  <2>7. Put(MeaningOf(x, field))
    <3>1. Clamp(NumberAt(here)) = NumberAt(here)
      BY <2>3, <2>6, ClampSame DEF ReadsSingle
    <3>2. QED BY <1>2, <2>6, <3>1 DEF ReadsSingle
  <2>8. Filled(tables', text, a, w, field, ReadTo(l, field, e) \cup MeaningOf(x, field))
    BY <2>1, <2>7, FilledMore
  <2>9. ReadTo(l, field, g) = ReadTo(l, field, e) \cup MeaningOf(x, field)
    <3>1. l \in Seq(Characters)
      BY <1>3, <2>1, <2>3, SpotShape
    <3>2. QED BY <2>1, <3>1, OneMoreElement DEF InElement
  <2>10. QED BY <2>1, <2>2, <2>5, <2>6, <2>8, <2>9 DEF ElementBehind
<1>4. QED BY <1>2, <1>3, MakeMeans

LEMMA RangeMeans ==
  ASSUME CronInv, MeansInv, RangeElement PROVE MeansInv'
<1>1. PICK here : here = SkipSpaces(ps)
  OBVIOUS
<1>2. PICK from : from = IF NumberAt(here) < FieldMin[field] THEN FieldMin[field]
                         ELSE Clamp(NumberAt(here))
  OBVIOUS
<1>3. PICK other, next : other = here + 2 /\ next = AfterNumber(other)
  OBVIOUS
<1>4. /\ where = "element" /\ CharAt(here) \in Numerals /\ CharAt(here + 1) = Dash
      /\ loop' = [i |-> from, to |-> Clamp(NumberAt(other)), step |-> StepAt(next)]
      /\ where' = "loop" /\ ps' = AfterStep(next) /\ UNCHANGED <<text, field, tables>>
  BY <1>1, <1>2, <1>3 DEF RangeElement, Loop, AtElement, Dash
<1>5. ASSUME RegularText(text)
      PROVE  InsideLoop(text, tables, field, AfterStep(next), from,
                        Clamp(NumberAt(other)), StepAt(next))
  <2>1. PICK a, b, w, c, d, l, k, e, g, x :
          /\ Spot(text, field, a, b, w, c, d, l, k) /\ InElement(l, e, g, x)
          /\ Filled(tables, text, a, w, field, ReadTo(l, field, e)) /\ ps = k + e + 1
    BY <1>4, <1>5 DEF MeansInv, ElementAhead
  <2>2. PICK h1, h2, q, r : /\ h1 = ps + 1 /\ h2 = ps + 2 /\ q = k + g
                            /\ r = Offset(text) + a + d
    OBVIOUS
  <2>3. field \in Fields /\ FieldMin[field] \in Nat /\ FieldMax[field] \in Nat
        /\ FieldMin[field] <= FieldMax[field]
    BY CronShape
  <2>4. /\ SkipSpaces(ps) = ps
        /\ \/ CharAt(ps) = Asterisk
           \/ CharAt(h1) # Dash
           \/ ReadsRange(x, field, ps, h2, AfterNumber(h2), q)
    BY <1>5, <2>1, <2>2, <2>3, ElementIs, SMTT(60)
  <2>5. here = ps /\ h1 = here + 1 /\ h2 = other
    BY <1>1, <1>3, <2>2, <2>4
  <2>6. ReadsRange(x, field, here, other, next, q)
    BY <1>3, <1>4, <2>4, <2>5, Signs
  <2>7. /\ NumberAt(here) \in FieldMin[field]..FieldMax[field]
        /\ NumberAt(other) \in FieldMin[field]..FieldMax[field]
        /\ StepAt(next) \in Steps(field) /\ AfterStep(next) = q
        /\ MeaningOf(x, field) = Stepped(NumberAt(here), NumberAt(other), StepAt(next))
    BY <2>6 DEF ReadsRange
  <2>8. /\ from = NumberAt(here) /\ from \in Nat /\ from \in FieldMin[field]..FieldMax[field]
    BY <1>2, <2>3, <2>7, ClampSame
  <2>9. PICK to : /\ to = NumberAt(other) /\ to = Clamp(NumberAt(other)) /\ to \in Nat
                  /\ to <= FieldMax[field]
    BY <2>3, <2>7, ClampSame
  <2>10. PICK s \in Nat \ {0} : s = StepAt(next) /\ s \in Steps(field)
    BY <2>3, <2>7, Widths
  <2>11. Counts(MeaningOf(x, field), field, from, to, s)
    <3>1. Reached(from, s, from) /\ from <= FieldMax[field] + s
      BY <2>3, <2>8, <2>10 DEF Reached
    <3>2. MeaningOf(x, field) = Stepped(from, to, s)
      BY <2>7, <2>8, <2>9, <2>10
    <3>3. QED BY <2>8, <2>9, <2>10, <3>1, <3>2 DEF Counts
  <2>12. Below(MeaningOf(x, field), from) = {}
    BY <2>7, <2>8, <2>9, SteppedNone
  <2>13. Filled(tables, text, a, w, field,
                ReadTo(l, field, e) \cup Below(MeaningOf(x, field), from))
    BY <2>1, <2>12
  <2>14. QED BY <2>1, <2>2, <2>7, <2>9, <2>10, <2>11, <2>13 DEF InsideLoop
<1>6. loop'.i = from /\ loop'.to = Clamp(NumberAt(other)) /\ loop'.step = StepAt(next)
  BY <1>4
<1>7. QED BY <1>4, <1>5, <1>6, MakeMeans

LEMMA BadElementMeans ==
  ASSUME CronInv, MeansInv, BadElement PROVE MeansInv'
<1>1. /\ where = "element" /\ CharAt(SkipSpaces(ps)) \notin Numerals \cup {Asterisk}
      /\ where' = "finish" /\ UNCHANGED text
  BY DEF BadElement, Asterisk
<1>2. ASSUME RegularText(text) PROVE FALSE
  <2>1. PICK a, b, w, c, d, l, k, e, g, x :
          /\ Spot(text, field, a, b, w, c, d, l, k) /\ InElement(l, e, g, x)
          /\ ps = k + e + 1
    BY <1>1, <1>2 DEF MeansInv, ElementAhead
  <2>2. PICK h1, h2, q, r : /\ h1 = ps + 1 /\ h2 = ps + 2 /\ q = k + g
                            /\ r = Offset(text) + a + d
    OBVIOUS
  <2>3. field \in Fields
    BY CronShape
  <2>4. SkipSpaces(ps) = ps /\ CharAt(ps) \in Numerals \cup {Asterisk}
    BY <1>2, <2>1, <2>2, <2>3, ElementIs, SMTT(60)
  <2>5. QED BY <1>1, <2>4
<1>3. QED BY <1>1, <1>2, MakeMeans

LEMMA MarkMeans ==
  ASSUME CronInv, MeansInv, Mark PROVE MeansInv'
<1>1. /\ where = "loop" /\ loop.i <= loop.to /\ Put({loop.i})
      /\ loop' = [loop EXCEPT !.i = Counted]
      /\ where' = "loop" /\ UNCHANGED <<text, ps, field>>
  BY DEF Mark, InLoop
<1>2. loop'.i = Counted /\ loop'.to = loop.to /\ loop'.step = loop.step
  BY <1>1 DEF CronInv, LoopOK
<1>3. ASSUME RegularText(text)
      PROVE  InsideLoop(text, tables', field, ps, Counted, loop.to, loop.step)
  <2>1. PICK a, b, w, c, d, l, k, e, g, x :
          /\ Spot(text, field, a, b, w, c, d, l, k) /\ InElement(l, e, g, x)
          /\ Filled(tables, text, a, w, field,
                    ReadTo(l, field, e) \cup Below(MeaningOf(x, field), loop.i))
          /\ ps = k + g /\ Counts(MeaningOf(x, field), field, loop.i, loop.to, loop.step)
    BY <1>1, <1>3 DEF MeansInv, InsideLoop
  <2>2. PICK i \in Nat, to \in Nat, s \in Nat : i = loop.i /\ to = loop.to /\ s = loop.step
    BY CronShape
  <2>3. field \in Fields /\ FieldMin[field] \in Nat /\ FieldMax[field] \in Nat
    BY CronShape
  <2>4. PICK M : M = MeaningOf(x, field) /\ Counts(M, field, i, to, s)
    BY <2>1, <2>2
  <2>5. PICK j : Turn(i, to, s, j) /\ j = i + s
    BY <1>1, <2>2 DEF Turn
  <2>6. /\ Counts(M, field, j, to, s) /\ Below(M, j) = Below(M, i) \cup {i}
        /\ j \in Nat /\ j < Byte
    <3>1. field \in Fields /\ i \in Nat /\ to \in Nat /\ s \in Nat
      BY <2>2, <2>3
    <3>2. Turn(i, to, s, j)
      BY <2>5
    <3>3. QED BY <2>4, <3>1, <3>2, CountsMore
  <2>7. Counted = j
    <3>1. j % Byte = j
      BY <2>6, Constants
    <3>2. QED BY <2>2, <2>5, <3>1 DEF Counted
  <2>8. Filled(tables', text, a, w, field, ReadTo(l, field, e) \cup Below(MeaningOf(x, field), j))
    <3>1. Filled(tables', text, a, w, field,
                 (ReadTo(l, field, e) \cup Below(MeaningOf(x, field), i)) \cup {i})
      BY <1>1, <2>1, <2>2, FilledMore
    <3>2. (ReadTo(l, field, e) \cup Below(MeaningOf(x, field), i)) \cup {i}
            = ReadTo(l, field, e) \cup Below(MeaningOf(x, field), j)
      BY <2>4, <2>6
    <3>3. QED BY <3>1, <3>2
  <2>9. QED BY <2>1, <2>2, <2>4, <2>6, <2>7, <2>8 DEF InsideLoop
<1>4. QED BY <1>1, <1>2, <1>3, MakeMeans

LEMMA LoopEndsMeans ==
  ASSUME CronInv, MeansInv, LoopEnds PROVE MeansInv'
<1>1. /\ where = "loop" /\ ~(loop.i <= loop.to)
      /\ where' = "comma" /\ UNCHANGED <<text, ps, field, tables>>
  BY DEF LoopEnds, InLoop
<1>2. ASSUME RegularText(text)
      PROVE  ElementBehind(text, tables, field, ps)
  <2>1. PICK a, b, w, c, d, l, k, e, g, x :
          /\ Spot(text, field, a, b, w, c, d, l, k) /\ InElement(l, e, g, x)
          /\ Filled(tables, text, a, w, field,
                    ReadTo(l, field, e) \cup Below(MeaningOf(x, field), loop.i))
          /\ ps = k + g /\ Counts(MeaningOf(x, field), field, loop.i, loop.to, loop.step)
    BY <1>1, <1>2 DEF MeansInv, InsideLoop
  <2>2. PICK i \in Nat, to \in Nat : i = loop.i /\ to = loop.to /\ i > to
    BY <1>1, CronShape
  <2>3. field \in Fields /\ FieldMin[field] \in Nat /\ FieldMax[field] \in Nat
    BY CronShape
  <2>4. PICK from \in Nat : MeaningOf(x, field) = Stepped(from, to, loop.step)
    BY <2>1, <2>2, <2>3 DEF Counts
  <2>5. Below(MeaningOf(x, field), i) = MeaningOf(x, field)
    BY <2>2, <2>4, SteppedAll
  <2>6. ReadTo(l, field, g) = ReadTo(l, field, e) \cup MeaningOf(x, field)
    <3>1. l \in Seq(Characters)
      BY <1>2, <2>1, <2>3, SpotShape
    <3>2. QED BY <2>1, <3>1, OneMoreElement DEF InElement
  <2>7. QED BY <2>1, <2>2, <2>5, <2>6 DEF ElementBehind
<1>3. QED BY <1>1, <1>2, MakeMeans

LEMMA NextElementMeans ==
  ASSUME CronInv, MeansInv, NextElement PROVE MeansInv'
<1>1. /\ where = "comma" /\ CharAt(ps) = Comma /\ ps' = ps + 1
      /\ where' = "element" /\ UNCHANGED <<text, field, tables>>
  BY DEF NextElement, Comma
<1>2. ASSUME RegularText(text)
      PROVE  ElementAhead(text, tables, field, ps + 1)
  <2>1. PICK a, b, w, c, d, l, k, e, g, x :
          /\ Spot(text, field, a, b, w, c, d, l, k) /\ InElement(l, e, g, x)
          /\ Filled(tables, text, a, w, field, ReadTo(l, field, g)) /\ ps = k + g
    BY <1>1, <1>2 DEF MeansInv, ElementBehind
  <2>2. PICK h, h1, h2, r : /\ h = k + e + 1 /\ h1 = h + 1 /\ h2 = h + 2
                            /\ r = Offset(text) + a + d
    OBVIOUS
  <2>3. field \in Fields
    BY CronShape
  <2>4. g = Len(l) + 1 => CharAt(ps) # Comma
    BY <1>2, <2>1, <2>2, <2>3, ElementIs, SMTT(60)
  <2>5. l \in Seq(Characters)
    BY <1>2, <2>1, <2>3, SpotShape
  <2>6. PICK h0, y : InElement(l, g, h0, y)
    BY <1>1, <2>1, <2>4, <2>5, NextElementIs
  <2>7. QED BY <2>1, <2>6 DEF ElementAhead
<1>3. QED BY <1>1, <1>2, MakeMeans

-----------------------------------------------------------------------------
(* Lists.                                                                  *)

\* p is behind the list for f of the entry, or there is none and p is behind the entry.
FieldBehind(t, f, a, b, w, p) ==
  \/ \E c, d, l : InList(w, f, c, d, l) /\ p = Offset(t) + a + d
  \/ Nth(w, Blank, Len(w) + 1) <= f /\ p = Offset(t) + b

\* The last list of a regular entry ends with it.
LEMMA LastList ==
  ASSUME NEW w \in Seq(Characters), RegularFields(w, Fields),
         NEW c, NEW d, NEW l, InList(w, Weekday, c, d, l)
  PROVE  d = Len(w) + 1
<1>1. Adjacent(w, Blank, c, d) /\ Nth(w, Blank, c) = 5
  BY DEF InList, Weekday
<1>2. Cardinality(Pieces(w, Blank)) <= Nth(w, Blank, c)
  BY <1>1, RegularShape
<1>3. QED BY <1>1, <1>2, LastPiece

LEMMA FieldDone ==
  ASSUME CronInv, RegularText(text), NEW T, NEW a, NEW b, NEW w, InEntry(text, a, b, w),
         Filled(T, text, a, w, field, Meaning(w, field)),
         NEW p, FieldBehind(text, field, a, b, w, p), NEW n, n = field + 1
  PROVE  /\ field = Weekday => EntryBehind(text, T, field, p)
         /\ field # Weekday => ListAhead(text, T, n, p)
<1>1. text \in Seq(Characters) /\ field \in Fields
  BY CronShape
<1>2. PICK o \in Nat : o = Offset(text)
  BY <1>1, BodyShape
<1>3. /\ w \in Seq(Characters) /\ RegularFields(w, Fields) /\ a \in Nat /\ b \in Nat
      /\ Len(w) \in Nat /\ Len(w) = b - a - 1
  <2>1. PICK u, v : u = o + a /\ v = o + b
    OBVIOUS
  <2>2. QED BY <1>1, <1>2, <2>1, EntryReads
<1>4. o \in Nat
  BY <1>2
<1>5. field \in Nat /\ n \in Nat /\ Weekday \in Fields
  BY <1>1 DEF Fields, Weekday
<1>6. CASE Nth(w, Blank, Len(w) + 1) <= field /\ p = o + b
  <2>1. Nth(w, Blank, Len(w) + 1) <= n
    <3>1. Nth(w, Blank, Len(w) + 1) \in Nat
      BY <1>3, NthNat
    <3>2. QED BY <1>5, <1>6, <3>1
  <2>2. Filled(T, text, a, w, n, {})
    BY <1>1, FilledNext
  <2>3. ListAhead(text, T, n, p)
    BY <1>2, <1>6, <2>1, <2>2 DEF ListAhead
  <2>4. field = Weekday => EntryBehind(text, T, field, p)
    BY <1>2, <1>6 DEF EntryBehind
  <2>5. QED BY <2>3, <2>4
<1>7. ASSUME NEW c, NEW d, NEW l, InList(w, field, c, d, l), p = o + a + d
      PROVE  /\ field = Weekday => EntryBehind(text, T, field, p)
             /\ field # Weekday => ListAhead(text, T, n, p)
  <2>1. Filled(T, text, a, w, n, {})
    BY <1>1, FilledNext
  <2>2. CASE d = Len(w) + 1
    <3>1. p = o + b
      BY <1>3, <1>4, <1>7, <2>2
    <3>2. field = Weekday => EntryBehind(text, T, field, p)
      BY <1>2, <3>1 DEF EntryBehind
    <3>3. Nth(w, Blank, Len(w) + 1) = n
      BY <1>3, <1>7, <2>2, NthNext DEF InList
    <3>4. Nth(w, Blank, Len(w) + 1) <= n
      BY <1>5, <3>3
    <3>5. ListAhead(text, T, n, p)
      BY <1>2, <2>1, <3>1, <3>4 DEF ListAhead
    <3>6. QED BY <3>2, <3>5
  <2>3. CASE d # Len(w) + 1
    <3>1. field # Weekday
      BY <1>3, <1>7, <2>3, LastList
    <3>2. PICK h, y : d # 0 /\ InList(w, n, d, h, y)
      BY <1>3, <1>7, <2>3, NextListIs
    <3>3. Spot(text, n, a, b, w, d, h, y, p)
      BY <1>2, <1>7, <3>2 DEF Spot
    <3>4. ListAhead(text, T, n, p)
      BY <2>1, <3>2, <3>3 DEF ListAhead
    <3>5. QED BY <3>1, <3>4
  <2>4. QED BY <2>2, <2>3
<1>8. QED BY <1>2, <1>6, <1>7 DEF FieldBehind

\* NextField goes on there.
LEMMA NextFieldMeans ==
  ASSUME CronInv, NextField, UNCHANGED text,
         RegularText(text) => \E a, b, w :
           /\ InEntry(text, a, b, w) /\ Filled(tables', text, a, w, field, Meaning(w, field))
           /\ FieldBehind(text, field, a, b, w, ps')
  PROVE  MeansInv'
<1>1. PICK n : n = field + 1
  OBVIOUS
<1>2. ASSUME RegularText(text)
      PROVE  /\ field = Weekday => EntryBehind(text, tables', field, ps')
             /\ field # Weekday => ListAhead(text, tables', n, ps')
  BY <1>1, <1>2, FieldDone
<1>3. CASE field = Weekday
  <2>1. where' = "entry" /\ field' = field
    BY <1>3 DEF NextField
  <2>2. QED BY <1>2, <1>3, <2>1, MakeMeans
<1>4. CASE field # Weekday
  <2>1. where' = "list" /\ field' = n
    BY <1>1, <1>4 DEF NextField
  <2>2. QED BY <1>2, <1>4, <2>1, MakeMeans
<1>5. QED BY <1>3, <1>4

LEMMA OneToSkip ==
  ASSUME text \in Seq(Characters), NEW p, CharAt(p) = Blank, NEW n, n = p + 1,
         CharAt(n) # Blank
  PROVE  SkipSpaces(p) = n
<1>0. CharAt(p) # End
  BY Signs
<1>1. p \in Nat /\ n \in Nat /\ p + 1 \in 1..(Len(text) + 1) /\ Len(text) \in Nat
  <2>1. InText(p) /\ InText(p + 1)
    BY <1>0, NextInText
  <2>2. QED BY <2>1, TextShape DEF InText
<1>2. PICK m : m = Len(text) + 1
  OBVIOUS
<1>3. SkipSpaces(p) = CHOOSE q \in p..m : CharAt(q) # Blank /\ \A r \in p..(q - 1) : CharAt(r) = Blank
  BY <1>2 DEF SkipSpaces, Blank
<1>4. n \in p..m /\ \A r \in p..(n - 1) : r = p
  BY <1>1, <1>2
<1>5. \A r \in p..(n - 1) : CharAt(r) = Blank
  BY <1>4
<1>6. ASSUME NEW q \in p..m, CharAt(q) # Blank, \A r \in p..(q - 1) : CharAt(r) = Blank, q # n
      PROVE  FALSE
  <2>1. q # p
    BY <1>6
  <2>2. n \in p..(q - 1)
    BY <1>1, <1>2, <1>6, <2>1
  <2>3. QED BY <1>6, <2>2
<1>7. QED BY <1>3, <1>4, <1>5, <1>6

\* A list begins with an element; before it is a blank, unless it is the first.
LEMMA ListIs ==
  ASSUME CronInv, RegularText(text), NEW f \in Fields, NEW a, NEW b, NEW w, NEW c, NEW d,
         NEW l, NEW k, Spot(text, f, a, b, w, c, d, l, k),
         NEW p, p = (IF c = 0 THEN k + 1 ELSE k), NEW h, h = k + 1
  PROVE  /\ SkipSpaces(p) = h /\ CharAt(h) \in Numerals \cup {Asterisk}
         /\ \E g, x : InElement(l, 0, g, x)
<1>1. text \in Seq(Characters) /\ l \in Seq(Characters) /\ k \in Nat
  BY CronShape, SpotShape
<1>2. PICK g, x : InElement(l, 0, g, x)
  BY <1>1, FirstElementIs
<1>3. PICK h1, h2, q, r : /\ h1 = h + 1 /\ h2 = h + 2 /\ q = k + g
                          /\ r = Offset(text) + a + d
  OBVIOUS
<1>4. h = k + 0 + 1
  BY <1>1
<1>5. SkipSpaces(h) = h /\ CharAt(h) \in Numerals \cup {Asterisk}
  BY <1>2, <1>3, <1>4, ElementIs, SMTT(60)
<1>6. CASE c = 0
  BY <1>2, <1>5, <1>6
<1>7. CASE c # 0
  <2>1. PICK o \in Nat : o = Offset(text)
    BY <1>1, BodyShape
  <2>2. PICK u, v : u = o + a /\ v = o + b
    OBVIOUS
  <2>3. InEntry(text, a, b, w) /\ Adjacent(w, Blank, c, d) /\ k = u + c
    BY <2>1, <2>2 DEF Spot, InList
  <2>4. w \in Seq(Characters) /\ Spells(text, u, w)
    BY <1>1, <2>1, <2>2, <2>3, EntryReads
  <2>5. w[c] = Blank /\ c \in 1..Len(w)
    <3>1. c \in 0..Len(w) /\ Len(w) \in Nat /\ (c = 0 \/ w[c] = Blank)
      BY <2>3, <2>4, AdjacentShape
    <3>2. QED BY <1>7, <3>1
  <2>6. CharAt(k) = Blank
    <3>1. Chr(text, k) = Blank
      BY <2>3, <2>4, <2>5 DEF Spells
    <3>2. QED BY <3>1, CharIs
  <2>7. CharAt(h) # Blank
    BY <1>5, Signs
  <2>8. SkipSpaces(p) = h
    BY <1>1, <1>7, <2>6, <2>7, OneToSkip
  <2>9. QED BY <1>2, <1>5, <2>8
<1>8. QED BY <1>6, <1>7

\* The first character of an element is no end.
LEMMA ElementIsNoEnd ==
  ASSUME NEW h, CharAt(h) \in Numerals \cup {Asterisk}
  PROVE  ~Eol(h) /\ CharAt(h) # Blank
<1>1. CharAt(h) # Semicolon /\ CharAt(h) # End /\ CharAt(h) # Blank
  BY Signs
<1>2. QED BY <1>1 DEF Eol, Semicolon

\* An entry ends with a semicolon or the string.
LEMMA EntryEndIs ==
  ASSUME CronInv, RegularText(text), NEW a, NEW b, NEW w, InEntry(text, a, b, w),
         NEW p, p = Offset(text) + b
  PROVE  /\ Eol(p) /\ SkipSpaces(p) = p /\ InText(p)
         /\ w \in Seq(Characters)
         /\ b # Len(BodyOf(text)) + 1 => CharAt(p) = Semicolon
         /\ b = Len(BodyOf(text)) + 1 => CharAt(p) = End
<1>1. text \in Seq(Characters)
  BY CronShape
<1>2. PICK o \in Nat : o = Offset(text)
  BY <1>1, BodyShape
<1>3. PICK u : u = o + a
  OBVIOUS
<1>4. /\ w \in Seq(Characters) /\ p \in 1..(Len(text) + 1)
      /\ b # Len(BodyOf(text)) + 1 => Chr(text, p) = Semicolon
      /\ b = Len(BodyOf(text)) + 1 => Chr(text, p) = End
  BY <1>1, <1>2, <1>3, EntryReads
<1>5. CharAt(p) = Chr(text, p)
  BY CharIs
<1>6. Eol(p) /\ CharAt(p) # Blank
  <2>1. CharAt(p) = Semicolon \/ CharAt(p) = End
    BY <1>4, <1>5
  <2>2. CharAt(p) # Blank
    BY <2>1, Signs
  <2>3. QED BY <2>1, <2>2 DEF Eol, Semicolon
<1>7. InText(p)
  BY <1>4 DEF InText
<1>8. SkipSpaces(p) = p
  BY <1>1, <1>6, <1>7, NothingToSkip
<1>9. QED BY <1>4, <1>5, <1>6, <1>7, <1>8

LEMMA ListBeginsMeans ==
  ASSUME CronInv, MeansInv, ListBegins PROVE MeansInv'
<1>1. PICK h : h = SkipSpaces(ps)
  OBVIOUS
<1>2. /\ where = "list" /\ ~Eol(h) /\ ps' = h
      /\ where' = "element" /\ UNCHANGED <<text, field, tables>>
  BY <1>1 DEF ListBegins
<1>3. ASSUME RegularText(text)
      PROVE  ElementAhead(text, tables, field, h)
  <2>1. field \in Fields
    BY CronShape
  <2>2. PICK a, b, w :
          /\ InEntry(text, a, b, w) /\ Filled(tables, text, a, w, field, {})
          /\ \/ \E c, d, l, k : /\ Spot(text, field, a, b, w, c, d, l, k)
                                /\ ps = (IF c = 0 THEN k + 1 ELSE k)
             \/ ps = Offset(text) + b
    BY <1>2, <1>3 DEF MeansInv, ListAhead
  <2>3. ps # Offset(text) + b
    BY <1>1, <1>2, <1>3, <2>2, EntryEndIs
  <2>4. PICK c, d, l, k : /\ Spot(text, field, a, b, w, c, d, l, k)
                          /\ ps = (IF c = 0 THEN k + 1 ELSE k)
    BY <2>2, <2>3
  <2>5. PICK h1 : h1 = k + 1
    OBVIOUS
  <2>6. SkipSpaces(ps) = h1 /\ \E g, x : InElement(l, 0, g, x)
    BY <1>3, <2>1, <2>4, <2>5, ListIs
  <2>7. PICK g, x : InElement(l, 0, g, x)
    BY <2>6
  <2>8. k \in Nat /\ l \in Seq(Characters)
    BY <1>3, <2>1, <2>4, SpotShape
  <2>9. h = k + 0 + 1
    BY <1>1, <2>5, <2>6, <2>8
  <2>10. ReadTo(l, field, 0) = {}
    BY <2>8, NothingRead
  <2>11. QED BY <2>2, <2>4, <2>7, <2>9, <2>10 DEF ElementAhead
<1>4. QED BY <1>2, <1>3, MakeMeans

LEMMA ListDefaultMeans ==
  ASSUME CronInv, MeansInv, ListDefault PROVE MeansInv'
<1>1. PICK h : h = SkipSpaces(ps)
  OBVIOUS
<1>2. /\ where = "list" /\ Eol(h) /\ ps' = h
      /\ Put(FieldMin[field]..FieldMax[field]) /\ NextField /\ UNCHANGED text
  BY <1>1 DEF ListDefault
<1>3. ASSUME RegularText(text)
      PROVE  \E a, b, w :
               /\ InEntry(text, a, b, w)
               /\ Filled(tables', text, a, w, field, Meaning(w, field))
               /\ FieldBehind(text, field, a, b, w, ps')
  <2>1. field \in Fields /\ field \in Nat
    BY CronShape DEF Fields
  <2>2. PICK a, b, w :
          /\ InEntry(text, a, b, w) /\ Filled(tables, text, a, w, field, {})
          /\ \/ \E c, d, l, k : /\ Spot(text, field, a, b, w, c, d, l, k)
                                /\ ps = (IF c = 0 THEN k + 1 ELSE k)
             \/ Nth(w, Blank, Len(w) + 1) <= field /\ ps = Offset(text) + b
    BY <1>2, <1>3 DEF MeansInv, ListAhead
  <2>3. ASSUME NEW c, NEW d, NEW l, NEW k, Spot(text, field, a, b, w, c, d, l, k),
               ps = (IF c = 0 THEN k + 1 ELSE k)
        PROVE  FALSE
    <3>1. PICK h1 : h1 = k + 1
      OBVIOUS
    <3>2. SkipSpaces(ps) = h1 /\ CharAt(h1) \in Numerals \cup {Asterisk}
      BY <1>3, <2>1, <2>3, <3>1, ListIs
    <3>3. QED BY <1>1, <1>2, <3>2, ElementIsNoEnd
  <2>4. Nth(w, Blank, Len(w) + 1) <= field /\ ps = Offset(text) + b
    BY <2>2, <2>3
  <2>5. ps' = Offset(text) + b /\ w \in Seq(Characters)
    BY <1>1, <1>2, <1>3, <2>2, <2>4, EntryEndIs
  <2>6. Meaning(w, field) = FieldMin[field]..FieldMax[field]
    BY <2>1, <2>4, <2>5, NoListMeans
  <2>7. Filled(tables', text, a, w, field, {} \cup Meaning(w, field))
    BY <1>2, <2>2, <2>6, FilledMore
  <2>8. {} \cup Meaning(w, field) = Meaning(w, field)
    OBVIOUS
  <2>9. Filled(tables', text, a, w, field, Meaning(w, field))
    BY <2>7, <2>8
  <2>10. QED BY <2>2, <2>4, <2>5, <2>9 DEF FieldBehind
<1>4. QED BY <1>2, <1>3, NextFieldMeans

LEMMA ListEndsMeans ==
  ASSUME CronInv, MeansInv, ListEnds PROVE MeansInv'
<1>1. /\ where = "comma" /\ CharAt(ps) # Comma /\ NextField /\ UNCHANGED <<text, tables>>
      /\ CharAt(ps) = Blank \/ Eol(ps) => ps' = ps
  BY DEF ListEnds, Comma, Blank
<1>2. ASSUME RegularText(text)
      PROVE  \E a, b, w :
               /\ InEntry(text, a, b, w)
               /\ Filled(tables, text, a, w, field, Meaning(w, field))
               /\ FieldBehind(text, field, a, b, w, ps')
  <2>1. PICK a, b, w, c, d, l, k, e, g, x :
          /\ Spot(text, field, a, b, w, c, d, l, k) /\ InElement(l, e, g, x)
          /\ Filled(tables, text, a, w, field, ReadTo(l, field, g)) /\ ps = k + g
    BY <1>1, <1>2 DEF MeansInv, ElementBehind
  <2>2. PICK h, h1, h2, r : /\ h = k + e + 1 /\ h1 = h + 1 /\ h2 = h + 2
                            /\ r = Offset(text) + a + d
    OBVIOUS
  <2>3. field \in Fields
    BY CronShape
  <2>4. /\ CharAt(ps) \in {Comma, Blank, Semicolon, End}
        /\ g # Len(l) + 1 => CharAt(ps) = Comma
        /\ g = Len(l) + 1 => ps = r
    BY <1>2, <2>1, <2>2, <2>3, ElementIs, SMTT(60)
  <2>5. g = Len(l) + 1 /\ ps = r
    BY <1>1, <2>4
  <2>6. ps' = ps
    <3>1. CharAt(ps) = Blank \/ Eol(ps)
      BY <1>1, <2>4 DEF Eol, Semicolon
    <3>2. QED BY <1>1, <3>1
  <2>7. ReadTo(l, field, g) = Meaning(w, field)
    <3>1. w \in Seq(Characters)
      BY <1>2, <2>1, <2>3, SpotShape
    <3>2. /\ Adjacent(w, Blank, c, d) /\ l = Word(w, c, d) /\ field = Nth(w, Blank, c)
      BY <2>1 DEF Spot, InList
    <3>3. Meaning(w, field) = ReadTo(l, field, Len(l) + 1)
      BY <3>1, <3>2, ListMeans
    <3>4. QED BY <2>5, <3>3
  <2>8. FieldBehind(text, field, a, b, w, ps')
    BY <2>1, <2>2, <2>5, <2>6 DEF FieldBehind, Spot
  <2>9. QED BY <2>1, <2>7, <2>8 DEF Spot
<1>3. QED BY <1>1, <1>2, NextFieldMeans

-----------------------------------------------------------------------------
(* Entries.                                                                *)

LEMMA NoLineToSkip ==
  ASSUME text \in Seq(Characters), NEW p, InText(p), Eol(p)
  PROVE  SkipToEol(p) = p
<1>1. p \in Nat \ {0} /\ p <= Len(text) + 1 /\ Len(text) \in Nat
  BY TextShape DEF InText
<1>2. PICK m : m = Len(text) + 1
  OBVIOUS
<1>3. SkipToEol(p) = CHOOSE q \in p..m : Eol(q) /\ \A r \in p..(q - 1) : ~Eol(r)
  BY <1>2 DEF SkipToEol
<1>4. p \in p..m /\ \A r \in p..(p - 1) : ~Eol(r)
  BY <1>1, <1>2
<1>5. ASSUME NEW q \in p..m, \A r \in p..(q - 1) : ~Eol(r), q # p
      PROVE  FALSE
  <2>1. p \in p..(q - 1)
    BY <1>1, <1>2, <1>5
  <2>2. QED BY <1>5, <2>1
<1>6. QED BY <1>3, <1>4, <1>5

\* Where an entry begins, the first list begins.
LEMMA EntryIs ==
  ASSUME CronInv, RegularText(text), NEW a, NEW b, NEW w, InEntry(text, a, b, w),
         NEW T, Filled(T, text, a, w, 1, {}), NEW h, h = Offset(text) + a + 1
  PROVE  /\ ListAhead(text, T, 1, h)
         /\ SkipSpaces(h) = h /\ CharAt(h) \in Numerals \cup {Asterisk}
<1>1. text \in Seq(Characters)
  BY CronShape
<1>2. PICK o \in Nat : o = Offset(text)
  BY <1>1, BodyShape
<1>3. w \in Seq(Characters) /\ a \in Nat
  <2>1. PICK u, v : u = o + a /\ v = o + b
    OBVIOUS
  <2>2. QED BY <1>1, <1>2, <2>1, EntryReads
<1>4. PICK d, l : InList(w, 1, 0, d, l)
  BY <1>3, FirstListIs
<1>5. PICK k : k = o + a + 0
  OBVIOUS
<1>6. Spot(text, 1, a, b, w, 0, d, l, k)
  BY <1>2, <1>4, <1>5 DEF Spot
<1>7. h = k + 1 /\ h = (IF 0 = 0 THEN k + 1 ELSE k) /\ 1 \in Fields
  <2>1. o \in Nat /\ k = o + a
    BY <1>2, <1>3, <1>5
  <2>2. h = k + 1
    BY <1>2, <2>1
  <2>3. QED BY <2>2 DEF Fields
<1>8. ListAhead(text, T, 1, h)
  BY <1>6, <1>7 DEF ListAhead, Spot
<1>9. SkipSpaces(h) = h /\ CharAt(h) \in Numerals \cup {Asterisk}
  BY <1>6, <1>7, ListIs
<1>10. QED BY <1>8, <1>9

LEMMA EntryEndsMeans ==
  ASSUME CronInv, MeansInv, EntryEnds PROVE MeansInv'
<1>1. PICK next : next = SkipSpaces(AfterEntry(ps))
  OBVIOUS
<1>2. /\ where = "entry" /\ ps' = next /\ UNCHANGED <<text, tables>>
      /\ \/ CharAt(next) = End /\ where' = "finish"
         \/ CharAt(next) # End /\ where' = "list" /\ field' = 1
  BY <1>1 DEF EntryEnds
<1>3. AfterEntry(ps) = (IF CharAt(SkipToEol(ps)) = Semicolon THEN SkipToEol(ps) + 1
                        ELSE SkipToEol(ps))
  BY DEF AfterEntry, Semicolon
<1>4. ASSUME RegularText(text)
      PROVE  /\ CharAt(next) = End => AllRead(text, tables)
             /\ CharAt(next) # End => ListAhead(text, tables, 1, next)
  <2>1. PICK a, b, w : /\ InEntry(text, a, b, w) /\ ps = Offset(text) + b
                       /\ Filled(tables, text, a, w, Weekday, Meaning(w, Weekday))
    BY <1>2, <1>4 DEF MeansInv, EntryBehind
  <2>2. /\ Eol(ps) /\ SkipSpaces(ps) = ps /\ InText(ps)
        /\ b # Len(BodyOf(text)) + 1 => CharAt(ps) = Semicolon
        /\ b = Len(BodyOf(text)) + 1 => CharAt(ps) = End
    BY <1>4, <2>1, EntryEndIs
  <2>3. text \in Seq(Characters)
    BY CronShape
  <2>4. SkipToEol(ps) = ps
    BY <2>2, <2>3, NoLineToSkip
  <2>5. /\ \A k \in Fields : tables[k] = EarlierTo(BodyOf(text), k, b)
        /\ \A v : Filled(tables, text, b, v, 1, {})
    BY <2>1, <2>3, FilledEntry
  <2>6. CASE b = Len(BodyOf(text)) + 1
    <3>1. next = ps /\ CharAt(next) = End
      <4>1. CharAt(ps) # Semicolon /\ CharAt(ps) = End
        BY <2>2, <2>6, Signs
      <4>2. AfterEntry(ps) = ps
        BY <1>3, <2>4, <4>1
      <4>3. QED BY <1>1, <2>2, <4>1, <4>2
    <3>2. AllRead(text, tables)
      BY <2>5, <2>6 DEF AllRead
    <3>3. QED BY <3>1, <3>2
  <2>7. CASE b # Len(BodyOf(text)) + 1
    <3>1. PICK h : h = ps + 1
      OBVIOUS
    <3>2. AfterEntry(ps) = h
      BY <1>3, <2>2, <2>4, <2>7, <3>1
    <3>3. PICK c, v : InEntry(text, b, c, v)
      BY <2>1, <2>3, <2>7, NextEntryIs
    <3>4. h = Offset(text) + b + 1 /\ Filled(tables, text, b, v, 1, {})
      BY <2>1, <2>5, <3>1
    <3>5. /\ ListAhead(text, tables, 1, h)
          /\ SkipSpaces(h) = h /\ CharAt(h) \in Numerals \cup {Asterisk}
      BY <1>4, <3>3, <3>4, EntryIs
    <3>6. next = h /\ CharAt(next) # End
      BY <1>1, <3>2, <3>5, Signs
    <3>7. QED BY <3>5, <3>6
  <2>8. QED BY <2>6, <2>7
<1>5. QED BY <1>2, <1>4, MakeMeans

-----------------------------------------------------------------------------
(* The end.                                                                *)

LEMMA MeaningWithin ==
  ASSUME NEW w \in Seq(Characters), RegularFields(w, Fields), NEW f \in Fields
  PROVE  Meaning(w, f) \subseteq 0..FieldMax[f]
<1>1. FieldMin[f] \in Nat /\ FieldMax[f] \in Nat
  BY Widths
<1>2. CASE Lists(w, f) = {}
  <2>1. Meaning(w, f) = FieldMin[f]..FieldMax[f]
    BY <1>2 DEF Meaning
  <2>2. QED BY <1>1, <2>1
<1>3. CASE Lists(w, f) # {}
  <2>1. PICK q \in Pieces(w, Blank) : q.nth = f
    BY <1>3 DEF Lists, Blank
  <2>2. PICK c, d : /\ Adjacent(w, Blank, c, d)
                    /\ q = [nth |-> Nth(w, Blank, c), word |-> Word(w, c, d)]
    BY <2>1, PiecesAre
  <2>3. f = Nth(w, Blank, c)
    BY <2>1, <2>2
  <2>4. Elements(w, f) = WordsTo(Word(w, c, d), Comma, Len(Word(w, c, d)) + 1)
    BY <2>2, <2>3, ListMeans
  <2>5. ASSUME NEW x \in Elements(w, f) PROVE MeaningOf(x, f) \subseteq 0..FieldMax[f]
    <3>1. x \in Seq(Characters) /\ RegularElement(x, f)
      BY <2>4, <2>5, RegularShape DEF WordsTo
    <3>2. \/ MeaningOf(x, f) = FieldMin[f]..FieldMax[f]
          \/ MeaningOf(x, f) = Stepped(FieldMin[f], FieldMax[f], Value[x[3]])
          \/ IsNumber(x, 1, FieldMin[f]..FieldMax[f]) /\ MeaningOf(x, f) = {Value[x[1]]}
          \/ /\ IsNumber(x, 1, FieldMin[f]..FieldMax[f])
             /\ IsNumber(x, 3, FieldMin[f]..FieldMax[f])
             /\ \/ MeaningOf(x, f) = Value[x[1]]..Value[x[3]]
                \/ MeaningOf(x, f) = Stepped(Value[x[1]], Value[x[3]], Value[x[5]])
      BY <3>1, Forms
    <3>3. QED BY <1>1, <3>2 DEF IsNumber, Stepped
  <2>6. Meaning(w, f) = UNION {MeaningOf(x, f) : x \in Elements(w, f)}
    BY <1>3 DEF Meaning
  <2>7. QED BY <2>5, <2>6
<1>4. QED BY <1>2, <1>3

LEMMA FinishMeans ==
  ASSUME CronInv, MeansInv, Finish, FieldMax[Weekday] < 7 PROVE MeansInv'
<1>1. /\ where = "finish" /\ where' = "done" /\ UNCHANGED text
      /\ 7 \notin tables[Weekday] => tables' = tables
  BY DEF Finish
<1>2. ASSUME RegularText(text) PROVE AllRead(text, tables) /\ 7 \notin tables[Weekday]
  <2>1. AllRead(text, tables)
    BY <1>1, <1>2 DEF MeansInv
  <2>2. Weekday \in Fields /\ FieldMax[Weekday] \in Nat
    BY Constants
  <2>3. tables[Weekday] = EarlierTo(BodyOf(text), Weekday, Len(BodyOf(text)) + 1)
    BY <2>1, <2>2 DEF AllRead
  <2>4. ASSUME NEW w \in WordsTo(BodyOf(text), Semicolon, Len(BodyOf(text)) + 1)
        PROVE  7 \notin Meaning(w, Weekday)
    <3>1. w \in Seq(Characters) /\ RegularFields(w, Fields)
      BY <1>2, <2>4 DEF WordsTo, RegularText
    <3>2. Meaning(w, Weekday) \subseteq 0..FieldMax[Weekday]
      BY <2>2, <3>1, MeaningWithin
    <3>3. QED BY <2>2, <3>2
  <2>5. 7 \notin tables[Weekday]
    BY <2>3, <2>4 DEF EarlierTo
  <2>6. QED BY <2>1, <2>5
<1>3. QED BY <1>1, <1>2, MakeMeans

-----------------------------------------------------------------------------
(* The beginning.                                                          *)

\* A regular string does not begin with a blank.
LEMMA FirstCharacter ==
  ASSUME NEW t \in Seq(Characters), RegularText(t), NEW h, h = Offset(t) + 1
  PROVE  Chr(t, h) # Blank
<1>1. PICK o \in Nat : o = Offset(t)
  BY BodyShape
<1>2. PICK b, w : InEntry(t, 0, b, w)
  BY FirstEntryIs
<1>3. PICK p, q : p = o + 0 /\ q = o + b
  OBVIOUS
<1>4. w \in Seq(Characters) /\ RegularFields(w, Fields)
  BY <1>1, <1>2, <1>3, EntryReads
<1>5. PICK d, l : InList(w, 1, 0, d, l)
  BY <1>4, FirstListIs
<1>6. PICK u, v : u = o + 0 + 0 /\ v = o + 0 + d
  OBVIOUS
<1>7. 1 \in Fields
  BY DEF Fields
<1>8. l \in Seq(Characters) /\ Len(l) \in Nat /\ u \in Nat /\ Spells(t, u, l)
  BY <1>1, <1>2, <1>5, <1>6, <1>7, ListReads
<1>9. PICK g, x : InElement(l, 0, g, x)
  BY <1>8, FirstElementIs
<1>10. Adjacent(l, Comma, 0, g) /\ x = Word(l, 0, g)
  BY <1>9 DEF InElement
<1>11. x \in Seq(Characters) /\ g \in 1..(Len(l) + 1)
  BY <1>8, <1>10, WordShape, AdjacentShape
<1>12. PICK z : z = u + 0
  OBVIOUS
<1>13. Spells(t, z, x)
  BY <1>8, <1>10, <1>12, PieceReads
<1>14. RegularElement(x, 1)
  <2>1. x \in WordsTo(l, Comma, Len(l) + 1)
    <3>1. g <= Len(l) + 1
      BY <1>8, <1>11
    <3>2. QED BY <1>10, <1>11, <3>1 DEF WordsTo
  <2>2. x \in Elements(w, 1)
    BY <1>4, <1>5, <2>1, ListMeans DEF InList
  <2>3. QED BY <1>4, <1>7, <2>2, RegularShape
<1>15. Len(x) \in {1, 3, 5} /\ x[1] \in Numerals \cup {Asterisk}
  BY <1>7, <1>11, <1>14, Forms DEF IsNumber
<1>16. Chr(t, z + 1) = x[1]
  <2>1. 1 \in 1..Len(x)
    BY <1>15
  <2>2. QED BY <1>13, <2>1 DEF Spells
<1>17. z + 1 = h
  BY <1>1, <1>6, <1>12
<1>18. QED BY <1>15, <1>16, <1>17, Signs

\* The tables are empty and the first list is ahead.
LEMMA BeginningIs ==
  ASSUME NEW t \in Seq(Characters), RegularText(t), NEW h, h = Offset(t) + 1
  PROVE  ListAhead(t, Cleared, 1, h)
<1>1. PICK o \in Nat : o = Offset(t)
  BY BodyShape
<1>2. PICK b, w : InEntry(t, 0, b, w)
  BY FirstEntryIs
<1>3. PICK p, q : p = o + 0 /\ q = o + b
  OBVIOUS
<1>4. w \in Seq(Characters)
  BY <1>1, <1>2, <1>3, EntryReads
<1>5. PICK d, l : InList(w, 1, 0, d, l)
  BY <1>4, FirstListIs
<1>6. PICK k : k = o + 0 + 0
  OBVIOUS
<1>7. Spot(t, 1, 0, b, w, 0, d, l, k)
  BY <1>1, <1>2, <1>5, <1>6 DEF Spot
<1>8. h = k + 1
  BY <1>1, <1>6
<1>9. Filled(Cleared, t, 0, w, 1, {})
  <2>1. ASSUME NEW f \in Fields
        PROVE  /\ Cleared[f] = {} /\ EarlierTo(BodyOf(t), f, 0) = {}
               /\ ~(f < 1)
    <3>1. Cleared[f] = {}
      BY DEF Cleared
    <3>2. EarlierTo(BodyOf(t), f, 0) = {}
      BY BodyShape, NothingRead
    <3>3. ~(f < 1)
      BY DEF Fields
    <3>4. QED BY <3>1, <3>2, <3>3
  <2>2. QED BY <2>1 DEF Filled
<1>10. QED BY <1>2, <1>7, <1>8, <1>9 DEF ListAhead

LEMMA StartCronMeans ==
  ASSUME NEW t \in Seq(Characters), StartCron(t) PROVE MeansInv'
<1>1. text' = t /\ field' = 1
  BY DEF StartCron
<1>2. CASE ~RegularText(t)
  BY <1>1, <1>2 DEF MeansInv
<1>3. CASE RegularText(t)
  <2>1. t # <<>>
    BY <1>3 DEF RegularText
  <2>2. Len(t) \in Nat /\ Len(t) # 0 /\ DOMAIN t = 1..Len(t)
    BY <2>1, EmptySeq, LenProperties
  <2>3. PICK m : m = Len(t) + 1
    OBVIOUS
  <2>4. PICK start : start = CHOOSE q \in 1..m : /\ q \in DOMAIN t => t[q] # Blank
                                                 /\ \A r \in 1..(q - 1) : t[r] = Blank
    OBVIOUS
  <2>5. /\ where' = "list" /\ tables' = Cleared
        /\ ps' = IF start \in DOMAIN t /\ t[start] \in {"Z", "L"} THEN start + 1 ELSE start
    BY <2>1, <2>3, <2>4 DEF StartCron, Blank
  <2>6. 1 \in DOMAIN t
    BY <2>2
  <2>7. t[1] # Blank
    <3>1. CASE Prefixed(t)
      BY <3>1 DEF Prefixed, Blank
    <3>2. CASE ~Prefixed(t)
      <4>1. PICK h : h = Offset(t) + 1
        OBVIOUS
      <4>2. h = 1
        BY <3>2, <4>1 DEF Offset
      <4>3. Chr(t, 1) # Blank
        BY <1>3, <4>1, <4>2, FirstCharacter
      <4>4. QED BY <2>6, <4>3 DEF Chr
    <3>3. QED BY <3>1, <3>2
  <2>8. start = 1
    <3>1. 1 \in 1..m /\ \A r \in 1..(1 - 1) : t[r] = Blank
      BY <2>2, <2>3
    <3>2. ASSUME NEW q \in 1..m, \A r \in 1..(q - 1) : t[r] = Blank, q # 1
          PROVE  FALSE
      <4>1. 1 \in 1..(q - 1)
        BY <2>2, <2>3, <3>2
      <4>2. QED BY <2>7, <3>2, <4>1
    <3>3. QED BY <2>4, <2>7, <3>1, <3>2
  <2>9. ps' = Offset(t) + 1
    <3>1. CASE Prefixed(t)
      <4>1. t[start] \in {"Z", "L"} /\ start \in DOMAIN t
        BY <2>6, <2>8, <3>1 DEF Prefixed
      <4>2. Offset(t) = 1
        BY <3>1 DEF Offset
      <4>3. QED BY <2>5, <2>8, <4>1, <4>2
    <3>2. CASE ~Prefixed(t)
      <4>1. ~(t[start] \in {"Z", "L"})
        BY <2>1, <2>8, <3>2 DEF Prefixed
      <4>2. Offset(t) = 0
        BY <3>2 DEF Offset
      <4>3. ps' = 1
        BY <2>5, <2>8, <4>1
      <4>4. QED BY <4>2, <4>3
    <3>3. QED BY <3>1, <3>2
  <2>10. ListAhead(t, tables', field', ps')
    BY <1>1, <1>3, <2>5, <2>9, BeginningIs
  <2>11. QED BY <1>1, <2>5, <2>10 DEF MeansInv
<1>4. QED BY <1>2, <1>3

LEMMA CronMeans ==
  ASSUME CronInv, MeansInv, CronNext, FieldMax[Weekday] < 7 PROVE MeansInv'
BY ListDefaultMeans, ListBeginsMeans, NextElementMeans, ListEndsMeans, StarMeans, SingleMeans,
   RangeMeans, BadElementMeans, MarkMeans, LoopEndsMeans, EntryEndsMeans, FinishMeans
   DEF CronNext

LEMMA SameMeans ==
  ASSUME MeansInv, UNCHANGED cronVars PROVE MeansInv'
BY DEF MeansInv, cronVars

LEMMA CronArgMeans ==
  ASSUME IInv, CronArg PROVE MeansInv'
<1>1. PICK t : t = TextOf(At(av + 1))
  OBVIOUS
<1>2. StartCron(t)
  BY <1>1 DEF CronArg
<1>3. t \in Seq(Characters)
  BY <1>1, TextOfIs, Parts
<1>4. QED BY <1>2, <1>3, StartCronMeans

LEMMA MeansNext ==
  ASSUME FieldMax[Weekday] < 7, IInv /\ MeansInv, [Next]_vars PROVE IInv' /\ MeansInv'
<1>1. IInv'
  BY NextOK
<1>2. CASE CronArg
  BY <1>1, <1>2, CronArgMeans
<1>3. CASE ParseCron
  <2>1. CronInv /\ CronNext
    BY <1>3, Parts DEF ParseCron
  <2>2. QED BY <1>1, <2>1, CronMeans
<1>4. CASE UNCHANGED cronVars
  BY <1>1, <1>4, SameMeans
<1>5. CronArg \/ ParseCron \/ UNCHANGED cronVars
  BY DEF Next, vars, NoArguments, EndOfOptions, File, Flag, CronParsed, SecondsArg, Stops,
         Rest, Reverse, Pop
<1>6. QED BY <1>2, <1>3, <1>4, <1>5

LEMMA MeansInit == Init => IInv /\ MeansInv
<1>1. Init => where = "idle"
  BY DEF Init, CronInit
<1>2. QED BY <1>1, InitOK DEF MeansInv

\* What has been read when the parser is done is what the string says.
LEMMA ReadIsMeant ==
  ASSUME IInv, MeansInv PROVE MeansWhatItSays
<1> SUFFICES ASSUME where = "done", text # <<>>,
                    \A entry \in Entries : RegularFields(entry, Fields)
             PROVE  \A f \in Fields :
                      tables[f] = UNION {Meaning(entry, f) : entry \in Entries}
  BY DEF MeansWhatItSays
<1>1. text \in Seq(Characters)
  BY Parts, CronShape
<1>2. Body = BodyOf(text)
  BY DEF Body, BodyOf, Prefixed
<1>3. Entries = WordsTo(BodyOf(text), Semicolon, Len(BodyOf(text)) + 1)
  <2>1. BodyOf(text) \in Seq(Characters)
    BY <1>1, BodyShape
  <2>2. Entries = {p.word : p \in Pieces(BodyOf(text), Semicolon)}
    BY <1>2 DEF Entries, Semicolon
  <2>3. QED BY <2>1, <2>2, AllWords
<1>4. RegularText(text)
  BY <1>3 DEF RegularText
<1>5. AllRead(text, tables)
  BY <1>4 DEF MeansInv
<1>6. QED BY <1>3, <1>5 DEF AllRead, EarlierTo

\* The meaning of a cron string: once the parser is done with a regular string, however
\* many entries, lists and elements it has, each table holds what the field of one of
\* the entries says and nothing else.  7 must not be a day of the week that the limits
\* given to cron_parse_list let through (cron-parse.c gives 0 and 6), because Finish
\* would add 0 for it.
THEOREM MeansWhatItSaysHolds ==
  FieldMax[Weekday] < 7 => (Spec => []MeansWhatItSays)
<1> SUFFICES ASSUME FieldMax[Weekday] < 7 PROVE Spec => []MeansWhatItSays
  OBVIOUS
<1>1. IInv /\ MeansInv /\ [Next]_vars => (IInv /\ MeansInv)'
  BY MeansNext
<1>2. IInv /\ MeansInv => MeansWhatItSays
  BY ReadIsMeant
<1>3. QED BY MeansInit, <1>1, <1>2, PTL DEF Spec

=============================================================================
