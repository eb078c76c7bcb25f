----------------------------- MODULE CronParse ------------------------------
(***************************************************************************)
(* cron_check (cron-parse.c): a cron string is read from left to right     *)
(* into five tables of flags.  Each step is an element of a list, one turn *)
(* of the loop that fills a table, or the end of a list, an entry, or the  *)
(* string.                                                                 *)
(*                                                                         *)
(* A character is a value, and so is a numeral, whose digits are not told  *)
(* apart; "x" stands for every character without a meaning.  The loops     *)
(* count in a uint8_t.                                                     *)
(***************************************************************************)
EXTENDS Naturals, Sequences, FiniteSets

CONSTANTS
  Value,                \* Value[s]: the number the numeral s is written for
  FieldMin, FieldMax,   \* the limits given to cron_parse_list for each field
  FieldSize,            \* the lengths of cron_minutes_, ..., cron_wdays_
  Byte                  \* 2^8

Fields    == 1..5       \* minute, hour, day of month, month, day of week
Weekday   == 5
Numerals  == DOMAIN Value
Marks     == {"*", "-", "/", ",", " ", ";", "L", "Z", "x"}
End       == "end"      \* '\0'
NULL      == 0

ASSUME CronAssumption ==
  /\ Value \in [Numerals -> Nat] /\ Numerals \cap (Marks \cup {End}) = {}
  /\ {FieldMin, FieldMax, FieldSize} \subseteq [Fields -> Nat]
  /\ Byte \in Nat
  /\ \A f \in Fields : FieldMin[f] <= FieldMax[f] /\ FieldMax[f] < FieldSize[f]
                         /\ FieldSize[f] < Byte
  /\ FieldSize[Weekday] > 7

VARIABLES
  text,    \* the cron string
  ps,      \* the position in it, NULL once an element was not understood
  field,   \* the list being read
  where,   \* the code being run
  loop,    \* i, to and step of the loop of cron_parse_element
  tables   \* tables[f]: the indices of the table that hold true

cronVars == <<text, ps, field, where, loop, tables>>

-----------------------------------------------------------------------------
(* Reading.                                                                *)

CharAt(p) == IF p \in DOMAIN text THEN text[p] ELSE End
Eol(p)    == CharAt(p) \in {";", End}

SkipSpaces(p) == CHOOSE q \in p..(Len(text) + 1) :
                   CharAt(q) # " " /\ \A r \in p..(q - 1) : CharAt(r) = " "
SkipToEol(p) == CHOOSE q \in p..(Len(text) + 1) :
                  Eol(q) /\ \A r \in p..(q - 1) : ~Eol(r)

\* cron_parse_number: without a digit it gives 0 and stays where it is.
NumberAt(p)    == IF CharAt(p) \in Numerals THEN Value[CharAt(p)] % Byte ELSE 0
AfterNumber(p) == IF CharAt(p) \in Numerals THEN p + 1 ELSE p

\* The optional step of "*" and of a range that end before p.
StepAt(p)    == IF CharAt(p) = "/" THEN NumberAt(p + 1) ELSE 1
AfterStep(p) == IF CharAt(p) = "/" THEN AfterNumber(p + 1) ELSE p

-----------------------------------------------------------------------------
(* cron_check begins: an empty string is refused before the tables are     *)
(* cleared; Z and L are read and forgotten.                                *)

Cleared == [f \in Fields |-> {}]

StartCron(t) ==
  /\ text' = t
  /\ field' = 1
  /\ IF t = <<>>
     THEN where' = "done" /\ ps' = 1 /\ UNCHANGED <<tables, loop>>
     ELSE LET start == CHOOSE q \in 1..(Len(t) + 1) :
                         /\ q \in DOMAIN t => t[q] # " "
                         /\ \A r \in 1..(q - 1) : t[r] = " "
          IN  /\ ps' = IF start \in DOMAIN t /\ t[start] \in {"Z", "L"}
                       THEN start + 1 ELSE start
              /\ tables' = Cleared
              /\ where' = "list"
              /\ UNCHANGED loop

-----------------------------------------------------------------------------
(* cron_parse_list.                                                        *)

NextField ==
  IF field = Weekday THEN where' = "entry" /\ UNCHANGED field
                     ELSE where' = "list" /\ field' = field + 1

Put(S) == tables' = [tables EXCEPT ![field] = @ \cup S]

\* "if none defined, same as '*'"
ListDefault ==
  /\ where = "list"
  /\ Eol(SkipSpaces(ps))
  /\ ps' = SkipSpaces(ps)
  /\ Put(FieldMin[field]..FieldMax[field])
  /\ NextField
  /\ UNCHANGED <<text, loop>>

ListBegins ==
  /\ where = "list"
  /\ ~Eol(SkipSpaces(ps))
  /\ ps' = SkipSpaces(ps)
  /\ where' = "element"
  /\ UNCHANGED <<text, field, loop, tables>>

NextElement ==
  /\ where = "comma"
  /\ CharAt(ps) = ","
  /\ ps' = ps + 1
  /\ where' = "element"
  /\ UNCHANGED <<text, field, loop, tables>>

\* A character that does not belong here is jumped over.
ListEnds ==
  /\ where = "comma"
  /\ CharAt(ps) # ","
  /\ ps' = IF CharAt(ps) = " " \/ Eol(ps) THEN ps ELSE ps + 1
  /\ NextField
  /\ UNCHANGED <<text, loop, tables>>

-----------------------------------------------------------------------------
(* cron_parse_element.                                                     *)

AtElement(c) == where = "element" /\ CharAt(SkipSpaces(ps)) \in c

Loop(from, to, step) ==
  /\ loop' = [i |-> from, to |-> to, step |-> step]
  /\ where' = "loop"

Star ==
  /\ AtElement({"*"})
  /\ LET next == SkipSpaces(ps) + 1
     IN  /\ Loop(FieldMin[field], FieldMax[field], StepAt(next))
         /\ ps' = AfterStep(next)
  /\ UNCHANGED <<text, field, tables>>

\* Faulty variant: a number above the maximum is not cut.
Unclamped(n) == n
Clamp(n) == IF n > FieldMax[field] THEN FieldMax[field] ELSE n

Single ==
  /\ AtElement(Numerals)
  /\ LET here == SkipSpaces(ps)
     IN  /\ CharAt(here + 1) # "-"
         /\ Put({Clamp(NumberAt(here))})
         /\ ps' = here + 1
  /\ where' = "comma"
  /\ UNCHANGED <<text, field, loop>>

RangeElement ==
  /\ AtElement(Numerals)
  /\ LET here == SkipSpaces(ps)
         from == IF NumberAt(here) < FieldMin[field] THEN FieldMin[field]
                 ELSE Clamp(NumberAt(here))
         next == AfterNumber(here + 2)
     IN  /\ CharAt(here + 1) = "-"
         /\ Loop(from, Clamp(NumberAt(here + 2)), StepAt(next))
         /\ ps' = AfterStep(next)
  /\ UNCHANGED <<text, field, tables>>

\* The lists that are left return NULL, too, and so does cron_parse_entry.
BadElement ==
  /\ where = "element"
  /\ CharAt(SkipSpaces(ps)) \notin Numerals \cup {"*"}
  /\ ps' = NULL
  /\ where' = "finish"
  /\ UNCHANGED <<text, field, loop, tables>>

\* Faulty variant: the last value is left out.
InLoopShort == loop.i < loop.to
InLoop  == loop.i <= loop.to
Counted == (loop.i + loop.step) % Byte

Mark ==
  /\ where = "loop"
  /\ InLoop
  /\ Put({loop.i})
  /\ loop' = [loop EXCEPT !.i = Counted]
  /\ UNCHANGED <<text, ps, field, where>>

LoopEnds ==
  /\ where = "loop"
  /\ ~InLoop
  /\ where' = "comma"
  /\ UNCHANGED <<text, ps, field, loop, tables>>

-----------------------------------------------------------------------------
(* The end of cron_parse_entry and of cron_check.                          *)

\* Faulty variant: the ";" is not jumped over.
BeforeSemicolon(p) == SkipToEol(p)
AfterEntry(p) == LET eol == SkipToEol(p)
                 IN  IF CharAt(eol) = ";" THEN eol + 1 ELSE eol

EntryEnds ==
  /\ where = "entry"
  /\ LET next == SkipSpaces(AfterEntry(ps))
     IN  /\ ps' = next
         /\ IF CharAt(next) = End THEN where' = "finish" /\ UNCHANGED field
                                  ELSE where' = "list" /\ field' = 1
  /\ UNCHANGED <<text, loop, tables>>

Finish ==
  /\ where = "finish"
  /\ where' = "done"
  /\ tables' = IF 7 \in tables[Weekday]
               THEN [tables EXCEPT ![Weekday] = @ \cup {0}] ELSE tables
  /\ UNCHANGED <<text, ps, field, loop>>

CronNext ==
  \/ ListDefault \/ ListBegins \/ NextElement \/ ListEnds
  \/ Star \/ Single \/ RangeElement \/ BadElement \/ Mark \/ LoopEnds
  \/ EntryEnds \/ Finish

CronInit ==
  /\ text = <<>> /\ ps = 1 /\ field = 1 /\ where = "idle"
  /\ loop = [i |-> 0, to |-> 0, step |-> 0]
  /\ tables = Cleared

-----------------------------------------------------------------------------
(* What a cron string says, read as a whole: entries separated by ";",     *)
(* fields by one space, elements by ",".                                   *)

Cuts(s, sep) == {0, Len(s) + 1} \cup {n \in DOMAIN s : s[n] = sep}

\* The pieces of s with their number.
Pieces(s, sep) ==
  LET cuts == Cuts(s, sep)
      ends(a) == {b \in cuts : b > a /\ \A c \in cuts : c <= a \/ c >= b}
  IN  UNION {{[nth |-> Cardinality({c \in cuts : c <= a}),
               word |-> SubSeq(s, a + 1, b - 1)] : b \in ends(a)} : a \in cuts}

Body    == IF text # <<>> /\ text[1] \in {"L", "Z"} THEN Tail(text) ELSE text
Entries == {p.word : p \in Pieces(Body, ";")}
Lists(entry, f) == {p.word : p \in {q \in Pieces(entry, " ") : q.nth = f}}
Elements(entry, f) ==
  UNION {{p.word : p \in Pieces(list, ",")} : list \in Lists(entry, f)}

IsNumber(e, n, S) == e[n] \in Numerals /\ Value[e[n]] \in S

\* A step that does not make the counter wrap.
Steps(f) == 1..(Byte - 1 - FieldMax[f])

RegularElement(e, f) ==
  LET valid == FieldMin[f]..FieldMax[f]
  IN  \/ e = <<"*">>
      \/ Len(e) = 3 /\ e[1] = "*" /\ e[2] = "/" /\ IsNumber(e, 3, Steps(f))
      \/ /\ Len(e) \in {1, 3, 5}
         /\ IsNumber(e, 1, valid)
         /\ Len(e) >= 3 => e[2] = "-" /\ IsNumber(e, 3, valid)
         /\ Len(e) = 5 => e[4] = "/" /\ IsNumber(e, 5, Steps(f))

MeaningOf(e, f) ==
  LET n(k) == Value[e[k]]
  IN  CASE e[1] = "*" /\ Len(e) = 1 -> FieldMin[f]..FieldMax[f]
        [] e[1] = "*" /\ Len(e) = 3 -> {m \in FieldMin[f]..FieldMax[f] :
                                          (m - FieldMin[f]) % n(3) = 0}
        [] e[1] # "*" /\ Len(e) = 1 -> {n(1)}
        [] e[1] # "*" /\ Len(e) = 3 -> n(1)..n(3)
        [] e[1] # "*" /\ Len(e) = 5 -> {m \in n(1)..n(3) :
                                          (m - n(1)) % n(5) = 0}

Meaning(entry, f) ==
  IF Lists(entry, f) = {} THEN FieldMin[f]..FieldMax[f]
  ELSE UNION {MeaningOf(e, f) : e \in Elements(entry, f)}

RegularFields(entry, fields) ==
  /\ entry # <<>>
  /\ Cardinality(Pieces(entry, " ")) <= 5
  /\ \A f \in fields : \A e \in Elements(entry, f) : RegularElement(e, f)

-----------------------------------------------------------------------------
(* Properties.                                                             *)

\* The parser stays within its string and, whatever numbers are in it, within
\* its tables.
CronTypeOK ==
  /\ text \in Seq(Numerals \cup Marks)
  /\ ps \in 0..(Len(text) + 1)
  /\ field \in Fields
  /\ where \in {"idle", "list", "element", "comma", "loop", "entry", "finish",
                "done"}
  /\ where # "loop" \/ loop.to <= FieldMax[field]
  /\ \A f \in Fields : tables[f] \subseteq 0..(FieldSize[f] - 1)

\* "Regular UNIX syntax is accepted, i.e. a comma separated list of ranges.
\* Ranges accept step definition. '*' is considered a full range"
\* (cron-parse.c:63): for strings of this form, with numbers within their
\* limits and steps that do not wrap, the tables are the union over the
\* entries of what each field says.
MeansWhatItSays ==
  (/\ where = "done" /\ text # <<>>
   /\ \A entry \in Entries : RegularFields(entry, Fields))
    => \A f \in Fields :
         tables[f] = UNION {Meaning(entry, f) : entry \in Entries}

\* The only way not to end is a step that is a multiple of 256.
Hangs == where = "loop" /\ InLoop /\ loop.step = 0

\* "day of week (0-7, 0 or 7 is Sunday)" (cron-parse.c:61).
SundayIsSeven ==
  where = "done" =>
    \A entry \in Entries :
      (/\ RegularFields(entry, 1..4)
       /\ Lists(entry, Weekday) = {<<"7">>}
       /\ Value["7"] = 7)
        => 0 \in tables[Weekday]
=============================================================================
