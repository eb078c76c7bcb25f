----------------------------- MODULE ArrayProofs ------------------------------
(***************************************************************************)
(* Theorems about the dynamic array, for every element size, word size,    *)
(* initial size and limit, and whatever sequence of calls is made.         *)
(***************************************************************************)
EXTENDS Array, SequenceTheorems, FiniteSetTheorems, WellFoundedInduction, TLAPS

-----------------------------------------------------------------------------
(* The inductive invariant.                                                *)

Values == Elements \cup {Zero}
Bytes  == Values \cup {Junk}
Room(a) == a.cap \div EltSize

Arrays == [data : {"live"}, slots : UNION {[0..n - 1 -> Bytes] : n \in Nat},
           size : 0..MaxLen, cap : Nat, settled : BOOLEAN, owner : BOOLEAN]

\* A live array.  The buffer has as many slots as the capacity makes room for, the elements
\* are in the first of them, and a buffer that is borrowed is settled: that is
\* what keeps array_adjust and array_slimcheck from it.
Sound(a) ==
  /\ a \in Arrays
  /\ DOMAIN a.slots = 0..Room(a) - 1
  /\ \A i \in DOMAIN a.slots : a.slots[i] = Junk <=> i >= a.size
  /\ a.size * EltSize <= a.cap
  /\ ~a.owner => a.settled

\* What array_slimcheck leaves of an empty array: all but the buffer.
Freed(a) == \E b : Sound(b) /\ a = [b EXCEPT !.data = "freed"]

IInv ==
  /\ self = Null \/ Sound(self) \/ Freed(self)
  /\ other = Null \/ Sound(other)
  /\ DOMAIN call = DOMAIN NoCall
  /\ ~call.harm

-----------------------------------------------------------------------------
(* Bytes and slots.                                                        *)

LEMMA Constants ==
  /\ EltSize \in Nat \ {0} /\ Word \in Nat \ {0} /\ InitialSize \in Nat \ {0}
  /\ SizeTypeMax \in Nat \ {0} /\ MaxLen \in Nat \ {0} /\ MaxSrc \in Nat \ {0}
  /\ Junk \notin Values
BY ArrayAssumption DEF Values

LEMMA SizeAlignOK ==
  ASSUME NEW n \in Nat PROVE SizeAlign(n) \in Nat /\ SizeAlign(n) >= n
BY Constants DEF SizeAlign

\* n elements fit in c bytes when there are n slots.
LEMMA Division ==
  ASSUME NEW n \in Nat, NEW c \in Nat, NEW e \in Nat \ {0}
  PROVE  n * e \in Nat /\ c \div e \in Nat /\ (n * e <= c <=> n <= c \div e)
OBVIOUS

LEMMA MoreBytes ==
  ASSUME NEW m \in Nat, NEW n \in Nat, m <= n, NEW e \in Nat
  PROVE  m * e <= n * e /\ m * e \in Nat /\ n * e \in Nat
OBVIOUS

LEMMA ExactBytes ==
  ASSUME NEW n \in Nat, NEW e \in Nat \ {0} PROVE (n * e) \div e = n
OBVIOUS

-----------------------------------------------------------------------------
(* Buffers.                                                                *)

LEMMA SoundShape ==
  ASSUME NEW a, Sound(a)
  PROVE  /\ Room(a) \in Nat /\ a.size \in Nat /\ a.size <= Room(a)
         /\ a.size <= MaxLen /\ a.cap \in Nat /\ a.size * EltSize <= a.cap
         /\ DOMAIN a.slots = 0..Room(a) - 1 /\ a.slots \in [0..Room(a) - 1 -> Bytes]
         /\ \A i \in 0..a.size - 1 : i \in DOMAIN a.slots /\ a.slots[i] \in Values
         /\ a.settled \in BOOLEAN /\ a.owner \in BOOLEAN /\ a # Null
         /\ a.data \in {"live"}
<1>1. /\ a.size \in Nat /\ a.size <= MaxLen /\ a.cap \in Nat
      /\ a.settled \in BOOLEAN /\ a.owner \in BOOLEAN
      /\ a.data \in {"live"}
      /\ a.size * EltSize <= a.cap
      /\ DOMAIN a.slots = 0..Room(a) - 1
      /\ \A i \in DOMAIN a.slots : a.slots[i] = Junk <=> i >= a.size
  BY Constants DEF Sound, Arrays
<1>2. Room(a) \in Nat /\ a.size <= Room(a)
  BY <1>1, Constants, Division DEF Room
<1>3. a.slots \in [0..Room(a) - 1 -> Bytes]
  <2>1. PICK n \in Nat : a.slots \in [0..n - 1 -> Bytes]
    BY DEF Sound, Arrays
  <2>2. 0..n - 1 = 0..Room(a) - 1
    BY <1>1, <2>1
  <2>3. QED BY <2>1, <2>2
<1>4. ASSUME NEW i \in 0..a.size - 1
      PROVE  i \in DOMAIN a.slots /\ a.slots[i] \in Values
  <2>1. i \in 0..Room(a) - 1 /\ ~(i >= a.size)
    BY <1>1, <1>2
  <2>2. QED BY <1>1, <1>3, <2>1 DEF Bytes
<1>5. a # Null
  <2>1. Null.data = "null"
    BY DEF Null
  <2>2. QED BY <1>1, <2>1
<1>6. QED BY <1>1, <1>2, <1>3, <1>4, <1>5

\* What makes an array sound, field by field.
LEMMA MakeSound ==
  ASSUME NEW d \in {"live"}, NEW n \in 0..MaxLen, NEW cap \in Nat,
         NEW settled \in BOOLEAN, NEW owner \in BOOLEAN,
         NEW f \in [0..(cap \div EltSize) - 1 -> Bytes],
         \A i \in DOMAIN f : f[i] = Junk <=> i >= n,
         n * EltSize <= cap, ~owner => settled,
         NEW a, a = [data |-> d, slots |-> f, size |-> n, cap |-> cap,
                     settled |-> settled, owner |-> owner]
  PROVE  Sound(a)
<1>1. cap \div EltSize \in Nat
  BY Constants, Division
<1>2. a \in Arrays
  BY <1>1 DEF Arrays
<1>3. QED BY <1>2 DEF Sound, Room

LEMMA SoundLive == ASSUME NEW a, Sound(a) PROVE Live(a)
BY DEF Sound, Arrays, Live

LEMMA FreedShape ==
  ASSUME NEW a, Freed(a)
  PROVE  /\ a.data = "freed" /\ ~Live(a)
         /\ DOMAIN a = {"data", "slots", "size", "cap", "settled", "owner"}
         /\ a.size \in 0..MaxLen /\ a.cap \in Nat /\ a.size * EltSize <= a.cap
         /\ DOMAIN a.slots = 0..Room(a) - 1
         /\ \A i \in DOMAIN a.slots : a.slots[i] = Junk <=> i >= a.size
<1>1. PICK b : Sound(b) /\ a = [b EXCEPT !.data = "freed"]
  BY DEF Freed
<1>2. DOMAIN b = {"data", "slots", "size", "cap", "settled", "owner"}
  BY <1>1 DEF Sound, Arrays
<1>3. /\ a.data = "freed" /\ DOMAIN a = DOMAIN b
      /\ a.size = b.size /\ a.cap = b.cap /\ a.slots = b.slots
  BY <1>1, <1>2
<1>4. ~Live(a)
  BY <1>3 DEF Live
<1>5. Room(a) = Room(b)
  BY <1>3 DEF Room
<1>6. /\ b.size \in 0..MaxLen /\ b.cap \in Nat /\ b.size * EltSize <= b.cap
      /\ DOMAIN b.slots = 0..Room(b) - 1
      /\ \A i \in DOMAIN b.slots : b.slots[i] = Junk <=> i >= b.size
  BY <1>1 DEF Sound, Arrays
<1>7. QED BY <1>2, <1>3, <1>4, <1>5, <1>6

\* f has the slots of a, and values in the first n of them.
Holds(f, a, n) == DOMAIN f = 0..Room(a) - 1 /\ \A i \in 0..n - 1 : f[i] \in Values

LEMMA ResizedOK ==
  ASSUME NEW a, Sound(a), NEW n \in 0..MaxLen, n * EltSize <= a.cap,
         NEW f, Holds(f, a, n), NEW b, b = Resized(a, f, n)
  PROVE  /\ Sound(b) /\ b.size = n /\ b.cap = a.cap /\ b.settled = a.settled
         /\ b.owner = a.owner /\ b.data = a.data
<1> DEFINE g == [i \in 0..Room(a) - 1 |-> IF i < n THEN f[i] ELSE Junk]
<1>1. b = [a EXCEPT !.slots = g, !.size = n]
  BY DEF Resized, Holds
<1>2. \A i \in 0..Room(a) - 1 : i < n => f[i] \in Values
  BY DEF Holds
<1>3. g \in [0..Room(a) - 1 -> Bytes]
  BY <1>2 DEF Bytes
<1>4. \A i \in DOMAIN g : g[i] = Junk <=> i >= n
  BY <1>2, Constants, SoundShape
<1> HIDE DEF g
<1>5. b = [data |-> a.data, slots |-> g, size |-> n, cap |-> a.cap,
           settled |-> a.settled, owner |-> a.owner]
  BY <1>1 DEF Sound, Arrays
<1>6. Sound(b)
  <2>1. /\ a.data \in {"live"} /\ a.cap \in Nat
        /\ a.settled \in BOOLEAN /\ a.owner \in BOOLEAN
    BY SoundShape
  <2>2. g \in [0..(a.cap \div EltSize) - 1 -> Bytes]
    BY <1>3 DEF Room
  <2>3. ~a.owner => a.settled
    BY DEF Sound
  <2>4. PICK d \in {"live"}, cap \in Nat, settled \in BOOLEAN, owner \in BOOLEAN :
          d = a.data /\ cap = a.cap /\ settled = a.settled /\ owner = a.owner
    BY <2>1
  <2>5. /\ b = [data |-> d, slots |-> g, size |-> n, cap |-> cap,
                settled |-> settled, owner |-> owner]
        /\ g \in [0..(cap \div EltSize) - 1 -> Bytes]
        /\ n * EltSize <= cap
        /\ ~owner => settled
    BY <1>5, <2>2, <2>3, <2>4
  <2>6. QED BY <1>4, <2>5, MakeSound
<1>7. QED BY <1>5, <1>6

\* Slots, with room for what is there.
LEMMA SlotsOK ==
  ASSUME NEW r \in Nat, NEW f \in [0..r - 1 -> Bytes], NEW cap \in Nat,
         NEW n \in Nat, n <= r, \A i \in DOMAIN f : f[i] = Junk <=> i >= n,
         NEW g, g = Slots(f, cap)
  PROVE  /\ g \in [0..(cap \div EltSize) - 1 -> Bytes]
         /\ \A i \in DOMAIN g : g[i] = Junk <=> i >= n
<1>1. g = [i \in 0..(cap \div EltSize) - 1 |-> IF i \in DOMAIN f THEN f[i] ELSE Junk]
  BY DEF Slots
<1>2. cap \div EltSize \in Nat
  BY Constants, Division
<1>3. QED BY <1>1, <1>2 DEF Bytes

LEMMA ReallocatedOK ==
  ASSUME NEW a, Sound(a), NEW cap \in Nat, a.size * EltSize <= cap,
         NEW b, b = Reallocated(a, cap)
  PROVE  /\ Sound(b) /\ b.size = a.size /\ b.cap = cap /\ b.settled = a.settled
         /\ b.owner = a.owner /\ b.data = a.data
<1> DEFINE g == Slots(a.slots, cap)
<1>1. /\ g \in [0..(cap \div EltSize) - 1 -> Bytes]
      /\ \A i \in DOMAIN g : g[i] = Junk <=> i >= a.size
  <2>1. /\ Room(a) \in Nat /\ a.slots \in [0..Room(a) - 1 -> Bytes]
        /\ a.size \in Nat /\ a.size <= Room(a)
    BY SoundShape
  <2>2. \A i \in DOMAIN a.slots : a.slots[i] = Junk <=> i >= a.size
    BY DEF Sound
  <2>3. QED BY <2>1, <2>2, SlotsOK
<1>2. b = [a EXCEPT !.slots = g, !.cap = cap]
  BY DEF Reallocated
<1> HIDE DEF g
<1>3. b = [data |-> a.data, slots |-> g, size |-> a.size, cap |-> cap,
           settled |-> a.settled, owner |-> a.owner]
  BY <1>2 DEF Sound, Arrays
<1>4. a.size \in 0..MaxLen
  BY DEF Sound, Arrays
<1>5. Sound(b)
  <2>1. /\ a.data \in {"live"} /\ a.settled \in BOOLEAN /\ a.owner \in BOOLEAN
    BY SoundShape
  <2>2. ~a.owner => a.settled
    BY DEF Sound
  <2>3. a.size * EltSize <= cap /\ cap \in Nat
    OBVIOUS
  <2>4. QED BY ONLY ZenonT(40), <1>1, <1>3, <1>4, <2>1, <2>2, <2>3, MakeSound
<1>6. QED BY <1>3, <1>5

LEMMA BufferOK ==
  ASSUME NEW s, s \in Seq(Values), Len(s) <= MaxLen, NEW cap, cap \in Nat,
         Len(s) * EltSize <= cap, NEW settled, settled \in BOOLEAN,
         NEW owner, owner \in BOOLEAN, ~owner => settled,
         NEW b, b = Buffer(s, cap, settled, owner)
  PROVE  /\ Sound(b) /\ b.size = Len(s) /\ b.cap = cap /\ b.settled = settled
         /\ b.owner = owner /\ Live(b)
<1> DEFINE f == FromSeq(s)
           g == Slots(f, cap)
<1>1. Len(s) \in Nat /\ Len(s) \in 0..MaxLen /\ DOMAIN s = 1..Len(s)
      /\ \A i \in 1..Len(s) : s[i] \in Values
  BY LenProperties, ElementOfSeq, Constants
<1>2. /\ f \in [0..Len(s) - 1 -> Bytes]
      /\ \A i \in DOMAIN f : f[i] = Junk <=> i >= Len(s)
  <2>1. f = [i \in 0..Len(s) - 1 |-> s[i + 1]]
    BY DEF FromSeq
  <2>2. ASSUME NEW i \in 0..Len(s) - 1
        PROVE  s[i + 1] \in Values /\ ~(i >= Len(s))
    <3>1. i + 1 \in 1..Len(s)
      BY <1>1
    <3>2. QED BY <1>1, <3>1
  <2>3. QED BY <2>1, <2>2, Constants DEF Bytes
<1> HIDE DEF f
<1>3. /\ g \in [0..(cap \div EltSize) - 1 -> Bytes]
      /\ \A i \in DOMAIN g : g[i] = Junk <=> i >= Len(s)
  <2>1. Len(s) <= Len(s)
    BY <1>1
  <2>2. g = Slots(f, cap)
    OBVIOUS
  <2> HIDE DEF g
  <2>3. PICK n \in Nat : n = Len(s)
    BY <1>1
  <2>4. f \in [0..n - 1 -> Bytes]
    BY <1>2, <2>3
  <2>5. \A i \in DOMAIN f : f[i] = Junk <=> i >= n
    BY <1>2, <2>3
  <2>6. n <= n
    OBVIOUS
  <2>7. /\ g \in [0..(cap \div EltSize) - 1 -> Bytes]
        /\ \A i \in DOMAIN g : g[i] = Junk <=> i >= n
    BY ONLY <2>2, <2>4, <2>5, <2>6, SlotsOK, n \in Nat, cap \in Nat
  <2>8. QED BY <2>3, <2>7
<1>4. b = [data |-> "live", slots |-> g, size |-> Len(s), cap |-> cap,
           settled |-> settled, owner |-> owner]
  BY DEF Buffer, f
<1> HIDE DEF g
<1>5. Sound(b)
  BY <1>1, <1>3, <1>4, MakeSound
<1>6. QED BY <1>4, <1>5 DEF Live

LEMMA CreateOK ==
  ASSUME NEW n \in Nat, NEW b, b = Create(n)
  PROVE  Sound(b) /\ b.size = 0 /\ b.settled = FALSE /\ b.owner = TRUE /\ Live(b)
<1>1. PICK m \in Nat : m = EltSize * (IF n = 0 THEN InitialSize ELSE n)
  BY Constants
<1>2. PICK c \in Nat : c = SizeAlign(m)
  BY SizeAlignOK
<1>3. PICK s \in Seq(Values) : s = <<>>
  <2>1. <<>> \in Seq(Values)
    OBVIOUS
  <2>2. QED BY <2>1
<1>4. Len(s) = 0 /\ Len(s) <= MaxLen /\ Len(s) * EltSize <= c
  BY <1>3, Constants
<1>5. b = Buffer(s, c, FALSE, TRUE)
  BY <1>1, <1>2, <1>3 DEF Create
<1>6. FALSE \in BOOLEAN /\ TRUE \in BOOLEAN /\ (~TRUE => FALSE)
  OBVIOUS
<1>7. /\ Sound(b) /\ b.size = Len(s) /\ b.cap = c /\ b.settled = FALSE
      /\ b.owner = TRUE /\ Live(b)
  BY <1>4, <1>5, <1>6, BufferOK
<1>8. QED BY <1>4, <1>7

-----------------------------------------------------------------------------
(* Elements that come and go.                                              *)

\* b has the buffer of a, or one like it, with n elements in it.
Keeps(b, a, n) ==
  /\ Sound(b) /\ b.size = n
  /\ b.settled = a.settled /\ b.owner = a.owner /\ b.data = a.data

LEMMA NewCapOK ==
  ASSUME NEW a, Sound(a), NEW n \in Nat
  PROVE  NewCap(a, n) \in Nat /\ NewCap(a, n) >= Needed(a, n)
<1>1. a.size \in Nat /\ a.cap \in Nat
  BY SoundShape
<1>2. Needed(a, n) \in Nat
  BY <1>1, Constants DEF Needed
<1>3. PICK big : big = Max({2 * a.cap, InitialSize})
  OBVIOUS
<1>4. big \in Nat
  BY <1>1, <1>3, Constants DEF Max
<1>5. NewCap(a, n) = IF Needed(a, n) > big THEN SizeAlign(Needed(a, n)) ELSE big
  BY <1>3 DEF NewCap
<1>6. SizeAlign(Needed(a, n)) \in Nat /\ SizeAlign(Needed(a, n)) >= Needed(a, n)
  BY <1>2, SizeAlignOK
<1>7. QED BY <1>2, <1>4, <1>5, <1>6

LEMMA GrownOK ==
  ASSUME NEW a, Sound(a), NEW n \in Nat, NEW b, b = Reallocated(a, NewCap(a, n))
  PROVE  Keeps(b, a, a.size) /\ (a.size + n) * EltSize <= b.cap
<1>1. a.size \in Nat /\ a.size <= a.size + n /\ a.size + n \in Nat
  BY SoundShape
<1>2. a.size * EltSize <= (a.size + n) * EltSize
      /\ a.size * EltSize \in Nat /\ (a.size + n) * EltSize \in Nat
  BY <1>1, Constants, MoreBytes
<1>3. PICK cap : cap = NewCap(a, n)
  OBVIOUS
<1>4. cap \in Nat /\ cap >= (a.size + n) * EltSize
  BY <1>3, NewCapOK DEF Needed
<1>5. a.size * EltSize <= cap /\ b = Reallocated(a, cap)
  BY <1>2, <1>3, <1>4
<1>6. QED BY <1>4, <1>5, ReallocatedOK DEF Keeps

\* array_adjust makes room, or leaves the array as it is; a settled one it leaves.
LEMMA AdjustOK ==
  ASSUME NEW a, Sound(a), NEW n \in Nat, NEW r \in Adjust(a, n)
  PROVE  /\ r.ok \in BOOLEAN /\ Keeps(r.a, a, a.size)
         /\ r.ok => (a.size + n) * EltSize <= r.a.cap
         /\ a.settled => r.a = a
<1>1. a.size \in Nat /\ a.cap \in Nat /\ Keeps(a, a, a.size)
  BY SoundShape DEF Keeps
<1>2. CASE Fits(a, n)
  <2>1. (a.size + n) * EltSize < a.cap /\ (a.size + n) * EltSize \in Nat
    BY <1>1, <1>2, Constants DEF Fits, Needed
  <2>2. r = [ok |-> TRUE, a |-> a]
    BY <1>2 DEF Adjust
  <2>3. QED BY <1>1, <2>1, <2>2
<1>3. CASE ~Fits(a, n)
  <2> DEFINE b == Reallocated(a, NewCap(a, n))
  <2>1. Keeps(b, a, a.size) /\ (a.size + n) * EltSize <= b.cap
    BY GrownOK
  <2> HIDE DEF b
  <2>2. \/ r = [ok |-> FALSE, a |-> a]
        \/ r = [ok |-> TRUE, a |-> b] /\ ~a.settled
    BY <1>3 DEF Adjust, MayGrow, b
  <2>3. CASE r = [ok |-> FALSE, a |-> a]
    BY <1>1, <2>3
  <2>4. CASE r = [ok |-> TRUE, a |-> b] /\ ~a.settled
    <3>1. r.ok = TRUE /\ r.a = b
      BY <2>4
    <3>2. QED BY <2>1, <2>4, <3>1
  <2>5. QED BY <2>2, <2>3, <2>4
<1>4. QED BY <1>2, <1>3

LEMMA ContentOK ==
  ASSUME NEW a, Sound(a)
  PROVE  /\ Content(a) \in Seq(Values) /\ Len(Content(a)) = a.size
<1>1. a.size \in Nat /\ \A i \in 0..a.size - 1 : a.slots[i] \in Values
  BY SoundShape
<1>2. PICK n \in Nat : n = a.size
  BY <1>1
<1>3. \A i \in 1..n : i - 1 \in 0..n - 1
  OBVIOUS
<1>4. Content(a) = [i \in 1..n |-> a.slots[i - 1]]
  BY <1>2 DEF Content
<1>5. Content(a) \in [1..n -> Values]
  BY <1>1, <1>2, <1>3, <1>4
<1>6. QED BY <1>2, <1>5

\* There are slots for n elements when the capacity is enough for them.
LEMMA SlotsEnough ==
  ASSUME NEW a, Sound(a), NEW n \in Nat, n * EltSize <= a.cap
  PROVE  n <= Room(a) /\ Room(a) \in Nat
<1>1. PICK cap \in Nat : cap = a.cap
  BY SoundShape
<1>2. n <= cap \div EltSize /\ cap \div EltSize \in Nat
  BY <1>1, Constants, Division
<1>3. QED BY <1>1, <1>2 DEF Room

\* f has the slots of a, and room for s at p between the elements of a.
HoldsAround(f, a, p, s) ==
  /\ DOMAIN f = 0..Room(a) - 1
  /\ \A i \in 0..(a.size + Len(s) - 1) : i \notin p..(p + Len(s) - 1) => f[i] \in Values

LEMMA PutOK ==
  ASSUME NEW a, Sound(a), NEW s, s \in Seq(Values), a.size + Len(s) <= MaxLen,
         (a.size + Len(s)) * EltSize <= a.cap, NEW p \in 0..a.size,
         NEW f, HoldsAround(f, a, p, s),
         NEW b, b = Resized(a, Put(f, p, s), a.size + Len(s))
  PROVE  Keeps(b, a, a.size + Len(s)) /\ b.cap = a.cap
<1>1. /\ a.size \in Nat /\ Len(s) \in Nat /\ p \in Nat
      /\ \A i \in 1..Len(s) : s[i] \in Values
  BY SoundShape, LenProperties, ElementOfSeq
<1>2. PICK n \in 0..MaxLen : n = a.size + Len(s)
  BY <1>1, Constants
<1>3. n \in Nat /\ n * EltSize <= a.cap
  BY <1>2, Constants
<1>4. n <= Room(a) /\ Room(a) \in Nat
  BY <1>3, SlotsEnough
<1>5. PICK g : g = [i \in 0..Room(a) - 1 |->
                      IF i \in p..(p + Len(s) - 1) THEN s[i - p + 1] ELSE f[i]]
  OBVIOUS
<1>6. ASSUME NEW i \in 0..n - 1 PROVE g[i] \in Values
  <2>1. g[i] = IF i \in p..(p + Len(s) - 1) THEN s[i - p + 1] ELSE f[i]
    BY <1>3, <1>4, <1>5
  <2>2. i \in p..(p + Len(s) - 1) => i - p + 1 \in 1..Len(s)
    BY <1>1, <1>3
  <2>3. i \notin p..(p + Len(s) - 1) => f[i] \in Values
    <3>1. i \in 0..(a.size + Len(s) - 1)
      BY <1>1, <1>2
    <3>2. QED BY <3>1 DEF HoldsAround
  <2>4. QED BY <1>1, <2>1, <2>2, <2>3
<1>7. Holds(g, a, n)
  BY <1>5, <1>6 DEF Holds
<1>8. b = Resized(a, g, n)
  BY <1>2, <1>5 DEF Put, HoldsAround
<1>9. /\ Sound(b) /\ b.size = n /\ b.cap = a.cap /\ b.settled = a.settled
      /\ b.owner = a.owner /\ b.data = a.data
  BY <1>3, <1>7, <1>8, ResizedOK
<1>10. QED BY <1>2, <1>9 DEF Keeps

LEMMA AppendedOK ==
  ASSUME NEW a, Sound(a), NEW s, s \in Seq(Values), a.size + Len(s) <= MaxLen,
         (a.size + Len(s)) * EltSize <= a.cap, NEW b, b = Appended(a, s)
  PROVE  Keeps(b, a, a.size + Len(s)) /\ b.cap = a.cap
<1>1. /\ a.size \in 0..a.size /\ DOMAIN a.slots = 0..Room(a) - 1
      /\ a.size \in Nat /\ Len(s) \in Nat
      /\ \A i \in 0..a.size - 1 : a.slots[i] \in Values
  BY SoundShape, LenProperties
<1>2. \A i \in 0..(a.size + Len(s) - 1) :
         i \notin a.size..(a.size + Len(s) - 1) => a.slots[i] \in Values
  BY <1>1
<1>3. b = Resized(a, Put(a.slots, a.size, s), a.size + Len(s))
  BY DEF Appended
<1>4. HoldsAround(a.slots, a, a.size, s)
  BY <1>1, <1>2 DEF HoldsAround
<1>5. QED BY <1>1, <1>3, <1>4, PutOK

LEMMA InjectedOK ==
  ASSUME NEW a, Sound(a), NEW s, s \in Seq(Values), a.size + Len(s) <= MaxLen,
         (a.size + Len(s)) * EltSize <= a.cap, NEW p \in 0..a.size,
         NEW b, b = Injected(a, p, s)
  PROVE  Keeps(b, a, a.size + Len(s)) /\ b.cap = a.cap
<1> DEFINE f == Move(a.slots, p + Len(s), p, a.size - p)
<1>1. /\ DOMAIN a.slots = 0..Room(a) - 1 /\ a.size \in Nat /\ Len(s) \in Nat
      /\ \A i \in 0..a.size - 1 : i \in DOMAIN a.slots /\ a.slots[i] \in Values
      /\ p \in Nat /\ p <= a.size
  BY SoundShape, LenProperties
<1>2. a.size + Len(s) <= Room(a) /\ Room(a) \in Nat
  BY <1>1, SlotsEnough
<1>3. f = [i \in DOMAIN a.slots |->
             IF i \notin p + Len(s)..(p + Len(s) + (a.size - p) - 1) THEN a.slots[i]
             ELSE IF p + i - (p + Len(s)) \in DOMAIN a.slots
                  THEN a.slots[p + i - (p + Len(s))] ELSE Junk]
  BY DEF Move
<1> HIDE DEF f
<1>4. ASSUME NEW i \in 0..(a.size + Len(s) - 1), i \notin p..(p + Len(s) - 1)
      PROVE  f[i] \in Values
  <2>1. i \in DOMAIN a.slots
    BY <1>1, <1>2
  <2>2. CASE i < p
    <3>1. i \in 0..a.size - 1 /\ i \notin p + Len(s)..(p + Len(s) + (a.size - p) - 1)
      BY <1>1, <2>2
    <3>2. QED BY <1>1, <1>3, <2>1, <3>1
  <2>3. CASE i >= p
    <3>1. PICK j : j = p + i - (p + Len(s))
      OBVIOUS
    <3>2. i \in p + Len(s)..(p + Len(s) + (a.size - p) - 1) /\ j \in 0..a.size - 1
      BY <1>1, <1>4, <2>3, <3>1
    <3>3. QED BY <1>1, <1>3, <2>1, <3>1, <3>2
  <2>4. QED BY <1>1, <2>2, <2>3
<1>5. DOMAIN f = 0..Room(a) - 1
  BY <1>1, <1>3
<1>6. b = Resized(a, Put(f, p, s), a.size + Len(s))
  BY DEF Injected, f
<1>7. HoldsAround(f, a, p, s)
  BY <1>4, <1>5 DEF HoldsAround
<1>8. QED BY <1>6, <1>7, PutOK

\* The elements from q on are moved to p.
LEMMA CutOK ==
  ASSUME NEW a, Sound(a), NEW p \in 0..a.size, NEW q \in p..a.size,
         NEW b, b = Resized(a, Move(a.slots, p, q, a.size - q), a.size - (q - p))
  PROVE  Keeps(b, a, a.size - (q - p)) /\ b.cap = a.cap
<1>1. /\ DOMAIN a.slots = 0..Room(a) - 1 /\ a.size \in Nat /\ Room(a) \in Nat
      /\ \A i \in 0..a.size - 1 : i \in DOMAIN a.slots /\ a.slots[i] \in Values
      /\ p \in Nat /\ p <= q /\ q \in Nat /\ q <= a.size /\ a.size <= MaxLen
      /\ a.cap \in Nat /\ a.size * EltSize <= a.cap
  BY SoundShape
<1>2. PICK n \in Nat : n = a.size - (q - p)
  BY <1>1
<1>3. n <= a.size /\ n \in 0..MaxLen
  BY <1>1, <1>2, Constants
<1>4. n * EltSize <= a.cap
  <2>1. n * EltSize <= a.size * EltSize /\ n * EltSize \in Nat /\ a.size * EltSize \in Nat
    BY <1>1, <1>3, Constants, MoreBytes
  <2>2. QED BY <1>1, <2>1
<1>5. PICK f : f = Move(a.slots, p, q, a.size - q)
  OBVIOUS
<1>6. f = [i \in DOMAIN a.slots |->
             IF i \notin p..(p + (a.size - q) - 1) THEN a.slots[i]
             ELSE IF q + i - p \in DOMAIN a.slots THEN a.slots[q + i - p] ELSE Junk]
  BY <1>5 DEF Move
<1>7. ASSUME NEW i \in 0..n - 1 PROVE f[i] \in Values
  <2>1. i \in DOMAIN a.slots /\ a.slots[i] \in Values
    BY <1>1, <1>3
  <2>2. PICK j : j = q + i - p
    OBVIOUS
  <2>3. i \in p..(p + (a.size - q) - 1) => j \in 0..a.size - 1
    BY <1>1, <2>2
  <2>4. QED BY <1>1, <1>6, <2>1, <2>2, <2>3
<1>8. Holds(f, a, n)
  BY <1>1, <1>6, <1>7 DEF Holds
<1>9. b = Resized(a, f, n)
  BY <1>2, <1>5
<1>10. /\ Sound(b) /\ b.size = n /\ b.cap = a.cap /\ b.settled = a.settled
       /\ b.owner = a.owner /\ b.data = a.data
  BY <1>3, <1>4, <1>8, <1>9, ResizedOK
<1>11. QED BY <1>2, <1>10 DEF Keeps

\* The first n elements: array_pop, array_clear.
LEMMA KeptOK ==
  ASSUME NEW a, Sound(a), NEW n \in 0..a.size, NEW b, b = Resized(a, a.slots, n)
  PROVE  Keeps(b, a, n) /\ b.cap = a.cap
<1>1. /\ DOMAIN a.slots = 0..Room(a) - 1 /\ a.size \in Nat /\ a.size <= MaxLen
      /\ \A i \in 0..a.size - 1 : a.slots[i] \in Values
      /\ a.cap \in Nat /\ a.size * EltSize <= a.cap
  BY SoundShape
<1>2. n \in Nat /\ n <= a.size /\ n \in 0..MaxLen
  BY <1>1, Constants
<1>3. n * EltSize <= a.cap
  <2>1. n * EltSize <= a.size * EltSize /\ n * EltSize \in Nat /\ a.size * EltSize \in Nat
    BY <1>1, <1>2, Constants, MoreBytes
  <2>2. QED BY <1>1, <2>1
<1>4. Holds(a.slots, a, n)
  BY <1>1, <1>2 DEF Holds
<1>5. QED BY <1>2, <1>3, <1>4, ResizedOK DEF Keeps

\* Values written over values: array_tipex, array_swap_elems.
LEMMA WrittenOK ==
  ASSUME NEW a, Sound(a), NEW f, DOMAIN f = DOMAIN a.slots,
         f = [i \in DOMAIN a.slots |-> f[i]],
         \A i \in 0..a.size - 1 : f[i] \in Values,
         \A i \in DOMAIN f : i >= a.size => f[i] = a.slots[i],
         NEW b, b = [a EXCEPT !.slots = f]
  PROVE  Keeps(b, a, a.size) /\ b.cap = a.cap
<1>1. /\ DOMAIN a.slots = 0..Room(a) - 1 /\ a.size \in Nat /\ Room(a) \in Nat
      /\ \A i \in DOMAIN a.slots : a.slots[i] = Junk <=> i >= a.size
  BY SoundShape DEF Sound
<1>2. ASSUME NEW i \in 0..Room(a) - 1
      PROVE  f[i] \in Bytes /\ (f[i] = Junk <=> i >= a.size)
  <2>1. CASE i >= a.size
    BY <1>1, <2>1 DEF Bytes
  <2>2. CASE ~(i >= a.size)
    <3>1. i \in 0..a.size - 1
      BY <1>1, <2>2
    <3>2. QED BY <2>2, <3>1, Constants DEF Bytes
  <2>3. QED BY <2>1, <2>2
<1>3. f \in [0..Room(a) - 1 -> Bytes]
  BY <1>1, <1>2
<1>4. b = [data |-> a.data, slots |-> f, size |-> a.size, cap |-> a.cap,
           settled |-> a.settled, owner |-> a.owner]
  BY DEF Sound, Arrays
<1>5. b \in Arrays
  <2>1. /\ a.data \in {"live"} /\ a.size \in 0..MaxLen /\ a.cap \in Nat
        /\ a.settled \in BOOLEAN /\ a.owner \in BOOLEAN
    BY DEF Sound, Arrays
  <2>2. f \in UNION {[0..n - 1 -> Bytes] : n \in Nat}
    BY <1>1, <1>3
  <2>3. QED BY <1>4, <2>1, <2>2 DEF Arrays
<1>6. Room(b) = Room(a)
  BY <1>4 DEF Room
<1>7. Sound(b)
  BY <1>1, <1>2, <1>4, <1>5, <1>6 DEF Sound
<1>8. QED BY <1>4, <1>7 DEF Keeps

LEMMA FunctionIsSeq ==
  ASSUME NEW n \in Nat, NEW s \in [1..n -> Values]
  PROVE  s \in Seq(Values) /\ Len(s) = n
OBVIOUS

LEMMA PullFromOK ==
  ASSUME NEW a, Sound(a), NEW p \in (1 - a.size)..(a.size - 1),
         NEW q \in (1 - a.size)..(a.size - 1)
  PROVE  PullFrom(a, p, q) \in Seq(Values) /\ Len(PullFrom(a, p, q)) <= a.size
<1>1. a.size \in Nat /\ \A i \in 0..a.size - 1 : a.slots[i] \in Values
  BY SoundShape
<1>2. PICK from : from = IF p < 0 THEN p + a.size ELSE p
  OBVIOUS
<1>3. PICK to : to = IF q < 0 THEN q + a.size ELSE q
  OBVIOUS
<1>4. from \in 0..a.size - 1 /\ to \in 0..a.size - 1
  BY <1>1, <1>2, <1>3
<1>5. PICK past : past = IF from < to THEN to + 1 ELSE to - 1
  OBVIOUS
<1>6. PullFrom(a, p, q) = IF from < past THEN [i \in 1..(past - from) |-> a.slots[from + i - 1]]
                          ELSE [i \in 1..(from - past) |-> a.slots[from - i + 1]]
  BY <1>2, <1>3, <1>5 DEF PullFrom
<1>7. CASE from < past
  <2>1. past = to + 1
    BY <1>1, <1>4, <1>5, <1>7
  <2>2. PICK n \in Nat : n = past - from
    BY <1>1, <1>4, <1>7, <2>1
  <2>3. n <= a.size /\ \A i \in 1..n : from + i - 1 \in 0..a.size - 1
    BY <1>1, <1>4, <2>1, <2>2
  <2>4. PullFrom(a, p, q) = [i \in 1..n |-> a.slots[from + i - 1]]
    BY <1>6, <1>7, <2>2
  <2>5. PullFrom(a, p, q) \in [1..n -> Values]
    BY <1>1, <2>3, <2>4
  <2>6. QED BY <2>2, <2>3, <2>5, FunctionIsSeq
<1>8. CASE ~(from < past)
  <2>1. past = to - 1 /\ to <= from
    BY <1>1, <1>4, <1>5, <1>8
  <2>2. PICK n \in Nat : n = from - past
    BY <1>1, <1>4, <1>8, <2>1
  <2>3. n <= a.size /\ \A i \in 1..n : from - i + 1 \in 0..a.size - 1
    BY <1>1, <1>4, <2>1, <2>2
  <2>4. PullFrom(a, p, q) = [i \in 1..n |-> a.slots[from - i + 1]]
    BY <1>6, <1>8, <2>2
  <2>5. PullFrom(a, p, q) \in [1..n -> Values]
    BY <1>1, <2>3, <2>4
  <2>6. QED BY <2>2, <2>3, <2>5, FunctionIsSeq
<1>9. QED BY <1>7, <1>8

LEMMA SourcesOK ==
  ASSUME NEW s \in Sources
  PROVE  s \in Seq(Values) /\ Len(s) \in Nat
<1>1. PICK n \in 0..MaxSrc : s \in [1..n -> Elements]
  BY DEF Sources
<1>2. n \in Nat
  BY <1>1, Constants
<1>3. s \in [1..n -> Values]
  BY <1>1 DEF Values
<1>4. QED BY <1>2, <1>3

LEMMA PushedOK ==
  ASSUME NEW a, Sound(a), a.size + 1 <= MaxLen, NEW e \in Values, NEW b, b = Pushed(a, e)
  PROVE  Keeps(b, a, a.size + 1)
<1>1. PICK s \in Seq(Values) : s = <<e>>
  <2>1. <<e>> \in Seq(Values)
    OBVIOUS
  <2>2. QED BY <2>1
<1>2. Len(s) = 1
  BY <1>1
<1>3. PICK c : c = IF Fits(a, 1) THEN a ELSE Reallocated(a, NewCap(a, 1))
  OBVIOUS
<1>4. Keeps(c, a, a.size) /\ (a.size + 1) * EltSize <= c.cap
  <2>1. CASE Fits(a, 1)
    <3>1. a.size \in Nat /\ a.cap \in Nat
      BY SoundShape
    <3>2. (a.size + 1) * EltSize \in Nat
      BY <3>1, Constants
    <3>3. QED BY <1>3, <2>1, <3>1, <3>2 DEF Fits, Needed, Keeps
  <2>2. CASE ~Fits(a, 1)
    <3>1. 1 \in Nat /\ c = Reallocated(a, NewCap(a, 1))
      BY <1>3, <2>2
    <3>2. QED BY <3>1, GrownOK
  <2>3. QED BY <2>1, <2>2
<1>5. /\ Sound(c) /\ c.size + Len(s) <= MaxLen /\ (c.size + Len(s)) * EltSize <= c.cap
      /\ b = Appended(c, s)
  BY <1>1, <1>2, <1>3, <1>4 DEF Keeps, Pushed
<1>6. Keeps(b, c, c.size + Len(s))
  BY <1>5, AppendedOK
<1>7. QED BY <1>2, <1>4, <1>6 DEF Keeps

-----------------------------------------------------------------------------
(* What array_filter has built after each of the elements.                 *)

\* A set of natural numbers has a least one.
LEMMA Least ==
  ASSUME NEW T, T \subseteq Nat, T # {}
  PROVE  \E m \in T : \A n \in T : m <= n
<1> DEFINE U == {0..n : n \in T}
           R == StrictSubsetOrdering(Nat)
<1>1. \A n \in Nat : 0..n \in FiniteSubsetsOf(Nat)
  BY FS_Interval DEF FiniteSubsetsOf
<1>2. U \subseteq FiniteSubsetsOf(Nat) /\ U # {}
  BY <1>1
<1>3. \E x \in U : \A y \in U : ~(<<y, x>> \in R)
  <2> HIDE DEF U, R
  <2>1. IsWellFoundedOn(R, FiniteSubsetsOf(Nat))
    BY FS_StrictSubsetOrderingWellFounded DEF R
  <2> QED BY <1>2, <2>1, WFMin
<1>4. PICK m \in T : \A n \in T : <<0..n, 0..m>> \notin R
  BY <1>3
<1>5. ASSUME NEW n \in T, n < m PROVE FALSE
  <2>1. 0..n \subseteq 0..m /\ 0..n # 0..m /\ 0..n \subseteq Nat /\ 0..m \subseteq Nat
    <3>1. m \in 0..m /\ m \notin 0..n
      BY <1>5
    <3> QED BY <1>5, <3>1
  <2> QED BY <1>4, <2>1, <1>5 DEF StrictSubsetOrdering
<1> QED BY <1>4, <1>5

\* What there is after the k-th element, when f tells it of those before.
After(a, keep, f, k) ==
  IF k = 0 THEN Create(InitialSize)
  ELSE IF a.slots[k - 1] \in keep THEN Pushed(f[k - 1], a.slots[k - 1]) ELSE f[k - 1]

LEMMA FilteredExists ==
  ASSUME NEW a, NEW keep, NEW n \in Nat
  PROVE  \E f : f = [k \in 0..n |-> After(a, keep, f, k)]
<1> DEFINE Good == {m \in 0..n : \E f : f = [k \in 0..m |-> After(a, keep, f, k)]}
           T == (0..n) \ Good
<1>1. 0 \in Good
  <2>1. PICK f : f = [k \in 0..0 |-> Create(InitialSize)]
    OBVIOUS
  <2>2. \A k \in 0..0 : After(a, keep, f, k) = Create(InitialSize)
    BY DEF After
  <2>3. f = [k \in 0..0 |-> After(a, keep, f, k)]
    BY <2>1, <2>2
  <2>4. QED BY <2>3
<1>2. ASSUME NEW m \in 1..n, m - 1 \in Good PROVE m \in Good
  <2>1. PICK f : f = [k \in 0..(m - 1) |-> After(a, keep, f, k)]
    BY <1>2
  <2>2. PICK g : g = [k \in 0..m |-> After(a, keep, f, k)]
    OBVIOUS
  <2>3. \A k \in 0..(m - 1) : g[k] = f[k]
    <3>1. \A k \in 0..(m - 1) : f[k] = After(a, keep, f, k)
      BY <2>1
    <3>2. QED BY <2>2, <3>1
  <2>4. ASSUME NEW k \in 0..m PROVE After(a, keep, g, k) = After(a, keep, f, k)
    <3>1. k # 0 => g[k - 1] = f[k - 1]
      BY <2>3
    <3>2. QED BY <3>1 DEF After
  <2>5. g = [k \in 0..m |-> After(a, keep, g, k)]
    BY <2>2, <2>4
  <2>6. QED BY <2>5
<1>3. n \in Good
  <2> SUFFICES ASSUME n \notin Good PROVE FALSE
    OBVIOUS
  <2> HIDE DEF Good
  <2>1. T \subseteq Nat /\ T # {}
    OBVIOUS
  <2>2. PICK m \in T : \A k \in T : m <= k
    BY <2>1, Least
  <2>3. m \in 1..n
    BY <1>1, <2>2
  <2>4. m - 1 \in Good
    BY <2>2, <2>3
  <2>5. QED BY <1>2, <2>2, <2>3, <2>4
<1>4. QED BY <1>3

LEMMA FilteredOK ==
  ASSUME NEW a, Sound(a), NEW keep, NEW f, f = Filtered(a, keep), NEW n \in 0..a.size
  PROVE  Sound(f[n])
<1>1. a.size \in Nat /\ a.size <= MaxLen /\ \A i \in 0..a.size - 1 : a.slots[i] \in Values
  BY SoundShape
<1>2. f = [k \in 0..a.size |-> After(a, keep, f, k)]
  <2>1. f = CHOOSE g : g = [k \in 0..a.size |-> After(a, keep, g, k)]
    BY DEF Filtered, After
  <2>2. \E g : g = [k \in 0..a.size |-> After(a, keep, g, k)]
    BY <1>1, FilteredExists
  <2>3. QED BY <2>1, <2>2
<1> DEFINE Good == {k \in 0..a.size : Sound(f[k]) /\ f[k].size <= k}
           T == (0..a.size) \ Good
<1>3. 0 \in Good
  <2>1. f[0] = Create(InitialSize)
    BY <1>1, <1>2 DEF After
  <2>2. Sound(f[0]) /\ f[0].size = 0
    BY <2>1, Constants, CreateOK
  <2>3. QED BY <1>1, <2>2
<1>4. ASSUME NEW k \in 1..a.size, k - 1 \in Good PROVE k \in Good
  <2>1. PICK c : c = f[k - 1]
    OBVIOUS
  <2>2. Sound(c) /\ c.size <= k - 1
    BY <1>4, <2>1
  <2>3. c.size \in Nat /\ c.size + 1 <= MaxLen
    <3>1. c.size \in Nat
      BY <2>2, SoundShape
    <3>2. QED BY <1>1, <2>2, <3>1, Constants
  <2>4. PICK e \in Values : e = a.slots[k - 1]
    BY <1>1
  <2>5. f[k] = IF e \in keep THEN Pushed(c, e) ELSE c
    BY <1>1, <1>2, <2>1, <2>4 DEF After
  <2>6. CASE e \in keep
    <3>1. Sound(f[k]) /\ f[k].size = c.size + 1
      BY <2>2, <2>3, <2>5, <2>6, PushedOK DEF Keeps
    <3>2. QED BY <2>2, <2>3, <3>1
  <2>7. CASE e \notin keep
    BY <2>2, <2>3, <2>5, <2>7
  <2>8. QED BY <2>6, <2>7
<1>5. n \in Good
  <2> SUFFICES ASSUME n \notin Good PROVE FALSE
    OBVIOUS
  <2> HIDE DEF Good
  <2>1. T \subseteq Nat /\ T # {}
    BY <1>1
  <2>2. PICK m \in T : \A k \in T : m <= k
    BY <2>1, Least
  <2>3. m \in 1..a.size
    BY <1>1, <1>3, <2>2
  <2>4. m - 1 \in Good
    BY <1>1, <2>2, <2>3
  <2>5. QED BY <1>4, <2>2, <2>3, <2>4
<1>6. QED BY <1>5

-----------------------------------------------------------------------------
(* What each call leaves.                                                  *)

\* What SettledStaysPut says of a step.
StaysPut ==
  Live(self) /\ self.settled /\ call'.op \notin {"kill", "swap", "unsettle"} =>
    self'.cap = self.cap /\ Live(self')

Safe == IInv' /\ StaysPut

\* The two arrays, unless there is none.
LEMMA LiveSound ==
  ASSUME IInv
  PROVE  /\ Live(self) => Sound(self)
         /\ Live(other) => Sound(other)
         /\ other = Null \/ Sound(other)
<1>1. ~Live(Null)
  BY DEF Live, Null
<1>2. QED BY <1>1, FreedShape DEF IInv

LEMMA MakeSafe ==
  ASSUME self' = Null \/ Sound(self') \/ Freed(self'), other' = Null \/ Sound(other'),
         DOMAIN call' = DOMAIN NoCall, ~call'.harm, StaysPut
  PROVE  Safe
BY DEF Safe, IInv

\* A call that changes self, and the elements of it at most.
LEMMA KeepsSafe ==
  ASSUME IInv, Live(self), Keeps(self', self, self'.size), self'.cap = self.cap,
         other' = other, DOMAIN call' = DOMAIN NoCall, ~call'.harm
  PROVE  Safe
<1>1. Sound(self') /\ StaysPut
  BY DEF Keeps, StaysPut, Live
<1>2. QED BY <1>1, LiveSound, MakeSafe

\* A call that leaves self as it is.
LEMMA SameSafe ==
  ASSUME IInv, Live(self), self' = self, other' = Null \/ Sound(other'),
         DOMAIN call' = DOMAIN NoCall, ~call'.harm
  PROVE  Safe
<1>1. Sound(self') /\ StaysPut
  BY LiveSound DEF StaysPut
<1>2. QED BY <1>1, MakeSafe

LEMMA NewSafe ==
  ASSUME IInv, New PROVE Safe
<1>1. PICK n \in 0..MaxLen : Becomes(Create(n)) /\ call' = Call("create")
  BY DEF New
<1>2. n \in Nat
  BY Constants
<1>3. Sound(self') /\ other' = other
  BY <1>1, <1>2, CreateOK DEF Becomes
<1>4. DOMAIN call' = DOMAIN NoCall /\ ~call'.harm
  BY <1>1 DEF Call, NoCall
<1>5. StaysPut
  BY DEF New, Null, Live, StaysPut
<1>6. QED BY <1>3, <1>4, <1>5, LiveSound, MakeSafe

LEMMA NewOnBufferSafe ==
  ASSUME IInv, NewOnBuffer PROVE Safe
<1>1. PICK s \in Sources, room \in 0..MaxSrc, owner \in BOOLEAN :
         /\ Len(s) + room \in 1..MaxLen
         /\ Becomes(Buffer(s, (Len(s) + room) * EltSize, ~owner, owner))
         /\ call' = [Call("create") EXCEPT !.src = s]
  BY DEF NewOnBuffer
<1>2. /\ s \in Seq(Values) /\ Len(s) \in Nat /\ room \in Nat
      /\ Len(s) + room \in Nat /\ Len(s) <= Len(s) + room /\ Len(s) <= MaxLen
  BY <1>1, SourcesOK, Constants
<1>3. PICK cap : cap = (Len(s) + room) * EltSize
  OBVIOUS
<1>4. cap \in Nat /\ Len(s) * EltSize <= cap
  BY <1>2, <1>3, Constants, MoreBytes
<1>5. PICK settled \in BOOLEAN : settled = ~owner
  OBVIOUS
<1>6. self' = Buffer(s, cap, settled, owner) /\ other' = other
  BY <1>1, <1>3, <1>5 DEF Becomes
<1>7. Sound(self')
  BY <1>1, <1>2, <1>4, <1>5, <1>6, BufferOK
<1>8. DOMAIN call' = DOMAIN NoCall /\ ~call'.harm
  BY <1>1 DEF Call, NoCall
<1>9. StaysPut
  BY DEF NewOnBuffer, Null, Live, StaysPut
<1>10. QED BY <1>6, <1>7, <1>8, <1>9, LiveSound, MakeSafe

\* What a call leaves that asked array_adjust for room first.
LEMMA ReserveSafe ==
  ASSUME IInv, Live(self), NEW n \in Nat, NEW r, r \in Adjust(self, n),
         NEW b, r.ok => Keeps(b, r.a, b.size) /\ b.cap = r.a.cap,
         NEW c, DOMAIN c = DOMAIN NoCall, Reserve(r, b, c)
  PROVE  Safe
<1>1. Sound(self)
  BY LiveSound
<1>2. /\ r.ok \in BOOLEAN /\ Keeps(r.a, self, self.size)
      /\ self.settled => r.a = self
  BY <1>1, AdjustOK
<1>3. self' = (IF r.ok THEN b ELSE self) /\ other' = other
  BY DEF Reserve, Becomes
<1>4. Sound(self') /\ StaysPut
  BY <1>1, <1>2, <1>3 DEF Keeps, StaysPut, Live
<1>5. DOMAIN call' = DOMAIN NoCall /\ ~call'.harm
  <2>1. call' = [c EXCEPT !.ok = r.ok, !.harm = r.a.cap # self.cap /\ ~self.owner]
    BY DEF Reserve
  <2>2. "harm" \in DOMAIN c
    BY DEF NoCall
  <2>3. ~(r.a.cap # self.cap /\ ~self.owner)
    BY <1>1, <1>2 DEF Sound
  <2>4. DOMAIN call' = DOMAIN c /\ call'.harm = (r.a.cap # self.cap /\ ~self.owner)
    BY <2>1, <2>2
  <2>5. QED BY <2>3, <2>4
<1>6. QED BY <1>3, <1>4, <1>5, LiveSound, MakeSafe

LEMMA AppendAllSafe ==
  ASSUME IInv, AppendAll PROVE Safe
<1>1. PICK s \in Sources : 
         /\ self.size + Len(s) <= MaxLen
         /\ \E r \in Adjust(self, Len(s)) :
              Reserve(r, Appended(r.a, s), [Call("append") EXCEPT !.src = s])
  BY DEF AppendAll
<1>2. PICK r \in Adjust(self, Len(s)) :
         Reserve(r, Appended(r.a, s), [Call("append") EXCEPT !.src = s])
  BY <1>1
<1>3. Live(self) /\ Sound(self) /\ s \in Seq(Values) /\ Len(s) \in Nat
  BY LiveSound, SourcesOK DEF AppendAll, Alone
<1>4. /\ Keeps(r.a, self, self.size)
      /\ r.ok => (self.size + Len(s)) * EltSize <= r.a.cap
  BY <1>2, <1>3, AdjustOK
<1>5. PICK b : b = Appended(r.a, s)
  OBVIOUS
<1>6. ASSUME r.ok
      PROVE  Keeps(b, r.a, r.a.size + Len(s)) /\ b.cap = r.a.cap
  <2>1. Sound(r.a) /\ r.a.size = self.size
    BY <1>4 DEF Keeps
  <2>2. r.a.size + Len(s) <= MaxLen /\ (r.a.size + Len(s)) * EltSize <= r.a.cap
    BY <1>1, <1>4, <1>6, <2>1
  <2>3. QED BY <1>3, <1>5, <2>1, <2>2, AppendedOK
<1>7. r.ok => Keeps(b, r.a, b.size) /\ b.cap = r.a.cap
  BY <1>6 DEF Keeps
<1>8. PICK c : c = [Call("append") EXCEPT !.src = s]
  OBVIOUS
<1>9. DOMAIN c = DOMAIN NoCall
  BY <1>8 DEF Call, NoCall
<1>10. Reserve(r, b, c)
  BY <1>2, <1>5, <1>8
<1>11. QED BY <1>2, <1>3, <1>7, <1>9, <1>10, ReserveSafe

LEMMA InjectAllSafe ==
  ASSUME IInv, InjectAll PROVE Safe
<1>1. PICK s \in Sources, p \in 0..self.size :
         /\ self.size + Len(s) <= MaxLen
         /\ \E r \in Adjust(self, Len(s)) :
              Reserve(r, Injected(r.a, p, s), [Call("insert") EXCEPT !.p = p, !.src = s])
  BY DEF InjectAll
<1>2. PICK r \in Adjust(self, Len(s)) :
         Reserve(r, Injected(r.a, p, s), [Call("insert") EXCEPT !.p = p, !.src = s])
  BY <1>1
<1>3. Live(self) /\ Sound(self) /\ s \in Seq(Values) /\ Len(s) \in Nat
  BY LiveSound, SourcesOK DEF InjectAll, Alone
<1>4. /\ Keeps(r.a, self, self.size)
      /\ r.ok => (self.size + Len(s)) * EltSize <= r.a.cap
  BY <1>2, <1>3, AdjustOK
<1>5. PICK b : b = Injected(r.a, p, s)
  OBVIOUS
<1>6. ASSUME r.ok
      PROVE  Keeps(b, r.a, r.a.size + Len(s)) /\ b.cap = r.a.cap
  <2>1. PICK a : a = r.a
    OBVIOUS
  <2>2. /\ Sound(a) /\ a.size + Len(s) <= MaxLen /\ (a.size + Len(s)) * EltSize <= a.cap
        /\ p \in 0..a.size /\ s \in Seq(Values) /\ b = Injected(a, p, s)
    BY <1>1, <1>3, <1>4, <1>5, <1>6, <2>1 DEF Keeps
  <2>3. QED BY <2>1, <2>2, InjectedOK
<1>7. r.ok => Keeps(b, r.a, b.size) /\ b.cap = r.a.cap
  BY <1>6 DEF Keeps
<1>8. PICK c : c = [Call("insert") EXCEPT !.p = p, !.src = s]
  OBVIOUS
<1>9. DOMAIN c = DOMAIN NoCall
  BY <1>8 DEF Call, NoCall
<1>10. Reserve(r, b, c)
  BY <1>2, <1>5, <1>8
<1>11. QED BY <1>2, <1>3, <1>7, <1>9, <1>10, ReserveSafe

LEMMA ConcatSafe ==
  ASSUME IInv, Concat PROVE Safe
<1>1. Live(self) /\ Sound(self) /\ Sound(other) /\ self.size + other.size <= MaxLen
  BY LiveSound DEF Concat
<1>2. PICK r \in Adjust(self, self.size + other.size) :
         Reserve(r, Appended(r.a, Content(other)), Call("concat"))
  BY DEF Concat
<1>3. /\ self.size \in Nat /\ other.size \in Nat /\ self.size + other.size \in Nat
      /\ self.size + (self.size + other.size) \in Nat
      /\ self.size + other.size <= self.size + (self.size + other.size)
  BY <1>1, SoundShape
<1>4. /\ Keeps(r.a, self, self.size)
      /\ r.ok => (self.size + (self.size + other.size)) * EltSize <= r.a.cap
  BY <1>1, <1>2, <1>3, AdjustOK
<1>5. PICK s : s = Content(other)
  OBVIOUS
<1>6. s \in Seq(Values) /\ Len(s) = other.size
  BY <1>1, <1>5, ContentOK
<1>7. r.ok => (r.a.size + Len(s)) * EltSize <= r.a.cap /\ r.a.size + Len(s) <= MaxLen
  <2>1. r.a.size = self.size /\ Sound(r.a)
    BY <1>4 DEF Keeps
  <2>2. r.a.cap \in Nat
    BY <2>1, SoundShape
  <2>3. /\ (self.size + other.size) * EltSize <= (self.size + (self.size + other.size)) * EltSize
        /\ (self.size + other.size) * EltSize \in Nat
        /\ (self.size + (self.size + other.size)) * EltSize \in Nat
    BY <1>3, Constants, MoreBytes
  <2>4. r.ok => (self.size + other.size) * EltSize <= r.a.cap
    BY <1>4, <2>2, <2>3
  <2>5. QED BY <1>1, <1>6, <2>1, <2>4
<1>8. PICK b : b = Appended(r.a, s)
  OBVIOUS
<1>9. r.ok => Keeps(b, r.a, r.a.size + Len(s)) /\ b.cap = r.a.cap
  BY <1>4, <1>6, <1>7, <1>8, AppendedOK DEF Keeps
<1>10. r.ok => Keeps(b, r.a, b.size) /\ b.cap = r.a.cap
  BY <1>9 DEF Keeps
<1>11. PICK c : c = Call("concat")
  OBVIOUS
<1>12. DOMAIN c = DOMAIN NoCall
  BY <1>11 DEF Call, NoCall
<1>13. Reserve(r, b, c)
  BY <1>2, <1>5, <1>8, <1>11
<1>14. QED BY <1>1, <1>2, <1>3, <1>10, <1>12, <1>13, ReserveSafe

LEMMA AppendFromCapacitySafe ==
  ASSUME IInv, AppendFromCapacity PROVE Safe
<1>1. Live(self) /\ Sound(self)
  BY LiveSound DEF AppendFromCapacity, Alone
<1>2. PICK s \in Sources :
         /\ self.size + Len(s) <= MaxLen
         /\ Becomes(IF Len(s) <= UninitializedSize(self) THEN Appended(self, s) ELSE self)
         /\ call' = [Call("append") EXCEPT !.src = s, !.ok = Len(s) <= UninitializedSize(self)]
  BY DEF AppendFromCapacity
<1>3. s \in Seq(Values) /\ Len(s) \in Nat
  BY SourcesOK
<1>4. DOMAIN call' = DOMAIN NoCall /\ ~call'.harm
  BY <1>2 DEF Call, NoCall
<1>5. other' = other
  BY <1>2 DEF Becomes
<1>6. CASE Len(s) <= UninitializedSize(self)
  <2>1. PICK used : used = self.size * EltSize
    OBVIOUS
  <2>2. PICK more : more = Len(s) * EltSize
    OBVIOUS
  <2>3. self.size \in Nat /\ self.cap \in Nat /\ used \in Nat /\ used <= self.cap
        /\ more \in Nat
    BY <1>1, <1>3, <2>1, <2>2, SoundShape, Constants
  <2>4. Len(s) <= (self.cap - used) \div EltSize
    BY <1>6, <2>1 DEF UninitializedSize
  <2>5. PICK left \in Nat : left = self.cap - used
    BY <2>3
  <2>6. more <= left
    BY <1>3, <2>2, <2>4, <2>5, Constants, Division
  <2>7. (self.size + Len(s)) * EltSize = used + more
    BY <1>3, <2>1, <2>2, <2>3, Constants
  <2>8. (self.size + Len(s)) * EltSize <= self.cap
    BY <2>3, <2>5, <2>6, <2>7
  <2>9. self' = Appended(self, s)
    BY <1>2, <1>6 DEF Becomes
  <2>10. Keeps(self', self, self.size + Len(s)) /\ self'.cap = self.cap
    BY <1>1, <1>2, <1>3, <2>8, <2>9, AppendedOK
  <2>11. Keeps(self', self, self'.size)
    BY <2>10 DEF Keeps
  <2>12. QED BY <1>1, <1>4, <1>5, <2>10, <2>11, KeepsSafe
<1>7. CASE ~(Len(s) <= UninitializedSize(self))
  <2>1. self' = self
    BY <1>2, <1>7 DEF Becomes
  <2>2. QED BY <1>1, <1>4, <1>5, <2>1, LiveSound, SameSafe
<1>8. QED BY <1>6, <1>7

LEMMA TipexSafe ==
  ASSUME IInv, Tipex PROVE Safe
<1>1. Live(self) /\ Sound(self)
  BY LiveSound DEF Tipex, Alone
<1>2. PICK e \in Elements, p \in 0..self.size - 1 :
         /\ Becomes([self EXCEPT !.slots[p] = e])
         /\ call' = [Call("tipex") EXCEPT !.p = p, !.src = <<e>>]
  BY DEF Tipex
<1>3. PICK f : f = [self.slots EXCEPT ![p] = e]
  OBVIOUS
<1>4. /\ DOMAIN self.slots = 0..Room(self) - 1 /\ self.size \in Nat
      /\ self.slots \in [0..Room(self) - 1 -> Bytes]
      /\ \A i \in 0..self.size - 1 : i \in DOMAIN self.slots /\ self.slots[i] \in Values
  BY <1>1, SoundShape
<1>5. DOMAIN f = DOMAIN self.slots /\ f = [i \in DOMAIN self.slots |-> f[i]]
  BY <1>3, <1>4
<1>6. \A i \in DOMAIN f : f[i] = IF i = p THEN e ELSE self.slots[i]
  BY <1>3, <1>5
<1>7. \A i \in 0..self.size - 1 : f[i] \in Values
  BY <1>4, <1>5, <1>6 DEF Values
<1>8. \A i \in DOMAIN f : i >= self.size => f[i] = self.slots[i]
  BY <1>4, <1>5, <1>6
<1>9. self' = [self EXCEPT !.slots = f] /\ other' = other
  BY <1>2, <1>3 DEF Becomes
<1>10. Keeps(self', self, self.size) /\ self'.cap = self.cap
  BY <1>1, <1>5, <1>7, <1>8, <1>9, WrittenOK
<1>11. Keeps(self', self, self'.size)
  BY <1>10 DEF Keeps
<1>12. DOMAIN call' = DOMAIN NoCall /\ ~call'.harm
  BY <1>2 DEF Call, NoCall
<1>13. QED BY <1>1, <1>9, <1>10, <1>11, <1>12, KeepsSafe

LEMMA PopSafe ==
  ASSUME IInv, Pop PROVE Safe
<1>1. Live(self) /\ Sound(self) /\ self.size > 0
  BY LiveSound DEF Pop, Alone
<1>2. PICK n \in 0..self.size : n = self.size - 1
  BY <1>1, SoundShape
<1>3. self' = Resized(self, self.slots, n) /\ other' = other
  BY <1>2 DEF Pop, Becomes
<1>4. Keeps(self', self, self'.size) /\ self'.cap = self.cap
  BY <1>1, <1>2, <1>3, KeptOK DEF Keeps
<1>5. DOMAIN call' = DOMAIN NoCall /\ ~call'.harm
  BY DEF Pop, Call, NoCall
<1>6. QED BY <1>1, <1>3, <1>4, <1>5, KeepsSafe

LEMMA ClearSafe ==
  ASSUME IInv, Clear PROVE Safe
<1>1. Live(self) /\ Sound(self)
  BY LiveSound DEF Clear, Alone
<1>2. 0 \in 0..self.size
  BY <1>1, SoundShape
<1>3. self' = Resized(self, self.slots, 0) /\ other' = other
  BY DEF Clear, Becomes
<1>4. Keeps(self', self, self'.size) /\ self'.cap = self.cap
  BY <1>1, <1>2, <1>3, KeptOK DEF Keeps
<1>5. DOMAIN call' = DOMAIN NoCall /\ ~call'.harm
  BY DEF Clear, Call, NoCall
<1>6. QED BY <1>1, <1>3, <1>4, <1>5, KeepsSafe

LEMMA EvictedOK ==
  ASSUME NEW a, Sound(a), NEW p \in 0..a.size - 1, NEW b, b = Evicted(a, p)
  PROVE  Keeps(b, a, b.size) /\ b.cap = a.cap
<1>1. a.size \in Nat
  BY SoundShape
<1>2. p \in 0..a.size /\ p + 1 \in p..a.size
  BY <1>1
<1>3. PICK q \in p..a.size : q = p + 1
  BY <1>2
<1>4. a.size - p - 1 = a.size - q /\ a.size - 1 = a.size - (q - p)
  BY <1>1, <1>2, <1>3
<1>5. b = Resized(a, Move(a.slots, p, q, a.size - q), a.size - (q - p))
  BY <1>3, <1>4 DEF Evicted
<1>6. QED BY <1>2, <1>5, CutOK DEF Keeps

LEMMA EvictSafe ==
  ASSUME IInv, Evict \/ PopFront PROVE Safe
<1>1. Live(self) /\ Sound(self)
  BY LiveSound DEF Evict, PopFront, Alone
<1>2. PICK p \in 0..self.size - 1 : self' = Evicted(self, p) /\ other' = other
  <2>1. CASE Evict
    BY <2>1 DEF Evict, Becomes
  <2>2. CASE PopFront
    <3>1. 0 \in 0..self.size - 1
      BY <1>1, <2>2, SoundShape DEF PopFront
    <3>2. QED BY <2>2, <3>1 DEF PopFront, Becomes
  <2>3. QED BY <2>1, <2>2
<1>3. Keeps(self', self, self'.size) /\ self'.cap = self.cap
  BY <1>1, <1>2, EvictedOK
<1>4. DOMAIN call' = DOMAIN NoCall /\ ~call'.harm
  BY DEF Evict, PopFront, Call, NoCall
<1>5. QED BY <1>1, <1>2, <1>3, <1>4, KeepsSafe

LEMMA WipeSafe ==
  ASSUME IInv, Wipe PROVE Safe
<1>1. Live(self) /\ Sound(self)
  BY LiveSound DEF Wipe, Alone
<1> DEFINE Wiped(p, q) ==
      /\ Becomes(Resized(self, Move(self.slots, p, q, self.size - q), self.size - (q - p)))
      /\ call' = [Call("wipe") EXCEPT !.p = p, !.q = q,
                                      !.freed = SubSeq(Content(self), 1, q - p)]
<1>0. PICK p \in 0..self.size : \E q \in p..self.size : Wiped(p, q)
  BY DEF Wipe
<1>2. PICK q \in p..self.size : Wiped(p, q)
  BY <1>0
<1>3. self' = Resized(self, Move(self.slots, p, q, self.size - q), self.size - (q - p))
      /\ other' = other
  BY <1>2 DEF Becomes
<1>4. Keeps(self', self, self'.size) /\ self'.cap = self.cap
  BY <1>1, <1>3, CutOK DEF Keeps
<1>5. DOMAIN call' = DOMAIN NoCall /\ ~call'.harm
  BY <1>2 DEF Call, NoCall
<1>6. QED BY <1>1, <1>3, <1>4, <1>5, KeepsSafe

LEMMA KillSafe ==
  ASSUME IInv, Kill \/ KillOther PROVE Safe
<1>1. DOMAIN call' = DOMAIN NoCall /\ ~call'.harm
  BY DEF Kill, KillOther, KillCall, FreesBuffer, Call, NoCall
<1>2. CASE Kill
  <2>1. self' = Null /\ other' = other /\ call'.op = "kill"
    BY <1>2 DEF Kill, Becomes, KillCall, Call, NoCall
  <2>2. StaysPut
    BY <2>1 DEF StaysPut
  <2>3. QED BY <1>1, <2>1, <2>2, LiveSound, MakeSafe
<1>3. CASE KillOther
  <2>1. other' = Null /\ self' = self
    BY <1>3 DEF KillOther
  <2>2. StaysPut
    BY <2>1 DEF StaysPut
  <2>3. self' = Null \/ Sound(self') \/ Freed(self')
    BY <2>1 DEF IInv
  <2>4. QED BY <1>1, <2>1, <2>2, <2>3, MakeSafe
<1>4. QED BY <1>2, <1>3

LEMMA SwapElemsSafe ==
  ASSUME IInv, SwapElems PROVE Safe
<1>1. Live(self) /\ Sound(self)
  BY LiveSound DEF SwapElems, Alone
<1>2. PICK p \in 0..self.size - 1, q \in 0..self.size - 1 :
         /\ Becomes(IF p = q THEN [self EXCEPT !.slots[p] = Zero]
                    ELSE [self EXCEPT !.slots[p] = self.slots[q], !.slots[q] = self.slots[p]])
         /\ call' = [Call("swap_elems") EXCEPT !.p = p, !.q = q]
  BY DEF SwapElems
<1>3. PICK f : f = IF p = q THEN [self.slots EXCEPT ![p] = Zero]
                   ELSE [self.slots EXCEPT ![p] = self.slots[q], ![q] = self.slots[p]]
  OBVIOUS
<1>4. /\ DOMAIN self.slots = 0..Room(self) - 1 /\ self.size \in Nat
      /\ self.slots \in [0..Room(self) - 1 -> Bytes]
      /\ \A i \in 0..self.size - 1 : i \in DOMAIN self.slots /\ self.slots[i] \in Values
  BY <1>1, SoundShape
<1>5. DOMAIN f = DOMAIN self.slots /\ f = [i \in DOMAIN self.slots |-> f[i]]
  BY <1>3, <1>4
<1>6. \A i \in DOMAIN f : f[i] \in {self.slots[i], self.slots[p], self.slots[q], Zero}
                          /\ (i \notin {p, q} => f[i] = self.slots[i])
  BY <1>3, <1>4, <1>5
<1>7. \A i \in 0..self.size - 1 : f[i] \in Values
  BY <1>4, <1>5, <1>6 DEF Values
<1>8. \A i \in DOMAIN f : i >= self.size => f[i] = self.slots[i]
  BY <1>4, <1>5, <1>6
<1>9. self' = [self EXCEPT !.slots = f] /\ other' = other
  <2>1. other' = other
    BY <1>2 DEF Becomes
  <2>2. CASE p = q
    BY <1>2, <1>3, <2>1, <2>2 DEF Becomes
  <2>3. CASE p # q
    <3>1. self' = [self EXCEPT !.slots[p] = self.slots[q], !.slots[q] = self.slots[p]]
      BY <1>2, <2>3 DEF Becomes
    <3>2. f = [self.slots EXCEPT ![p] = self.slots[q], ![q] = self.slots[p]]
      BY <1>3, <2>3
    <3>3. "slots" \in DOMAIN self
      BY <1>1 DEF Sound, Arrays
    <3>4. self' = [self EXCEPT !.slots = f]
      BY <3>1, <3>2, <3>3
    <3>5. QED BY <2>1, <3>4
  <2>4. QED BY <2>2, <2>3
<1>10. Keeps(self', self, self.size) /\ self'.cap = self.cap
  BY <1>1, <1>5, <1>7, <1>8, <1>9, WrittenOK
<1>11. Keeps(self', self, self'.size)
  BY <1>10 DEF Keeps
<1>12. DOMAIN call' = DOMAIN NoCall /\ ~call'.harm
  BY <1>2 DEF Call, NoCall
<1>13. QED BY <1>1, <1>9, <1>10, <1>11, <1>12, KeepsSafe

LEMMA SwapSafe ==
  ASSUME IInv, Swap PROVE Safe
<1>1. self' = other /\ other' = self /\ call' = Call("swap")
  BY DEF Swap
<1>2. DOMAIN call' = DOMAIN NoCall /\ ~call'.harm /\ call'.op = "swap"
  BY <1>1 DEF Call, NoCall
<1>3. StaysPut
  BY <1>2 DEF StaysPut
<1>4. Sound(other')
  BY <1>1, LiveSound DEF Swap
<1>5. self' = Null \/ Sound(self')
  BY <1>1, LiveSound
<1>6. QED BY <1>2, <1>3, <1>4, <1>5, MakeSafe

\* A change of the flags.
LEMMA FlagsOK ==
  ASSUME NEW a, Sound(a), NEW d \in {"live"}, NEW settled \in BOOLEAN,
         ~a.owner => settled,
         NEW b, b = [data |-> d, slots |-> a.slots, size |-> a.size, cap |-> a.cap,
                     settled |-> settled, owner |-> a.owner]
  PROVE  Sound(b)
<1>1. b \in Arrays /\ Room(b) = Room(a)
  BY DEF Sound, Arrays, Room
<1>2. QED BY <1>1 DEF Sound

LEMMA SettleSafe ==
  ASSUME IInv, Settle \/ Unsettle PROVE Safe
<1>1. Live(self) /\ Sound(self)
  BY LiveSound DEF Settle, Unsettle, Alone
<1>2. PICK settled \in BOOLEAN :
         /\ self' = [self EXCEPT !.settled = settled] /\ other' = other
         /\ ~self.owner => settled
  BY DEF Settle, Unsettle, Becomes
<1>3. self.data \in {"live"}
  BY <1>1, SoundShape
<1>4. self' = [data |-> self.data, slots |-> self.slots, size |-> self.size,
               cap |-> self.cap, settled |-> settled, owner |-> self.owner]
  BY <1>1, <1>2 DEF Sound, Arrays
<1>5. Sound(self')
  BY <1>1, <1>2, <1>3, <1>4, FlagsOK
<1>6. DOMAIN call' = DOMAIN NoCall /\ ~call'.harm
  BY DEF Settle, Unsettle, Call, NoCall
<1>7. StaysPut
  BY <1>1, <1>4 DEF StaysPut, Live
<1>8. QED BY <1>2, <1>5, <1>6, <1>7, LiveSound, MakeSafe

LEMMA SlimcheckSafe ==
  ASSUME IInv, Slimcheck PROVE Safe
<1>1. Live(self) /\ Sound(self)
  BY LiveSound DEF Slimcheck, Alone
<1>2. CASE /\ ~Slims(self)
           /\ Becomes(self) /\ call' = [Call("slimcheck") EXCEPT !.ok = ~self.settled]
  <2>1. self' = self /\ other' = other
    BY <1>2 DEF Becomes
  <2>2. DOMAIN call' = DOMAIN NoCall /\ ~call'.harm
    BY <1>2 DEF Call, NoCall
  <2>3. QED BY <1>1, <2>1, <2>2, LiveSound, SameSafe
<1>3. CASE /\ Slims(self) /\ SlimTo(self) > 0
           /\ Becomes(Reallocated(self, SlimTo(self)))
           /\ call' = [Call("slimcheck") EXCEPT !.harm = ~self.owner]
  <2>1. PICK cap : cap = self.size * EltSize
    OBVIOUS
  <2>2. cap \in Nat /\ self.size * EltSize <= cap
    BY <1>1, <2>1, SoundShape, Constants
  <2>3. self' = Reallocated(self, cap) /\ other' = other
    BY <1>3, <2>1 DEF Becomes, SlimTo
  <2>4. Sound(self')
    BY <1>1, <2>2, <2>3, ReallocatedOK
  <2>5. ~self.settled /\ self.owner
    BY <1>1, <1>3 DEF Slims, Sound, Arrays
  <2>6. DOMAIN call' = DOMAIN NoCall /\ ~call'.harm
    BY <1>3, <2>5 DEF Call, NoCall
  <2>7. StaysPut
    BY <2>5 DEF StaysPut
  <2>8. QED BY <2>3, <2>4, <2>6, <2>7, LiveSound, MakeSafe
<1>4. CASE /\ Slims(self)
           /\ Becomes(IF SlimTo(self) > 0 THEN self ELSE [self EXCEPT !.data = "freed"])
           /\ call' = [Call("slimcheck") EXCEPT !.ok = FALSE]
  <2>1. other' = other /\ (self' = self \/ self' = [self EXCEPT !.data = "freed"])
    BY <1>4 DEF Becomes
  <2>2. ~self.settled /\ self.settled \in BOOLEAN /\ (~self.owner => self.settled)
    BY <1>1, <1>4 DEF Slims, Sound, Arrays
  <2>3. ASSUME self' = [self EXCEPT !.data = "freed"] PROVE Freed(self')
    BY <1>1, <2>3 DEF Freed
  <2>4. Sound(self') \/ Freed(self')
    BY <1>1, <2>1, <2>3
  <2>5. DOMAIN call' = DOMAIN NoCall /\ ~call'.harm
    BY <1>4 DEF Call, NoCall
  <2>6. StaysPut
    BY <2>2 DEF StaysPut
  <2>7. QED BY <2>1, <2>4, <2>5, <2>6, LiveSound, MakeSafe
<1>5. QED BY <1>2, <1>3, <1>4 DEF Slimcheck

LEMMA ExtractSafe ==
  ASSUME IInv, Extract PROVE Safe
<1>1. Live(self) /\ Sound(self)
  BY LiveSound DEF Extract, Alone
<1>2. self' = self /\ other' = other
  BY DEF Extract, Becomes
<1>3. DOMAIN call' = DOMAIN NoCall /\ ~call'.harm
  BY DEF Extract, Call, NoCall
<1>4. QED BY <1>1, <1>2, <1>3, LiveSound, SameSafe

LEMMA PullSafe ==
  ASSUME IInv, Pull PROVE Safe
<1>1. Live(self) /\ Sound(self) /\ self.size \in Nat /\ self.size <= MaxLen
  BY LiveSound, SoundShape DEF Pull, Alone
<1>2. PICK p \in (1 - self.size)..(self.size - 1), q \in (1 - self.size)..(self.size - 1) :
         /\ other' = Buffer(PullFrom(self, p, q), Len(PullFrom(self, p, q)) * EltSize, TRUE, TRUE)
         /\ UNCHANGED self
         /\ call' = [Call("pull") EXCEPT !.p = p, !.q = q]
  BY DEF Pull
<1>3. PICK s : s = PullFrom(self, p, q)
  OBVIOUS
<1>4. s \in Seq(Values) /\ Len(s) <= MaxLen /\ Len(s) \in Nat
  <2>1. s \in Seq(Values) /\ Len(s) <= self.size
    BY <1>1, <1>3, PullFromOK
  <2>2. Len(s) \in Nat
    BY <2>1, LenProperties
  <2>3. QED BY <1>1, <2>1, <2>2, Constants
<1>5. PICK cap : cap = Len(s) * EltSize
  OBVIOUS
<1>6. cap \in Nat /\ Len(s) * EltSize <= cap
  BY <1>4, <1>5, Constants
<1>7. TRUE \in BOOLEAN /\ (~TRUE => TRUE)
  OBVIOUS
<1>8. other' = Buffer(s, cap, TRUE, TRUE)
  BY <1>2, <1>3, <1>5
<1>9. Sound(other')
  BY <1>4, <1>6, <1>7, <1>8, BufferOK
<1>10. DOMAIN call' = DOMAIN NoCall /\ ~call'.harm
  BY <1>2 DEF Call, NoCall
<1>11. QED BY <1>1, <1>2, <1>9, <1>10, SameSafe

LEMMA FilterSafe ==
  ASSUME IInv, Filter PROVE Safe
<1>1. Live(self) /\ Sound(self) /\ self.size \in Nat
  BY LiveSound, SoundShape DEF Filter, Alone
<1>2. self' = self /\ DOMAIN call' = DOMAIN NoCall /\ ~call'.harm
  BY DEF Filter, Call, NoCall
<1>3. \/ other' = other
      \/ \E keep : other' = Filtered(self, keep)[self.size]
  BY DEF Filter
<1>4. ASSUME \E keep : other' = Filtered(self, keep)[self.size] PROVE Sound(other')
  <2>1. PICK keep : other' = Filtered(self, keep)[self.size]
    BY <1>4
  <2>2. PICK f : f = Filtered(self, keep)
    OBVIOUS
  <2>3. self.size \in 0..self.size
    BY <1>1
  <2>4. QED BY <1>1, <2>1, <2>2, <2>3, FilteredOK
<1>5. other' = Null \/ Sound(other')
  BY <1>3, <1>4, LiveSound
<1>6. QED BY <1>1, <1>2, <1>5, SameSafe

LEMMA DupSafe ==
  ASSUME IInv, Dup PROVE Safe
<1>1. Live(self) /\ Sound(self) /\ self.size \in Nat /\ self.size <= MaxLen
  BY LiveSound, SoundShape DEF Dup, Alone
<1>2. PICK a : a = Create(self.size)
  OBVIOUS
<1>3. Sound(a) /\ a.size = 0
  BY <1>1, <1>2, CreateOK
<1>4. PICK r \in Adjust(a, self.size) :
         /\ other' = IF r.ok THEN Appended(r.a, Content(self)) ELSE other
         /\ UNCHANGED self
         /\ call' = [Call("dup") EXCEPT !.ok = r.ok]
  BY <1>2 DEF Dup
<1>5. r.ok \in BOOLEAN /\ Keeps(r.a, a, a.size)
      /\ (r.ok => (a.size + self.size) * EltSize <= r.a.cap)
  BY <1>1, <1>3, <1>4, AdjustOK
<1>6. PICK s : s = Content(self)
  OBVIOUS
<1>7. s \in Seq(Values) /\ Len(s) = self.size
  BY <1>1, <1>6, ContentOK
<1>8. ASSUME r.ok PROVE Sound(other')
  <2>1. /\ Sound(r.a) /\ r.a.size + Len(s) <= MaxLen
        /\ (r.a.size + Len(s)) * EltSize <= r.a.cap
    BY <1>1, <1>3, <1>5, <1>7, <1>8 DEF Keeps
  <2>2. other' = Appended(r.a, s)
    BY <1>4, <1>6, <1>8
  <2>3. QED BY <1>7, <2>1, <2>2, AppendedOK DEF Keeps
<1>9. other' = Null \/ Sound(other')
  BY <1>4, <1>8, LiveSound
<1>10. DOMAIN call' = DOMAIN NoCall /\ ~call'.harm
  BY <1>4 DEF Call, NoCall
<1>11. QED BY <1>1, <1>4, <1>9, <1>10, SameSafe

-----------------------------------------------------------------------------
(* The theorems.                                                           *)

LEMMA StepSafe ==
  ASSUME IInv, [Next]_vars PROVE IInv' /\ (Next => StaysPut)
<1>1. CASE Next
  BY <1>1, NewSafe, NewOnBufferSafe, AppendAllSafe, InjectAllSafe, ConcatSafe,
     AppendFromCapacitySafe, TipexSafe, PopSafe, EvictSafe, WipeSafe, ClearSafe,
     KillSafe, SwapElemsSafe, SwapSafe, SettleSafe, SlimcheckSafe, ExtractSafe,
     PullSafe, FilterSafe, DupSafe DEF Next, Safe
<1>2. CASE UNCHANGED vars
  <2>1. IInv' /\ StaysPut
    BY <1>2 DEF vars, IInv, StaysPut
  <2>2. QED BY <2>1
<1>3. QED BY <1>1, <1>2

LEMMA Inductive == Spec => []IInv
<1>1. Init => IInv
  BY DEF Init, IInv, NoCall
<1>2. IInv /\ [Next]_vars => IInv'
  BY StepSafe
<1>3. QED BY <1>1, <1>2, PTL DEF Spec

\* Whatever calls are made, both arrays have the shape array_t says, and
\* hold elements in the slots below the size and in no other.
THEOREM ArrayTypeCorrect == Spec => []ArrayTypeOK
<1>1. IInv => ArrayTypeOK
  <2> SUFFICES ASSUME IInv PROVE ArrayTypeOK
    OBVIOUS
  <2>1. ASSUME NEW a \in {self, other} \ {Null}
        PROVE  /\ DOMAIN a = {"data", "slots", "size", "cap", "settled", "owner"}
               /\ a.size \in 0..MaxLen /\ a.cap \in Nat
               /\ DOMAIN a.slots = 0..(a.cap \div EltSize) - 1
               /\ \A i \in DOMAIN a.slots : a.slots[i] = Junk <=> i >= a.size
    <3>1. Sound(a) \/ Freed(a)
      BY DEF IInv
    <3>2. CASE Sound(a)
      BY <3>2 DEF Sound, Arrays, Room
    <3>3. CASE Freed(a)
      BY <3>3, FreedShape DEF Room
    <3>4. QED BY <3>1, <3>2, <3>3
  <2>2. QED BY <2>1 DEF ArrayTypeOK, IInv
<1>2. QED BY <1>1, Inductive, PTL

\* The elements of an array never go past the memory reserved for them.
THEOREM SizeWithinCapacityHolds == Spec => []SizeWithinCapacity
<1>1. IInv => SizeWithinCapacity
  BY FreedShape DEF IInv, Sound, SizeWithinCapacity
<1>2. QED BY <1>1, Inductive, PTL

\* A buffer that was borrowed is neither reallocated nor freed.
THEOREM BorrowedBufferKeptHolds == Spec => []BorrowedBufferKept
<1>1. IInv => BorrowedBufferKept
  BY DEF IInv, BorrowedBufferKept
<1>2. QED BY <1>1, Inductive, PTL

\* A settled array keeps its buffer until it is killed, swapped or unsettled.
THEOREM SettledStaysPutHolds == Spec => SettledStaysPut
<1>1. IInv /\ [Next]_vars =>
        [Live(self) /\ self.settled /\ call'.op \notin {"kill", "swap", "unsettle"} =>
           self'.cap = self.cap /\ Live(self')]_vars
  BY StepSafe DEF StaysPut
<1>2. QED BY <1>1, Inductive, PTL DEF Spec, SettledStaysPut

-----------------------------------------------------------------------------
(* The list that an array stands for.                                      *)

LEMMA Shown ==
  ASSUME NEW a, Sound(a)
  PROVE  /\ ListOf(a) = Content(a) /\ ListOf(a) \in Seq(Values) /\ Len(ListOf(a)) = a.size
         /\ \A i \in 1..a.size : ListOf(a)[i] = a.slots[i - 1]
<1>1. ListOf(a) = Content(a)
  BY SoundLive DEF ListOf
<1>2. QED BY <1>1, ContentOK DEF Content

LEMMA NoList == ListOf(Null) = <<Null>>
BY DEF ListOf, Live, Null

LEMMA Joined ==
  ASSUME NEW s \in Seq(Values), NEW t \in Seq(Values), NEW m \in Nat, m = Len(s),
         NEW n \in Nat, n = m + Len(t), NEW u, u = s \o t
  PROVE  /\ u \in Seq(Values) /\ Len(u) = n
         /\ \A i \in 1..n : u[i] = IF i <= m THEN s[i] ELSE t[i - m]
BY ConcatProperties

LEMMA Piece ==
  ASSUME NEW s \in Seq(Values), NEW p \in 0..Len(s), NEW q \in p..Len(s),
         NEW u, u = SubSeq(s, p + 1, q)
  PROVE  u \in Seq(Values) /\ Len(u) = q - p /\ \A i \in 1..(q - p) : u[i] = s[p + i]
<1>1. /\ Len(s) \in Nat /\ p \in Nat /\ q \in Nat /\ p <= q /\ q <= Len(s)
      /\ p + 1 \in Int /\ q - (p + 1) + 1 = q - p
  BY LenProperties
<1>2. \A i \in (p + 1)..q : s[i] \in Values
  <2>1. \A i \in (p + 1)..q : i \in 1..Len(s)
    BY <1>1
  <2>2. QED BY <2>1, ElementOfSeq
<1>3. /\ u \in Seq(Values) /\ Len(u) = (IF p + 1 <= q THEN q - (p + 1) + 1 ELSE 0)
      /\ \A i \in 1..(q - (p + 1) + 1) : u[i] = s[(p + 1) + i - 1]
  BY <1>1, <1>2, SubSeqProperties
<1>4. Len(u) = q - p
  BY <1>1, <1>3
<1>5. \A i \in 1..(q - p) : (p + 1) + i - 1 = p + i
  BY <1>1
<1>6. QED BY <1>1, <1>3, <1>4, <1>5

\* Which list it is, slot by slot.
LEMMA ShownAs ==
  ASSUME NEW a, Sound(a), NEW s, s \in Seq(Values), Len(s) = a.size,
         \A i \in 1..a.size : a.slots[i - 1] = s[i]
  PROVE  ListOf(a) = s
BY Shown, SeqEqual

LEMMA ResizedSlots ==
  ASSUME NEW a, Sound(a), NEW n \in Nat, n <= Room(a), NEW f, DOMAIN f = 0..Room(a) - 1,
         NEW b, b = Resized(a, f, n)
  PROVE  b.size = n /\ \A i \in 0..n - 1 : b.slots[i] = f[i]
<1>1. {"slots", "size"} \subseteq DOMAIN a
  BY DEF Sound, Arrays
<1>2. b.size = n /\ b.slots = [i \in DOMAIN f |-> IF i < n THEN f[i] ELSE Junk]
  BY <1>1 DEF Resized
<1>3. Room(a) \in Nat
  BY SoundShape
<1>4. ASSUME NEW i \in 0..n - 1 PROVE i \in DOMAIN f /\ i < n
  BY <1>3
<1>5. QED BY <1>2, <1>4

\* The first elements of a list, and those from one on.
LEMMA PieceOf ==
  ASSUME NEW l \in Seq(Values), NEW p \in 0..Len(l)
  PROVE  /\ SubSeq(l, 1, p) \in Seq(Values) /\ Len(SubSeq(l, 1, p)) = p
         /\ \A i \in 1..p : SubSeq(l, 1, p)[i] = l[i]
         /\ SubSeq(l, p + 1, Len(l)) \in Seq(Values)
         /\ Len(SubSeq(l, p + 1, Len(l))) = Len(l) - p
         /\ \A i \in 1..(Len(l) - p) : SubSeq(l, p + 1, Len(l))[i] = l[p + i]
<1>1. Len(l) \in Nat /\ p \in Nat /\ p <= Len(l)
  BY LenProperties
<1>2. PICK u : u = SubSeq(l, 1, p)
  OBVIOUS
<1>3. u \in Seq(Values) /\ Len(u) = p /\ \A i \in 1..p : u[i] = l[i]
  <2>1. 0 \in 0..Len(l) /\ p \in 0..Len(l) /\ u = SubSeq(l, 0 + 1, p) /\ p - 0 = p
        /\ \A i \in 1..p : 0 + i = i
    BY <1>1, <1>2
  <2>2. u \in Seq(Values) /\ Len(u) = p - 0 /\ \A i \in 1..(p - 0) : u[i] = l[0 + i]
    BY <2>1, Piece
  <2>3. QED BY <2>1, <2>2
<1>4. Len(l) \in p..Len(l)
  BY <1>1
<1>5. QED BY <1>1, <1>2, <1>3, <1>4, Piece

LEMMA AppendedShown ==
  ASSUME NEW a, Sound(a), NEW s, s \in Seq(Values), a.size + Len(s) <= MaxLen,
         (a.size + Len(s)) * EltSize <= a.cap, NEW b, b = Appended(a, s)
  PROVE  ListOf(b) = ListOf(a) \o s
<1>1. /\ a.size \in Nat /\ Len(s) \in Nat /\ DOMAIN a.slots = 0..Room(a) - 1
      /\ ListOf(a) \in Seq(Values) /\ Len(ListOf(a)) = a.size
      /\ \A i \in 1..a.size : ListOf(a)[i] = a.slots[i - 1]
  BY SoundShape, LenProperties, Shown
<1>2. PICK n \in Nat : n = a.size + Len(s)
  BY <1>1
<1>3. n <= Room(a) /\ Room(a) \in Nat
  BY <1>2, SlotsEnough
<1>4. PICK f : f = Put(a.slots, a.size, s)
  OBVIOUS
<1>5. f = [i \in 0..Room(a) - 1 |->
             IF i \in a.size..(a.size + Len(s) - 1) THEN s[i - a.size + 1] ELSE a.slots[i]]
  BY <1>1, <1>4 DEF Put
<1>6. b.size = n /\ \A i \in 0..n - 1 : b.slots[i] = f[i]
  BY <1>2, <1>3, <1>4, <1>5, ResizedSlots DEF Appended
<1>7. Sound(b)
  BY AppendedOK DEF Keeps
<1>8. PICK t : t = ListOf(a) \o s
  OBVIOUS
<1>9. t \in Seq(Values) /\ Len(t) = n
      /\ \A i \in 1..n : t[i] = IF i <= a.size THEN ListOf(a)[i] ELSE s[i - a.size]
  <2>1. n = a.size + Len(s) /\ a.size = Len(ListOf(a))
    BY <1>1, <1>2
  <2>2. QED BY <1>1, <1>8, <2>1, Joined
<1>10. ASSUME NEW i \in 1..n PROVE b.slots[i - 1] = t[i]
  <2>1. i - 1 \in 0..n - 1 /\ i - 1 \in 0..Room(a) - 1 /\ (i - 1) - a.size + 1 = i - a.size
    BY <1>1, <1>3
  <2>2. b.slots[i - 1] = f[i - 1]
    BY <1>6, <2>1
  <2>3. CASE i <= a.size
    <3>1. i \in 1..a.size /\ i - 1 \notin a.size..(a.size + Len(s) - 1)
      BY <1>1, <2>3
    <3>2. QED BY <1>1, <1>5, <1>9, <2>1, <2>2, <2>3, <3>1
  <2>4. CASE ~(i <= a.size)
    <3>1. i - 1 \in a.size..(a.size + Len(s) - 1)
      BY <1>1, <1>2, <2>4
    <3>2. QED BY <1>5, <1>9, <2>1, <2>2, <2>4, <3>1
  <2>5. QED BY <2>3, <2>4
<1>11. QED BY <1>6, <1>7, <1>8, <1>9, <1>10, ShownAs

LEMMA InjectedShown ==
  ASSUME NEW a, Sound(a), NEW s, s \in Seq(Values), a.size + Len(s) <= MaxLen,
         (a.size + Len(s)) * EltSize <= a.cap, NEW p \in 0..a.size,
         NEW b, b = Injected(a, p, s)
  PROVE  ListOf(b) = Promise!InsertAll(ListOf(a), p, s)
<1>1. /\ a.size \in Nat /\ Len(s) \in Nat /\ DOMAIN a.slots = 0..Room(a) - 1
      /\ ListOf(a) \in Seq(Values) /\ Len(ListOf(a)) = a.size
      /\ \A i \in 1..a.size : ListOf(a)[i] = a.slots[i - 1]
      /\ p \in Nat /\ p <= a.size
  BY SoundShape, LenProperties, Shown
<1>2. PICK n \in Nat : n = a.size + Len(s)
  BY <1>1
<1>3. n <= Room(a) /\ Room(a) \in Nat
  BY <1>2, SlotsEnough
<1>4. PICK f : f = Put(Move(a.slots, p + Len(s), p, a.size - p), p, s)
  OBVIOUS
<1>5. ASSUME NEW i \in 0..n - 1
      PROVE  f[i] = IF i < p THEN a.slots[i]
                    ELSE IF i < p + Len(s) THEN s[i - p + 1] ELSE a.slots[i - Len(s)]
  <2>1. i \in 0..Room(a) - 1
    BY <1>3
  <2>2. PICK g : g = Move(a.slots, p + Len(s), p, a.size - p)
    OBVIOUS
  <2>3. g = [j \in DOMAIN a.slots |->
             IF j \notin p + Len(s)..(p + Len(s) + (a.size - p) - 1) THEN a.slots[j]
             ELSE IF p + j - (p + Len(s)) \in DOMAIN a.slots
                  THEN a.slots[p + j - (p + Len(s))] ELSE Junk]
    BY <2>2 DEF Move
  <2>4. f[i] = IF i \in p..(p + Len(s) - 1) THEN s[i - p + 1] ELSE g[i]
    BY <1>1, <1>4, <2>1, <2>2, <2>3 DEF Put
  <2>5. CASE i < p
    <3>1. i \notin p..(p + Len(s) - 1)
          /\ i \notin p + Len(s)..(p + Len(s) + (a.size - p) - 1)
      BY <1>1, <2>5
    <3>2. QED BY <1>1, <2>1, <2>3, <2>4, <2>5, <3>1
  <2>6. CASE i >= p /\ i < p + Len(s)
    <3>1. i \in p..(p + Len(s) - 1) /\ ~(i < p)
      BY <1>1, <2>6
    <3>2. QED BY <2>4, <2>6, <3>1
  <2>7. CASE i >= p + Len(s)
    <3>1. PICK j : j = p + i - (p + Len(s))
      OBVIOUS
    <3>2. /\ i \in p + Len(s)..(p + Len(s) + (a.size - p) - 1)
          /\ i \notin p..(p + Len(s) - 1) /\ j \in 0..Room(a) - 1 /\ j = i - Len(s)
          /\ ~(i < p) /\ ~(i < p + Len(s))
      <4>1. i \in Int /\ i <= a.size + Len(s) - 1 /\ a.size + Len(s) <= Room(a)
        BY <1>1, <1>2, <1>3
      <4>2. j = i - Len(s) /\ j \in Int /\ p <= j /\ j <= a.size - 1
        BY <1>1, <2>7, <3>1, <4>1
      <4>3. j \in 0..Room(a) - 1
        BY <1>1, <1>3, <4>1, <4>2
      <4>4. QED BY <1>1, <2>7, <4>1, <4>2, <4>3
    <3>3. g[i] = a.slots[j]
      BY <1>1, <2>1, <2>3, <3>1, <3>2
    <3>4. QED BY <2>4, <3>2, <3>3
  <2>8. QED BY <1>1, <2>5, <2>6, <2>7
<1>6. b.size = n /\ \A i \in 0..n - 1 : b.slots[i] = f[i]
  <2>1. DOMAIN f = 0..Room(a) - 1
    BY <1>1, <1>4 DEF Put, Move
  <2>2. b = Resized(a, f, n)
    BY <1>2, <1>4 DEF Injected
  <2>3. QED BY <1>3, <2>1, <2>2, ResizedSlots
<1>7. Sound(b)
  BY InjectedOK DEF Keeps
<1>8. PICK l : l = ListOf(a)
  OBVIOUS
<1>9. PICK u : u = SubSeq(l, 1, p)
  OBVIOUS
<1>10. PICK v : v = SubSeq(l, p + 1, Len(l))
  OBVIOUS
<1>11. PICK t : t = u \o s \o v
  OBVIOUS
<1>12. /\ u \in Seq(Values) /\ Len(u) = p /\ \A i \in 1..p : u[i] = l[i]
       /\ v \in Seq(Values) /\ Len(v) = a.size - p
       /\ \A i \in 1..(a.size - p) : v[i] = l[p + i]
  <2>1. l \in Seq(Values) /\ Len(l) = a.size /\ p \in 0..Len(l)
    BY <1>1, <1>8
  <2>2. /\ u \in Seq(Values) /\ Len(u) = p /\ \A i \in 1..p : u[i] = l[i]
        /\ v \in Seq(Values) /\ Len(v) = Len(l) - p
        /\ \A i \in 1..(Len(l) - p) : v[i] = l[p + i]
    BY <1>9, <1>10, <2>1, PieceOf
  <2>3. QED BY <2>1, <2>2
<1>13. PICK m \in Nat : m = p + Len(s)
  BY <1>1
<1>14. PICK w : w = u \o s
  OBVIOUS
<1>18. /\ w \in Seq(Values) /\ Len(w) = m
       /\ \A i \in 1..m : w[i] = IF i <= p THEN u[i] ELSE s[i - p]
  <2>1. p = Len(u) /\ m = p + Len(s) /\ s \in Seq(Values)
    BY <1>12, <1>13
  <2>2. u \in Seq(Values) /\ p \in Nat /\ m \in Nat
    BY <1>1, <1>12, <1>13
  <2>3. QED BY <1>14, <2>1, <2>2, Joined
<1>19. /\ t \in Seq(Values) /\ Len(t) = n
       /\ \A i \in 1..n : t[i] = IF i <= m THEN w[i] ELSE v[i - m]
  <2>1. n = m + Len(v)
    BY <1>1, <1>2, <1>12, <1>13
  <2>2. t = w \o v
    BY <1>11, <1>14
  <2>3. m = Len(w)
    BY <1>18
  <2>4. v \in Seq(Values) /\ w \in Seq(Values) /\ m \in Nat /\ n \in Nat
    BY <1>2, <1>12, <1>13, <1>18
  <2>5. QED BY <2>1, <2>2, <2>3, <2>4, Joined
<1>15. ASSUME NEW i \in 1..n PROVE b.slots[i - 1] = t[i]
  <2>1. PICK j \in 0..n - 1 : j = i - 1
    OBVIOUS
  <2>2. CASE i <= p
    <3>1. i \in 1..p /\ i \in 1..m /\ i \in 1..a.size /\ j < p /\ i <= m
      BY <1>1, <1>13, <2>1, <2>2
    <3>2. t[i] = w[i] /\ w[i] = u[i] /\ u[i] = l[i] /\ l[i] = a.slots[i - 1]
      BY <1>1, <1>8, <1>12, <1>18, <1>19, <2>2, <3>1
    <3>3. QED BY <1>5, <1>6, <2>1, <3>1, <3>2
  <2>3. CASE ~(i <= p) /\ i <= m
    <3>1. i \in 1..m /\ ~(j < p) /\ j < p + Len(s) /\ j - p + 1 = i - p
      BY <1>1, <1>13, <2>1, <2>3
    <3>2. t[i] = s[i - p]
      BY <1>18, <1>19, <2>3, <3>1
    <3>3. QED BY <1>5, <1>6, <2>1, <3>1, <3>2
  <2>4. CASE ~(i <= m)
    <3>1. PICK k : k = i - m
      OBVIOUS
    <3>2. /\ k \in 1..(a.size - p) /\ p + k \in 1..a.size /\ ~(j < p) /\ ~(j < p + Len(s))
          /\ (p + k) - 1 = j - Len(s)
      <4>1. i \in Int /\ i <= a.size + Len(s) /\ i > p + Len(s) /\ k = i - p - Len(s)
        BY <1>1, <1>2, <1>13, <2>4, <3>1
      <4>2. k \in Int /\ k >= 1 /\ p + k <= a.size
        BY <1>1, <4>1
      <4>4. k \in 1..(a.size - p) /\ p + k \in 1..a.size
        BY <1>1, <4>2
      <4>3. QED BY <1>1, <2>1, <4>1, <4>4
    <3>3. t[i] = l[p + k]
      BY <1>12, <1>19, <2>4, <3>1, <3>2
    <3>4. l[p + k] = a.slots[j - Len(s)]
      BY <1>1, <1>8, <3>2
    <3>5. b.slots[j] = a.slots[j - Len(s)]
      BY <1>5, <1>6, <3>2
    <3>6. QED BY <2>1, <3>3, <3>4, <3>5
  <2>5. QED BY <2>2, <2>3, <2>4
<1>16. ListOf(b) = t
  BY <1>6, <1>7, <1>15, <1>19, ShownAs
<1>17. QED BY <1>8, <1>9, <1>10, <1>11, <1>16 DEF Promise!InsertAll

LEMMA CutShown ==
  ASSUME NEW a, Sound(a), NEW p \in 0..a.size, NEW q \in p..a.size,
         NEW b, b = Resized(a, Move(a.slots, p, q, a.size - q), a.size - (q - p))
  PROVE  ListOf(b) = Promise!Cut(ListOf(a), p, q)
<1>1. /\ a.size \in Nat /\ DOMAIN a.slots = 0..Room(a) - 1 /\ Room(a) \in Nat
      /\ a.size <= Room(a)
      /\ ListOf(a) \in Seq(Values) /\ Len(ListOf(a)) = a.size
      /\ \A i \in 1..a.size : ListOf(a)[i] = a.slots[i - 1]
      /\ p \in Nat /\ p <= q /\ q \in Nat /\ q <= a.size
  BY SoundShape, Shown
<1>2. PICK n \in Nat : n = a.size - (q - p)
  BY <1>1
<1>3. n <= a.size /\ n <= Room(a)
  BY <1>1, <1>2
<1>4. PICK f : f = Move(a.slots, p, q, a.size - q)
  OBVIOUS
<1>5. f = [i \in DOMAIN a.slots |->
             IF i \notin p..(p + (a.size - q) - 1) THEN a.slots[i]
             ELSE IF q + i - p \in DOMAIN a.slots THEN a.slots[q + i - p] ELSE Junk]
  BY <1>4 DEF Move
<1>6. b.size = n /\ \A i \in 0..n - 1 : b.slots[i] = f[i]
  <2>1. DOMAIN f = 0..Room(a) - 1
    BY <1>1, <1>5
  <2>2. b = Resized(a, f, n)
    BY <1>2, <1>4
  <2>3. n \in Nat /\ n <= Room(a) /\ Sound(a)
    BY <1>3
  <2>4. ASSUME NEW c, c = Resized(a, f, n)
        PROVE  c.size = n /\ \A i \in 0..n - 1 : c.slots[i] = f[i]
    BY <1>1, <2>1, <2>3, <2>4, ResizedSlots
  <2>5. QED BY <2>2, <2>4
<1>7. Sound(b)
  BY CutOK DEF Keeps
<1>8. PICK l : l = ListOf(a)
  OBVIOUS
<1>9. PICK u : u = SubSeq(l, 1, p)
  OBVIOUS
<1>10. PICK v : v = SubSeq(l, q + 1, Len(l))
  OBVIOUS
<1>11. PICK t : t = u \o v
  OBVIOUS
<1>12. /\ u \in Seq(Values) /\ Len(u) = p /\ \A i \in 1..p : u[i] = l[i]
       /\ v \in Seq(Values) /\ Len(v) = a.size - q
       /\ \A i \in 1..(a.size - q) : v[i] = l[q + i]
  <2>1. l \in Seq(Values) /\ Len(l) = a.size /\ p \in 0..Len(l) /\ q \in 0..Len(l)
    BY <1>1, <1>8
  <2>2. /\ u \in Seq(Values) /\ Len(u) = p /\ \A i \in 1..p : u[i] = l[i]
    BY <1>9, <2>1, PieceOf
  <2>3. /\ v \in Seq(Values) /\ Len(v) = Len(l) - q
        /\ \A i \in 1..(Len(l) - q) : v[i] = l[q + i]
    BY <1>10, <2>1, PieceOf
  <2>4. QED BY <2>1, <2>2, <2>3
<1>13. /\ t \in Seq(Values) /\ Len(t) = n
       /\ \A i \in 1..n : t[i] = IF i <= p THEN u[i] ELSE v[i - p]
  <2>1. n = p + Len(v) /\ p = Len(u)
    BY <1>1, <1>2, <1>12
  <2>2. v \in Seq(Values) /\ u \in Seq(Values) /\ p \in Nat /\ n \in Nat
    BY <1>1, <1>2, <1>12
  <2>3. QED BY <1>11, <2>1, <2>2, Joined
<1>14. ASSUME NEW i \in 1..n PROVE b.slots[i - 1] = t[i]
  <2>1. PICK j \in 0..n - 1 : j = i - 1
    OBVIOUS
  <2>2. j \in DOMAIN a.slots /\ b.slots[j] = f[j]
    BY <1>1, <1>3, <1>6
  <2>3. CASE i <= p
    <3>1. i \in 1..p /\ i \in 1..a.size /\ j \notin p..(p + (a.size - q) - 1)
      BY <1>1, <2>1, <2>3
    <3>2. t[i] = a.slots[j]
      BY <1>1, <1>8, <1>12, <1>13, <2>1, <2>3, <3>1
    <3>3. QED BY <1>5, <2>1, <2>2, <3>1, <3>2
  <2>4. CASE ~(i <= p)
    <3>1. PICK k : k = q + j - p
      OBVIOUS
    <3>2. /\ j \in p..(p + (a.size - q) - 1) /\ k \in DOMAIN a.slots
          /\ i - p \in 1..(a.size - q) /\ q + (i - p) \in 1..a.size
          /\ (q + (i - p)) - 1 = k
      <4>1. i \in Int /\ i <= a.size - (q - p) /\ i > p /\ j = i - 1
        BY <1>1, <1>2, <2>1, <2>4
      <4>2. j \in p..(p + (a.size - q) - 1) /\ k \in Int /\ q <= k /\ k <= a.size - 1
        BY <1>1, <3>1, <4>1
      <4>3. k \in DOMAIN a.slots
        BY <1>1, <4>2
      <4>4. QED BY <1>1, <3>1, <4>1, <4>2, <4>3
    <3>3. f[j] = a.slots[k]
      BY <1>5, <2>2, <3>1, <3>2
    <3>4. t[i] = l[q + (i - p)]
      BY <1>12, <1>13, <2>4, <3>2
    <3>5. QED BY <1>1, <1>8, <2>1, <2>2, <3>2, <3>3, <3>4
  <2>5. QED BY <2>3, <2>4
<1>15. ListOf(b) = t
  BY <1>6, <1>7, <1>13, <1>14, ShownAs
<1>16. QED BY <1>8, <1>9, <1>10, <1>11, <1>15 DEF Promise!Cut

\* The first n elements: array_pop, array_clear.
LEMMA KeptShown ==
  ASSUME NEW a, Sound(a), NEW n \in 0..a.size, NEW b, b = Resized(a, a.slots, n)
  PROVE  ListOf(b) = SubSeq(ListOf(a), 1, n)
<1>1. /\ a.size \in Nat /\ DOMAIN a.slots = 0..Room(a) - 1 /\ a.size <= Room(a)
      /\ Room(a) \in Nat /\ n \in Nat /\ n <= a.size
      /\ ListOf(a) \in Seq(Values) /\ Len(ListOf(a)) = a.size
      /\ \A i \in 1..a.size : ListOf(a)[i] = a.slots[i - 1]
  BY SoundShape, Shown
<1>2. b.size = n /\ \A i \in 0..n - 1 : b.slots[i] = a.slots[i]
  <2>1. n \in Nat /\ n <= Room(a) /\ DOMAIN a.slots = 0..Room(a) - 1
    BY <1>1
  <2>2. QED BY <2>1, ResizedSlots
<1>3. Sound(b)
  BY KeptOK DEF Keeps
<1>4. PICK l : l = ListOf(a)
  OBVIOUS
<1>5. PICK t : t = SubSeq(l, 1, n)
  OBVIOUS
<1>6. t \in Seq(Values) /\ Len(t) = n /\ \A i \in 1..n : t[i] = l[i]
  BY <1>1, <1>4, <1>5
<1>7. ASSUME NEW i \in 1..n PROVE b.slots[i - 1] = t[i]
  <2>1. i \in 1..a.size /\ i - 1 \in 0..n - 1
    BY <1>1
  <2>2. QED BY <1>1, <1>2, <1>4, <1>6, <2>1
<1>8. QED BY <1>2, <1>3, <1>4, <1>5, <1>6, <1>7, ShownAs

\* A buffer of another size with the same elements.
LEMMA SameSlots ==
  ASSUME NEW a, Sound(a), NEW b, Sound(b), b.size = a.size,
         \A i \in 0..a.size - 1 : b.slots[i] = a.slots[i]
  PROVE  ListOf(b) = ListOf(a)
<1>1. /\ a.size \in Nat /\ ListOf(a) \in Seq(Values) /\ Len(ListOf(a)) = a.size
      /\ \A i \in 1..a.size : ListOf(a)[i] = a.slots[i - 1]
  BY SoundShape, Shown
<1>2. \A i \in 1..a.size : i - 1 \in 0..a.size - 1
  BY <1>1
<1>3. \A i \in 1..b.size : b.slots[i - 1] = ListOf(a)[i]
  BY <1>1, <1>2
<1>4. QED BY <1>1, <1>3, ShownAs

LEMMA ReallocatedShown ==
  ASSUME NEW a, Sound(a), NEW cap \in Nat, a.size * EltSize <= cap,
         NEW b, b = Reallocated(a, cap)
  PROVE  ListOf(b) = ListOf(a)
<1>1. /\ a.size \in Nat /\ \A i \in 0..a.size - 1 : i \in DOMAIN a.slots
  BY SoundShape
<1>2. Sound(b) /\ b.size = a.size
  BY ReallocatedOK
<1>3. "slots" \in DOMAIN a
  BY DEF Sound, Arrays
<1>4. b.slots = Slots(a.slots, cap)
  BY <1>3 DEF Reallocated
<1>5. a.size <= cap \div EltSize /\ cap \div EltSize \in Nat
  BY <1>1, Constants, Division
<1>6. \A i \in 0..a.size - 1 : i \in 0..(cap \div EltSize) - 1
  BY <1>1, <1>5
<1>7. \A i \in 0..a.size - 1 : b.slots[i] = a.slots[i]
  BY <1>1, <1>4, <1>6 DEF Slots
<1>8. QED BY <1>2, <1>7, SameSlots

LEMMA AdjustShown ==
  ASSUME NEW a, Sound(a), NEW n \in Nat, NEW r \in Adjust(a, n)
  PROVE  ListOf(r.a) = ListOf(a)
<1>1. r.a = a \/ r.a = Reallocated(a, NewCap(a, n))
  BY DEF Adjust
<1>2. ASSUME r.a = Reallocated(a, NewCap(a, n)) PROVE ListOf(r.a) = ListOf(a)
  <2>1. PICK cap \in Nat : cap = NewCap(a, n) /\ cap >= Needed(a, n)
    BY NewCapOK
  <2>2. a.size \in Nat /\ a.size <= a.size + n /\ a.size + n \in Nat
    BY SoundShape
  <2>3. a.size * EltSize <= (a.size + n) * EltSize /\ a.size * EltSize \in Nat
        /\ (a.size + n) * EltSize \in Nat
    BY <2>2, Constants, MoreBytes
  <2>4. a.size * EltSize <= cap
    BY <2>1, <2>3 DEF Needed
  <2>5. QED BY <1>2, <2>1, <2>4, ReallocatedShown
<1>3. QED BY <1>1, <1>2

LEMMA BufferShown ==
  ASSUME NEW s, s \in Seq(Values), Len(s) <= MaxLen, NEW cap, cap \in Nat,
         Len(s) * EltSize <= cap, NEW settled, settled \in BOOLEAN,
         NEW owner, owner \in BOOLEAN, ~owner => settled,
         NEW b, b = Buffer(s, cap, settled, owner)
  PROVE  ListOf(b) = s
<1>1. Sound(b) /\ b.size = Len(s)
  BY BufferOK
<1>2. PICK n \in Nat : n = Len(s)
  BY LenProperties
<1>3. n <= cap \div EltSize /\ cap \div EltSize \in Nat
  BY <1>2, Constants, Division
<1>4. b.slots = Slots(FromSeq(s), cap)
  BY DEF Buffer
<1>5. ASSUME NEW i \in 1..n PROVE b.slots[i - 1] = s[i]
  <2>1. PICK j \in 0..n - 1 : j = i - 1 /\ j + 1 = i
    OBVIOUS
  <2>2. j \in 0..(cap \div EltSize) - 1
    BY <1>3
  <2>3. PICK f : f = FromSeq(s)
    OBVIOUS
  <2>4. j \in DOMAIN f /\ f[j] = s[j + 1]
    BY <1>2, <2>3 DEF FromSeq
  <2>5. b.slots[j] = f[j]
    BY <1>4, <2>2, <2>3, <2>4 DEF Slots
  <2>6. QED BY <2>1, <2>4, <2>5
<1>6. QED BY <1>1, <1>2, <1>5, ShownAs

LEMMA CreateShown ==
  ASSUME NEW n \in Nat, NEW b, b = Create(n) PROVE ListOf(b) = <<>>
<1>1. Sound(b) /\ b.size = 0
  BY CreateOK
<1>2. PICK s \in Seq(Values) : s = <<>> /\ Len(s) = 0
  BY EmptySeq
<1>3. \A i \in 1..b.size : b.slots[i - 1] = s[i]
  BY <1>1
<1>4. QED BY <1>1, <1>2, <1>3, ShownAs

LEMMA PullShown ==
  ASSUME NEW a, Sound(a), NEW p \in (1 - a.size)..(a.size - 1),
         NEW q \in (1 - a.size)..(a.size - 1)
  PROVE  PullFrom(a, p, q) = Promise!Slice(ListOf(a), p, q)
<1>1. /\ a.size \in Nat /\ ListOf(a) \in Seq(Values) /\ Len(ListOf(a)) = a.size
      /\ \A i \in 1..a.size : ListOf(a)[i] = a.slots[i - 1]
  BY SoundShape, Shown
<1>2. PICK from : from = IF p < 0 THEN p + a.size ELSE p
  OBVIOUS
<1>3. PICK to : to = IF q < 0 THEN q + a.size ELSE q
  OBVIOUS
<1>4. from \in 0..a.size - 1 /\ to \in 0..a.size - 1
  BY <1>1, <1>2, <1>3
<1>5. PICK past : past = IF from < to THEN to + 1 ELSE to - 1
  OBVIOUS
<1>6. PullFrom(a, p, q) = IF from < past THEN [i \in 1..(past - from) |-> a.slots[from + i - 1]]
                          ELSE [i \in 1..(from - past) |-> a.slots[from - i + 1]]
  BY <1>2, <1>3, <1>5 DEF PullFrom
<1>7. PICK l : l = ListOf(a)
  OBVIOUS
<1>8. Promise!Slice(l, p, q) =
        IF from + 1 <= to + 1 THEN SubSeq(l, from + 1, to + 1)
        ELSE Reverse(SubSeq(l, to + 1, from + 1))
  <2>1. from + 1 = (IF p < 0 THEN p + Len(l) + 1 ELSE p + 1)
    BY <1>1, <1>2, <1>7
  <2>2. to + 1 = (IF q < 0 THEN q + Len(l) + 1 ELSE q + 1)
    BY <1>1, <1>3, <1>7
  <2>3. QED BY <2>1, <2>2 DEF Promise!Slice, Reverse, Promise!Reverse
<1>9. PullFrom(a, p, q) \in Seq(Values)
  BY PullFromOK
<1>10. PICK s : s = PullFrom(a, p, q)
  OBVIOUS
<1>11. CASE from < to
  <2>1. PICK n \in Nat : n = to + 1 - from
    BY <1>4, <1>11
  <2>2. past = to + 1 /\ from < past /\ past - from = n
    BY <1>4, <1>5, <1>11, <2>1
  <2>3. s = [i \in 1..n |-> a.slots[from + i - 1]]
    BY <1>6, <1>10, <2>2
  <2>4. PICK t : t = SubSeq(l, from + 1, to + 1)
    OBVIOUS
  <2>5. t \in Seq(Values) /\ Len(t) = n /\ \A i \in 1..n : t[i] = l[from + i]
    <3>1. Len(l) \in Nat /\ Len(l) = a.size /\ l \in Seq(Values)
      BY <1>1, <1>7
    <3>2. PICK e : e = to + 1
      OBVIOUS
    <3>3. from \in 0..Len(l) /\ e \in from..Len(l) /\ e - from = n
      BY <1>4, <1>11, <2>1, <3>1, <3>2
    <3>4. t = SubSeq(l, from + 1, e)
      BY <2>4, <3>2
    <3>5. /\ t \in Seq(Values) /\ Len(t) = e - from
          /\ \A i \in 1..(e - from) : t[i] = l[from + i]
      BY <3>1, <3>3, <3>4, Piece
    <3>6. QED BY <3>3, <3>5
  <2>6. ASSUME NEW i \in 1..n PROVE s[i] = t[i]
    <3>0. i \in Int /\ 1 <= i /\ i <= to + 1 - from /\ from \in Int /\ to \in Int
          /\ 0 <= from /\ to <= a.size - 1
      BY <1>1, <1>4, <2>1
    <3>1. from + i \in 1..a.size /\ from + i - 1 = (from + i) - 1
      BY <1>1, <3>0
    <3>2. QED BY <1>1, <1>7, <2>3, <2>5, <3>1
  <2>7. s \in Seq(Values) /\ Len(s) = n
    BY <1>9, <1>10, <2>1, <2>3
  <2>8. s = t
    BY <2>5, <2>6, <2>7, SeqEqual
  <2>9. from + 1 <= to + 1
    BY <1>4, <1>11
  <2>10. QED BY <1>7, <1>8, <1>10, <2>4, <2>8, <2>9
<1>12. CASE ~(from < to)
  <2>1. PICK n \in Nat : n = from - to + 1
    BY <1>4, <1>12
  <2>2. past = to - 1 /\ ~(from < past) /\ from - past = n
    BY <1>4, <1>5, <1>12, <2>1
  <2>3. s = [i \in 1..n |-> a.slots[from - i + 1]]
    BY <1>6, <1>10, <2>2
  <2>4. PICK u : u = SubSeq(l, to + 1, from + 1)
    OBVIOUS
  <2>5. u \in Seq(Values) /\ Len(u) = n /\ \A i \in 1..n : u[i] = l[to + i]
    <3>1. Len(l) \in Nat /\ Len(l) = a.size /\ l \in Seq(Values)
      BY <1>1, <1>7
    <3>2. from \in Int /\ to \in Int /\ 0 <= to /\ to <= from /\ from + 1 <= Len(l)
      BY <1>4, <1>12, <3>1
    <3>3. PICK e : e = from + 1
      OBVIOUS
    <3>4. to \in 0..Len(l) /\ e \in to..Len(l) /\ e - to = n
      BY <2>1, <3>1, <3>2, <3>3
    <3>5. u = SubSeq(l, to + 1, e)
      BY <2>4, <3>3
    <3>6. /\ u \in Seq(Values) /\ Len(u) = e - to
          /\ \A i \in 1..(e - to) : u[i] = l[to + i]
      BY <3>1, <3>4, <3>5, Piece
    <3>7. QED BY <3>4, <3>6
  <2>6. Reverse(u) = [i \in 1..n |-> u[n - i + 1]]
    BY <2>5 DEF Reverse
  <2>7. ASSUME NEW i \in 1..n PROVE a.slots[from - i + 1] = u[n - i + 1]
    <3>1. n - i + 1 \in 1..n /\ to + (n - i + 1) \in 1..a.size
          /\ (to + (n - i + 1)) - 1 = from - i + 1
      BY <1>1, <1>4, <1>12, <2>1
    <3>2. QED BY <1>1, <1>7, <2>5, <3>1
  <2>8. s = Reverse(u)
    BY <2>3, <2>6, <2>7
  <2>9. CASE from = to
    <3>1. n = 1
      BY <1>4, <2>1, <2>9
    <3>2. s = u
      <4>1. s \in Seq(Values) /\ Len(s) = n
        BY <1>9, <1>10, <2>1, <2>3
      <4>2. \A i \in 1..n : s[i] = u[i]
        <5>1. ASSUME NEW i \in 1..n PROVE n - i + 1 = i
          BY <3>1
        <5>2. QED BY <2>6, <2>8, <5>1
      <4>3. QED BY <2>5, <4>1, <4>2, SeqEqual
    <3>3. from + 1 <= to + 1
      BY <1>4, <2>9
    <3>4. QED BY <1>7, <1>8, <1>10, <2>4, <2>9, <3>2, <3>3
  <2>10. CASE from # to
    <3>1. ~(from + 1 <= to + 1)
      BY <1>4, <1>12, <2>10
    <3>2. QED BY <1>7, <1>8, <1>10, <2>4, <2>8, <3>1
  <2>11. QED BY <2>9, <2>10
<1>13. QED BY <1>11, <1>12

LEMMA PushedShown ==
  ASSUME NEW a, Sound(a), a.size + 1 <= MaxLen, NEW e \in Values, NEW b, b = Pushed(a, e)
  PROVE  ListOf(b) = ListOf(a) \o <<e>>
<1>1. PICK s \in Seq(Values) : s = <<e>>
  <2>1. <<e>> \in Seq(Values)
    OBVIOUS
  <2>2. QED BY <2>1
<1>7. Len(s) = 1
  BY <1>1
<1>2. PICK c : c = IF Fits(a, 1) THEN a ELSE Reallocated(a, NewCap(a, 1))
  OBVIOUS
<1>3. Keeps(c, a, a.size) /\ (a.size + 1) * EltSize <= c.cap /\ ListOf(c) = ListOf(a)
  <2>1. CASE Fits(a, 1)
    <3>1. a.size \in Nat /\ a.cap \in Nat
      BY SoundShape
    <3>2. (a.size + 1) * EltSize \in Nat
      BY <3>1, Constants
    <3>3. QED BY <1>2, <2>1, <3>1, <3>2 DEF Fits, Needed, Keeps
  <2>2. CASE ~Fits(a, 1)
    <3>1. 1 \in Nat /\ c = Reallocated(a, NewCap(a, 1))
      BY <1>2, <2>2
    <3>2. NewCap(a, 1) \in Nat /\ NewCap(a, 1) >= Needed(a, 1)
      BY <3>1, NewCapOK
    <3>3. a.size \in Nat /\ a.size + 1 \in Nat /\ a.size <= a.size + 1
      BY SoundShape
    <3>4. a.size * EltSize <= (a.size + 1) * EltSize /\ a.size * EltSize \in Nat
          /\ (a.size + 1) * EltSize \in Nat
      BY <3>3, Constants, MoreBytes
    <3>5. a.size * EltSize <= NewCap(a, 1)
      BY <3>2, <3>4 DEF Needed
    <3>6. ListOf(c) = ListOf(a)
      BY <3>1, <3>2, <3>5, ReallocatedShown
    <3>7. QED BY <3>1, <3>6, GrownOK
  <2>3. QED BY <2>1, <2>2
<1>4. /\ Sound(c) /\ c.size + Len(s) <= MaxLen /\ (c.size + Len(s)) * EltSize <= c.cap
      /\ b = Appended(c, s)
  BY <1>1, <1>2, <1>3, <1>7 DEF Keeps, Pushed
<1>5. ListOf(b) = ListOf(c) \o s
  BY <1>4, AppendedShown
<1>6. QED BY <1>1, <1>3, <1>5

-----------------------------------------------------------------------------
(* What array_filter has kept.                                             *)

\* m is what the first n elements of a leave when only those of keep stay.
Picks(m, a, keep, n) ==
  \E at \in [1..Len(m) -> 1..n] :
    /\ \A i \in 1..n : a.slots[i - 1] \in keep <=> \E j \in 1..Len(m) : at[j] = i
    /\ \A i, j \in 1..Len(m) : i < j => at[i] < at[j]
    /\ \A i \in 1..Len(m) : m[i] = a.slots[at[i] - 1]

LEMMA PicksMore ==
  ASSUME NEW a, NEW keep, NEW n \in Nat, NEW m \in Seq(Values), Picks(m, a, keep, n)
  PROVE  /\ a.slots[n] \notin keep => Picks(m, a, keep, n + 1)
         /\ a.slots[n] \in keep /\ a.slots[n] \in Values => 
              Picks(m \o <<a.slots[n]>>, a, keep, n + 1)
<1>1. PICK k \in Nat : k = Len(m)
  BY LenProperties
<1>2. PICK at \in [1..k -> 1..n] :
        /\ \A i \in 1..n : a.slots[i - 1] \in keep <=> \E j \in 1..k : at[j] = i
        /\ \A i, j \in 1..k : i < j => at[i] < at[j]
        /\ \A i \in 1..k : m[i] = a.slots[at[i] - 1]
  BY <1>1 DEF Picks
<1>3. \A i \in 1..n + 1 : i \in 1..n \/ i = n + 1
  OBVIOUS
<1>4. \A j \in 1..k : at[j] \in 1..n /\ at[j] \in 1..n + 1 /\ at[j] # n + 1
  BY <1>2
<1>5. ASSUME a.slots[n] \notin keep PROVE Picks(m, a, keep, n + 1)
  <2>1. at \in [1..k -> 1..n + 1]
    BY <1>2, <1>4
  <2>2. \A i \in 1..n + 1 : a.slots[i - 1] \in keep <=> \E j \in 1..k : at[j] = i
    <3>1. (n + 1) - 1 = n
      OBVIOUS
    <3>2. QED BY <1>2, <1>3, <1>4, <1>5, <3>1
  <2>3. QED BY <1>1, <1>2, <2>1, <2>2 DEF Picks
<1>6. ASSUME a.slots[n] \in keep, a.slots[n] \in Values
      PROVE  Picks(m \o <<a.slots[n]>>, a, keep, n + 1)
  <2>1. PICK e \in Values : e = a.slots[n]
    BY <1>6
  <2>2. PICK u : u = m \o <<e>>
    OBVIOUS
  <2>3. /\ u \in Seq(Values) /\ Len(u) = k + 1 /\ \A i \in 1..k : u[i] = m[i]
        /\ u[k + 1] = e
    BY <1>1, <2>2, AppendProperties, AppendIsConcat
  <2>4. PICK at2 : at2 = [i \in 1..k + 1 |-> IF i <= k THEN at[i] ELSE n + 1]
    OBVIOUS
  <2>5. /\ \A i \in 1..k : i \in 1..k + 1 /\ at2[i] = at[i]
        /\ at2[k + 1] = n + 1 /\ k + 1 \in 1..k + 1
        /\ \A i \in 1..k + 1 : i \in 1..k \/ i = k + 1
    BY <2>4
  <2>6. at2 \in [1..k + 1 -> 1..n + 1]
    <3>1. \A i \in 1..k + 1 : at2[i] \in 1..n + 1
      BY <1>4, <2>5
    <3>2. QED BY <2>4, <3>1
  <2>7. \A i \in 1..n + 1 : a.slots[i - 1] \in keep <=> \E j \in 1..k + 1 : at2[j] = i
    <3>1. (n + 1) - 1 = n /\ \A i \in 1..n : i # n + 1
      OBVIOUS
    <3>2. ASSUME NEW i \in 1..n
          PROVE  a.slots[i - 1] \in keep <=> \E j \in 1..k + 1 : at2[j] = i
      BY <1>2, <2>5, <3>1
    <3>3. a.slots[n] \in keep /\ \E j \in 1..k + 1 : at2[j] = n + 1
      BY <1>6, <2>5
    <3>4. QED BY <1>3, <3>1, <3>2, <3>3
  <2>8. ASSUME NEW i \in 1..k + 1, NEW j \in 1..k + 1, i < j PROVE at2[i] < at2[j]
    <3>1. i \in 1..k
      BY <2>8
    <3>2. CASE j \in 1..k
      BY <1>2, <2>5, <2>8, <3>1, <3>2
    <3>3. CASE j = k + 1
      BY <1>4, <2>5, <3>1, <3>3
    <3>4. QED BY <2>5, <3>2, <3>3
  <2>9. \A i \in 1..k + 1 : u[i] = a.slots[at2[i] - 1]
    <3>1. (n + 1) - 1 = n
      OBVIOUS
    <3>2. QED BY <1>2, <2>1, <2>3, <2>5, <3>1
  <2>10. Picks(u, a, keep, n + 1)
    <3>1. PICK w : w = k + 1
      OBVIOUS
    <3>2. /\ Len(u) = w /\ at2 \in [1..w -> 1..n + 1]
          /\ \A i \in 1..n + 1 : a.slots[i - 1] \in keep <=> \E j \in 1..w : at2[j] = i
          /\ \A i, j \in 1..w : i < j => at2[i] < at2[j]
          /\ \A i \in 1..w : u[i] = a.slots[at2[i] - 1]
      BY <2>3, <2>6, <2>7, <2>8, <2>9, <3>1
    <3>3. QED BY <3>2 DEF Picks
  <2>11. QED BY <2>1, <2>2, <2>10
<1>7. QED BY <1>5, <1>6

LEMMA FilteredShown ==
  ASSUME NEW a, Sound(a), NEW keep, NEW f, f = Filtered(a, keep), NEW n \in 0..a.size
  PROVE  Picks(ListOf(f[n]), a, keep, n)
<1>1. a.size \in Nat /\ a.size <= MaxLen /\ \A i \in 0..a.size - 1 : a.slots[i] \in Values
  BY SoundShape
<1>2. f = [k \in 0..a.size |-> After(a, keep, f, k)]
  <2>1. f = CHOOSE g : g = [k \in 0..a.size |-> After(a, keep, g, k)]
    BY DEF Filtered, After
  <2>2. \E g : g = [k \in 0..a.size |-> After(a, keep, g, k)]
    BY <1>1, FilteredExists
  <2>3. QED BY <2>1, <2>2
<1> DEFINE Good == {k \in 0..a.size : /\ Sound(f[k]) /\ f[k].size <= k
                                       /\ Picks(ListOf(f[k]), a, keep, k)}
           T == (0..a.size) \ Good
<1>3. 0 \in Good
  <2>1. f[0] = Create(InitialSize) /\ InitialSize \in Nat
    BY <1>1, <1>2, Constants DEF After
  <2>2. Sound(f[0]) /\ f[0].size = 0 /\ ListOf(f[0]) = <<>>
    BY <2>1, CreateOK, CreateShown
  <2>3. PICK m : m = ListOf(f[0])
    OBVIOUS
  <2>4. Len(m) = 0
    BY <2>2, <2>3
  <2>5. PICK at : at = [j \in 1..0 |-> 0]
    OBVIOUS
  <2>6. at \in [1..0 -> 1..0]
    BY <2>5
  <2>7. Picks(m, a, keep, 0)
    <3>1. \A i \in 1..0 : FALSE
      OBVIOUS
    <3>2. PICK w : w = 0
      OBVIOUS
    <3>3. /\ Len(m) = w /\ at \in [1..w -> 1..w] /\ \A i \in 1..w : FALSE
      BY <2>4, <2>6, <3>1, <3>2
    <3>4. Picks(m, a, keep, w)
      BY <3>3 DEF Picks
    <3>5. QED BY <3>2, <3>4
  <2>8. QED BY <1>1, <2>2, <2>3, <2>7
<1>4. ASSUME NEW k \in 1..a.size, k - 1 \in Good PROVE k \in Good
  <2>1. PICK c : c = f[k - 1]
    OBVIOUS
  <2>2. Sound(c) /\ c.size <= k - 1 /\ Picks(ListOf(c), a, keep, k - 1)
    BY <1>4, <2>1
  <2>3. c.size \in Nat /\ c.size + 1 <= MaxLen
    <3>1. c.size \in Nat
      BY <2>2, SoundShape
    <3>2. QED BY <1>1, <2>2, <3>1, Constants
  <2>4. PICK e \in Values : e = a.slots[k - 1]
    BY <1>1
  <2>5. f[k] = IF e \in keep THEN Pushed(c, e) ELSE c
    BY <1>1, <1>2, <2>1, <2>4 DEF After
  <2>6. k - 1 \in Nat /\ (k - 1) + 1 = k /\ ListOf(c) \in Seq(Values)
    BY <1>1, <2>2, Shown
  <2>7. CASE e \in keep
    <3>1. Sound(f[k]) /\ f[k].size = c.size + 1
      BY <2>2, <2>3, <2>5, <2>7, PushedOK DEF Keeps
    <3>2. ListOf(f[k]) = ListOf(c) \o <<e>>
      BY <2>2, <2>3, <2>5, <2>7, PushedShown
    <3>3. Picks(ListOf(f[k]), a, keep, k)
      BY <2>2, <2>4, <2>6, <2>7, <3>2, PicksMore
    <3>4. QED BY <2>2, <2>3, <3>1, <3>3
  <2>8. CASE e \notin keep
    <3>1. Picks(ListOf(c), a, keep, k)
      BY <2>2, <2>4, <2>6, <2>8, PicksMore
    <3>2. QED BY <2>2, <2>3, <2>5, <2>8, <3>1
  <2>9. QED BY <2>7, <2>8
<1>5. n \in Good
  <2> SUFFICES ASSUME n \notin Good PROVE FALSE
    OBVIOUS
  <2> HIDE DEF Good
  <2>1. T \subseteq Nat /\ T # {}
    BY <1>1
  <2>2. PICK m \in T : \A k \in T : m <= k
    BY <2>1, Least
  <2>3. m \in 1..a.size
    BY <1>1, <1>3, <2>2
  <2>4. m - 1 \in Good
    BY <1>1, <2>2, <2>3
  <2>5. QED BY <1>4, <2>2, <2>3, <2>4
<1>6. QED BY <1>5

\* The values that pass the callback, as the caller gives them.
LEMMA SourceOfSet ==
  ASSUME NEW S, IsFiniteSet(S)
  PROVE  Range(SetToSeq(S)) = S
<1>1. PICK n \in Nat : n = Cardinality(S)
  BY FS_CardinalityType
<1>2. ExistsBijection(1..n, S)
  BY <1>1, FS_CardinalityType
<1>3. \E f \in [1..n -> S] : IsInjective(f)
  BY <1>2 DEF ExistsBijection, Bijection, Injection
<1>4. PICK f : f = SetToSeq(S)
  OBVIOUS
<1>5. f \in [1..n -> S] /\ IsInjective(f)
  BY <1>1, <1>3, <1>4 DEF SetToSeq
<1>6. f \in Injection(1..n, S)
  BY <1>5 DEF Injection
<1>7. Cardinality(1..n) = n
  <2>1. Cardinality(1..n) = n - 1 + 1 \/ n = 0
    BY FS_Interval
  <2>2. n = 0 => 1..n = {}
    OBVIOUS
  <2>3. QED BY <2>1, <2>2, FS_EmptySet
<1>8. f \in Surjection(1..n, S)
  BY <1>1, <1>6, <1>7, FS_Injection
<1>9. QED BY <1>4, <1>5, <1>8 DEF Surjection, Range

\* A list is filtered when the elements picked are those of the list.
LEMMA PicksIsFiltered ==
  ASSUME NEW a, Sound(a), NEW keep, NEW m \in Seq(Values), Picks(m, a, keep, a.size)
  PROVE  Promise!IsFiltered(m, ListOf(a), keep)
<1>1. PICK l : l = ListOf(a)
  OBVIOUS
<1>2. PICK n \in Nat : n = a.size
  BY SoundShape
<1>3. PICK k \in Nat : k = Len(m)
  BY LenProperties
<1>4. l \in Seq(Values) /\ Len(l) = n /\ DOMAIN l = 1..n /\ DOMAIN m = 1..k
      /\ \A i \in 1..n : l[i] = a.slots[i - 1]
  BY <1>1, <1>2, <1>3, Shown, LenProperties
<1>5. PICK at \in [1..k -> 1..n] :
        /\ \A i \in 1..n : a.slots[i - 1] \in keep <=> \E j \in 1..k : at[j] = i
        /\ \A i, j \in 1..k : i < j => at[i] < at[j]
        /\ \A i \in 1..k : m[i] = a.slots[at[i] - 1]
  BY <1>2, <1>3 DEF Picks
<1>6. Range(at) = {i \in 1..n : l[i] \in keep}
  <2>1. Range(at) = {at[j] : j \in 1..k}
    BY <1>5 DEF Range
  <2>2. ASSUME NEW i
        PROVE  i \in Range(at) <=> i \in 1..n /\ l[i] \in keep
    <3>1. i \in Range(at) <=> \E j \in 1..k : at[j] = i
      BY <2>1
    <3>2. i \in Range(at) => i \in 1..n
      BY <1>5, <3>1
    <3>3. i \in 1..n => l[i] = a.slots[i - 1]
      BY <1>4
    <3>4. QED BY <1>5, <3>1, <3>2, <3>3
  <2>3. QED BY <2>2
<1>7. \A i \in 1..k : m[i] = l[at[i]]
  BY <1>4, <1>5
<1>8. /\ Promise!Range(at) = {i \in DOMAIN l : l[i] \in keep}
      /\ at \in [DOMAIN m -> DOMAIN l]
  BY <1>4, <1>5, <1>6 DEF Promise!Range, Range
<1>9. /\ \A i, j \in DOMAIN m : i < j => at[i] < at[j]
      /\ \A i \in DOMAIN m : m[i] = l[at[i]]
  BY <1>4, <1>5, <1>7
<1>10. Promise!IsFiltered(m, l, keep)
  BY <1>8, <1>9 DEF Promise!IsFiltered
<1>11. QED BY <1>1, <1>10

-----------------------------------------------------------------------------
(* Each call does what the list promises of it.                            *)

LEMMA SameAsItself ==
  ASSUME NEW S, NEW s \in Seq(S) PROVE Promise!SameElements(s, s)
<1>1. PICK order : order = [i \in DOMAIN s |-> i]
  OBVIOUS
<1>2. order \in Promise!Bijection(DOMAIN s, DOMAIN s)
  BY <1>1 DEF Promise!Bijection, Promise!Injection, Promise!Surjection, Promise!IsInjective
<1>3. QED BY <1>1, <1>2 DEF Promise!SameElements

LEMMA SameReversed ==
  ASSUME NEW S, NEW s \in Seq(S) PROVE Promise!SameElements(Reverse(s), s)
<1>1. PICK n \in Nat : n = Len(s) /\ DOMAIN s = 1..n
  BY LenProperties
<1>2. PICK r : r = Reverse(s)
  OBVIOUS
<1>3. DOMAIN r = 1..n /\ \A i \in 1..n : r[i] = s[n - i + 1]
  BY <1>1, <1>2 DEF Reverse
<1>4. PICK order : order = [i \in 1..n |-> n - i + 1]
  OBVIOUS
<1>5. order \in [1..n -> 1..n] /\ \A i \in 1..n : order[i] = n - i + 1
  BY <1>4
<1>6. \A i, j \in 1..n : order[i] = order[j] => i = j
  BY <1>5
<1>7. ASSUME NEW j \in 1..n PROVE \E i \in 1..n : order[i] = j
  <2>1. n - j + 1 \in 1..n /\ n - (n - j + 1) + 1 = j
    OBVIOUS
  <2>2. QED BY <1>5, <2>1
<1>8. order \in Promise!Bijection(1..n, 1..n)
  BY <1>5, <1>6, <1>7
     DEF Promise!Bijection, Promise!Injection, Promise!Surjection, Promise!IsInjective
<1>9. \A i \in 1..n : r[i] = s[order[i]]
  BY <1>3, <1>5
<1>10. QED BY <1>1, <1>2, <1>3, <1>8, <1>9 DEF Promise!SameElements

LEMMA NothingFreed == Promise!SameElements(<<>>, <<>>)
<1>1. <<>> \in Seq(Values)
  OBVIOUS
<1>2. QED BY <1>1, SameAsItself

LEMMA OneFreed == ASSUME NEW e PROVE Promise!SameElements(<<e>>, <<e>>)
<1>1. <<e>> \in Seq({e})
  OBVIOUS
<1>2. QED BY <1>1, SameAsItself

\* The calls that ask array_adjust for room.
LEMMA ReserveKept ==
  ASSUME IInv, Live(self), NEW n \in Nat, NEW r \in Adjust(self, n), NEW b, NEW c,
         DOMAIN c = DOMAIN NoCall, c.freed = <<>>, Reserve(r, b, c)
  PROVE  /\ r.ok \in BOOLEAN
         /\ ~r.ok => Promise!Refused
         /\ r.ok => /\ self' = b /\ other' = other /\ call'.ok
                    /\ call'.op = c.op /\ call'.p = c.p /\ call'.src = c.src
                    /\ Promise!SameElements(call'.freed, <<>>)
<1>1. Sound(self) /\ r.ok \in BOOLEAN
  BY LiveSound, AdjustOK
<1>2. /\ self' = (IF r.ok THEN b ELSE self) /\ other' = other
      /\ call' = [c EXCEPT !.ok = r.ok, !.harm = r.a.cap # self.cap /\ ~self.owner]
  BY DEF Reserve, Becomes
<1>3. DOMAIN c = {"op", "p", "q", "src", "ok", "out", "freed", "harm"}
  BY DEF NoCall
<1>4. /\ call'.op = c.op /\ call'.p = c.p /\ call'.src = c.src /\ call'.ok = r.ok
      /\ call'.freed = <<>>
  BY <1>2, <1>3
<1>5. ~r.ok => Promise!Refused
  BY <1>2, <1>4, NothingFreed DEF Promise!Refused, Promise!Ok, Promise!Becomes, Promise!Frees
<1>6. QED BY <1>1, <1>2, <1>4, <1>5, NothingFreed

LEMMA NewKept ==
  ASSUME IInv, New PROVE Promise!Next
<1>1. PICK n \in 0..MaxLen : Becomes(Create(n)) /\ call' = Call("create") /\ self = Null
  BY DEF New
<1>2. n \in Nat
  BY <1>1, Constants
<1>3. ListOf(self') = <<>> /\ other' = other /\ ListOf(self) = <<Null>>
  BY <1>1, <1>2, CreateShown, NoList DEF Becomes
<1>4. call'.op = "create" /\ call'.src = <<>>
  BY <1>1 DEF Call, NoCall
<1>5. Promise!New
  BY <1>3, <1>4 DEF Promise!New, Promise!Op, Promise!Becomes
<1>6. QED BY <1>5 DEF Promise!Next

LEMMA NewOnBufferKept ==
  ASSUME IInv, NewOnBuffer PROVE Promise!Next
<1>1. PICK s \in Sources, room \in 0..MaxSrc, owner \in BOOLEAN :
         /\ Len(s) + room \in 1..MaxLen
         /\ Becomes(Buffer(s, (Len(s) + room) * EltSize, ~owner, owner))
         /\ call' = [Call("create") EXCEPT !.src = s]
  BY DEF NewOnBuffer
<1>2. s \in Seq(Values) /\ Len(s) \in Nat /\ room \in Nat
  BY SourcesOK, Constants
<1>3. PICK n \in Nat : n = Len(s) + room /\ Len(s) <= n /\ n <= MaxLen
  BY <1>1, <1>2
<1>4. PICK cap : cap = n * EltSize
  OBVIOUS
<1>5. cap \in Nat /\ Len(s) * EltSize <= cap /\ Len(s) <= MaxLen
  BY <1>2, <1>3, <1>4, Constants, MoreBytes
<1>7. PICK settled \in BOOLEAN : settled = ~owner
  OBVIOUS
<1>6. self' = Buffer(s, cap, settled, owner) /\ other' = other
  BY <1>1, <1>3, <1>4, <1>7 DEF Becomes
<1>8. ListOf(self') = s
  BY <1>2, <1>5, <1>6, <1>7, BufferShown
<1>9. call'.op = "create" /\ call'.src = s /\ ListOf(self) = <<Null>>
  BY <1>1, NoList DEF Call, NoCall, NewOnBuffer
<1>10. Promise!New
  BY <1>6, <1>8, <1>9 DEF Promise!New, Promise!Op, Promise!Becomes
<1>11. QED BY <1>10 DEF Promise!Next

LEMMA AppendAllKept ==
  ASSUME IInv, AppendAll PROVE Promise!Next
<1>1. PICK s \in Sources : 
         /\ self.size + Len(s) <= MaxLen
         /\ \E r \in Adjust(self, Len(s)) :
              Reserve(r, Appended(r.a, s), [Call("append") EXCEPT !.src = s])
  BY DEF AppendAll
<1>2. PICK r \in Adjust(self, Len(s)) :
         Reserve(r, Appended(r.a, s), [Call("append") EXCEPT !.src = s])
  BY <1>1
<1>3. Live(self) /\ Sound(self) /\ s \in Seq(Values) /\ Len(s) \in Nat
  BY LiveSound, SourcesOK DEF AppendAll, Alone
<1>4. PICK b : b = Appended(r.a, s)
  OBVIOUS
<1>5. PICK c : c = [Call("append") EXCEPT !.src = s]
  OBVIOUS
<1>6. DOMAIN c = DOMAIN NoCall /\ c.freed = <<>> /\ c.op = "append" /\ c.src = s
  BY <1>5 DEF Call, NoCall
<1>7. Reserve(r, b, c)
  BY <1>2, <1>4, <1>5
<1>8. /\ r.ok \in BOOLEAN
      /\ ~r.ok => Promise!Refused
      /\ r.ok => /\ self' = b /\ other' = other /\ call'.ok
                 /\ call'.op = c.op /\ call'.src = c.src
                 /\ Promise!SameElements(call'.freed, <<>>)
  BY <1>2, <1>3, <1>6, <1>7, ReserveKept
<1>9. ASSUME r.ok PROVE Promise!AppendTo
  <2>1. /\ Sound(r.a) /\ r.a.size = self.size /\ ListOf(r.a) = ListOf(self)
        /\ (self.size + Len(s)) * EltSize <= r.a.cap
    BY <1>2, <1>3, <1>9, AdjustOK, AdjustShown DEF Keeps
  <2>2. ListOf(b) = ListOf(self) \o s
    <3>1. PICK a : a = r.a
      OBVIOUS
    <3>2. /\ s \in Seq(Values) /\ Sound(a) /\ b = Appended(a, s)
          /\ a.size + Len(s) <= MaxLen /\ (a.size + Len(s)) * EltSize <= a.cap
      BY <1>1, <1>3, <1>4, <2>1, <3>1
    <3>3. ListOf(b) = ListOf(a) \o s
      BY <3>2, AppendedShown
    <3>4. QED BY <2>1, <3>1, <3>3
  <2>3. QED BY <1>6, <1>8, <1>9, <2>2
            DEF Promise!AppendTo, Promise!Op, Promise!Ok, Promise!Becomes, Promise!Frees
<1>10. QED BY <1>8, <1>9 DEF Promise!Next

LEMMA InjectAllKept ==
  ASSUME IInv, InjectAll PROVE Promise!Next
<1>1. PICK s \in Sources, p \in 0..self.size :
         /\ self.size + Len(s) <= MaxLen
         /\ \E r \in Adjust(self, Len(s)) :
              Reserve(r, Injected(r.a, p, s), [Call("insert") EXCEPT !.p = p, !.src = s])
  BY DEF InjectAll
<1>2. PICK r \in Adjust(self, Len(s)) :
         Reserve(r, Injected(r.a, p, s), [Call("insert") EXCEPT !.p = p, !.src = s])
  BY <1>1
<1>3. Live(self) /\ Sound(self) /\ s \in Seq(Values) /\ Len(s) \in Nat
  BY LiveSound, SourcesOK DEF InjectAll, Alone
<1>4. PICK b : b = Injected(r.a, p, s)
  OBVIOUS
<1>5. PICK c : c = [Call("insert") EXCEPT !.p = p, !.src = s]
  OBVIOUS
<1>6. DOMAIN c = DOMAIN NoCall /\ c.freed = <<>> /\ c.op = "insert" /\ c.p = p /\ c.src = s
  BY <1>5 DEF Call, NoCall
<1>7. Reserve(r, b, c)
  BY <1>2, <1>4, <1>5
<1>8. /\ r.ok \in BOOLEAN
      /\ ~r.ok => Promise!Refused
      /\ r.ok => /\ self' = b /\ other' = other /\ call'.ok
                 /\ call'.op = c.op /\ call'.p = c.p /\ call'.src = c.src
                 /\ Promise!SameElements(call'.freed, <<>>)
  BY <1>2, <1>3, <1>6, <1>7, ReserveKept
<1>9. ASSUME r.ok PROVE Promise!Insert
  <2>1. /\ Sound(r.a) /\ r.a.size = self.size /\ ListOf(r.a) = ListOf(self)
        /\ (self.size + Len(s)) * EltSize <= r.a.cap
    BY <1>2, <1>3, <1>9, AdjustOK, AdjustShown DEF Keeps
  <2>2. ListOf(b) = Promise!InsertAll(ListOf(self), p, s)
    <3>1. PICK a : a = r.a
      OBVIOUS
    <3>2. /\ s \in Seq(Values) /\ Sound(a) /\ b = Injected(a, p, s) /\ p \in 0..a.size
          /\ a.size + Len(s) <= MaxLen /\ (a.size + Len(s)) * EltSize <= a.cap
      BY <1>1, <1>3, <1>4, <2>1, <3>1
    <3>3. ListOf(b) = Promise!InsertAll(ListOf(a), p, s)
      BY <3>2, InjectedShown
    <3>4. QED BY <2>1, <3>1, <3>3
  <2>3. QED BY <1>6, <1>8, <1>9, <2>2
            DEF Promise!Insert, Promise!Op, Promise!Ok, Promise!Becomes, Promise!Frees
<1>10. QED BY <1>8, <1>9 DEF Promise!Next

LEMMA ConcatKept ==
  ASSUME IInv, Concat PROVE Promise!Next
<1>1. Live(self) /\ Sound(self) /\ Sound(other) /\ self.size + other.size <= MaxLen
  BY LiveSound DEF Concat
<1>2. PICK r \in Adjust(self, self.size + other.size) :
         Reserve(r, Appended(r.a, Content(other)), Call("concat"))
  BY DEF Concat
<1>3. /\ self.size \in Nat /\ other.size \in Nat /\ self.size + other.size \in Nat
      /\ self.size + (self.size + other.size) \in Nat
      /\ self.size + other.size <= self.size + (self.size + other.size)
  BY <1>1, SoundShape
<1>4. PICK s : s = Content(other)
  OBVIOUS
<1>5. s \in Seq(Values) /\ Len(s) = other.size /\ s = ListOf(other)
  BY <1>1, <1>4, ContentOK, Shown
<1>6. PICK b : b = Appended(r.a, s)
  OBVIOUS
<1>7. PICK c : c = Call("concat")
  OBVIOUS
<1>8. DOMAIN c = DOMAIN NoCall /\ c.freed = <<>> /\ c.op = "concat"
  BY <1>7 DEF Call, NoCall
<1>9. Reserve(r, b, c)
  BY <1>2, <1>4, <1>6, <1>7
<1>10. /\ r.ok \in BOOLEAN
       /\ ~r.ok => Promise!Refused
       /\ r.ok => /\ self' = b /\ other' = other /\ call'.ok /\ call'.op = c.op
                  /\ Promise!SameElements(call'.freed, <<>>)
  BY <1>1, <1>2, <1>3, <1>8, <1>9, ReserveKept
<1>11. ASSUME r.ok PROVE Promise!Concat
  <2>1. /\ Sound(r.a) /\ r.a.size = self.size /\ ListOf(r.a) = ListOf(self)
        /\ (self.size + (self.size + other.size)) * EltSize <= r.a.cap
    BY <1>1, <1>2, <1>3, <1>11, AdjustOK, AdjustShown DEF Keeps
  <2>2. r.a.cap \in Nat
    BY <2>1, SoundShape
  <2>3. /\ (self.size + other.size) * EltSize <= (self.size + (self.size + other.size)) * EltSize
        /\ (self.size + other.size) * EltSize \in Nat
        /\ (self.size + (self.size + other.size)) * EltSize \in Nat
    BY <1>3, Constants, MoreBytes
  <2>4. (self.size + other.size) * EltSize <= r.a.cap
    BY <2>1, <2>2, <2>3
  <2>5. ListOf(b) = ListOf(self) \o s
    <3>1. r.a.size + Len(s) <= MaxLen /\ (r.a.size + Len(s)) * EltSize <= r.a.cap
      BY <1>1, <1>5, <2>1, <2>4
    <3>2. PICK a : a = r.a
      OBVIOUS
    <3>3. s \in Seq(Values) /\ Sound(a) /\ b = Appended(a, s)
      BY <1>5, <1>6, <2>1, <3>2
    <3>4. ListOf(b) = ListOf(a) \o s
      BY <3>1, <3>2, <3>3, AppendedShown
    <3>5. QED BY <2>1, <3>2, <3>4
  <2>6. QED BY <1>5, <1>8, <1>10, <1>11, <2>5
            DEF Promise!Concat, Promise!Op, Promise!Ok, Promise!Becomes, Promise!Frees
<1>12. QED BY <1>10, <1>11 DEF Promise!Next

LEMMA AppendFromCapacityKept ==
  ASSUME IInv, AppendFromCapacity PROVE Promise!Next
<1>1. Live(self) /\ Sound(self)
  BY LiveSound DEF AppendFromCapacity, Alone
<1>2. PICK s \in Sources :
         /\ self.size + Len(s) <= MaxLen
         /\ Becomes(IF Len(s) <= UninitializedSize(self) THEN Appended(self, s) ELSE self)
         /\ call' = [Call("append") EXCEPT !.src = s, !.ok = Len(s) <= UninitializedSize(self)]
  BY DEF AppendFromCapacity
<1>3. s \in Seq(Values) /\ Len(s) \in Nat
  BY SourcesOK
<1>4. /\ call'.op = "append" /\ call'.src = s /\ call'.freed = <<>>
      /\ call'.ok = (Len(s) <= UninitializedSize(self))
  BY <1>2 DEF Call, NoCall
<1>5. other' = other
  BY <1>2 DEF Becomes
<1>6. CASE Len(s) <= UninitializedSize(self)
  <2>1. PICK used : used = self.size * EltSize
    OBVIOUS
  <2>2. PICK more : more = Len(s) * EltSize
    OBVIOUS
  <2>3. self.size \in Nat /\ self.cap \in Nat /\ used \in Nat /\ used <= self.cap
        /\ more \in Nat
    BY <1>1, <1>3, <2>1, <2>2, SoundShape, Constants
  <2>4. Len(s) <= (self.cap - used) \div EltSize
    BY <1>6, <2>1 DEF UninitializedSize
  <2>5. PICK left \in Nat : left = self.cap - used
    BY <2>3
  <2>6. more <= left
    BY <1>3, <2>2, <2>4, <2>5, Constants, Division
  <2>7. (self.size + Len(s)) * EltSize = used + more
    BY <1>3, <2>1, <2>2, <2>3, Constants
  <2>8. (self.size + Len(s)) * EltSize <= self.cap
    BY <2>3, <2>5, <2>6, <2>7
  <2>9. self' = Appended(self, s)
    BY <1>2, <1>6 DEF Becomes
  <2>10. ListOf(self') = ListOf(self) \o s
    BY <1>1, <1>2, <1>3, <2>8, <2>9, AppendedShown
  <2>11. Promise!AppendTo
    BY <1>4, <1>5, <1>6, <2>10, NothingFreed
       DEF Promise!AppendTo, Promise!Op, Promise!Ok, Promise!Becomes, Promise!Frees
  <2>12. QED BY <2>11 DEF Promise!Next
<1>7. CASE ~(Len(s) <= UninitializedSize(self))
  <2>1. self' = self
    BY <1>2, <1>7 DEF Becomes
  <2>2. Promise!Refused
    BY <1>4, <1>5, <1>7, <2>1, NothingFreed
       DEF Promise!Refused, Promise!Ok, Promise!Becomes, Promise!Frees
  <2>3. QED BY <2>2 DEF Promise!Next
<1>8. QED BY <1>6, <1>7

\* The same array with f in its slots: what it is a list of.
LEMMA WrittenShown ==
  ASSUME NEW a, Sound(a), NEW f, DOMAIN f = DOMAIN a.slots,
         f = [i \in DOMAIN a.slots |-> f[i]],
         \A i \in 0..a.size - 1 : f[i] \in Values,
         \A i \in DOMAIN f : i >= a.size => f[i] = a.slots[i],
         NEW b, b = [a EXCEPT !.slots = f],
         NEW s \in Seq(Values), Len(s) = a.size, \A i \in 1..a.size : s[i] = f[i - 1]
  PROVE  ListOf(b) = s
<1>1. Sound(b) /\ b.size = a.size
  <2>1. Keeps(b, a, a.size)
    BY WrittenOK, Zenon
  <2>2. QED BY <2>1 DEF Keeps
<1>2. b.slots = f
  BY DEF Sound, Arrays
<1>3. QED BY <1>1, <1>2, ShownAs

LEMMA TipexKept ==
  ASSUME IInv, Tipex PROVE Promise!Next
<1>1. Live(self) /\ Sound(self)
  BY LiveSound DEF Tipex, Alone
<1>2. PICK e \in Elements, p \in 0..self.size - 1 :
         /\ Becomes([self EXCEPT !.slots[p] = e])
         /\ call' = [Call("tipex") EXCEPT !.p = p, !.src = <<e>>]
  BY DEF Tipex
<1>3. PICK f : f = [self.slots EXCEPT ![p] = e]
  OBVIOUS
<1>4. /\ DOMAIN self.slots = 0..Room(self) - 1 /\ self.size \in Nat
      /\ self.slots \in [0..Room(self) - 1 -> Bytes]
      /\ \A i \in 0..self.size - 1 : i \in DOMAIN self.slots /\ self.slots[i] \in Values
  BY <1>1, SoundShape
<1>5. DOMAIN f = DOMAIN self.slots /\ f = [i \in DOMAIN self.slots |-> f[i]]
  BY <1>3, <1>4
<1>6. \A i \in DOMAIN f : f[i] = IF i = p THEN e ELSE self.slots[i]
  BY <1>3, <1>5
<1>7. \A i \in 0..self.size - 1 : f[i] \in Values
  BY <1>4, <1>5, <1>6 DEF Values
<1>8. \A i \in DOMAIN f : i >= self.size => f[i] = self.slots[i]
  BY <1>4, <1>5, <1>6
<1>9. self' = [self EXCEPT !.slots = f] /\ other' = other
  BY <1>2, <1>3 DEF Becomes
<1>10. PICK l : l = ListOf(self)
  OBVIOUS
<1>11. /\ l \in Seq(Values) /\ Len(l) = self.size
       /\ \A i \in 1..self.size : l[i] = self.slots[i - 1]
  BY <1>1, <1>10, Shown
<1>12. PICK s : s = [l EXCEPT ![p + 1] = e]
  OBVIOUS
<1>13. p + 1 \in 1..Len(l) /\ e \in Values
  BY <1>4, <1>11 DEF Values
<1>14. /\ s \in Seq(Values) /\ Len(s) = self.size
       /\ \A i \in 1..self.size : s[i] = IF i = p + 1 THEN e ELSE l[i]
  BY <1>11, <1>12, <1>13, ExceptSeq
<1>15. ASSUME NEW i \in 1..self.size PROVE s[i] = f[i - 1]
  <2>1. i - 1 \in 0..self.size - 1 /\ (i - 1 = p <=> i = p + 1)
    BY <1>4
  <2>2. QED BY <1>4, <1>5, <1>6, <1>11, <1>14, <2>1
<1>16. ListOf(self') = s
  <2>1. self' = [self EXCEPT !.slots = f] /\ s \in Seq(Values) /\ Len(s) = self.size
    BY <1>9, <1>14
  <2>2. QED BY <1>1, <1>5, <1>7, <1>8, <1>15, <2>1, WrittenShown
<1>17. call'.op = "tipex" /\ call'.p = p /\ call'.src[1] = e
  BY <1>2 DEF Call, NoCall
<1>18. Promise!Tipex
  BY <1>9, <1>10, <1>12, <1>16, <1>17 DEF Promise!Tipex, Promise!Op, Promise!Becomes
<1>19. QED BY <1>18 DEF Promise!Next

LEMMA SwapElemsKept ==
  ASSUME IInv, SwapElems PROVE Promise!Next \/ Departs
<1>1. Live(self) /\ Sound(self)
  BY LiveSound DEF SwapElems, Alone
<1>2. PICK p \in 0..self.size - 1, q \in 0..self.size - 1 :
         /\ Becomes(IF p = q THEN [self EXCEPT !.slots[p] = Zero]
                    ELSE [self EXCEPT !.slots[p] = self.slots[q], !.slots[q] = self.slots[p]])
         /\ call' = [Call("swap_elems") EXCEPT !.p = p, !.q = q]
  BY DEF SwapElems
<1>3. PICK x : x = IF p = q THEN Zero ELSE self.slots[q]
  OBVIOUS
<1>4. PICK y : y = IF p = q THEN Zero ELSE self.slots[p]
  OBVIOUS
<1>5. /\ DOMAIN self.slots = 0..Room(self) - 1 /\ self.size \in Nat
      /\ self.slots \in [0..Room(self) - 1 -> Bytes]
      /\ \A i \in 0..self.size - 1 : i \in DOMAIN self.slots /\ self.slots[i] \in Values
      /\ "slots" \in DOMAIN self
  BY <1>1, SoundShape DEF Sound, Arrays
<1>6. PICK f : f = [self.slots EXCEPT ![p] = x, ![q] = y]
  OBVIOUS
<1>7. DOMAIN f = DOMAIN self.slots /\ f = [i \in DOMAIN self.slots |-> f[i]]
  BY <1>5, <1>6
<1>8. \A i \in DOMAIN f : f[i] = IF i = q THEN y ELSE IF i = p THEN x ELSE self.slots[i]
  BY <1>5, <1>6, <1>7
<1>9. x \in Values /\ y \in Values
  BY <1>3, <1>4, <1>5 DEF Values
<1>10. \A i \in 0..self.size - 1 : f[i] \in Values
  BY <1>5, <1>7, <1>8, <1>9
<1>11. \A i \in DOMAIN f : i >= self.size => f[i] = self.slots[i]
  BY <1>5, <1>7, <1>8
<1>12. self' = [self EXCEPT !.slots = f] /\ other' = other
  <2>1. other' = other
    BY <1>2 DEF Becomes
  <2>2. CASE p = q
    <3>1. self' = [self EXCEPT !.slots = [self.slots EXCEPT ![p] = Zero]]
      BY <1>2, <2>2 DEF Becomes
    <3>2. f = [self.slots EXCEPT ![p] = Zero]
      BY <1>3, <1>4, <1>5, <1>6, <2>2
    <3>3. QED BY <2>1, <3>1, <3>2
  <2>3. CASE p # q
    <3>1. self' = [self EXCEPT !.slots[p] = self.slots[q], !.slots[q] = self.slots[p]]
      BY <1>2, <2>3 DEF Becomes
    <3>2. f = [self.slots EXCEPT ![p] = self.slots[q], ![q] = self.slots[p]]
      BY <1>3, <1>4, <1>6, <2>3
    <3>3. QED BY <1>5, <2>1, <3>1, <3>2
  <2>4. QED BY <2>2, <2>3
<1>13. PICK l : l = ListOf(self)
  OBVIOUS
<1>14. /\ l \in Seq(Values) /\ Len(l) = self.size
       /\ \A i \in 1..self.size : l[i] = self.slots[i - 1]
  BY <1>1, <1>13, Shown
<1>15. p + 1 \in 1..Len(l) /\ q + 1 \in 1..Len(l)
  BY <1>5, <1>14
<1>16. PICK t : t = [l EXCEPT ![p + 1] = x]
  OBVIOUS
<1>17. /\ t \in Seq(Values) /\ Len(t) = self.size
       /\ \A i \in 1..self.size : t[i] = IF i = p + 1 THEN x ELSE l[i]
  BY <1>9, <1>14, <1>15, <1>16, ExceptSeq
<1>18. PICK s : s = [t EXCEPT ![q + 1] = y]
  OBVIOUS
<1>19. /\ s \in Seq(Values) /\ Len(s) = self.size
       /\ \A i \in 1..self.size : s[i] = IF i = q + 1 THEN y ELSE t[i]
  BY <1>9, <1>14, <1>15, <1>17, <1>18, ExceptSeq
<1>20. ASSUME NEW i \in 1..self.size PROVE s[i] = f[i - 1]
  <2>1. i - 1 \in 0..self.size - 1 /\ (i - 1 = p <=> i = p + 1) /\ (i - 1 = q <=> i = q + 1)
    BY <1>5
  <2>2. QED BY <1>5, <1>7, <1>8, <1>14, <1>17, <1>19, <2>1
<1>21. ListOf(self') = s
  <2>1. self' = [self EXCEPT !.slots = f] /\ s \in Seq(Values) /\ Len(s) = self.size
    BY <1>12, <1>19
  <2>2. QED BY <1>1, <1>7, <1>10, <1>11, <1>20, <2>1, WrittenShown
<1>22. call'.op = "swap_elems" /\ call'.p = p /\ call'.q = q
  BY <1>2 DEF Call, NoCall
<1>23. CASE p = q
  <2>1. x = Zero /\ y = Zero
    BY <1>3, <1>4, <1>23
  <2>2. t[q + 1] = y
    BY <1>14, <1>15, <1>17, <1>23, <2>1
  <2>3. \A i \in 1..self.size : s[i] = t[i]
    BY <1>19, <2>2
  <2>4. s = [l EXCEPT ![p + 1] = Zero]
    BY <1>16, <1>17, <1>19, <2>1, <2>3, SeqEqual
  <2>5. SwapsWithItself
    BY <1>12, <1>13, <1>21, <1>22, <1>23, <2>4 DEF SwapsWithItself, Promise!Becomes
  <2>6. QED BY <2>5 DEF Departs
<1>24. CASE p # q
  <2>1. x = l[q + 1] /\ y = l[p + 1]
    <3>1. (p + 1) - 1 = p /\ (q + 1) - 1 = q
      OBVIOUS
    <3>2. QED BY <1>3, <1>4, <1>14, <1>15, <1>24, <3>1
  <2>2. s = [l EXCEPT ![p + 1] = l[q + 1], ![q + 1] = l[p + 1]]
    BY <1>16, <1>18, <2>1
  <2>3. QED BY <1>12, <1>13, <1>21, <1>22, <2>2
            DEF Promise!SwapElems, Promise!Op, Promise!Becomes, Promise!Next
<1>25. QED BY <1>23, <1>24

LEMMA PopKept ==
  ASSUME IInv, Pop PROVE Promise!Next
<1>1. Live(self) /\ Sound(self) /\ self.size > 0 /\ self.size \in Nat
  BY LiveSound, SoundShape DEF Pop, Alone
<1>2. PICK n \in 0..self.size : n = self.size - 1
  BY <1>1
<1>3. self' = Resized(self, self.slots, n) /\ other' = other
  BY <1>2 DEF Pop, Becomes
<1>4. ListOf(self') = SubSeq(ListOf(self), 1, n)
  BY <1>1, <1>2, <1>3, KeptShown
<1>5. PICK e : e = self.slots[self.size - 1]
  OBVIOUS
<1>6. call'.op = "pop" /\ call'.out = <<e>> /\ call'.freed = <<e>>
  BY <1>5 DEF Pop, Call, NoCall
<1>7. Len(ListOf(self)) = self.size /\ ListOf(self)[self.size] = e
  BY <1>1, <1>5, Shown
<1>8. Promise!Pop
  BY <1>1, <1>2, <1>3, <1>4, <1>6, <1>7, OneFreed
     DEF Promise!Pop, Promise!Op, Promise!Becomes, Promise!Reads, Promise!Frees,
         Promise!Front, Promise!Last
<1>9. QED BY <1>8 DEF Promise!Next

LEMMA ClearKept ==
  ASSUME IInv, Clear PROVE Promise!Next
<1>1. Live(self) /\ Sound(self)
  BY LiveSound DEF Clear, Alone
<1>2. 0 \in 0..self.size
  BY <1>1, SoundShape
<1>3. self' = Resized(self, self.slots, 0) /\ other' = other
  BY DEF Clear, Becomes
<1>4. PICK l \in Seq(Values) : l = ListOf(self)
  BY <1>1, Shown
<1>5. ListOf(self') = SubSeq(l, 1, 0)
  BY <1>1, <1>2, <1>3, <1>4, KeptShown
<1>6. ListOf(self') = <<>>
  <2>1. SubSeq(l, 1, 0) = <<>>
    BY SubSeqEmpty
  <2>2. QED BY <1>5, <2>1
<1>7. call'.op = "clear" /\ call'.freed = Reverse(l)
  BY <1>1, <1>4, Shown DEF Clear, Destroyed, Call, NoCall
<1>8. Promise!Clear
  BY <1>3, <1>4, <1>6, <1>7, SameReversed
     DEF Promise!Clear, Promise!Op, Promise!Becomes, Promise!Frees
<1>9. QED BY <1>8 DEF Promise!Next

LEMMA EvictedShown ==
  ASSUME NEW a, Sound(a), NEW p \in 0..a.size - 1, NEW b, b = Evicted(a, p)
  PROVE  ListOf(b) = SubSeq(ListOf(a), 1, p) \o SubSeq(ListOf(a), p + 2, Len(ListOf(a)))
<1>1. a.size \in Nat
  BY SoundShape
<1>2. p \in 0..a.size /\ p + 1 \in p..a.size
  BY <1>1
<1>3. PICK q \in p..a.size : q = p + 1
  BY <1>2
<1>4. a.size - p - 1 = a.size - q /\ a.size - 1 = a.size - (q - p) /\ q + 1 = p + 2
  BY <1>1, <1>2, <1>3
<1>5. b = Resized(a, Move(a.slots, p, q, a.size - q), a.size - (q - p))
  BY <1>3, <1>4 DEF Evicted
<1>6. ListOf(b) = Promise!Cut(ListOf(a), p, q)
  BY <1>2, <1>5, CutShown
<1>7. QED BY <1>4, <1>6 DEF Promise!Cut

LEMMA EvictKept ==
  ASSUME IInv, Evict PROVE Promise!Next
<1>1. Live(self) /\ Sound(self) /\ self.size \in Nat
  BY LiveSound, SoundShape DEF Evict, Alone
<1>2. PICK p \in 0..self.size - 1 :
         /\ self' = Evicted(self, p) /\ other' = other
         /\ call' = [Call("evict") EXCEPT !.p = p, !.freed = <<self.slots[p]>>]
  BY DEF Evict, Becomes
<1>3. PICK l : l = ListOf(self)
  OBVIOUS
<1>4. ListOf(self') = SubSeq(l, 1, p) \o SubSeq(l, p + 2, Len(l))
  BY <1>1, <1>2, <1>3, EvictedShown
<1>5. (p + 1) - 1 = p /\ (p + 1) + 1 = p + 2 /\ p + 1 \in 1..self.size
  BY <1>1
<1>6. l[p + 1] = self.slots[p]
  BY <1>1, <1>3, <1>5, Shown
<1>7. call'.op = "evict" /\ call'.p = p /\ call'.freed = <<l[p + 1]>>
  BY <1>2, <1>6 DEF Call, NoCall
<1>8. ListOf(self') = Promise!RemoveAt(l, p + 1)
  BY <1>4, <1>5 DEF Promise!RemoveAt
<1>9. Promise!Evict
  BY <1>2, <1>3, <1>7, <1>8, OneFreed
     DEF Promise!Evict, Promise!Op, Promise!Becomes, Promise!Frees
<1>10. QED BY <1>9 DEF Promise!Next

LEMMA PopFrontKept ==
  ASSUME IInv, PopFront PROVE Promise!Next
<1>1. Live(self) /\ Sound(self) /\ self.size \in Nat /\ self.size > 0
  BY LiveSound, SoundShape DEF PopFront, Alone
<1>2. PICK e : e = self.slots[0]
  OBVIOUS
<1>3. /\ self' = Evicted(self, 0) /\ other' = other
      /\ call'.op = "popf" /\ call'.out = <<e>> /\ call'.freed = <<e>>
  BY <1>2 DEF PopFront, Becomes, Call, NoCall
<1>4. PICK l \in Seq(Values) : l = ListOf(self)
  BY <1>1, Shown
<1>5. Len(l) = self.size /\ l # <<>> /\ Head(l) = e
  <2>1. Len(l) = self.size /\ 1 \in 1..self.size /\ 1 - 1 = 0
    BY <1>1, <1>4, Shown
  <2>2. l[1] = e
    BY <1>1, <1>2, <1>4, <2>1, Shown
  <2>3. l # <<>>
    BY <1>1, <2>1, EmptySeq
  <2>4. QED BY <2>1, <2>2, <2>3
<1>6. ListOf(self') = SubSeq(l, 1, 0) \o SubSeq(l, 2, Len(l))
  <2>1. 0 \in 0..self.size - 1 /\ 0 + 2 = 2
    BY <1>1
  <2>2. ListOf(self') = SubSeq(l, 1, 0) \o SubSeq(l, 0 + 2, Len(l))
    BY <1>1, <1>3, <1>4, <2>1, EvictedShown
  <2>3. QED BY <2>1, <2>2
<1>7. ListOf(self') = Tail(l)
  <2>1. SubSeq(l, 1, 0) = <<>>
    BY SubSeqEmpty
  <2>2. Tail(l) = SubSeq(l, 2, Len(l)) /\ Tail(l) \in Seq(Values)
    BY <1>5, TailIsSubSeq, HeadTailProperties
  <2>3. <<>> \o Tail(l) = Tail(l)
    BY <2>2, ConcatEmptySeq
  <2>4. QED BY <1>6, <2>1, <2>2, <2>3
<1>8. Promise!PopFront
  BY <1>3, <1>4, <1>5, <1>7, OneFreed
     DEF Promise!PopFront, Promise!Op, Promise!Becomes, Promise!Reads, Promise!Frees
<1>9. QED BY <1>8 DEF Promise!Next

LEMMA WipeKept ==
  ASSUME IInv, Wipe PROVE Promise!Next \/ Departs
<1>1. Live(self) /\ Sound(self)
  BY LiveSound DEF Wipe, Alone
<1> DEFINE Wiped(p, q) ==
      /\ Becomes(Resized(self, Move(self.slots, p, q, self.size - q), self.size - (q - p)))
      /\ call' = [Call("wipe") EXCEPT !.p = p, !.q = q,
                                      !.freed = SubSeq(Content(self), 1, q - p)]
<1>0. PICK p \in 0..self.size : \E q \in p..self.size : Wiped(p, q)
  BY DEF Wipe
<1>2. PICK q \in p..self.size : Wiped(p, q)
  BY <1>0
<1>3. self' = Resized(self, Move(self.slots, p, q, self.size - q), self.size - (q - p))
      /\ other' = other
  BY <1>2 DEF Becomes
<1>4. ListOf(self') = Promise!Cut(ListOf(self), p, q)
  BY <1>1, <1>3, CutShown
<1>5. call'.op = "wipe" /\ call'.p = p /\ call'.q = q
  BY <1>2 DEF Call, NoCall
<1>6. PICK l \in Seq(Values) : l = ListOf(self) /\ l = Content(self) /\ Len(l) = self.size
  BY <1>1, Shown
<1>7. /\ p \in Nat /\ q \in Nat /\ p <= q /\ q <= Len(l) /\ Len(l) \in Nat
      /\ q - p \in 0..Len(l)
  BY <1>1, <1>6, SoundShape
<1>8. call'.freed = SubSeq(l, 1, q - p)
  BY <1>2, <1>6 DEF Call, NoCall
<1>9. Promise!SameElements(call'.freed, SubSeq(l, 1, q - p))
  <2>1. SubSeq(l, 0 + 1, q - p) \in Seq(Values)
    BY <1>7, Piece
  <2>2. SubSeq(l, 1, q - p) \in Seq(Values)
    BY <2>1
  <2>3. QED BY <1>8, <2>2, SameAsItself
<1>10. CASE p = 0
  <2>1. p + 1 = 1 /\ q - p = q
    BY <1>7, <1>10
  <2>2. Promise!Wipe
    BY <1>3, <1>4, <1>5, <1>6, <1>9, <2>1
       DEF Promise!Wipe, Promise!Op, Promise!Becomes, Promise!Frees
  <2>3. QED BY <2>2 DEF Promise!Next
<1>11. CASE p > 0
  <2>1. WipesFromFront
    BY <1>3, <1>4, <1>5, <1>6, <1>9, <1>11
       DEF WipesFromFront, Promise!Becomes, Promise!Frees
  <2>2. QED BY <2>1 DEF Departs
<1>12. QED BY <1>7, <1>10, <1>11

LEMMA KillKept ==
  ASSUME IInv, Kill \/ KillOther PROVE Promise!Next
<1>1. ASSUME NEW a, Sound(a) 
      PROVE  Promise!SameElements(Destroyed(a), ListOf(a))
  <2>1. PICK l \in Seq(Values) : l = ListOf(a) /\ l = Content(a)
    BY <1>1, Shown
  <2>2. QED BY <2>1, SameReversed DEF Destroyed
<1>2. ListOf(Null) = <<Null>>
  BY NoList
<1>3. CASE Kill
  <2>1. Sound(self) /\ self' = Null /\ other' = other
        /\ call'.op = "kill" /\ call'.freed = Destroyed(self)
    BY <1>3, LiveSound DEF Kill, Becomes, KillCall, Call, NoCall
  <2>2. Promise!Kill
    BY <1>1, <1>2, <2>1 DEF Promise!Kill, Promise!Op, Promise!Becomes, Promise!Frees
  <2>3. QED BY <2>2 DEF Promise!Next
<1>4. CASE KillOther
  <2>1. Sound(other) /\ other' = Null /\ self' = self
        /\ call'.op = "kill_other" /\ call'.freed = Destroyed(other)
    BY <1>4, LiveSound DEF KillOther, KillCall, Call, NoCall
  <2>2. Promise!KillOther
    BY <1>1, <1>2, <2>1 DEF Promise!KillOther, Promise!Op, Promise!Frees
  <2>3. QED BY <2>2 DEF Promise!Next
<1>5. QED BY <1>3, <1>4

LEMMA SwapKept ==
  ASSUME IInv, Swap PROVE Promise!Next
<1>1. self' = other /\ other' = self /\ call'.op = "swap"
  BY DEF Swap, Call, NoCall
<1>2. Promise!Swap
  BY <1>1 DEF Promise!Swap, Promise!Op
<1>3. QED BY <1>2 DEF Promise!Next

\* The calls that change the flags, or the memory that is reserved.
LEMMA ReservingKept ==
  ASSUME IInv, ListOf(self') = ListOf(self), other' = other,
         call'.op \in {"slimcheck", "settle", "unsettle"}
  PROVE  Promise!Next
<1>1. Promise!Reserve
  BY DEF Promise!Reserve, Promise!Becomes
<1>2. QED BY <1>1 DEF Promise!Next

\* A change of the flags leaves the elements.
LEMMA FlagsShown ==
  ASSUME NEW a, Sound(a), NEW b, b.slots = a.slots, b.size = a.size, b.data = a.data
  PROVE  ListOf(b) = ListOf(a)
<1>1. Live(a) /\ Live(b)
  BY SoundLive DEF Live
<1>2. Content(b) = Content(a)
  BY DEF Content
<1>3. QED BY <1>1, <1>2 DEF ListOf

LEMMA SettleKept ==
  ASSUME IInv, Settle \/ Unsettle PROVE Promise!Next
<1>1. Live(self) /\ Sound(self)
  BY LiveSound DEF Settle, Unsettle, Alone
<1>2. PICK settled \in BOOLEAN :
         /\ self' = [self EXCEPT !.settled = settled] /\ other' = other
  BY DEF Settle, Unsettle, Becomes
<1>3. self'.slots = self.slots /\ self'.size = self.size /\ self'.data = self.data
  BY <1>1, <1>2 DEF Sound, Arrays
<1>4. ListOf(self') = ListOf(self)
  BY <1>1, <1>3, FlagsShown
<1>5. call'.op \in {"settle", "unsettle"}
  BY DEF Settle, Unsettle, Call, NoCall
<1>6. QED BY <1>2, <1>4, <1>5, ReservingKept

LEMMA SlimcheckKept ==
  ASSUME IInv, Slimcheck PROVE Promise!Next \/ Departs
<1>1. Live(self) /\ Sound(self)
  BY LiveSound DEF Slimcheck, Alone
<1>2. call'.op = "slimcheck" /\ other' = other
  BY DEF Slimcheck, Call, NoCall, Becomes
<1>3. \/ self' = self
      \/ self' = Reallocated(self, SlimTo(self))
      \/ SlimTo(self) = 0 /\ self' = [self EXCEPT !.data = "freed"] /\ ~call'.ok
  <2>1. SlimTo(self) \in Nat
    BY <1>1, SoundShape, Constants DEF SlimTo
  <2>2. CASE /\ Becomes(IF SlimTo(self) > 0 THEN self ELSE [self EXCEPT !.data = "freed"])
             /\ call' = [Call("slimcheck") EXCEPT !.ok = FALSE]
    <3>1. ~call'.ok
      BY <2>2 DEF Call, NoCall
    <3>2. SlimTo(self) > 0 \/ SlimTo(self) = 0
      BY <2>1
    <3>3. self' = IF SlimTo(self) > 0 THEN self ELSE [self EXCEPT !.data = "freed"]
      BY <2>2 DEF Becomes
    <3>4. QED BY <3>1, <3>2, <3>3
  <2>3. CASE Becomes(self) \/ Becomes(Reallocated(self, SlimTo(self)))
    BY <2>3 DEF Becomes
  <2>4. QED BY <2>2, <2>3 DEF Slimcheck
<1>4. ASSUME self' = Reallocated(self, SlimTo(self)) PROVE ListOf(self') = ListOf(self)
  <2>1. SlimTo(self) \in Nat /\ self.size * EltSize <= SlimTo(self)
    BY <1>1, SoundShape, Constants DEF SlimTo
  <2>2. QED BY <1>1, <1>4, <2>1, ReallocatedShown
<1>5. ASSUME SlimTo(self) = 0, self' = [self EXCEPT !.data = "freed"], ~call'.ok PROVE Departs
  <2>1. self'.data = "freed" /\ ~Live(self')
    BY <1>1, <1>5 DEF Sound, Arrays, Live
  <2>2. ListOf(self') = <<[data |-> "freed"]>>
    BY <2>1 DEF ListOf
  <2>3. PICK l \in Seq(Values) : l = ListOf(self) /\ Len(l) = self.size
    BY <1>1, Shown
  <2>4. self.size = 0
    BY <1>1, <1>5, SoundShape, Constants DEF SlimTo
  <2>5. ListOf(self) = <<>>
    BY <2>3, <2>4, EmptySeq
  <2>6. FreesEmpty
    BY <1>2, <1>5, <2>2, <2>5 DEF FreesEmpty, Promise!Becomes
  <2>7. QED BY <2>6 DEF Departs
<1>6. QED BY <1>2, <1>3, <1>4, <1>5, ReservingKept

LEMMA ExtractKept ==
  ASSUME IInv, Extract PROVE Promise!Next
<1>1. Live(self) /\ Sound(self)
  BY LiveSound DEF Extract, Alone
<1>2. PICK p, q :
         /\ Becomes(self)
         /\ call' = [Call("extract") EXCEPT !.p = p, !.q = q,
                                            !.out = SubSeq(Content(self), p + 1, q)]
  BY DEF Extract
<1>3. /\ self' = self /\ other' = other
      /\ call'.op = "extract" /\ call'.p = p /\ call'.q = q
      /\ call'.out = SubSeq(ListOf(self), p + 1, q)
  BY <1>1, <1>2, Shown DEF Becomes, Call, NoCall
<1>4. Promise!Extract
  BY <1>3 DEF Promise!Extract, Promise!Op, Promise!Becomes, Promise!Reads
<1>5. QED BY <1>4 DEF Promise!Next

LEMMA PullKept ==
  ASSUME IInv, Pull PROVE Promise!Next
<1>1. Live(self) /\ Sound(self) /\ self.size \in Nat /\ self.size <= MaxLen /\ other = Null
  BY LiveSound, SoundShape DEF Pull, Alone
<1>2. PICK p \in (1 - self.size)..(self.size - 1), q \in (1 - self.size)..(self.size - 1) :
         /\ other' = Buffer(PullFrom(self, p, q), Len(PullFrom(self, p, q)) * EltSize, TRUE, TRUE)
         /\ UNCHANGED self
         /\ call' = [Call("pull") EXCEPT !.p = p, !.q = q]
  BY DEF Pull
<1>3. PICK s : s = PullFrom(self, p, q)
  OBVIOUS
<1>4. s \in Seq(Values) /\ Len(s) <= MaxLen /\ Len(s) \in Nat
  <2>1. s \in Seq(Values) /\ Len(s) <= self.size
    BY <1>1, <1>3, PullFromOK
  <2>2. Len(s) \in Nat
    BY <2>1, LenProperties
  <2>3. QED BY <1>1, <2>1, <2>2, Constants
<1>5. PICK cap : cap = Len(s) * EltSize
  OBVIOUS
<1>6. cap \in Nat /\ Len(s) * EltSize <= cap
  BY <1>4, <1>5, Constants
<1>7. TRUE \in BOOLEAN /\ (~TRUE => TRUE)
  OBVIOUS
<1>8. other' = Buffer(s, cap, TRUE, TRUE)
  BY <1>2, <1>3, <1>5
<1>9. ListOf(other') = s
  BY <1>4, <1>6, <1>7, <1>8, BufferShown
<1>10. s = Promise!Slice(ListOf(self), p, q)
  BY <1>1, <1>3, PullShown
<1>11. call'.op = "pull" /\ call'.ok /\ call'.p = p /\ call'.q = q
  BY <1>2 DEF Call, NoCall
<1>12. ListOf(other) = <<Null>>
  BY <1>1, NoList
<1>13. Promise!Pull
  BY <1>2, <1>9, <1>10, <1>11, <1>12
     DEF Promise!Pull, Promise!Op, Promise!Ok, Promise!Derive
<1>14. QED BY <1>13 DEF Promise!Next

LEMMA FilterKept ==
  ASSUME IInv, Filter PROVE Promise!Next
<1>1. Live(self) /\ Sound(self) /\ self.size \in Nat /\ other = Null /\ self' = self
  BY LiveSound, SoundShape DEF Filter, Alone
<1>2. PICK keep \in SUBSET (Elements \cup {Zero}) :
         \/ /\ other' = Filtered(self, keep)[self.size]
            /\ call' = [Call("filter") EXCEPT !.src = SetToSeq(keep)]
         \/ \E given : /\ other' = other
                       /\ call' = [Call("filter") EXCEPT !.src = SetToSeq(keep), !.ok = FALSE,
                                                         !.freed = given]
  BY DEF Filter
<1>3. CASE \E given : /\ other' = other
                      /\ call' = [Call("filter") EXCEPT !.src = SetToSeq(keep), !.ok = FALSE,
                                                        !.freed = given]
  <2>1. other' = other /\ call'.op = "filter" /\ ~call'.ok
    BY <1>3 DEF Call, NoCall
  <2>2. Promise!Refused
    BY <1>1, <2>1 DEF Promise!Refused, Promise!Ok, Promise!Becomes
  <2>3. QED BY <2>2 DEF Promise!Next
<1>4. CASE /\ other' = Filtered(self, keep)[self.size]
           /\ call' = [Call("filter") EXCEPT !.src = SetToSeq(keep)]
  <2>1. PICK f : f = Filtered(self, keep)
    OBVIOUS
  <2>2. self.size \in 0..self.size
    BY <1>1
  <2>3. Sound(f[self.size]) /\ Picks(ListOf(f[self.size]), self, keep, self.size)
    BY <1>1, <2>1, <2>2, FilteredOK, FilteredShown
  <2>4. PICK m : m = ListOf(other')
    OBVIOUS
  <2>5. m \in Seq(Values) /\ Picks(m, self, keep, self.size)
    BY <1>4, <2>1, <2>3, <2>4, Shown
  <2>6. Promise!IsFiltered(m, ListOf(self), keep)
    BY <1>1, <2>5, PicksIsFiltered
  <2>7. IsFiniteSet(keep)
    <3>1. IsFiniteSet(Elements \cup {Zero})
      BY ArrayAssumption, FS_AddElement
    <3>2. QED BY <3>1, FS_Subset
  <2>8. Promise!Range(SetToSeq(keep)) = keep
    BY <2>7, SourceOfSet DEF Range, Promise!Range
  <2>9. call'.op = "filter" /\ call'.ok /\ call'.src = SetToSeq(keep)
    BY <1>4 DEF Call, NoCall
  <2>10. ListOf(other) = <<Null>>
    BY <1>1, NoList
  <2>11. Promise!Filter
    BY <1>1, <2>4, <2>6, <2>8, <2>9, <2>10
       DEF Promise!Filter, Promise!Op, Promise!Ok, Promise!Derive
  <2>12. QED BY <2>11 DEF Promise!Next
<1>5. QED BY <1>2, <1>3, <1>4

LEMMA DupKept ==
  ASSUME IInv, Dup PROVE Promise!Next
<1>1. Live(self) /\ Sound(self) /\ self.size \in Nat /\ self.size <= MaxLen /\ other = Null
  BY LiveSound, SoundShape DEF Dup, Alone
<1>2. PICK a : a = Create(self.size)
  OBVIOUS
<1>3. Sound(a) /\ a.size = 0 /\ ListOf(a) = <<>>
  BY <1>1, <1>2, CreateOK, CreateShown
<1>4. PICK r \in Adjust(a, self.size) :
         /\ other' = IF r.ok THEN Appended(r.a, Content(self)) ELSE other
         /\ UNCHANGED self
         /\ call' = [Call("dup") EXCEPT !.ok = r.ok]
  BY <1>2 DEF Dup
<1>5. /\ r.ok \in BOOLEAN /\ Keeps(r.a, a, a.size) /\ ListOf(r.a) = <<>>
      /\ (r.ok => (a.size + self.size) * EltSize <= r.a.cap)
  BY <1>1, <1>3, <1>4, AdjustOK, AdjustShown
<1>6. PICK s : s = Content(self)
  OBVIOUS
<1>7. s \in Seq(Values) /\ Len(s) = self.size /\ s = ListOf(self)
  BY <1>1, <1>6, ContentOK, Shown
<1>8. call'.op = "dup" /\ call'.ok = r.ok /\ call'.freed = <<>>
  BY <1>4 DEF Call, NoCall
<1>9. CASE r.ok
  <2>1. PICK c : c = r.a
    OBVIOUS
  <2>2. /\ Sound(c) /\ c.size + Len(s) <= MaxLen
        /\ (c.size + Len(s)) * EltSize <= c.cap /\ ListOf(c) = <<>>
    BY <1>1, <1>3, <1>5, <1>7, <1>9, <2>1 DEF Keeps
  <2>3. other' = Appended(c, s)
    BY <1>4, <1>6, <1>9, <2>1
  <2>4. ListOf(other') = <<>> \o s
    <3>1. s \in Seq(Values) /\ Sound(c)
      BY <1>7, <2>2
    <3>2. ListOf(other') = ListOf(c) \o s
      BY <2>2, <2>3, <3>1, AppendedShown
    <3>3. QED BY <2>2, <3>2
  <2>5. ListOf(other') = s
    BY <1>7, <2>4, ConcatEmptySeq
  <2>6. ListOf(other) = <<Null>>
    BY <1>1, NoList
  <2>7. Promise!Dup
    BY <1>4, <1>7, <1>8, <1>9, <2>5, <2>6
       DEF Promise!Dup, Promise!Op, Promise!Ok, Promise!Derive
  <2>8. QED BY <2>7 DEF Promise!Next
<1>10. CASE ~r.ok
  <2>1. other' = other
    BY <1>4, <1>10
  <2>2. Promise!Refused
    BY <1>4, <1>8, <1>10, <2>1, NothingFreed
       DEF Promise!Refused, Promise!Ok, Promise!Becomes, Promise!Frees
  <2>3. QED BY <2>2 DEF Promise!Next
<1>11. QED BY <1>5, <1>9, <1>10

\* Whatever calls are made, the elements of the two arrays, what is returned and
\* what the destructor is given are those of the lists that array.h promises:
\* inserts, evictions, reallocations, slices and filters act as on a sequence.  The
\* calls that Departs names are the only ones that do not, and they do what it says.
THEOREM KeepsPromiseHolds == Spec => KeepsPromise
<1>1. Init => Promise!Init
  BY NoList DEF Init, Promise!Init
<1>2. IInv /\ [Next]_vars => [Promise!Next \/ Departs]_<<ListOf(self), ListOf(other), call>>
  <2> SUFFICES ASSUME IInv, [Next]_vars
               PROVE  [Promise!Next \/ Departs]_<<ListOf(self), ListOf(other), call>>
    OBVIOUS
  <2>1. CASE Next
    BY <2>1, NewKept, NewOnBufferKept, AppendAllKept, InjectAllKept, ConcatKept,
       AppendFromCapacityKept, TipexKept, PopKept, EvictKept, PopFrontKept, WipeKept,
       ClearKept, KillKept, SwapElemsKept, SwapKept, SettleKept, SlimcheckKept,
       ExtractKept, PullKept, FilterKept, DupKept DEF Next
  <2>2. CASE UNCHANGED vars
    BY <2>2 DEF vars
  <2>3. QED BY <2>1, <2>2
<1>3. QED BY <1>1, <1>2, Inductive, PTL DEF Spec, KeepsPromise
=============================================================================
