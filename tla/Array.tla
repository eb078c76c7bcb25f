------------------------------- MODULE Array --------------------------------
(***************************************************************************)
(* The dynamic array (array.c).  An array is a buffer of slots, a size, a   *)
(* capacity in bytes and the flags settled and owner; slots beyond the size *)
(* hold Junk.  The actions are the calls a program may make: what           *)
(* notify_bug_on crashes on is a guard.  malloc succeeds, realloc may fail. *)
(***************************************************************************)
EXTENDS Integers, Sequences, SequencesExt, FiniteSetsExt

CONSTANTS Elements,     \* values of elements
          Zero,         \* an element of zero bytes
          Junk,         \* uninitialised bytes
          EltSize,      \* _elt_size
          Word,         \* sizeof(void *)
          InitialSize,  \* ARRAY_INITIAL_SIZE
          SizeTypeMax,  \* SIZE_TYPE_MAX
          MaxLen,       \* bound: elements in an array
          MaxSrc        \* bound: elements passed to one call

ASSUME ArrayAssumption ==
  /\ {EltSize, Word, InitialSize, SizeTypeMax, MaxLen, MaxSrc} \subseteq Nat \ {0}
  /\ IsFiniteSet(Elements)      \* an element is EltSize bytes
  /\ Zero \notin Elements /\ Junk \notin Elements \cup {Zero}

VARIABLES self, other, call
vars == <<self, other, call>>

Null == [data |-> "null"]
Sources == UNION {[1..n -> Elements] : n \in 0..MaxSrc}

SizeAlign(n) == ((n + Word - 1) \div Word) * Word
Slots(f, cap) == [i \in 0..(cap \div EltSize) - 1 |-> IF i \in DOMAIN f THEN f[i] ELSE Junk]
FromSeq(s) == [i \in 0..Len(s) - 1 |-> s[i + 1]]
Content(a) == [i \in 1..a.size |-> a.slots[i - 1]]

Buffer(s, cap, settled, owner) ==
  [data |-> "live", slots |-> Slots(FromSeq(s), cap), size |-> Len(s), cap |-> cap,
   settled |-> settled, owner |-> owner]
Create(n) == Buffer(<<>>, SizeAlign(EltSize * (IF n = 0 THEN InitialSize ELSE n)), FALSE, TRUE)

\* memmove, by slots; what is read outside of the buffer is Junk.
Move(f, dst, src, n) ==
  [i \in DOMAIN f |-> IF i \notin dst..(dst + n - 1) THEN f[i]
                      ELSE IF src + i - dst \in DOMAIN f THEN f[src + i - dst] ELSE Junk]
Put(f, p, s) == [i \in DOMAIN f |-> IF i \in p..(p + Len(s) - 1) THEN s[i - p + 1] ELSE f[i]]
Resized(a, f, n) ==
  [a EXCEPT !.slots = [i \in DOMAIN f |-> IF i < n THEN f[i] ELSE Junk], !.size = n]

Reallocated(a, cap) == [a EXCEPT !.slots = Slots(a.slots, cap), !.cap = cap]

----------------------------------------------------------------------------
\* array_adjust: the outcomes of reserving room for n more elements
Needed(a, n) == (a.size + n) * EltSize
FitsInElements(a, n) == a.size + n < a.cap
Fits(a, n) == Needed(a, n) < a.cap
NewCap(a, n) ==
  LET cap2x == Max({2 * a.cap, InitialSize})
  IN  IF Needed(a, n) > cap2x THEN SizeAlign(Needed(a, n)) ELSE cap2x
MayGrowSettled(a) == 2 * a.cap < InitialSize \/ 2 * a.cap <= SizeTypeMax
MayGrow(a) == ~a.settled /\ (2 * a.cap < InitialSize \/ 2 * a.cap <= SizeTypeMax)

Adjust(a, n) ==
  IF Fits(a, n) THEN {[ok |-> TRUE, a |-> a]}
  ELSE {[ok |-> FALSE, a |-> a]}
       \cup (IF MayGrow(a) THEN {[ok |-> TRUE, a |-> Reallocated(a, NewCap(a, n))]} ELSE {})

----------------------------------------------------------------------------
NoCall == [op |-> "none", p |-> 0, q |-> 0, src |-> <<>>, ok |-> TRUE, out |-> <<>>,
           freed |-> <<>>, harm |-> FALSE]
Call(name) == [NoCall EXCEPT !.op = name]
Live(a) == a.data = "live"
\* Two arrays share no buffer: a call on one of them is made when it is alone.
Alone == Live(self) /\ other = Null
Becomes(a) == self' = a /\ other' = other

\* array_create, array_seize_buffer, array_borrow_buffer
New ==
  /\ self = Null
  /\ \E n \in 0..MaxLen : Becomes(Create(n)) /\ call' = Call("create")
NewOnBuffer ==
  /\ self = Null
  /\ \E s \in Sources, room \in 0..MaxSrc, owner \in BOOLEAN :
       /\ Len(s) + room \in 1..MaxLen
       /\ Becomes(Buffer(s, (Len(s) + room) * EltSize, ~owner, owner))
       /\ call' = [Call("create") EXCEPT !.src = s]

\* array_push, array_append, array_pushf, array_insert, array_inject
Reserve(r, a, c) ==
  /\ Becomes(IF r.ok THEN a ELSE self)
  /\ call' = [c EXCEPT !.ok = r.ok, !.harm = r.a.cap # self.cap /\ ~self.owner]

AppendGap(a, s) == Resized(a, Put(a.slots, a.size + 1, s), a.size + Len(s))
Appended(a, s) == Resized(a, Put(a.slots, a.size, s), a.size + Len(s))
InjectedShort(a, p, s) ==
  Resized(a, Put(Move(a.slots, p + Len(s), p, a.size - p - 1), p, s), a.size + Len(s))
Injected(a, p, s) ==
  Resized(a, Put(Move(a.slots, p + Len(s), p, a.size - p), p, s), a.size + Len(s))

AppendAll ==
  /\ Alone
  /\ \E s \in Sources :
       /\ self.size + Len(s) <= MaxLen
       /\ \E r \in Adjust(self, Len(s)) :
            Reserve(r, Appended(r.a, s), [Call("append") EXCEPT !.src = s])
InjectAll ==
  /\ Alone
  /\ \E s \in Sources, p \in 0..self.size :
       /\ self.size + Len(s) <= MaxLen
       /\ \E r \in Adjust(self, Len(s)) :
            Reserve(r, Injected(r.a, p, s), [Call("insert") EXCEPT !.p = p, !.src = s])
\* array_concat counts the elements that are already there twice.
Concat ==
  /\ Live(self) /\ Live(other)
  /\ self.size + other.size <= MaxLen
  /\ \E r \in Adjust(self, self.size + other.size) :
       Reserve(r, Appended(r.a, Content(other)), Call("concat"))

\* array_uninitialized_size, array_append_from_capacity: the caller has written s there.
UninitializedSize(a) == (a.cap - a.size * EltSize) \div EltSize
AppendFromCapacity ==
  /\ Alone
  /\ \E s \in Sources :
       LET ok == Len(s) <= UninitializedSize(self)
       IN  /\ self.size + Len(s) <= MaxLen
           /\ Becomes(IF ok THEN Appended(self, s) ELSE self)
           /\ call' = [Call("append") EXCEPT !.src = s, !.ok = ok]

Tipex ==
  /\ Alone
  /\ \E e \in Elements, p \in 0..self.size - 1 :
       /\ Becomes([self EXCEPT !.slots[p] = e])
       /\ call' = [Call("tipex") EXCEPT !.p = p, !.src = <<e>>]

----------------------------------------------------------------------------
\* array_pop, array_evict, array_popf: the copy for the caller, the destructor, the move
Pop ==
  /\ Alone /\ self.size > 0
  /\ LET e == <<self.slots[self.size - 1]>>
     IN  /\ Becomes(Resized(self, self.slots, self.size - 1))
         /\ call' = [Call("pop") EXCEPT !.out = e, !.freed = e]

Evicted(a, p) == Resized(a, Move(a.slots, p, p + 1, a.size - p - 1), a.size - 1)
Evict ==
  /\ Alone
  /\ \E p \in 0..self.size - 1 :
       /\ Becomes(Evicted(self, p))
       /\ call' = [Call("evict") EXCEPT !.p = p, !.freed = <<self.slots[p]>>]
PopFront ==
  /\ Alone /\ self.size > 0
  /\ Becomes(Evicted(self, 0))
  /\ LET e == <<self.slots[0]>>
     IN  call' = [Call("popf") EXCEPT !.out = e, !.freed = e]

\* array_wipe: notify_bug_on only compares end - start with the size.
Wipe ==
  /\ Alone
  /\ \E p \in 0..self.size : \E q \in p..self.size :
       /\ Becomes(Resized(self, Move(self.slots, p, q, self.size - q), self.size - (q - p)))
       /\ call' = [Call("wipe") EXCEPT !.p = p, !.q = q, !.freed = SubSeq(Content(self), 1, q - p)]

Destroyed(a) == Reverse(Content(a))
Clear ==
  /\ Alone
  /\ Becomes(Resized(self, self.slots, 0))
  /\ call' = [Call("clear") EXCEPT !.freed = Destroyed(self)]

\* array_kill, of either array
FreesAnyBuffer(a) == TRUE
FreesBuffer(a) == a.owner
KillCall(a, name) ==
  call' = [Call(name) EXCEPT !.freed = Destroyed(a), !.harm = FreesBuffer(a) /\ ~a.owner]
Kill == Live(self) /\ Becomes(Null) /\ KillCall(self, "kill")
KillOther == Live(other) /\ other' = Null /\ UNCHANGED self /\ KillCall(other, "kill_other")

----------------------------------------------------------------------------
SwapElems ==
  /\ Alone
  /\ \E p, q \in 0..self.size - 1 :
       /\ Becomes(IF p = q THEN [self EXCEPT !.slots[p] = Zero]       \* x ^= x
                  ELSE [self EXCEPT !.slots[p] = self.slots[q], !.slots[q] = self.slots[p]])
       /\ call' = [Call("swap_elems") EXCEPT !.p = p, !.q = q]
Swap == Live(self) /\ self' = other /\ other' = self /\ call' = Call("swap")

Settle == Alone /\ Becomes([self EXCEPT !.settled = TRUE]) /\ call' = Call("settle")
Unsettle ==
  /\ Alone /\ self.owner
  /\ Becomes([self EXCEPT !.settled = FALSE])
  /\ call' = Call("unsettle")

\* array_slimcheck; realloc to size 0 frees the buffer and returns NULL.
SlimTo(a) == a.size * EltSize
Slims(a) == ~a.settled /\ SlimTo(a) < a.cap \div 2
Slimcheck ==
  /\ Alone
  /\ \/ /\ ~Slims(self)
        /\ Becomes(self) /\ call' = [Call("slimcheck") EXCEPT !.ok = ~self.settled]
     \/ /\ Slims(self) /\ SlimTo(self) > 0
        /\ Becomes(Reallocated(self, SlimTo(self)))
        /\ call' = [Call("slimcheck") EXCEPT !.harm = ~self.owner]
     \/ /\ Slims(self)
        /\ Becomes(IF SlimTo(self) > 0 THEN self ELSE [self EXCEPT !.data = "freed"])
        /\ call' = [Call("slimcheck") EXCEPT !.ok = FALSE]

----------------------------------------------------------------------------
\* array_extract, array_pull, array_filter, array_dup
Extract ==
  /\ Alone
  /\ \E p \in 0..self.size : \E q \in p..self.size :
       /\ Becomes(self)
       /\ call' = [Call("extract") EXCEPT !.p = p, !.q = q, !.out = SubSeq(Content(self), p + 1, q)]

\* array_pull: end is moved one past the last element, forwards or backwards.
PullFromShort(a, start, end) ==
  LET from == IF start < 0 THEN start + a.size ELSE start
      to   == IF end < 0 THEN end + a.size ELSE end
  IN  IF from < to THEN [i \in 1..(to - from) |-> a.slots[from + i - 1]]
      ELSE [i \in 1..(from - to) |-> a.slots[from - i + 1]]
PullFrom(a, start, end) ==
  LET from == IF start < 0 THEN start + a.size ELSE start
      to   == IF end < 0 THEN end + a.size ELSE end
      past == IF from < to THEN to + 1 ELSE to - 1
  IN  IF from < past THEN [i \in 1..(past - from) |-> a.slots[from + i - 1]]
      ELSE [i \in 1..(from - past) |-> a.slots[from - i + 1]]
Pull ==
  /\ Alone
  /\ \E p, q \in (1 - self.size)..(self.size - 1) :
       LET s == PullFrom(self, p, q)
       IN  /\ other' = Buffer(s, Len(s) * EltSize, TRUE, TRUE) /\ UNCHANGED self
           /\ call' = [Call("pull") EXCEPT !.p = p, !.q = q]

\* The elements that pass the callback are pushed one by one: the new array after each.
Pushed(a, e) == Appended(IF Fits(a, 1) THEN a ELSE Reallocated(a, NewCap(a, 1)), <<e>>)
Filtered(a, keep) ==
  LET built[k \in 0..a.size] ==
        IF k = 0 THEN Create(InitialSize)
        ELSE IF a.slots[k - 1] \in keep THEN Pushed(built[k - 1], a.slots[k - 1])
        ELSE built[k - 1]
  IN  built
\* When a push cannot have memory the new array is killed, with the elements it has.
Filter ==
  /\ Alone
  /\ \E keep \in SUBSET (Elements \cup {Zero}) :
       LET built    == Filtered(self, keep)
           Grows(k) == self.slots[k - 1] \in keep /\ ~Fits(built[k - 1], 1)
           Grown(k) == \A n \in 1..k : Grows(n) => MayGrow(built[n - 1])
       IN  \/ /\ Grown(self.size)
              /\ other' = built[self.size] /\ UNCHANGED self
              /\ call' = [Call("filter") EXCEPT !.src = SetToSeq(keep)]
           \/ \E k \in 1..self.size :
                /\ Grown(k - 1) /\ Grows(k)
                /\ UNCHANGED <<self, other>>
                /\ call' = [Call("filter") EXCEPT !.src = SetToSeq(keep), !.ok = FALSE,
                                                  !.freed = Destroyed(built[k - 1])]
Dup ==
  /\ Alone
  /\ \E r \in Adjust(Create(self.size), self.size) :
       /\ other' = IF r.ok THEN Appended(r.a, Content(self)) ELSE other
       /\ UNCHANGED self
       /\ call' = [Call("dup") EXCEPT !.ok = r.ok]

----------------------------------------------------------------------------
Init == self = Null /\ other = Null /\ call = NoCall

Next ==
  \/ New \/ NewOnBuffer \/ AppendAll \/ InjectAll \/ Concat \/ AppendFromCapacity \/ Tipex
  \/ Pop \/ Evict \/ PopFront \/ Wipe \/ Clear \/ Kill \/ KillOther \/ SwapElems \/ Swap
  \/ Settle \/ Unsettle \/ Slimcheck \/ Extract \/ Pull \/ Filter \/ Dup

Spec == Init /\ [][Next]_vars

----------------------------------------------------------------------------
\* Shape of the two arrays and of the last call.
ArrayTypeOK ==
  /\ \A a \in {self, other} \ {Null} :
       /\ DOMAIN a = {"data", "slots", "size", "cap", "settled", "owner"}
       /\ a.size \in 0..MaxLen /\ a.cap \in Nat
       /\ DOMAIN a.slots = 0..(a.cap \div EltSize) - 1
       /\ \A i \in DOMAIN a.slots : a.slots[i] = Junk <=> i >= a.size
  /\ DOMAIN call = DOMAIN NoCall

\* The elements never go past the reserved memory, whatever sequence of calls grew,
\* shrank, copied or exchanged the buffers (array_adjust, array_slimcheck).
SizeWithinCapacity ==
  \A a \in {self, other} \ {Null} : a.size * EltSize <= a.cap

\* array.h:249: the array will never try to reallocate or free the buffer in use,
\* when it borrowed it.
BorrowedBufferKept == ~call.harm

\* array.h:215: once settled, the buffer is not reallocated until the array is freed
\* or unsettled.
SettledStaysPut ==
  [][Live(self) /\ self.settled /\ call'.op \notin {"kill", "swap", "unsettle"} =>
       self'.cap = self.cap /\ Live(self')]_vars

\* The list in the buffer; without one, what became of it.
ListOf(a) == IF Live(a) THEN Content(a) ELSE <<[data |-> a.data]>>
Promise == INSTANCE List WITH list <- ListOf(self), other <- ListOf(other), Nothing <- <<Null>>

\* The three calls that do not do what array.h says, and what they do instead:
\* array_wipe from a position after the first one runs the destructor on as many
\* elements from the front, array_swap_elems zeroes an element it is to swap with
\* itself, and array_slimcheck frees the buffer of an empty array and says it failed.
WipesFromFront ==
  /\ call'.op = "wipe" /\ call'.p > 0
  /\ Promise!Becomes(Promise!Cut(ListOf(self), call'.p, call'.q))
  /\ Promise!Frees(SubSeq(ListOf(self), 1, call'.q - call'.p))
SwapsWithItself ==
  /\ call'.op = "swap_elems" /\ call'.p = call'.q
  /\ Promise!Becomes([ListOf(self) EXCEPT ![call'.p + 1] = Zero])
FreesEmpty ==
  /\ call'.op = "slimcheck" /\ ~call'.ok /\ ListOf(self) = <<>>
  /\ Promise!Becomes(<<[data |-> "freed"]>>)
Departs == WipesFromFront \/ SwapsWithItself \/ FreesEmpty

\* Every call but those three leaves the elements, returns and frees what array.h
\* says (List), and those do exactly the above.
KeepsPromise == Promise!Init /\ [][Promise!Next \/ Departs]_<<ListOf(self), ListOf(other), call>>

\* The header with no exception: List, step by step, and so of array_wipe "Removes all
\* elements from the array within start -> end (which are ran through v->free)"
\* (array.h:438), of array_swap_elems "The element at position 'a' and the element at
\* position 'b' are swapped" (array.h:433), and of array_slimcheck "If the reallocation
\* fails the array is untouched and the function returns false" (array.h:257).
DoesAsHeaderSays == Promise!Spec
=============================================================================
