-------------------------------- MODULE List --------------------------------
(***************************************************************************)
(* What array.h promises of an array, without a buffer: a list, a second    *)
(* list made from it, and the last call with its arguments (call.op, p, q,  *)
(* src), what it returned (call.ok, call.out) and the elements it gave to   *)
(* the destructor (call.freed).  Positions count from 0, as in C.           *)
(***************************************************************************)
EXTENDS Integers, Sequences, SequencesExt

CONSTANTS Nothing

VARIABLES list, other, call

\* array.h:265: the elements from start to end included; a negative position counts
\* from the end, and the copy goes backwards when start comes after end.
Slice(l, p, q) ==
  LET At(i) == IF i < 0 THEN i + Len(l) + 1 ELSE i + 1
  IN  IF At(p) <= At(q) THEN SubSeq(l, At(p), At(q))
      ELSE Reverse(SubSeq(l, At(q), At(p)))

Cut(l, p, q) == SubSeq(l, 1, p) \o SubSeq(l, q + 1, Len(l))
InsertAll(l, p, s) == SubSeq(l, 1, p) \o s \o SubSeq(l, p + 1, Len(l))
SameElements(s, t) ==
  \E order \in Bijection(DOMAIN s, DOMAIN t) : \A i \in DOMAIN s : s[i] = t[order[i]]
\* m is what is left of l when only the elements of S are kept, in their order.
IsFiltered(m, l, S) ==
  \E at \in [DOMAIN m -> DOMAIN l] :
    /\ Range(at) = {i \in DOMAIN l : l[i] \in S}
    /\ \A i, j \in DOMAIN m : i < j => at[i] < at[j]
    /\ \A i \in DOMAIN m : m[i] = l[at[i]]

Op(name) == call'.op = name
Ok == call'.ok
Reads(v) == call'.out = v
Frees(s) == SameElements(call'.freed, s)
Becomes(l) == list' = l /\ other' = other

New      == Op("create") /\ list = Nothing /\ Becomes(call'.src)
Kill     == Op("kill") /\ Becomes(Nothing) /\ Frees(list)
KillOther == Op("kill_other") /\ list' = list /\ other' = Nothing /\ Frees(other)
Swap     == Op("swap") /\ list' = other /\ other' = list

\* A call that reserves memory and cannot leaves everything as it was.
Refused  == ~Ok /\ Becomes(list) /\ (call'.op # "filter" => Frees(<<>>))
Insert   == Op("insert") /\ Ok /\ Becomes(InsertAll(list, call'.p, call'.src)) /\ Frees(<<>>)
AppendTo == Op("append") /\ Ok /\ Becomes(list \o call'.src) /\ Frees(<<>>)
Concat   == Op("concat") /\ Ok /\ Becomes(list \o other) /\ Frees(<<>>)
Tipex    == Op("tipex") /\ Becomes([list EXCEPT ![call'.p + 1] = call'.src[1]])

Pop      == /\ Op("pop")
            /\ Becomes(Front(list)) /\ Reads(<<Last(list)>>) /\ Frees(<<Last(list)>>)
PopFront == /\ Op("popf")
            /\ Becomes(Tail(list)) /\ Reads(<<Head(list)>>) /\ Frees(<<Head(list)>>)
Evict    == Op("evict") /\ Becomes(RemoveAt(list, call'.p + 1)) /\ Frees(<<list[call'.p + 1]>>)
Clear    == Op("clear") /\ Becomes(<<>>) /\ Frees(list)
\* array.h:438: the elements removed are the ones run through v->free.
Wipe     == /\ Op("wipe") /\ Becomes(Cut(list, call'.p, call'.q))
            /\ Frees(SubSeq(list, call'.p + 1, call'.q))

SwapElems == /\ Op("swap_elems")
             /\ Becomes([list EXCEPT ![call'.p + 1] = list[call'.q + 1],
                                     ![call'.q + 1] = list[call'.p + 1]])

Extract  == Op("extract") /\ Becomes(list) /\ Reads(SubSeq(list, call'.p + 1, call'.q))
\* array.h:257: untouched whether or not the memory can be had.
Reserve  == call'.op \in {"slimcheck", "settle", "unsettle"} /\ Becomes(list)

Derive(l) == list' = list /\ other = Nothing /\ other' = l
Pull     == Op("pull") /\ Ok /\ Derive(Slice(list, call'.p, call'.q))
Filter   == /\ Op("filter") /\ Ok /\ Derive(other')
            /\ IsFiltered(other', list, Range(call'.src))
Dup      == Op("dup") /\ Ok /\ Derive(list)

Init == list = Nothing /\ other = Nothing
Next == \/ New \/ Kill \/ KillOther \/ Swap \/ Refused \/ Insert \/ AppendTo \/ Concat \/ Tipex
        \/ Pop \/ PopFront \/ Evict \/ Clear \/ Wipe \/ SwapElems \/ Extract \/ Reserve
        \/ Pull \/ Filter \/ Dup
Spec == Init /\ [][Next]_<<list, other, call>>
=============================================================================
