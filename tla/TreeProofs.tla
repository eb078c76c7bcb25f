----------------------------- MODULE TreeProofs -----------------------------
(***************************************************************************)
(* Theorems about the shape of the snapshot: the targets form a tree over  *)
(* the paths, and the walk observes each under the path it was made for.   *)
(***************************************************************************)
EXTENDS RoutineProofs, FiniteSetTheorems

-----------------------------------------------------------------------------
(* The inductive invariant, on top of that of RoutineProofs.               *)

\* p is a path below q; the path to p that is one name longer than q.
Under(p, q)  == Len(q) < Len(p) /\ SubSeq(p, 1, Len(q)) = q
Branch(p, q) == SubSeq(p, 1, Len(q) + 1)

\* The calls go down from Root, each was made for an entry that its caller has
\* noted, and the target of a call has the path of the call.
CallsOK ==
  /\ frames # <<>> => frames[1].path = Root
  /\ \A m, n \in DOMAIN frames : m <= n =>
       /\ Len(frames[n].path) = Len(frames[m].path) + (n - m)
       /\ SubSeq(frames[n].path, 1, Len(frames[m].path)) = frames[m].path
  /\ \A n \in Callers : frames[n + 1].path \in frames[n].seen
  /\ \A n \in DOMAIN frames : \A q \in frames[n].entries :
       Len(q) = Len(frames[n].path) + 1 /\ Parent(q) = frames[n].path
  /\ \A n \in DOMAIN frames :
       frames[n].self # NULL => heap[frames[n].self].path = frames[n].path

\* There is one live target for a path.  Below the directory of a call there
\* are targets only under the entries it has noted.
PathsOnce ==
  /\ \A a, b \in live : heap[a].path = heap[b].path => a = b
  /\ \A n \in DOMAIN frames : \A a \in live :
       Under(heap[a].path, frames[n].path)
         => Branch(heap[a].path, frames[n].path) \in frames[n].seen
  /\ Running("lstat") =>
       \A a \in live : heap[a].path # Top.path /\ ~Under(heap[a].path, Top.path)

\* A target that a call may free has no children, and there is no result yet.
CallsFresh ==
  frames # <<>> =>
    /\ result = NULL
    /\ Top.pc \in {"event_init", "opendir"} => heap[Top.self].children = <<>>

\* Somebody holds a pointer to each live target.
Held(a) ==
  \/ \E d \in live : \E n \in DOMAIN heap[d].children : heap[d].children[n] = a
  \/ \E n \in DOMAIN frames : frames[n].self = a
  \/ result = a

HeldOK == \A a \in live : Held(a)

\* As long as every directory could be opened: a child is live, in the
\* directory of its parent, held by nobody else; the result is live.
TreeOK ==
  unopened = {} =>
    /\ \A d \in live : \A n \in DOMAIN heap[d].children :
         LET c == heap[d].children[n]
         IN  /\ c \in live /\ Parent(heap[c].path) = heap[d].path
             /\ c # result
             /\ \A m \in DOMAIN frames : frames[m].self # c
    /\ \A d, e \in live :
         \A n \in DOMAIN heap[d].children, m \in DOMAIN heap[e].children :
           heap[d].children[n] = heap[e].children[m] => d = e /\ n = m
    /\ result # NULL => result \in live /\ heap[result].path = Root

\* ObservesItsFile, where the buffer holds one name for each activation.
WalkOK ==
  /\ Len(cur) = Len(stack)
  /\ (unopened = {} /\ Len(Root) = 1) =>
       \A n \in DOMAIN stack : SubSeq(cur, 1, n) = heap[stack[n].t].path

SInv == CallsOK /\ PathsOnce /\ CallsFresh /\ HeldOK /\ TreeOK
TInv == IInv /\ SInv /\ WalkOK

-----------------------------------------------------------------------------
(* Paths.                                                                  *)

LEMMA PrefixOf ==
  ASSUME NEW S, NEW p \in Seq(S), NEW n \in 0..Len(p)
  PROVE  /\ SubSeq(p, 1, n) \in Seq(S) /\ Len(SubSeq(p, 1, n)) = n
         /\ \A k \in 1..n : SubSeq(p, 1, n)[k] = p[k]
<1>1. n \in Int /\ \A k \in 1..n : p[k] \in S
  BY ElementOfSeq, LenProperties
<1>2. QED BY <1>1, SubSeqProperties

LEMMA PrefixOfPrefix ==
  ASSUME NEW S, NEW p \in Seq(S), NEW n \in 0..Len(p), NEW m \in 0..n
  PROVE  SubSeq(SubSeq(p, 1, n), 1, m) = SubSeq(p, 1, m)
<1>1. Len(p) \in Nat /\ m \in 0..Len(p)
  BY LenProperties
<1> DEFINE q == SubSeq(p, 1, n)
<1>2. q \in Seq(S) /\ Len(q) = n /\ \A k \in 1..n : q[k] = p[k]
  BY PrefixOf
<1> HIDE DEF q
<1>3. /\ SubSeq(q, 1, m) \in Seq(S) /\ Len(SubSeq(q, 1, m)) = m
      /\ \A k \in 1..m : SubSeq(q, 1, m)[k] = q[k]
  BY <1>2, PrefixOf
<1>4. /\ SubSeq(p, 1, m) \in Seq(S) /\ Len(SubSeq(p, 1, m)) = m
      /\ \A k \in 1..m : SubSeq(p, 1, m)[k] = p[k]
  BY <1>1, PrefixOf
<1>5. \A k \in 1..m : SubSeq(q, 1, m)[k] = SubSeq(p, 1, m)[k]
  BY <1>2, <1>3, <1>4
<1>6. SubSeq(q, 1, m) = SubSeq(p, 1, m)
  BY <1>3, <1>4, <1>5, SeqEqual
<1>7. QED BY <1>6 DEF q

\* A path is its directory's with its last name.
LEMMA LastName ==
  ASSUME NEW S, NEW p \in Seq(S), p # <<>>
  PROVE  p = Append(Parent(p), p[Len(p)])
<1>1. Len(p) \in Nat \ {0} /\ Len(p) - 1 \in 0..Len(p) /\ p[Len(p)] \in S
  BY LastOf
<1>2. /\ Parent(p) \in Seq(S) /\ Len(Parent(p)) = Len(p) - 1
      /\ \A k \in 1..(Len(p) - 1) : Parent(p)[k] = p[k]
  BY <1>1, PrefixOf DEF Parent
<1> DEFINE q == Append(Parent(p), p[Len(p)])
<1>3. /\ q \in Seq(S) /\ Len(q) = Len(p) /\ q[Len(p)] = p[Len(p)]
      /\ \A k \in 1..(Len(p) - 1) : q[k] = p[k]
  BY <1>1, <1>2, AppendProperties
<1> HIDE DEF q
<1>4. \A k \in 1..Len(p) : p[k] = q[k]
  BY <1>1, <1>3
<1>5. p = q
  BY <1>3, <1>4, SeqEqual
<1>6. QED BY <1>5 DEF q

LEMMA PathShape ==
  ASSUME NEW p \in Paths
  PROVE  p \in Seq(STRING) /\ p # <<>> /\ Len(p) \in Nat \ {0}
BY PathsAssumption, EmptySeq

\* What is at or below an entry of a directory is below the directory, on that
\* branch.
LEMMA EntryBranch ==
  ASSUME NEW p \in Paths, NEW q \in Paths, NEW r \in Paths,
         Len(q) = Len(r) + 1, Parent(q) = r, p = q \/ Under(p, q)
  PROVE  Under(p, r) /\ Branch(p, r) = q
<1>1. /\ p \in Seq(STRING) /\ q \in Seq(STRING)
      /\ Len(p) \in Nat /\ Len(q) \in Nat /\ Len(r) \in Nat
  BY PathShape
<1>2. SubSeq(p, 1, Len(q)) = q
  BY <1>1, SubSeqFull DEF Under
<1>3. Len(q) \in 0..Len(p) /\ Len(r) \in 0..Len(q) /\ Len(r) < Len(p)
  BY <1>1 DEF Under
<1>4. SubSeq(q, 1, Len(r)) = r
  BY <1>1 DEF Parent
<1>5. SubSeq(p, 1, Len(r)) = r
  BY <1>1, <1>2, <1>3, <1>4, PrefixOfPrefix
<1>6. QED BY <1>2, <1>3, <1>5 DEF Under, Branch

-----------------------------------------------------------------------------
(* The calls.                                                              *)

LEMMA CallShape ==
  ASSUME IInv, frames # <<>>
  PROVE  /\ Len(frames) \in Nat \ {0} /\ DOMAIN frames = 1..Len(frames)
         /\ Len(frames) \in DOMAIN frames
         /\ Callers = 1..(Len(frames) - 1) /\ Callers \subseteq DOMAIN frames
         /\ DOMAIN frames = Callers \cup {Len(frames)}
         /\ Top = frames[Len(frames)]
         /\ \A n \in DOMAIN frames : frames[n] \in Frame
<1>1. FsTargetTypeOK
  BY DEF IInv, RoutineTypeOK
<1>2. /\ Len(frames) \in Nat \ {0} /\ DOMAIN frames = 1..Len(frames)
      /\ Top = frames[Len(frames)]
  BY <1>1, FramesShape
<1>3. \A n \in 1..Len(frames) : frames[n] \in Frame
  BY <1>1, ElementOfSeq DEF FsTargetTypeOK
<1>4. QED BY <1>2, <1>3 DEF Callers

\* A call on the way to another one.
LEMMA CallBranch ==
  ASSUME IInv, CallsOK, NEW n \in Callers
  PROVE  /\ Branch(Top.path, frames[n].path) = frames[n + 1].path
         /\ frames[n + 1].path \in frames[n].seen
<1>1. frames # <<>>
  BY EmptySeq DEF Callers
<1>2. /\ Len(frames) \in Nat \ {0} /\ DOMAIN frames = 1..Len(frames)
      /\ Top = frames[Len(frames)] /\ n \in 1..(Len(frames) - 1)
  BY <1>1, CallShape
<1>3. n \in DOMAIN frames /\ n + 1 \in DOMAIN frames /\ n <= n + 1
      /\ n + 1 <= Len(frames) /\ Len(frames) \in DOMAIN frames
      /\ n + 1 - n = 1
  BY <1>2
<1>4. Len(frames[n + 1].path) = Len(frames[n].path) + (n + 1 - n)
  BY <1>3 DEF CallsOK
<1>5. SubSeq(Top.path, 1, Len(frames[n + 1].path)) = frames[n + 1].path
  BY <1>2, <1>3 DEF CallsOK
<1>6. Len(frames[n + 1].path) = Len(frames[n].path) + 1
  BY <1>3, <1>4
<1>7. QED BY <1>5, <1>6 DEF Branch, CallsOK

\* When no call is entered and none changes its path or forgets what it noted,
\* CallsOK and PathsOnce stay.
LEMMA CallsKept ==
  ASSUME IInv, IInv', CallsOK,
         Len(frames') <= Len(frames),
         \A n \in DOMAIN frames' :
           /\ frames'[n].path = frames[n].path
           /\ frames[n].seen \subseteq frames'[n].seen
           /\ frames'[n].entries \subseteq
                frames[n].entries \cup Entries(frames[n].path)
           /\ frames'[n].self # NULL =>
                heap'[frames'[n].self].path = frames[n].path
  PROVE  CallsOK'
<1>1. CASE frames' = <<>>
  <2>1. DOMAIN frames' = {} /\ Callers' = {}
    BY <1>1, EmptySeq DEF Callers
  <2>2. QED BY <1>1, <2>1 DEF CallsOK
<1>2. CASE frames' # <<>>
  <2>1. /\ Len(frames') \in Nat \ {0} /\ DOMAIN frames' = 1..Len(frames')
        /\ Callers' = 1..(Len(frames') - 1)
    <3>1. frames' \in Seq(Frame)
      BY DEF IInv, RoutineTypeOK, FsTargetTypeOK
    <3>2. QED BY <1>2, <3>1, LenProperties, EmptySeq DEF Callers
  <2>2. frames \in Seq(Frame)
    BY DEF IInv, RoutineTypeOK, FsTargetTypeOK
  <2>3. /\ Len(frames) \in Nat \ {0} /\ DOMAIN frames = 1..Len(frames)
        /\ frames # <<>>
    BY <2>1, <2>2, LenProperties, EmptySeq
  <2>4. 1 \in DOMAIN frames' /\ DOMAIN frames' \subseteq DOMAIN frames
    BY <2>1, <2>3
  <2>5. frames'[1].path = Root
    BY <2>3, <2>4 DEF CallsOK
  <2>6. \A m, n \in DOMAIN frames' : m <= n =>
          /\ Len(frames'[n].path) = Len(frames'[m].path) + (n - m)
          /\ SubSeq(frames'[n].path, 1, Len(frames'[m].path)) = frames'[m].path
    BY ZenonT(40), <2>4 DEF CallsOK
  <2>7. \A n \in Callers' : frames'[n + 1].path \in frames'[n].seen
    <3> SUFFICES ASSUME NEW n \in Callers'
                 PROVE  frames'[n + 1].path \in frames'[n].seen
      OBVIOUS
    <3>1. n \in Callers /\ n \in DOMAIN frames' /\ n + 1 \in DOMAIN frames'
      BY <2>1, <2>3 DEF Callers
    <3>2. QED BY <3>1 DEF CallsOK
  <2>8. \A n \in DOMAIN frames' : \A q \in frames'[n].entries :
          Len(q) = Len(frames'[n].path) + 1 /\ Parent(q) = frames'[n].path
    BY SMTT(30), <2>4 DEF CallsOK, Entries
  <2>9. QED BY <2>5, <2>6, <2>7, <2>8 DEF CallsOK
<1>3. QED BY <1>1, <1>2

LEMMA PathsKept ==
  ASSUME PathsOnce, DOMAIN frames' \subseteq DOMAIN frames, live' \subseteq live,
         \A a \in live' : heap'[a].path = heap[a].path,
         \A n \in DOMAIN frames' : /\ frames'[n].path = frames[n].path
                                   /\ frames[n].seen \subseteq frames'[n].seen,
         ~Running("lstat")'
  PROVE  PathsOnce'
<1>1. \A a, b \in live' : heap'[a].path = heap'[b].path => a = b
  BY DEF PathsOnce
<1>2. ASSUME NEW n \in DOMAIN frames', NEW a \in live',
             Under(heap'[a].path, frames'[n].path)
      PROVE  Branch(heap'[a].path, frames'[n].path) \in frames'[n].seen
  BY <1>2 DEF PathsOnce
<1>3. QED BY <1>1, <1>2 DEF PathsOnce

\* Appending to a children array.
LEMMA AppendChild ==
  ASSUME NEW s \in Seq(Addr), NEW a \in Addr, NEW t, t = Append(s, a)
  PROVE  /\ DOMAIN s = 1..Len(s) /\ Len(s) \in Nat
         /\ DOMAIN t = 1..(Len(s) + 1) /\ Len(s) + 1 \notin DOMAIN s
         /\ \A n \in DOMAIN s : n \in DOMAIN t /\ t[n] = s[n]
         /\ \A n \in DOMAIN t : \/ n \in DOMAIN s /\ t[n] = s[n]
                                \/ n = Len(s) + 1 /\ t[n] = a
<1>1. DOMAIN s = 1..Len(s) /\ Len(s) \in Nat
  BY LenProperties
<1>2. /\ t \in Seq(Addr) /\ Len(t) = Len(s) + 1 /\ t[Len(s) + 1] = a
      /\ \A n \in 1..Len(s) : t[n] = s[n]
  BY AppendProperties
<1>3. DOMAIN t = 1..(Len(s) + 1)
  BY <1>2, LenProperties
<1>4. Len(s) + 1 \notin DOMAIN s
  BY <1>1
<1>5. \A n \in DOMAIN s : n \in DOMAIN t /\ t[n] = s[n]
  BY <1>1, <1>2, <1>3
<1>6. \A n \in DOMAIN t : \/ n \in DOMAIN s /\ t[n] = s[n]
                          \/ n = Len(s) + 1 /\ t[n] = a
  BY <1>1, <1>2, <1>3
<1>7. QED BY <1>1, <1>3, <1>4, <1>5, <1>6

LEMMA OneLess ==
  \A n \in Nat \ {0} : /\ n # 1 => n - 1 \in 1..(n - 1)
                      /\ n - 1 # 0 => n # 1
                      /\ n - 1 <= n /\ n - (n - 1) = 1
OBVIOUS

\* The effect of a return.  The target handed over becomes the last child of
\* the caller's target, or the result; of the others, nothing changes.
LEMMA ReturnShape ==
  ASSUME IInv, frames # <<>>, Top.pc # "lstat",
         NEW a \in {NULL, Top.self}, NEW h \in [Addr -> Target], Return(a, h),
         live \ {Top.self} \subseteq live', live' \subseteq live,
         \A x \in live' : /\ h[x].path = heap[x].path
                          /\ h[x].children = heap[x].children
  PROVE  LET parent == frames[Len(frames) - 1].self
             handed == Len(frames) # 1 /\ a # NULL
         IN  /\ Len(frames') = Len(frames) - 1 /\ DOMAIN frames' = Callers
             /\ \A n \in Callers : frames'[n] = frames[n]
             /\ result' = IF Len(frames) = 1 THEN a ELSE result
             /\ Len(frames) # 1 => /\ Len(frames) - 1 \in Callers
                                   /\ parent \in live' /\ parent # Top.self
             /\ \A x \in live' : heap'[x].path = heap[x].path
             /\ \A d \in live' : \A n \in DOMAIN heap[d].children :
                  /\ n \in DOMAIN heap'[d].children
                  /\ heap'[d].children[n] = heap[d].children[n]
             /\ \A d \in live' : \A n \in DOMAIN heap'[d].children :
                  \/ /\ n \in DOMAIN heap[d].children
                     /\ heap'[d].children[n] = heap[d].children[n]
                  \/ /\ handed /\ d = parent
                     /\ n = Len(heap[d].children) + 1
                     /\ n \notin DOMAIN heap[d].children
                     /\ heap'[d].children[n] = a
             /\ handed => \E n \in DOMAIN heap'[parent].children :
                            heap'[parent].children[n] = a
<1> DEFINE parent == frames[Len(frames) - 1].self
<1>1. /\ Len(frames) \in Nat \ {0} /\ Callers = 1..(Len(frames) - 1)
      /\ FsTargetTypeOK
  BY CallShape DEF IInv, RoutineTypeOK
<1>2. /\ frames' = PopFrame /\ Len(frames') = Len(frames) - 1
      /\ DOMAIN frames' = Callers
      /\ \A n \in Callers : frames'[n] = frames[n]
  BY <1>1, PopShape DEF Return, Callers
<1>3. result' = IF Len(frames) = 1 THEN a ELSE result
  BY DEF Return
<1>4. /\ live \subseteq Addr /\ live' \subseteq Addr /\ Top.self \in live
      /\ Top.self \in Addr /\ NULL \notin Addr
  BY <1>1, AddrLive DEF IInv, FramesOK
<1>5. ASSUME Len(frames) # 1
      PROVE  /\ Len(frames) - 1 \in Callers
             /\ parent \in live' /\ parent # Top.self /\ parent \in Addr
  <2>1. Len(frames) - 1 \in Callers
    <3>1. Len(frames) \in Nat \ {0} /\ Len(frames) # 1
      BY <1>1, <1>5
    <3>2. Len(frames) - 1 \in 1..(Len(frames) - 1)
      BY <3>1, OneLess
    <3>3. QED BY <3>2 DEF Callers
  <2>2. parent \in live /\ parent # Top.self
    BY <2>1 DEF IInv, FramesOK
  <2>3. QED BY <1>4, <2>1, <2>2
<1>6. CASE Len(frames) = 1 \/ a = NULL
  <2>1. heap' = h
    BY <1>6 DEF Return
  <2>2. QED BY <1>2, <1>3, <1>5, <1>6, <2>1
<1>7. CASE Len(frames) # 1 /\ a # NULL
  <2>1. heap' = [h EXCEPT ![parent].children = Append(@, a)]
    BY <1>7 DEF Return
  <2>2. parent \in Addr /\ parent \in live' /\ h[parent] \in Target
    BY <1>5, <1>7
  <2> HIDE DEF parent
  <2> DEFINE s == heap[parent].children
             t == heap'[parent].children
  <2>3. s \in Seq(Addr) /\ a \in Addr
    BY <1>1, <1>4, <1>7, <2>2 DEF FsTargetTypeOK, Target
  <2>4. /\ t = Append(s, a)
        /\ heap'[parent].path = heap[parent].path
        /\ \A x \in Addr \ {parent} : heap'[x] = h[x]
    BY <2>1, <2>2 DEF Target
  <2>5. \A x \in live' : heap'[x].path = heap[x].path
    BY <1>4, <2>4
  <2>6. \A d \in live' \ {parent} : heap'[d].children = heap[d].children
    BY <1>4, <2>4
  <2>7. /\ DOMAIN s = 1..Len(s) /\ Len(s) \in Nat
        /\ DOMAIN t = 1..(Len(s) + 1) /\ Len(s) + 1 \notin DOMAIN s
        /\ \A n \in DOMAIN s : n \in DOMAIN t /\ t[n] = s[n]
        /\ \A n \in DOMAIN t : \/ n \in DOMAIN s /\ t[n] = s[n]
                               \/ n = Len(s) + 1 /\ t[n] = a
    BY <2>3, <2>4, AppendChild
  <2>8. ASSUME NEW d \in live', NEW n \in DOMAIN heap[d].children
        PROVE  /\ n \in DOMAIN heap'[d].children
               /\ heap'[d].children[n] = heap[d].children[n]
    BY <2>6, <2>7
  <2>9. ASSUME NEW d \in live', NEW n \in DOMAIN heap'[d].children
        PROVE  \/ /\ n \in DOMAIN heap[d].children
                  /\ heap'[d].children[n] = heap[d].children[n]
               \/ /\ Len(frames) # 1 /\ a # NULL /\ d = parent
                  /\ n = Len(heap[d].children) + 1
                  /\ n \notin DOMAIN heap[d].children
                  /\ heap'[d].children[n] = a
    BY <1>7, <2>6, <2>7
  <2>10. Len(s) + 1 \in DOMAIN t /\ t[Len(s) + 1] = a
    BY <2>7
  <2>11. \E n \in DOMAIN heap'[parent].children :
           heap'[parent].children[n] = a
    BY <2>10
  <2>12. QED
    BY <1>2, <1>3, <1>5, <2>5, <2>8, <2>9, <2>11 DEF parent
<1>8. QED BY <1>6, <1>7

\* return (a) keeps the tree, for a target that is live and is handed over, or
\* one without children that was freed.
LEMMA ReturnTree ==
  ASSUME IInv, IInv', SInv, frames # <<>>, Top.pc # "lstat",
         NEW a \in {NULL, Top.self}, NEW h \in [Addr -> Target], Return(a, h),
         live \ {Top.self} \subseteq live', live' \subseteq live,
         \A x \in live' : /\ h[x].path = heap[x].path
                          /\ h[x].children = heap[x].children,
         Top.self \in live' => a = Top.self,
         Top.self \notin live' => heap[Top.self].children = <<>>,
         unopened \subseteq unopened',
         unopened' = {} /\ a # NULL => Top.self \in live'
  PROVE  SInv'
<1> DEFINE parent == frames[Len(frames) - 1].self
           handed == Len(frames) # 1 /\ a # NULL
<1>1. /\ Len(frames) \in Nat \ {0} /\ Len(frames) \in DOMAIN frames
      /\ DOMAIN frames = Callers \cup {Len(frames)}
      /\ Callers = 1..(Len(frames) - 1) /\ Callers \subseteq DOMAIN frames
      /\ Top = frames[Len(frames)]
  BY CallShape
<1>2. /\ Len(frames') = Len(frames) - 1 /\ DOMAIN frames' = Callers
      /\ \A n \in Callers : frames'[n] = frames[n]
      /\ result' = IF Len(frames) = 1 THEN a ELSE result
      /\ Len(frames) # 1 => /\ Len(frames) - 1 \in Callers
                            /\ parent \in live' /\ parent # Top.self
      /\ \A x \in live' : heap'[x].path = heap[x].path
      /\ handed => \E n \in DOMAIN heap'[parent].children :
                     heap'[parent].children[n] = a
  BY ReturnShape
<1>3. \A d \in live' : \A n \in DOMAIN heap[d].children :
           /\ n \in DOMAIN heap'[d].children
           /\ heap'[d].children[n] = heap[d].children[n]
  BY ReturnShape
<1>4. \A d \in live' : \A n \in DOMAIN heap'[d].children :
           \/ /\ n \in DOMAIN heap[d].children
              /\ heap'[d].children[n] = heap[d].children[n]
           \/ /\ handed /\ d = parent
              /\ n = Len(heap[d].children) + 1
              /\ n \notin DOMAIN heap[d].children
              /\ heap'[d].children[n] = a
  BY ReturnShape
<1>len. /\ Len(frames) \in Nat \ {0} /\ Len(frames') = Len(frames) - 1
        /\ Len(frames) - 1 <= Len(frames)
        /\ Len(frames) - (Len(frames) - 1) = 1
  <2>1. Len(frames) \in Nat \ {0} /\ Len(frames') = Len(frames) - 1
    BY <1>1, <1>2
  <2>2. QED BY <2>1, OneLess
<1>dom. /\ DOMAIN frames' = Callers /\ Callers \subseteq DOMAIN frames
        /\ \A n \in Callers : frames'[n] = frames[n]
  BY <1>1, <1>2
<1>5. /\ live \subseteq Addr /\ Top.self \in live /\ NULL \notin Addr
      /\ \A n \in Callers : /\ frames[n].pc = "readdir"
                            /\ frames[n].self \in live
                            /\ frames[n].self # Top.self
      /\ result = NULL
  BY AddrLive DEF IInv, RoutineTypeOK, FramesOK, SInv, CallsFresh
<1>6. frames' # <<>> => Top' = frames[Len(frames) - 1] /\ Top'.pc = "readdir"
                        /\ Len(frames) # 1
  <2>1. frames' \in Seq(Frame)
    BY DEF IInv, RoutineTypeOK, FsTargetTypeOK
  <2>2. frames' # <<>> => Len(frames') # 0
    BY <2>1, EmptySeq
  <2>3. frames' # <<>> => Len(frames) # 1
    BY <1>1, <1>2, <2>2, OneLess
  <2>4. frames' # <<>> => Top' = frames'[Len(frames) - 1]
    BY <1>2 DEF Top
  <2>5. QED BY <1>2, <1>5, <2>3, <2>4
<1>7. ~Running("lstat")'
  <2>1. frames' = <<>> => Len(frames') = 0
    BY EmptySeq
  <2>2. QED BY <1>6, <2>1 DEF Running
<1>8. CallsOK'
  <2>1. Len(frames') <= Len(frames)
    BY <1>len
  <2>2. \A n \in Callers : frames[n].self \in live'
    BY <1>5
  <2>3. \A n \in Callers : heap'[frames[n].self].path = frames[n].path
    <3>1. \A n \in Callers : heap[frames[n].self].path = frames[n].path
      BY ZenonT(40), <1>1, <1>5 DEF SInv, CallsOK
    <3>2. QED BY <1>2, <2>2, <3>1
  <2>4. QED BY <1>2, <2>1, <2>3, CallsKept DEF SInv
<1>9. PathsOnce'
  BY <1>1, <1>2, <1>7, PathsKept DEF SInv
<1>10. CallsFresh'
  BY <1>2, <1>5, <1>6 DEF CallsFresh
<1>11. HeldOK'
  <2> SUFFICES ASSUME NEW x \in live' PROVE Held(x)'
    BY DEF HeldOK
  <2>1. Held(x)
    BY DEF SInv, HeldOK
  <2>2. CASE \E d \in live : \E n \in DOMAIN heap[d].children :
               heap[d].children[n] = x
    <3>1. PICK d \in live : \E n \in DOMAIN heap[d].children :
                 heap[d].children[n] = x
      BY <2>2
    <3>2. d \in live'
      <4>1. heap[d].children # <<>>
        BY <3>1
      <4>2. QED BY <4>1
    <3>3. QED BY <1>3, <3>1, <3>2 DEF Held
  <2>3. CASE \E n \in DOMAIN frames : frames[n].self = x
    <3>1. CASE x = Top.self
      <4>1. a = x /\ a # NULL
        BY <1>5, <3>1
      <4>2. QED BY <1>2, <4>1 DEF Held
    <3>2. CASE x # Top.self
      <4>1. PICK n \in Callers : frames[n].self = x
        BY <1>1, <2>3, <3>2
      <4>2. QED BY <1>2, <4>1 DEF Held
    <3>3. QED BY <3>1, <3>2
  <2>4. result # x
    BY <1>5
  <2>5. QED BY <2>1, <2>2, <2>3, <2>4 DEF Held
<1>12. TreeOK'
  <2> SUFFICES ASSUME unopened' = {}
      PROVE
       /\ \A d \in live' : \A n \in DOMAIN heap'[d].children :
            LET c == heap'[d].children[n]
            IN  /\ c \in live' /\ Parent(heap'[c].path) = heap'[d].path
                /\ c # result'
                /\ \A m \in DOMAIN frames' : frames'[m].self # c
       /\ \A d, e \in live' :
            \A n \in DOMAIN heap'[d].children, m \in DOMAIN heap'[e].children :
              heap'[d].children[n] = heap'[e].children[m] => d = e /\ n = m
       /\ result' # NULL => result' \in live' /\ heap'[result'].path = Root
    BY DEF TreeOK
  <2>1. unopened = {}
    OBVIOUS
  <2>2. ASSUME NEW d \in live', NEW n \in DOMAIN heap[d].children
        PROVE  /\ heap[d].children[n] \in live'
               /\ Parent(heap[heap[d].children[n]].path) = heap[d].path
               /\ \A m \in DOMAIN frames : frames[m].self # heap[d].children[n]
               /\ heap[d].children[n] # Top.self
    <3>1. /\ heap[d].children[n] \in live
          /\ Parent(heap[heap[d].children[n]].path) = heap[d].path
          /\ \A m \in DOMAIN frames : frames[m].self # heap[d].children[n]
      BY <2>1 DEF SInv, TreeOK
    <3>2. heap[d].children[n] # Top.self
      BY <1>1, <3>1
    <3>3. QED BY <3>1, <3>2
  <2>3. a # NULL => a = Top.self /\ a \in live'
    OBVIOUS
  <2>4. /\ heap[Top.self].path = Top.path
        /\ \A n \in Callers : heap[frames[n].self].path = frames[n].path
    BY ZenonT(40), <1>1, <1>5 DEF SInv, CallsOK
  <2>5. handed => Parent(heap[a].path) = heap[parent].path
    <3> SUFFICES ASSUME handed PROVE Parent(Top.path) = heap[parent].path
      BY <2>3, <2>4
    <3> DEFINE p == frames[Len(frames) - 1].path
    <3>1. /\ Len(frames) - 1 \in DOMAIN frames /\ Len(frames) \in DOMAIN frames
          /\ Len(frames) - 1 \in Callers
      BY <1>1, <1>2
    <3>2. Len(Top.path) = Len(p) + (Len(frames) - (Len(frames) - 1))
          /\ SubSeq(Top.path, 1, Len(p)) = p
      BY <1>1, <1>len, <3>1 DEF SInv, CallsOK
    <3>3. Len(p) \in Nat
      <4>1. frames[Len(frames) - 1] \in Frame
        BY <3>1, CallShape
      <4>2. QED BY <4>1, PathShape DEF Frame
    <3>4. Len(Top.path) - 1 = Len(p)
      BY <1>len, <3>2, <3>3
    <3>5. QED BY <2>4, <3>1, <3>2, <3>4 DEF Parent
  <2>6. ASSUME NEW d \in live', NEW n \in DOMAIN heap'[d].children
        PROVE  LET c == heap'[d].children[n]
               IN  /\ c \in live' /\ Parent(heap'[c].path) = heap'[d].path
                   /\ c # result'
                   /\ \A m \in DOMAIN frames' : frames'[m].self # c
    <3>1. CASE /\ n \in DOMAIN heap[d].children
               /\ heap'[d].children[n] = heap[d].children[n]
      <4> DEFINE c == heap[d].children[n]
      <4>1. /\ c \in live' /\ Parent(heap[c].path) = heap[d].path
            /\ c # Top.self /\ c # NULL
            /\ \A m \in DOMAIN frames : frames[m].self # c
        BY <1>5, <2>2, <3>1
      <4>2. Parent(heap'[c].path) = heap'[d].path
        BY <1>2, <4>1
      <4>3. c # result'
        BY <1>2, <1>5, <4>1
      <4>4. \A m \in DOMAIN frames' : frames'[m].self # c
        BY <1>dom, <4>1
      <4>5. QED BY <3>1, <4>1, <4>2, <4>3, <4>4
    <3>2. CASE handed /\ d = parent /\ heap'[d].children[n] = a
      BY <1>2, <1>5, <2>3, <2>5, <3>2
    <3>3. QED BY <1>4, <3>1, <3>2
  <2>7. ASSUME NEW d \in live', NEW e \in live',
               NEW n \in DOMAIN heap'[d].children,
               NEW m \in DOMAIN heap'[e].children,
               heap'[d].children[n] = heap'[e].children[m]
        PROVE  d = e /\ n = m
    <3>1. CASE n \in DOMAIN heap[d].children /\ m \in DOMAIN heap[e].children
      <4>1. heap[d].children[n] = heap[e].children[m]
        BY <1>3, <2>7, <3>1
      <4>2. QED BY <2>1, <3>1, <4>1 DEF SInv, TreeOK
    <3>2. CASE n \in DOMAIN heap[d].children /\ m \notin DOMAIN heap[e].children
      BY <1>3, <1>4, <2>2, <2>3, <2>7, <3>2
    <3>3. CASE n \notin DOMAIN heap[d].children /\ m \in DOMAIN heap[e].children
      BY <1>3, <1>4, <2>2, <2>3, <2>7, <3>3
    <3>4. CASE /\ n \notin DOMAIN heap[d].children
               /\ m \notin DOMAIN heap[e].children
      BY <1>4, <3>4
    <3>5. QED BY <3>1, <3>2, <3>3, <3>4
  <2>8. result' # NULL => result' \in live' /\ heap'[result'].path = Root
    <3> SUFFICES ASSUME result' # NULL
                 PROVE  result' \in live' /\ heap'[result'].path = Root
      OBVIOUS
    <3>1. Len(frames) = 1 /\ result' = Top.self /\ result' \in live'
      BY <1>2, <1>5, <2>3
    <3>2. Top.path = Root
      BY <1>1, <3>1 DEF SInv, CallsOK
    <3>3. QED BY <1>2, <2>4, <3>1, <3>2
  <2>9. QED BY <2>6, <2>7, <2>8
<1>13. QED BY <1>8, <1>9, <1>10, <1>11, <1>12 DEF SInv

-----------------------------------------------------------------------------
(* The steps of fs_target_create.                                          *)

LEMMA WalkWaits ==
  ASSUME WalkOK, stack = <<>>, UNCHANGED <<stack, cur>> PROVE WalkOK'
BY DEF WalkOK

\* When the same targets stay live and are held by the same calls, and none
\* changes its path or its children, the tree stays.
LEMMA TreeKept ==
  ASSUME HeldOK, TreeOK, live' = live, unopened' = unopened, result' = result,
         \A x \in live : /\ heap'[x].path = heap[x].path
                         /\ heap'[x].children = heap[x].children,
         \A x \in live : (\E n \in DOMAIN frames' : frames'[n].self = x)
                           <=> (\E n \in DOMAIN frames : frames[n].self = x)
  PROVE  HeldOK' /\ TreeOK'
<1>1. HeldOK'
  BY DEF HeldOK, Held
<1>2. TreeOK'
  <2> SUFFICES ASSUME unopened = {}
      PROVE
       /\ \A d \in live : \A n \in DOMAIN heap'[d].children :
            LET c == heap'[d].children[n]
            IN  /\ c \in live /\ Parent(heap'[c].path) = heap'[d].path
                /\ c # result
                /\ \A m \in DOMAIN frames' : frames'[m].self # c
       /\ \A d, e \in live :
            \A n \in DOMAIN heap'[d].children, m \in DOMAIN heap'[e].children :
              heap'[d].children[n] = heap'[e].children[m] => d = e /\ n = m
       /\ result # NULL => result \in live /\ heap'[result].path = Root
    BY DEF TreeOK
  <2>1. ASSUME NEW d \in live, NEW n \in DOMAIN heap'[d].children
        PROVE  LET c == heap'[d].children[n]
               IN  /\ c \in live /\ Parent(heap'[c].path) = heap'[d].path
                   /\ c # result
                   /\ \A m \in DOMAIN frames' : frames'[m].self # c
    <3> DEFINE c == heap[d].children[n]
    <3>1. n \in DOMAIN heap[d].children /\ heap'[d].children[n] = c
      OBVIOUS
    <3>2. /\ c \in live /\ Parent(heap[c].path) = heap[d].path
          /\ c # result /\ \A m \in DOMAIN frames : frames[m].self # c
      BY <3>1 DEF TreeOK
    <3>3. QED BY <3>1, <3>2
  <2>2. \A d, e \in live :
          \A n \in DOMAIN heap'[d].children, m \in DOMAIN heap'[e].children :
            heap'[d].children[n] = heap'[e].children[m] => d = e /\ n = m
    BY DEF TreeOK
  <2>3. result # NULL => result \in live /\ heap'[result].path = Root
    BY DEF TreeOK
  <2>4. QED BY <2>1, <2>2, <2>3
<1>3. QED BY <1>1, <1>2

\* The innermost call goes on with its own target.
LEMMA SetTopTree ==
  ASSUME IInv, IInv', SInv, frames # <<>>, Top.pc # "lstat",
         NEW f \in Frame, frames' = SetTop(f),
         f.path = Top.path, f.self = Top.self, f.pc # "lstat",
         Top.seen \subseteq f.seen,
         f.entries \subseteq Top.entries \cup Entries(Top.path),
         f.pc = "opendir" => Top.pc = "event_init",
         f.pc # "event_init",
         UNCHANGED <<live, unopened, result>>,
         \A x \in live : /\ heap'[x].path = heap[x].path
                         /\ heap'[x].children = heap[x].children
  PROVE  SInv'
<1>1. /\ Len(frames) \in Nat \ {0} /\ DOMAIN frames = 1..Len(frames)
      /\ DOMAIN frames = Callers \cup {Len(frames)}
      /\ Callers = 1..(Len(frames) - 1)
      /\ Top = frames[Len(frames)] /\ FsTargetTypeOK
  BY CallShape DEF IInv, RoutineTypeOK
<1>2. /\ DOMAIN frames' = DOMAIN frames /\ Len(frames') = Len(frames)
      /\ frames'[Len(frames)] = f
      /\ \A n \in Callers : frames'[n] = frames[n]
  BY <1>1, SetTopShape
<1>3. frames' # <<>> /\ Top' = f /\ Top.self \in live
  BY <1>1, <1>2, EmptySeq DEF Top, IInv, FramesOK
<1>4. \A n \in DOMAIN frames' :
        /\ frames'[n].path = frames[n].path
        /\ frames[n].seen \subseteq frames'[n].seen
        /\ frames'[n].self = frames[n].self
        /\ frames'[n].entries \subseteq frames[n].entries \cup Entries(frames[n].path)
  BY <1>1, <1>2
<1>5. \A n \in DOMAIN frames : frames[n].self # NULL => frames[n].self \in live
  BY <1>1, <1>3 DEF IInv, FramesOK
<1>6. CallsOK'
  <2>1. \A n \in DOMAIN frames' : frames'[n].self # NULL =>
               heap'[frames'[n].self].path = frames[n].path
    BY <1>2, <1>4, <1>5 DEF SInv, CallsOK
  <2>2. Len(frames') <= Len(frames)
    BY <1>1, <1>2
  <2>3. QED BY <1>4, <2>1, <2>2, CallsKept DEF SInv
<1>7. PathsOnce'
  <2>1. ~Running("lstat")'
    BY <1>3 DEF Running
  <2>2. QED BY <1>2, <1>4, <2>1, PathsKept DEF SInv
<1>8. CallsFresh'
  BY <1>3 DEF SInv, CallsFresh
<1>9. HeldOK' /\ TreeOK'
  BY <1>2, <1>4, TreeKept DEF SInv
<1>10. QED BY <1>6, <1>7, <1>8, <1>9 DEF SInv

LEMMA CreateLstatTree ==
  ASSUME IInv, IInv', SInv, CreateLstat PROVE SInv'
<1>1. PICK a \in Malloc :
        /\ heap'   = [heap EXCEPT ![a] = SetInfo(Top.path, Lstat(Top.path).st)]
        /\ live'   = live \cup {a}
        /\ frames' = SetTop([Top EXCEPT !.pc = "event_init", !.self = a])
  BY DEF CreateLstat
<1>2. frames # <<>> /\ Top.pc = "lstat" /\ Top.self = NULL
      /\ FsTargetTypeOK /\ unopened' = unopened /\ result' = result
  BY RunningShape DEF CreateLstat, Running, IInv, RoutineTypeOK
<1>3. /\ Len(frames) \in Nat \ {0} /\ DOMAIN frames = 1..Len(frames)
      /\ DOMAIN frames = Callers \cup {Len(frames)}
      /\ Callers = 1..(Len(frames) - 1) /\ Len(frames) \notin Callers
      /\ Top = frames[Len(frames)] /\ Top \in Frame
  BY <1>2, CallShape, FramesShape
<1>4. a \in Addr /\ a \notin live /\ live \subseteq Addr /\ NULL \notin live
      /\ a # NULL
  <2>1. a \in Addr /\ a \notin live
    BY <1>1, <1>2, MaxTargetsAssumption DEF Malloc, Addr, FsTargetTypeOK
  <2>2. QED BY <1>2, <2>1, AddrLive
<1>5. /\ heap'[a].path = Top.path /\ heap'[a].children = <<>>
      /\ \A x \in live : heap'[x] = heap[x]
  BY <1>1, <1>2, <1>4 DEF FsTargetTypeOK, SetInfo
<1> DEFINE f == [Top EXCEPT !.pc = "event_init", !.self = a]
<1>6. /\ f \in Frame /\ f.pc = "event_init" /\ f.self = a
      /\ f.path = Top.path /\ f.seen = Top.seen /\ f.entries = Top.entries
  BY <1>3, <1>4 DEF Frame
<1>7. frames' = SetTop(f)
  BY <1>1
<1> HIDE DEF f
<1>8. /\ DOMAIN frames' = DOMAIN frames /\ Len(frames') = Len(frames)
      /\ frames'[Len(frames)] = f
      /\ \A n \in Callers : frames'[n] = frames[n]
  BY <1>2, <1>3, <1>6, <1>7, SetTopShape
<1>9. frames' # <<>> /\ Top' = f
  BY <1>3, <1>8, EmptySeq DEF Top
<1>10. \A n \in DOMAIN frames :
         /\ frames'[n].path = frames[n].path /\ frames'[n].seen = frames[n].seen
         /\ frames'[n].entries = frames[n].entries
  BY <1>3, <1>6, <1>8
<1>11. \A n \in Callers : frames[n].self \in live
  BY DEF IInv, FramesOK
<1>12. CallsOK'
  <2>1. \A n \in Callers : frames'[n].self # NULL =>
               heap'[frames'[n].self].path = frames[n].path
    BY <1>3, <1>5, <1>8, <1>11 DEF SInv, CallsOK
  <2>2. heap'[frames'[Len(frames)].self].path = frames[Len(frames)].path
    BY <1>3, <1>5, <1>6, <1>8
  <2>3. Len(frames') <= Len(frames)
    BY <1>3, <1>8
  <2>4. QED BY <1>3, <1>8, <1>10, <2>1, <2>2, <2>3, CallsKept DEF SInv
<1>13. PathsOnce'
  <2>1. \A x \in live : heap[x].path # Top.path /\ ~Under(heap[x].path, Top.path)
    BY DEF CreateLstat, SInv, PathsOnce
  <2>2. \A x, y \in live' : heap'[x].path = heap'[y].path => x = y
    BY <1>1, <1>5, <2>1 DEF SInv, PathsOnce
  <2>3. ASSUME NEW n \in DOMAIN frames', NEW x \in live',
               Under(heap'[x].path, frames'[n].path)
        PROVE  Branch(heap'[x].path, frames'[n].path) \in frames'[n].seen
    <3>1. CASE x \in live
      BY <1>5, <1>8, <1>10, <2>3, <3>1 DEF SInv, PathsOnce
    <3>2. CASE x = a
      <4>1. Under(Top.path, frames[n].path)
        BY <1>5, <1>8, <1>10, <2>3, <3>2
      <4>2. n # Len(frames)
        <5>1. Len(Top.path) \in Nat
          BY <1>3, PathShape DEF Frame
        <5>2. ~Under(Top.path, Top.path)
          BY <5>1 DEF Under
        <5>3. QED BY <1>3, <4>1, <5>2
      <4>3. n \in Callers
        BY <1>3, <1>8, <4>2
      <4>4. Branch(Top.path, frames[n].path) \in frames[n].seen
        BY <4>3, CallBranch DEF SInv
      <4>5. QED BY <1>5, <1>8, <1>10, <3>2, <4>4
    <3>3. QED BY <1>1, <3>1, <3>2
  <2>4. ~Running("lstat")'
    BY <1>6, <1>9 DEF Running
  <2>5. QED BY <2>2, <2>3, <2>4 DEF PathsOnce
<1>14. CallsFresh'
  BY <1>2, <1>5, <1>6, <1>9 DEF SInv, CallsFresh
<1>15. HeldOK'
  <2> SUFFICES ASSUME NEW x \in live' PROVE Held(x)'
    BY DEF HeldOK
  <2>1. CASE x = a
    BY <1>3, <1>6, <1>8, <2>1 DEF Held
  <2>2. CASE x \in live
    <3>1. Held(x)
      BY <2>2 DEF SInv, HeldOK
    <3>2. ASSUME NEW d \in live, NEW n \in DOMAIN heap[d].children,
                 heap[d].children[n] = x
          PROVE  Held(x)'
      <4>1. d \in live' /\ heap'[d].children = heap[d].children
        BY <1>1, <1>5
      <4>2. QED BY <3>2, <4>1 DEF Held
    <3>3. ASSUME NEW n \in DOMAIN frames, frames[n].self = x PROVE Held(x)'
      <4>1. n \in Callers
        BY <1>2, <1>3, <1>4, <2>2, <3>3
      <4>2. QED BY <1>8, <3>3, <4>1 DEF Held
    <3>4. QED BY <1>2, <3>1, <3>2, <3>3 DEF Held
  <2>3. QED BY <1>1, <2>1, <2>2
<1>16. TreeOK'
  <2> SUFFICES ASSUME unopened = {} PROVE TreeOK'
    BY <1>2 DEF TreeOK
  <2>1. /\ DOMAIN heap'[a].children = {}
        /\ \A d \in live : heap'[d].children = heap[d].children
    BY <1>5
  <2>2. ASSUME NEW d \in live, NEW n \in DOMAIN heap[d].children
        PROVE  LET c == heap[d].children[n]
               IN  /\ c \in live' /\ Parent(heap'[c].path) = heap'[d].path
                   /\ c # result
                   /\ \A m \in DOMAIN frames' : frames'[m].self # c
    <3> DEFINE c == heap[d].children[n]
    <3>1. /\ c \in live /\ Parent(heap[c].path) = heap[d].path
          /\ c # result /\ \A m \in DOMAIN frames : frames[m].self # c
      BY DEF SInv, TreeOK
    <3>2. \A m \in DOMAIN frames' : frames'[m].self # c
      BY <1>3, <1>4, <1>6, <1>8, <3>1
    <3>3. QED BY <1>1, <1>5, <3>1, <3>2
  <2>3. \A d, e \in live' :
          \A n \in DOMAIN heap'[d].children, m \in DOMAIN heap'[e].children :
            heap'[d].children[n] = heap'[e].children[m] => d = e /\ n = m
    BY <1>1, <2>1 DEF SInv, TreeOK
  <2>4. result = NULL
    BY <1>2 DEF SInv, CallsFresh
  <2>5. QED BY <1>1, <1>2, <2>1, <2>2, <2>3, <2>4 DEF TreeOK
<1>17. QED BY <1>12, <1>13, <1>14, <1>15, <1>16 DEF SInv

LEMMA EventInitFailTree ==
  ASSUME IInv, IInv', SInv, EventInitFail PROVE SInv'
<1>1. frames # <<>> /\ Top.pc = "event_init"
      /\ Return(NULL, heap) /\ live' = live \ {Top.self}
      /\ heap \in [Addr -> Target] /\ unopened' = unopened
  BY RunningShape
     DEF EventInitFail, Running, IInv, RoutineTypeOK, FsTargetTypeOK
<1>2. heap[Top.self].children = <<>>
  BY <1>1 DEF SInv, CallsFresh
<1>3. QED BY <1>1, <1>2, ReturnTree

LEMMA OpenDirFailTree ==
  ASSUME IInv, IInv', SInv, OpenDirFail PROVE SInv'
<1> DEFINE h == [heap EXCEPT ![Top.self] = ZeroTarget]
<1>1. frames # <<>> /\ Top.pc = "opendir" /\ Top.self \in Addr
      /\ Return(Top.self, h) /\ live' = live \ {Top.self}
      /\ heap \in [Addr -> Target] /\ unopened' = unopened \cup {Top.path}
  BY RunningShape
     DEF OpenDirFail, Running, IInv, RoutineTypeOK, FsTargetTypeOK
<1>2. heap[Top.self].children = <<>>
  BY <1>1 DEF SInv, CallsFresh
<1>3. h \in [Addr -> Target] /\ \A x \in Addr \ {Top.self} : h[x] = heap[x]
  BY <1>1, ZeroTargetOK
<1>4. live \subseteq Addr
  BY AddrLive DEF IInv, RoutineTypeOK
<1> HIDE DEF h
<1>5. \A x \in live' : h[x] = heap[x]
  BY <1>1, <1>3, <1>4
<1>6. QED BY <1>1, <1>2, <1>3, <1>5, ReturnTree

LEMMA EndDirTree ==
  ASSUME IInv, IInv', SInv, EndDir PROVE SInv'
<1>1. frames # <<>> /\ Top.pc = "readdir" /\ Top.self \in live
      /\ Return(Top.self, heap) /\ live' = live
      /\ heap \in [Addr -> Target] /\ unopened' = unopened
  BY RunningShape DEF EndDir, Running, IInv, RoutineTypeOK, FsTargetTypeOK
<1>2. QED BY <1>1, ReturnTree

LEMMA OpenDirTree ==
  ASSUME IInv, IInv', SInv, OpenDir PROVE SInv'
<1>1. frames # <<>> /\ Top.pc = "opendir" /\ FsTargetTypeOK
  BY RunningShape DEF OpenDir, Running, IInv, RoutineTypeOK
<1> DEFINE f == [Top EXCEPT !.pc = "readdir", !.entries = Entries(Top.path)]
<1>2. /\ f \in Frame /\ f.pc = "readdir" /\ f.self = Top.self
      /\ f.path = Top.path /\ f.seen = Top.seen /\ f.entries = Entries(Top.path)
  BY <1>1, FramesShape DEF Frame, Entries
<1>3. frames' = SetTop(f) /\ UNCHANGED <<heap, live, unopened, result>>
  BY DEF OpenDir, heapVars
<1> HIDE DEF f
<1>4. QED BY <1>1, <1>2, <1>3, SetTopTree

LEMMA EventInitTree ==
  ASSUME IInv, IInv', SInv, EventInit PROVE SInv'
<1> DEFINE t == [heap[Top.self] EXCEPT
                   !.events = Append(@, AckEvent(Lstat(Top.path).st))]
           h == [heap EXCEPT ![Top.self] = t]
<1>1. frames # <<>> /\ Top.pc = "event_init" /\ FsTargetTypeOK
      /\ Top.self \in live /\ Top.self \in Addr
      /\ heap[Top.self].events = <<>> /\ Top \in Frame
  BY RunningShape, FramesShape DEF EventInit, Running, IInv, RoutineTypeOK
<1>2. live' = live /\ unopened' = unopened
      /\ IF t.type = "directory"
         THEN /\ heap' = h /\ result' = result
              /\ frames' = SetTop([Top EXCEPT !.pc = "opendir"])
         ELSE Return(Top.self, h)
  BY DEF EventInit
<1>3. AckEvent(Lstat(Top.path).st) \in Event
  <2>1. Lstat(Top.path).st \in Stats
    BY <1>1, LstatOK DEF EventInit, FsTargetTypeOK
  <2>2. QED BY <2>1 DEF AckEvent, Event, Masks, Buffers
<1>4. /\ h \in [Addr -> Target]
      /\ \A x \in live : /\ h[x].path = heap[x].path
                         /\ h[x].children = heap[x].children
  <2>1. t \in Target /\ t.path = heap[Top.self].path
        /\ t.children = heap[Top.self].children
    <3> DEFINE e == AckEvent(Lstat(Top.path).st)
    <3> HIDE DEF e
    <3>1. heap[Top.self] \in Target
      BY <1>1 DEF FsTargetTypeOK
    <3>2. Append(heap[Top.self].events, e) = <<e>> /\ <<e>> \in Seq(Event)
      BY <1>1, <1>3 DEF e
    <3>3. t = [heap[Top.self] EXCEPT !.events = Append(@, e)]
      BY DEF e
    <3> HIDE DEF t
    <3>4. QED BY <3>1, <3>2, <3>3 DEF Target
  <2> HIDE DEF t
  <2>2. QED BY <1>1, <2>1, AddrLive DEF FsTargetTypeOK
<1> HIDE DEF h, t
<1>5. CASE t.type = "directory"
  <2> DEFINE f == [Top EXCEPT !.pc = "opendir"]
  <2>1. /\ f \in Frame /\ f.pc = "opendir" /\ f.self = Top.self
        /\ f.path = Top.path /\ f.seen = Top.seen /\ f.entries = Top.entries
    BY <1>1 DEF Frame
  <2>2. frames' = SetTop(f)
    BY <1>2, <1>5
  <2> HIDE DEF f
  <2>3. QED BY <1>1, <1>2, <1>4, <1>5, <2>1, <2>2, SetTopTree
<1>6. CASE t.type # "directory"
  BY <1>1, <1>2, <1>4, <1>6, ReturnTree
<1>7. QED BY <1>5, <1>6

LEMMA ReadDirTree ==
  ASSUME IInv, IInv', SInv, ReadDir PROVE SInv'
<1>1. PICK q \in NextEntries(Top) :
        frames' = Append(SetTop([Top EXCEPT !.seen = @ \cup {q}]), NewFrame(q))
  BY DEF ReadDir
<1>2. frames # <<>> /\ Top.pc = "readdir" /\ FsTargetTypeOK
      /\ UNCHANGED <<heap, live, unopened, result>>
  BY RunningShape DEF ReadDir, Running, IInv, RoutineTypeOK, heapVars
<1>3. /\ Len(frames) \in Nat \ {0} /\ DOMAIN frames = 1..Len(frames)
      /\ DOMAIN frames = Callers \cup {Len(frames)}
      /\ Callers = 1..(Len(frames) - 1) /\ Len(frames) \in DOMAIN frames
      /\ Top = frames[Len(frames)] /\ Top \in Frame
      /\ \A n \in DOMAIN frames : frames[n] \in Frame
  BY <1>2, CallShape, FramesShape
<1>4. /\ q \in Paths /\ q \notin Top.seen /\ Top.path \in Paths
      /\ Len(q) = Len(Top.path) + 1 /\ Parent(q) = Top.path
  <2>1. q \in Top.entries \cup Entries(Top.path) /\ q \notin Top.seen
    BY <1>1 DEF NextEntries
  <2>2. Top.path \in Paths /\ Top.entries \subseteq Paths
    BY <1>3 DEF Frame
  <2>3. \A p \in Top.entries : Len(p) = Len(Top.path) + 1 /\ Parent(p) = Top.path
    BY <1>3 DEF SInv, CallsOK
  <2>4. QED BY <2>1, <2>2, <2>3 DEF Entries
<1> DEFINE f == [Top EXCEPT !.seen = @ \cup {q}]
           s == SetTop(f)
<1>5. /\ f \in Frame /\ f.path = Top.path /\ f.self = Top.self
      /\ f.entries = Top.entries /\ f.seen = Top.seen \cup {q}
  BY <1>3, <1>4 DEF Frame
<1>6. /\ NewFrame(q) \in Frame /\ NewFrame(q).pc = "lstat"
      /\ NewFrame(q).self = NULL /\ NewFrame(q).path = q
      /\ NewFrame(q).entries = {}
  BY <1>4 DEF NewFrame, Frame
<1>7. frames' = Append(s, NewFrame(q))
  BY <1>1
<1> HIDE DEF f
<1>8. /\ s \in Seq(Frame) /\ Len(s) = Len(frames) /\ s[Len(frames)] = f
      /\ \A n \in Callers : s[n] = frames[n]
  BY <1>2, <1>5, SetTopShape DEF Callers
<1> HIDE DEF s
<1>9. /\ frames' \in Seq(Frame) /\ Len(frames') = Len(frames) + 1
      /\ frames'[Len(frames) + 1] = NewFrame(q)
      /\ \A n \in 1..Len(frames) : frames'[n] = s[n]
  BY <1>6, <1>7, <1>8, AppendProperties
<1>10. /\ DOMAIN frames' = 1..(Len(frames) + 1) /\ frames' # <<>>
       /\ DOMAIN frames' = DOMAIN frames \cup {Len(frames) + 1}
       /\ Callers' = DOMAIN frames /\ Top' = NewFrame(q)
  <2>1. DOMAIN frames' = 1..(Len(frames) + 1)
    BY <1>9, LenProperties
  <2>2. frames' # <<>>
    BY <1>3, <1>9, EmptySeq
  <2>3. DOMAIN frames' = DOMAIN frames \cup {Len(frames) + 1}
    BY <1>3, <2>1
  <2>4. Callers' = DOMAIN frames /\ Top' = NewFrame(q)
    BY <1>3, <1>9 DEF Callers, Top
  <2>5. QED BY <2>1, <2>2, <2>3, <2>4
<1>11. frames'[Len(frames)] = f /\ \A n \in Callers : frames'[n] = frames[n]
  BY <1>3, <1>8, <1>9
<1>12. \A n \in DOMAIN frames :
         /\ frames'[n].path = frames[n].path /\ frames'[n].self = frames[n].self
         /\ frames'[n].entries = frames[n].entries
         /\ frames[n].seen \subseteq frames'[n].seen
  BY <1>3, <1>5, <1>11
<1>13. \A n \in DOMAIN frames :
         /\ Len(q) = Len(frames[n].path) + (Len(frames) + 1 - n)
         /\ SubSeq(q, 1, Len(frames[n].path)) = frames[n].path
  <2> SUFFICES ASSUME NEW n \in DOMAIN frames
               PROVE  /\ Len(q) = Len(frames[n].path) + (Len(frames) + 1 - n)
                      /\ SubSeq(q, 1, Len(frames[n].path)) = frames[n].path
    OBVIOUS
  <2> DEFINE p == frames[n].path
  <2>1. n \in Nat /\ n <= Len(frames)
    BY <1>3
  <2>2. p \in Paths
    BY <1>3 DEF Frame
  <2>3. Len(p) \in Nat /\ Len(Top.path) \in Nat /\ q \in Seq(STRING)
    BY <1>4, <2>2, PathShape
  <2>4. /\ Len(Top.path) = Len(p) + (Len(frames) - n)
        /\ SubSeq(Top.path, 1, Len(p)) = p
    BY <1>3, <2>1 DEF SInv, CallsOK
  <2> HIDE DEF p
  <2>5. Len(q) = Len(p) + (Len(frames) + 1 - n) /\ Len(p) \in 0..Len(Top.path)
        /\ Len(Top.path) \in 0..Len(q) /\ Len(q) - 1 = Len(Top.path)
    BY <1>3, <1>4, <2>1, <2>3, <2>4
  <2>6. SubSeq(q, 1, Len(Top.path)) = Top.path
    BY <1>4, <2>5 DEF Parent
  <2>7. SubSeq(q, 1, Len(p)) = p
    BY <2>3, <2>4, <2>5, <2>6, PrefixOfPrefix
  <2>8. QED BY <2>5, <2>7 DEF p
<1>14. CallsOK'
  <2>1. frames'[1].path = Root
    BY <1>2, <1>3, <1>12 DEF SInv, CallsOK
  <2>2. ASSUME NEW m \in DOMAIN frames', NEW n \in DOMAIN frames', m <= n
        PROVE  /\ Len(frames'[n].path) = Len(frames'[m].path) + (n - m)
               /\ SubSeq(frames'[n].path, 1, Len(frames'[m].path)) = frames'[m].path
    <3>1. CASE n \in DOMAIN frames
      <4>1. m \in DOMAIN frames
        BY <1>3, <1>10, <2>2, <3>1
      <4>2. QED BY <1>12, <2>2, <3>1, <4>1 DEF SInv, CallsOK
    <3>2. CASE n = Len(frames) + 1 /\ m \in DOMAIN frames
      <4>1. frames'[n].path = q /\ frames'[m].path = frames[m].path
        BY <1>6, <1>9, <1>12, <3>2
      <4>2. /\ Len(q) = Len(frames[m].path) + (n - m)
            /\ SubSeq(q, 1, Len(frames[m].path)) = frames[m].path
        BY <1>13, <3>2
      <4>3. QED BY <4>1, <4>2
    <3>3. CASE n = Len(frames) + 1 /\ m = Len(frames) + 1
      <4>1. q \in Seq(STRING) /\ Len(q) \in Nat
        BY <1>4, PathShape
      <4>2. SubSeq(q, 1, Len(q)) = q /\ Len(q) = Len(q) + (n - m)
        BY <1>3, <3>3, <4>1, SubSeqFull
      <4>3. QED BY <1>6, <1>9, <3>3, <4>2
    <3>4. QED BY <1>10, <3>1, <3>2, <3>3
  <2>3. \A n \in Callers' : frames'[n + 1].path \in frames'[n].seen
    <3>1. frames'[Len(frames) + 1].path \in frames'[Len(frames)].seen
      BY <1>5, <1>6, <1>9, <1>11
    <3>2. ASSUME NEW n \in Callers
          PROVE  frames'[n + 1].path \in frames'[n].seen
      <4>1. n + 1 \in DOMAIN frames /\ n \in DOMAIN frames
        BY <1>3
      <4>2. QED BY <1>12, <4>1 DEF SInv, CallsOK
    <3>3. QED BY <1>3, <1>10, <3>1, <3>2
  <2>4. \A n \in DOMAIN frames' : \A p \in frames'[n].entries :
          Len(p) = Len(frames'[n].path) + 1 /\ Parent(p) = frames'[n].path
    <3>1. ASSUME NEW n \in DOMAIN frames, NEW p \in frames[n].entries
          PROVE  Len(p) = Len(frames[n].path) + 1 /\ Parent(p) = frames[n].path
      BY DEF SInv, CallsOK
    <3>2. frames'[Len(frames) + 1].entries = {}
      BY <1>6, <1>9
    <3>3. QED BY <1>10, <1>12, <3>1, <3>2
  <2>5. \A n \in DOMAIN frames' :
          frames'[n].self # NULL => heap'[frames'[n].self].path = frames'[n].path
    BY <1>2, <1>6, <1>9, <1>10, <1>12 DEF SInv, CallsOK
  <2>6. QED BY <2>1, <2>2, <2>3, <2>4, <2>5 DEF CallsOK
<1>15. PathsOnce'
  <2>1. \A x \in live : heap[x].path # q /\ ~Under(heap[x].path, q)
    <3> SUFFICES ASSUME NEW x \in live, heap[x].path = q \/ Under(heap[x].path, q)
                 PROVE  FALSE
      OBVIOUS
    <3>1. heap[x].path \in Paths
      BY DEF IInv, NamesOK
    <3>2. Under(heap[x].path, Top.path) /\ Branch(heap[x].path, Top.path) = q
      BY <1>4, <3>1, EntryBranch
    <3>3. q \in Top.seen
      BY <1>3, <3>2 DEF SInv, PathsOnce
    <3>4. QED BY <1>4, <3>3
  <2>2. \A x, y \in live' : heap'[x].path = heap'[y].path => x = y
    BY <1>2 DEF SInv, PathsOnce
  <2>3. ASSUME NEW n \in DOMAIN frames', NEW x \in live',
               Under(heap'[x].path, frames'[n].path)
        PROVE  Branch(heap'[x].path, frames'[n].path) \in frames'[n].seen
    <3>1. CASE n \in DOMAIN frames
      BY <1>2, <1>12, <2>3, <3>1 DEF SInv, PathsOnce
    <3>2. CASE n = Len(frames) + 1
      BY <1>2, <1>6, <1>9, <2>1, <2>3, <3>2
    <3>3. QED BY <1>10, <3>1, <3>2
  <2>4. \A x \in live' : heap'[x].path # Top'.path /\ ~Under(heap'[x].path, Top'.path)
    BY <1>2, <1>6, <1>10, <2>1
  <2>5. QED BY <2>2, <2>3, <2>4 DEF PathsOnce
<1>16. CallsFresh'
  BY <1>2, <1>6, <1>10 DEF SInv, CallsFresh
<1>17. HeldOK' /\ TreeOK'
  <2>1. NULL \notin live
    BY <1>2, AddrLive
  <2>2. \A x \in live : (\E n \in DOMAIN frames' : frames'[n].self = x)
                          <=> (\E n \in DOMAIN frames : frames[n].self = x)
    BY <1>6, <1>9, <1>10, <1>12, <2>1
  <2>3. QED BY <1>2, <2>2, TreeKept DEF SInv
<1>18. QED BY <1>14, <1>15, <1>16, <1>17 DEF SInv

LEMMA OtherProcessesTree ==
  ASSUME IInv, SInv, OtherProcesses PROVE SInv'
<1>1. UNCHANGED <<heap, live, frames, unopened, result>>
  BY DEF OtherProcesses, targetVars
<1>2. CallsOK' /\ CallsFresh'
  BY <1>1 DEF SInv, CallsOK, CallsFresh, Callers, Top
<1>3. PathsOnce'
  BY <1>1 DEF SInv, PathsOnce, Running, Top
<1>4. HeldOK' /\ TreeOK'
  BY <1>1, TreeKept DEF SInv
<1>5. QED BY <1>2, <1>3, <1>4 DEF SInv

-----------------------------------------------------------------------------
(* The steps of the walk.                                                  *)

LEMMA WalkKeepsTree ==
  ASSUME SInv, frames = <<>>, UNCHANGED <<live, frames, unopened, result>>,
         \A x \in live : /\ heap'[x].path = heap[x].path
                         /\ heap'[x].children = heap[x].children
  PROVE  SInv'
<1>1. DOMAIN frames = {} /\ Len(frames) = 0 /\ Callers = {}
  BY EmptySeq DEF Callers
<1>2. CallsOK' /\ CallsFresh'
  BY <1>1 DEF CallsOK, CallsFresh, Callers
<1>3. PathsOnce'
  BY <1>1 DEF SInv, PathsOnce, Running
<1>4. HeldOK' /\ TreeOK'
  BY TreeKept DEF SInv
<1>5. QED BY <1>2, <1>3, <1>4 DEF SInv

LEMMA PrefixOfAppend ==
  ASSUME NEW S, NEW s \in Seq(S), NEW e \in S, NEW n \in 0..Len(s)
  PROVE  SubSeq(Append(s, e), 1, n) = SubSeq(s, 1, n)
<1> DEFINE t == Append(s, e)
<1>1. /\ t \in Seq(S) /\ Len(t) = Len(s) + 1
      /\ \A k \in 1..Len(s) : t[k] = s[k]
  BY AppendProperties
<1>2. Len(s) \in Nat /\ n \in 0..Len(t)
  BY <1>1, LenProperties
<1> HIDE DEF t
<1>3. /\ SubSeq(t, 1, n) \in Seq(S) /\ Len(SubSeq(t, 1, n)) = n
      /\ \A k \in 1..n : SubSeq(t, 1, n)[k] = t[k]
  BY <1>1, <1>2, PrefixOf
<1>4. /\ SubSeq(s, 1, n) \in Seq(S) /\ Len(SubSeq(s, 1, n)) = n
      /\ \A k \in 1..n : SubSeq(s, 1, n)[k] = s[k]
  BY PrefixOf
<1>5. \A k \in 1..n : SubSeq(t, 1, n)[k] = SubSeq(s, 1, n)[k]
  BY <1>1, <1>2, <1>3, <1>4
<1>6. SubSeq(t, 1, n) = SubSeq(s, 1, n)
  BY <1>3, <1>4, <1>5, SeqEqual
<1>7. QED BY <1>6 DEF t

\* The buffer holds the path of the target the walk is at.
LEMMA BufferIsPath ==
  ASSUME IInv, WalkOK, stack # <<>>, unopened = {}, Len(Root) = 1
  PROVE  cur = heap[Here].path
<1>1. stack \in Seq([t : live, i : Nat]) /\ cur \in Seq(STRING)
  BY DEF IInv, RoutineTypeOK
<1>2. Len(stack) \in DOMAIN stack
  <2> DEFINE S == [t : live, i : Nat]
  <2> HIDE DEF S
  <2>1. stack \in Seq(S)
    BY <1>1 DEF S
  <2>2. QED BY <2>1, LastOf
<1>3. SubSeq(cur, 1, Len(cur)) = heap[Here].path
  BY <1>2 DEF WalkOK, Here
<1>4. QED BY <1>1, <1>3, SubSeqFull

\* The walk goes down to a target that is in the directory it is at.
LEMMA ObserveWalk ==
  ASSUME IInv, WalkOK, UNCHANGED <<fsVars, targetVars>>,
         NEW a \in Addr, NEW s \in Seq([t : live, i : Nat]), Observe(a, s),
         Len(s) = Len(stack),
         \A n \in DOMAIN s : s[n].t = stack[n].t,
         (unopened = {} /\ Len(Root) = 1) =>
           /\ a \in live
           /\ IF stack = <<>> THEN heap[a].path = Root
              ELSE Parent(heap[a].path) = heap[Here].path
  PROVE  WalkOK'
<1> DEFINE S == [t : live, i : Nat]
<1>1. stack \in Seq(S) /\ s \in Seq(S) /\ cur \in Seq(STRING)
      /\ UNCHANGED <<heap, unopened>>
  BY DEF IInv, RoutineTypeOK, targetVars
<1>2. CASE a \notin live
  <2> HIDE DEF S
  <2>1. stack' = s /\ cur' = cur
    BY <1>2 DEF Observe
  <2>2. ~(unopened = {} /\ Len(Root) = 1)
    BY <1>2
  <2>3. QED BY <1>1, <2>1, <2>2 DEF WalkOK
<1>3. CASE a \in live
  <2> DEFINE act  == [t |-> a, i |-> 0]
             name == heap[a].name
  <2>1. stack' = Append(s, act) /\ cur' = Append(cur, name)
    BY <1>3 DEF Observe, Extend
  <2>2. act \in S /\ act.t = a
    BY <1>3
  <2>3. /\ heap[a].path \in Paths /\ heap[a].path \in Seq(STRING)
        /\ heap[a].path # <<>> /\ name = heap[a].path[Len(heap[a].path)]
    BY <1>3, PathShape DEF IInv, NamesOK
  <2>4. name \in STRING
    BY <2>3, LastOf
  <2> HIDE DEF S, act, name
  <2>5. /\ stack' \in Seq(S) /\ Len(stack') = Len(s) + 1
        /\ stack'[Len(s) + 1] = act /\ \A n \in 1..Len(s) : stack'[n] = s[n]
    BY <1>1, <2>1, <2>2, AppendProperties
  <2>6. /\ cur' \in Seq(STRING) /\ Len(cur') = Len(cur) + 1
    BY <1>1, <2>1, <2>4, AppendProperties
  <2>7. /\ DOMAIN stack' = 1..(Len(s) + 1) /\ DOMAIN s = 1..Len(s)
        /\ DOMAIN stack = 1..Len(s) /\ Len(s) \in Nat /\ Len(cur) = Len(s)
    BY <1>1, <2>5, LenProperties DEF WalkOK
  <2>8. ASSUME unopened = {}, Len(Root) = 1, NEW n \in 1..(Len(s) + 1)
        PROVE  SubSeq(cur', 1, n) = heap[stack'[n].t].path
    <3>1. CASE n \in 1..Len(s)
      <4>1. n \in 0..Len(cur)
        BY <2>7, <3>1
      <4>2. SubSeq(cur', 1, n) = SubSeq(cur, 1, n)
        BY <1>1, <2>1, <2>4, <4>1, PrefixOfAppend
      <4>3. SubSeq(cur, 1, n) = heap[stack[n].t].path
        BY <2>7, <2>8, <3>1 DEF WalkOK
      <4>4. stack'[n].t = stack[n].t
        BY <2>5, <2>7, <3>1
      <4>5. QED BY <4>2, <4>3, <4>4
    <3>2. CASE n = Len(s) + 1
      <4>1. Parent(heap[a].path) = cur
        <5>1. CASE stack = <<>>
          <6>1. Len(s) = 0
            BY <5>1, EmptySeq
          <6>2. cur = <<>>
            BY <1>1, <2>7, <6>1, EmptySeq
          <6>3. heap[a].path = Root /\ Len(Root) - 1 < 1
            BY <2>8, <5>1
          <6>4. Parent(Root) = <<>>
            BY <2>8, SubSeqEmpty DEF Parent
          <6>5. QED BY <6>2, <6>3, <6>4
        <5>2. CASE stack # <<>>
          <6>1. cur = heap[Here].path
            BY <2>8, <5>2, BufferIsPath
          <6>2. QED BY <2>8, <5>2, <6>1
        <5>3. QED BY <5>1, <5>2
      <4>2. cur' = heap[a].path
        BY <2>1, <2>3, <4>1, LastName
      <4>3. SubSeq(cur', 1, n) = cur'
        BY <2>6, <2>7, <3>2, SubSeqFull
      <4>4. stack'[n].t = a
        BY <2>2, <2>5, <3>2
      <4>5. QED BY <4>2, <4>3, <4>4
    <3>3. QED BY <2>7, <3>1, <3>2
  <2>9. Len(cur') = Len(stack')
    BY <2>5, <2>6, <2>7
  <2>10. QED BY <1>1, <2>7, <2>8, <2>9 DEF WalkOK
<1>4. QED BY <1>2, <1>3

\* The walk goes up.
LEMMA LeaveWalk ==
  ASSUME IInv, WalkOK, Awake, stack # <<>>, Leave, UNCHANGED unopened,
         \A x \in live : heap'[x].path = heap[x].path
  PROVE  WalkOK'
<1> DEFINE S == [t : live, i : Nat]
<1>1. stack \in Seq(S) /\ cur \in Seq(STRING)
  BY DEF IInv, RoutineTypeOK
<1> HIDE DEF S
<1>2. \A n \in DOMAIN stack : stack[n].t \in live
  <2>1. \A n \in DOMAIN stack : stack[n] \in S
    BY <1>1, LenProperties, ElementOfSeq
  <2>2. QED BY <2>1 DEF S
<1>3. /\ Len(stack) \in Nat \ {0} /\ DOMAIN stack = 1..Len(stack)
      /\ stack' \in Seq(S) /\ Len(stack') = Len(stack) - 1
      /\ DOMAIN stack' = 1..(Len(stack) - 1)
      /\ \A n \in 1..(Len(stack) - 1) : stack'[n] = stack[n]
  BY <1>1, LastOf, DropLast DEF Leave
<1>4. Len(cur) = Len(stack) /\ cur # <<>>
  BY <1>3, EmptySeq DEF WalkOK
<1>5. Len(cur) - 1 \in 0..Len(cur)
  BY <1>3, <1>4
<1>6. cur' = SubSeq(cur, 1, Len(cur) - 1)
  <2>1. CASE Len(cur) = 1
    <3>1. SubSeq(cur, 1, Len(cur) - 1) = <<>>
      BY <2>1, SubSeqEmpty
    <3>2. QED BY <2>1, <3>1 DEF Leave, Cut
  <2>2. CASE Len(cur) # 1
    BY <2>2 DEF Leave, Cut
  <2>3. QED BY <2>1, <2>2
<1>7. Len(cur') = Len(stack')
  BY <1>1, <1>3, <1>4, <1>5, <1>6, PrefixOf
<1>8. ASSUME unopened = {}, Len(Root) = 1, NEW n \in 1..(Len(stack) - 1)
      PROVE  SubSeq(cur', 1, n) = heap'[stack'[n].t].path
  <2>1. n \in 0..(Len(cur) - 1) /\ n \in DOMAIN stack
    BY <1>3, <1>4
  <2>2. SubSeq(cur', 1, n) = SubSeq(cur, 1, n)
    BY <1>1, <1>5, <1>6, <2>1, PrefixOfPrefix
  <2>3. SubSeq(cur, 1, n) = heap[stack[n].t].path
    BY <1>8, <2>1 DEF WalkOK
  <2>4. QED BY <1>2, <1>3, <2>1, <2>2, <2>3
<1>9. QED BY <1>3, <1>7, <1>8 DEF WalkOK

LEMMA StartRoundTree ==
  ASSUME IInv, SInv, WalkOK, StartRound PROVE SInv' /\ WalkOK'
<1>1. Awake /\ result \in Addr /\ result # NULL /\ stack = <<>>
      /\ Observe(result, <<>>) /\ UNCHANGED <<fsVars, targetVars>>
  BY AwakeShape DEF StartRound, Awake, FsTargetTypeOK
<1>2. unopened = {} => result \in live /\ heap[result].path = Root
  BY <1>1 DEF SInv, TreeOK
<1>3. <<>> \in Seq([t : live, i : Nat]) /\ Len(<<>>) = Len(stack)
  BY <1>1, EmptySeq
<1>4. WalkOK'
  BY <1>1, <1>2, <1>3, ObserveWalk
<1>5. SInv'
  BY <1>1, WalkKeepsTree DEF Awake, targetVars
<1>6. QED BY <1>4, <1>5

LEMMA ObserveChildTree ==
  ASSUME IInv, SInv, WalkOK, ObserveChild PROVE SInv' /\ WalkOK'
<1> DEFINE f == stack[Len(stack)]
           s == [stack EXCEPT ![Len(stack)].i = @ + 1]
           a == heap[f.t].children[f.i + 1]
<1>1. Awake /\ stack # <<>> /\ f.i < ChildrenCount(f.t)
      /\ Observe(a, s) /\ UNCHANGED <<fsVars, targetVars>>
  BY DEF ObserveChild
<1>2. /\ Len(stack) \in Nat \ {0} /\ f \in [t : live, i : Nat] /\ f.t = Here
      /\ f.t \in Addr /\ heap[f.t].children \in Seq(Addr)
      /\ DOMAIN stack = 1..Len(stack)
  BY <1>1, TopOfWalk, AwakeShape DEF FsTargetTypeOK, Target, Here
<1>3. f.i + 1 \in 1..Len(heap[f.t].children)
  BY <1>1, <1>2, LenProperties DEF ChildrenCount
<1>4. a \in Addr /\ f.i + 1 \in DOMAIN heap[f.t].children
  BY <1>2, <1>3, ElementOfSeq, LenProperties
<1>5. /\ s \in Seq([t : live, i : Nat]) /\ Len(s) = Len(stack)
      /\ \A n \in DOMAIN s : s[n].t = stack[n].t
  <2> DEFINE g == [f EXCEPT !.i = @ + 1]
             S == [t : live, i : Nat]
  <2>1. g \in S /\ g.t = f.t
    BY <1>2
  <2>2. s = [stack EXCEPT ![Len(stack)] = g]
    OBVIOUS
  <2>3. stack \in Seq(S) /\ Len(stack) \in 1..Len(stack)
    BY <1>1, <1>2, AwakeShape
  <2> HIDE DEF S, s, g
  <2>4. /\ s \in Seq(S) /\ Len(s) = Len(stack)
        /\ \A n \in 1..Len(stack) : s[n] = IF n = Len(stack) THEN g ELSE stack[n]
    BY <2>1, <2>2, <2>3, ExceptSeq
  <2>5. DOMAIN s = 1..Len(stack)
    BY <2>4, LenProperties
  <2>6. QED BY <2>1, <2>4, <2>5 DEF S
<1> HIDE DEF s
<1>6. unopened = {} => a \in live /\ Parent(heap[a].path) = heap[f.t].path
  BY <1>2, <1>4 DEF SInv, TreeOK
<1> HIDE DEF a, f
<1>7. WalkOK'
  BY <1>1, <1>2, <1>4, <1>5, <1>6, ObserveWalk
<1>8. SInv'
  BY <1>1, WalkKeepsTree DEF Awake, targetVars
<1>9. QED BY <1>7, <1>8

\* The effect of fs_target_event_track on the heap.
LEMMA TrackShape ==
  ASSUME IInv, Track
  PROVE  /\ Awake /\ stack # <<>> /\ Leave /\ Here \in live
         /\ UNCHANGED <<live, frames, unopened, result, fs, changes>>
         /\ heap \in [Addr -> Target] /\ live \subseteq Addr
         /\ heap' \in [Addr -> Target]
         /\ \A x \in Addr : /\ heap'[x].path = heap[x].path
                            /\ heap'[x].children = heap[x].children
         /\ \A x \in Addr \ {Here} : heap'[x] = heap[x]
<1>1. /\ Awake /\ stack # <<>> /\ Leave
      /\ UNCHANGED <<live, frames, unopened, result, fs, changes>>
  BY DEF Track, ChildrenDone, fsVars
<1>2. /\ Here \in live /\ Here \in Addr /\ heap \in [Addr -> Target]
      /\ live \subseteq Addr
  BY <1>1, AwakeShape, TopOfWalk DEF FsTargetTypeOK
<1>3. \/ UNCHANGED heap
      \/ \E es : heap' = [heap EXCEPT ![Here].events = es]
  BY DEF Track, Record
<1>4. heap' \in [Addr -> Target]
  BY TrackOK DEF IInv, RoutineTypeOK, FsTargetTypeOK
<1>5. CASE UNCHANGED heap
  BY <1>1, <1>2, <1>5
<1>6. ASSUME NEW es, heap' = [heap EXCEPT ![Here].events = es]
      PROVE  /\ \A x \in Addr : /\ heap'[x].path = heap[x].path
                                /\ heap'[x].children = heap[x].children
             /\ \A x \in Addr \ {Here} : heap'[x] = heap[x]
  BY <1>2, <1>6 DEF Target
<1>7. QED BY <1>1, <1>2, <1>3, <1>4, <1>5, <1>6

LEMMA TrackTree ==
  ASSUME IInv, SInv, WalkOK, Track PROVE SInv' /\ WalkOK'
<1>1. SInv'
  BY TrackShape, WalkKeepsTree DEF Awake
<1>2. WalkOK'
  BY TrackShape, LeaveWalk
<1>3. QED BY <1>1, <1>2

LEMMA LeaveUnknownTree ==
  ASSUME IInv, SInv, WalkOK, LeaveUnknown PROVE SInv' /\ WalkOK'
<1>1. Awake /\ stack # <<>> /\ Leave /\ UNCHANGED <<fsVars, targetVars>>
  BY DEF LeaveUnknown, ChildrenDone, fsVars, targetVars
<1>2. SInv'
  BY <1>1, WalkKeepsTree DEF Awake, targetVars
<1>3. WalkOK'
  BY <1>1, LeaveWalk DEF targetVars
<1>4. QED BY <1>2, <1>3

-----------------------------------------------------------------------------
(* The invariant.                                                          *)

LEMMA TreeInit == Init => TInv
<1> SUFFICES ASSUME Init PROVE TInv
  OBVIOUS
<1>1. IInv
  BY InitOK
<1>2. frames = <<NewFrame(Root)>> /\ live = {} /\ result = NULL
      /\ stack = <<>> /\ cur = <<>> /\ unopened = {}
  BY DEF Init, CreateInit, TargetInit
<1>3. Len(frames) = 1 /\ DOMAIN frames = {1} /\ Callers = {}
      /\ Top = NewFrame(Root) /\ frames[1] = NewFrame(Root)
  BY <1>2 DEF Callers, Top
<1>4. /\ NewFrame(Root).path = Root /\ NewFrame(Root).entries = {}
      /\ NewFrame(Root).self = NULL /\ NewFrame(Root).pc = "lstat"
  BY DEF NewFrame
<1>5. CallsOK
  <2>1. Len(Root) \in Nat /\ Root \in Seq(STRING)
    BY RootAssumption, PathShape
  <2>2. SubSeq(Root, 1, Len(Root)) = Root /\ Len(Root) = Len(Root) + (1 - 1)
    BY <2>1, SubSeqFull
  <2>3. QED BY <1>3, <1>4, <2>2 DEF CallsOK
<1>6. PathsOnce /\ CallsFresh /\ HeldOK /\ TreeOK
  BY <1>2, <1>3, <1>4 DEF PathsOnce, CallsFresh, HeldOK, TreeOK
<1>7. WalkOK
  BY <1>2, EmptySeq DEF WalkOK
<1>8. QED BY <1>1, <1>5, <1>6, <1>7 DEF TInv, SInv

LEMMA TreeNext == TInv /\ [Next]_vars => TInv'
<1> SUFFICES ASSUME TInv, [Next]_vars PROVE TInv'
  OBVIOUS
<1>1. IInv /\ IInv' /\ SInv /\ WalkOK
  BY NextOK DEF TInv
<1>2. CASE Create /\ UNCHANGED walkVars
  <2>1. SInv'
    BY <1>1, <1>2, CreateLstatTree, EventInitTree, EventInitFailTree,
       OpenDirTree, OpenDirFailTree, ReadDirTree, EndDirTree DEF Create
  <2>2. stack = <<>>
    BY <1>1, <1>2, RunningShape DEF Create, CreateLstat, EventInit,
       EventInitFail, OpenDir, OpenDirFail, ReadDir, EndDir
  <2>3. WalkOK'
    BY <1>1, <1>2, <2>2, WalkWaits DEF walkVars
  <2>4. QED BY <1>1, <2>1, <2>3 DEF TInv
<1>3. CASE OtherProcesses /\ UNCHANGED walkVars
  <2>1. SInv'
    BY <1>1, <1>3, OtherProcessesTree
  <2>2. WalkOK'
    BY <1>1, <1>3 DEF WalkOK, OtherProcesses, targetVars, walkVars
  <2>3. QED BY <1>1, <2>1, <2>2 DEF TInv
<1>4. CASE Walk
  BY <1>1, <1>4, StartRoundTree, ObserveChildTree, TrackTree, LeaveUnknownTree
     DEF Walk, TInv
<1>5. CASE UNCHANGED vars
  <2>1. UNCHANGED <<heap, live, frames, unopened, result, stack, cur>>
    BY <1>5 DEF vars, targetVars, walkVars
  <2>2. CallsOK' /\ CallsFresh' /\ PathsOnce'
    BY <1>1, <2>1 DEF SInv, CallsOK, CallsFresh, PathsOnce, Callers, Top, Running
  <2>3. HeldOK' /\ TreeOK'
    BY <1>1, <2>1, TreeKept DEF SInv
  <2>4. WalkOK'
    BY <1>1, <2>1 DEF WalkOK
  <2>5. QED BY <1>1, <2>2, <2>3, <2>4 DEF TInv, SInv
<1>6. QED BY <1>2, <1>3, <1>4, <1>5 DEF Next, CreateNext

LEMMA TreeInvariance == Spec => []TInv
BY TreeInit, TreeNext, PTL DEF Spec

-----------------------------------------------------------------------------
(* Counting the holders of a target.                                       *)

CallsOf(a) == {n \in DOMAIN frames : frames[n].self = a}

LEMMA SlotOf ==
  ASSUME NEW a, NEW x
  PROVE  x \in ChildSlots(a) <=>
           \E d \in live : \E n \in DOMAIN heap[d].children :
             x = <<d, n>> /\ heap[d].children[n] = a
BY DEF ChildSlots

LEMMA HoldersFinite ==
  ASSUME IInv, NEW a
  PROVE  /\ IsFiniteSet(ChildSlots(a)) /\ Cardinality(ChildSlots(a)) \in Nat
         /\ IsFiniteSet(CallsOf(a)) /\ Cardinality(CallsOf(a)) \in Nat
<1>1. FsTargetTypeOK
  BY DEF IInv, RoutineTypeOK
<1> DEFINE Slots(d) == {d} \X {n \in DOMAIN heap[d].children :
                                  heap[d].children[n] = a}
           All == {Slots(d) : d \in live}
<1>2. IsFiniteSet(live)
  <2>1. live \subseteq 1..brk /\ 1 \in Int /\ brk \in Int
    BY <1>1, MaxTargetsAssumption DEF FsTargetTypeOK
  <2>2. IsFiniteSet(1..brk)
    BY <2>1, FS_Interval
  <2>3. QED BY <2>1, <2>2, FS_Subset
<1>3. IsFiniteSet(All)
  <2> DEFINE g == [d \in live |-> Slots(d)]
  <2>1. g \in Surjection(live, All)
    BY DEF Surjection
  <2>2. QED BY <1>2, <2>1, FS_Surjection
<1>4. ASSUME NEW d \in live PROVE IsFiniteSet(Slots(d))
  <2> DEFINE N == {n \in DOMAIN heap[d].children : heap[d].children[n] = a}
  <2>1. heap[d].children \in Seq(Addr)
    BY <1>1, AddrLive DEF FsTargetTypeOK, Target
  <2>2. DOMAIN heap[d].children = 1..Len(heap[d].children)
        /\ Len(heap[d].children) \in Int
    BY <2>1, LenProperties
  <2>3. IsFiniteSet(1..Len(heap[d].children))
    BY <2>2, FS_Interval
  <2>4. N \in SUBSET (1..Len(heap[d].children))
    BY <2>2
  <2> HIDE DEF N
  <2>5. IsFiniteSet(N)
    BY <2>3, <2>4, FS_Subset
  <2>6. IsFiniteSet({d} \X N)
    BY <2>5, FS_Product, FS_Singleton
  <2>7. QED BY <2>6 DEF N
<1>5. IsFiniteSet(UNION All)
  <2>1. \A T \in All : IsFiniteSet(T)
    BY <1>4
  <2> HIDE DEF All
  <2>2. QED BY <1>3, <2>1, FS_UNION
<1>6. ChildSlots(a) = UNION All
  BY DEF ChildSlots
<1> HIDE DEF All
<1>7. IsFiniteSet(CallsOf(a))
  <2>1. DOMAIN frames = 1..Len(frames) /\ Len(frames) \in Int
    BY <1>1, LenProperties DEF FsTargetTypeOK
  <2>2. IsFiniteSet(1..Len(frames)) /\ CallsOf(a) \in SUBSET (1..Len(frames))
    BY <2>1, FS_Interval DEF CallsOf
  <2>3. QED BY <2>2, FS_Subset
<1>8. QED BY <1>5, <1>6, <1>7, FS_CardinalityType

\* A pointer that is held counts.
LEMMA HeldCounts ==
  ASSUME TInv, NEW a \in live PROVE Holders(a) >= 1
<1>1. /\ IsFiniteSet(ChildSlots(a)) /\ Cardinality(ChildSlots(a)) \in Nat
      /\ IsFiniteSet(CallsOf(a)) /\ Cardinality(CallsOf(a)) \in Nat
  BY HoldersFinite DEF TInv
<1>2. \/ ChildSlots(a) # {} \/ CallsOf(a) # {} \/ result = a
  BY SlotOf DEF TInv, SInv, HeldOK, Held, CallsOf
<1>3. /\ ChildSlots(a) # {} => Cardinality(ChildSlots(a)) # 0
      /\ CallsOf(a) # {} => Cardinality(CallsOf(a)) # 0
  BY <1>1, FS_EmptySet
<1> DEFINE c1 == Cardinality(ChildSlots(a))
           c2 == Cardinality(CallsOf(a))
<1>4. Holders(a) = c1 + c2 + IF result = a THEN 1 ELSE 0
  BY DEF Holders, CallsOf
<1>5. /\ c1 \in Nat /\ c2 \in Nat /\ (c1 # 0 \/ c2 # 0 \/ result = a)
  BY <1>1, <1>2, <1>3
<1> HIDE DEF c1, c2
<1>6. QED BY <1>4, <1>5

\* In a tree a pointer is held once.
LEMMA HeldOnce ==
  ASSUME TInv, unopened = {}, NEW a \in Addr
  PROVE  Holders(a) = IF a \in live THEN 1 ELSE 0
<1>1. /\ live \subseteq Addr /\ NULL \notin Addr /\ a # NULL
  BY AddrLive DEF TInv, IInv, RoutineTypeOK
<1>2. Cardinality({}) = 0 /\ \A x : Cardinality({x}) = 1
  BY FS_EmptySet, FS_Singleton
<1>3. /\ \A d \in live : \A n \in DOMAIN heap[d].children :
           LET c == heap[d].children[n]
           IN  c \in live /\ c # result /\ \A m \in DOMAIN frames : frames[m].self # c
      /\ \A d, e \in live :
           \A n \in DOMAIN heap[d].children, m \in DOMAIN heap[e].children :
             heap[d].children[n] = heap[e].children[m] => d = e /\ n = m
      /\ result # NULL => result \in live
  BY DEF TInv, SInv, TreeOK
<1>4. \A n \in DOMAIN frames : frames[n].self # NULL => frames[n].self \in live
  <2>1. CASE frames = <<>>
    BY <2>1
  <2>2. CASE frames # <<>>
    BY <2>2, CallShape DEF TInv, IInv, FramesOK
  <2>3. QED BY <2>1, <2>2
<1>5. \A m, n \in DOMAIN frames :
        frames[m].self = frames[n].self /\ frames[n].self # NULL => m = n
  <2>1. CASE frames = <<>>
    BY <2>1
  <2>2. CASE frames # <<>>
    BY <2>2, CallShape DEF TInv, IInv, FramesOK
  <2>3. QED BY <2>1, <2>2
<1>6. DOMAIN frames # {} => result = NULL
  BY DEF TInv, SInv, CallsFresh
<1> DEFINE c1 == Cardinality(ChildSlots(a))
           c2 == Cardinality(CallsOf(a))
<1>7. Holders(a) = c1 + c2 + IF result = a THEN 1 ELSE 0
  BY DEF Holders, CallsOf
<1>8. CASE a \notin live
  <2>1. ChildSlots(a) = {}
    BY <1>3, <1>8, SlotOf
  <2>2. CallsOf(a) = {} /\ result # a
    BY <1>1, <1>3, <1>4, <1>8 DEF CallsOf
  <2>3. c1 = 0 /\ c2 = 0
    BY <1>2, <2>1, <2>2
  <2> HIDE DEF c1, c2
  <2>4. QED BY <1>7, <1>8, <2>2, <2>3
<1>9. ASSUME a \in live, NEW d \in live, NEW n \in DOMAIN heap[d].children,
             heap[d].children[n] = a
      PROVE  Holders(a) = 1
  <2>1. ChildSlots(a) = {<<d, n>>}
    <3>1. <<d, n>> \in ChildSlots(a)
      BY <1>9, SlotOf
    <3>2. \A x \in ChildSlots(a) : x = <<d, n>>
      BY <1>3, <1>9, SlotOf
    <3>3. QED BY <3>1, <3>2
  <2>2. CallsOf(a) = {} /\ result # a
    BY <1>3, <1>9 DEF CallsOf
  <2>3. c1 = 1 /\ c2 = 0
    BY <1>2, <2>1, <2>2
  <2> HIDE DEF c1, c2
  <2>4. QED BY <1>7, <2>2, <2>3
<1>10. ASSUME a \in live, NEW n \in DOMAIN frames, frames[n].self = a
       PROVE  Holders(a) = 1
  <2>1. ChildSlots(a) = {}
    BY <1>3, <1>10, SlotOf
  <2>2. CallsOf(a) = {n}
    BY <1>1, <1>5, <1>10 DEF CallsOf
  <2>3. result # a
    BY <1>1, <1>6
  <2>4. c1 = 0 /\ c2 = 1
    BY <1>2, <2>1, <2>2
  <2> HIDE DEF c1, c2
  <2>5. QED BY <1>7, <2>3, <2>4
<1>11. ASSUME a \in live, result = a PROVE Holders(a) = 1
  <2>1. ChildSlots(a) = {}
    BY <1>3, <1>11, SlotOf
  <2>2. CallsOf(a) = {}
    BY <1>1, <1>6, <1>11 DEF CallsOf
  <2>3. c1 = 0 /\ c2 = 0
    BY <1>2, <2>1, <2>2
  <2> HIDE DEF c1, c2
  <2>4. QED BY <1>7, <1>11, <2>3
<1>12. a \in live => Held(a)
  BY DEF TInv, SInv, HeldOK
<1>13. QED BY <1>8, <1>9, <1>10, <1>11, <1>12 DEF Held

-----------------------------------------------------------------------------
(* The theorems.                                                           *)

\* fs_target_create loses no target, whatever other processes do and wherever
\* a call fails; and while every directory can be opened the targets are a tree
\* over the paths, with one pointer to each and none to freed memory.
THEOREM SnapshotIsTreeHolds == Spec => []SnapshotIsTree
<1>1. TInv => SnapshotIsTree
  <2> SUFFICES ASSUME TInv PROVE SnapshotIsTree
    OBVIOUS
  <2>1. \A a \in live : Holders(a) >= 1
    BY HeldCounts
  <2>2. ASSUME unopened = {}
        PROVE  /\ \A a \in live : Holders(a) = 1
               /\ \A a \in Addr \ live : Holders(a) = 0
    <3>1. live \subseteq Addr
      BY AddrLive DEF TInv, IInv, RoutineTypeOK
    <3>2. QED BY <2>2, <3>1, HeldOnce
  <2>3. ASSUME unopened = {}, NEW a \in live, NEW n \in DOMAIN heap[a].children
        PROVE  Parent(heap[heap[a].children[n]].path) = heap[a].path
    BY <2>3 DEF TInv, SInv, TreeOK
  <2>4. QED BY <2>1, <2>2, <2>3 DEF SnapshotIsTree
<1>2. QED BY <1>1, TreeInvariance, PTL

\* set_current_wd and unset_current_wd match: between two rounds the buffer is
\* empty, and during one it holds the path of the file the walk is at.
THEOREM ObservesItsFileHolds == Spec => []ObservesItsFile
<1>1. TInv => ObservesItsFile
  <2> SUFFICES ASSUME TInv PROVE ObservesItsFile
    OBVIOUS
  <2>1. stack = <<>> => cur = <<>>
    <3>1. cur \in Seq(STRING) /\ Len(cur) = Len(stack)
      BY DEF TInv, IInv, RoutineTypeOK, WalkOK
    <3>2. QED BY <3>1, EmptySeq
  <2>2. QED BY <2>1 DEF TInv, WalkOK, ObservesItsFile
<1>2. QED BY <1>1, TreeInvariance, PTL

-----------------------------------------------------------------------------
(* What the snapshot says of a tree nobody changes.  From the call for     *)
(* Root on, a target says what its file is, and each file to be kept has a *)
(* target or is ahead of a call on the stack.                              *)

\* What the target at a says of the file it was made for is what the file is.
Noted(a) ==
  LET st == fs[heap[a].path]
  IN  /\ heap[a].type = FiletypeOf(st)
      /\ Len(heap[a].events) = 1 /\ heap[a].events[1].st = st

\* What a call knows of its file.
CallAsIs(f) ==
  /\ f.pc # "readdir" => f.seen = {}
  /\ f.pc = "event_init" => heap[f.self].type = FiletypeOf(Lstat(f.path).st)
  /\ f.pc \in {"opendir", "readdir"} => Noted(f.self)
  /\ f.pc = "opendir" => Lstat(f.path).err = "OK" /\ IsDir(f.path)
  /\ f.pc = "readdir" => f.path \in Kept /\ f.entries = Entries(f.path)

\* The call f has q still to come to, in its own directory or below it.
Ahead(q, f) ==
  IF f.pc = "readdir" THEN Under(q, f.path) /\ Branch(q, f.path) \notin f.seen
                      ELSE q = f.path \/ Under(q, f.path)

CallsAsIs  == \A n \in DOMAIN frames : CallAsIs(frames[n])
LiveAsIs   == \A a \in live : \/ \E n \in DOMAIN frames : frames[n].self = a
                              \/ heap[a].path \in Kept /\ Noted(a)
NoneMissed == \A q \in Kept : \/ \E a \in live : heap[a].path = q
                              \/ \E n \in DOMAIN frames : Ahead(q, frames[n])

AsIs == changes = 0 => CallsAsIs /\ LiveAsIs /\ NoneMissed

\* What lstat reaches, it reaches through directories.
LEMMA LstatUp ==
  ASSUME NEW q \in Paths, Lstat(q).err = "OK", NEW n \in 1..Len(q),
         NEW p, p = SubSeq(q, 1, n)
  PROVE  /\ Lstat(p).err = "OK" /\ Lstat(p).st = fs[p] /\ Exists(p)
         /\ n < Len(q) => IsDir(p)
<1> DEFINE Blocked(r) == {i \in 1..(Len(r) - 1) : Blocks(SubSeq(r, 1, i))}
<1>1. q \in Seq(STRING) /\ Len(q) \in Nat \ {0}
  BY PathShape
<1>2. Blocked(q) = {} /\ Exists(q)
  BY DEF Lstat
<1>3. Len(p) = n /\ n \in 0..Len(q)
  BY <1>1, PrefixOf
<1>4. \A i \in 1..(Len(p) - 1) : SubSeq(p, 1, i) = SubSeq(q, 1, i)
  <2> TAKE i \in 1..(Len(p) - 1)
  <2>1. i \in 0..n
    BY <1>3
  <2>2. QED BY <1>1, <1>3, <2>1, PrefixOfPrefix
<1>5. \A i \in 1..(Len(q) - 1) : ~Blocks(SubSeq(q, 1, i))
  BY <1>2
<1>6. Blocked(p) = {}
  <2>1. \A i \in 1..(Len(p) - 1) : i \in 1..(Len(q) - 1)
    BY <1>1, <1>3
  <2>2. QED BY <1>4, <1>5, <2>1
<1>7. n < Len(q) => IsDir(p)
  <2>1. n < Len(q) => n \in 1..(Len(q) - 1)
    BY <1>1
  <2>2. QED BY <1>5, <2>1 DEF Blocks
<1>8. Exists(p)
  <2>1. CASE n = Len(q)
    BY <1>1, <1>2, <2>1, SubSeqFull
  <2>2. CASE n # Len(q)
    BY <1>1, <1>3, <1>7, <2>2 DEF IsDir
  <2>3. QED BY <2>1, <2>2
<1>9. Lstat(p) = [err |-> "OK", st |-> fs[p]]
  BY <1>6, <1>8 DEF Lstat
<1>10. QED BY <1>7, <1>8, <1>9

\* A file that is kept, seen from a directory above it.
LEMMA KeptUp ==
  ASSUME NEW q \in Kept, NEW p \in Paths, Len(p) >= Len(Root),
         q = p \/ Under(q, p)
  PROVE  /\ Lstat(p).err = "OK" /\ Lstat(p).st = fs[p]
         /\ IsDir(p) => CanOpenDir(p)
         /\ Under(q, p) => IsDir(p) /\ Branch(q, p) \in Entries(p)
<1>1. q \in Paths /\ Lstat(q).err = "OK"
      /\ \A n \in Len(Root)..Len(q) :
           IsDir(SubSeq(q, 1, n)) => CanOpenDir(SubSeq(q, 1, n))
  BY DEF Kept
<1>2. /\ q \in Seq(STRING) /\ Len(q) \in Nat \ {0}
      /\ p \in Seq(STRING) /\ Len(p) \in Nat \ {0} /\ Len(Root) \in Nat \ {0}
  BY <1>1, PathShape, RootAssumption
<1>3. SubSeq(q, 1, Len(p)) = p /\ Len(p) \in 1..Len(q) /\ Len(p) \in Len(Root)..Len(q)
  BY <1>2, SubSeqFull DEF Under
<1>4. /\ Lstat(p).err = "OK" /\ Lstat(p).st = fs[p]
      /\ Len(p) < Len(q) => IsDir(p)
  BY <1>1, <1>3, LstatUp
<1>5. IsDir(p) => CanOpenDir(p)
  BY <1>1, <1>3
<1>6. ASSUME Under(q, p) PROVE IsDir(p) /\ Branch(q, p) \in Entries(p)
  <2> DEFINE n == Len(p) + 1
             b == SubSeq(q, 1, n)
  <2>1. Len(p) < Len(q)
    BY <1>6 DEF Under
  <2>2. n \in 1..Len(q) /\ n \in 0..Len(q) /\ n - 1 = Len(p) /\ n - 1 \in 0..n
    BY <1>2, <2>1
  <2>3. b \in Seq(STRING) /\ Len(b) = n
    BY <1>2, <2>2, PrefixOf
  <2>4. Exists(b)
    BY <1>1, <2>2, LstatUp
  <2>5. SubSeq(b, 1, n - 1) = p
    BY <1>2, <1>3, <2>2, PrefixOfPrefix
  <2>6. b \in Entries(p)
    BY <2>3, <2>4, <2>5 DEF Entries, Parent, Exists
  <2>7. QED BY <1>4, <2>1, <2>6 DEF Branch
<1>7. QED BY <1>4, <1>5, <1>6

\* A file in a kept directory is kept unless it cannot be opened or reached.
LEMMA KeptChild ==
  ASSUME NEW r \in Kept, NEW q \in Paths,
         Len(q) = Len(r) + 1, Parent(q) = r,
         Lstat(q).err = "OK", IsDir(q) => CanOpenDir(q)
  PROVE  q \in Kept
<1>1. /\ r \in Paths /\ Len(r) >= Len(Root) /\ SubSeq(r, 1, Len(Root)) = Root
      /\ \A n \in Len(Root)..Len(r) :
           IsDir(SubSeq(r, 1, n)) => CanOpenDir(SubSeq(r, 1, n))
  BY DEF Kept
<1>2. /\ q \in Seq(STRING) /\ Len(q) \in Nat \ {0}
      /\ Len(r) \in Nat \ {0} /\ Len(Root) \in Nat \ {0}
  BY <1>1, PathShape, RootAssumption
<1>3. SubSeq(q, 1, Len(r)) = r /\ Len(r) \in 0..Len(q)
  BY <1>2 DEF Parent
<1>4. \A n \in 0..Len(r) : SubSeq(q, 1, n) = SubSeq(r, 1, n)
  BY <1>2, <1>3, PrefixOfPrefix
<1>5. SubSeq(q, 1, Len(Root)) = Root /\ Len(q) >= Len(Root)
  <2>1. Len(Root) \in 0..Len(r)
    BY <1>1, <1>2
  <2>2. QED BY <1>1, <1>2, <1>4, <2>1
<1>6. ASSUME NEW n \in Len(Root)..Len(q)
      PROVE  IsDir(SubSeq(q, 1, n)) => CanOpenDir(SubSeq(q, 1, n))
  <2>1. CASE n = Len(q)
    <3>1. SubSeq(q, 1, n) = q
      BY <1>2, <2>1, SubSeqFull
    <3>2. QED BY <3>1
  <2>2. CASE n # Len(q)
    <3>1. n \in 0..Len(r) /\ n \in Len(Root)..Len(r)
      BY <1>2, <2>2
    <3>2. QED BY <1>1, <1>4, <3>1
  <2>3. QED BY <2>1, <2>2
<1>7. QED BY <1>5, <1>6 DEF Kept

LEMMA KeptRoot ==
  ASSUME Lstat(Root).err = "OK", IsDir(Root) => CanOpenDir(Root)
  PROVE  Root \in Kept
<1>1. Root \in Seq(STRING) /\ Len(Root) \in Nat
  BY PathShape, RootAssumption
<1>2. SubSeq(Root, 1, Len(Root)) = Root
  BY <1>1, SubSeqFull
<1>3. Len(Root) >= Len(Root) /\ \A n \in Len(Root)..Len(Root) : n = Len(Root)
  BY <1>1
<1>4. \A n \in Len(Root)..Len(Root) : SubSeq(Root, 1, n) = Root
  BY <1>2, <1>3
<1>5. QED BY <1>2, <1>3, <1>4, RootAssumption DEF Kept

\* So is the file of the innermost call.
LEMMA TopKept ==
  ASSUME IInv, CallsOK, CallsAsIs, frames # <<>>,
         Lstat(Top.path).err = "OK", IsDir(Top.path) => CanOpenDir(Top.path)
  PROVE  Top.path \in Kept
<1>1. /\ Len(frames) \in Nat \ {0} /\ DOMAIN frames = 1..Len(frames)
      /\ Callers = 1..(Len(frames) - 1)
      /\ Top = frames[Len(frames)] /\ \A n \in DOMAIN frames : frames[n] \in Frame
  BY CallShape
<1>2. CASE Len(frames) = 1
  BY <1>1, <1>2, KeptRoot DEF CallsOK
<1>3. CASE Len(frames) # 1
  <2> DEFINE n == Len(frames) - 1
             r == frames[n].path
  <2>1. n \in Callers /\ n \in DOMAIN frames /\ Len(frames) \in DOMAIN frames
        /\ n <= Len(frames) /\ Len(frames) - n = 1
    BY <1>1, <1>3
  <2>2. frames[n].pc = "readdir"
    BY <2>1 DEF IInv, FramesOK
  <2>3. r \in Kept
    BY <2>1, <2>2 DEF CallsAsIs, CallAsIs
  <2>4. Top.path \in Paths /\ r \in Paths
    BY <1>1, <2>1 DEF Frame
  <2>5. Len(Top.path) = Len(r) + 1 /\ SubSeq(Top.path, 1, Len(r)) = r
    <3>1. /\ Len(Top.path) = Len(r) + (Len(frames) - n)
          /\ SubSeq(Top.path, 1, Len(r)) = r
      BY <1>1, <2>1 DEF CallsOK
    <3>2. QED BY <2>1, <3>1
  <2>6. Parent(Top.path) = r
    <3>1. Len(r) \in Nat
      BY <2>4, PathShape
    <3>2. Len(Top.path) - 1 = Len(r)
      BY <2>5, <3>1
    <3>3. QED BY <2>5, <3>2 DEF Parent
  <2> HIDE DEF n, r
  <2>7. QED BY <2>3, <2>4, <2>5, <2>6, KeptChild
<1>4. QED BY <1>2, <1>3

\* What a step that leaves the files alone leaves of lstat and the rest.
LEMMA SameFiles ==
  ASSUME fs' = fs
  PROVE  /\ Kept' = Kept
         /\ \A p : /\ Lstat(p)' = Lstat(p) /\ IsDir(p)' = IsDir(p)
                   /\ Entries(p)' = Entries(p)
<1>1. \A p : Exists(p)' = Exists(p)
  BY DEF Exists
<1>2. \A p : IsDir(p)' = IsDir(p)
  BY <1>1 DEF IsDir
<1>3. \A p : Entries(p)' = Entries(p)
  BY <1>1 DEF Entries
<1>4. \A p : Blocks(p)' = Blocks(p)
  BY <1>2 DEF Blocks
<1>5. \A p : Lstat(p)' = Lstat(p)
  BY <1>1, <1>2, <1>4 DEF Lstat
<1>6. \A p : CanOpenDir(p)' = CanOpenDir(p)
  BY <1>2, <1>5 DEF CanOpenDir
<1>7. Kept' = Kept
  BY <1>2, <1>5, <1>6 DEF Kept
<1>8. QED BY <1>2, <1>3, <1>5, <1>7

\* What AsIs says of a target.
Same(t, u) == t.path = u.path /\ t.type = u.type /\ t.events = u.events

LEMMA NotedKept ==
  ASSUME fs' = fs, NEW a, Noted(a), Same(heap'[a], heap[a])
  PROVE  Noted(a)'
BY DEF Noted, Same, FiletypeOf

LEMMA CallKept ==
  ASSUME fs' = fs, NEW f, CallAsIs(f),
         f.pc # "lstat" => Same(heap'[f.self], heap[f.self])
  PROVE  CallAsIs(f)'
<1>1. Kept' = Kept /\ \A p : /\ Lstat(p)' = Lstat(p) /\ IsDir(p)' = IsDir(p)
                            /\ Entries(p)' = Entries(p)
  BY SameFiles
<1>2. f.pc \in {"opendir", "readdir"} => Noted(f.self)'
  BY NotedKept DEF CallAsIs
<1>3. QED BY <1>1, <1>2 DEF CallAsIs, Same, FiletypeOf

\* return (a): of the targets, only a children array changes.
LEMMA ReturnSame ==
  ASSUME IInv, frames # <<>>, NEW a \in {NULL, Top.self},
         NEW h \in [Addr -> Target], Return(a, h)
  PROVE  \A x \in Addr : Same(heap'[x], h[x])
<1>1. CASE heap' = h
  BY <1>1 DEF Same
<1>2. ASSUME NEW p,
             heap' = [h EXCEPT ![p].children = Append(@, a)]
      PROVE  \A x \in Addr : Same(heap'[x], h[x])
  <2> SUFFICES ASSUME NEW x \in Addr PROVE Same(heap'[x], h[x])
    OBVIOUS
  <2>1. h[x] \in Target
    OBVIOUS
  <2>2. QED BY <1>2, <2>1 DEF Same, Target
<1>3. QED BY <1>1, <1>2 DEF Return

\* A call returns.  Its target, if it stays, says what the file is; every kept
\* file that only this call had ahead has a target.
LEMMA ReturnAsIs ==
  ASSUME IInv, SInv, CallsAsIs, LiveAsIs, NoneMissed,
         frames # <<>>, Top.pc # "lstat", fs' = fs,
         NEW a \in {NULL, Top.self}, NEW h \in [Addr -> Target], Return(a, h),
         live \ {Top.self} \subseteq live', live' \subseteq live,
         \A x \in live \ {Top.self} : Same(h[x], heap[x]),
         h[Top.self].path = Top.path \/ Top.self \notin live',
         Top.self \in live' =>
           LET st == fs[Top.path]
           IN  /\ Top.path \in Kept
               /\ h[Top.self].type = FiletypeOf(st)
               /\ Len(h[Top.self].events) = 1 /\ h[Top.self].events[1].st = st,
         Top.self \notin live' => Top.path \notin Kept,
         \A q \in Kept : Ahead(q, Top) => q = Top.path
  PROVE  CallsAsIs' /\ LiveAsIs' /\ NoneMissed'
<1>1. /\ Len(frames) \in Nat \ {0}
      /\ DOMAIN frames = Callers \cup {Len(frames)}
      /\ Callers \subseteq DOMAIN frames
      /\ Top = frames[Len(frames)]
      /\ FsTargetTypeOK
  BY CallShape DEF IInv, RoutineTypeOK
<1>2. DOMAIN frames' = Callers /\ \A n \in Callers : frames'[n] = frames[n]
  BY <1>1, PopShape DEF Return, Callers
<1>3. live \subseteq Addr /\ Top.self \in live /\ Top.self \in Addr
  BY <1>1, AddrLive DEF IInv, FramesOK
<1>4. \A n \in Callers : /\ frames[n].pc = "readdir" /\ frames[n].self \in live
                         /\ frames[n].self # Top.self
  BY <1>3 DEF IInv, FramesOK
<1>5. heap[Top.self].path = Top.path
  <2>1. Top.self # NULL
    BY <1>1, <1>3, AddrLive
  <2>2. QED BY <1>1, <2>1 DEF SInv, CallsOK
<1>6. \A x \in Addr : Same(heap'[x], h[x])
  BY ReturnSame
<1>7. \A x \in live \ {Top.self} : Same(heap'[x], heap[x])
  BY <1>3, <1>6 DEF Same
<1>8. Kept' = Kept
  BY SameFiles
<1>9. CallsAsIs'
  <2>1. ASSUME NEW n \in Callers PROVE CallAsIs(frames[n])'
    <3> DEFINE f == frames[n]
    <3>1. PICK g : g = f
      OBVIOUS
    <3>2. frames'[n] = g /\ CallAsIs(g) /\ g.self \in live /\ g.self # Top.self
      BY <1>1, <1>2, <1>4, <3>1 DEF CallsAsIs
    <3>3. CallAsIs(g)'
      BY <1>7, <3>2, CallKept
    <3>4. QED BY <3>2, <3>3
  <2>2. QED BY <1>2, <2>1 DEF CallsAsIs
<1>10. LiveAsIs'
  <2> SUFFICES ASSUME NEW x \in live'
               PROVE  \/ \E n \in DOMAIN frames' : frames'[n].self = x
                      \/ heap'[x].path \in Kept /\ Noted(x)'
    BY <1>8 DEF LiveAsIs
  <2>1. CASE x = Top.self
    BY <1>3, <1>6, <2>1 DEF Noted, Same, FiletypeOf
  <2>2. ASSUME NEW n \in Callers, frames[n].self = x
        PROVE  \E m \in DOMAIN frames' : frames'[m].self = x
    BY <1>2, <2>2
  <2>3. CASE x # Top.self /\ heap[x].path \in Kept /\ Noted(x)
    <3>1. x \in live \ {Top.self}
      BY <2>3
    <3>2. Noted(x)' /\ heap'[x].path = heap[x].path
      BY <1>7, <2>3, <3>1, NotedKept DEF Same
    <3>3. QED BY <2>3, <3>2
  <2>4. QED BY <1>1, <2>1, <2>2, <2>3 DEF LiveAsIs
<1>11. NoneMissed'
  <2> SUFFICES ASSUME NEW q \in Kept
               PROVE  \/ \E x \in live' : heap'[x].path = q
                      \/ \E n \in DOMAIN frames' : Ahead(q, frames[n])'
    BY <1>8 DEF NoneMissed
  <2>1. CASE q = Top.path
    <3>1. Top.self \in live'
      BY <2>1
    <3>2. heap'[Top.self].path = Top.path
      BY <1>3, <1>6, <3>1 DEF Same
    <3>3. QED BY <2>1, <3>1, <3>2
  <2>2. ASSUME NEW x \in live, heap[x].path = q, q # Top.path
        PROVE  \E y \in live' : heap'[y].path = q
    <3>1. x \in live \ {Top.self} /\ x \in live'
      BY <1>5, <2>2
    <3>2. QED BY <1>7, <2>2, <3>1 DEF Same
  <2>3. ASSUME NEW n \in Callers, Ahead(q, frames[n])
        PROVE  \E m \in DOMAIN frames' : Ahead(q, frames[m])'
    BY <1>2, <2>3 DEF Ahead, Under, Branch
  <2>4. QED BY <1>1, <2>1, <2>2, <2>3 DEF NoneMissed
<1>12. QED BY <1>9, <1>10, <1>11

\* The file of the innermost call is at or below Root.
LEMMA TopAbove ==
  ASSUME IInv, SInv, frames # <<>>
  PROVE  Top.path \in Paths /\ Len(Top.path) >= Len(Root)
<1>1. /\ Len(frames) \in Nat \ {0} /\ DOMAIN frames = 1..Len(frames)
      /\ Top = frames[Len(frames)] /\ \A n \in DOMAIN frames : frames[n] \in Frame
  BY CallShape
<1>2. 1 \in DOMAIN frames /\ Len(frames) \in DOMAIN frames /\ 1 <= Len(frames)
  BY <1>1
<1>3. Len(Top.path) = Len(Root) + (Len(frames) - 1)
  BY <1>1, <1>2 DEF SInv, CallsOK
<1>4. Top.path \in Paths /\ Len(Root) \in Nat
  BY <1>1, <1>2, PathShape, RootAssumption DEF Frame
<1>5. QED BY <1>1, <1>3, <1>4

LEMMA EventInitFailAsIs ==
  ASSUME IInv, SInv, AsIs, EventInitFail PROVE AsIs'
<1> SUFFICES ASSUME changes' = 0 PROVE CallsAsIs' /\ LiveAsIs' /\ NoneMissed'
  BY DEF AsIs
<1>1. frames # <<>> /\ Top.pc = "event_init"
      /\ Return(NULL, heap) /\ live' = live \ {Top.self} /\ fs' = fs
      /\ heap \in [Addr -> Target] /\ CallsAsIs /\ LiveAsIs /\ NoneMissed
      /\ Lstat(Top.path).err # "OK"
  BY RunningShape
     DEF EventInitFail, Running, IInv, RoutineTypeOK, FsTargetTypeOK, AsIs, fsVars
<1>2. \A q \in Kept : q # Top.path /\ ~Under(q, Top.path)
  BY <1>1, TopAbove, KeptUp
<1>3. \A q \in Kept : ~Ahead(q, Top)
  BY <1>1, <1>2 DEF Ahead
<1>4. \A x \in live \ {Top.self} : Same(heap[x], heap[x])
  BY DEF Same
<1>5. Top.path \notin Kept /\ Top.self \notin live'
  BY <1>1, <1>2
<1>6. live' \subseteq live /\ live \ {Top.self} \subseteq live'
  BY <1>1
<1>7. Top.pc # "lstat"
  BY <1>1
<1>8. QED BY <1>1, <1>3, <1>4, <1>5, <1>6, <1>7, ReturnAsIs

LEMMA OpenDirFailAsIs ==
  ASSUME IInv, SInv, AsIs, OpenDirFail PROVE AsIs'
<1> SUFFICES ASSUME changes' = 0 PROVE CallsAsIs' /\ LiveAsIs' /\ NoneMissed'
  BY DEF AsIs
<1> DEFINE h == [heap EXCEPT ![Top.self] = ZeroTarget]
<1>1. frames # <<>> /\ Top.pc = "opendir" /\ Top.self \in Addr
      /\ Return(Top.self, h) /\ live' = live \ {Top.self} /\ fs' = fs
      /\ heap \in [Addr -> Target] /\ CallsAsIs /\ LiveAsIs /\ NoneMissed
      /\ ~CanOpenDir(Top.path) /\ live \subseteq Addr
  BY RunningShape, AddrLive
     DEF OpenDirFail, Running, IInv, RoutineTypeOK, FsTargetTypeOK, AsIs, fsVars
<1>2. IsDir(Top.path)
  BY <1>1, CallShape DEF CallsAsIs, CallAsIs
<1>3. \A q \in Kept : q # Top.path /\ ~Under(q, Top.path)
  BY <1>1, <1>2, TopAbove, KeptUp
<1>4. \A q \in Kept : ~Ahead(q, Top)
  BY <1>1, <1>3 DEF Ahead
<1>5. h \in [Addr -> Target] /\ \A x \in live \ {Top.self} : Same(h[x], heap[x])
  BY <1>1, ZeroTargetOK DEF Same
<1> HIDE DEF h
<1>6. Top.path \notin Kept /\ Top.self \notin live'
  BY <1>1, <1>3
<1>7. live' \subseteq live /\ live \ {Top.self} \subseteq live' /\ Top.pc # "lstat"
  BY <1>1
<1>8. QED BY <1>1, <1>4, <1>5, <1>6, <1>7, ReturnAsIs

LEMMA EndDirAsIs ==
  ASSUME IInv, SInv, AsIs, EndDir PROVE AsIs'
<1> SUFFICES ASSUME changes' = 0 PROVE CallsAsIs' /\ LiveAsIs' /\ NoneMissed'
  BY DEF AsIs
<1>1. frames # <<>> /\ Top.pc = "readdir" /\ Top.self \in live
      /\ Return(Top.self, heap) /\ live' = live /\ fs' = fs
      /\ heap \in [Addr -> Target] /\ CallsAsIs /\ LiveAsIs /\ NoneMissed
  BY RunningShape
     DEF EndDir, Running, IInv, RoutineTypeOK, FsTargetTypeOK, AsIs, fsVars
<1>2. /\ Top.path \in Kept /\ Noted(Top.self) /\ Top.entries = Entries(Top.path)
      /\ heap[Top.self].path = Top.path
  <2>1. /\ Len(frames) \in DOMAIN frames /\ Top = frames[Len(frames)]
        /\ Top.self # NULL
    BY <1>1, CallShape, AddrLive DEF IInv, RoutineTypeOK
  <2>2. QED BY <1>1, <2>1 DEF CallsAsIs, CallAsIs, SInv, CallsOK
<1>3. ASSUME NEW q \in Kept, Ahead(q, Top) PROVE FALSE
  <2>1. Under(q, Top.path) /\ Branch(q, Top.path) \notin Top.seen
    BY <1>1, <1>3 DEF Ahead
  <2>2. Branch(q, Top.path) \in Entries(Top.path)
    BY <1>1, <2>1, TopAbove, KeptUp
  <2>3. Branch(q, Top.path) \in NextEntries(Top)
    BY <2>1, <2>2 DEF NextEntries
  <2>4. Branch(q, Top.path) \in Top.entries /\ Exists(Branch(q, Top.path))
    BY <1>2, <2>2 DEF Entries
  <2>5. QED BY <2>3, <2>4 DEF EndDir
<1>4. \A x \in live \ {Top.self} : Same(heap[x], heap[x])
  BY DEF Same
<1>5. LET st == fs[Top.path]
      IN  /\ heap[Top.self].type = FiletypeOf(st)
          /\ Len(heap[Top.self].events) = 1
          /\ heap[Top.self].events[1].st = st
  BY <1>2 DEF Noted
<1>6. live' \subseteq live /\ live \ {Top.self} \subseteq live' /\ Top.pc # "lstat"
  BY <1>1
<1>7. QED BY <1>1, <1>2, <1>3, <1>4, <1>5, <1>6, ReturnAsIs

\* The innermost call goes on, and has no fewer files ahead or a target for
\* them.
LEMMA SetTopAsIs ==
  ASSUME IInv, SInv, CallsAsIs, LiveAsIs, NoneMissed,
         frames # <<>>, fs' = fs,
         NEW f \in Frame, frames' = SetTop(f),
         live' = live \cup {f.self}, f.self \in Addr,
         f.self \notin live \/ f.self = Top.self,
         Top.self = NULL \/ f.self = Top.self,
         \A x \in live \ {f.self} : Same(heap'[x], heap[x]),
         f.self \in live => heap'[f.self].path = heap[f.self].path,
         CallAsIs(f)',
         \A q \in Kept : Ahead(q, Top) => Ahead(q, f) \/ heap'[f.self].path = q
  PROVE  CallsAsIs' /\ LiveAsIs' /\ NoneMissed'
<1>1. /\ Len(frames) \in Nat \ {0} /\ Len(frames) \in DOMAIN frames
      /\ DOMAIN frames = Callers \cup {Len(frames)}
      /\ Callers = 1..(Len(frames) - 1) /\ Callers \subseteq DOMAIN frames
      /\ Top = frames[Len(frames)] /\ DOMAIN frames = 1..Len(frames)
      /\ FsTargetTypeOK
  BY CallShape DEF IInv, RoutineTypeOK
<1>2. DOMAIN frames' = DOMAIN frames /\ frames'[Len(frames)] = f
      /\ \A n \in Callers : frames'[n] = frames[n]
  BY <1>1, SetTopShape DEF Callers
<1>3. live \subseteq Addr /\ NULL \notin live
  BY <1>1, AddrLive
<1>4. \A n \in Callers : /\ frames[n].pc = "readdir" /\ frames[n].self \in live
                         /\ frames[n].self # f.self
  <2>1. Top.self # NULL => Top.pc # "lstat"
    BY DEF IInv, FramesOK
  <2>2. QED BY <1>3, <2>1 DEF IInv, FramesOK
<1>5. Kept' = Kept
  BY SameFiles
<1>6. CallsAsIs'
  <2>1. ASSUME NEW n \in Callers PROVE CallAsIs(frames[n])'
    <3>1. PICK g : g = frames[n]
      OBVIOUS
    <3>2. frames'[n] = g /\ CallAsIs(g) /\ g.self \in live \ {f.self}
      BY <1>1, <1>2, <1>4, <3>1 DEF CallsAsIs
    <3>3. CallAsIs(g)'
      BY <3>2, CallKept
    <3>4. QED BY <3>2, <3>3
  <2>2. PICK m \in DOMAIN frames : m = Len(frames)
    BY <1>1
  <2>3. CallAsIs(frames[m])'
    BY <1>2, <2>2
  <2>4. QED BY <1>1, <1>2, <2>1, <2>2, <2>3 DEF CallsAsIs
<1>7. LiveAsIs'
  <2> SUFFICES ASSUME NEW x \in live'
               PROVE  \/ \E n \in DOMAIN frames' : frames'[n].self = x
                      \/ heap'[x].path \in Kept /\ Noted(x)'
    BY <1>5 DEF LiveAsIs
  <2>1. CASE x = f.self
    BY <1>1, <1>2, <2>1
  <2>2. ASSUME NEW n \in Callers, frames[n].self = x
        PROVE  \E m \in DOMAIN frames' : frames'[m].self = x
    BY <1>1, <1>2, <2>2
  <2>3. CASE x # f.self /\ heap[x].path \in Kept /\ Noted(x)
    <3>1. x \in live \ {f.self}
      BY <2>3
    <3>2. Noted(x)' /\ heap'[x].path = heap[x].path
      BY <2>3, <3>1, NotedKept DEF Same
    <3>3. QED BY <2>3, <3>2
  <2>4. x # f.self => x \in live /\ x # Top.self
    BY <1>3
  <2>5. QED BY <1>1, <2>1, <2>2, <2>3, <2>4 DEF LiveAsIs
<1>8. NoneMissed'
  <2> SUFFICES ASSUME NEW q \in Kept
               PROVE  \/ \E x \in live' : heap'[x].path = q
                      \/ \E n \in DOMAIN frames' : Ahead(q, frames[n])'
    BY <1>5 DEF NoneMissed
  <2>1. ASSUME NEW x \in live, heap[x].path = q
        PROVE  \E y \in live' : heap'[y].path = q
    <3>1. heap'[x].path = heap[x].path
      BY DEF Same
    <3>2. QED BY <2>1, <3>1
  <2>2. ASSUME NEW n \in Callers, Ahead(q, frames[n])
        PROVE  \E m \in DOMAIN frames' : Ahead(q, frames[m])'
    BY <1>1, <1>2, <2>2 DEF Ahead, Under, Branch
  <2>3. CASE Ahead(q, f)
    <3>1. PICK m \in DOMAIN frames : frames'[m] = f
      BY <1>1, <1>2
    <3>2. m \in DOMAIN frames' /\ Ahead(q, frames[m])'
      BY <1>2, <2>3, <3>1 DEF Ahead, Under, Branch
    <3>3. QED BY <3>2
  <2>4. CASE heap'[f.self].path = q
    BY <2>4
  <2>5. QED BY <1>1, <2>1, <2>2, <2>3, <2>4 DEF NoneMissed
<1>9. QED BY <1>6, <1>7, <1>8

LEMMA CreateLstatAsIs ==
  ASSUME IInv, SInv, AsIs, CreateLstat PROVE AsIs'
<1> SUFFICES ASSUME changes' = 0 PROVE CallsAsIs' /\ LiveAsIs' /\ NoneMissed'
  BY DEF AsIs
<1>1. PICK a \in Malloc :
        /\ heap'   = [heap EXCEPT ![a] = SetInfo(Top.path, Lstat(Top.path).st)]
        /\ live'   = live \cup {a}
        /\ frames' = SetTop([Top EXCEPT !.pc = "event_init", !.self = a])
  BY DEF CreateLstat
<1>2. /\ frames # <<>> /\ Top.pc = "lstat" /\ Top.self = NULL
      /\ FsTargetTypeOK /\ fs' = fs /\ CallsAsIs /\ LiveAsIs /\ NoneMissed
  BY RunningShape DEF CreateLstat, Running, IInv, RoutineTypeOK, AsIs, fsVars
<1>3. /\ a \in Addr /\ a \notin live
  BY <1>2, MaxTargetsAssumption DEF Malloc, FsTargetTypeOK, Addr
<1>4. Top \in Frame /\ Top.path \in Paths /\ Top.seen = {}
  BY <1>2, CallShape, FramesShape DEF Frame, CallsAsIs, CallAsIs
<1>5. PICK f \in Frame :
        /\ f.pc = "event_init" /\ f.self = a
        /\ f.path = Top.path /\ f.seen = {} /\ frames' = SetTop(f)
  <2>1. [Top EXCEPT !.pc = "event_init", !.self = a] \in Frame
    BY <1>3, <1>4 DEF Frame
  <2>2. QED BY <1>1, <1>4, <2>1 DEF Frame
<1>6. heap'[a] = SetInfo(Top.path, Lstat(Top.path).st)
      /\ \A x \in live : heap'[x] = heap[x]
  BY <1>1, <1>2, <1>3, AddrLive DEF FsTargetTypeOK
<1>7. CallAsIs(f)'
  <2>1. heap'[a].type = FiletypeOf(Lstat(f.path).st)
    BY <1>5, <1>6 DEF SetInfo
  <2>2. Lstat(f.path)' = Lstat(f.path)
    BY <1>2, SameFiles
  <2>3. QED BY <1>5, <2>1, <2>2 DEF CallAsIs, FiletypeOf
<1>8. \A q : Ahead(q, Top) => Ahead(q, f)
  BY <1>2, <1>5 DEF Ahead
<1>9. \A x \in live \ {f.self} : Same(heap'[x], heap[x])
  BY <1>6 DEF Same
<1>10. live' = live \cup {f.self} /\ f.self \in Addr /\ f.self \notin live
  BY <1>1, <1>3, <1>5
<1>11. QED BY <1>2, <1>5, <1>7, <1>8, <1>9, <1>10, SetTopAsIs

LEMMA OpenDirAsIs ==
  ASSUME IInv, SInv, AsIs, OpenDir PROVE AsIs'
<1> SUFFICES ASSUME changes' = 0 PROVE CallsAsIs' /\ LiveAsIs' /\ NoneMissed'
  BY DEF AsIs
<1>1. /\ frames # <<>> /\ Top.pc = "opendir" /\ FsTargetTypeOK
      /\ Top.self \in live /\ Top.self \in Addr
      /\ fs' = fs /\ CallsAsIs /\ LiveAsIs /\ NoneMissed
      /\ CanOpenDir(Top.path)
  BY RunningShape DEF OpenDir, Running, IInv, RoutineTypeOK, AsIs, fsVars
<1>2. PICK f \in Frame :
        /\ f.pc = "readdir" /\ f.self = Top.self /\ f.path = Top.path
        /\ f.seen = Top.seen /\ f.entries = Entries(Top.path)
        /\ frames' = SetTop(f)
  <2> DEFINE f == [Top EXCEPT !.pc = "readdir", !.entries = Entries(Top.path)]
  <2>1. /\ f \in Frame /\ f.pc = "readdir" /\ f.self = Top.self
        /\ f.path = Top.path /\ f.seen = Top.seen
        /\ f.entries = Entries(Top.path)
    BY <1>1, FramesShape DEF Frame, Entries
  <2>2. frames' = SetTop(f)
    BY DEF OpenDir
  <2> HIDE DEF f
  <2>3. QED BY <2>1, <2>2
<1>3. heap' = heap /\ live' = live
  BY DEF OpenDir, heapVars
<1>4. /\ Len(frames) \in DOMAIN frames /\ Top = frames[Len(frames)]
      /\ Top.self # NULL
  BY <1>1, CallShape, AddrLive
<1>5. /\ Top.seen = {} /\ Noted(Top.self) /\ Lstat(Top.path).err = "OK"
      /\ heap[Top.self].path = Top.path
  BY <1>1, <1>4 DEF CallsAsIs, CallAsIs, SInv, CallsOK
<1>6. Top.path \in Kept
  BY <1>1, <1>5, TopKept DEF SInv
<1>7. CallAsIs(f)'
  <2>1. /\ Kept' = Kept /\ Entries(f.path)' = Entries(f.path)
    BY <1>1, SameFiles
  <2>2. Noted(f.self)'
    BY <1>1, <1>2, <1>3, <1>5 DEF Noted, FiletypeOf
  <2>3. QED BY <1>2, <1>6, <2>1, <2>2 DEF CallAsIs
<1>8. \A q \in Kept : Ahead(q, Top) => Ahead(q, f) \/ heap'[f.self].path = q
  BY <1>1, <1>2, <1>3, <1>5 DEF Ahead
<1>9. \A x \in live \ {f.self} : Same(heap'[x], heap[x])
  BY <1>3 DEF Same
<1>10. live' = live \cup {f.self} /\ f.self \in Addr /\ f.self = Top.self
       /\ heap'[f.self].path = heap[f.self].path
  BY <1>1, <1>2, <1>3
<1>11. QED BY <1>1, <1>2, <1>3, <1>7, <1>8, <1>9, <1>10, SetTopAsIs

LEMMA EventInitAsIs ==
  ASSUME IInv, SInv, AsIs, EventInit PROVE AsIs'
<1> SUFFICES ASSUME changes' = 0 PROVE CallsAsIs' /\ LiveAsIs' /\ NoneMissed'
  BY DEF AsIs
<1> DEFINE e == AckEvent(Lstat(Top.path).st)
           t == [heap[Top.self] EXCEPT !.events = Append(@, e)]
           h == [heap EXCEPT ![Top.self] = t]
<1>1. /\ frames # <<>> /\ Top.pc = "event_init" /\ FsTargetTypeOK
      /\ Top.self \in live /\ Top.self \in Addr
      /\ heap[Top.self].events = <<>> /\ Top \in Frame
      /\ fs' = fs /\ CallsAsIs /\ LiveAsIs /\ NoneMissed
      /\ Lstat(Top.path).err = "OK"
  BY RunningShape, FramesShape
     DEF EventInit, Running, IInv, RoutineTypeOK, AsIs, fsVars
<1>2. live' = live
      /\ IF t.type = "directory"
         THEN heap' = h /\ frames' = SetTop([Top EXCEPT !.pc = "opendir"])
         ELSE Return(Top.self, h)
  BY DEF EventInit
<1>3. Top.path \in Paths /\ Lstat(Top.path).st = fs[Top.path] /\ Exists(Top.path)
  <2>1. Top.path \in Paths /\ Top.path \in Seq(STRING) /\ Len(Top.path) \in Nat \ {0}
    BY <1>1, PathShape DEF Frame
  <2>2. Len(Top.path) \in 1..Len(Top.path)
        /\ SubSeq(Top.path, 1, Len(Top.path)) = Top.path
    BY <2>1, SubSeqFull
  <2>3. QED BY <1>1, <2>1, <2>2, LstatUp
<1>4. /\ Len(frames) \in DOMAIN frames /\ Top = frames[Len(frames)]
      /\ Top.self # NULL
  BY <1>1, CallShape, AddrLive
<1>5. /\ Top.seen = {} /\ heap[Top.self].type = FiletypeOf(fs[Top.path])
      /\ heap[Top.self].path = Top.path
  BY <1>1, <1>3, <1>4 DEF CallsAsIs, CallAsIs, SInv, CallsOK
<1>6. e \in Event /\ e.st = fs[Top.path]
  <2>1. Lstat(Top.path).st \in Stats
    BY <1>1, LstatOK DEF FsTargetTypeOK
  <2>2. QED BY <1>3, <2>1 DEF AckEvent, Event, Masks, Buffers
<1> HIDE DEF e
<1>7. /\ t \in Target /\ t.path = Top.path /\ t.type = FiletypeOf(fs[Top.path])
      /\ t.events = <<e>>
  <2>1. heap[Top.self] \in Target
    BY <1>1 DEF FsTargetTypeOK
  <2>2. Append(heap[Top.self].events, e) = <<e>> /\ <<e>> \in Seq(Event)
    BY <1>1, <1>6
  <2>3. QED BY <1>5, <2>1, <2>2 DEF Target
<1>8. Len(t.events) = 1 /\ t.events[1].st = fs[Top.path]
  <2>1. Len(<<e>>) = 1 /\ <<e>>[1] = e
    OBVIOUS
  <2>2. QED BY <1>6, <1>7, <2>1
<1> HIDE DEF t
<1>9. /\ h \in [Addr -> Target] /\ h[Top.self] = t
      /\ \A x \in live \ {Top.self} : Same(h[x], heap[x])
  BY <1>1, <1>7, AddrLive DEF FsTargetTypeOK, Same
<1> HIDE DEF h
<1>10. IsDir(Top.path) <=> t.type = "directory"
  BY <1>3, <1>7 DEF IsDir, FiletypeOf
<1>11. CASE t.type = "directory"
  <2>0. heap' = h
    BY <1>2, <1>11
  <2>1. PICK f \in Frame :
          /\ f.pc = "opendir" /\ f.self = Top.self /\ f.path = Top.path
          /\ f.seen = Top.seen /\ frames' = SetTop(f)
    <3>1. [Top EXCEPT !.pc = "opendir"] \in Frame
      BY <1>1 DEF Frame
    <3>2. QED BY <1>1, <1>2, <1>11, <3>1 DEF Frame
  <2>2. CallAsIs(f)'
    <3>1. Lstat(f.path)' = Lstat(f.path) /\ IsDir(f.path)' = IsDir(f.path)
      BY <1>1, SameFiles
    <3>2. Noted(f.self)'
      BY <1>1, <1>7, <1>8, <1>9, <2>0, <2>1 DEF Noted, FiletypeOf
    <3>3. QED BY <1>1, <1>5, <1>10, <1>11, <2>1, <3>1, <3>2 DEF CallAsIs
  <2>3. \A q \in Kept : Ahead(q, Top) => Ahead(q, f)
    BY <1>1, <2>1 DEF Ahead
  <2>4. /\ live' = live \cup {f.self} /\ f.self \in Addr /\ f.self = Top.self
        /\ heap'[f.self].path = heap[f.self].path
        /\ \A x \in live \ {f.self} : Same(heap'[x], heap[x])
    BY <1>1, <1>2, <1>5, <1>7, <1>9, <2>0, <2>1
  <2>5. QED BY <1>1, <2>1, <2>2, <2>3, <2>4, SetTopAsIs
<1>12. CASE t.type # "directory"
  <2>1. Return(Top.self, h)
    BY <1>2, <1>12
  <2>2. Top.path \in Kept
    BY <1>1, <1>10, <1>12, TopKept DEF SInv
  <2>3. ASSUME NEW q \in Kept, Ahead(q, Top) PROVE q = Top.path
    <3>1. ~Under(q, Top.path)
      BY <1>1, <1>10, <1>12, TopAbove, KeptUp
    <3>2. QED BY <1>1, <2>3, <3>1 DEF Ahead
  <2>4. LET st == fs[Top.path]
        IN  /\ h[Top.self].type = FiletypeOf(st)
            /\ Len(h[Top.self].events) = 1 /\ h[Top.self].events[1].st = st
    BY <1>7, <1>8, <1>9
  <2>5. h[Top.self].path = Top.path /\ live' \subseteq live
        /\ live \ {Top.self} \subseteq live' /\ Top.self \in live'
        /\ Top.pc # "lstat"
    BY <1>1, <1>2, <1>7, <1>9
  <2>6. QED BY <1>1, <1>9, <2>1, <2>2, <2>3, <2>4, <2>5, ReturnAsIs
<1>13. QED BY <1>11, <1>12

\* What is below a directory is at or below the entry on its branch.
LEMMA BelowBranch ==
  ASSUME NEW r \in Paths, NEW p \in Paths, Under(r, p)
  PROVE  r = Branch(r, p) \/ Under(r, Branch(r, p))
<1> DEFINE n == Len(p) + 1
           b == SubSeq(r, 1, n)
<1>1. /\ r \in Seq(STRING) /\ Len(r) \in Nat \ {0} /\ Len(p) \in Nat \ {0}
      /\ Len(p) < Len(r)
  BY PathShape DEF Under
<1>2. n \in 0..Len(r) /\ n <= Len(r)
  BY <1>1
<1>3. Len(b) = n
  BY <1>1, <1>2, PrefixOf
<1>4. CASE n = Len(r)
  <2>1. b = r
    BY <1>1, <1>4, SubSeqFull
  <2>2. QED BY <2>1 DEF Branch
<1>5. CASE n # Len(r)
  <2>1. Len(b) < Len(r)
    BY <1>1, <1>2, <1>3, <1>5
  <2>2. SubSeq(r, 1, Len(b)) = b
    BY <1>3
  <2> HIDE DEF n
  <2>3. Under(r, b)
    BY <2>1, <2>2 DEF Under
  <2>4. QED BY <2>3 DEF Branch, n
<1>6. QED BY <1>4, <1>5

LEMMA ReadDirAsIs ==
  ASSUME IInv, SInv, AsIs, ReadDir PROVE AsIs'
<1> SUFFICES ASSUME changes' = 0 PROVE CallsAsIs' /\ LiveAsIs' /\ NoneMissed'
  BY DEF AsIs
<1>1. PICK q \in NextEntries(Top) :
        frames' = Append(SetTop([Top EXCEPT !.seen = @ \cup {q}]), NewFrame(q))
  BY DEF ReadDir
<1>2. /\ frames # <<>> /\ Top.pc = "readdir" /\ FsTargetTypeOK
      /\ heap' = heap /\ live' = live /\ fs' = fs
      /\ CallsAsIs /\ LiveAsIs /\ NoneMissed
  BY RunningShape
     DEF ReadDir, Running, IInv, RoutineTypeOK, AsIs, fsVars, heapVars
<1>3. /\ Len(frames) \in Nat \ {0} /\ Len(frames) \in DOMAIN frames
      /\ DOMAIN frames = Callers \cup {Len(frames)}
      /\ Callers \subseteq DOMAIN frames /\ Callers = 1..(Len(frames) - 1)
      /\ DOMAIN frames = 1..Len(frames)
      /\ Top = frames[Len(frames)] /\ Top \in Frame
  BY <1>2, CallShape, FramesShape
<1>4. q \in Paths /\ Top.path \in Paths
  <2>1. Top.path \in Paths /\ Top.entries \subseteq Paths
    BY <1>3 DEF Frame
  <2>2. QED BY <2>1 DEF NextEntries, Entries
<1>5. PICK f \in Frame :
        /\ f.pc = "readdir" /\ f.path = Top.path /\ f.self = Top.self
        /\ f.entries = Top.entries /\ f.seen = Top.seen \cup {q}
        /\ frames' = Append(SetTop(f), NewFrame(q))
  <2>1. [Top EXCEPT !.seen = @ \cup {q}] \in Frame
    BY <1>3, <1>4 DEF Frame
  <2>2. QED BY <1>1, <1>2, <1>3, <2>1 DEF Frame
<1>6. PICK g \in Frame :
        /\ g = NewFrame(q) /\ g.pc = "lstat" /\ g.path = q /\ g.seen = {}
  <2>1. NewFrame(q) \in Frame
    BY <1>4 DEF NewFrame, Frame
  <2>2. /\ NewFrame(q).pc = "lstat" /\ NewFrame(q).path = q
        /\ NewFrame(q).seen = {}
    BY DEF NewFrame
  <2>3. QED BY <2>1, <2>2
<1>7. /\ DOMAIN frames' = DOMAIN frames \cup {Len(frames) + 1}
      /\ frames'[Len(frames)] = f /\ frames'[Len(frames) + 1] = g
      /\ \A n \in Callers : frames'[n] = frames[n]
  <2> DEFINE s == SetTop(f)
  <2>1. /\ s \in Seq(Frame) /\ Len(s) = Len(frames) /\ s[Len(frames)] = f
        /\ \A n \in Callers : s[n] = frames[n]
    BY <1>2, SetTopShape DEF Callers
  <2>2. frames' = Append(s, g)
    BY <1>5, <1>6
  <2> HIDE DEF s
  <2>3. /\ frames' \in Seq(Frame) /\ Len(frames') = Len(frames) + 1
        /\ frames'[Len(frames) + 1] = g
        /\ \A n \in 1..Len(frames) : frames'[n] = s[n]
    BY <2>1, <2>2, AppendProperties
  <2>4. DOMAIN frames' = 1..(Len(frames) + 1)
    BY <2>3, LenProperties
  <2>5. DOMAIN frames' = DOMAIN frames \cup {Len(frames) + 1}
    <3>1. \A n \in Nat : 1..(n + 1) = 1..n \cup {n + 1}
      OBVIOUS
    <3>2. DOMAIN frames = 1..Len(frames) /\ Len(frames) \in Nat
      BY <1>3
    <3>3. QED BY <2>4, <3>1, <3>2
  <2>6. \A n \in Callers : n \in 1..Len(frames)
    BY <1>3
  <2>7. frames'[Len(frames)] = f /\ \A n \in Callers : frames'[n] = frames[n]
    BY <1>3, <2>1, <2>3, <2>6
  <2>8. QED BY <2>3, <2>5, <2>7
<1>8. \A a : Same(heap'[a], heap[a])
  BY <1>2 DEF Same
<1>9. Kept' = Kept
  BY <1>2, SameFiles
<1>10. CallAsIs(f)' /\ CallAsIs(g)'
  <2>1. CallAsIs(Top)
    BY <1>2, <1>3 DEF CallsAsIs
  <2>2. CallAsIs(f)
    BY <1>2, <1>5, <2>1 DEF CallAsIs
  <2>3. CallAsIs(g)
    BY <1>6 DEF CallAsIs
  <2>4. QED BY <1>2, <1>8, <2>2, <2>3, CallKept
<1>11. CallsAsIs'
  <2>1. ASSUME NEW n \in Callers PROVE CallAsIs(frames[n])'
    <3>1. PICK c : c = frames[n]
      OBVIOUS
    <3>2. frames'[n] = c /\ CallAsIs(c)
      BY <1>2, <1>3, <1>7, <3>1 DEF CallsAsIs
    <3>3. CallAsIs(c)'
      BY <1>2, <1>8, <3>2, CallKept
    <3>4. QED BY <3>2, <3>3
  <2>2. ASSUME NEW n \in DOMAIN frames', n \notin Callers
        PROVE  CallAsIs(frames[n])'
    BY <1>3, <1>7, <1>10, <2>2
  <2>3. QED BY <2>1, <2>2 DEF CallsAsIs
<1>12. LiveAsIs'
  <2> SUFFICES ASSUME NEW x \in live
               PROVE  \/ \E n \in DOMAIN frames' : frames'[n].self = x
                      \/ heap'[x].path \in Kept /\ Noted(x)'
    BY <1>2, <1>9 DEF LiveAsIs
  <2>1. \A n \in DOMAIN frames : /\ n \in DOMAIN frames'
                                 /\ frames'[n].self = frames[n].self
    BY <1>3, <1>5, <1>7
  <2>2. Noted(x) => Noted(x)' /\ heap'[x].path = heap[x].path
    BY <1>2, <1>8, NotedKept
  <2>3. QED BY <1>2, <2>1, <2>2 DEF LiveAsIs
<1>13. NoneMissed'
  <2> SUFFICES ASSUME NEW r \in Kept
               PROVE  \/ \E x \in live' : heap'[x].path = r
                      \/ \E n \in DOMAIN frames' : Ahead(r, frames[n])'
    BY <1>9 DEF NoneMissed
  <2>1. CASE \E x \in live : heap[x].path = r
    BY <1>2, <2>1
  <2>2. ASSUME NEW n \in Callers, Ahead(r, frames[n])
        PROVE  \E m \in DOMAIN frames' : Ahead(r, frames[m])'
    <3>1. n \in DOMAIN frames' /\ frames'[n] = frames[n]
      BY <1>3, <1>7
    <3>2. QED BY <2>2, <3>1 DEF Ahead, Under, Branch
  <2>3. ASSUME Ahead(r, Top)
        PROVE  \E m \in DOMAIN frames' : Ahead(r, frames[m])'
    <3>1. Under(r, Top.path) /\ Branch(r, Top.path) \notin Top.seen
      BY <1>2, <2>3 DEF Ahead
    <3>2. CASE Branch(r, Top.path) = q
      <4>1. r \in Paths
        BY DEF Kept
      <4>2. r = q \/ Under(r, q)
        BY <1>4, <3>1, <3>2, <4>1, BelowBranch
      <4>3. Ahead(r, g)
        BY <1>6, <4>2 DEF Ahead
      <4>4. PICK m \in DOMAIN frames' : frames'[m] = g
        BY <1>7
      <4>5. QED BY <4>3, <4>4 DEF Ahead, Under, Branch
    <3>3. CASE Branch(r, Top.path) # q
      <4>1. Ahead(r, f)
        BY <1>5, <3>1, <3>3 DEF Ahead
      <4>2. PICK m \in DOMAIN frames' : frames'[m] = f
        BY <1>3, <1>7
      <4>3. QED BY <4>1, <4>2 DEF Ahead, Under, Branch
    <3>4. QED BY <3>2, <3>3
  <2>4. QED BY <1>2, <1>3, <2>1, <2>2, <2>3 DEF NoneMissed
<1>14. QED BY <1>11, <1>12, <1>13

\* From the call for Root on, as long as nobody changes the tree.
LEMMA AsIsInit == Init => AsIs
<1> SUFFICES ASSUME Init PROVE AsIs
  OBVIOUS
<1>1. frames = <<NewFrame(Root)>> /\ live = {}
  BY DEF Init, CreateInit, TargetInit
<1>2. DOMAIN frames = {1} /\ frames[1] = NewFrame(Root)
  BY <1>1
<1>3. /\ NewFrame(Root).path = Root /\ NewFrame(Root).pc = "lstat"
      /\ NewFrame(Root).seen = {}
  BY DEF NewFrame
<1>4. CallsAsIs
  BY <1>2, <1>3 DEF CallsAsIs, CallAsIs
<1>5. LiveAsIs
  BY <1>1 DEF LiveAsIs
<1>6. ASSUME NEW q \in Kept PROVE Ahead(q, frames[1])
  <2>1. q \in Paths /\ Len(q) >= Len(Root) /\ SubSeq(q, 1, Len(Root)) = Root
    BY DEF Kept
  <2>2. q \in Seq(STRING) /\ Len(q) \in Nat /\ Len(Root) \in Nat
    BY <2>1, PathShape, RootAssumption
  <2>3. q = Root \/ Under(q, Root)
    <3>1. CASE Len(q) = Len(Root)
      BY <2>1, <2>2, <3>1, SubSeqFull
    <3>2. CASE Len(q) # Len(Root)
      BY <2>1, <2>2, <3>2 DEF Under
    <3>3. QED BY <3>1, <3>2
  <2>4. QED BY <1>2, <1>3, <2>3 DEF Ahead
<1>7. QED BY <1>2, <1>4, <1>5, <1>6 DEF AsIs, NoneMissed

LEMMA AsIsKept ==
  ASSUME IInv, SInv, AsIs, [CreateNext]_<<fsVars, targetVars>>
  PROVE  AsIs'
<1>1. CASE Create
  BY <1>1, CreateLstatAsIs, EventInitAsIs, EventInitFailAsIs, OpenDirAsIs,
     OpenDirFailAsIs, ReadDirAsIs, EndDirAsIs DEF Create
<1>2. CASE OtherProcesses
  <2>1. changes' = changes + 1 /\ changes \in Nat
    BY <1>2, MaxChangesAssumption
       DEF OtherProcesses, FsChange, IInv, RoutineTypeOK, FsTargetTypeOK, FsTypeOK
  <2>2. changes' # 0
    BY <2>1
  <2>3. QED BY <2>2 DEF AsIs
<1>3. CASE UNCHANGED <<fsVars, targetVars>>
  <2>1. /\ fs' = fs /\ changes' = changes /\ heap' = heap /\ live' = live
        /\ frames' = frames
    BY <1>3 DEF fsVars, targetVars
  <2> SUFFICES ASSUME CallsAsIs, LiveAsIs, NoneMissed
               PROVE  CallsAsIs' /\ LiveAsIs' /\ NoneMissed'
    BY <2>1 DEF AsIs
  <2>2. Kept' = Kept
    BY <2>1, SameFiles
  <2>3. \A a : Same(heap'[a], heap[a])
    BY <2>1 DEF Same
  <2>4. CallsAsIs'
    BY <2>1, <2>3, CallKept DEF CallsAsIs
  <2>5. LiveAsIs'
    BY <2>1, <2>2 DEF LiveAsIs, Noted, FiletypeOf
  <2>6. NoneMissed'
    BY <2>1, <2>2 DEF NoneMissed, Ahead, Under, Branch
  <2>7. QED BY <2>4, <2>5, <2>6
<1>4. QED BY <1>1, <1>2, <1>3 DEF CreateNext

\* Distinct targets have distinct files: as many targets as files.
LEMMA OneForEach ==
  ASSUME IInv, PathsOnce, {heap[a].path : a \in live} = Kept
  PROVE  Cardinality(live) = Cardinality(Kept)
<1> DEFINE f == [a \in live |-> heap[a].path]
<1>1. f \in Bijection(live, Kept)
  <2>1. f \in [live -> Kept] /\ \A q \in Kept : \E a \in live : f[a] = q
    OBVIOUS
  <2>2. \A a, b \in live : f[a] = f[b] => a = b
    BY DEF PathsOnce
  <2> HIDE DEF f
  <2>3. QED BY <2>1, <2>2 DEF Bijection, Injection, Surjection, IsInjective
<1>2. IsFiniteSet(live)
  <2>1. live \in SUBSET (1..MaxTargets) /\ MaxTargets \in Int
    BY AddrLive, MaxTargetsAssumption DEF IInv, RoutineTypeOK, Addr
  <2>2. IsFiniteSet(1..MaxTargets)
    BY <2>1, FS_Interval
  <2>3. QED BY <2>1, <2>2, FS_Subset
<1>3. QED BY <1>1, <1>2, FS_Bijection DEF ExistsBijection

\* When the outermost call has returned, the invariant is completeness.
LEMMA AsIsComplete ==
  ASSUME IInv, SInv, AsIs PROVE SnapshotComplete
<1> SUFFICES ASSUME frames = <<>>, changes = 0 PROVE SnapshotComplete
  BY DEF SnapshotComplete
<1>1. DOMAIN frames = {}
  OBVIOUS
<1>2. \A a \in live : heap[a].path \in Kept /\ Noted(a)
  BY <1>1 DEF AsIs, LiveAsIs
<1>3. {heap[a].path : a \in live} = Kept
  BY <1>1, <1>2 DEF AsIs, NoneMissed
<1>4. Cardinality(live) = Cardinality(Kept)
  BY <1>3, OneForEach DEF SInv
<1> DEFINE Kids(a) == {c \in live : \E i \in DOMAIN heap[a].children :
                                      heap[a].children[i] = c}
<1>5. ASSUME NEW a \in live, unopened = {}
      PROVE  {heap[c].path : c \in Kids(a)} = Kept \cap Entries(heap[a].path)
  <2> DEFINE p == heap[a].path
  <2>1. p \in Kept /\ p \in Paths /\ Len(p) \in Nat \ {0} /\ Len(p) >= Len(Root)
        /\ Len(Root) \in Nat
    BY <1>2, PathShape, RootAssumption DEF Kept
  <2>2. ASSUME NEW c \in Kids(a) PROVE heap[c].path \in Kept \cap Entries(p)
    <3> DEFINE q == heap[c].path
    <3>1. Parent(q) = p
      BY <1>5 DEF SInv, TreeOK
    <3>2. q \in Kept /\ q \in Paths /\ Lstat(q).err = "OK"
      BY <1>2 DEF Kept
    <3>3. q \in Seq(STRING) /\ Len(q) \in Nat \ {0}
      BY <3>2, PathShape
    <3> HIDE DEF q, p
    <3>4. Len(q) = Len(p) + 1
      <4>1. Len(q) - 1 \in 0..Len(q)
        BY <3>3
      <4>2. Len(SubSeq(q, 1, Len(q) - 1)) = Len(q) - 1
        BY <3>3, <4>1, PrefixOf
      <4>3. QED BY <2>1, <3>1, <3>3, <4>2 DEF Parent
    <3>5. Exists(q)
      <4>1. Len(q) \in 1..Len(q) /\ SubSeq(q, 1, Len(q)) = q
        BY <3>3, SubSeqFull
      <4>2. QED BY <3>2, <4>1, LstatUp
    <3>6. q \in Entries(p)
      BY <3>1, <3>2, <3>4, <3>5 DEF Entries
    <3>7. QED BY <3>2, <3>6 DEF q
  <2>3. ASSUME NEW q \in Kept \cap Entries(p)
        PROVE  \E c \in Kids(a) : heap[c].path = q
    <3>1. PICK c \in live : heap[c].path = q
      BY <1>3
    <3>2. Len(q) = Len(p) + 1 /\ Parent(q) = p
      BY DEF Entries
    <3>3. result # c
      <4>1. result = c => q = Root
        BY <1>5, <3>1, AddrLive DEF SInv, TreeOK, IInv, RoutineTypeOK
      <4> HIDE DEF p
      <4>2. q # Root
        BY <2>1, <3>2
      <4>3. QED BY <4>1, <4>2
    <3>4. PICK d \in live : \E n \in DOMAIN heap[d].children :
            heap[d].children[n] = c
      BY <1>1, <3>3 DEF SInv, HeldOK, Held
    <3>5. heap[d].path = p
      BY <1>5, <3>1, <3>2, <3>4 DEF SInv, TreeOK
    <3>6. d = a
      BY <3>5 DEF SInv, PathsOnce
    <3>7. c \in Kids(a)
      BY <3>4, <3>6
    <3>8. QED BY <3>1, <3>7
  <2>4. QED BY <2>2, <2>3
<1>6. QED BY <1>2, <1>3, <1>4, <1>5 DEF SnapshotComplete, Noted
=============================================================================
