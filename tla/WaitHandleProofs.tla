-------------------------- MODULE WaitHandleProofs --------------------------
(***************************************************************************)
(* Proofs about wait handles, for any number of threads, mutexes and       *)
(* events.  The argument has two parts.  For any calls: an item is in a    *)
(* queue only while its call may still unregister it (QueuedOK), a mutex   *)
(* nobody owns has no queue (FreeOK), and the handles in whose queue a     *)
(* waiting thread is no more were acquired or counted (CountedOK).  For    *)
(* calls of ILWaitOne only: how often a thread owns a mutex is how often   *)
(* it was told, and one more while it waits or is about to be told         *)
(* (OwnedOK).  The second part needs its hypothesis: WaitAny.cfg and       *)
(* WaitAll.cfg show calls of the others that return without their mutex.   *)
(***************************************************************************)
EXTENDS WaitHandle, SequenceTheorems, FiniteSetTheorems, WellFoundedInduction, TLAPS

-----------------------------------------------------------------------------
(* The inductive invariant. *)

\* TypeOK, but for a release of what the caller was wrongly told to have.
TableTypes ==
  /\ table \in [Threads -> [Mutexes -> Nat]]
  /\ owned \in [Threads -> Int]
  /\ capacity \in [Threads -> {Capacity, GrownCapacity}]
USE DEF TableTypes, tableVars
HandleTypes ==
  /\ owner \in [Mutexes -> Threads \cup {NoThread}]
  /\ count \in [Mutexes -> Nat]
  /\ queue \in [Handles -> Seq(Threads)]
  /\ isSet \in [Events -> BOOLEAN]
  /\ TableTypes
WakeupTypes ==
  /\ wcount \in [Threads -> Nat]
  /\ limit \in [Threads -> Nat]
  /\ object \in [Threads -> Handles \cup {NoHandle}]
FlagTypes ==
  /\ interrupted \subseteq Threads
  /\ intr \subseteq Threads /\ abortReq \subseteq Threads
  /\ wsj \subseteq Threads /\ toWake \subseteq Threads
CallTypes ==
  /\ pc \in [Threads -> Control]
  /\ req \in [Threads -> Calls \cup {NoRequest}]
  /\ todo \in [Threads -> Seq(Handles)]
  /\ need \in [Threads -> Nat]
  /\ res \in [Threads -> Results]
  /\ hit \in [Threads -> Handles \cup {NoHandle}]
  /\ held \in [Threads -> [Mutexes -> Int]]
Types == HandleTypes /\ WakeupTypes /\ FlagTypes /\ CallTypes

Outside == {"idle", "dying", "dead"}
Looping == {"register", "undo", "unregister", "giveBack"}
Registering == {"register", "adjust", "sleep", "waiting"}

\* The number of handles of the call of t, and of those it has registered.
Total(t) == Len(req[t].handles)
Registered(t) == Total(t) - Len(todo[t])

\* The local variables of the call of t.
LocalOK(t) ==
  /\ pc[t] \notin Outside => req[t] \in Calls
  /\ pc[t] \in Looping => todo[t] # <<>>
  /\ pc[t] \in {"adjust", "sleep", "waiting"} => todo[t] = <<>>
  /\ pc[t] \in Registering => need[t] <= Size(t)
  /\ pc[t] \in {"register", "adjust"} => limit[t] = Size(t)
  /\ pc[t] = "register" =>
       /\ Len(todo[t]) <= Total(t)
       /\ \A i \in 1..Len(todo[t]) : todo[t][i] = req[t].handles[Registered(t) + i]
       /\ req[t].kind = "all" => need[t] >= Len(todo[t])

\* t may have an item in the queue of h.
MayQueue(t, h) ==
  \/ /\ pc[t] \in Registering
     /\ \E i \in 1..Registered(t) : req[t].handles[i] = h
  \/ /\ pc[t] \in {"undo", "unregister"}
     /\ \E i \in 1..Len(todo[t]) : todo[t][i] = h
QueuedOK(t) == \A h \in Handles : InQueue(t, h) => MayQueue(t, h)

\* The handles registered so far that t is not queued at.
Gone(t) == {i \in 1..Registered(t) : ~InQueue(t, req[t].handles[i])}
CountedOK(t) ==
  pc[t] \in Registering =>
    \/ t \in interrupted
    \/ wcount[t] >= limit[t]
    \/ Cardinality(Gone(t)) <= wcount[t] + Size(t) - need[t]

\* What holds of each thread, of each queue and of each mutex.
ThreadOK(t) == LocalOK(t) /\ QueuedOK(t) /\ CountedOK(t)
Once(q) == \A i, j \in 1..Len(q) : q[i] = q[j] => i = j
OnceOK == \A h \in Handles : Once(queue[h])
FreeOK == \A m \in Mutexes : owner[m] = NoThread => queue[m] = <<>>
WaitInv == Types /\ OnceOK /\ FreeOK /\ \A t \in Threads : ThreadOK(t)

-----------------------------------------------------------------------------
(* The invariant when every call is of ILWaitOne. *)

OnlyOne == \A c \in Calls : c.kind = "one"

Target(t) == req[t].handles[1]
\* t waits for m, or has got it and not returned yet.
Waits(t, m) == pc[t] \in {"sleep", "waiting", "unregister"} /\ Target(t) = m
Has(t, m) ==
  pc[t] \in {"leave", "leaveStore", "giveBack"} /\ res[t] = "ok" /\ Target(t) = m

OneOK(t) ==
  /\ pc[t] \notin {"undo", "adjust", "crashed"}
  /\ pc[t] \in Outside \cup {"enter", "setLimit", "register", "sleep", "waiting"} =>
       res[t] = "none" /\ hit[t] = NoHandle
  /\ pc[t] \notin Outside => hit[t] \in {NoHandle, Target(t)}
  /\ pc[t] \in Looping => todo[t] = req[t].handles
  /\ pc[t] = "giveBack" => res[t] = "ok"
  /\ pc[t] = "register" => wcount[t] = 0
  /\ pc[t] \in {"sleep", "waiting"} => limit[t] = 1

\* While the table of t is as it was allocated, m is in it k times; a step
\* keeps the entries of m there, or adds one.
Lists(t, m, k) == Fitted(t) => table[t][m] = k
SameEntry(t, m) == Fitted(t)' => Fitted(t) /\ table'[t][m] = table[t][m]
OneMoreEntry(t, m) == Fitted(t)' => Fitted(t) /\ table'[t][m] = table[t][m] + 1
SameEntries == \A u \in Threads, n \in Mutexes : SameEntry(u, n)
USE DEF Lists, SameEntry, OneMoreEntry, SameEntries

OwnedOK(t, m) ==
  /\ held[t][m] \in Nat
  /\ owner[m] = t => count[m] = IF Waits(t, m) \/ Has(t, m) THEN held[t][m] + 1
                                                            ELSE held[t][m]
  /\ owner[m] # t => held[t][m] = 0 /\ ~Has(t, m) /\ ~(Waits(t, m) /\ res[t] = "ok")
  /\ Waits(t, m) => held[t][m] = 0
  /\ Lists(t, m, IF owner[m] = t /\ ~Waits(t, m) THEN 1 ELSE 0)
  /\ pc[t] \in {"sleep", "waiting"} /\ Target(t) = m /\ wcount[t] > 0 => owner[m] = t

OwnInv ==
  /\ \A t \in Threads : OneOK(t)
  /\ \A t \in Threads, m \in Mutexes : OwnedOK(t, m)
OneInv == WaitInv /\ OwnInv

-----------------------------------------------------------------------------
(* Queues. *)

Occurs(u, q) == \E i \in 1..Len(q) : q[i] = u

\* A set of numbers has a least element.
LEMMA LeastElement ==
  ASSUME NEW S \in SUBSET Nat, S # {}
  PROVE  Min(S) \in S /\ \A i \in S : Min(S) <= i
<1> DEFINE R == OpToRel(<, Nat)
<1>1. IsWellFoundedOn(R, Nat)
  BY NatLessThanWellFounded
<1>2. PICK x \in S : \A y \in S : ~(<<y, x>> \in R)
  <2> HIDE DEF R
  <2> QED BY <1>1, WFMin
<1>3. ASSUME NEW y \in S PROVE x <= y
  <2>1. y \in Nat /\ x \in Nat
    OBVIOUS
  <2>2. ~(<<y, x>> \in {ss \in Nat \X Nat : ss[1] < ss[2]})
    BY <1>2 DEF OpToRel
  <2> QED BY <2>1, <2>2
<1> QED BY <1>3 DEF Min

\* The items of a concatenation.
LEMMA JoinOK ==
  ASSUME NEW T, NEW a \in Seq(T), NEW b \in Seq(T)
  PROVE  /\ a \o b \in Seq(T) /\ Len(a \o b) = Len(a) + Len(b)
         /\ \A i \in 1..Len(a) : (a \o b)[i] = a[i]
         /\ \A i \in 1..Len(b) : (a \o b)[Len(a) + i] = b[i]
<1>1. /\ a \o b \in Seq(T) /\ Len(a \o b) = Len(a) + Len(b)
      /\ \A i \in 1..(Len(a) + Len(b)) :
           (a \o b)[i] = IF i <= Len(a) THEN a[i] ELSE b[i - Len(a)]
  BY ConcatProperties
<1>2. Len(a) \in Nat /\ Len(b) \in Nat
  BY LenProperties
<1>3. ASSUME NEW i \in 1..Len(a) PROVE (a \o b)[i] = a[i]
  BY <1>1, <1>2
<1>4. ASSUME NEW i \in 1..Len(b) PROVE (a \o b)[Len(a) + i] = b[i]
  <2>1. Len(a) + i \in 1..(Len(a) + Len(b)) /\ ~(Len(a) + i <= Len(a))
    BY <1>2
  <2>2. (Len(a) + i) - Len(a) = i
    BY <1>2
  <2> QED BY <1>1, <2>1, <2>2
<1> QED BY <1>1, <1>3, <1>4

\* A sequence less its item at k, item by item ...
LEMMA RemoveAtItems ==
  ASSUME NEW T, NEW q \in Seq(T), NEW k \in 1..Len(q)
  PROVE  LET r == RemoveAt(q, k)
         IN  /\ r \in Seq(T) /\ Len(r) = Len(q) - 1
             /\ \A i \in 1..(k - 1) : r[i] = q[i]
             /\ \A i \in k..(Len(q) - 1) : r[i] = q[i + 1]
<1>0. Len(q) \in Nat /\ k \in Int
  BY LenProperties
<1>1. PICK a : a = SubSeq(q, 1, k - 1)
  OBVIOUS
<1>2. PICK b : b = SubSeq(q, k + 1, Len(q))
  OBVIOUS
<1>3. a \in Seq(T) /\ Len(a) = k - 1 /\ \A i \in 1..(k - 1) : a[i] = q[i]
  <2>1. CASE k = 1
    BY <1>1, <2>1, SubSeqEmpty, EmptySeq
  <2>2. CASE k > 1
    BY <1>0, <1>1, <2>2, SubSeqProperties
  <2> QED BY <1>0, <2>1, <2>2
<1>4. b \in Seq(T) /\ Len(b) = Len(q) - k /\ \A i \in 1..(Len(q) - k) : b[i] = q[k + i]
  <2>1. CASE k = Len(q)
    BY <1>2, <2>1, SubSeqEmpty, EmptySeq
  <2>2. CASE k < Len(q)
    BY <1>0, <1>2, <2>2, SubSeqProperties
  <2> QED BY <1>0, <2>1, <2>2
<1>5. PICK r : r = a \o b
  OBVIOUS
<1>6. RemoveAt(q, k) = r
  BY <1>1, <1>2, <1>5 DEF RemoveAt
<1>7. /\ r \in Seq(T) /\ Len(r) = Len(a) + Len(b)
      /\ \A i \in 1..Len(a) : r[i] = a[i]
      /\ \A i \in 1..Len(b) : r[Len(a) + i] = b[i]
  <2>1. a \in Seq(T) /\ b \in Seq(T)
    BY <1>3, <1>4
  <2>2. /\ a \o b \in Seq(T) /\ Len(a \o b) = Len(a) + Len(b)
        /\ \A i \in 1..Len(a) : (a \o b)[i] = a[i]
        /\ \A i \in 1..Len(b) : (a \o b)[Len(a) + i] = b[i]
    BY <2>1, JoinOK
  <2> QED BY <1>5, <2>2
<1>8. Len(r) = Len(q) - 1 /\ \A i \in 1..(k - 1) : r[i] = q[i]
  <2>1. Len(r) = (k - 1) + (Len(q) - k)
    BY <1>3, <1>4, <1>7
  <2>2. \A i \in 1..(k - 1) : r[i] = a[i]
    BY <1>3, <1>7
  <2> QED BY <1>0, <1>3, <2>1, <2>2
<1>9. ASSUME NEW i \in k..(Len(q) - 1) PROVE r[i] = q[i + 1]
  <2>1. PICK j \in 1..(Len(q) - k) : i = (k - 1) + j
    <3>1. i - (k - 1) \in 1..(Len(q) - k) /\ i = (k - 1) + (i - (k - 1))
      BY <1>0
    <3> QED BY <3>1
  <2>2. r[i] = b[j]
    BY <1>3, <1>4, <1>7, <2>1
  <2>3. b[j] = q[k + j] /\ k + j = i + 1
    BY <1>0, <1>4, <2>1
  <2> QED BY <2>2, <2>3
<1> QED BY <1>6, <1>7, <1>8, <1>9

\* ... and as a queue.
LEMMA RemoveAtOK ==
  ASSUME NEW T, NEW q \in Seq(T), NEW k \in 1..Len(q), Once(q)
  PROVE  /\ RemoveAt(q, k) \in Seq(T) /\ Once(RemoveAt(q, k))
         /\ \A u : Occurs(u, RemoveAt(q, k)) <=> Occurs(u, q) /\ u # q[k]
<1>0. Len(q) \in Nat /\ k \in Int
  BY LenProperties
<1>1. PICK r : r = RemoveAt(q, k)
  OBVIOUS
<1>4. r \in Seq(T) /\ Len(r) = Len(q) - 1
  BY <1>1, RemoveAtItems
<1>5. \A i \in 1..(k - 1) : r[i] = q[i]
  BY <1>1, RemoveAtItems
<1>6. \A i \in k..(Len(q) - 1) : r[i] = q[i + 1]
  BY <1>1, RemoveAtItems
<1>7. Once(r)
  <2> SUFFICES ASSUME NEW i \in 1..(Len(q) - 1), NEW j \in 1..(Len(q) - 1), r[i] = r[j]
               PROVE  i = j
    BY <1>4 DEF Once
  <2>1. CASE i < k /\ j < k
    BY <1>0, <1>5, <2>1 DEF Once
  <2>2. CASE i < k /\ j >= k
    BY <1>0, <1>5, <1>6, <2>2 DEF Once
  <2>3. CASE i >= k /\ j < k
    BY <1>0, <1>5, <1>6, <2>3 DEF Once
  <2>4. CASE i >= k /\ j >= k
    BY <1>0, <1>6, <2>4 DEF Once
  <2> QED BY <1>0, <2>1, <2>2, <2>3, <2>4
<1>8. ASSUME NEW u, Occurs(u, r) PROVE Occurs(u, q) /\ u # q[k]
  <2>1. PICK i \in 1..(Len(q) - 1) : r[i] = u
    BY <1>4, <1>8 DEF Occurs
  <2>2. CASE i < k
    BY <1>0, <1>5, <2>1, <2>2 DEF Occurs, Once
  <2>3. CASE i >= k
    <3>1. q[i + 1] = u /\ i + 1 \in 1..Len(q) /\ i + 1 # k
      BY <1>0, <1>6, <2>1, <2>3
    <3> QED BY <3>1 DEF Occurs, Once
  <2> QED BY <1>0, <2>2, <2>3
<1>9. ASSUME NEW u, Occurs(u, q), u # q[k] PROVE Occurs(u, r)
  <2>1. PICK i \in 1..Len(q) : q[i] = u
    BY <1>9 DEF Occurs
  <2>2. CASE i < k
    BY <1>0, <1>4, <1>5, <2>1, <2>2 DEF Occurs
  <2>3. CASE i > k
    <3>1. r[i - 1] = q[(i - 1) + 1] /\ i - 1 \in 1..(Len(q) - 1)
      BY <1>0, <1>6, <2>3
    <3>2. r[i - 1] = u
      BY <1>0, <2>1, <3>1
    <3> QED BY <1>4, <3>1, <3>2 DEF Occurs
  <2> QED BY <1>0, <1>9, <2>1, <2>2, <2>3
<1> QED BY <1>1, <1>4, <1>7, <1>8, <1>9

\* _ILWakeupQueueRemove takes t out and leaves the others in.
LEMMA WithoutOK ==
  ASSUME NEW T, NEW q \in Seq(T), NEW t, Once(q)
  PROVE  /\ Without(q, t) \in Seq(T) /\ Once(Without(q, t))
         /\ \A u : Occurs(u, Without(q, t)) <=> Occurs(u, q) /\ u # t
<1>1. CASE Occurs(t, q)
  <2> DEFINE I == {i \in 1..Len(q) : q[i] = t}
  <2>1. I \in SUBSET Nat /\ I # {}
    BY <1>1 DEF Occurs
  <2>2. Without(q, t) = RemoveAt(q, Min(I))
    BY <1>1 DEF Without, RemoveFirst, SelectInSeq, Occurs
  <2>3. PICK k : k = Min(I)
    OBVIOUS
  <2>4. k \in I
    <3> HIDE DEF I
    <3> QED BY <2>1, <2>3, LeastElement
  <2>5. k \in 1..Len(q) /\ q[k] = t
    BY <2>4
  <2>6. Without(q, t) = RemoveAt(q, k)
    BY <2>2, <2>3
  <2> HIDE DEF I
  <2> QED BY <2>5, <2>6, RemoveAtOK
<1>2. CASE ~Occurs(t, q)
  BY <1>2 DEF Without, RemoveFirst, Occurs
<1> QED BY <1>1, <1>2

\* What is left of a queue behind the item at k.
LEMMA SuffixOK ==
  ASSUME NEW T, NEW q \in Seq(T), NEW k \in 1..(Len(q) + 1), Once(q)
  PROVE  LET r == SubSeq(q, k + 1, Len(q))
         IN  /\ r \in Seq(T) /\ Once(r)
             /\ k >= Len(q) => r = <<>>
             /\ \A u : Occurs(u, r) <=> \E i \in (k + 1)..Len(q) : q[i] = u
<1> DEFINE r == SubSeq(q, k + 1, Len(q))
<1>0. Len(q) \in Nat /\ k \in Nat
  BY LenProperties
<1>1. CASE k >= Len(q)
  <2>1. r = <<>> /\ Len(r) = 0 /\ r \in Seq(T)
    BY <1>0, <1>1, SubSeqEmpty, EmptySeq
  <2> QED BY <1>0, <1>1, <2>1 DEF Once, Occurs
<1>2. CASE k < Len(q)
  <2>1. /\ r \in Seq(T) /\ Len(r) = Len(q) - k
        /\ \A i \in 1..(Len(q) - k) : r[i] = q[k + i]
    BY <1>0, <1>2, SubSeqProperties
  <2> HIDE DEF r
  <2>2. Once(r)
    <3> SUFFICES ASSUME NEW i \in 1..(Len(q) - k), NEW j \in 1..(Len(q) - k), r[i] = r[j]
                 PROVE  i = j
      BY <2>1 DEF Once
    <3>1. k + i = k + j
      BY <1>0, <2>1 DEF Once
    <3> QED BY <1>0, <3>1
  <2>3. ASSUME NEW u, Occurs(u, r) PROVE \E i \in (k + 1)..Len(q) : q[i] = u
    <3>1. PICK i \in 1..(Len(q) - k) : r[i] = u
      BY <2>1, <2>3 DEF Occurs
    <3>2. q[k + i] = u /\ k + i \in (k + 1)..Len(q)
      BY <1>0, <2>1, <3>1
    <3> QED BY <3>2
  <2>4. ASSUME NEW u, NEW i \in (k + 1)..Len(q), q[i] = u PROVE Occurs(u, r)
    <3>1. i - k \in 1..(Len(q) - k) /\ k + (i - k) = i
      BY <1>0
    <3>2. r[i - k] = u
      BY <2>1, <2>4, <3>1
    <3> QED BY <2>1, <3>1, <3>2 DEF Occurs
  <2>5. \A u : Occurs(u, r) <=> \E i \in (k + 1)..Len(q) : q[i] = u
    BY <2>3, <2>4
  <2>6. k >= Len(q) => r = <<>>
    BY <1>0, <1>2
  <2> QED BY <2>1, <2>2, <2>5, <2>6 DEF r
<1> QED BY <1>0, <1>1, <1>2

\* _ILWakeupQueueWake takes items up to the first that reaches its limit.
LEMMA WakeOK ==
  ASSUME NEW q \in Seq(Threads), Once(q)
  PROVE  /\ Left(q) \in Seq(Threads) /\ Once(Left(q))
         /\ Taken(q) \subseteq Threads
         /\ \A u : u \in Taken(q) => Occurs(u, q) /\ ~Occurs(u, Left(q))
         /\ \A u : u \notin Taken(q) => (Occurs(u, q) <=> Occurs(u, Left(q)))
         /\ Woken(q) \in Taken(q) \cup {NoThread}
         /\ Woken(q) = NoThread => Left(q) = <<>>
         /\ \A u \in Taken(q) : Reaches(u) <=> u = Woken(q)
<1>0. Len(q) \in Nat /\ \A i \in 1..Len(q) : q[i] \in Threads
  BY LenProperties, ElementOfSeq
<1>1. Ready(q) \in SUBSET Nat /\ Ready(q) = {i \in 1..Len(q) : Reaches(q[i])}
  BY <1>0, LenProperties DEF Ready
<1>2. PICK k : k = First(q)
  OBVIOUS
<1>3. /\ k \in 1..(Len(q) + 1)
      /\ \A i \in 1..Len(q) : i < k => ~Reaches(q[i])
      /\ k <= Len(q) => Reaches(q[k])
  <2>1. CASE Ready(q) = {}
    <3>1. k = Len(q) + 1
      BY <1>2, <2>1 DEF First
    <3>2. \A i \in 1..Len(q) : ~Reaches(q[i])
      BY <1>1, <2>1
    <3> QED BY <1>0, <3>1, <3>2
  <2>2. CASE Ready(q) # {}
    <3>1. k = Min(Ready(q))
      BY <1>2, <2>2 DEF First
    <3>2. k \in Ready(q) /\ \A i \in Ready(q) : k <= i
      BY <1>1, <2>2, <3>1, LeastElement
    <3>3. k \in 1..Len(q) /\ Reaches(q[k])
      BY <1>1, <3>2
    <3>4. ASSUME NEW i \in 1..Len(q), i < k PROVE ~Reaches(q[i])
      BY <1>0, <1>1, <3>2, <3>3, <3>4
    <3> QED BY <1>0, <3>3, <3>4
  <2> QED BY <2>1, <2>2
<1>4. Left(q) = SubSeq(q, k + 1, Len(q))
  BY <1>2 DEF Left
<1>5. /\ Left(q) \in Seq(Threads) /\ Once(Left(q))
      /\ k >= Len(q) => Left(q) = <<>>
      /\ \A u : Occurs(u, Left(q)) <=> \E i \in (k + 1)..Len(q) : q[i] = u
  <2>1. k \in 1..(Len(q) + 1)
    BY <1>3
  <2> QED BY <1>4, <2>1, SuffixOK
<1>6. \A u : u \in Taken(q) <=> \E i \in 1..Len(q) : i <= k /\ q[i] = u
  BY <1>2, LenProperties DEF Taken
<1>7. /\ k <= Len(q) => Woken(q) = q[k]
      /\ k = Len(q) + 1 => Woken(q) = NoThread
  BY <1>0, <1>2 DEF Woken
<1>8. Taken(q) \subseteq Threads
  BY <1>0, <1>6
<1>9. ASSUME NEW u, u \in Taken(q) PROVE Occurs(u, q) /\ ~Occurs(u, Left(q))
  <2>1. PICK i \in 1..Len(q) : i <= k /\ q[i] = u
    BY <1>6, <1>9
  <2>2. ASSUME NEW j \in (k + 1)..Len(q) PROVE q[j] # u
    BY <1>0, <1>3, <2>1 DEF Once
  <2> QED BY <1>5, <2>1, <2>2 DEF Occurs
<1>10. ASSUME NEW u, u \notin Taken(q) PROVE Occurs(u, q) <=> Occurs(u, Left(q))
  <2>1. ASSUME Occurs(u, q) PROVE Occurs(u, Left(q))
    <3>1. PICK i \in 1..Len(q) : q[i] = u
      BY <2>1 DEF Occurs
    <3>2. i \in (k + 1)..Len(q)
      BY <1>0, <1>3, <1>6, <1>10, <3>1
    <3> QED BY <1>5, <3>1, <3>2
  <2>2. ASSUME Occurs(u, Left(q)) PROVE Occurs(u, q)
    <3>1. PICK i \in (k + 1)..Len(q) : q[i] = u
      BY <1>5, <2>2
    <3> QED BY <1>0, <1>3, <3>1 DEF Occurs
  <2> QED BY <2>1, <2>2
<1>11. Woken(q) \in Taken(q) \cup {NoThread}
  <2>1. CASE k <= Len(q)
    BY <1>0, <1>3, <1>6, <1>7, <2>1
  <2>2. CASE k = Len(q) + 1
    BY <1>7, <2>2
  <2> QED BY <1>0, <1>3, <2>1, <2>2
<1>12. Woken(q) = NoThread => Left(q) = <<>>
  <2>1. CASE k <= Len(q)
    BY <1>0, <1>3, <1>7, <2>1, HandlesAssumption
  <2>2. CASE k = Len(q) + 1
    BY <1>0, <1>5, <2>2
  <2> QED BY <1>0, <1>3, <2>1, <2>2
<1>13. ASSUME NEW u \in Taken(q) PROVE Reaches(u) <=> u = Woken(q)
  <2>1. PICK i \in 1..Len(q) : i <= k /\ q[i] = u
    BY <1>6
  <2>2. CASE i < k
    <3>1. ~Reaches(u)
      BY <1>3, <2>1, <2>2
    <3>2. u # Woken(q)
      <4>1. CASE k <= Len(q)
        BY <1>0, <1>3, <1>7, <2>1, <2>2, <4>1 DEF Once
      <4>2. CASE k = Len(q) + 1
        BY <1>7, <1>8, <4>2, HandlesAssumption
      <4> QED BY <1>0, <1>3, <4>1, <4>2
    <3> QED BY <3>1, <3>2
  <2>3. CASE i = k
    BY <1>0, <1>3, <1>7, <2>1, <2>3
  <2> QED BY <1>0, <1>3, <2>1, <2>2, <2>3
<1> QED BY <1>5, <1>8, <1>9, <1>10, <1>11, <1>12, <1>13

\* Appending a thread that is not in the queue.
LEMMA AppendOK ==
  ASSUME NEW T, NEW q \in Seq(T), NEW t \in T, Once(q), ~Occurs(t, q)
  PROVE  /\ Append(q, t) \in Seq(T) /\ Once(Append(q, t))
         /\ \A u : Occurs(u, Append(q, t)) <=> Occurs(u, q) \/ u = t
<1>1. /\ Append(q, t) \in Seq(T) /\ Len(Append(q, t)) = Len(q) + 1
      /\ \A i \in 1..Len(q) : Append(q, t)[i] = q[i]
      /\ Append(q, t)[Len(q) + 1] = t
  BY AppendProperties
<1>2. PICK r : r = Append(q, t)
  OBVIOUS
<1>3. Len(q) \in Nat
  BY LenProperties
<1>4. \A i \in 1..Len(r) : i \in 1..Len(q) \/ i = Len(q) + 1
  BY <1>1, <1>2, <1>3
<1>5. Once(r)
  BY <1>1, <1>2, <1>3, <1>4 DEF Once, Occurs
<1>6. \A u : Occurs(u, r) <=> Occurs(u, q) \/ u = t
  BY <1>1, <1>2, <1>3, <1>4 DEF Occurs
<1> QED BY <1>1, <1>2, <1>5, <1>6

-----------------------------------------------------------------------------
(* What a step of another thread, or on an event, does to thread u. *)

\* u is where it was, and was not woken from an interrupt.
Rests(u) ==
  /\ pc'[u] = pc[u] /\ req'[u] = req[u] /\ todo'[u] = todo[u] /\ need'[u] = need[u]
  /\ res'[u] = res[u] /\ hit'[u] = hit[u]
  /\ u \in interrupted => u \in interrupted'

\* Its wakeup and its items are as they were, or its item at h was taken and
\* its wakeup signalled.
Untouched(u) ==
  /\ limit'[u] = limit[u] /\ wcount'[u] = wcount[u]
  /\ \A g \in Handles : InQueue(u, g)' <=> InQueue(u, g)
Signalled(u, h) ==
  /\ limit'[u] = limit[u]
  /\ wcount'[u] = IF Counts(u) THEN wcount[u] + 1 ELSE wcount[u]
  /\ InQueue(u, h) /\ ~InQueue(u, h)'
  /\ \A g \in Handles \ {h} : InQueue(u, g)' <=> InQueue(u, g)
Served(u) == Untouched(u) \/ \E h \in Handles : Signalled(u, h)

\* The handles of a call.
LEMMA CallFacts ==
  ASSUME NEW c \in Calls
  PROVE  /\ c.kind \in {"one", "any", "all"}
         /\ c.handles \in Seq(Handles) /\ c.handles # <<>>
         /\ Len(c.handles) \in Nat \ {0}
         /\ \A i \in 1..Len(c.handles) : c.handles[i] \in Handles
         /\ \A i, j \in 1..Len(c.handles) : c.handles[i] = c.handles[j] => i = j
         /\ c.kind = "one" => Len(c.handles) = 1
<1>1. c.handles \in Seq(Handles) /\ c.handles # <<>>
  BY CallsAssumption DEF Handles
<1>2. Len(c.handles) \in Nat /\ DOMAIN c.handles = 1..Len(c.handles)
  BY <1>1, LenProperties
<1>3. Len(c.handles) # 0
  BY <1>1, EmptySeq
<1>4. \A i \in 1..Len(c.handles) : c.handles[i] \in Handles
  BY <1>1, ElementOfSeq
<1>5. \A i, j \in DOMAIN c.handles : c.handles[i] = c.handles[j] => i = j
  BY CallsAssumption
<1>6. c.kind \in {"one", "any", "all"} /\ (c.kind = "one" => Len(c.handles) = 1)
  BY CallsAssumption
<1>7. \A i, j \in 1..Len(c.handles) : c.handles[i] = c.handles[j] => i = j
  BY <1>2, <1>5
<1> QED BY <1>1, <1>2, <1>3, <1>4, <1>6, <1>7

\* Being in a queue, by its items.
LEMMA InQueueIsOccurs ==
  ASSUME NEW Q \in [Handles -> Seq(Threads)], NEW h \in Handles, NEW t
  PROVE  (\E i \in DOMAIN Q[h] : Q[h][i] = t) <=> Occurs(t, Q[h])
<1>1. Q[h] \in Seq(Threads)
  OBVIOUS
<1>2. DOMAIN Q[h] = 1..Len(Q[h])
  BY <1>1, LenProperties
<1> QED BY <1>2 DEF Occurs

\* One index more makes a set of indexes larger by one at most.
LEMMA OneMore ==
  ASSUME NEW n \in Int, NEW S \in SUBSET (1..n), NEW k \in Int, NEW R,
         R \subseteq S \cup {k}
  PROVE  /\ IsFiniteSet(S) /\ Cardinality(S) \in Nat
         /\ IsFiniteSet(R) /\ Cardinality(R) \in Nat
         /\ Cardinality(R) <= Cardinality(S) + 1
<1>1. IsFiniteSet(S)
  <2>1. IsFiniteSet(1..n)
    BY FS_Interval
  <2> QED BY <2>1, FS_Subset
<1>2. Cardinality(S) \in Nat
  BY <1>1, FS_CardinalityType
<1>3. /\ IsFiniteSet(S \cup {k})
      /\ Cardinality(S \cup {k}) = IF k \in S THEN Cardinality(S) ELSE Cardinality(S) + 1
  BY <1>1, FS_AddElement
<1>4. IsFiniteSet(R) /\ Cardinality(R) <= Cardinality(S \cup {k})
  BY <1>3, FS_Subset
<1>5. Cardinality(R) \in Nat
  BY <1>4, FS_CardinalityType
<1> QED BY <1>1, <1>2, <1>3, <1>4, <1>5

\* The numbers a thread in a call counts with.
LEMMA CallNumbers ==
  ASSUME Types, NEW t \in Threads, LocalOK(t), pc[t] \notin Outside
  PROVE  /\ req[t] \in Calls
         /\ Total(t) \in Nat \ {0} /\ Size(t) \in Nat \ {0} /\ Size(t) <= Total(t)
         /\ Len(todo[t]) \in Nat /\ Registered(t) \in Int
         /\ need[t] \in Nat /\ wcount[t] \in Nat /\ limit[t] \in Nat
         /\ IsFiniteSet(Gone(t)) /\ Cardinality(Gone(t)) \in Nat
<1>1. req[t] \in Calls
  BY DEF LocalOK
<1>2. Total(t) \in Nat \ {0} /\ Size(t) \in Nat \ {0} /\ Size(t) <= Total(t)
  BY <1>1, CallFacts DEF Total, Size
<1>3. todo[t] \in Seq(Handles)
  BY DEF Types, CallTypes, WakeupTypes
<1>4. Len(todo[t]) \in Nat
  BY <1>3, LenProperties
<1>5. Registered(t) \in Int
  BY <1>2, <1>4 DEF Registered
<1>6. Gone(t) \subseteq 1..Registered(t)
  BY DEF Gone
<1>7. IsFiniteSet(Gone(t)) /\ Cardinality(Gone(t)) \in Nat
  BY <1>5, <1>6, OneMore
<1>8. need[t] \in Nat /\ wcount[t] \in Nat /\ limit[t] \in Nat
  BY DEF Types, CallTypes, WakeupTypes
<1> QED BY <1>1, <1>2, <1>4, <1>5, <1>7, <1>8

\* A thread keeps its part of the invariant while others take steps.
LEMMA RestsOK ==
  ASSUME Types, NEW u \in Threads, ThreadOK(u), Rests(u), Served(u)
  PROVE  ThreadOK(u)'
<1> USE DEF Rests
<1>0. limit'[u] = limit[u]
  BY DEF Served, Untouched, Signalled
<1>1. LocalOK(u)'
  <2>1. LocalOK(u)
    BY DEF ThreadOK
  <2> QED BY <1>0, <2>1 DEF LocalOK, Size, Total, Registered
<1>2. ASSUME NEW h \in Handles, InQueue(u, h)' PROVE InQueue(u, h)
  BY <1>2 DEF Served, Untouched, Signalled
<1>3. QueuedOK(u)'
  <2>1. QueuedOK(u)
    BY DEF ThreadOK
  <2>2. \A h \in Handles : MayQueue(u, h) => MayQueue(u, h)'
    BY DEF MayQueue, Registered, Total
  <2> QED BY <1>2, <2>1, <2>2 DEF QueuedOK
<1>4. CountedOK(u)'
  <2> SUFFICES ASSUME pc[u] \in Registering
               PROVE  \/ u \in interrupted'
                      \/ wcount'[u] >= limit'[u]
                      \/ Cardinality(Gone(u)') <= wcount'[u] + Size(u) - need[u]
    BY DEF CountedOK, Size
  <2>1. pc[u] \notin Outside /\ LocalOK(u)
    BY DEF Registering, Outside, ThreadOK
  <2>2. /\ req[u] \in Calls /\ Size(u) \in Nat /\ Registered(u) \in Int
        /\ Registered(u) <= Len(req[u].handles)
        /\ need[u] \in Nat /\ wcount[u] \in Nat /\ limit[u] \in Nat
        /\ Cardinality(Gone(u)) \in Nat
    <3>1. /\ req[u] \in Calls /\ Size(u) \in Nat /\ Registered(u) \in Int
          /\ Total(u) \in Nat /\ Len(todo[u]) \in Nat
          /\ need[u] \in Nat /\ wcount[u] \in Nat /\ limit[u] \in Nat
          /\ Cardinality(Gone(u)) \in Nat
      BY <2>1, CallNumbers
    <3>2. Registered(u) <= Total(u)
      BY <3>1 DEF Registered
    <3> QED BY <3>1, <3>2 DEF Total
  <2>3. \/ u \in interrupted
        \/ wcount[u] >= limit[u]
        \/ Cardinality(Gone(u)) <= wcount[u] + Size(u) - need[u]
    BY DEF ThreadOK, CountedOK
  <2>4. \A i \in 1..Registered(u) : req[u].handles[i] \in Handles
    BY <2>2, CallFacts
  <2>5. Gone(u)' = {i \in 1..Registered(u) : ~InQueue(u, req[u].handles[i])'}
    BY DEF Gone, Registered, Total, InQueue
  <2>6. CASE Untouched(u)
    <3>1. Gone(u)' = Gone(u)
      BY <2>4, <2>5, <2>6 DEF Untouched, Gone
    <3> QED BY <2>3, <2>6, <3>1 DEF Untouched
  <2>7. ASSUME NEW h \in Handles, Signalled(u, h)
        PROVE  \/ u \in interrupted'
               \/ wcount'[u] >= limit'[u]
               \/ Cardinality(Gone(u)') <= wcount'[u] + Size(u) - need[u]
    <3>1. PICK k \in Int : Gone(u)' \subseteq Gone(u) \cup {k}
      <4>1. CASE \E k \in 1..Registered(u) : req[u].handles[k] = h
        <5>1. PICK k \in 1..Registered(u) : req[u].handles[k] = h
          BY <4>1
        <5>2. ASSUME NEW i \in 1..Registered(u), i # k PROVE req[u].handles[i] # h
          BY <2>2, <5>1, <5>2, CallFacts
        <5>3. Gone(u)' \subseteq Gone(u) \cup {k}
          BY <2>4, <2>5, <2>7, <5>2 DEF Signalled, Gone
        <5> QED BY <2>2, <5>3
      <4>2. CASE ~\E k \in 1..Registered(u) : req[u].handles[k] = h
        <5>1. Gone(u)' \subseteq Gone(u) \cup {0}
          BY <2>4, <2>5, <2>7, <4>2 DEF Signalled, Gone
        <5> QED BY <5>1
      <4> QED BY <4>1, <4>2
    <3>2. Gone(u) \subseteq 1..Registered(u)
      BY DEF Gone
    <3>3. PICK R : R = Gone(u)'
      OBVIOUS
    <3>4. Cardinality(R) \in Nat /\ Cardinality(R) <= Cardinality(Gone(u)) + 1
      BY <2>2, <3>1, <3>2, <3>3, OneMore
    <3>5. CASE u \in interrupted
      BY <3>5
    <3>6. CASE u \notin interrupted /\ wcount[u] >= limit[u]
      BY <2>2, <2>7, <3>6 DEF Signalled, Counts
    <3>7. CASE u \notin interrupted /\ ~(wcount[u] >= limit[u])
      <4>1. wcount'[u] = wcount[u] + 1
        BY <2>2, <2>7, <3>7 DEF Signalled, Counts
      <4>2. Cardinality(Gone(u)) <= wcount[u] + Size(u) - need[u]
        BY <2>3, <3>7
      <4>3. Cardinality(R) <= (wcount[u] + 1) + Size(u) - need[u]
        BY <2>2, <3>4, <4>2
      <4> QED BY <3>3, <4>1, <4>3
    <3> QED BY <3>5, <3>6, <3>7
  <2> QED BY <2>6, <2>7 DEF Served
<1> QED BY <1>1, <1>3, <1>4 DEF ThreadOK

-----------------------------------------------------------------------------
(* What the operations on handles do. *)

\* The handles are in order.
HandleOK == HandleTypes /\ WakeupTypes /\ OnceOK /\ FreeOK

\* AddMutexToWakeup changes one entry while the table is as it was allocated.
LEMMA AddToTableOK ==
  ASSUME TableTypes, NEW t \in Threads, NEW m \in Mutexes, AddToTable(t, m)
  PROVE  /\ TableTypes'
         /\ OneMoreEntry(t, m)
         /\ \A u \in Threads, n \in Mutexes : u # t \/ n # m => SameEntry(u, n)
<1>1. CASE /\ table' = [table EXCEPT ![t][m] = @ + 1]
           /\ owned' = [owned EXCEPT ![t] = @ + 1]
           /\ UNCHANGED capacity
  <2>1. table' = [table EXCEPT ![t] = [table[t] EXCEPT ![m] = table[t][m] + 1]]
    BY <1>1
  <2>2. [table[t] EXCEPT ![m] = table[t][m] + 1] \in [Mutexes -> Nat]
    OBVIOUS
  <2>3. \A u \in Threads : Fitted(u)' <=> Fitted(u)
    BY <1>1 DEF Fitted
  <2>4. owned' \in [Threads -> Int]
    BY <1>1
  <2> QED BY <1>1, <2>1, <2>2, <2>3, <2>4
<1>2. CASE /\ Full(t) /\ owned[t] < GrownCapacity
           /\ table' = [table EXCEPT ![t] =
                          [x \in Mutexes |-> IF x = m THEN owned[t] + 1 ELSE 0]]
           /\ owned' = [owned EXCEPT ![t] = @ + 1]
           /\ capacity' = [capacity EXCEPT ![t] = GrownCapacity]
  <2>1. owned[t] + 1 \in Nat
    BY CallsAssumption, <1>2 DEF Full
  <2>2. [x \in Mutexes |-> IF x = m THEN owned[t] + 1 ELSE 0] \in [Mutexes -> Nat]
    BY <2>1
  <2>3. TableTypes'
    BY <1>2, <2>2
  <2>4. ~Fitted(t)'
    BY <1>2, CallsAssumption DEF Fitted
  <2>5. \A u \in Threads \ {t} : table'[u] = table[u] /\ (Fitted(u)' <=> Fitted(u))
    BY <1>2 DEF Fitted
  <2> QED BY <2>3, <2>4, <2>5
<1>3. CASE AllocFails /\ UNCHANGED tableVars
  BY <1>3 DEF Fitted
<1> QED BY <1>1, <1>2, <1>3 DEF AddToTable

\* A step that leaves the tables alone.
LEMMA TablesKept ==
  ASSUME UNCHANGED tableVars
  PROVE  SameEntries
BY DEF Fitted

\* RemoveMutexFromWakeup takes one entry, if there is one.
LEMMA RemoveFromTableOK ==
  ASSUME TableTypes, NEW t \in Threads, NEW m \in Mutexes, RemoveFromTable(t, m)
  PROVE  /\ TableTypes'
         /\ \A u \in Threads : Fitted(u)' <=> Fitted(u)
         /\ table[t][m] = 0 => table'[t][m] = 0
         /\ table[t][m] > 0 => table'[t][m] = table[t][m] - 1
         /\ \A u \in Threads, n \in Mutexes :
              u # t \/ n # m => table'[u][n] = table[u][n]
<1>1. CASE /\ table[t][m] > 0
           /\ table' = [table EXCEPT ![t][m] = @ - 1]
           /\ owned' = [owned EXCEPT ![t] = @ - 1]
           /\ UNCHANGED capacity
  <2>1. table' = [table EXCEPT ![t] = [table[t] EXCEPT ![m] = table[t][m] - 1]]
    BY <1>1
  <2>2. [table[t] EXCEPT ![m] = table[t][m] - 1] \in [Mutexes -> Nat]
    BY <1>1
  <2>3. owned' \in [Threads -> Int]
    BY <1>1
  <2> QED BY <1>1, <2>1, <2>2, <2>3 DEF Fitted
<1>2. CASE table[t][m] = 0 /\ UNCHANGED tableVars
  BY <1>2 DEF Fitted
<1> QED BY <1>1, <1>2 DEF RemoveFromTable

\* InQueue, by the items of the queue.
LEMMA QueueItems ==
  ASSUME HandleTypes, NEW h \in Handles
  PROVE  \A u : InQueue(u, h) <=> Occurs(u, queue[h])
<1>1. queue \in [Handles -> Seq(Threads)]
  BY DEF HandleTypes
<1> QED BY <1>1, InQueueIsOccurs DEF InQueue

\* The queue of h becomes r: the others stay.
LEMMA QueueBecomes ==
  ASSUME HandleTypes, OnceOK, NEW h \in Handles, NEW r \in Seq(Threads), Once(r),
         queue' = [queue EXCEPT ![h] = r]
  PROVE  /\ queue' \in [Handles -> Seq(Threads)]
         /\ OnceOK'
         /\ \A u, g : g \in Handles \ {h} => (InQueue(u, g)' <=> InQueue(u, g))
         /\ \A u : InQueue(u, h)' <=> Occurs(u, r)
         /\ \A u : InQueue(u, h) <=> Occurs(u, queue[h])
<1>1. queue \in [Handles -> Seq(Threads)]
  BY DEF HandleTypes
<1>2. queue' \in [Handles -> Seq(Threads)] /\ queue'[h] = r
  BY <1>1
<1>3. \A g \in Handles \ {h} : queue'[g] = queue[g]
  BY <1>1
<1>4. OnceOK'
  BY <1>2, <1>3 DEF OnceOK
<1>5. \A u, g : g \in Handles \ {h} => (InQueue(u, g)' <=> InQueue(u, g))
  BY <1>3 DEF InQueue
<1>6. \A u : InQueue(u, h)' <=> Occurs(u, r)
  BY <1>2, InQueueIsOccurs DEF InQueue
<1>7. \A u : InQueue(u, h) <=> Occurs(u, queue[h])
  BY QueueItems
<1> QED BY <1>2, <1>4, <1>5, <1>6, <1>7

\* A signal keeps the wakeups' types.
LEMMA SignalOK ==
  ASSUME WakeupTypes, NEW h \in Handles, NEW S, Signal(S, h)
  PROVE  /\ WakeupTypes'
         /\ \A u \in Threads : limit'[u] = limit[u]
         /\ \A u \in Threads \ S : wcount'[u] = wcount[u]
         /\ \A u \in Threads \cap S :
              wcount'[u] = IF Counts(u) THEN wcount[u] + 1 ELSE wcount[u]
<1> USE DEF Signal, WakeupTypes
<1>1. wcount' \in [Threads -> Nat]
  OBVIOUS
<1>2. object' \in [Threads -> Handles \cup {NoHandle}]
  OBVIOUS
<1> QED BY <1>1, <1>2

\* Waking from q, which is the queue of h or that less some thread.
LEMMA WakeServes ==
  ASSUME HandleTypes, WakeupTypes, OnceOK, NEW h \in Handles,
         NEW q \in Seq(Threads), Once(q),
         queue' = [queue EXCEPT ![h] = Left(q)], Signal(Taken(q), h)
  PROVE  /\ queue' \in [Handles -> Seq(Threads)] /\ OnceOK' /\ WakeupTypes'
         /\ \A u \in Threads : (Occurs(u, q) <=> InQueue(u, h)) => Served(u)
         /\ \A u \in Threads : ~Occurs(u, q) =>
              /\ ~InQueue(u, h)' /\ wcount'[u] = wcount[u] /\ limit'[u] = limit[u]
              /\ \A g \in Handles \ {h} : InQueue(u, g)' <=> InQueue(u, g)
<1>1. /\ Left(q) \in Seq(Threads) /\ Once(Left(q))
      /\ \A u : u \in Taken(q) => Occurs(u, q) /\ ~Occurs(u, Left(q))
      /\ \A u : u \notin Taken(q) => (Occurs(u, q) <=> Occurs(u, Left(q)))
  BY WakeOK
<1>2. /\ queue' \in [Handles -> Seq(Threads)] /\ OnceOK'
      /\ \A u, g : g \in Handles \ {h} => (InQueue(u, g)' <=> InQueue(u, g))
      /\ \A u : InQueue(u, h)' <=> Occurs(u, Left(q))
  BY <1>1, QueueBecomes
<1>3. /\ WakeupTypes'
      /\ \A u \in Threads : limit'[u] = limit[u]
      /\ \A u \in Threads \ Taken(q) : wcount'[u] = wcount[u]
      /\ \A u \in Threads \cap Taken(q) :
           wcount'[u] = IF Counts(u) THEN wcount[u] + 1 ELSE wcount[u]
  BY SignalOK
<1>4. ASSUME NEW u \in Threads, Occurs(u, q) <=> InQueue(u, h) PROVE Served(u)
  <2>1. CASE u \in Taken(q)
    <3>1. Signalled(u, h)
      BY <1>1, <1>2, <1>3, <1>4, <2>1 DEF Signalled
    <3> QED BY <3>1 DEF Served
  <2>2. CASE u \notin Taken(q)
    <3>1. \A g \in Handles : InQueue(u, g)' <=> InQueue(u, g)
      BY <1>1, <1>2, <1>4, <2>2
    <3>2. Untouched(u)
      BY <1>3, <2>2, <3>1 DEF Untouched
    <3> QED BY <3>2 DEF Served
  <2> QED BY <2>1, <2>2
<1>5. ASSUME NEW u \in Threads, ~Occurs(u, q)
      PROVE  /\ ~InQueue(u, h)' /\ wcount'[u] = wcount[u] /\ limit'[u] = limit[u]
             /\ \A g \in Handles \ {h} : InQueue(u, g)' <=> InQueue(u, g)
  <2>1. u \notin Taken(q) /\ ~Occurs(u, Left(q))
    BY <1>1, <1>5
  <2> QED BY <1>2, <1>3, <2>1
<1> QED BY <1>2, <1>3, <1>4, <1>5

\* Handing a mutex over from q.
LEMMA HandOverOK ==
  ASSUME HandleOK, NEW t \in Threads, NEW m \in Mutexes,
         NEW q \in Seq(Threads), Once(q), HandOver(t, m, q), isSet' = isSet
  PROVE  /\ HandleOK'
         /\ \A u \in Threads : (Occurs(u, q) <=> InQueue(u, m)) => Served(u)
         /\ \A u \in Threads : ~Occurs(u, q) =>
              /\ ~InQueue(u, m)' /\ wcount'[u] = wcount[u] /\ limit'[u] = limit[u]
              /\ \A g \in Handles \ {m} : InQueue(u, g)' <=> InQueue(u, g)
<1> USE DEF HandleOK
<1>1. m \in Handles
  BY DEF Handles
<1>2. /\ queue' = [queue EXCEPT ![m] = Left(q)] /\ Signal(Taken(q), m)
      /\ owner' = [owner EXCEPT ![m] = Woken(q)]
      /\ count' = [count EXCEPT ![m] = IF Woken(q) = NoThread THEN 0 ELSE 1]
      /\ RemoveFromTable(t, m)
  BY DEF HandOver
<1>3. /\ queue' \in [Handles -> Seq(Threads)] /\ OnceOK' /\ WakeupTypes'
      /\ \A u \in Threads : (Occurs(u, q) <=> InQueue(u, m)) => Served(u)
      /\ \A u \in Threads : ~Occurs(u, q) =>
           /\ ~InQueue(u, m)' /\ wcount'[u] = wcount[u] /\ limit'[u] = limit[u]
           /\ \A g \in Handles \ {m} : InQueue(u, g)' <=> InQueue(u, g)
  BY <1>1, <1>2, WakeServes
<1>4. /\ Woken(q) \in Threads \cup {NoThread}
      /\ Woken(q) = NoThread => Left(q) = <<>>
  BY WakeOK
<1>5. HandleTypes'
  <2>1. owner' \in [Mutexes -> Threads \cup {NoThread}]
    BY <1>2, <1>4 DEF HandleTypes
  <2>2. count' \in [Mutexes -> Nat]
    BY <1>2 DEF HandleTypes
  <2>3. TableTypes'
    BY <1>2, RemoveFromTableOK DEF HandleTypes
  <2> QED BY <1>3, <2>1, <2>2, <2>3 DEF HandleTypes
<1>6. FreeOK'
  <2> SUFFICES ASSUME NEW n \in Mutexes, owner'[n] = NoThread PROVE queue'[n] = <<>>
    BY DEF FreeOK
  <2>1. CASE n = m
    <3>1. Woken(q) = NoThread
      BY <1>2, <2>1 DEF HandleTypes
    <3>2. queue'[m] = Left(q)
      BY <1>1, <1>2 DEF HandleTypes
    <3> QED BY <1>4, <2>1, <3>1, <3>2
  <2>2. CASE n # m
    <3>1. owner[n] = NoThread
      BY <1>2, <2>2 DEF HandleTypes
    <3>2. queue'[n] = queue[n]
      BY <1>2, <2>2 DEF HandleTypes, Handles
    <3> QED BY <3>1, <3>2 DEF FreeOK
  <2> QED BY <2>1, <2>2
<1> QED BY <1>3, <1>5, <1>6

\* Leaving the queue of h without waking anybody.
LEMMA LeaveQueueOK ==
  ASSUME HandleOK, NEW t \in Threads, NEW h \in Handles,
         queue' = [queue EXCEPT ![h] = Without(queue[h], t)],
         owner' = owner, UNCHANGED wakeupVars
  PROVE  /\ queue' \in [Handles -> Seq(Threads)] /\ OnceOK' /\ FreeOK' /\ WakeupTypes'
         /\ \A u \in Threads \ {t} : Untouched(u)
         /\ ~InQueue(t, h)' /\ wcount'[t] = wcount[t] /\ limit'[t] = limit[t]
         /\ \A g \in Handles \ {h} : InQueue(t, g)' <=> InQueue(t, g)
<1> USE DEF HandleOK
<1>1. queue[h] \in Seq(Threads) /\ Once(queue[h])
  BY DEF HandleTypes, OnceOK
<1>2. PICK r : r = Without(queue[h], t)
  OBVIOUS
<1>3. /\ r \in Seq(Threads) /\ Once(r)
      /\ \A u : Occurs(u, r) <=> Occurs(u, queue[h]) /\ u # t
  BY <1>1, <1>2, WithoutOK
<1>4. /\ queue' \in [Handles -> Seq(Threads)] /\ OnceOK'
      /\ \A u, g : g \in Handles \ {h} => (InQueue(u, g)' <=> InQueue(u, g))
      /\ \A u : InQueue(u, h)' <=> Occurs(u, r)
      /\ \A u : InQueue(u, h) <=> Occurs(u, queue[h])
  BY <1>2, <1>3, QueueBecomes
<1>5. wcount' = wcount /\ limit' = limit /\ object' = object
  BY DEF wakeupVars
<1>6. ASSUME NEW u \in Threads \ {t} PROVE Untouched(u)
  <2>1. \A g \in Handles : InQueue(u, g)' <=> InQueue(u, g)
    BY <1>3, <1>4
  <2> QED BY <1>5, <2>1 DEF Untouched
<1>7. FreeOK'
  <2> SUFFICES ASSUME NEW n \in Mutexes, owner[n] = NoThread PROVE queue'[n] = <<>>
    BY DEF FreeOK
  <2>1. queue[n] = <<>> /\ n \in Handles
    BY DEF FreeOK, Handles
  <2>2. CASE n = h
    <3>1. \A u : ~Occurs(u, r)
      <4>1. Len(queue[h]) = 0
        BY <2>1, <2>2, EmptySeq
      <4>2. 1..Len(queue[h]) = {}
        BY <4>1
      <4> QED BY <1>3, <4>2 DEF Occurs
    <3>2. Len(r) = 0
      <4>1. Len(r) \in Nat
        BY <1>3, LenProperties
      <4>2. SUFFICES ASSUME Len(r) > 0 PROVE FALSE
        BY <4>1
      <4>3. 1 \in 1..Len(r)
        BY <4>1, <4>2
      <4> QED BY <3>1, <4>3 DEF Occurs
    <3>3. r = <<>>
      BY <1>3, <3>2, EmptySeq
    <3> QED BY <1>2, <2>2, <3>3 DEF HandleTypes
  <2>3. CASE n # h
    BY <2>1, <2>3 DEF HandleTypes
  <2> QED BY <2>2, <2>3
<1>8. WakeupTypes'
  BY <1>5 DEF WakeupTypes
<1> QED BY <1>3, <1>4, <1>5, <1>6, <1>7, <1>8

\* MutexUnregister and EventUnregister.
LEMMA UnregisterOK ==
  ASSUME HandleOK, NEW t \in Threads, NEW h \in Handles, NEW release \in BOOLEAN,
         Unregister(t, h, release)
  PROVE  /\ HandleOK'
         /\ \A u \in Threads \ {t} : Served(u)
         /\ ~InQueue(t, h)' /\ wcount'[t] = wcount[t] /\ limit'[t] = limit[t]
         /\ \A g \in Handles \ {h} : InQueue(t, g)' <=> InQueue(t, g)
<1> USE DEF HandleOK
<1> DEFINE q == Without(queue[h], t)
           mine == h \in Mutexes /\ owner[h] = t
<1>1. queue[h] \in Seq(Threads) /\ Once(queue[h]) /\ isSet' = isSet
  BY DEF HandleTypes, OnceOK, Unregister
<1>2. CASE mine /\ release /\ count[h] = 1 /\ HandOver(t, h, q)
  <2>1. /\ q \in Seq(Threads) /\ Once(q)
        /\ \A u : Occurs(u, q) <=> Occurs(u, queue[h]) /\ u # t
    BY <1>1, WithoutOK
  <2>2. h \in Mutexes /\ HandOver(t, h, q)
    BY <1>2
  <2> HIDE DEF q
  <2>3. /\ HandleOK'
        /\ \A u \in Threads : (Occurs(u, q) <=> InQueue(u, h)) => Served(u)
        /\ \A u \in Threads : ~Occurs(u, q) =>
             /\ ~InQueue(u, h)' /\ wcount'[u] = wcount[u] /\ limit'[u] = limit[u]
             /\ \A g \in Handles \ {h} : InQueue(u, g)' <=> InQueue(u, g)
    BY <1>1, <2>1, <2>2, HandOverOK DEF HandleOK
  <2>4. \A u : InQueue(u, h) <=> Occurs(u, queue[h])
    BY QueueItems
  <2>5. \A u \in Threads \ {t} : Served(u)
    BY <2>1, <2>3, <2>4
  <2> QED BY <2>1, <2>3, <2>5
<1>3. CASE /\ mine /\ release /\ count[h] > 1
           /\ count' = [count EXCEPT ![h] = @ - 1]
           /\ queue' = [queue EXCEPT ![h] = q]
           /\ UNCHANGED <<owner, tableVars, wakeupVars>>
  <2>1. HandleTypes'
    <3>1. count' \in [Mutexes -> Nat]
      BY <1>3 DEF HandleTypes
    <3>2. queue' \in [Handles -> Seq(Threads)]
      BY <1>3, LeaveQueueOK
    <3> QED BY <1>1, <1>3, <3>1, <3>2 DEF HandleTypes
  <2> QED BY <1>3, <2>1, LeaveQueueOK DEF Served
<1>4. CASE /\ mine /\ ~release
           /\ IF count[h] = 1 THEN AddToTable(t, h) ELSE UNCHANGED tableVars
           /\ queue' = [queue EXCEPT ![h] = q]
           /\ UNCHANGED <<owner, count, wakeupVars>>
  <2>1. HandleTypes'
    <3>1. TableTypes'
      <4>1. h \in Mutexes /\ TableTypes
        BY <1>4 DEF HandleTypes
      <4>2. CASE AddToTable(t, h)
        BY <4>1, <4>2, AddToTableOK
      <4>3. CASE UNCHANGED tableVars
        BY <4>1, <4>3
      <4> QED BY <1>4, <4>2, <4>3
    <3>2. queue' \in [Handles -> Seq(Threads)]
      BY <1>4, LeaveQueueOK
    <3> QED BY <1>1, <1>4, <3>1, <3>2 DEF HandleTypes
  <2> QED BY <1>4, <2>1, LeaveQueueOK DEF Served
<1>5. CASE /\ ~mine
           /\ queue' = [queue EXCEPT ![h] = q]
           /\ UNCHANGED <<mutexVars, wakeupVars>>
  <2>0. owner' = owner /\ count' = count /\ UNCHANGED tableVars /\ UNCHANGED wakeupVars
    BY <1>5 DEF mutexVars
  <2>1. HandleTypes'
    <3>2. queue' \in [Handles -> Seq(Threads)]
      BY <1>5, <2>0, LeaveQueueOK
    <3> QED BY <1>1, <2>0, <3>2 DEF HandleTypes
  <2> QED BY <1>5, <2>0, <2>1, LeaveQueueOK DEF Served
<1> QED BY <1>2, <1>3, <1>4, <1>5 DEF Unregister

\* EventWake takes the items of the event it wakes.
LEMMA EventWakeOK ==
  ASSUME HandleOK, NEW e \in Events, NEW set \in BOOLEAN, EventWake(e, set)
  PROVE  HandleOK' /\ \A u \in Threads : Served(u)
<1> USE DEF HandleOK
<1>1. e \in Handles /\ e \notin Mutexes
  BY HandlesAssumption DEF Handles
<1>2. queue[e] \in Seq(Threads) /\ Once(queue[e]) /\ queue \in [Handles -> Seq(Threads)]
  BY <1>1 DEF HandleTypes, OnceOK
<1>3. owner' = owner /\ count' = count /\ UNCHANGED tableVars
  BY DEF EventWake, mutexVars
<1>4. isSet' \in [Events -> BOOLEAN]
  BY DEF EventWake, HandleTypes
<1>5. queue' \in [Handles -> Seq(Threads)] /\ OnceOK' /\ WakeupTypes'
      /\ \A u \in Threads : Served(u)
  <2>1. CASE e \in ManualReset
    <3> DEFINE S == {queue[e][i] : i \in DOMAIN queue[e]}
    <3>1. queue' = [queue EXCEPT ![e] = <<>>] /\ Signal(S, e)
      BY <2>1 DEF EventWake
    <3>2. \A u : u \in S <=> InQueue(u, e)
      BY DEF InQueue
    <3> HIDE DEF S
    <3>3. << >> \in Seq(Threads) /\ Len(<< >>) = 0 /\ 1..0 = {}
      BY EmptySeq
    <3>4. Once(<< >>) /\ \A u : ~Occurs(u, << >>)
      BY <3>3 DEF Once, Occurs
    <3>5. /\ queue' \in [Handles -> Seq(Threads)] /\ OnceOK'
          /\ \A u, g : g \in Handles \ {e} => (InQueue(u, g)' <=> InQueue(u, g))
          /\ \A u : ~InQueue(u, e)'
      <4>1. PICK r : r = << >>
        OBVIOUS
      <4>2. /\ r \in Seq(Threads) /\ Once(r) /\ queue' = [queue EXCEPT ![e] = r]
            /\ \A u : ~Occurs(u, r)
        BY <3>1, <3>3, <3>4, <4>1
      <4>3. /\ queue' \in [Handles -> Seq(Threads)] /\ OnceOK'
            /\ \A u, g : g \in Handles \ {e} => (InQueue(u, g)' <=> InQueue(u, g))
            /\ \A u : InQueue(u, e)' <=> Occurs(u, r)
        BY <1>1, <4>2, QueueBecomes
      <4> QED BY <4>2, <4>3
    <3>6. /\ WakeupTypes'
          /\ \A u \in Threads : limit'[u] = limit[u]
          /\ \A u \in Threads \ S : wcount'[u] = wcount[u]
          /\ \A u \in Threads \cap S :
               wcount'[u] = IF Counts(u) THEN wcount[u] + 1 ELSE wcount[u]
      BY <1>1, <3>1, SignalOK
    <3>7. ASSUME NEW u \in Threads PROVE Served(u)
      <4>1. CASE u \in S
        <5>1. Signalled(u, e)
          BY <3>2, <3>5, <3>6, <4>1 DEF Signalled
        <5> QED BY <1>1, <5>1 DEF Served
      <4>2. CASE u \notin S
        <5>1. \A g \in Handles : InQueue(u, g)' <=> InQueue(u, g)
          BY <3>2, <3>5, <4>2
        <5>2. Untouched(u)
          BY <3>6, <4>2, <5>1 DEF Untouched
        <5> QED BY <5>2 DEF Served
      <4> QED BY <4>1, <4>2
    <3> QED BY <3>5, <3>6, <3>7
  <2>2. CASE e \notin ManualReset
    <3>1. queue' = [queue EXCEPT ![e] = Left(queue[e])] /\ Signal(Taken(queue[e]), e)
      BY <2>2 DEF EventWake
    <3>2. /\ queue' \in [Handles -> Seq(Threads)] /\ OnceOK' /\ WakeupTypes'
          /\ \A u \in Threads : (Occurs(u, queue[e]) <=> InQueue(u, e)) => Served(u)
      BY <1>1, <1>2, <3>1, WakeServes
    <3>3. \A u : InQueue(u, e) <=> Occurs(u, queue[e])
      BY <1>1, QueueItems
    <3> QED BY <3>2, <3>3
  <2> QED BY <2>1, <2>2
<1>6. HandleTypes'
  BY <1>3, <1>4, <1>5 DEF HandleTypes
<1>7. FreeOK'
  <2> SUFFICES ASSUME NEW n \in Mutexes, owner[n] = NoThread PROVE queue'[n] = <<>>
    BY <1>3 DEF FreeOK
  <2>1. n # e /\ n \in Handles
    BY <1>1 DEF Handles
  <2>2. queue'[n] = queue[n]
    BY <1>2, <2>1 DEF EventWake
  <2> QED BY <2>2 DEF FreeOK
<1> QED BY <1>5, <1>6, <1>7

\* MutexRegister and EventRegister, when the handle is acquired ...
LEMMA AcquireOK ==
  ASSUME HandleOK, NEW t \in Threads, NEW h \in Handles, Acquire(t, h)
  PROVE  HandleTypes' /\ OnceOK' /\ FreeOK' /\ queue' = queue
<1> USE DEF HandleOK
<1>1. CASE /\ h \in Mutexes
           /\ owner' = [owner EXCEPT ![h] = t]
           /\ count' = [count EXCEPT ![h] = IF owner[h] = t THEN @ + 1 ELSE 1]
           /\ IF owner[h] = t THEN UNCHANGED tableVars ELSE AddToTable(t, h)
           /\ UNCHANGED <<queue, isSet>>
  <2>1. owner' \in [Mutexes -> Threads \cup {NoThread}]
    BY <1>1 DEF HandleTypes
  <2>2. count' \in [Mutexes -> Nat]
    BY <1>1 DEF HandleTypes
  <2>3. TableTypes'
    <3>1. h \in Mutexes /\ TableTypes
      BY <1>1 DEF HandleTypes
    <3>2. CASE AddToTable(t, h)
      BY <3>1, <3>2, AddToTableOK
    <3>3. CASE UNCHANGED tableVars
      BY <3>1, <3>3
    <3> QED BY <1>1, <3>2, <3>3
  <2>4. HandleTypes' /\ OnceOK'
    BY <1>1, <2>1, <2>2, <2>3 DEF HandleTypes, OnceOK
  <2>5. FreeOK'
    BY <1>1, HandlesAssumption DEF FreeOK, HandleTypes
  <2> QED BY <1>1, <2>4, <2>5
<1>2. CASE /\ h \in Events
           /\ isSet' = [isSet EXCEPT ![h] = h \in ManualReset]
           /\ UNCHANGED <<mutexVars, queue>>
  <2>1. owner' = owner /\ count' = count /\ UNCHANGED tableVars /\ queue' = queue
    BY <1>2 DEF mutexVars
  <2>2. isSet' \in [Events -> BOOLEAN]
    BY <1>2 DEF HandleTypes
  <2> QED BY <2>1, <2>2 DEF HandleTypes, OnceOK, FreeOK
<1> QED BY <1>1, <1>2 DEF Acquire

\* ... and when it is not.
LEMMA EnqueueOK ==
  ASSUME HandleOK, NEW t \in Threads, NEW h \in Handles, Enqueue(t, h),
         ~Available(t, h), ~InQueue(t, h)
  PROVE  /\ HandleTypes' /\ OnceOK' /\ FreeOK' /\ InQueue(t, h)'
         /\ \A u, g : g \in Handles /\ (u # t \/ g # h) => (InQueue(u, g)' <=> InQueue(u, g))
<1> USE DEF HandleOK
<1>1. queue[h] \in Seq(Threads) /\ Once(queue[h]) /\ queue \in [Handles -> Seq(Threads)]
  BY DEF HandleTypes, OnceOK
<1>2. \A u : InQueue(u, h) <=> Occurs(u, queue[h])
  BY QueueItems
<1>3. PICK r : r = Append(queue[h], t)
  OBVIOUS
<1>4. /\ r \in Seq(Threads) /\ Once(r)
      /\ \A u : Occurs(u, r) <=> Occurs(u, queue[h]) \/ u = t
  BY <1>1, <1>2, <1>3, AppendOK
<1>5. queue' = [queue EXCEPT ![h] = r]
  BY <1>3 DEF Enqueue
<1>6. /\ queue' \in [Handles -> Seq(Threads)] /\ OnceOK'
      /\ \A u, g : g \in Handles \ {h} => (InQueue(u, g)' <=> InQueue(u, g))
      /\ \A u : InQueue(u, h)' <=> Occurs(u, r)
  BY <1>4, <1>5, QueueBecomes
<1>7. owner' = owner /\ count' = count /\ UNCHANGED tableVars /\ isSet' = isSet
  BY DEF Enqueue, mutexVars
<1>8. FreeOK'
  <2> SUFFICES ASSUME NEW n \in Mutexes, owner[n] = NoThread PROVE queue'[n] = <<>>
    BY <1>7 DEF FreeOK
  <2>1. n # h
    BY DEF Available
  <2>2. queue'[n] = queue[n]
    BY <1>1, <1>5, <2>1 DEF Handles
  <2> QED BY <2>2 DEF FreeOK
<1>9. HandleTypes'
  BY <1>6, <1>7 DEF HandleTypes
<1>10. ASSUME NEW u, NEW g \in Handles, u # t \/ g # h PROVE InQueue(u, g)' <=> InQueue(u, g)
  BY <1>2, <1>4, <1>6, <1>10
<1> QED BY <1>2, <1>4, <1>6, <1>8, <1>9, <1>10

-----------------------------------------------------------------------------
(* Steps of a thread. *)

\* A step of t: its own part of the invariant, and that it leaves the others.
LEMMA StepOK ==
  ASSUME WaitInv, NEW t \in Threads, HandleOK', FlagTypes', CallTypes',
         ThreadOK(t)', \A u \in Threads \ {t} : Rests(u) /\ Served(u)
  PROVE  WaitInv'
<1>1. ASSUME NEW u \in Threads \ {t} PROVE ThreadOK(u)'
  BY RestsOK DEF WaitInv
<1>2. \A u \in Threads : ThreadOK(u)'
  BY <1>1
<1> QED BY <1>2 DEF WaitInv, HandleOK, Types

\* A step of t that changes neither handles nor the wakeups of others.
LEMMA QuietStepOK ==
  ASSUME WaitInv, NEW t \in Threads, UNCHANGED handleVars,
         WakeupTypes', FlagTypes', CallTypes', LocalOK(t)', CountedOK(t)',
         \A h \in Handles : MayQueue(t, h) => MayQueue(t, h)',
         \A u \in Threads \ {t} :
           Rests(u) /\ limit'[u] = limit[u] /\ wcount'[u] = wcount[u]
  PROVE  WaitInv'
<1>1. /\ owner' = owner /\ count' = count /\ UNCHANGED tableVars
      /\ queue' = queue /\ isSet' = isSet
  BY DEF handleVars
<1>2. HandleOK'
  BY <1>1 DEF HandleOK, WaitInv, Types, HandleTypes, OnceOK, FreeOK
<1>3. \A u, h : InQueue(u, h)' <=> InQueue(u, h)
  BY <1>1 DEF InQueue
<1>4. QueuedOK(t)'
  BY <1>3 DEF QueuedOK, WaitInv, ThreadOK
<1>5. ThreadOK(t)'
  BY <1>4 DEF ThreadOK
<1>6. \A u \in Threads \ {t} : Rests(u) /\ Served(u)
  BY <1>3 DEF Served, Untouched
<1> QED BY <1>2, <1>5, <1>6, StepOK

-----------------------------------------------------------------------------
(* The steps that change no handle. *)

\* A call begins.
LEMMA BeginOK ==
  ASSUME WaitInv, NEW t \in Threads, NEW r \in Calls, Begin(t, r)
  PROVE  WaitInv'
<1> USE DEF Begin, Go, Set
<1>1. Types /\ LocalOK(t) /\ CountedOK(t)
  BY DEF WaitInv, ThreadOK
<1>2. CallTypes'
  BY <1>1 DEF Types, CallTypes, Control, Results, callVars
<1>3. FlagTypes'
  BY <1>1 DEF Types, FlagTypes, stateVars
<1>4. WakeupTypes'
  BY <1>1 DEF Types, WakeupTypes, wakeupVars
<1>5. UNCHANGED handleVars
  BY DEF handleVars
<1>6. ASSUME NEW u \in Threads \ {t}
      PROVE  Rests(u) /\ limit'[u] = limit[u] /\ wcount'[u] = wcount[u]
  BY <1>1 DEF Types, CallTypes, WakeupTypes, Rests, wakeupVars, callVars
<1>7. LocalOK(t)'
  BY <1>1 DEF Types, CallTypes, LocalOK, Looping, Registering, Outside, callVars
<1>8. ASSUME NEW h \in Handles, MayQueue(t, h) PROVE MayQueue(t, h)'
  BY <1>1, <1>8 DEF MayQueue, Registering
<1>9. CountedOK(t)'
  BY <1>1 DEF Types, CallTypes, CountedOK, Registering
<1> QED BY <1>2, <1>3, <1>4, <1>5, <1>6, <1>7, <1>8, <1>9, QuietStepOK

\* _ILEnterWait, with a request to abort ...
LEMMA EnterAbortedOK ==
  ASSUME WaitInv, NEW t \in Threads, EnterAborted(t)
  PROVE  WaitInv'
<1> USE DEF EnterAborted, Return, Go, Set
<1>1. Types /\ LocalOK(t) /\ CountedOK(t)
  BY DEF WaitInv, ThreadOK
<1>2. CallTypes'
  BY <1>1, EmptySeq DEF Types, CallTypes, Control, Results, callVars
<1>3. FlagTypes'
  BY <1>1 DEF Types, FlagTypes, stateVars
<1>4. WakeupTypes'
  BY <1>1, EmptySeq DEF Types, WakeupTypes, wakeupVars
<1>5. UNCHANGED handleVars
  BY DEF handleVars
<1>6. ASSUME NEW u \in Threads \ {t}
      PROVE  Rests(u) /\ limit'[u] = limit[u] /\ wcount'[u] = wcount[u]
  BY <1>1 DEF Types, CallTypes, WakeupTypes, Rests, wakeupVars, callVars
<1>7. LocalOK(t)'
  BY <1>1 DEF Types, CallTypes, LocalOK, Looping, Registering, Outside, callVars
<1>8. ASSUME NEW h \in Handles, MayQueue(t, h) PROVE MayQueue(t, h)'
  BY <1>1, <1>8 DEF MayQueue, Registering
<1>9. CountedOK(t)'
  BY <1>1 DEF Types, CallTypes, CountedOK, Registering
<1> QED BY <1>2, <1>3, <1>4, <1>5, <1>6, <1>7, <1>8, <1>9, QuietStepOK

\* ... and without.
LEMMA EnterWaitOK ==
  ASSUME WaitInv, NEW t \in Threads, EnterWait(t)
  PROVE  WaitInv'
<1> USE DEF EnterWait, Go
<1>1. Types /\ LocalOK(t) /\ CountedOK(t)
  BY DEF WaitInv, ThreadOK
<1>2. CallTypes'
  BY <1>1 DEF Types, CallTypes, Control, Results, callVars
<1>3. FlagTypes'
  BY <1>1 DEF Types, FlagTypes, stateVars
<1>4. WakeupTypes'
  BY <1>1 DEF Types, WakeupTypes, wakeupVars
<1>5. UNCHANGED handleVars
  BY DEF handleVars
<1>6. ASSUME NEW u \in Threads \ {t}
      PROVE  Rests(u) /\ limit'[u] = limit[u] /\ wcount'[u] = wcount[u]
  BY <1>1 DEF Types, CallTypes, WakeupTypes, Rests, wakeupVars, callVars
<1>7. LocalOK(t)'
  BY <1>1 DEF Types, CallTypes, LocalOK, Looping, Registering, Outside, callVars
<1>8. ASSUME NEW h \in Handles, MayQueue(t, h) PROVE MayQueue(t, h)'
  BY <1>1, <1>8 DEF MayQueue, Registering
<1>9. CountedOK(t)'
  BY <1>1 DEF Types, CallTypes, CountedOK, Registering
<1> QED BY <1>2, <1>3, <1>4, <1>5, <1>6, <1>7, <1>8, <1>9, QuietStepOK

\* _ILWakeupSetLimit finds the wakeup interrupted.
LEMMA SetLimitFailsOK ==
  ASSUME WaitInv, NEW t \in Threads, SetLimitFails(t)
  PROVE  WaitInv'
<1> USE DEF SetLimitFails, Go, Set
<1>1. Types /\ LocalOK(t) /\ CountedOK(t)
  BY DEF WaitInv, ThreadOK
<1>2. CallTypes'
  BY <1>1 DEF Types, CallTypes, Control, Results, callVars
<1>3. FlagTypes'
  BY <1>1 DEF Types, FlagTypes, stateVars
<1>4. WakeupTypes'
  BY <1>1 DEF Types, WakeupTypes, wakeupVars
<1>5. UNCHANGED handleVars
  BY DEF handleVars
<1>6. ASSUME NEW u \in Threads \ {t}
      PROVE  Rests(u) /\ limit'[u] = limit[u] /\ wcount'[u] = wcount[u]
  BY <1>1 DEF Types, CallTypes, WakeupTypes, Rests, wakeupVars, callVars
<1>7. LocalOK(t)'
  BY <1>1 DEF Types, CallTypes, LocalOK, Looping, Registering, Outside, callVars
<1>8. ASSUME NEW h \in Handles, MayQueue(t, h) PROVE MayQueue(t, h)'
  BY <1>1, <1>8 DEF MayQueue, Registering
<1>9. CountedOK(t)'
  BY <1>1 DEF Types, CallTypes, CountedOK, Registering
<1> QED BY <1>2, <1>3, <1>4, <1>5, <1>6, <1>7, <1>8, <1>9, QuietStepOK

\* _ILLeaveWait finds no request.
LEMMA LeaveQuietOK ==
  ASSUME WaitInv, NEW t \in Threads, LeaveQuiet(t)
  PROVE  WaitInv'
<1> USE DEF LeaveQuiet, Go
<1>1. Types /\ LocalOK(t) /\ CountedOK(t)
  BY DEF WaitInv, ThreadOK
<1>2. CallTypes'
  BY <1>1 DEF Types, CallTypes, Control, Results, callVars
<1>3. FlagTypes'
  BY <1>1 DEF Types, FlagTypes, stateVars
<1>4. WakeupTypes'
  BY <1>1 DEF Types, WakeupTypes, wakeupVars
<1>5. UNCHANGED handleVars
  BY DEF handleVars
<1>6. ASSUME NEW u \in Threads \ {t}
      PROVE  Rests(u) /\ limit'[u] = limit[u] /\ wcount'[u] = wcount[u]
  BY <1>1 DEF Types, CallTypes, WakeupTypes, Rests, wakeupVars, callVars
<1>7. LocalOK(t)'
  BY <1>1 DEF Types, CallTypes, LocalOK, Looping, Registering, Outside, callVars
<1>8. ASSUME NEW h \in Handles, MayQueue(t, h) PROVE MayQueue(t, h)'
  BY <1>1, <1>8 DEF MayQueue, Registering
<1>9. CountedOK(t)'
  BY <1>1 DEF Types, CallTypes, CountedOK, Registering
<1> QED BY <1>2, <1>3, <1>4, <1>5, <1>6, <1>7, <1>8, <1>9, QuietStepOK

\* The thread comes to its end ...
LEMMA ThreadStopsOK ==
  ASSUME WaitInv, NEW t \in Threads, ThreadStops(t)
  PROVE  WaitInv'
<1> USE DEF ThreadStops, Go
<1>1. Types /\ LocalOK(t) /\ CountedOK(t)
  BY DEF WaitInv, ThreadOK
<1>2. CallTypes'
  BY <1>1 DEF Types, CallTypes, Control, Results, callVars
<1>3. FlagTypes'
  BY <1>1 DEF Types, FlagTypes, stateVars
<1>4. WakeupTypes'
  BY <1>1 DEF Types, WakeupTypes, wakeupVars
<1>5. UNCHANGED handleVars
  BY DEF handleVars
<1>6. ASSUME NEW u \in Threads \ {t}
      PROVE  Rests(u) /\ limit'[u] = limit[u] /\ wcount'[u] = wcount[u]
  BY <1>1 DEF Types, CallTypes, WakeupTypes, Rests, wakeupVars, callVars
<1>7. LocalOK(t)'
  BY <1>1 DEF Types, CallTypes, LocalOK, Looping, Registering, Outside, callVars
<1>8. ASSUME NEW h \in Handles, MayQueue(t, h) PROVE MayQueue(t, h)'
  BY <1>1, <1>8 DEF MayQueue, Registering
<1>9. CountedOK(t)'
  BY <1>1 DEF Types, CallTypes, CountedOK, Registering
<1> QED BY <1>2, <1>3, <1>4, <1>5, <1>6, <1>7, <1>8, <1>9, QuietStepOK

\* ... and its wakeup goes away.
LEMMA DestroyedOK ==
  ASSUME WaitInv, NEW t \in Threads, Destroyed(t)
  PROVE  WaitInv'
<1> USE DEF Destroyed, Go, Set
<1>1. Types /\ LocalOK(t) /\ CountedOK(t)
  BY DEF WaitInv, ThreadOK
<1>2. CallTypes'
  BY <1>1 DEF Types, CallTypes, Control, Results, callVars
<1>3. FlagTypes'
  BY <1>1 DEF Types, FlagTypes, stateVars
<1>4. WakeupTypes'
  BY <1>1 DEF Types, WakeupTypes, wakeupVars
<1>5. UNCHANGED handleVars
  BY DEF handleVars
<1>6. ASSUME NEW u \in Threads \ {t}
      PROVE  Rests(u) /\ limit'[u] = limit[u] /\ wcount'[u] = wcount[u]
  BY <1>1 DEF Types, CallTypes, WakeupTypes, Rests, wakeupVars, callVars
<1>7. LocalOK(t)'
  BY <1>1 DEF Types, CallTypes, LocalOK, Looping, Registering, Outside, callVars
<1>8. ASSUME NEW h \in Handles, MayQueue(t, h) PROVE MayQueue(t, h)'
  BY <1>1, <1>8 DEF MayQueue, Registering
<1>9. CountedOK(t)'
  BY <1>1 DEF Types, CallTypes, CountedOK, Registering
<1> QED BY <1>2, <1>3, <1>4, <1>5, <1>6, <1>7, <1>8, <1>9, QuietStepOK

\* The call returns its result.
LEMMA LeaveStoreOK ==
  ASSUME WaitInv, NEW t \in Threads, LeaveStore(t)
  PROVE  WaitInv'
<1> USE DEF LeaveStore, Return, Go, Set
<1>1. Types /\ LocalOK(t) /\ CountedOK(t)
  BY DEF WaitInv, ThreadOK
<1>2. CallTypes'
  BY <1>1, EmptySeq DEF Types, CallTypes, Control, Results, callVars
<1>3. FlagTypes'
  BY <1>1 DEF Types, FlagTypes, stateVars
<1>4. WakeupTypes'
  BY <1>1, EmptySeq DEF Types, WakeupTypes, wakeupVars
<1>5. UNCHANGED handleVars
  BY DEF handleVars
<1>6. ASSUME NEW u \in Threads \ {t}
      PROVE  Rests(u) /\ limit'[u] = limit[u] /\ wcount'[u] = wcount[u]
  BY <1>1 DEF Types, CallTypes, WakeupTypes, Rests, wakeupVars, callVars
<1>7. LocalOK(t)'
  BY <1>1 DEF Types, CallTypes, LocalOK, Looping, Registering, Outside, callVars
<1>8. ASSUME NEW h \in Handles, MayQueue(t, h) PROVE MayQueue(t, h)'
  BY <1>1, <1>8 DEF MayQueue, Registering
<1>9. CountedOK(t)'
  BY <1>1 DEF Types, CallTypes, CountedOK, Registering
<1> QED BY <1>2, <1>3, <1>4, <1>5, <1>6, <1>7, <1>8, <1>9, QuietStepOK

\* ILThreadAbortReset.
LEMMA AbortResetOK ==
  ASSUME WaitInv, NEW t \in Threads, AbortReset(t)
  PROVE  WaitInv'
<1> USE DEF AbortReset
<1>1. Types /\ LocalOK(t) /\ CountedOK(t)
  BY DEF WaitInv, ThreadOK
<1>2. CallTypes'
  BY <1>1 DEF Types, CallTypes, Control, Results, callVars
<1>3. FlagTypes'
  BY <1>1 DEF Types, FlagTypes, stateVars
<1>4. WakeupTypes'
  BY <1>1 DEF Types, WakeupTypes, wakeupVars
<1>5. UNCHANGED handleVars
  BY DEF handleVars
<1>6. ASSUME NEW u \in Threads \ {t}
      PROVE  Rests(u) /\ limit'[u] = limit[u] /\ wcount'[u] = wcount[u]
  BY <1>1 DEF Types, CallTypes, WakeupTypes, Rests, wakeupVars, callVars
<1>7. LocalOK(t)'
  BY <1>1 DEF LocalOK, Looping, Registering, Outside, Size, Total, Registered, wakeupVars, callVars
<1>8. ASSUME NEW h \in Handles, MayQueue(t, h) PROVE MayQueue(t, h)'
  BY <1>8 DEF MayQueue, Registering, Registered, Total, callVars
<1>9. CountedOK(t)'
  BY <1>1 DEF CountedOK, Registering, callVars
<1> QED BY <1>2, <1>3, <1>4, <1>5, <1>6, <1>7, <1>8, <1>9, QuietStepOK

\* The handles that were registered.
LEMMA DoneOK ==
  ASSUME Types, NEW t \in Threads, LocalOK(t), pc[t] = "register"
  PROVE  /\ Done(t) \in Seq(Handles)
         /\ Registered(t) \in 0..Total(t) /\ Len(Done(t)) = Registered(t)
         /\ \A i \in 1..Registered(t) : Done(t)[i] = req[t].handles[i]
         /\ Done(t) = <<>> <=> Registered(t) = 0
<1>1. /\ req[t] \in Calls /\ Total(t) \in Nat \ {0} /\ Len(todo[t]) \in Nat
  BY CallNumbers DEF Outside
<1>2. req[t].handles \in Seq(Handles)
  BY <1>1, CallFacts
<1>3. Len(todo[t]) <= Total(t)
  BY DEF LocalOK
<1>4. Registered(t) \in 0..Total(t)
  BY <1>1, <1>3 DEF Registered
<1>5. PICK q \in Seq(Handles) : q = req[t].handles
  BY <1>2
<1>6. Total(t) = Len(q) /\ Done(t) = SubSeq(q, 1, Registered(t))
  BY <1>5 DEF Total, Done, Registered
<1>7. CASE Registered(t) = 0
  <2>1. Done(t) = <<>>
    BY <1>6, <1>7, SubSeqEmpty
  <2> QED BY <1>4, <1>7, <2>1, EmptySeq
<1>8. CASE Registered(t) > 0
  <2>1. PICK n \in 1..Len(q) : n = Registered(t)
    BY <1>1, <1>4, <1>6, <1>8
  <2>2. /\ SubSeq(q, 1, n) \in Seq(Handles) /\ Len(SubSeq(q, 1, n)) = n
        /\ \A i \in 1..n : SubSeq(q, 1, n)[i] = q[i]
    <3>1. Len(q) \in Nat
      BY LenProperties
    <3> QED BY <2>1, <3>1, SubSeqProperties
  <2>3. Done(t) # <<>>
    BY <1>1, <1>6, <1>8, <2>1, <2>2, EmptySeq
  <2> QED BY <1>4, <1>5, <1>6, <1>8, <2>1, <2>2, <2>3
<1> QED BY <1>1, <1>4, <1>7, <1>8

\* A registration that ends the call leaves the items to undo.
LEMMA FinishOK ==
  ASSUME Types, NEW t \in Threads, LocalOK(t), pc[t] = "register", NEW r, Finish(t, r),
         req' = req
  PROVE  /\ pc'[t] \in {"undo", "leave"} /\ limit'[t] = 0
         /\ todo' \in [Threads -> Seq(Handles)] /\ todo'[t] = Done(t)
         /\ LocalOK(t)' /\ CountedOK(t)'
         /\ \A h \in Handles : MayQueue(t, h) => MayQueue(t, h)'
<1>1. /\ pc'[t] = IF Done(t) = <<>> THEN "leave" ELSE "undo"
      /\ todo'[t] = Done(t) /\ limit'[t] = 0
  BY DEF Finish, Go, Set, Types, CallTypes, WakeupTypes
<1>2. /\ Done(t) \in Seq(Handles) /\ Len(Done(t)) = Registered(t)
      /\ \A i \in 1..Registered(t) : Done(t)[i] = req[t].handles[i]
      /\ Done(t) = <<>> <=> Registered(t) = 0
  BY DoneOK
<1>3. todo' \in [Threads -> Seq(Handles)]
  BY <1>2 DEF Finish, Set, Types, CallTypes
<1>4. req[t] \in Calls
  BY DEF LocalOK, Outside
<1>5. LocalOK(t)'
  BY <1>1, <1>4 DEF LocalOK, Looping, Registering, Outside
<1>6. CountedOK(t)'
  BY <1>1 DEF CountedOK, Registering
<1>7. ASSUME NEW h \in Handles, MayQueue(t, h) PROVE MayQueue(t, h)'
  <2>1. PICK i \in 1..Registered(t) : req[t].handles[i] = h
    BY <1>7 DEF MayQueue
  <2>2. Done(t) # <<>>
    BY <1>2, <2>1
  <2> QED BY <1>1, <1>2, <2>1, <2>2 DEF MayQueue
<1> QED BY <1>1, <1>3, <1>5, <1>6, <1>7

\* The wait is over: every handle is to be unregistered.
LEMMA WakesOK ==
  ASSUME Types, NEW t \in Threads, LocalOK(t), pc[t] \in {"sleep", "waiting", "adjust"},
         pc'[t] = "unregister", req' = req, todo' = Set(todo, t, req[t].handles)
  PROVE  /\ todo' \in [Threads -> Seq(Handles)]
         /\ LocalOK(t)' /\ CountedOK(t)'
         /\ \A h \in Handles : MayQueue(t, h) => MayQueue(t, h)'
<1>1. req[t] \in Calls /\ todo[t] = <<>>
  BY DEF LocalOK, Outside
<1>2. req[t].handles \in Seq(Handles) /\ req[t].handles # <<>> /\ Len(req[t].handles) \in Nat
  BY <1>1, CallFacts
<1>3. todo' \in [Threads -> Seq(Handles)] /\ todo'[t] = req[t].handles
  BY <1>2 DEF Set, Types, CallTypes
<1>4. LocalOK(t)'
  BY <1>1, <1>2, <1>3 DEF LocalOK, Looping, Registering, Outside
<1>5. CountedOK(t)'
  BY DEF CountedOK, Registering
<1>6. ASSUME NEW h \in Handles, MayQueue(t, h) PROVE MayQueue(t, h)'
  <2>1. PICK i \in 1..Registered(t) : req[t].handles[i] = h
    BY <1>6 DEF MayQueue
  <2>2. Registered(t) = Len(req[t].handles)
    BY <1>1, <1>2, EmptySeq DEF Registered, Total
  <2> QED BY <1>3, <2>1, <2>2 DEF MayQueue
<1> QED BY <1>3, <1>4, <1>5, <1>6

\* _ILLeaveWait finds a request, and what was acquired is given back.
LEMMA LeaveDisturbedOK ==
  ASSUME WaitInv, NEW t \in Threads, LeaveDisturbed(t)
  PROVE  WaitInv'
<1> USE DEF LeaveDisturbed, Return, Go, Set
<1>1. Types /\ LocalOK(t) /\ CountedOK(t)
  BY DEF WaitInv, ThreadOK
<1>a. req[t] \in Calls
  BY <1>1 DEF LocalOK, Outside
<1>b. /\ req[t].handles \in Seq(Handles) /\ req[t].handles # <<>>
      /\ hit[t] # NoHandle => <<hit[t]>> \in Seq(Handles) /\ <<hit[t]>> # <<>>
  BY <1>1, <1>a, CallFacts DEF Types, CallTypes
<1>2. CallTypes'
  <2>1. CASE res[t] # "ok" /\ Return(t)
    BY <1>1, <2>1, EmptySeq DEF Types, CallTypes, Control, Results
  <2>2. CASE /\ todo' = Set(todo, t, IF hit[t] = NoHandle THEN req[t].handles ELSE <<hit[t]>>)
             /\ Go(t, IF req[t].kind = "any" /\ hit[t] = NoHandle THEN "crashed" ELSE "giveBack")
             /\ UNCHANGED <<req, need, res, hit>>
    <3>1. todo' \in [Threads -> Seq(Handles)]
      BY <1>1, <1>b, <2>2 DEF Types, CallTypes
    <3>2. pc' \in [Threads -> Control]
      BY <1>1, <2>2 DEF Types, CallTypes, Control
    <3> QED BY <1>1, <2>2, <3>1, <3>2 DEF Types, CallTypes
  <2> QED BY <2>1, <2>2
<1>3. FlagTypes'
  BY <1>1 DEF Types, FlagTypes, stateVars
<1>4. WakeupTypes'
  BY <1>1, <1>b, EmptySeq DEF Types, WakeupTypes, wakeupVars
<1>5. UNCHANGED handleVars
  BY DEF handleVars
<1>6. ASSUME NEW u \in Threads \ {t}
      PROVE  Rests(u) /\ limit'[u] = limit[u] /\ wcount'[u] = wcount[u]
  BY <1>1 DEF Types, CallTypes, WakeupTypes, Rests, wakeupVars, callVars
<1>7. LocalOK(t)'
  BY <1>1, <1>a, <1>b DEF Types, CallTypes, LocalOK, Looping, Registering, Outside, callVars
<1>8. ASSUME NEW h \in Handles, MayQueue(t, h) PROVE MayQueue(t, h)'
  BY <1>1, <1>8 DEF MayQueue, Registering
<1>9. CountedOK(t)'
  BY <1>1 DEF Types, CallTypes, CountedOK, Registering
<1> QED BY <1>2, <1>3, <1>4, <1>5, <1>6, <1>7, <1>8, <1>9, QuietStepOK

\* _ILWakeupSetLimit: the registration begins.
LEMMA SetLimitOK ==
  ASSUME WaitInv, NEW t \in Threads, SetLimit(t)
  PROVE  WaitInv'
<1> USE DEF SetLimit, Go, Set
<1>1. Types /\ LocalOK(t) /\ CountedOK(t)
  BY DEF WaitInv, ThreadOK
<1>a. /\ req[t] \in Calls /\ req[t].handles \in Seq(Handles) /\ req[t].handles # <<>>
      /\ Size(t) \in Nat /\ Len(req[t].handles) \in Nat
  <2>1. req[t] \in Calls
    BY <1>1 DEF LocalOK, Outside
  <2> QED BY <2>1, CallFacts DEF Size
<1>b. /\ pc'[t] = "register" /\ req'[t] = req[t] /\ todo'[t] = req[t].handles
      /\ need'[t] = Size(t) /\ limit'[t] = Size(t) /\ wcount'[t] = 0
  BY <1>1 DEF Types, CallTypes, WakeupTypes
<1>c. Size(t)' = Size(t) /\ Total(t)' = Len(req[t].handles) /\ Registered(t)' = 0
  BY <1>a, <1>b DEF Size, Total, Registered
<1>2. CallTypes'
  BY <1>1, <1>a DEF Types, CallTypes, Control, Results, callVars
<1>3. FlagTypes'
  BY <1>1 DEF Types, FlagTypes, stateVars
<1>4. WakeupTypes'
  BY <1>1, <1>a DEF Types, WakeupTypes, wakeupVars
<1>5. UNCHANGED handleVars
  BY DEF handleVars
<1>6. ASSUME NEW u \in Threads \ {t}
      PROVE  Rests(u) /\ limit'[u] = limit[u] /\ wcount'[u] = wcount[u]
  BY <1>1 DEF Types, CallTypes, WakeupTypes, Rests, wakeupVars, callVars
<1>7. LocalOK(t)'
  BY <1>a, <1>b, <1>c DEF LocalOK, Looping, Registering, Outside, Size
<1>8. ASSUME NEW h \in Handles, MayQueue(t, h) PROVE MayQueue(t, h)'
  BY <1>1, <1>8 DEF MayQueue, Registering
<1>9. CountedOK(t)'
  <2>1. Gone(t)' = {}
    BY <1>c DEF Gone
  <2> QED BY <1>a, <1>b, <1>c, <2>1, FS_EmptySet DEF CountedOK
<1> QED BY <1>2, <1>3, <1>4, <1>5, <1>6, <1>7, <1>8, <1>9, QuietStepOK

\* There is no memory for the item.
LEMMA RegisterFailedOK ==
  ASSUME WaitInv, NEW t \in Threads, RegisterFailed(t)
  PROVE  WaitInv'
<1> USE DEF RegisterFailed
<1>1. Types /\ LocalOK(t) /\ CountedOK(t)
  BY DEF WaitInv, ThreadOK
<1>a. /\ todo' \in [Threads -> Seq(Handles)]
      /\ LocalOK(t)' /\ CountedOK(t)'
      /\ \A h \in Handles : MayQueue(t, h) => MayQueue(t, h)'
  BY <1>1, FinishOK
<1> USE DEF Finish, Go, Set
<1>2. CallTypes'
  BY <1>1, <1>a DEF Types, CallTypes, Control, Results, callVars
<1>3. FlagTypes'
  BY <1>1 DEF Types, FlagTypes, stateVars
<1>4. WakeupTypes'
  BY <1>1, <1>a DEF Types, WakeupTypes, wakeupVars
<1>5. UNCHANGED handleVars
  BY DEF handleVars
<1>6. ASSUME NEW u \in Threads \ {t}
      PROVE  Rests(u) /\ limit'[u] = limit[u] /\ wcount'[u] = wcount[u]
  BY <1>1 DEF Types, CallTypes, WakeupTypes, Rests, wakeupVars, callVars
<1>7. LocalOK(t)'
  BY <1>a
<1>8. ASSUME NEW h \in Handles, MayQueue(t, h) PROVE MayQueue(t, h)'
  BY <1>8, <1>a
<1>9. CountedOK(t)'
  BY <1>a
<1> QED BY <1>2, <1>3, <1>4, <1>5, <1>6, <1>7, <1>8, <1>9, QuietStepOK

\* The thread goes to sleep.
LEMMA SleepOK ==
  ASSUME WaitInv, NEW t \in Threads, Sleep(t)
  PROVE  WaitInv'
<1> USE DEF Sleep, Go
<1>1. Types /\ LocalOK(t) /\ CountedOK(t)
  BY DEF WaitInv, ThreadOK
<1>a. /\ pc[t] = "sleep" /\ pc'[t] = "waiting" /\ req' = req /\ todo' = todo /\ need' = need
      /\ limit' = limit /\ wcount' = wcount /\ queue' = queue /\ interrupted' = interrupted
  BY <1>1 DEF Types, CallTypes, callVars, wakeupVars, handleVars
<1>b. Size(t)' = Size(t) /\ Registered(t)' = Registered(t) /\ Gone(t)' = Gone(t)
  BY <1>a DEF Size, Registered, Total, Gone, InQueue
<1>2. CallTypes'
  BY <1>1 DEF Types, CallTypes, Control, Results, callVars
<1>3. FlagTypes'
  BY <1>1 DEF Types, FlagTypes, stateVars
<1>4. WakeupTypes'
  BY <1>1 DEF Types, WakeupTypes, wakeupVars
<1>5. UNCHANGED handleVars
  BY DEF handleVars
<1>6. ASSUME NEW u \in Threads \ {t}
      PROVE  Rests(u) /\ limit'[u] = limit[u] /\ wcount'[u] = wcount[u]
  BY <1>1 DEF Types, CallTypes, WakeupTypes, Rests, wakeupVars, callVars
<1>7. LocalOK(t)'
  BY <1>1, <1>a, <1>b DEF LocalOK, Looping, Registering, Outside
<1>8. ASSUME NEW h \in Handles, MayQueue(t, h) PROVE MayQueue(t, h)'
  BY <1>8, <1>a, <1>b DEF MayQueue, Registering
<1>9. CountedOK(t)'
  BY <1>1, <1>a, <1>b DEF CountedOK, Registering
<1> QED BY <1>2, <1>3, <1>4, <1>5, <1>6, <1>7, <1>8, <1>9, QuietStepOK

\* _ILWakeupWait finds an interrupt, ...
LEMMA SleepInterruptedOK ==
  ASSUME WaitInv, NEW t \in Threads, SleepInterrupted(t)
  PROVE  WaitInv'
<1> USE DEF SleepInterrupted, Wakes, Go, Set
<1>1. Types /\ LocalOK(t) /\ CountedOK(t)
  BY DEF WaitInv, ThreadOK
<1>a. pc'[t] = "unregister" /\ req' = req /\ todo' = Set(todo, t, req[t].handles)
  BY <1>1 DEF Types, CallTypes
<1>b. /\ todo' \in [Threads -> Seq(Handles)]
      /\ LocalOK(t)' /\ CountedOK(t)'
      /\ \A h \in Handles : MayQueue(t, h) => MayQueue(t, h)'
  BY <1>1, <1>a, WakesOK
<1>2. CallTypes'
  BY <1>1, <1>b DEF Types, CallTypes, Control, Results, callVars
<1>3. FlagTypes'
  BY <1>1 DEF Types, FlagTypes, stateVars
<1>4. WakeupTypes'
  BY <1>1, <1>b DEF Types, WakeupTypes, wakeupVars
<1>5. UNCHANGED handleVars
  BY DEF handleVars
<1>6. ASSUME NEW u \in Threads \ {t}
      PROVE  Rests(u) /\ limit'[u] = limit[u] /\ wcount'[u] = wcount[u]
  BY <1>1 DEF Types, CallTypes, WakeupTypes, Rests, wakeupVars, callVars
<1>7. LocalOK(t)'
  BY <1>b
<1>8. ASSUME NEW h \in Handles, MayQueue(t, h) PROVE MayQueue(t, h)'
  BY <1>8, <1>b
<1>9. CountedOK(t)'
  BY <1>b
<1> QED BY <1>2, <1>3, <1>4, <1>5, <1>6, <1>7, <1>8, <1>9, QuietStepOK

\* ... or that all signals have arrived.
LEMMA SleepOverOK ==
  ASSUME WaitInv, NEW t \in Threads, SleepOver(t)
  PROVE  WaitInv'
<1> USE DEF SleepOver, Wakes, Go, Set, ResetWakeup
<1>1. Types /\ LocalOK(t) /\ CountedOK(t)
  BY DEF WaitInv, ThreadOK
<1>a. pc'[t] = "unregister" /\ req' = req /\ todo' = Set(todo, t, req[t].handles)
  BY <1>1 DEF Types, CallTypes
<1>b. /\ todo' \in [Threads -> Seq(Handles)]
      /\ LocalOK(t)' /\ CountedOK(t)'
      /\ \A h \in Handles : MayQueue(t, h) => MayQueue(t, h)'
  BY <1>1, <1>a, WakesOK
<1>2. CallTypes'
  BY <1>1, <1>b DEF Types, CallTypes, Control, Results, callVars
<1>3. FlagTypes'
  BY <1>1 DEF Types, FlagTypes, stateVars
<1>4. WakeupTypes'
  BY <1>1, <1>b DEF Types, WakeupTypes, wakeupVars
<1>5. UNCHANGED handleVars
  BY DEF handleVars
<1>6. ASSUME NEW u \in Threads \ {t}
      PROVE  Rests(u) /\ limit'[u] = limit[u] /\ wcount'[u] = wcount[u]
  BY <1>1 DEF Types, CallTypes, WakeupTypes, Rests, wakeupVars, callVars
<1>7. LocalOK(t)'
  BY <1>b
<1>8. ASSUME NEW h \in Handles, MayQueue(t, h) PROVE MayQueue(t, h)'
  BY <1>8, <1>b
<1>9. CountedOK(t)'
  BY <1>b
<1> QED BY <1>2, <1>3, <1>4, <1>5, <1>6, <1>7, <1>8, <1>9, QuietStepOK

\* The sleep ends by an interrupt, ...
LEMMA WakeInterruptedOK ==
  ASSUME WaitInv, NEW t \in Threads, WakeInterrupted(t)
  PROVE  WaitInv'
<1> USE DEF WakeInterrupted, Wakes, Go, Set, ResetWakeup
<1>1. Types /\ LocalOK(t) /\ CountedOK(t)
  BY DEF WaitInv, ThreadOK
<1>a. pc'[t] = "unregister" /\ req' = req /\ todo' = Set(todo, t, req[t].handles)
  BY <1>1 DEF Types, CallTypes
<1>b. /\ todo' \in [Threads -> Seq(Handles)]
      /\ LocalOK(t)' /\ CountedOK(t)'
      /\ \A h \in Handles : MayQueue(t, h) => MayQueue(t, h)'
  BY <1>1, <1>a, WakesOK
<1>2. CallTypes'
  BY <1>1, <1>b DEF Types, CallTypes, Control, Results, callVars
<1>3. FlagTypes'
  BY <1>1 DEF Types, FlagTypes, stateVars
<1>4. WakeupTypes'
  BY <1>1, <1>b DEF Types, WakeupTypes, wakeupVars
<1>5. UNCHANGED handleVars
  BY DEF handleVars
<1>6. ASSUME NEW u \in Threads \ {t}
      PROVE  Rests(u) /\ limit'[u] = limit[u] /\ wcount'[u] = wcount[u]
  BY <1>1 DEF Types, CallTypes, WakeupTypes, Rests, wakeupVars, callVars
<1>7. LocalOK(t)'
  BY <1>b
<1>8. ASSUME NEW h \in Handles, MayQueue(t, h) PROVE MayQueue(t, h)'
  BY <1>8, <1>b
<1>9. CountedOK(t)'
  BY <1>b
<1> QED BY <1>2, <1>3, <1>4, <1>5, <1>6, <1>7, <1>8, <1>9, QuietStepOK

\* ... by the signals, ...
LEMMA WakeSignalledOK ==
  ASSUME WaitInv, NEW t \in Threads, WakeSignalled(t)
  PROVE  WaitInv'
<1> USE DEF WakeSignalled, Wakes, Go, Set, ResetWakeup
<1>1. Types /\ LocalOK(t) /\ CountedOK(t)
  BY DEF WaitInv, ThreadOK
<1>a. pc'[t] = "unregister" /\ req' = req /\ todo' = Set(todo, t, req[t].handles)
  BY <1>1 DEF Types, CallTypes
<1>b. /\ todo' \in [Threads -> Seq(Handles)]
      /\ LocalOK(t)' /\ CountedOK(t)'
      /\ \A h \in Handles : MayQueue(t, h) => MayQueue(t, h)'
  BY <1>1, <1>a, WakesOK
<1>2. CallTypes'
  <2>1. hit' \in [Threads -> Handles \cup {NoHandle}]
    <3>1. hit' = [hit EXCEPT ![t] = object[t]] \/ hit' = hit
      OBVIOUS
    <3> QED BY <1>1, <3>1 DEF Types, CallTypes, WakeupTypes
  <2>2. pc' \in [Threads -> Control] /\ res' \in [Threads -> Results]
    BY <1>1 DEF Types, CallTypes, Control, Results
  <2> QED BY <1>1, <1>b, <2>1, <2>2 DEF Types, CallTypes
<1>3. FlagTypes'
  BY <1>1 DEF Types, FlagTypes, stateVars
<1>4. WakeupTypes'
  BY <1>1, <1>b DEF Types, WakeupTypes, wakeupVars
<1>5. UNCHANGED handleVars
  BY DEF handleVars
<1>6. ASSUME NEW u \in Threads \ {t}
      PROVE  Rests(u) /\ limit'[u] = limit[u] /\ wcount'[u] = wcount[u]
  BY <1>1 DEF Types, CallTypes, WakeupTypes, Rests, wakeupVars, callVars
<1>7. LocalOK(t)'
  BY <1>b
<1>8. ASSUME NEW h \in Handles, MayQueue(t, h) PROVE MayQueue(t, h)'
  BY <1>8, <1>b
<1>9. CountedOK(t)'
  BY <1>b
<1> QED BY <1>2, <1>3, <1>4, <1>5, <1>6, <1>7, <1>8, <1>9, QuietStepOK

\* ... or by the time.
LEMMA WakeTimeoutOK ==
  ASSUME WaitInv, NEW t \in Threads, WakeTimeout(t)
  PROVE  WaitInv'
<1> USE DEF WakeTimeout, Wakes, Go, Set, ResetWakeup
<1>1. Types /\ LocalOK(t) /\ CountedOK(t)
  BY DEF WaitInv, ThreadOK
<1>a. pc'[t] = "unregister" /\ req' = req /\ todo' = Set(todo, t, req[t].handles)
  BY <1>1 DEF Types, CallTypes
<1>b. /\ todo' \in [Threads -> Seq(Handles)]
      /\ LocalOK(t)' /\ CountedOK(t)'
      /\ \A h \in Handles : MayQueue(t, h) => MayQueue(t, h)'
  BY <1>1, <1>a, WakesOK
<1>2. CallTypes'
  BY <1>1, <1>b DEF Types, CallTypes, Control, Results, callVars
<1>3. FlagTypes'
  BY <1>1 DEF Types, FlagTypes, stateVars
<1>4. WakeupTypes'
  BY <1>1, <1>b DEF Types, WakeupTypes, wakeupVars
<1>5. UNCHANGED handleVars
  BY DEF handleVars
<1>6. ASSUME NEW u \in Threads \ {t}
      PROVE  Rests(u) /\ limit'[u] = limit[u] /\ wcount'[u] = wcount[u]
  BY <1>1 DEF Types, CallTypes, WakeupTypes, Rests, wakeupVars, callVars
<1>7. LocalOK(t)'
  BY <1>b
<1>8. ASSUME NEW h \in Handles, MayQueue(t, h) PROVE MayQueue(t, h)'
  BY <1>8, <1>b
<1>9. CountedOK(t)'
  BY <1>b
<1> QED BY <1>2, <1>3, <1>4, <1>5, <1>6, <1>7, <1>8, <1>9, QuietStepOK

\* ILWaitAll adjusts the limit to the handles that were not acquired.
LEMMA AdjustOK ==
  ASSUME WaitInv, NEW t \in Threads, Adjust(t)
  PROVE  WaitInv'
<1> USE DEF Adjust, Go, Set
<1>1. Types /\ LocalOK(t) /\ CountedOK(t)
  BY DEF WaitInv, ThreadOK
<1>2. /\ UNCHANGED handleVars /\ wcount' = wcount /\ object' = object /\ req' = req
      /\ need' = need /\ interrupted' = interrupted /\ hit' = hit /\ held' = held
      /\ queue' = queue
  BY DEF handleVars
<1>3. FlagTypes'
  BY <1>1 DEF Types, FlagTypes, stateVars
<1>4. WakeupTypes' /\ limit'[t] = need[t]
  BY <1>1 DEF Types, WakeupTypes, CallTypes
<1>5. ASSUME NEW u \in Threads \ {t}
      PROVE  Rests(u) /\ limit'[u] = limit[u] /\ wcount'[u] = wcount[u]
  BY <1>1, <1>2 DEF Types, CallTypes, WakeupTypes, Rests
<1>6. CASE need[t] = 0
  <2>1. pc'[t] = "unregister" /\ todo' = Set(todo, t, req[t].handles)
    BY <1>1, <1>6 DEF Types, CallTypes
  <2>2. /\ todo' \in [Threads -> Seq(Handles)]
        /\ LocalOK(t)' /\ CountedOK(t)'
        /\ \A h \in Handles : MayQueue(t, h) => MayQueue(t, h)'
    BY <1>1, <1>2, <2>1, WakesOK
  <2>3. CallTypes'
    BY <1>1, <1>2, <1>6, <2>2 DEF Types, CallTypes, Control, Results
  <2> QED BY <1>2, <1>3, <1>4, <1>5, <2>2, <2>3, QuietStepOK
<1>7. CASE need[t] # 0
  <2>1. pc'[t] = "sleep" /\ todo' = todo /\ res' = res
    BY <1>1, <1>7 DEF Types, CallTypes
  <2>2. CallTypes'
    BY <1>1, <1>2, <1>7, <2>1 DEF Types, CallTypes, Control
  <2>3. Size(t)' = Size(t) /\ Registered(t)' = Registered(t) /\ Gone(t)' = Gone(t)
    BY <1>2, <2>1 DEF Size, Registered, Total, Gone, InQueue
  <2>4. LocalOK(t)'
    BY <1>1, <1>2, <2>1, <2>3 DEF LocalOK, Looping, Registering, Outside
  <2>5. \A h \in Handles : MayQueue(t, h) => MayQueue(t, h)'
    BY <1>2, <2>1, <2>3 DEF MayQueue, Registering
  <2>6. CountedOK(t)'
    <3>1. /\ Size(t) \in Nat /\ need[t] \in Nat /\ wcount[t] \in Nat
          /\ limit[t] = Size(t) /\ need[t] <= Size(t)
      BY <1>1, CallNumbers DEF LocalOK, Outside, Registering
    <3>2. \/ t \in interrupted
          \/ wcount[t] >= limit[t]
          \/ Cardinality(Gone(t)) <= wcount[t] + Size(t) - need[t]
      BY <1>1 DEF CountedOK, Registering
    <3>3. wcount[t] >= limit[t] => wcount'[t] >= limit'[t]
      BY <1>2, <1>4, <3>1
    <3> QED BY <1>2, <2>3, <3>2, <3>3 DEF CountedOK
  <2> QED BY <1>2, <1>3, <1>4, <1>5, <2>2, <2>4, <2>5, <2>6, QuietStepOK
<1> QED BY <1>6, <1>7

-----------------------------------------------------------------------------
(* The registration and its handles. *)

\* The first item of a loop, and the rest.
LEMMA NextItem ==
  ASSUME NEW s \in Seq(Handles), s # <<>>
  PROVE  /\ Len(s) \in Nat \ {0} /\ Head(s) = s[1] /\ Head(s) \in Handles
         /\ Tail(s) \in Seq(Handles) /\ Len(Tail(s)) = Len(s) - 1
         /\ \A i \in 1..(Len(s) - 1) : Tail(s)[i] = s[i + 1]
         /\ Tail(s) = <<>> <=> Len(s) = 1
<1>1. Len(s) \in Nat /\ Len(s) # 0
  BY LenProperties, EmptySeq
<1>2. /\ Head(s) = s[1] /\ Head(s) \in Handles
      /\ Tail(s) \in Seq(Handles) /\ Len(Tail(s)) = Len(s) - 1
      /\ \A i \in 1..Len(Tail(s)) : Tail(s)[i] = s[i + 1]
  BY HeadTailProperties
<1>3. Tail(s) = <<>> <=> Len(Tail(s)) = 0
  BY <1>2, EmptySeq
<1> QED BY <1>1, <1>2, <1>3

\* The handle that is registered next: t has no item in its queue.
LEMMA RegisterNext ==
  ASSUME Types, NEW t \in Threads, ThreadOK(t), pc[t] = "register"
  PROVE  /\ Head(todo[t]) \in Handles
         /\ Total(t) \in Nat
         /\ Registered(t) \in Nat /\ Registered(t) + 1 \in 1..Total(t)
         /\ Head(todo[t]) = req[t].handles[Registered(t) + 1]
         /\ \A i \in 1..Registered(t) : req[t].handles[i] # Head(todo[t])
         /\ ~InQueue(t, Head(todo[t]))
<1>1. LocalOK(t) /\ QueuedOK(t)
  BY DEF ThreadOK
<1>2. /\ req[t] \in Calls /\ Total(t) \in Nat \ {0} /\ Len(todo[t]) \in Nat
  BY <1>1, CallNumbers DEF Outside
<1>3. todo[t] \in Seq(Handles) /\ todo[t] # <<>>
  BY <1>1 DEF Types, CallTypes, LocalOK, Looping
<1>4. Len(todo[t]) \in Nat \ {0} /\ Head(todo[t]) = todo[t][1] /\ Head(todo[t]) \in Handles
  BY <1>3, NextItem
<1>5. Len(todo[t]) <= Total(t)
  BY <1>1 DEF LocalOK
<1>6. todo[t][1] = req[t].handles[Registered(t) + 1]
  BY <1>1, <1>4 DEF LocalOK
<1>7. Registered(t) + 1 \in 1..Total(t) /\ Registered(t) \in Nat
  BY <1>2, <1>4, <1>5 DEF Registered
<1>8. ASSUME NEW i \in 1..Registered(t) PROVE req[t].handles[i] # Head(todo[t])
  <2>1. i \in 1..Total(t) /\ i # Registered(t) + 1
    BY <1>2, <1>7
  <2>2. \A k, j \in 1..Total(t) : req[t].handles[k] = req[t].handles[j] => k = j
    BY <1>2, CallFacts DEF Total
  <2> QED BY <1>4, <1>6, <1>7, <2>1, <2>2
<1>9. ~InQueue(t, Head(todo[t]))
  BY <1>1, <1>4, <1>8 DEF QueuedOK, MayQueue
<1> QED BY <1>2, <1>4, <1>6, <1>7, <1>8, <1>9

\* The registration goes on to the next handle.
LEMMA AdvanceOK ==
  ASSUME Types, NEW t \in Threads, LocalOK(t), pc[t] = "register", Advance(t), req' = req,
         limit' = limit, need'[t] <= need[t], need'[t] \in Nat,
         req[t].kind = "all" => need'[t] >= Len(todo[t]) - 1
  PROVE  /\ todo' \in [Threads -> Seq(Handles)] /\ todo'[t] = Tail(todo[t])
         /\ pc'[t] \in {"register", "adjust", "sleep"}
         /\ Size(t)' = Size(t) /\ Registered(t)' = Registered(t) + 1
         /\ LocalOK(t)'
         /\ \A h \in Handles : MayQueue(t, h) => MayQueue(t, h)'
<1>1. /\ req[t] \in Calls /\ Total(t) \in Nat \ {0} /\ Len(todo[t]) \in Nat
      /\ Size(t) \in Nat \ {0} /\ need[t] \in Nat
  BY CallNumbers DEF Outside
<1>2. todo[t] \in Seq(Handles) /\ todo[t] # <<>>
  BY DEF Types, CallTypes, LocalOK, Looping
<1>3. /\ Len(todo[t]) \in Nat \ {0}
      /\ Tail(todo[t]) \in Seq(Handles) /\ Len(Tail(todo[t])) = Len(todo[t]) - 1
      /\ \A i \in 1..(Len(todo[t]) - 1) : Tail(todo[t])[i] = todo[t][i + 1]
      /\ Tail(todo[t]) = <<>> <=> Len(todo[t]) = 1
  BY <1>2, NextItem
<1>4. /\ todo'[t] = Tail(todo[t])
      /\ pc'[t] = IF Len(todo[t]) > 1 THEN "register"
                  ELSE IF req[t].kind = "all" THEN "adjust" ELSE "sleep"
  BY DEF Advance, Set, Go, Types, CallTypes
<1>5. todo' \in [Threads -> Seq(Handles)]
  BY <1>3 DEF Advance, Set, Types, CallTypes
<1>6. Size(t)' = Size(t) /\ Total(t)' = Total(t) /\ Registered(t)' = Registered(t) + 1
  <2>1. Size(t)' = Size(t) /\ Total(t)' = Total(t)
    BY DEF Size, Total
  <2>2. Registered(t)' = Total(t) - (Len(todo[t]) - 1)
    BY <1>3, <1>4, <2>1 DEF Registered
  <2>3. Registered(t) = Total(t) - Len(todo[t])
    BY DEF Registered
  <2> QED BY <1>1, <2>1, <2>2, <2>3
<1>7. /\ need[t] <= Size(t) /\ limit[t] = Size(t) /\ Len(todo[t]) <= Total(t)
      /\ \A i \in 1..Len(todo[t]) : todo[t][i] = req[t].handles[Registered(t) + i]
  BY DEF LocalOK, Registering
<1>8. need'[t] <= Size(t)
  BY <1>1, <1>7
<1>9. ASSUME NEW i \in 1..Len(todo'[t])
      PROVE  todo'[t][i] = req[t].handles[Registered(t)' + i]
  <2>1. i \in 1..(Len(todo[t]) - 1) /\ i + 1 \in 1..Len(todo[t])
    BY <1>3, <1>4
  <2>2. todo'[t][i] = todo[t][i + 1]
    BY <1>3, <1>4, <2>1
  <2>3. Registered(t) + (i + 1) = Registered(t)' + i
    BY <1>1, <1>6, <2>1 DEF Registered
  <2> QED BY <1>7, <2>1, <2>2, <2>3
<1>10. Len(todo'[t]) <= Total(t)
  BY <1>1, <1>3, <1>4, <1>7
<1>11. LocalOK(t)'
  <2>1. pc'[t] \in {"adjust", "sleep"} => todo'[t] = <<>>
    BY <1>3, <1>4
  <2>2. pc'[t] = "register" => todo'[t] # <<>>
    <3>1. CASE Len(todo[t]) > 1
      <4>0. PICK n \in Nat : n = Len(todo[t])
        BY <1>1
      <4>a. n > 1
        BY <3>1, <4>0
      <4>b. n # 1
        BY <4>a
      <4>1. Len(todo[t]) # 1
        BY <4>0, <4>b
      <4>2. Tail(todo[t]) # <<>>
        BY <1>3, <4>1, Zenon
      <4> QED BY <1>4, <4>2, Zenon
    <3>2. CASE ~(Len(todo[t]) > 1)
      BY <1>4, <3>2
    <3> QED BY <3>1, <3>2
  <2>3. req'[t] = req[t] /\ limit'[t] = limit[t] /\ pc'[t] \in {"register", "adjust", "sleep"}
    BY <1>4
  <2>4. req[t].kind = "all" => need'[t] >= Len(todo'[t])
    BY <1>3, <1>4
  <2> QED BY <1>1, <1>6, <1>7, <1>8, <1>9, <1>10, <2>1, <2>2, <2>3, <2>4
          DEF LocalOK, Looping, Registering, Outside
<1>12. ASSUME NEW h \in Handles, MayQueue(t, h) PROVE MayQueue(t, h)'
  <2>1. PICK i \in 1..Registered(t) : req[t].handles[i] = h
    BY <1>12 DEF MayQueue
  <2>2. i \in 1..(Registered(t) + 1)
    BY <1>1 DEF Registered
  <2> QED BY <1>4, <1>6, <2>1, <2>2 DEF MayQueue, Registering
<1> QED BY <1>4, <1>5, <1>6, <1>11, <1>12

\* The handle is not acquired: the thread joins its queue.
LEMMA RegisterQueuedOK ==
  ASSUME WaitInv, NEW t \in Threads, RegisterQueued(t)
  PROVE  WaitInv'
<1>1. Types /\ ThreadOK(t) /\ LocalOK(t) /\ CountedOK(t) /\ QueuedOK(t) /\ HandleOK
  BY DEF WaitInv, ThreadOK, HandleOK, Types
<1>2. /\ pc[t] = "register" /\ ~Available(t, Head(todo[t])) /\ Enqueue(t, Head(todo[t]))
      /\ Advance(t) /\ req' = req /\ need' = need /\ res' = res /\ hit' = hit /\ held' = held
      /\ wcount' = wcount /\ limit' = limit /\ object' = object
      /\ interrupted' = interrupted
  BY DEF RegisterQueued, wakeupVars
<1>3. PICK h : h = Head(todo[t])
  OBVIOUS
<1>4. /\ h \in Handles /\ Total(t) \in Nat
      /\ Registered(t) \in Nat /\ Registered(t) + 1 \in 1..Total(t)
      /\ h = req[t].handles[Registered(t) + 1]
      /\ \A i \in 1..Registered(t) : req[t].handles[i] # h
      /\ ~InQueue(t, h)
  BY <1>1, <1>2, <1>3, RegisterNext
<1>5. /\ HandleTypes' /\ OnceOK' /\ FreeOK' /\ InQueue(t, h)'
      /\ \A u, g : g \in Handles /\ (u # t \/ g # h) => (InQueue(u, g)' <=> InQueue(u, g))
  BY <1>1, <1>2, <1>3, <1>4, EnqueueOK
<1>6. WakeupTypes'
  BY <1>1, <1>2 DEF WakeupTypes, HandleOK
<1>7. FlagTypes'
  BY <1>1, <1>2 DEF RegisterQueued, stateVars, Types, FlagTypes
<1>8. /\ todo' \in [Threads -> Seq(Handles)]
      /\ pc'[t] \in {"register", "adjust", "sleep"}
      /\ Size(t)' = Size(t) /\ Registered(t)' = Registered(t) + 1
      /\ LocalOK(t)'
      /\ \A g \in Handles : MayQueue(t, g) => MayQueue(t, g)'
  <2>1. need'[t] <= need[t] /\ need'[t] \in Nat
    BY <1>1, <1>2 DEF Types, CallTypes
  <2>2. req[t].kind = "all" => need'[t] >= Len(todo[t]) - 1
    <3>1. Len(todo[t]) \in Nat
      BY <1>1, <1>2, CallNumbers DEF Outside
    <3> QED BY <1>1, <1>2, <2>1, <3>1 DEF LocalOK
  <2> QED BY <1>1, <1>2, <2>1, <2>2, AdvanceOK
<1>9. CallTypes'
  <2>1. pc' \in [Threads -> Control]
    BY <1>1, <1>2 DEF Advance, Go, Types, CallTypes, Control
  <2> QED BY <1>1, <1>2, <1>8, <2>1 DEF Types, CallTypes
<1>10. ASSUME NEW u \in Threads \ {t} PROVE Rests(u) /\ Served(u)
  <2>1. Rests(u)
    BY <1>1, <1>2 DEF Rests, Advance, Go, Set, Types, CallTypes
  <2>2. Untouched(u)
    BY <1>2, <1>5 DEF Untouched
  <2> QED BY <2>1, <2>2 DEF Served
<1>11. QueuedOK(t)'
  <2> SUFFICES ASSUME NEW g \in Handles, InQueue(t, g)' PROVE MayQueue(t, g)'
    BY DEF QueuedOK
  <2>1. CASE g = h
    <3>1. Registered(t)' \in 1..Registered(t)'
      BY <1>4, <1>8
    <3>2. req'[t].handles[Registered(t)'] = h
      BY <1>2, <1>4, <1>8
    <3> QED BY <1>8, <2>1, <3>1, <3>2 DEF MayQueue, Registering
  <2>2. CASE g # h
    BY <1>1, <1>5, <1>8, <2>2 DEF QueuedOK
  <2> QED BY <2>1, <2>2
<1>12. CountedOK(t)'
  <2>1. \A i \in 1..Registered(t) : req[t].handles[i] \in Handles
    <3>1. req[t] \in Calls
      BY <1>1, <1>2 DEF LocalOK, Outside
    <3>2. \A i \in 1..Total(t) : req[t].handles[i] \in Handles
      BY <3>1, CallFacts DEF Total
    <3>3. \A i \in 1..Registered(t) : i \in 1..Total(t)
      BY <1>4
    <3> QED BY <3>2, <3>3
  <2>2. Gone(t)' = Gone(t)
    <3>0. PICK n : n = Registered(t)
      OBVIOUS
    <3>1. PICK f : f = req[t].handles
      OBVIOUS
    <3>2. Gone(t) = {i \in 1..n : ~InQueue(t, f[i])}
      BY <3>0, <3>1 DEF Gone
    <3>3. Gone(t)' = {i \in 1..(n + 1) : ~InQueue(t, f[i])'}
      BY <1>2, <1>8, <3>0, <3>1 DEF Gone, InQueue
    <3>4. /\ n \in Nat /\ h = f[n + 1] /\ \A i \in 1..n : f[i] \in Handles /\ f[i] # h
      BY <1>4, <2>1, <3>0, <3>1
    <3>5. \A i \in 1..n : InQueue(t, f[i])' <=> InQueue(t, f[i])
      BY <1>5, <3>4
    <3>6. InQueue(t, f[n + 1])'
      BY <1>5, <3>4
    <3>7. \A i : i \in 1..(n + 1) <=> i \in 1..n \/ i = n + 1
      BY <3>4
    <3> QED BY <3>2, <3>3, <3>5, <3>6, <3>7
  <2> QED BY <1>1, <1>2, <1>8, <2>2 DEF CountedOK, Registering
<1>13. HandleOK' /\ ThreadOK(t)'
  BY <1>5, <1>6, <1>8, <1>11, <1>12 DEF HandleOK, ThreadOK
<1> QED BY <1>7, <1>9, <1>10, <1>13, StepOK

\* The handle is acquired: ILWaitAll goes on, the other calls end.
LEMMA RegisterAcquiredOK ==
  ASSUME WaitInv, NEW t \in Threads, RegisterAcquired(t)
  PROVE  WaitInv'
<1>1. Types /\ ThreadOK(t) /\ LocalOK(t) /\ CountedOK(t) /\ QueuedOK(t) /\ HandleOK
  BY DEF WaitInv, ThreadOK, HandleOK, Types
<1>2. /\ pc[t] = "register" /\ Acquire(t, Head(todo[t]))
      /\ wcount' = wcount /\ object' = object /\ interrupted' = interrupted
      /\ req' = req /\ held' = held
  BY DEF RegisterAcquired
<1>3. PICK h : h = Head(todo[t])
  OBVIOUS
<1>4. /\ h \in Handles /\ Total(t) \in Nat
      /\ Registered(t) \in Nat /\ Registered(t) + 1 \in 1..Total(t)
      /\ ~InQueue(t, h)
  BY <1>1, <1>2, <1>3, RegisterNext
<1>5. HandleTypes' /\ OnceOK' /\ FreeOK' /\ queue' = queue
  BY <1>1, <1>2, <1>3, <1>4, AcquireOK
<1>6. \A u, g : InQueue(u, g)' <=> InQueue(u, g)
  BY <1>5 DEF InQueue
<1>7. FlagTypes'
  BY <1>1, <1>2 DEF RegisterAcquired, stateVars, Types, FlagTypes
<1>8. /\ Len(todo[t]) \in Nat /\ need[t] \in Nat /\ Size(t) \in Nat /\ wcount[t] \in Nat
      /\ Registered(t) \in Int /\ Cardinality(Gone(t)) \in Nat /\ todo[t] # <<>>
      /\ limit[t] \in Nat
  BY <1>1, <1>2, CallNumbers DEF Outside, LocalOK, Looping
<1>9. CASE /\ req[t].kind = "all"
           /\ need' = Set(need, t, need[t] - 1)
           /\ Advance(t)
           /\ UNCHANGED <<limit, res, hit>>
  <2>1. /\ need'[t] = need[t] - 1 /\ need[t] >= Len(todo[t]) /\ Len(todo[t]) >= 1
    <3>1. todo[t] \in Seq(Handles)
      BY <1>1 DEF Types, CallTypes
    <3>2. Len(todo[t]) >= 1
      BY <1>8, <3>1, NextItem
    <3> QED BY <1>1, <1>2, <1>9, <3>2 DEF LocalOK, Set, Types, CallTypes
  <2>2. need'[t] \in Nat /\ need'[t] <= need[t] /\ need'[t] >= Len(todo[t]) - 1
    BY <1>8, <2>1
  <2>3. /\ todo' \in [Threads -> Seq(Handles)]
        /\ pc'[t] \in {"register", "adjust", "sleep"}
        /\ Size(t)' = Size(t) /\ Registered(t)' = Registered(t) + 1
        /\ LocalOK(t)'
        /\ \A g \in Handles : MayQueue(t, g) => MayQueue(t, g)'
    BY <1>1, <1>2, <1>9, <2>2, AdvanceOK
  <2>4. CallTypes'
    <3>1. pc' \in [Threads -> Control]
      BY <1>1, <1>9 DEF Advance, Go, Types, CallTypes, Control
    <3>2. need' \in [Threads -> Nat]
      BY <1>1, <1>9, <2>1, <2>2 DEF Set, Types, CallTypes
    <3> QED BY <1>1, <1>2, <1>9, <2>3, <3>1, <3>2 DEF Types, CallTypes
  <2>5. WakeupTypes'
    BY <1>1, <1>2, <1>9 DEF HandleOK, WakeupTypes
  <2>6. ASSUME NEW u \in Threads \ {t} PROVE Rests(u) /\ Served(u)
    <3>1. Rests(u)
      BY <1>1, <1>2, <1>9 DEF Rests, Advance, Go, Set, Types, CallTypes
    <3>2. Untouched(u)
      BY <1>2, <1>6, <1>9 DEF Untouched
    <3> QED BY <3>1, <3>2 DEF Served
  <2>7. QueuedOK(t)'
    BY <1>1, <1>6, <2>3 DEF QueuedOK
  <2>8. CountedOK(t)'
    <3>1. Gone(t)' \subseteq Gone(t) \cup {Registered(t) + 1}
      <4>1. Gone(t)' = {i \in 1..(Registered(t) + 1) : ~InQueue(t, req[t].handles[i])}
        BY <1>2, <1>5, <2>3 DEF Gone, InQueue
      <4>2. \A i \in 1..(Registered(t) + 1) : i \in 1..Registered(t) \/ i = Registered(t) + 1
        BY <1>8
      <4> QED BY <4>1, <4>2 DEF Gone
    <3>2. Gone(t) \subseteq 1..Registered(t) /\ Registered(t) + 1 \in Int
      BY <1>8 DEF Gone
    <3>3. PICK R : R = Gone(t)'
      OBVIOUS
    <3>4. Cardinality(R) \in Nat /\ Cardinality(R) <= Cardinality(Gone(t)) + 1
      BY <1>8, <3>1, <3>2, <3>3, OneMore
    <3>5. \/ t \in interrupted
          \/ wcount[t] >= limit[t]
          \/ Cardinality(Gone(t)) <= wcount[t] + Size(t) - need[t]
      BY <1>1, <1>2 DEF CountedOK, Registering
    <3>6. CASE Cardinality(Gone(t)) <= wcount[t] + Size(t) - need[t]
      <4>1. Cardinality(R) <= wcount[t] + Size(t) - (need[t] - 1)
        BY <1>8, <3>4, <3>6
      <4> QED BY <1>2, <2>1, <2>3, <3>3, <4>1 DEF CountedOK
    <3> QED BY <1>2, <1>9, <3>5, <3>6 DEF CountedOK
  <2>9. HandleOK' /\ ThreadOK(t)'
    BY <1>5, <2>3, <2>5, <2>7, <2>8 DEF HandleOK, ThreadOK
  <2> QED BY <1>7, <2>4, <2>6, <2>9, StepOK
<1>10. CASE /\ hit' = Set(hit, t, Head(todo[t]))
            /\ Finish(t, "ok")
            /\ UNCHANGED need
  <2>1. /\ todo' \in [Threads -> Seq(Handles)]
        /\ LocalOK(t)' /\ CountedOK(t)'
        /\ \A g \in Handles : MayQueue(t, g) => MayQueue(t, g)'
    BY <1>1, <1>2, <1>10, FinishOK
  <2>2. CallTypes'
    <3>1. pc' \in [Threads -> Control]
      BY <1>1, <1>10 DEF Finish, Go, Types, CallTypes, Control
    <3>2. res' \in [Threads -> Results]
      BY <1>1, <1>10 DEF Finish, Set, Types, CallTypes, Results
    <3>3. hit' \in [Threads -> Handles \cup {NoHandle}]
      BY <1>1, <1>3, <1>4, <1>10 DEF Set, Types, CallTypes
    <3> QED BY <1>1, <1>2, <1>10, <2>1, <3>1, <3>2, <3>3 DEF Types, CallTypes
  <2>3. WakeupTypes'
    BY <1>1, <1>2, <1>10 DEF HandleOK, WakeupTypes, Finish, Set
  <2>4. ASSUME NEW u \in Threads \ {t} PROVE Rests(u) /\ Served(u)
    <3>1. Rests(u)
      BY <1>1, <1>2, <1>10 DEF Rests, Finish, Go, Set, Types, CallTypes
    <3>2. limit'[u] = limit[u]
      BY <1>1, <1>10 DEF Finish, Set, HandleOK, WakeupTypes
    <3>3. Untouched(u)
      BY <1>2, <1>6, <3>2 DEF Untouched
    <3> QED BY <3>1, <3>3 DEF Served
  <2>5. QueuedOK(t)'
    BY <1>1, <1>6, <2>1 DEF QueuedOK
  <2>6. HandleOK' /\ ThreadOK(t)'
    BY <1>5, <2>1, <2>3, <2>5 DEF HandleOK, ThreadOK
  <2> QED BY <1>7, <2>2, <2>4, <2>6, StepOK
<1> QED BY <1>9, <1>10 DEF RegisterAcquired

-----------------------------------------------------------------------------
(* The loops that unregister. *)

\* The head of the loop is unregistered: what t may still have in queues.
LEMMA LoopItem ==
  ASSUME WaitInv, NEW t \in Threads, pc[t] \in {"undo", "unregister", "giveBack"},
         NEW release \in BOOLEAN, Unregister(t, Head(todo[t]), release), req' = req
  PROVE  /\ HandleOK' /\ \A u \in Threads \ {t} : Served(u)
         /\ Len(todo[t]) \in Nat \ {0} /\ Tail(todo[t]) \in Seq(Handles)
         /\ Tail(todo[t]) = <<>> <=> Len(todo[t]) = 1
         /\ \A g \in Handles : InQueue(t, g)' =>
              /\ pc[t] # "giveBack" /\ Len(todo[t]) > 1
              /\ \E i \in 1..Len(Tail(todo[t])) : Tail(todo[t])[i] = g
<1>1. Types /\ LocalOK(t) /\ QueuedOK(t) /\ HandleOK
  BY DEF WaitInv, ThreadOK, HandleOK, Types
<1>2. todo[t] \in Seq(Handles) /\ todo[t] # <<>>
  BY <1>1 DEF Types, CallTypes, LocalOK, Looping
<1>3. /\ Len(todo[t]) \in Nat \ {0} /\ Head(todo[t]) = todo[t][1] /\ Head(todo[t]) \in Handles
      /\ Tail(todo[t]) \in Seq(Handles) /\ Len(Tail(todo[t])) = Len(todo[t]) - 1
      /\ \A i \in 1..(Len(todo[t]) - 1) : Tail(todo[t])[i] = todo[t][i + 1]
      /\ Tail(todo[t]) = <<>> <=> Len(todo[t]) = 1
  BY <1>2, NextItem
<1>4. PICK h : h = Head(todo[t])
  OBVIOUS
<1>5. /\ HandleOK' /\ \A u \in Threads \ {t} : Served(u)
      /\ ~InQueue(t, h)'
      /\ \A g \in Handles \ {h} : InQueue(t, g)' <=> InQueue(t, g)
  BY <1>1, <1>3, <1>4, UnregisterOK
<1>6. ASSUME NEW g \in Handles, InQueue(t, g)'
      PROVE  /\ pc[t] # "giveBack" /\ Len(todo[t]) > 1
             /\ \E i \in 1..Len(Tail(todo[t])) : Tail(todo[t])[i] = g
  <2>1. g # h /\ InQueue(t, g)
    BY <1>5, <1>6
  <2>2. MayQueue(t, g)
    BY <1>1, <2>1 DEF QueuedOK
  <2>3. pc[t] # "giveBack" /\ \E i \in 1..Len(todo[t]) : todo[t][i] = g
    BY <2>2 DEF MayQueue, Registering
  <2>4. PICK i \in 1..Len(todo[t]) : todo[t][i] = g
    BY <2>3
  <2>5. i # 1
    BY <1>3, <1>4, <2>1, <2>4
  <2>6. i - 1 \in 1..(Len(todo[t]) - 1) /\ (i - 1) + 1 = i /\ Len(todo[t]) > 1
    BY <1>3, <2>5
  <2>7. Tail(todo[t])[i - 1] = g
    BY <1>3, <2>4, <2>6
  <2> QED BY <1>3, <2>3, <2>6, <2>7
<1> QED BY <1>3, <1>5, <1>6

\* One turn of a loop that goes on to c, or leaves.
LEMMA LoopStepOK ==
  ASSUME WaitInv, NEW t \in Threads, NEW c \in {"undo", "unregister"}, pc[t] = c,
         NEW release \in BOOLEAN, Unregister(t, Head(todo[t]), release),
         todo' = Set(todo, t, Tail(todo[t])),
         Go(t, IF Len(todo[t]) > 1 THEN c ELSE "leave"),
         UNCHANGED <<interrupted, stateVars, req, need, res, hit, held>>
  PROVE  WaitInv'
<1>1. Types /\ LocalOK(t)
  BY DEF WaitInv, ThreadOK
<1>2. /\ HandleOK' /\ \A u \in Threads \ {t} : Served(u)
      /\ Len(todo[t]) \in Nat \ {0} /\ Tail(todo[t]) \in Seq(Handles)
      /\ Tail(todo[t]) = <<>> <=> Len(todo[t]) = 1
      /\ \A g \in Handles : InQueue(t, g)' =>
           /\ Len(todo[t]) > 1
           /\ \E i \in 1..Len(Tail(todo[t])) : Tail(todo[t])[i] = g
  BY LoopItem
<1>3. /\ pc'[t] = IF Len(todo[t]) > 1 THEN c ELSE "leave"
      /\ todo'[t] = Tail(todo[t]) /\ req'[t] = req[t]
  BY <1>1 DEF Go, Set, Types, CallTypes
<1>4. CallTypes'
  <2>1. pc' \in [Threads -> Control]
    BY <1>1 DEF Go, Types, CallTypes, Control
  <2>2. todo' \in [Threads -> Seq(Handles)]
    BY <1>1, <1>2 DEF Set, Types, CallTypes
  <2> QED BY <1>1, <2>1, <2>2 DEF Types, CallTypes
<1>5. FlagTypes'
  BY <1>1 DEF Types, FlagTypes, stateVars
<1>6. ASSUME NEW u \in Threads \ {t} PROVE Rests(u)
  BY <1>1 DEF Rests, Go, Set, Types, CallTypes
<1>7. LocalOK(t)'
  <2>1. req[t] \in Calls
    BY <1>1 DEF LocalOK, Outside
  <2>2. CASE Len(todo[t]) = 1
    BY <1>3, <2>1, <2>2 DEF LocalOK, Looping, Registering, Outside
  <2>3. CASE Len(todo[t]) > 1
    <3>0. PICK n \in Nat : n = Len(todo[t])
      BY <1>2
    <3>a. n > 1
      BY <2>3, <3>0
    <3>b. n # 1
      BY <3>a
    <3>c. Tail(todo[t]) # <<>>
      BY <1>2, <3>0, <3>b, Zenon
    <3>1. todo'[t] # <<>> /\ pc'[t] = c
      BY <1>3, <2>3, <3>c
    <3> QED BY <1>3, <2>1, <3>1 DEF LocalOK, Looping, Registering, Outside
  <2> QED BY <1>2, <2>2, <2>3
<1>8. QueuedOK(t)'
  <2> SUFFICES ASSUME NEW g \in Handles, InQueue(t, g)' PROVE MayQueue(t, g)'
    BY DEF QueuedOK
  <2>1. pc'[t] = c
    BY <1>2, <1>3
  <2>2. PICK i \in 1..Len(Tail(todo[t])) : Tail(todo[t])[i] = g
    BY <1>2
  <2>3. i \in 1..Len(todo'[t]) /\ todo'[t][i] = g
    BY <1>3, <2>2
  <2> QED BY <2>1, <2>3 DEF MayQueue
<1>9. CountedOK(t)'
  BY <1>3 DEF CountedOK, Registering
<1>10. ThreadOK(t)'
  BY <1>7, <1>8, <1>9 DEF ThreadOK
<1> QED BY <1>2, <1>4, <1>5, <1>6, <1>10, StepOK

\* The loop after a registration that ended the call ...
LEMMA UndoOK ==
  ASSUME WaitInv, NEW t \in Threads, Undo(t)
  PROVE  WaitInv'
<1>1. /\ pc[t] = "undo" /\ Unregister(t, Head(todo[t]), TRUE)
      /\ todo' = Set(todo, t, Tail(todo[t]))
      /\ Go(t, IF Len(todo[t]) > 1 THEN "undo" ELSE "leave")
      /\ UNCHANGED <<interrupted, stateVars, req, need, res, hit, held>>
  BY DEF Undo
<1> QED BY <1>1, LoopStepOK

\* ... and the loop after the wait.
LEMMA UnregisterNextOK ==
  ASSUME WaitInv, NEW t \in Threads, UnregisterNext(t)
  PROVE  WaitInv'
<1>1. PICK release \in BOOLEAN : release = ~Keeps(t, Head(todo[t]))
  OBVIOUS
<1>2. /\ pc[t] = "unregister" /\ Unregister(t, Head(todo[t]), release)
      /\ todo' = Set(todo, t, Tail(todo[t]))
      /\ Go(t, IF Len(todo[t]) > 1 THEN "unregister" ELSE "leave")
      /\ UNCHANGED <<interrupted, stateVars, req, need, res, hit, held>>
  BY <1>1 DEF UnregisterNext
<1> QED BY <1>2, LoopStepOK

\* _ILLeaveWaitHandle gives back what was acquired.
LEMMA GiveBackOK ==
  ASSUME WaitInv, NEW t \in Threads, GiveBack(t)
  PROVE  WaitInv'
<1>1. Types /\ LocalOK(t)
  BY DEF WaitInv, ThreadOK
<1>2. /\ pc[t] = "giveBack" /\ Unregister(t, Head(todo[t]), TRUE)
      /\ UNCHANGED <<interrupted, stateVars, held>>
  BY DEF GiveBack
<1>3. CASE /\ Len(todo[t]) > 1
           /\ todo' = Set(todo, t, Tail(todo[t]))
           /\ UNCHANGED <<pc, req, need, res, hit>>
  <2>1. /\ HandleOK' /\ \A u \in Threads \ {t} : Served(u)
        /\ Len(todo[t]) \in Nat \ {0} /\ Tail(todo[t]) \in Seq(Handles)
        /\ Tail(todo[t]) = <<>> <=> Len(todo[t]) = 1
        /\ \A g \in Handles : ~InQueue(t, g)'
    BY <1>2, <1>3, LoopItem
  <2>2. todo' \in [Threads -> Seq(Handles)] /\ todo'[t] = Tail(todo[t]) /\ todo'[t] # <<>>
    <3>1. todo' \in [Threads -> Seq(Handles)] /\ todo'[t] = Tail(todo[t])
      BY <1>1, <1>3, <2>1 DEF Set, Types, CallTypes
    <3>2. PICK n \in Nat : n = Len(todo[t])
      BY <2>1
    <3>3. n > 1
      BY <1>3, <3>2
    <3>4. n # 1
      BY <3>3
    <3>5. Tail(todo[t]) # <<>>
      BY <2>1, <3>2, <3>4, Zenon
    <3> QED BY <3>1, <3>5
  <2>3. CallTypes' /\ FlagTypes'
    BY <1>1, <1>2, <1>3, <2>2 DEF Types, CallTypes, FlagTypes, stateVars
  <2>4. ASSUME NEW u \in Threads \ {t} PROVE Rests(u)
    BY <1>1, <1>2, <1>3 DEF Rests, Set, Types, CallTypes
  <2>5. LocalOK(t)'
    BY <1>1, <1>2, <1>3, <2>2 DEF LocalOK, Looping, Registering, Outside
  <2>6. ThreadOK(t)'
    BY <1>2, <1>3, <2>1, <2>5 DEF ThreadOK, QueuedOK, CountedOK, Registering
  <2> QED BY <2>1, <2>3, <2>4, <2>6, StepOK
<1>4. CASE Len(todo[t]) = 1 /\ Return(t)
  <2>1. CallTypes' /\ pc'[t] = "idle"
    BY <1>1, <1>2, <1>4, EmptySeq DEF Return, Go, Set, Types, CallTypes, Control, Results
  <2>2. FlagTypes'
    BY <1>1, <1>2 DEF Types, FlagTypes, stateVars
  <2>3. ASSUME NEW u \in Threads \ {t} PROVE Rests(u)
    BY <1>1, <1>2, <1>4 DEF Rests, Return, Go, Set, Types, CallTypes
  <2>4. LocalOK(t)'
    BY <2>1 DEF LocalOK, Looping, Registering, Outside
  <2>5. Types /\ QueuedOK(t) /\ HandleOK /\ todo[t] \in Seq(Handles) /\ todo[t] # <<>>
    BY <1>1, <1>2 DEF WaitInv, ThreadOK, HandleOK, Types, CallTypes, LocalOK, Looping
  <2>6. Head(todo[t]) \in Handles
    BY <2>5, NextItem
  <2>7. PICK h : h = Head(todo[t])
    OBVIOUS
  <2>8. /\ HandleOK' /\ \A u \in Threads \ {t} : Served(u)
        /\ ~InQueue(t, h)'
        /\ \A g \in Handles \ {h} : InQueue(t, g)' <=> InQueue(t, g)
    BY <1>2, <2>5, <2>6, <2>7, UnregisterOK
  <2>9. \A g \in Handles : ~InQueue(t, g)
    BY <1>2, <2>5 DEF QueuedOK, MayQueue, Registering
  <2>10. \A g \in Handles : ~InQueue(t, g)'
    BY <2>8, <2>9
  <2>11. ThreadOK(t)'
    BY <2>1, <2>4, <2>10 DEF ThreadOK, QueuedOK, CountedOK, Registering
  <2> QED BY <2>1, <2>2, <2>3, <2>8, <2>11, StepOK
<1> QED BY <1>3, <1>4 DEF GiveBack

-----------------------------------------------------------------------------
(* The other steps. *)

\* A step by which every thread stays where it is.
LEMMA OutsideStepOK ==
  ASSUME WaitInv, HandleOK', FlagTypes', CallTypes',
         \A u \in Threads : Rests(u) /\ Served(u)
  PROVE  WaitInv'
<1>1. ASSUME NEW u \in Threads PROVE ThreadOK(u)'
  BY RestsOK DEF WaitInv
<1> QED BY <1>1 DEF WaitInv, HandleOK, Types

\* Handing a mutex over from its whole queue serves every thread.
LEMMA ReleaseOK ==
  ASSUME WaitInv, NEW t \in Threads, NEW m \in Mutexes, HandOver(t, m, queue[m]),
         isSet' = isSet
  PROVE  HandleOK' /\ \A u \in Threads : Served(u)
<1>1. HandleOK /\ m \in Handles
  BY DEF WaitInv, HandleOK, Types, Handles
<1>2. queue[m] \in Seq(Threads) /\ Once(queue[m]) /\ HandleTypes
  BY <1>1 DEF HandleOK, HandleTypes, OnceOK
<1>3. \A u : InQueue(u, m) <=> Occurs(u, queue[m])
  BY <1>1, <1>2, QueueItems
<1>4. PICK q : q = queue[m]
  OBVIOUS
<1>5. /\ HandleOK'
      /\ \A u \in Threads : (Occurs(u, q) <=> InQueue(u, m)) => Served(u)
  BY <1>1, <1>2, <1>4, HandOverOK
<1> QED BY <1>3, <1>4, <1>5

\* ILWaitMutexRelease.
LEMMA MutexReleaseOK ==
  ASSUME WaitInv, NEW t \in Threads, NEW m \in Mutexes, MutexRelease(t, m)
  PROVE  WaitInv'
<1>1. Types
  BY DEF WaitInv
<1>2. /\ isSet' = isSet /\ interrupted' = interrupted /\ UNCHANGED stateVars
      /\ UNCHANGED <<pc, req, todo, need, res, hit>>
      /\ held' = [held EXCEPT ![t][m] = @ - 1]
  BY DEF MutexRelease
<1>3. FlagTypes'
  BY <1>1, <1>2 DEF Types, FlagTypes, stateVars
<1>4. CallTypes'
  <2>1. held' = [held EXCEPT ![t] = [held[t] EXCEPT ![m] = held[t][m] - 1]]
    BY <1>2
  <2>2. [held[t] EXCEPT ![m] = held[t][m] - 1] \in [Mutexes -> Int]
    BY <1>1 DEF Types, CallTypes
  <2>3. held' \in [Threads -> [Mutexes -> Int]]
    BY <1>1, <2>1, <2>2 DEF Types, CallTypes
  <2> QED BY <1>1, <1>2, <2>3 DEF Types, CallTypes
<1>5. \A u \in Threads : Rests(u)
  BY <1>2 DEF Rests
<1>6. HandleOK' /\ \A u \in Threads : Served(u)
  <2>1. CASE HandOver(t, m, queue[m])
    BY <1>2, <2>1, ReleaseOK
  <2>2. CASE /\ count[m] > 1
             /\ count' = [count EXCEPT ![m] = @ - 1]
             /\ UNCHANGED <<owner, tableVars, queue, wakeupVars>>
    <3>1. count' \in [Mutexes -> Nat]
      BY <1>1, <2>2 DEF Types, HandleTypes
    <3>2. HandleOK'
      BY <1>1, <1>2, <2>2, <3>1
         DEF HandleOK, WaitInv, Types, HandleTypes, WakeupTypes, OnceOK, FreeOK, wakeupVars
    <3>3. \A u \in Threads : Untouched(u)
      BY <2>2 DEF Untouched, InQueue, wakeupVars
    <3> QED BY <3>2, <3>3 DEF Served
  <2> QED BY <2>1, <2>2 DEF MutexRelease
<1> QED BY <1>3, <1>4, <1>5, <1>6, OutsideStepOK

\* _ILWakeupDestroy releases a mutex.
LEMMA DestroyNextOK ==
  ASSUME WaitInv, NEW t \in Threads, DestroyNext(t)
  PROVE  WaitInv'
<1>1. Types
  BY DEF WaitInv
<1>2. /\ isSet' = isSet /\ interrupted' = interrupted /\ UNCHANGED stateVars
      /\ UNCHANGED <<pc, req, todo, need, res, hit>>
  BY DEF DestroyNext
<1>3. PICK m \in Mutexes :
        \/ /\ HandOver(t, m, queue[m])
           /\ held' = [held EXCEPT ![t][m] = 0]
        \/ /\ RemoveFromTable(t, m)
           /\ UNCHANGED <<owner, count, queue, wakeupVars, held>>
  BY DEF DestroyNext
<1>4. FlagTypes'
  BY <1>1, <1>2 DEF Types, FlagTypes, stateVars
<1>5. CallTypes'
  <2>1. held' \in [Threads -> [Mutexes -> Int]]
    <3>1. CASE held' = [held EXCEPT ![t][m] = 0]
      <4>1. held' = [held EXCEPT ![t] = [held[t] EXCEPT ![m] = 0]]
        BY <3>1
      <4>2. [held[t] EXCEPT ![m] = 0] \in [Mutexes -> Int]
        BY <1>1 DEF Types, CallTypes
      <4> QED BY <1>1, <4>1, <4>2 DEF Types, CallTypes
    <3>2. CASE held' = held
      BY <1>1, <3>2 DEF Types, CallTypes
    <3> QED BY <1>3, <3>1, <3>2
  <2> QED BY <1>1, <1>2, <2>1 DEF Types, CallTypes
<1>6. \A u \in Threads : Rests(u)
  BY <1>2 DEF Rests
<1>7. HandleOK' /\ \A u \in Threads : Served(u)
  <2>1. CASE HandOver(t, m, queue[m])
    BY <1>2, <2>1, ReleaseOK
  <2>2. CASE RemoveFromTable(t, m) /\ UNCHANGED <<owner, count, queue, wakeupVars, held>>
    <3>1. TableTypes'
      BY <1>1, <2>2, RemoveFromTableOK DEF Types, HandleTypes
    <3>2. HandleOK'
      BY <1>1, <1>2, <2>2, <3>1
         DEF HandleOK, WaitInv, Types, HandleTypes, WakeupTypes, OnceOK, FreeOK, wakeupVars
    <3>3. \A u \in Threads : Untouched(u)
      BY <2>2 DEF Untouched, InQueue, wakeupVars
    <3> QED BY <3>2, <3>3 DEF Served
  <2> QED BY <1>3, <2>1, <2>2
<1> QED BY <1>4, <1>5, <1>6, <1>7, OutsideStepOK

\* Steps that change no queue and no wakeup of a thread that waits.
LEMMA RequestOK ==
  ASSUME WaitInv, HandleTypes', FlagTypes', owner' = owner, queue' = queue,
         UNCHANGED wakeupVars, UNCHANGED callVars, pc' = pc, interrupted \subseteq interrupted'
  PROVE  WaitInv'
<1>1. HandleOK'
  BY DEF HandleOK, WaitInv, Types, WakeupTypes, OnceOK, FreeOK, wakeupVars
<1>2. CallTypes'
  BY DEF WaitInv, Types, CallTypes, callVars
<1>3. \A u \in Threads : Rests(u)
  BY DEF Rests, callVars
<1>4. \A u \in Threads : Served(u)
  BY DEF Served, Untouched, InQueue, wakeupVars
<1> QED BY <1>1, <1>2, <1>3, <1>4, OutsideStepOK

\* ILThreadInterrupt, ILThreadAbort and ILWaitEventReset are such steps.
LEMMA RequestsOK ==
  ASSUME WaitInv,
         \/ \E t \in Threads : Interrupt(t) \/ Abort(t) \/ WakeupInterrupt(t)
         \/ \E e \in Events : EventReset(e)
  PROVE  WaitInv'
<1>1. Types
  BY DEF WaitInv
<1>2. ASSUME NEW t \in Threads, Interrupt(t) \/ Abort(t) \/ WakeupInterrupt(t) PROVE WaitInv'
  <2>1. /\ UNCHANGED handleVars /\ UNCHANGED wakeupVars /\ pc' = pc /\ UNCHANGED callVars
        /\ interrupted \subseteq interrupted'
    BY <1>2 DEF Interrupt, Abort, WakeupInterrupt
  <2>2. FlagTypes'
    BY <1>1, <1>2 DEF Interrupt, Abort, WakeupInterrupt, Types, FlagTypes
  <2>3. HandleTypes' /\ owner' = owner /\ queue' = queue
    BY <1>1, <2>1 DEF handleVars, Types, HandleTypes
  <2> QED BY <2>1, <2>2, <2>3, RequestOK
<1>3. ASSUME NEW e \in Events, EventReset(e) PROVE WaitInv'
  <2>1. /\ UNCHANGED <<owner, count, tableVars, queue>> /\ UNCHANGED wakeupVars
        /\ interrupted' = interrupted /\ UNCHANGED stateVars /\ pc' = pc /\ UNCHANGED callVars
        /\ isSet' = [isSet EXCEPT ![e] = FALSE]
    BY <1>3 DEF EventReset, mutexVars
  <2>2. FlagTypes'
    BY <1>1, <2>1 DEF stateVars, Types, FlagTypes
  <2>3. HandleTypes'
    BY <1>1, <2>1 DEF Types, HandleTypes
  <2> QED BY <2>1, <2>2, <2>3, RequestOK
<1> QED BY <1>2, <1>3

\* ILWaitEventSet and ILWaitEventPulse.
LEMMA EventStepOK ==
  ASSUME WaitInv, NEW e \in Events, NEW set \in BOOLEAN, EventWake(e, set)
  PROVE  WaitInv'
<1>1. Types /\ HandleOK
  BY DEF WaitInv, HandleOK, Types
<1>2. HandleOK' /\ \A u \in Threads : Served(u)
  BY <1>1, EventWakeOK
<1>3. interrupted' = interrupted /\ UNCHANGED stateVars /\ pc' = pc /\ UNCHANGED callVars
  BY DEF EventWake
<1>4. FlagTypes' /\ CallTypes'
  BY <1>1, <1>3 DEF Types, FlagTypes, CallTypes, stateVars, callVars
<1>5. \A u \in Threads : Rests(u)
  BY <1>3 DEF Rests, callVars
<1> QED BY <1>2, <1>4, <1>5, OutsideStepOK

-----------------------------------------------------------------------------
(* Theorems for all calls. *)

\* No handle is owned, no thread is in a call.
LEMMA InitOK == Init => WaitInv
<1> SUFFICES ASSUME Init PROVE WaitInv
  OBVIOUS
<1> USE DEF Init
<1>0. <<>> \in Seq(Threads) /\ <<>> \in Seq(Handles) /\ Len(<<>>) = 0 /\ 1..0 = {}
  BY EmptySeq
<1>1. HandleTypes /\ WakeupTypes /\ FlagTypes
  BY <1>0 DEF HandleTypes, WakeupTypes, FlagTypes
<1>2. CallTypes
  BY <1>0 DEF CallTypes, Control, Results
<1>3. OnceOK
  BY <1>0 DEF OnceOK, Once
<1>4. FreeOK
  BY DEF FreeOK, Handles
<1>5. ASSUME NEW t \in Threads PROVE ThreadOK(t)
  <2>1. pc[t] = "idle"
    OBVIOUS
  <2>2. LocalOK(t) /\ CountedOK(t)
    BY <2>1 DEF LocalOK, CountedOK, Outside, Looping, Registering
  <2>3. \A h \in Handles : ~InQueue(t, h)
    <3> SUFFICES ASSUME NEW h \in Handles PROVE ~InQueue(t, h)
      OBVIOUS
    <3>1. ~Occurs(t, queue[h])
      BY <1>0 DEF Occurs
    <3> QED BY <1>1, <3>1, QueueItems
  <2> QED BY <2>2, <2>3 DEF ThreadOK, QueuedOK
<1> QED BY <1>1, <1>2, <1>3, <1>4, <1>5 DEF WaitInv, Types

\* Every step keeps the invariant.
LEMMA NextOK == WaitInv /\ [Next]_vars => WaitInv'
<1> SUFFICES ASSUME WaitInv, [Next]_vars PROVE WaitInv'
  OBVIOUS
<1>1. ASSUME NEW t \in Threads, CallStep(t) PROVE WaitInv'
  BY <1>1, EnterAbortedOK, EnterWaitOK, SetLimitOK, SetLimitFailsOK, RegisterAcquiredOK,
     RegisterQueuedOK, RegisterFailedOK, UndoOK, AdjustOK, SleepInterruptedOK, SleepOverOK,
     SleepOK, WakeInterruptedOK, WakeSignalledOK, UnregisterNextOK, LeaveDisturbedOK,
     LeaveQuietOK, LeaveStoreOK, GiveBackOK DEF CallStep
<1>2. ASSUME NEW t \in Threads, ThreadStep(t) PROVE WaitInv'
  BY <1>1, <1>2, BeginOK, MutexReleaseOK, WakeTimeoutOK, AbortResetOK, ThreadStopsOK,
     DestroyNextOK, DestroyedOK DEF ThreadStep
<1>3. ASSUME NEW e \in Events, EventSet(e) \/ EventPulse(e) PROVE WaitInv'
  BY <1>3, EventStepOK DEF EventSet, EventPulse
<1>4. CASE UNCHANGED vars
  <2>1. /\ UNCHANGED handleVars /\ UNCHANGED wakeupVars /\ UNCHANGED callVars
        /\ UNCHANGED <<interrupted, intr, abortReq, wsj, toWake, pc>>
    BY <1>4 DEF vars, handleVars, wakeupVars, callVars
  <2>2. HandleTypes' /\ FlagTypes' /\ owner' = owner /\ queue' = queue
    BY <2>1 DEF WaitInv, Types, HandleTypes, FlagTypes, handleVars
  <2> QED BY <2>1, <2>2, RequestOK
<1> QED BY <1>2, <1>3, <1>4, RequestsOK DEF Next

\* The invariant holds in every state.
LEMMA Invariance == Spec => []WaitInv
BY InitOK, NextOK, PTL DEF Spec

\* A thread that is in no call, or has not begun to register, has no item in
\* any queue (the wakeup that _ILWakeupDestroy destroys is in none), whatever
\* the calls, and whichever of them time out, are interrupted or run out of
\* memory.
THEOREM NoStaleItemHolds == Spec => []NoStaleItem
<1>1. WaitInv => NoStaleItem
  BY DEF WaitInv, ThreadOK, QueuedOK, MayQueue, Registering, NoStaleItem
<1> QED BY <1>1, Invariance, PTL

\* _ILWakeupQueueWake passes nobody over: a mutex without an owner has no
\* waiter, and a thread that sleeps is still queued at every handle that it has
\* neither acquired nor been signalled for, or its sleep is about to end.
THEOREM NobodyStrandedHolds == Spec => []NobodyStranded
<1>1. ASSUME WaitInv PROVE NobodyStranded
  <2>1. ASSUME NEW t \in Threads, pc[t] \in {"sleep", "waiting"}
        PROVE  \/ t \in interrupted
               \/ wcount[t] >= limit[t]
               \/ Cardinality(Missing(t)) <= wcount[t] + Size(t) - need[t]
    <3>1. LocalOK(t) /\ CountedOK(t) /\ todo[t] = <<>> /\ req[t] \in Calls
      BY <1>1, <2>1 DEF WaitInv, ThreadOK, LocalOK, Outside
    <3>2. req[t].handles \in Seq(Handles) /\ Len(req[t].handles) \in Nat
      BY <3>1, CallFacts
    <3>3. DOMAIN req[t].handles = 1..Len(req[t].handles)
      BY <3>2, LenProperties
    <3>4. Registered(t) = Len(req[t].handles)
      BY <3>1, <3>2, EmptySeq DEF Registered, Total
    <3>5. Missing(t) = Gone(t)
      BY <3>3, <3>4 DEF Missing, Gone
    <3> QED BY <2>1, <3>1, <3>5 DEF CountedOK, Registering
  <2> QED BY <1>1, <2>1 DEF NobodyStranded, WaitInv, FreeOK
<1>2. WaitInv => NobodyStranded
  BY <1>1
<1> QED BY <1>2, Invariance, PTL

-----------------------------------------------------------------------------
(* Calls of ILWaitOne only. *)

\* The call of t has one handle.
LEMMA OneCall ==
  ASSUME OnlyOne, OneInv, NEW t \in Threads, pc[t] \notin Outside
  PROVE  /\ req[t] \in Calls /\ req[t].kind = "one" /\ Size(t) = 1 /\ Total(t) = 1
         /\ Len(req[t].handles) = 1
         /\ Target(t) \in Handles /\ req[t].handles = <<Target(t)>>
<1>1. req[t] \in Calls
  BY DEF OneInv, WaitInv, ThreadOK, LocalOK
<1>2. req[t].kind = "one"
  BY <1>1 DEF OnlyOne
<1>3. req[t].handles \in Seq(Handles) /\ Len(req[t].handles) = 1
  BY <1>1, <1>2, CallFacts
<1>4. Target(t) \in Handles
  BY <1>3, ElementOfSeq DEF Target
<1>5. PICK s \in Seq(Handles) : s = req[t].handles
  BY <1>3
<1>6. Len(s) = 1 /\ s[1] = Target(t)
  BY <1>3, <1>5 DEF Target
<1>7. s = <<Target(t)>>
  BY <1>4, <1>6
<1> QED BY <1>1, <1>2, <1>3, <1>4, <1>5, <1>7 DEF Size, Total

\* Its loops have one turn.
LEMMA OneTurn ==
  ASSUME OnlyOne, OneInv, NEW t \in Threads, pc[t] \in Looping
  PROVE  /\ todo[t] = req[t].handles /\ Len(todo[t]) = 1
         /\ Head(todo[t]) = Target(t) /\ Tail(todo[t]) = <<>>
<1>1. todo[t] = req[t].handles /\ pc[t] \notin Outside
  BY DEF OneInv, OwnInv, OneOK, Looping, Outside
<1>2. Len(req[t].handles) = 1 /\ req[t] \in Calls
  BY <1>1, OneCall
<1>3. req[t].handles \in Seq(Handles) /\ req[t].handles # <<>>
  BY <1>2, CallFacts
<1>4. Head(req[t].handles) = Target(t) /\ Tail(req[t].handles) = <<>>
  BY <1>2, <1>3, NextItem DEF Target
<1> QED BY <1>1, <1>2, <1>4

\* A thread in a queue waits for that handle.
LEMMA OneQueue ==
  ASSUME OnlyOne, OneInv, NEW t \in Threads, NEW h \in Handles, InQueue(t, h)
  PROVE  pc[t] \in {"sleep", "waiting", "unregister"} /\ Target(t) = h
<1>1. MayQueue(t, h) /\ OneOK(t) /\ LocalOK(t)
  BY DEF OneInv, OwnInv, WaitInv, ThreadOK, QueuedOK
<1>2. pc[t] \notin Outside
  BY <1>1 DEF MayQueue, Registering, Outside
<1>3. Total(t) = 1 /\ Len(req[t].handles) = 1
  BY <1>2, OneCall
<1>4. CASE pc[t] = "register"
  <2>1. Len(todo[t]) = 1
    BY <1>4, OneTurn DEF Looping
  <2>2. Registered(t) = 0
    BY <1>3, <2>1 DEF Registered
  <2> QED BY <1>1, <1>4, <2>2 DEF MayQueue
<1>5. CASE pc[t] \in {"sleep", "waiting"}
  <2>1. Len(todo[t]) = 0
    BY <1>1, <1>5, EmptySeq DEF LocalOK
  <2>2. Registered(t) = 1
    BY <1>3, <2>1 DEF Registered
  <2>3. PICK i \in 1..1 : req[t].handles[i] = h
    BY <1>1, <1>5, <2>2 DEF MayQueue
  <2> QED BY <1>5, <2>3 DEF Target
<1>6. CASE pc[t] = "unregister"
  <2>1. Len(todo[t]) = 1 /\ todo[t] = req[t].handles
    BY <1>6, OneTurn DEF Looping
  <2>2. PICK i \in 1..1 : todo[t][i] = h
    BY <1>1, <1>6, <2>1 DEF MayQueue, Registering
  <2> QED BY <1>6, <2>1, <2>2 DEF Target
<1> QED BY <1>1, <1>4, <1>5, <1>6 DEF MayQueue, Registering, OneOK

\* Another thread keeps its locals: only one in a queue may be signalled.
LEMMA OtherOne ==
  ASSUME OnlyOne, OneInv, NEW u \in Threads, Rests(u), limit'[u] = limit[u],
         wcount'[u] # wcount[u] => \E h \in Handles : InQueue(u, h)
  PROVE  OneOK(u)'
<1>1. OneOK(u)
  BY DEF OneInv, OwnInv
<1>2. pc[u] = "register" => wcount'[u] = wcount[u]
  BY OneQueue
<1> QED BY <1>1, <1>2 DEF OneOK, Rests, Target

\* Another thread keeps what it owns, and what it does not.
LEMMA OtherOwned ==
  ASSUME OneInv, NEW u \in Threads, NEW n \in Mutexes, Rests(u),
         \/ owner'[n] = owner[n] /\ count'[n] = count[n]
         \/ owner[n] # u /\ owner'[n] # u,
         SameEntry(u, n), held'[u][n] = held[u][n],
         pc[u] \in {"sleep", "waiting"} /\ Target(u) = n /\ wcount'[u] > 0 => wcount[u] > 0
  PROVE  OwnedOK(u, n)'
<1>1. OwnedOK(u, n)
  BY DEF OneInv, OwnInv
<1>2. (Waits(u, n)' <=> Waits(u, n)) /\ (Has(u, n)' <=> Has(u, n))
  BY DEF Rests, Waits, Has, Target
<1>3. pc'[u] = pc[u] /\ res'[u] = res[u] /\ Target(u)' = Target(u)
  BY DEF Rests, Target
<1>4. CASE owner[n] # u /\ owner'[n] # u
  BY <1>1, <1>2, <1>3, <1>4 DEF OwnedOK
<1>5. CASE owner'[n] = owner[n] /\ count'[n] = count[n]
  BY <1>1, <1>2, <1>3, <1>5 DEF OwnedOK
<1> QED BY <1>4, <1>5

\* A step of t, and the others.
LEMMA OwnStep ==
  ASSUME NEW t \in Threads, OneOK(t)', \A m \in Mutexes : OwnedOK(t, m)',
         \A u \in Threads \ {t} : OneOK(u)' /\ \A m \in Mutexes : OwnedOK(u, m)'
  PROVE  OwnInv'
BY DEF OwnInv

\* A step of t that changes no handle, and what it is told of none.
LEMMA QuietOne ==
  ASSUME OnlyOne, OneInv, NEW t \in Threads, UNCHANGED handleVars, held' = held, OneOK(t)',
         \A u \in Threads \ {t} :
           Rests(u) /\ limit'[u] = limit[u] /\ wcount'[u] = wcount[u],
         \A m \in Mutexes :
           /\ Waits(t, m)' <=> Waits(t, m)
           /\ Has(t, m)' <=> Has(t, m)
           /\ Waits(t, m)' /\ res'[t] = "ok" => owner[m] = t
           /\ pc'[t] \in {"sleep", "waiting"} =>
                pc[t] \in {"sleep", "waiting"} /\ wcount'[t] = wcount[t] /\ req'[t] = req[t]
  PROVE  OwnInv'
<1>1. owner' = owner /\ count' = count /\ SameEntries
  BY TablesKept DEF handleVars
<1>2. ASSUME NEW u \in Threads \ {t} PROVE OneOK(u)' /\ \A m \in Mutexes : OwnedOK(u, m)'
  BY <1>1, <1>2, OtherOne, OtherOwned
<1>3. ASSUME NEW m \in Mutexes PROVE OwnedOK(t, m)'
  <2>1. OwnedOK(t, m)
    BY DEF OneInv, OwnInv
  <2>2. pc'[t] \in {"sleep", "waiting"} /\ Target(t)' = m /\ wcount'[t] > 0 => owner[m] = t
    BY <2>1 DEF OwnedOK, Target
  <2> QED BY <1>1, <2>1, <2>2 DEF OwnedOK
<1> QED BY <1>2, <1>3, OwnStep

-----------------------------------------------------------------------------
(* The steps that change no handle, and what is owned. *)

\* No handle is registered before the only one.
LEMMA OneDone ==
  ASSUME OnlyOne, OneInv, NEW t \in Threads, pc[t] = "register"
  PROVE  Done(t) = <<>>
<1>1. Types /\ LocalOK(t)
  BY DEF OneInv, WaitInv, ThreadOK
<1>2. Total(t) = 1 /\ Len(todo[t]) = 1
  BY OneCall, OneTurn DEF Outside, Looping
<1>3. Registered(t) = 0
  BY <1>2 DEF Registered
<1> QED BY <1>1, <1>3, DoneOK

\* A call begins.
LEMMA BeginOne ==
  ASSUME OnlyOne, OneInv, NEW t \in Threads, NEW r \in Calls, Begin(t, r)
  PROVE  OwnInv'
<1> USE DEF Begin, Go, Set
<1>1. Types /\ LocalOK(t) /\ OneOK(t)
  BY DEF OneInv, OwnInv, WaitInv, ThreadOK
<1>2. /\ pc[t] = "idle" /\ pc'[t] = "enter"
      /\ res'[t] = res[t] /\ hit'[t] = hit[t]
  BY <1>1 DEF Types, CallTypes, WakeupTypes, callVars, wakeupVars
<1>3. UNCHANGED handleVars /\ held' = held
  BY DEF handleVars, callVars
<1>4. ASSUME NEW u \in Threads \ {t}
      PROVE  Rests(u) /\ limit'[u] = limit[u] /\ wcount'[u] = wcount[u]
  BY <1>1 DEF Types, CallTypes, WakeupTypes, Rests, wakeupVars, callVars
<1>5. OneOK(t)'
  BY <1>1, <1>2 DEF OneOK, Outside, Looping, Target
<1>6. ASSUME NEW m \in Mutexes
      PROVE  /\ Waits(t, m)' <=> Waits(t, m)
             /\ Has(t, m)' <=> Has(t, m)
             /\ Waits(t, m)' /\ res'[t] = "ok" => owner[m] = t
             /\ pc'[t] \in {"sleep", "waiting"} =>
                  pc[t] \in {"sleep", "waiting"} /\ wcount'[t] = wcount[t] /\ req'[t] = req[t]
  BY <1>1, <1>2 DEF Waits, Has, Target, OneOK
<1> QED BY <1>3, <1>4, <1>5, <1>6, QuietOne

\* _ILEnterWait, with a request to abort ...
LEMMA EnterAbortedOne ==
  ASSUME OnlyOne, OneInv, NEW t \in Threads, EnterAborted(t)
  PROVE  OwnInv'
<1> USE DEF EnterAborted, Return, Go, Set
<1>1. Types /\ LocalOK(t) /\ OneOK(t)
  BY DEF OneInv, OwnInv, WaitInv, ThreadOK
<1>2. /\ pc[t] = "enter"
      /\ pc'[t] = "idle" /\ res'[t] = "none" /\ hit'[t] = NoHandle
  BY <1>1 DEF Types, CallTypes, WakeupTypes, callVars, wakeupVars
<1>3. UNCHANGED handleVars /\ held' = held
  BY DEF handleVars, callVars
<1>4. ASSUME NEW u \in Threads \ {t}
      PROVE  Rests(u) /\ limit'[u] = limit[u] /\ wcount'[u] = wcount[u]
  BY <1>1 DEF Types, CallTypes, WakeupTypes, Rests, wakeupVars, callVars
<1>5. OneOK(t)'
  BY <1>1, <1>2 DEF OneOK, Outside, Looping, Target
<1>6. ASSUME NEW m \in Mutexes
      PROVE  /\ Waits(t, m)' <=> Waits(t, m)
             /\ Has(t, m)' <=> Has(t, m)
             /\ Waits(t, m)' /\ res'[t] = "ok" => owner[m] = t
             /\ pc'[t] \in {"sleep", "waiting"} =>
                  pc[t] \in {"sleep", "waiting"} /\ wcount'[t] = wcount[t] /\ req'[t] = req[t]
  BY <1>1, <1>2 DEF Waits, Has, Target, OneOK
<1> QED BY <1>3, <1>4, <1>5, <1>6, QuietOne

\* ... and without.
LEMMA EnterWaitOne ==
  ASSUME OnlyOne, OneInv, NEW t \in Threads, EnterWait(t)
  PROVE  OwnInv'
<1> USE DEF EnterWait, Go
<1>1. Types /\ LocalOK(t) /\ OneOK(t)
  BY DEF OneInv, OwnInv, WaitInv, ThreadOK
<1>2. /\ pc[t] = "enter" /\ pc'[t] = "setLimit"
      /\ req'[t] = req[t] /\ res'[t] = res[t] /\ hit'[t] = hit[t]
  BY <1>1 DEF Types, CallTypes, WakeupTypes, callVars, wakeupVars
<1>3. UNCHANGED handleVars /\ held' = held
  BY DEF handleVars, callVars
<1>4. ASSUME NEW u \in Threads \ {t}
      PROVE  Rests(u) /\ limit'[u] = limit[u] /\ wcount'[u] = wcount[u]
  BY <1>1 DEF Types, CallTypes, WakeupTypes, Rests, wakeupVars, callVars
<1>5. OneOK(t)'
  BY <1>1, <1>2 DEF OneOK, Outside, Looping, Target
<1>6. ASSUME NEW m \in Mutexes
      PROVE  /\ Waits(t, m)' <=> Waits(t, m)
             /\ Has(t, m)' <=> Has(t, m)
             /\ Waits(t, m)' /\ res'[t] = "ok" => owner[m] = t
             /\ pc'[t] \in {"sleep", "waiting"} =>
                  pc[t] \in {"sleep", "waiting"} /\ wcount'[t] = wcount[t] /\ req'[t] = req[t]
  BY <1>1, <1>2 DEF Waits, Has, Target, OneOK
<1> QED BY <1>3, <1>4, <1>5, <1>6, QuietOne

\* _ILWakeupSetLimit: the registration begins ...
LEMMA SetLimitOne ==
  ASSUME OnlyOne, OneInv, NEW t \in Threads, SetLimit(t)
  PROVE  OwnInv'
<1> USE DEF SetLimit, Go, Set
<1>1. Types /\ LocalOK(t) /\ OneOK(t)
  BY DEF OneInv, OwnInv, WaitInv, ThreadOK
<1>2. /\ pc[t] = "setLimit" /\ pc'[t] = "register"
      /\ req'[t] = req[t] /\ res'[t] = res[t] /\ hit'[t] = hit[t]
      /\ todo'[t] = req[t].handles /\ wcount'[t] = 0
  BY <1>1 DEF Types, CallTypes, WakeupTypes, callVars, wakeupVars
<1>3. UNCHANGED handleVars /\ held' = held
  BY DEF handleVars, callVars
<1>4. ASSUME NEW u \in Threads \ {t}
      PROVE  Rests(u) /\ limit'[u] = limit[u] /\ wcount'[u] = wcount[u]
  BY <1>1 DEF Types, CallTypes, WakeupTypes, Rests, wakeupVars, callVars
<1>5. OneOK(t)'
  BY <1>1, <1>2 DEF OneOK, Outside, Looping, Target
<1>6. ASSUME NEW m \in Mutexes
      PROVE  /\ Waits(t, m)' <=> Waits(t, m)
             /\ Has(t, m)' <=> Has(t, m)
             /\ Waits(t, m)' /\ res'[t] = "ok" => owner[m] = t
             /\ pc'[t] \in {"sleep", "waiting"} =>
                  pc[t] \in {"sleep", "waiting"} /\ wcount'[t] = wcount[t] /\ req'[t] = req[t]
  BY <1>1, <1>2 DEF Waits, Has, Target, OneOK
<1> QED BY <1>3, <1>4, <1>5, <1>6, QuietOne

\* ... or the wakeup is interrupted.
LEMMA SetLimitFailsOne ==
  ASSUME OnlyOne, OneInv, NEW t \in Threads, SetLimitFails(t)
  PROVE  OwnInv'
<1> USE DEF SetLimitFails, Go, Set
<1>1. Types /\ LocalOK(t) /\ OneOK(t)
  BY DEF OneInv, OwnInv, WaitInv, ThreadOK
<1>2. /\ pc[t] = "setLimit" /\ pc'[t] = "leave"
      /\ req'[t] = req[t] /\ res'[t] = "interrupted" /\ hit'[t] = hit[t]
  BY <1>1 DEF Types, CallTypes, WakeupTypes, callVars, wakeupVars
<1>3. UNCHANGED handleVars /\ held' = held
  BY DEF handleVars, callVars
<1>4. ASSUME NEW u \in Threads \ {t}
      PROVE  Rests(u) /\ limit'[u] = limit[u] /\ wcount'[u] = wcount[u]
  BY <1>1 DEF Types, CallTypes, WakeupTypes, Rests, wakeupVars, callVars
<1>5. OneOK(t)'
  BY <1>1, <1>2 DEF OneOK, Outside, Looping, Target
<1>6. ASSUME NEW m \in Mutexes
      PROVE  /\ Waits(t, m)' <=> Waits(t, m)
             /\ Has(t, m)' <=> Has(t, m)
             /\ Waits(t, m)' /\ res'[t] = "ok" => owner[m] = t
             /\ pc'[t] \in {"sleep", "waiting"} =>
                  pc[t] \in {"sleep", "waiting"} /\ wcount'[t] = wcount[t] /\ req'[t] = req[t]
  BY <1>1, <1>2 DEF Waits, Has, Target, OneOK
<1> QED BY <1>3, <1>4, <1>5, <1>6, QuietOne

\* There is no memory for the item: no other was registered.
LEMMA RegisterFailedOne ==
  ASSUME OnlyOne, OneInv, NEW t \in Threads, RegisterFailed(t)
  PROVE  OwnInv'
<1> USE DEF RegisterFailed, Finish, Go, Set
<1>1. Types /\ LocalOK(t) /\ OneOK(t)
  BY DEF OneInv, OwnInv, WaitInv, ThreadOK
<1>a. Done(t) = <<>>
  BY <1>1, OneDone
<1>2. /\ pc[t] = "register" /\ pc'[t] = "leave"
      /\ req'[t] = req[t] /\ res'[t] = "failed" /\ hit'[t] = hit[t]
  BY <1>1, <1>a DEF Types, CallTypes, WakeupTypes, callVars, wakeupVars
<1>3. UNCHANGED handleVars /\ held' = held
  BY DEF handleVars, callVars
<1>4. ASSUME NEW u \in Threads \ {t}
      PROVE  Rests(u) /\ limit'[u] = limit[u] /\ wcount'[u] = wcount[u]
  BY <1>1 DEF Types, CallTypes, WakeupTypes, Rests, wakeupVars, callVars
<1>5. OneOK(t)'
  BY <1>1, <1>2 DEF OneOK, Outside, Looping, Target
<1>6. ASSUME NEW m \in Mutexes
      PROVE  /\ Waits(t, m)' <=> Waits(t, m)
             /\ Has(t, m)' <=> Has(t, m)
             /\ Waits(t, m)' /\ res'[t] = "ok" => owner[m] = t
             /\ pc'[t] \in {"sleep", "waiting"} =>
                  pc[t] \in {"sleep", "waiting"} /\ wcount'[t] = wcount[t] /\ req'[t] = req[t]
  BY <1>1, <1>2 DEF Waits, Has, Target, OneOK
<1> QED BY <1>3, <1>4, <1>5, <1>6, QuietOne

\* The thread goes to sleep.
LEMMA SleepOne ==
  ASSUME OnlyOne, OneInv, NEW t \in Threads, Sleep(t)
  PROVE  OwnInv'
<1> USE DEF Sleep, Go
<1>1. Types /\ LocalOK(t) /\ OneOK(t)
  BY DEF OneInv, OwnInv, WaitInv, ThreadOK
<1>2. /\ pc[t] = "sleep" /\ pc'[t] = "waiting"
      /\ req'[t] = req[t] /\ res'[t] = res[t] /\ hit'[t] = hit[t]
      /\ wcount'[t] = wcount[t] /\ limit'[t] = limit[t]
  BY <1>1 DEF Types, CallTypes, WakeupTypes, callVars, wakeupVars
<1>3. UNCHANGED handleVars /\ held' = held
  BY DEF handleVars, callVars
<1>4. ASSUME NEW u \in Threads \ {t}
      PROVE  Rests(u) /\ limit'[u] = limit[u] /\ wcount'[u] = wcount[u]
  BY <1>1 DEF Types, CallTypes, WakeupTypes, Rests, wakeupVars, callVars
<1>5. OneOK(t)'
  BY <1>1, <1>2 DEF OneOK, Outside, Looping, Target
<1>6. ASSUME NEW m \in Mutexes
      PROVE  /\ Waits(t, m)' <=> Waits(t, m)
             /\ Has(t, m)' <=> Has(t, m)
             /\ Waits(t, m)' /\ res'[t] = "ok" => owner[m] = t
             /\ pc'[t] \in {"sleep", "waiting"} =>
                  pc[t] \in {"sleep", "waiting"} /\ wcount'[t] = wcount[t] /\ req'[t] = req[t]
  BY <1>1, <1>2 DEF Waits, Has, Target, OneOK
<1> QED BY <1>3, <1>4, <1>5, <1>6, QuietOne

\* _ILWakeupWait finds an interrupt, ...
LEMMA SleepInterruptedOne ==
  ASSUME OnlyOne, OneInv, NEW t \in Threads, SleepInterrupted(t)
  PROVE  OwnInv'
<1> USE DEF SleepInterrupted, Wakes, Go, Set
<1>1. Types /\ LocalOK(t) /\ OneOK(t)
  BY DEF OneInv, OwnInv, WaitInv, ThreadOK
<1>a. req[t] \in Calls /\ req[t].kind = "one"
  <2>1. pc[t] \notin Outside
    BY DEF Outside
  <2> QED BY <2>1, OneCall
<1>2. /\ pc[t] = "sleep" /\ pc'[t] = "unregister"
      /\ req'[t] = req[t] /\ res'[t] = "interrupted" /\ hit'[t] = hit[t]
      /\ todo'[t] = req[t].handles
  BY <1>1, <1>a DEF Types, CallTypes, WakeupTypes, callVars, wakeupVars
<1>3. UNCHANGED handleVars /\ held' = held
  BY DEF handleVars, callVars
<1>4. ASSUME NEW u \in Threads \ {t}
      PROVE  Rests(u) /\ limit'[u] = limit[u] /\ wcount'[u] = wcount[u]
  BY <1>1 DEF Types, CallTypes, WakeupTypes, Rests, wakeupVars, callVars
<1>5. OneOK(t)'
  BY <1>1, <1>2 DEF OneOK, Outside, Looping, Target
<1>6. ASSUME NEW m \in Mutexes
      PROVE  /\ Waits(t, m)' <=> Waits(t, m)
             /\ Has(t, m)' <=> Has(t, m)
             /\ Waits(t, m)' /\ res'[t] = "ok" => owner[m] = t
             /\ pc'[t] \in {"sleep", "waiting"} =>
                  pc[t] \in {"sleep", "waiting"} /\ wcount'[t] = wcount[t] /\ req'[t] = req[t]
  BY <1>1, <1>2 DEF Waits, Has, Target, OneOK
<1> QED BY <1>3, <1>4, <1>5, <1>6, QuietOne

\* ... or that the signal has arrived.
LEMMA SleepOverOne ==
  ASSUME OnlyOne, OneInv, NEW t \in Threads, SleepOver(t)
  PROVE  OwnInv'
<1> USE DEF SleepOver, Wakes, Go, Set, ResetWakeup
<1>1. Types /\ LocalOK(t) /\ OneOK(t)
  BY DEF OneInv, OwnInv, WaitInv, ThreadOK
<1>a. req[t] \in Calls /\ req[t].kind = "one"
  <2>1. pc[t] \notin Outside
    BY DEF Outside
  <2> QED BY <2>1, OneCall
<1>2. /\ pc[t] = "sleep" /\ pc'[t] = "unregister"
      /\ req'[t] = req[t] /\ res'[t] = "ok" /\ hit'[t] = hit[t]
      /\ todo'[t] = req[t].handles
  BY <1>1, <1>a DEF Types, CallTypes, WakeupTypes, callVars, wakeupVars
<1>3. UNCHANGED handleVars /\ held' = held
  BY DEF handleVars, callVars
<1>4. ASSUME NEW u \in Threads \ {t}
      PROVE  Rests(u) /\ limit'[u] = limit[u] /\ wcount'[u] = wcount[u]
  BY <1>1 DEF Types, CallTypes, WakeupTypes, Rests, wakeupVars, callVars
<1>5. OneOK(t)'
  BY <1>1, <1>2 DEF OneOK, Outside, Looping, Target
<1>6. ASSUME NEW m \in Mutexes
      PROVE  /\ Waits(t, m)' <=> Waits(t, m)
             /\ Has(t, m)' <=> Has(t, m)
             /\ Waits(t, m)' /\ res'[t] = "ok" => owner[m] = t
             /\ pc'[t] \in {"sleep", "waiting"} =>
                  pc[t] \in {"sleep", "waiting"} /\ wcount'[t] = wcount[t] /\ req'[t] = req[t]
  <2>1. OwnedOK(t, m)
    BY DEF OneInv, OwnInv
  <2>2. limit[t] = 1 /\ wcount[t] \in Nat /\ wcount[t] >= limit[t]
    BY <1>1, <1>2 DEF OneOK, Types, WakeupTypes
  <2>3. Target(t)' = Target(t)
    BY <1>2 DEF Target
  <2>4. Target(t) = m => owner[m] = t
    BY <1>2, <2>1, <2>2 DEF OwnedOK
  <2> QED BY <1>1, <1>2, <2>3, <2>4 DEF Waits, Has
<1> QED BY <1>3, <1>4, <1>5, <1>6, QuietOne

\* The sleep ends by an interrupt, ...
LEMMA WakeInterruptedOne ==
  ASSUME OnlyOne, OneInv, NEW t \in Threads, WakeInterrupted(t)
  PROVE  OwnInv'
<1> USE DEF WakeInterrupted, Wakes, Go, Set, ResetWakeup
<1>1. Types /\ LocalOK(t) /\ OneOK(t)
  BY DEF OneInv, OwnInv, WaitInv, ThreadOK
<1>a. req[t] \in Calls /\ req[t].kind = "one"
  <2>1. pc[t] \notin Outside
    BY DEF Outside
  <2> QED BY <2>1, OneCall
<1>2. /\ pc[t] = "waiting" /\ pc'[t] = "unregister"
      /\ req'[t] = req[t] /\ res'[t] = "interrupted" /\ hit'[t] = hit[t]
      /\ todo'[t] = req[t].handles
  BY <1>1, <1>a DEF Types, CallTypes, WakeupTypes, callVars, wakeupVars
<1>3. UNCHANGED handleVars /\ held' = held
  BY DEF handleVars, callVars
<1>4. ASSUME NEW u \in Threads \ {t}
      PROVE  Rests(u) /\ limit'[u] = limit[u] /\ wcount'[u] = wcount[u]
  BY <1>1 DEF Types, CallTypes, WakeupTypes, Rests, wakeupVars, callVars
<1>5. OneOK(t)'
  BY <1>1, <1>2 DEF OneOK, Outside, Looping, Target
<1>6. ASSUME NEW m \in Mutexes
      PROVE  /\ Waits(t, m)' <=> Waits(t, m)
             /\ Has(t, m)' <=> Has(t, m)
             /\ Waits(t, m)' /\ res'[t] = "ok" => owner[m] = t
             /\ pc'[t] \in {"sleep", "waiting"} =>
                  pc[t] \in {"sleep", "waiting"} /\ wcount'[t] = wcount[t] /\ req'[t] = req[t]
  BY <1>1, <1>2 DEF Waits, Has, Target, OneOK
<1> QED BY <1>3, <1>4, <1>5, <1>6, QuietOne

\* ... by the signal, with which the mutex came, ...
LEMMA WakeSignalledOne ==
  ASSUME OnlyOne, OneInv, NEW t \in Threads, WakeSignalled(t)
  PROVE  OwnInv'
<1> USE DEF WakeSignalled, Wakes, Go, Set, ResetWakeup
<1>1. Types /\ LocalOK(t) /\ OneOK(t)
  BY DEF OneInv, OwnInv, WaitInv, ThreadOK
<1>a. req[t] \in Calls /\ req[t].kind = "one"
  <2>1. pc[t] \notin Outside
    BY DEF Outside
  <2> QED BY <2>1, OneCall
<1>2. /\ pc[t] = "waiting" /\ pc'[t] = "unregister"
      /\ req'[t] = req[t] /\ res'[t] = "ok" /\ hit'[t] = hit[t]
      /\ todo'[t] = req[t].handles
  BY <1>1, <1>a DEF Types, CallTypes, WakeupTypes, callVars, wakeupVars
<1>3. UNCHANGED handleVars /\ held' = held
  BY DEF handleVars, callVars
<1>4. ASSUME NEW u \in Threads \ {t}
      PROVE  Rests(u) /\ limit'[u] = limit[u] /\ wcount'[u] = wcount[u]
  BY <1>1 DEF Types, CallTypes, WakeupTypes, Rests, wakeupVars, callVars
<1>5. OneOK(t)'
  BY <1>1, <1>2 DEF OneOK, Outside, Looping, Target
<1>6. ASSUME NEW m \in Mutexes
      PROVE  /\ Waits(t, m)' <=> Waits(t, m)
             /\ Has(t, m)' <=> Has(t, m)
             /\ Waits(t, m)' /\ res'[t] = "ok" => owner[m] = t
             /\ pc'[t] \in {"sleep", "waiting"} =>
                  pc[t] \in {"sleep", "waiting"} /\ wcount'[t] = wcount[t] /\ req'[t] = req[t]
  <2>1. OwnedOK(t, m)
    BY DEF OneInv, OwnInv
  <2>2. limit[t] = 1 /\ wcount[t] \in Nat /\ wcount[t] >= limit[t]
    BY <1>1, <1>2 DEF OneOK, Types, WakeupTypes
  <2>3. Target(t)' = Target(t)
    BY <1>2 DEF Target
  <2>4. Target(t) = m => owner[m] = t
    BY <1>2, <2>1, <2>2 DEF OwnedOK
  <2> QED BY <1>1, <1>2, <2>3, <2>4 DEF Waits, Has
<1> QED BY <1>3, <1>4, <1>5, <1>6, QuietOne

\* ... or by the time.
LEMMA WakeTimeoutOne ==
  ASSUME OnlyOne, OneInv, NEW t \in Threads, WakeTimeout(t)
  PROVE  OwnInv'
<1> USE DEF WakeTimeout, Wakes, Go, Set, ResetWakeup
<1>1. Types /\ LocalOK(t) /\ OneOK(t)
  BY DEF OneInv, OwnInv, WaitInv, ThreadOK
<1>a. req[t] \in Calls /\ req[t].kind = "one"
  <2>1. pc[t] \notin Outside
    BY DEF Outside
  <2> QED BY <2>1, OneCall
<1>2. /\ pc[t] = "waiting" /\ pc'[t] = "unregister"
      /\ req'[t] = req[t] /\ res'[t] = "timeout" /\ hit'[t] = hit[t]
      /\ todo'[t] = req[t].handles
  BY <1>1, <1>a DEF Types, CallTypes, WakeupTypes, callVars, wakeupVars
<1>3. UNCHANGED handleVars /\ held' = held
  BY DEF handleVars, callVars
<1>4. ASSUME NEW u \in Threads \ {t}
      PROVE  Rests(u) /\ limit'[u] = limit[u] /\ wcount'[u] = wcount[u]
  BY <1>1 DEF Types, CallTypes, WakeupTypes, Rests, wakeupVars, callVars
<1>5. OneOK(t)'
  BY <1>1, <1>2 DEF OneOK, Outside, Looping, Target
<1>6. ASSUME NEW m \in Mutexes
      PROVE  /\ Waits(t, m)' <=> Waits(t, m)
             /\ Has(t, m)' <=> Has(t, m)
             /\ Waits(t, m)' /\ res'[t] = "ok" => owner[m] = t
             /\ pc'[t] \in {"sleep", "waiting"} =>
                  pc[t] \in {"sleep", "waiting"} /\ wcount'[t] = wcount[t] /\ req'[t] = req[t]
  BY <1>1, <1>2 DEF Waits, Has, Target, OneOK
<1> QED BY <1>3, <1>4, <1>5, <1>6, QuietOne

\* _ILLeaveWait finds no request.
LEMMA LeaveQuietOne ==
  ASSUME OnlyOne, OneInv, NEW t \in Threads, LeaveQuiet(t)
  PROVE  OwnInv'
<1> USE DEF LeaveQuiet, Go
<1>1. Types /\ LocalOK(t) /\ OneOK(t)
  BY DEF OneInv, OwnInv, WaitInv, ThreadOK
<1>2. /\ pc[t] = "leave" /\ pc'[t] = "leaveStore"
      /\ req'[t] = req[t] /\ res'[t] = res[t] /\ hit'[t] = hit[t]
  BY <1>1 DEF Types, CallTypes, WakeupTypes, callVars, wakeupVars
<1>3. UNCHANGED handleVars /\ held' = held
  BY DEF handleVars, callVars
<1>4. ASSUME NEW u \in Threads \ {t}
      PROVE  Rests(u) /\ limit'[u] = limit[u] /\ wcount'[u] = wcount[u]
  BY <1>1 DEF Types, CallTypes, WakeupTypes, Rests, wakeupVars, callVars
<1>5. OneOK(t)'
  BY <1>1, <1>2 DEF OneOK, Outside, Looping, Target
<1>6. ASSUME NEW m \in Mutexes
      PROVE  /\ Waits(t, m)' <=> Waits(t, m)
             /\ Has(t, m)' <=> Has(t, m)
             /\ Waits(t, m)' /\ res'[t] = "ok" => owner[m] = t
             /\ pc'[t] \in {"sleep", "waiting"} =>
                  pc[t] \in {"sleep", "waiting"} /\ wcount'[t] = wcount[t] /\ req'[t] = req[t]
  BY <1>1, <1>2 DEF Waits, Has, Target, OneOK
<1> QED BY <1>3, <1>4, <1>5, <1>6, QuietOne

\* ILThreadAbortReset.
LEMMA AbortResetOne ==
  ASSUME OnlyOne, OneInv, NEW t \in Threads, AbortReset(t)
  PROVE  OwnInv'
<1> USE DEF AbortReset
<1>1. Types /\ LocalOK(t) /\ OneOK(t)
  BY DEF OneInv, OwnInv, WaitInv, ThreadOK
<1>2. /\ pc[t] = "idle" /\ pc'[t] = "idle"
      /\ req'[t] = req[t] /\ res'[t] = res[t] /\ hit'[t] = hit[t]
  BY <1>1 DEF Types, CallTypes, WakeupTypes, callVars, wakeupVars
<1>3. UNCHANGED handleVars /\ held' = held
  BY DEF handleVars, callVars
<1>4. ASSUME NEW u \in Threads \ {t}
      PROVE  Rests(u) /\ limit'[u] = limit[u] /\ wcount'[u] = wcount[u]
  BY <1>1 DEF Types, CallTypes, WakeupTypes, Rests, wakeupVars, callVars
<1>5. OneOK(t)'
  BY <1>1, <1>2 DEF OneOK, Outside, Looping, Target
<1>6. ASSUME NEW m \in Mutexes
      PROVE  /\ Waits(t, m)' <=> Waits(t, m)
             /\ Has(t, m)' <=> Has(t, m)
             /\ Waits(t, m)' /\ res'[t] = "ok" => owner[m] = t
             /\ pc'[t] \in {"sleep", "waiting"} =>
                  pc[t] \in {"sleep", "waiting"} /\ wcount'[t] = wcount[t] /\ req'[t] = req[t]
  BY <1>1, <1>2 DEF Waits, Has, Target, OneOK
<1> QED BY <1>3, <1>4, <1>5, <1>6, QuietOne

\* The thread comes to its end ...
LEMMA ThreadStopsOne ==
  ASSUME OnlyOne, OneInv, NEW t \in Threads, ThreadStops(t)
  PROVE  OwnInv'
<1> USE DEF ThreadStops, Go
<1>1. Types /\ LocalOK(t) /\ OneOK(t)
  BY DEF OneInv, OwnInv, WaitInv, ThreadOK
<1>2. /\ pc[t] = "idle" /\ pc'[t] = "dying"
      /\ req'[t] = req[t] /\ res'[t] = res[t] /\ hit'[t] = hit[t]
  BY <1>1 DEF Types, CallTypes, WakeupTypes, callVars, wakeupVars
<1>3. UNCHANGED handleVars /\ held' = held
  BY DEF handleVars, callVars
<1>4. ASSUME NEW u \in Threads \ {t}
      PROVE  Rests(u) /\ limit'[u] = limit[u] /\ wcount'[u] = wcount[u]
  BY <1>1 DEF Types, CallTypes, WakeupTypes, Rests, wakeupVars, callVars
<1>5. OneOK(t)'
  BY <1>1, <1>2 DEF OneOK, Outside, Looping, Target
<1>6. ASSUME NEW m \in Mutexes
      PROVE  /\ Waits(t, m)' <=> Waits(t, m)
             /\ Has(t, m)' <=> Has(t, m)
             /\ Waits(t, m)' /\ res'[t] = "ok" => owner[m] = t
             /\ pc'[t] \in {"sleep", "waiting"} =>
                  pc[t] \in {"sleep", "waiting"} /\ wcount'[t] = wcount[t] /\ req'[t] = req[t]
  BY <1>1, <1>2 DEF Waits, Has, Target, OneOK
<1> QED BY <1>3, <1>4, <1>5, <1>6, QuietOne

\* ... and its wakeup goes away.
LEMMA DestroyedOne ==
  ASSUME OnlyOne, OneInv, NEW t \in Threads, Destroyed(t)
  PROVE  OwnInv'
<1> USE DEF Destroyed, Go, Set
<1>1. Types /\ LocalOK(t) /\ OneOK(t)
  BY DEF OneInv, OwnInv, WaitInv, ThreadOK
<1>2. /\ pc[t] = "dying" /\ pc'[t] = "dead"
      /\ req'[t] = req[t] /\ res'[t] = res[t] /\ hit'[t] = hit[t]
  BY <1>1 DEF Types, CallTypes, WakeupTypes, callVars, wakeupVars
<1>3. UNCHANGED handleVars /\ held' = held
  BY DEF handleVars, callVars
<1>4. ASSUME NEW u \in Threads \ {t}
      PROVE  Rests(u) /\ limit'[u] = limit[u] /\ wcount'[u] = wcount[u]
  BY <1>1 DEF Types, CallTypes, WakeupTypes, Rests, wakeupVars, callVars
<1>5. OneOK(t)'
  BY <1>1, <1>2 DEF OneOK, Outside, Looping, Target
<1>6. ASSUME NEW m \in Mutexes
      PROVE  /\ Waits(t, m)' <=> Waits(t, m)
             /\ Has(t, m)' <=> Has(t, m)
             /\ Waits(t, m)' /\ res'[t] = "ok" => owner[m] = t
             /\ pc'[t] \in {"sleep", "waiting"} =>
                  pc[t] \in {"sleep", "waiting"} /\ wcount'[t] = wcount[t] /\ req'[t] = req[t]
  BY <1>1, <1>2 DEF Waits, Has, Target, OneOK
<1> QED BY <1>3, <1>4, <1>5, <1>6, QuietOne

\* _ILLeaveWait finds a request: what was acquired is to be given back.
LEMMA LeaveDisturbedOne ==
  ASSUME OnlyOne, OneInv, NEW t \in Threads, LeaveDisturbed(t)
  PROVE  OwnInv'
<1> USE DEF LeaveDisturbed, Return, Go, Set
<1>1. Types /\ LocalOK(t) /\ OneOK(t)
  BY DEF OneInv, OwnInv, WaitInv, ThreadOK
<1>a. /\ req[t].kind = "one" /\ pc[t] = "leave"
      /\ (IF hit[t] = NoHandle THEN req[t].handles ELSE <<hit[t]>>) = req[t].handles
  <2>1. pc[t] \notin Outside
    BY DEF Outside
  <2>2. req[t].kind = "one" /\ req[t].handles = <<Target(t)>>
    BY <2>1, OneCall
  <2> QED BY <1>1, <2>1, <2>2 DEF OneOK
<1>2. /\ pc[t] = "leave"
      /\ \/ res[t] # "ok" /\ pc'[t] = "idle" /\ res'[t] = "none" /\ hit'[t] = NoHandle
         \/ /\ res[t] = "ok" /\ pc'[t] = "giveBack" /\ res'[t] = "ok"
            /\ req'[t] = req[t] /\ hit'[t] = hit[t] /\ todo'[t] = req[t].handles
  BY <1>1, <1>a DEF Types, CallTypes, WakeupTypes, callVars, wakeupVars
<1>3. UNCHANGED handleVars /\ held' = held
  BY DEF handleVars, callVars
<1>4. ASSUME NEW u \in Threads \ {t}
      PROVE  Rests(u) /\ limit'[u] = limit[u] /\ wcount'[u] = wcount[u]
  BY <1>1 DEF Types, CallTypes, WakeupTypes, Rests, wakeupVars, callVars
<1>5. OneOK(t)'
  BY <1>1, <1>2 DEF OneOK, Outside, Looping, Target
<1>6. ASSUME NEW m \in Mutexes
      PROVE  /\ Waits(t, m)' <=> Waits(t, m)
             /\ Has(t, m)' <=> Has(t, m)
             /\ Waits(t, m)' /\ res'[t] = "ok" => owner[m] = t
             /\ pc'[t] \in {"sleep", "waiting"} =>
                  pc[t] \in {"sleep", "waiting"} /\ wcount'[t] = wcount[t] /\ req'[t] = req[t]
  BY <1>1, <1>2 DEF Waits, Has, Target, OneOK
<1> QED BY <1>3, <1>4, <1>5, <1>6, QuietOne

-----------------------------------------------------------------------------
(* The steps on handles, and what is owned. *)

\* Handing m over from q: the thread that is woken owns it once and has not
\* been told yet, and nobody else's wakeup is signalled in full.
LEMMA HandOverOne ==
  ASSUME OnlyOne, OneInv, NEW t \in Threads, NEW m \in Mutexes, owner[m] = t,
         NEW q \in Seq(Threads), Once(q),
         \A u \in Threads : Occurs(u, q) => InQueue(u, m) /\ u # t,
         HandOver(t, m, q),
         \A u \in Threads \ {t} : Rests(u) /\ \A n \in Mutexes : held'[u][n] = held[u][n]
  PROVE  /\ \A u \in Threads \ {t} : OneOK(u)' /\ \A n \in Mutexes : OwnedOK(u, n)'
         /\ owner'[m] # t /\ Lists(t, m, 0)'
         /\ \A n \in Mutexes \ {m} : /\ owner'[n] = owner[n] /\ count'[n] = count[n]
                                     /\ SameEntry(t, n)
         /\ wcount'[t] = wcount[t] /\ limit'[t] = limit[t]
<1>1. HandleTypes /\ WakeupTypes /\ m \in Handles
  BY DEF OneInv, WaitInv, Types, Handles
<1>2. /\ queue' = [queue EXCEPT ![m] = Left(q)] /\ Signal(Taken(q), m)
      /\ owner' = [owner EXCEPT ![m] = Woken(q)]
      /\ count' = [count EXCEPT ![m] = IF Woken(q) = NoThread THEN 0 ELSE 1]
      /\ RemoveFromTable(t, m)
  BY DEF HandOver
<1>3. /\ Taken(q) \subseteq Threads
      /\ \A u : u \in Taken(q) => Occurs(u, q)
      /\ Woken(q) \in Taken(q) \cup {NoThread}
      /\ \A u \in Taken(q) : Reaches(u) <=> u = Woken(q)
  BY WakeOK
<1>4. /\ \A u \in Threads : limit'[u] = limit[u]
      /\ \A u \in Threads \ Taken(q) : wcount'[u] = wcount[u]
      /\ \A u \in Threads \cap Taken(q) :
           wcount'[u] = IF Counts(u) THEN wcount[u] + 1 ELSE wcount[u]
  BY <1>1, <1>2, SignalOK
<1>5. PICK w : w = Woken(q)
  OBVIOUS
<1>6. owner'[m] = w /\ (w # NoThread => count'[m] = 1)
  BY <1>1, <1>2, <1>5 DEF HandleTypes
<1>7. \A n \in Mutexes \ {m} : owner'[n] = owner[n] /\ count'[n] = count[n]
  BY <1>1, <1>2 DEF HandleTypes
<1>8. /\ Fitted(t)' <=> Fitted(t)
      /\ table[t][m] = 0 => table'[t][m] = 0
      /\ table[t][m] > 0 => table'[t][m] = table[t][m] - 1
      /\ \A u \in Threads, n \in Mutexes : u # t \/ n # m => SameEntry(u, n)
  BY <1>1, <1>2, RemoveFromTableOK DEF HandleTypes
<1>9. \A u \in Threads : u \in Taken(q) =>
        /\ InQueue(u, m) /\ u # t
        /\ pc[u] \in {"sleep", "waiting", "unregister"} /\ Target(u) = m
  BY <1>1, <1>3, OneQueue
<1>10. w # t
  BY <1>3, <1>5, <1>9, HandlesAssumption
<1>11. Lists(t, m, 0)'
  <2>1. OwnedOK(t, m)
    BY DEF OneInv, OwnInv
  <2>2. Fitted(t) => table[t][m] = 0 \/ table[t][m] = 1
    BY <2>1 DEF OwnedOK
  <2> QED BY <1>8, <2>2
<1>12. ASSUME NEW u \in Threads \ {t} PROVE OneOK(u)'
  <2>1. wcount'[u] # wcount[u] => InQueue(u, m)
    BY <1>4, <1>9
  <2> QED BY <1>1, <1>4, <2>1, OtherOne
<1>13. ASSUME NEW u \in Threads \ {t}, NEW n \in Mutexes PROVE OwnedOK(u, n)'
  <2>1. OwnedOK(u, n) /\ OneOK(u)
    BY DEF OneInv, OwnInv
  <2>2. Rests(u) /\ held'[u][n] = held[u][n] /\ SameEntry(u, n)
    BY <1>8
  <2>3. wcount[u] \in Nat
    BY <1>1 DEF WakeupTypes
  <2>4. CASE n # m
    <3>1. Target(u) = n => wcount'[u] = wcount[u]
      BY <1>4, <1>9, <2>4
    <3> QED BY <1>7, <2>2, <2>4, <3>1, OtherOwned
  <2>5. CASE n = m /\ u # w
    <3>1. pc[u] \in {"sleep", "waiting"} /\ wcount'[u] > 0 => wcount[u] > 0
      <4> SUFFICES ASSUME pc[u] \in {"sleep", "waiting"}, wcount[u] = 0
                   PROVE  wcount'[u] = 0
        BY <2>3
      <4>1. limit[u] = 1
        BY <2>1 DEF OneOK
      <4>2. Counts(u) => Reaches(u)
        BY <4>1 DEF Reaches
      <4>3. u \in Taken(q) => ~Counts(u)
        BY <1>3, <1>5, <2>5, <4>2
      <4> QED BY <1>4, <4>3
    <3>2. owner[n] # u /\ owner'[n] # u
      BY <1>6, <2>5
    <3> QED BY <2>2, <3>1, <3>2, OtherOwned
  <2>6. CASE n = m /\ u = w
    <3>1. u \in Taken(q)
      BY <1>3, <1>5, <2>6, HandlesAssumption
    <3>2. Waits(u, m)
      BY <1>9, <3>1 DEF Waits
    <3>3. Waits(u, m)'
      BY <2>2, <3>2 DEF Waits, Rests, Target
    <3>4. held[u][m] = 0 /\ Lists(u, m, 0)
      BY <2>1, <2>6, <3>2 DEF OwnedOK
    <3>5. owner'[m] = u /\ count'[m] = 1
      BY <1>6, <2>6, HandlesAssumption
    <3>6. held'[u][m] = 0 /\ Lists(u, m, 0)'
      BY <2>2, <2>6, <3>4
    <3> QED BY <2>6, <3>3, <3>5, <3>6 DEF OwnedOK
  <2> QED BY <2>4, <2>5, <2>6
<1>14. wcount'[t] = wcount[t] /\ limit'[t] = limit[t]
  BY <1>4, <1>9
<1> QED BY <1>6, <1>7, <1>8, <1>10, <1>11, <1>12, <1>13, <1>14

\* MutexUnregister and EventUnregister of the handle of the call.
LEMMA UnregisterOne ==
  ASSUME OnlyOne, OneInv, NEW t \in Threads, pc[t] \in {"unregister", "giveBack"},
         NEW h \in Handles, h = Target(t),
         NEW release \in BOOLEAN, Unregister(t, h, release), held' = held,
         \A u \in Threads \ {t} : Rests(u)
  PROVE  /\ \A u \in Threads \ {t} : OneOK(u)' /\ \A n \in Mutexes : OwnedOK(u, n)'
         /\ \A n \in Mutexes \ {h} : /\ owner'[n] = owner[n] /\ count'[n] = count[n]
                                     /\ SameEntry(t, n)
         /\ h \in Mutexes =>
              \/ /\ owner[h] # t /\ owner'[h] # t /\ SameEntry(t, h)
              \/ /\ owner[h] = t /\ release /\ owner'[h] # t /\ Lists(t, h, 0)'
                 /\ count[h] = 1
              \/ /\ owner[h] = t /\ release /\ owner'[h] = t /\ SameEntry(t, h)
                 /\ count[h] > 1 /\ count'[h] = count[h] - 1
              \/ /\ owner[h] = t /\ ~release /\ owner'[h] = t /\ count'[h] = count[h]
                 /\ (IF count[h] = 1 THEN OneMoreEntry(t, h) ELSE SameEntry(t, h))
<1> DEFINE q == Without(queue[h], t)
           mine == h \in Mutexes /\ owner[h] = t
<1>0. HandleTypes /\ Once(queue[h]) /\ queue[h] \in Seq(Threads)
  BY DEF OneInv, WaitInv, Types, OnceOK, HandleTypes
<1>1. CASE mine /\ release /\ count[h] = 1 /\ HandOver(t, h, q)
  <2>1. /\ q \in Seq(Threads) /\ Once(q)
        /\ \A u : Occurs(u, q) <=> Occurs(u, queue[h]) /\ u # t
    BY <1>0, WithoutOK
  <2>2. \A u : InQueue(u, h) <=> Occurs(u, queue[h])
    BY <1>0, QueueItems
  <2>3. \A u \in Threads : Occurs(u, q) => InQueue(u, h) /\ u # t
    BY <2>1, <2>2
  <2>4. h \in Mutexes /\ owner[h] = t /\ HandOver(t, h, q)
    BY <1>1
  <2> HIDE DEF q
  <2>5. /\ \A u \in Threads \ {t} : OneOK(u)' /\ \A n \in Mutexes : OwnedOK(u, n)'
        /\ owner'[h] # t /\ Lists(t, h, 0)'
        /\ \A n \in Mutexes \ {h} : /\ owner'[n] = owner[n] /\ count'[n] = count[n]
                                    /\ SameEntry(t, n)
    BY <2>1, <2>3, <2>4, HandOverOne
  <2> QED BY <1>1, <2>5
<1>2. ASSUME wcount' = wcount, limit' = limit, owner' = owner,
             \A n \in Mutexes : owner[n] # t => count'[n] = count[n],
             \A u \in Threads \ {t} : \A n \in Mutexes : SameEntry(u, n)
      PROVE  \A u \in Threads \ {t} : OneOK(u)' /\ \A n \in Mutexes : OwnedOK(u, n)'
  <2>1. ASSUME NEW u \in Threads \ {t} PROVE OneOK(u)'
    BY <1>2, OtherOne
  <2>2. ASSUME NEW u \in Threads \ {t}, NEW n \in Mutexes PROVE OwnedOK(u, n)'
    BY <1>2, OtherOwned
  <2> QED BY <2>1, <2>2
<1>3. CASE /\ mine /\ release /\ count[h] > 1
           /\ count' = [count EXCEPT ![h] = @ - 1]
           /\ UNCHANGED <<owner, tableVars, wakeupVars>>
  <2>1. /\ \A n \in Mutexes \ {h} : count'[n] = count[n]
        /\ count'[h] = count[h] - 1
    BY <1>0, <1>3 DEF HandleTypes
  <2>2. wcount' = wcount /\ limit' = limit /\ owner' = owner /\ SameEntries
    BY <1>3, TablesKept DEF wakeupVars
  <2>3. \A n \in Mutexes : owner[n] # t => count'[n] = count[n]
    BY <1>3, <2>1
  <2>4. \A u \in Threads \ {t} : OneOK(u)' /\ \A n \in Mutexes : OwnedOK(u, n)'
    BY <1>2, <2>2, <2>3
  <2> QED BY <1>3, <2>1, <2>2, <2>4
<1>4. CASE /\ mine /\ ~release
           /\ IF count[h] = 1 THEN AddToTable(t, h) ELSE UNCHANGED tableVars
           /\ UNCHANGED <<owner, count, wakeupVars>>
  <2>1. /\ (IF count[h] = 1 THEN OneMoreEntry(t, h) ELSE SameEntry(t, h))
        /\ \A u \in Threads, n \in Mutexes :
             u # t \/ n # h => SameEntry(u, n)
    <3>1. CASE count[h] = 1
      BY <1>0, <1>4, <3>1, AddToTableOK DEF HandleTypes
    <3>2. CASE count[h] # 1
      BY <1>4, <3>2, TablesKept
    <3> QED BY <3>1, <3>2
  <2>2. wcount' = wcount /\ limit' = limit /\ owner' = owner /\ count' = count
    BY <1>4 DEF wakeupVars
  <2>3. \A u \in Threads \ {t} : OneOK(u)' /\ \A n \in Mutexes : OwnedOK(u, n)'
    BY <1>2, <2>1, <2>2
  <2> QED BY <1>4, <2>1, <2>2, <2>3
<1>5. CASE ~mine /\ UNCHANGED <<mutexVars, wakeupVars>>
  <2>1. /\ wcount' = wcount /\ limit' = limit /\ owner' = owner /\ count' = count
        /\ SameEntries
    BY <1>5, TablesKept DEF wakeupVars, mutexVars
  <2>2. \A u \in Threads \ {t} : OneOK(u)' /\ \A n \in Mutexes : OwnedOK(u, n)'
    BY <1>2, <2>1
  <2> QED BY <1>5, <2>1, <2>2
<1> QED BY <1>1, <1>3, <1>4, <1>5 DEF Unregister

\* The loop after the wait: the mutex is kept, or given to the next thread.
LEMMA UnregisterNextOne ==
  ASSUME OnlyOne, OneInv, NEW t \in Threads, UnregisterNext(t)
  PROVE  OwnInv'
<1>1. Types /\ LocalOK(t) /\ OneOK(t) /\ pc[t] = "unregister"
  BY DEF OneInv, OwnInv, WaitInv, ThreadOK, UnregisterNext
<1>2. /\ req[t].kind = "one" /\ Target(t) \in Handles
      /\ Len(todo[t]) = 1 /\ Head(todo[t]) = Target(t)
  BY <1>1, OneCall, OneTurn DEF Outside, Looping
<1>3. PICK h \in Handles : h = Target(t)
  BY <1>2
<1>4. PICK release \in BOOLEAN : release = (res[t] # "ok")
  OBVIOUS
<1>5. Unregister(t, h, release)
  <2>1. (~Keeps(t, h)) = release
    BY <1>2, <1>4 DEF Keeps
  <2> QED BY <1>2, <1>3, <2>1 DEF UnregisterNext
<1>6. /\ pc'[t] = "leave" /\ req'[t] = req[t] /\ res'[t] = res[t] /\ hit'[t] = hit[t]
      /\ held' = held
  BY <1>1, <1>2 DEF UnregisterNext, Go, Types, CallTypes
<1>7. \A u \in Threads \ {t} : Rests(u)
  BY <1>1 DEF UnregisterNext, Rests, Go, Set, Types, CallTypes
<1>8. /\ \A u \in Threads \ {t} : OneOK(u)' /\ \A n \in Mutexes : OwnedOK(u, n)'
      /\ \A n \in Mutexes \ {h} : /\ owner'[n] = owner[n] /\ count'[n] = count[n]
                                  /\ SameEntry(t, n)
      /\ h \in Mutexes =>
           \/ /\ owner[h] # t /\ owner'[h] # t /\ SameEntry(t, h)
           \/ /\ owner[h] = t /\ release /\ owner'[h] # t /\ Lists(t, h, 0)'
              /\ count[h] = 1
           \/ /\ owner[h] = t /\ release /\ owner'[h] = t /\ SameEntry(t, h)
              /\ count[h] > 1 /\ count'[h] = count[h] - 1
           \/ /\ owner[h] = t /\ ~release /\ owner'[h] = t /\ count'[h] = count[h]
              /\ (IF count[h] = 1 THEN OneMoreEntry(t, h) ELSE SameEntry(t, h))
  BY <1>1, <1>3, <1>5, <1>6, <1>7, UnregisterOne
<1>9. OneOK(t)'
  BY <1>1, <1>6 DEF OneOK, Outside, Looping, Target
<1>10. ASSUME NEW m \in Mutexes PROVE OwnedOK(t, m)'
  <2>1. OwnedOK(t, m)
    BY DEF OneInv, OwnInv
  <2>2. Target(t)' = h /\ ~Waits(t, m)'
    BY <1>3, <1>6 DEF Waits, Target
  <2>3. CASE m # h
    <3>1. ~Waits(t, m) /\ ~Has(t, m) /\ ~Has(t, m)'
      BY <1>3, <2>2, <2>3 DEF Waits, Has
    <3> QED BY <1>6, <1>8, <2>1, <2>2, <2>3, <3>1 DEF OwnedOK
  <2>4. CASE m = h
    <3>1. Waits(t, m) /\ ~Has(t, m)
      BY <1>1, <1>3, <2>4 DEF Waits, Has
    <3>2. Has(t, m)' <=> ~release
      BY <1>4, <1>6, <2>2, <2>4 DEF Has
    <3>3. held[t][m] = 0 /\ held'[t][m] = 0 /\ Lists(t, m, 0)
      BY <1>6, <2>1, <3>1 DEF OwnedOK
    <3>4. CASE owner[m] # t
      <4>1. owner'[m] # t /\ Lists(t, m, 0)'
        BY <1>8, <2>4, <3>3, <3>4
      <4>2. release
        BY <1>4, <2>1, <3>1, <3>4 DEF OwnedOK
      <4> QED BY <1>6, <2>2, <3>2, <3>3, <4>1, <4>2 DEF OwnedOK
    <3>5. CASE owner[m] = t
      <4>1. count[m] = 1
        BY <2>1, <3>1, <3>3, <3>5 DEF OwnedOK
      <4>2. CASE release
        <5>1. owner'[m] # t /\ Lists(t, m, 0)'
          BY <1>8, <2>4, <3>5, <4>1, <4>2
        <5> QED BY <1>6, <2>2, <3>2, <3>3, <4>2, <5>1 DEF OwnedOK
      <4>3. CASE ~release
        <5>1. owner'[m] = t /\ Lists(t, m, 1)' /\ count'[m] = 1
          BY <1>8, <2>4, <3>3, <3>5, <4>1, <4>3
        <5> QED BY <1>6, <2>2, <3>2, <3>3, <4>3, <5>1 DEF OwnedOK
      <4> QED BY <4>2, <4>3
    <3> QED BY <3>4, <3>5
  <2> QED BY <2>3, <2>4
<1> QED BY <1>8, <1>9, <1>10, OwnStep

\* _ILLeaveWaitHandle gives back the one acquisition that the caller is not
\* told of.
LEMMA GiveBackOne ==
  ASSUME OnlyOne, OneInv, NEW t \in Threads, GiveBack(t)
  PROVE  OwnInv'
<1>1. Types /\ LocalOK(t) /\ OneOK(t) /\ pc[t] = "giveBack"
  BY DEF OneInv, OwnInv, WaitInv, ThreadOK, GiveBack
<1>2. /\ Target(t) \in Handles
      /\ Len(todo[t]) = 1 /\ Head(todo[t]) = Target(t)
  BY <1>1, OneCall, OneTurn DEF Outside, Looping
<1>3. PICK h \in Handles : h = Target(t)
  BY <1>2
<1>4. Unregister(t, h, TRUE) /\ Return(t) /\ held' = held
  <2>1. ~(Len(todo[t]) > 1)
    BY <1>2
  <2>2. Unregister(t, h, TRUE)
    BY <1>2, <1>3 DEF GiveBack
  <2> QED BY <2>1, <2>2 DEF GiveBack
<1>5. pc'[t] = "idle" /\ res'[t] = "none" /\ hit'[t] = NoHandle
  BY <1>1, <1>4 DEF Return, Go, Set, Types, CallTypes
<1>6. \A u \in Threads \ {t} : Rests(u)
  BY <1>1, <1>4 DEF GiveBack, Return, Rests, Go, Set, Types, CallTypes
<1>7. /\ \A u \in Threads \ {t} : OneOK(u)' /\ \A n \in Mutexes : OwnedOK(u, n)'
      /\ \A n \in Mutexes \ {h} : /\ owner'[n] = owner[n] /\ count'[n] = count[n]
                                  /\ SameEntry(t, n)
      /\ h \in Mutexes =>
           \/ /\ owner[h] # t /\ owner'[h] # t /\ SameEntry(t, h)
           \/ /\ owner[h] = t /\ owner'[h] # t /\ Lists(t, h, 0)'
              /\ count[h] = 1
           \/ /\ owner[h] = t /\ owner'[h] = t /\ SameEntry(t, h)
              /\ count[h] > 1 /\ count'[h] = count[h] - 1
  <2>1. PICK release \in BOOLEAN : release = TRUE
    OBVIOUS
  <2>2. Unregister(t, h, release)
    BY <1>4, <2>1
  <2>3. /\ \A u \in Threads \ {t} : OneOK(u)' /\ \A n \in Mutexes : OwnedOK(u, n)'
        /\ \A n \in Mutexes \ {h} : /\ owner'[n] = owner[n] /\ count'[n] = count[n]
                                    /\ SameEntry(t, n)
        /\ h \in Mutexes =>
             \/ /\ owner[h] # t /\ owner'[h] # t /\ SameEntry(t, h)
             \/ /\ owner[h] = t /\ release /\ owner'[h] # t /\ Lists(t, h, 0)'
                /\ count[h] = 1
             \/ /\ owner[h] = t /\ release /\ owner'[h] = t /\ SameEntry(t, h)
                /\ count[h] > 1 /\ count'[h] = count[h] - 1
             \/ /\ owner[h] = t /\ ~release /\ owner'[h] = t /\ count'[h] = count[h]
                /\ (IF count[h] = 1 THEN OneMoreEntry(t, h) ELSE SameEntry(t, h))
    BY <1>1, <1>3, <1>4, <1>6, <2>2, UnregisterOne
  <2> QED BY <2>1, <2>3
<1>8. OneOK(t)'
  BY <1>5 DEF OneOK, Outside, Looping
<1>9. ASSUME NEW m \in Mutexes PROVE OwnedOK(t, m)'
  <2>1. OwnedOK(t, m)
    BY DEF OneInv, OwnInv
  <2>2. ~Waits(t, m) /\ ~Waits(t, m)' /\ ~Has(t, m)'
    BY <1>1, <1>5 DEF Waits, Has
  <2>3. Has(t, m) <=> m = h
    BY <1>1, <1>3 DEF Has, OneOK
  <2>4. CASE m # h
    BY <1>4, <1>5, <1>7, <2>1, <2>2, <2>3, <2>4 DEF OwnedOK
  <2>5. CASE m = h
    <3>1. owner[m] = t /\ count[m] = held[t][m] + 1 /\ Lists(t, m, 1) /\ held[t][m] \in Nat
      BY <2>1, <2>2, <2>3, <2>5 DEF OwnedOK
    <3>2. CASE owner'[m] # t /\ Lists(t, m, 0)' /\ count[m] = 1
      <4>1. held'[t][m] = 0
        BY <1>4, <3>1, <3>2
      <4> QED BY <1>5, <2>2, <3>2, <4>1 DEF OwnedOK
    <3>3. CASE owner'[m] = t /\ SameEntry(t, m) /\ count'[m] = count[m] - 1
      <4>1. held'[t][m] \in Nat /\ count'[m] = held'[t][m]
        BY <1>4, <3>1, <3>3
      <4> QED BY <1>5, <2>2, <3>1, <3>3, <4>1 DEF OwnedOK
    <3> QED BY <1>7, <2>5, <3>1, <3>2, <3>3
  <2> QED BY <2>4, <2>5
<1> QED BY <1>7, <1>8, <1>9, OwnStep

\* The call returns: the caller is told of the mutex that it has.
LEMMA LeaveStoreOne ==
  ASSUME OnlyOne, OneInv, NEW t \in Threads, LeaveStore(t)
  PROVE  OwnInv'
<1>1. Types /\ LocalOK(t) /\ OneOK(t) /\ pc[t] = "leaveStore"
  BY DEF OneInv, OwnInv, WaitInv, ThreadOK, LeaveStore
<1>2. Claimed(t) = {Target(t)}
  <2>1. req[t].kind = "one"
    BY <1>1, OneCall DEF Outside
  <2> QED BY <2>1 DEF Claimed, Target
<1>3. pc'[t] = "idle" /\ res'[t] = "none" /\ hit'[t] = NoHandle
  BY <1>1 DEF LeaveStore, Return, Go, Set, Types, CallTypes
<1>4. /\ \A u \in Threads \ {t} : held'[u] = held[u]
      /\ \A m \in Mutexes : held'[t][m] = IF res[t] = "ok" /\ m = Target(t) THEN held[t][m] + 1
                                                                           ELSE held[t][m]
  BY <1>1, <1>2 DEF LeaveStore, Types, CallTypes
<1>5. owner' = owner /\ count' = count /\ SameEntries /\ wcount' = wcount /\ limit' = limit
  BY TablesKept DEF LeaveStore, handleVars, wakeupVars
<1>6. ASSUME NEW u \in Threads \ {t} PROVE OneOK(u)' /\ \A n \in Mutexes : OwnedOK(u, n)'
  <2>1. Rests(u)
    BY <1>1 DEF LeaveStore, Return, Rests, Go, Set, Types, CallTypes
  <2>2. OneOK(u)'
    BY <1>5, <2>1, OtherOne
  <2>3. ASSUME NEW n \in Mutexes PROVE OwnedOK(u, n)'
    BY <1>4, <1>5, <2>1, OtherOwned
  <2> QED BY <2>2, <2>3
<1>7. OneOK(t)'
  BY <1>3 DEF OneOK, Outside, Looping
<1>8. ASSUME NEW m \in Mutexes PROVE OwnedOK(t, m)'
  <2>1. OwnedOK(t, m)
    BY DEF OneInv, OwnInv
  <2>2. ~Waits(t, m) /\ ~Waits(t, m)' /\ ~Has(t, m)'
    BY <1>1, <1>3 DEF Waits, Has
  <2>3. Has(t, m) <=> res[t] = "ok" /\ m = Target(t)
    BY <1>1 DEF Has
  <2>4. CASE Has(t, m)
    <3>1. owner[m] = t /\ count[m] = held[t][m] + 1 /\ held[t][m] \in Nat /\ Lists(t, m, 1)
      BY <2>1, <2>2, <2>4 DEF OwnedOK
    <3>2. held'[t][m] = held[t][m] + 1
      BY <1>4, <2>3, <2>4
    <3> QED BY <1>3, <1>5, <2>2, <3>1, <3>2 DEF OwnedOK
  <2>5. CASE ~Has(t, m)
    <3>1. held'[t][m] = held[t][m]
      BY <1>4, <2>3, <2>5
    <3> QED BY <1>3, <1>5, <2>1, <2>2, <2>5, <3>1 DEF OwnedOK
  <2> QED BY <2>4, <2>5
<1> QED BY <1>6, <1>7, <1>8, OwnStep

\* MutexRegister and EventRegister acquire: the call is about to return.
LEMMA RegisterAcquiredOne ==
  ASSUME OnlyOne, OneInv, NEW t \in Threads, RegisterAcquired(t)
  PROVE  OwnInv'
<1>1. Types /\ LocalOK(t) /\ OneOK(t) /\ pc[t] = "register"
  BY DEF OneInv, OwnInv, WaitInv, ThreadOK, RegisterAcquired
<1>2. /\ req[t].kind = "one" /\ Target(t) \in Handles
      /\ Head(todo[t]) = Target(t) /\ Done(t) = <<>>
  BY <1>1, OneCall, OneTurn, OneDone DEF Outside, Looping
<1>3. PICK h \in Handles : h = Target(t)
  BY <1>2
<1>4. Available(t, h) /\ Acquire(t, h) /\ hit' = Set(hit, t, h) /\ Finish(t, "ok")
  BY <1>2, <1>3 DEF RegisterAcquired
<1>5. /\ pc'[t] = "leave" /\ res'[t] = "ok" /\ hit'[t] = h /\ req' = req
      /\ held' = held /\ wcount' = wcount
  BY <1>1, <1>2, <1>4 DEF RegisterAcquired, Finish, Go, Set, Types, CallTypes
<1>6. /\ h \in Mutexes =>
           /\ owner[h] \in {NoThread, t} /\ owner'[h] = t
           /\ count'[h] = IF owner[h] = t THEN count[h] + 1 ELSE 1
           /\ (IF owner[h] = t THEN SameEntry(t, h) ELSE OneMoreEntry(t, h))
      /\ \A n \in Mutexes \ {h} : owner'[n] = owner[n] /\ count'[n] = count[n]
      /\ \A u \in Threads, n \in Mutexes : u # t \/ n # h => SameEntry(u, n)
  <2>0. HandleTypes
    BY <1>1 DEF Types
  <2>1. CASE h \in Events
    <3>1. h \notin Mutexes /\ UNCHANGED mutexVars
      BY <1>4, <2>1, HandlesAssumption DEF Acquire
    <3> QED BY <3>1, TablesKept DEF mutexVars
  <2>2. CASE h \in Mutexes
    <3>1. /\ owner' = [owner EXCEPT ![h] = t]
          /\ count' = [count EXCEPT ![h] = IF owner[h] = t THEN count[h] + 1 ELSE 1]
          /\ IF owner[h] = t THEN UNCHANGED tableVars ELSE AddToTable(t, h)
      BY <1>4, <2>2, HandlesAssumption DEF Acquire
    <3>2. owner[h] \in {NoThread, t}
      BY <1>4, <2>2 DEF Available
    <3>3. /\ (IF owner[h] = t THEN SameEntry(t, h) ELSE OneMoreEntry(t, h))
          /\ \A u \in Threads, n \in Mutexes : u # t \/ n # h => SameEntry(u, n)
      <4>1. CASE owner[h] = t
        <5>1. SameEntries
          BY <3>1, <4>1, TablesKept
        <5>2. SameEntry(t, h) /\ \A u \in Threads, n \in Mutexes : SameEntry(u, n)
          BY <2>2, <5>1
        <5> QED BY <4>1, <5>2
      <4>2. CASE owner[h] # t
        BY <2>0, <2>2, <3>1, <4>2, AddToTableOK DEF HandleTypes
      <4> QED BY <4>1, <4>2
    <3> QED BY <2>0, <2>2, <3>1, <3>2, <3>3 DEF HandleTypes
  <2> QED BY <2>1, <2>2 DEF Handles
<1>7. ASSUME NEW u \in Threads \ {t} PROVE OneOK(u)' /\ \A n \in Mutexes : OwnedOK(u, n)'
  <2>1. Rests(u) /\ limit'[u] = limit[u]
    BY <1>1, <1>4 DEF RegisterAcquired, Finish, Rests, Go, Set, Types, CallTypes, WakeupTypes
  <2>2. OneOK(u)'
    BY <1>5, <2>1, OtherOne
  <2>3. ASSUME NEW n \in Mutexes PROVE OwnedOK(u, n)'
    <3>1. \/ owner'[n] = owner[n] /\ count'[n] = count[n]
          \/ owner[n] # u /\ owner'[n] # u
      BY <1>6, HandlesAssumption
    <3> QED BY <1>5, <1>6, <2>1, <3>1, OtherOwned
  <2> QED BY <2>2, <2>3
<1>8. OneOK(t)'
  BY <1>3, <1>5 DEF OneOK, Outside, Looping, Target
<1>9. ASSUME NEW m \in Mutexes PROVE OwnedOK(t, m)'
  <2>1. OwnedOK(t, m)
    BY DEF OneInv, OwnInv
  <2>2. ~Waits(t, m) /\ ~Waits(t, m)' /\ ~Has(t, m)
    BY <1>1, <1>5 DEF Waits, Has
  <2>3. Has(t, m)' <=> m = h
    BY <1>3, <1>5 DEF Has, Target
  <2>4. CASE m # h
    BY <1>5, <1>6, <2>1, <2>2, <2>3, <2>4 DEF OwnedOK
  <2>5. CASE m = h
    <3>1. owner'[m] = t /\ count'[m] = held[t][m] + 1 /\ Lists(t, m, 1)'
      <4>1. CASE owner[m] = t
        BY <1>6, <2>1, <2>2, <2>5, <4>1 DEF OwnedOK
      <4>2. CASE owner[m] # t
        <5>1. held[t][m] = 0 /\ Lists(t, m, 0)
          BY <2>1, <4>2 DEF OwnedOK
        <5> QED BY <1>6, <2>5, <4>2, <5>1
      <4> QED BY <4>1, <4>2
    <3>2. held'[t][m] = held[t][m] /\ held[t][m] \in Nat
      BY <1>5, <2>1 DEF OwnedOK
    <3> QED BY <1>5, <2>2, <2>3, <2>5, <3>1, <3>2 DEF OwnedOK
  <2> QED BY <2>4, <2>5
<1> QED BY <1>7, <1>8, <1>9, OwnStep

\* ... or the thread joins the queue of a handle that it does not own.
LEMMA RegisterQueuedOne ==
  ASSUME OnlyOne, OneInv, NEW t \in Threads, RegisterQueued(t)
  PROVE  OwnInv'
<1>1. Types /\ LocalOK(t) /\ OneOK(t) /\ pc[t] = "register"
  BY DEF OneInv, OwnInv, WaitInv, ThreadOK, RegisterQueued
<1>2. /\ req[t].kind = "one" /\ Size(t) = 1
      /\ Head(todo[t]) = Target(t) /\ Len(todo[t]) = 1
  BY <1>1, OneCall, OneTurn DEF Outside, Looping
<1>3. ~Available(t, Target(t)) /\ UNCHANGED mutexVars /\ UNCHANGED wakeupVars
  BY <1>2 DEF RegisterQueued, Enqueue
<1>4. /\ pc'[t] = "sleep" /\ req' = req /\ res' = res /\ hit' = hit /\ held' = held
  <2>1. ~(Len(todo[t]) > 1)
    BY <1>2
  <2> QED BY <1>1, <1>2, <2>1 DEF RegisterQueued, Advance, Go, Types, CallTypes
<1>5. /\ owner' = owner /\ count' = count /\ SameEntries
      /\ wcount' = wcount /\ limit' = limit
  BY <1>3, TablesKept DEF mutexVars, wakeupVars
<1>6. ASSUME NEW u \in Threads \ {t} PROVE OneOK(u)' /\ \A n \in Mutexes : OwnedOK(u, n)'
  <2>1. Rests(u)
    BY <1>1 DEF RegisterQueued, Advance, Rests, Go, Set, Types, CallTypes
  <2>2. OneOK(u)'
    BY <1>5, <2>1, OtherOne
  <2>3. ASSUME NEW n \in Mutexes PROVE OwnedOK(u, n)'
    BY <1>4, <1>5, <2>1, OtherOwned
  <2> QED BY <2>2, <2>3
<1>7. wcount[t] = 0 /\ limit[t] = 1 /\ res[t] = "none" /\ hit[t] = NoHandle
  BY <1>1, <1>2 DEF OneOK, LocalOK
<1>8. OneOK(t)'
  BY <1>4, <1>5, <1>7 DEF OneOK, Outside, Looping
<1>9. ASSUME NEW m \in Mutexes PROVE OwnedOK(t, m)'
  <2>1. OwnedOK(t, m)
    BY DEF OneInv, OwnInv
  <2>2. ~Waits(t, m) /\ ~Has(t, m) /\ ~Has(t, m)'
    BY <1>1, <1>4 DEF Waits, Has
  <2>3. Waits(t, m)' <=> m = Target(t)
    BY <1>4 DEF Waits, Target
  <2>4. m = Target(t) => owner[m] # t
    BY <1>3 DEF Available
  <2>5. ~(res'[t] = "ok") /\ ~(wcount'[t] > 0)
    BY <1>4, <1>5, <1>7
  <2>6. CASE m = Target(t)
    <3>1. owner'[m] # t /\ held'[t][m] = 0 /\ Lists(t, m, 0)'
      BY <1>4, <1>5, <2>1, <2>4, <2>6 DEF OwnedOK
    <3> QED BY <2>2, <2>5, <3>1 DEF OwnedOK
  <2>7. CASE m # Target(t)
    BY <1>4, <1>5, <2>1, <2>2, <2>3, <2>5, <2>7 DEF OwnedOK
  <2> QED BY <2>6, <2>7
<1> QED BY <1>6, <1>8, <1>9, OwnStep

\* Handing a mutex over from its whole queue, by a thread that is in no call.
LEMMA ReleaseOne ==
  ASSUME OnlyOne, OneInv, NEW t \in Threads, pc[t] \in {"idle", "dying"},
         NEW m \in Mutexes, owner[m] = t, HandOver(t, m, queue[m]),
         \A u \in Threads : Rests(u),
         \A u \in Threads, n \in Mutexes : u # t \/ n # m => held'[u][n] = held[u][n],
         held'[t][m] = 0
  PROVE  OwnInv'
<1>1. HandleTypes /\ OnceOK /\ m \in Handles
  BY DEF OneInv, WaitInv, Types, Handles
<1>2. queue[m] \in Seq(Threads) /\ Once(queue[m])
  BY <1>1 DEF HandleTypes, OnceOK
<1>3. \A u \in Threads : Occurs(u, queue[m]) => InQueue(u, m) /\ u # t
  <2>1. \A u : InQueue(u, m) <=> Occurs(u, queue[m])
    BY <1>1, QueueItems
  <2>2. ~InQueue(t, m)
    BY <1>1, OneQueue
  <2> QED BY <2>1, <2>2
<1>4. PICK q : q = queue[m]
  OBVIOUS
<1>5. /\ \A u \in Threads \ {t} : OneOK(u)' /\ \A n \in Mutexes : OwnedOK(u, n)'
      /\ owner'[m] # t /\ Lists(t, m, 0)'
      /\ \A n \in Mutexes \ {m} : /\ owner'[n] = owner[n] /\ count'[n] = count[n]
                                  /\ SameEntry(t, n)
      /\ wcount'[t] = wcount[t] /\ limit'[t] = limit[t]
  <2>1. q \in Seq(Threads) /\ Once(q) /\ HandOver(t, m, q)
    BY <1>2, <1>4
  <2>2. \A u \in Threads : Occurs(u, q) => InQueue(u, m) /\ u # t
    BY <1>3, <1>4
  <2>3. \A u \in Threads \ {t} : Rests(u) /\ \A n \in Mutexes : held'[u][n] = held[u][n]
    OBVIOUS
  <2> QED BY <2>1, <2>2, <2>3, HandOverOne
<1>6. OneOK(t)'
  BY <1>5, OtherOne
<1>7. ASSUME NEW n \in Mutexes PROVE OwnedOK(t, n)'
  <2>1. CASE n # m
    BY <1>5, <2>1, OtherOwned
  <2>2. CASE n = m
    <3>1. ~Waits(t, m)' /\ ~Has(t, m)' /\ pc'[t] \notin {"sleep", "waiting"}
      BY DEF Rests, Waits, Has
    <3> QED BY <1>5, <2>2, <3>1 DEF OwnedOK
  <2> QED BY <2>1, <2>2
<1> QED BY <1>5, <1>6, <1>7, OwnStep

\* ILWaitMutexRelease.
LEMMA MutexReleaseOne ==
  ASSUME OnlyOne, OneInv, NEW t \in Threads, NEW m \in Mutexes, MutexRelease(t, m)
  PROVE  OwnInv'
<1>1. Types /\ pc[t] = "idle" /\ owner[m] = t
  BY DEF OneInv, WaitInv, MutexRelease
<1>2. OwnedOK(t, m) /\ ~Waits(t, m) /\ ~Has(t, m)
  BY <1>1 DEF OneInv, OwnInv, Waits, Has
<1>3. count[m] = held[t][m] /\ held[t][m] \in Nat /\ Lists(t, m, 1)
  BY <1>1, <1>2 DEF OwnedOK
<1>4. /\ \A u \in Threads, n \in Mutexes : u # t \/ n # m => held'[u][n] = held[u][n]
      /\ held'[t][m] = held[t][m] - 1
  <2>1. held' = [held EXCEPT ![t] = [held[t] EXCEPT ![m] = held[t][m] - 1]]
    BY DEF MutexRelease
  <2>2. held \in [Threads -> [Mutexes -> Int]]
    BY <1>1 DEF Types, CallTypes
  <2> QED BY <2>1, <2>2
<1>5. \A u \in Threads : Rests(u)
  BY DEF MutexRelease, Rests
<1>6. CASE count[m] = 1 /\ HandOver(t, m, queue[m])
  <2>1. held'[t][m] = 0
    BY <1>3, <1>4, <1>6
  <2> QED BY <1>1, <1>4, <1>5, <1>6, <2>1, ReleaseOne
<1>7. CASE /\ count[m] > 1
           /\ count' = [count EXCEPT ![m] = @ - 1]
           /\ UNCHANGED <<owner, tableVars, queue, wakeupVars>>
  <2>1. owner' = owner /\ SameEntries /\ wcount' = wcount /\ limit' = limit
    BY <1>7, TablesKept DEF wakeupVars
  <2>2. count'[m] = count[m] - 1 /\ \A n \in Mutexes \ {m} : count'[n] = count[n]
    BY <1>1, <1>7 DEF Types, HandleTypes
  <2>3. ASSUME NEW u \in Threads PROVE OneOK(u)'
    BY <1>5, <2>1, OtherOne
  <2>4. ASSUME NEW u \in Threads, NEW n \in Mutexes, u # t \/ n # m PROVE OwnedOK(u, n)'
    <3>1. \/ owner'[n] = owner[n] /\ count'[n] = count[n]
          \/ owner[n] # u /\ owner'[n] # u
      BY <1>1, <2>1, <2>2, <2>4
    <3> QED BY <1>4, <1>5, <2>1, <2>4, <3>1, OtherOwned
  <2>5. OwnedOK(t, m)'
    <3>1. ~Waits(t, m)' /\ ~Has(t, m)' /\ pc'[t] \notin {"sleep", "waiting"}
      BY <1>1, <1>5 DEF Rests, Waits, Has
    <3>2. /\ held'[t][m] \in Nat /\ count'[m] = held'[t][m]
          /\ owner'[m] = t /\ Lists(t, m, 1)'
      BY <1>1, <1>3, <1>4, <1>7, <2>1, <2>2
    <3> QED BY <3>1, <3>2 DEF OwnedOK
  <2> QED BY <2>3, <2>4, <2>5 DEF OwnInv
<1> QED BY <1>6, <1>7 DEF MutexRelease

\* _ILWakeupDestroy comes to an entry of the table: it releases the mutex, or
\* the thread does not own it, which happens once the table has grown.
LEMMA DestroyNextOne ==
  ASSUME OnlyOne, OneInv, NEW t \in Threads, DestroyNext(t)
  PROVE  OwnInv'
<1>1. Types /\ pc[t] = "dying"
  BY DEF OneInv, WaitInv, DestroyNext
<1>2. PICK m \in Mutexes :
        /\ table[t][m] > 0
        /\ \/ /\ owner[m] = t
              /\ HandOver(t, m, queue[m])
              /\ held' = [held EXCEPT ![t][m] = 0]
           \/ /\ owner[m] # t
              /\ RemoveFromTable(t, m)
              /\ UNCHANGED <<owner, count, queue, wakeupVars, held>>
  BY DEF DestroyNext
<1>3. \A u \in Threads : Rests(u)
  BY DEF DestroyNext, Rests
<1>4. CASE owner[m] = t
  <2>1. /\ \A u \in Threads, n \in Mutexes : u # t \/ n # m => held'[u][n] = held[u][n]
        /\ held'[t][m] = 0
    <3>1. held' = [held EXCEPT ![t] = [held[t] EXCEPT ![m] = 0]]
      BY <1>2, <1>4
    <3>2. held \in [Threads -> [Mutexes -> Int]]
      BY <1>1 DEF Types, CallTypes
    <3> QED BY <3>1, <3>2
  <2> QED BY <1>1, <1>2, <1>3, <1>4, <2>1, ReleaseOne
<1>5. CASE owner[m] # t
  <2>1. ~Fitted(t)
    <3>1. OwnedOK(t, m)
      BY DEF OneInv, OwnInv
    <3> QED BY <1>2, <1>5, <3>1 DEF OwnedOK
  <2>2. SameEntries
    BY <1>1, <1>2, <1>5, <2>1, RemoveFromTableOK DEF Types, HandleTypes
  <2>3. owner' = owner /\ count' = count /\ held' = held /\ wcount' = wcount /\ limit' = limit
    BY <1>2, <1>5 DEF wakeupVars
  <2>4. ASSUME NEW u \in Threads PROVE OneOK(u)'
    BY <1>3, <2>3, OtherOne
  <2>5. ASSUME NEW u \in Threads, NEW n \in Mutexes PROVE OwnedOK(u, n)'
    BY <1>3, <2>2, <2>3, OtherOwned
  <2> QED BY <2>4, <2>5 DEF OwnInv
<1> QED BY <1>4, <1>5

\* A step that changes no mutex and takes nobody from the queue of one.
LEMMA EventOne ==
  ASSUME OnlyOne, OneInv, \A u \in Threads : Rests(u) /\ Served(u),
         UNCHANGED mutexVars, held' = held, \A m \in Mutexes : queue'[m] = queue[m]
  PROVE  OwnInv'
<1>1. owner' = owner /\ count' = count /\ SameEntries
  BY TablesKept DEF mutexVars
<1>2. ASSUME NEW u \in Threads PROVE OneOK(u)'
  <2>1. /\ limit'[u] = limit[u]
        /\ wcount'[u] # wcount[u] => \E h \in Handles : InQueue(u, h)
    BY DEF Served, Untouched, Signalled
  <2> QED BY <2>1, OtherOne
<1>3. ASSUME NEW u \in Threads, NEW n \in Mutexes PROVE OwnedOK(u, n)'
  <2>1. Target(u) = n => wcount'[u] = wcount[u]
    <3>1. CASE Untouched(u)
      BY <3>1 DEF Untouched
    <3>2. ASSUME NEW h \in Handles, Signalled(u, h) PROVE Target(u) # n
      <4>1. h # n
        BY <3>2 DEF Signalled, InQueue
      <4>2. Target(u) = h
        BY <3>2, OneQueue DEF Signalled
      <4> QED BY <4>1, <4>2
    <3> QED BY <3>1, <3>2 DEF Served
  <2> QED BY <1>1, <2>1, OtherOwned
<1> QED BY <1>2, <1>3 DEF OwnInv

\* ILWaitEventSet and ILWaitEventPulse signal no thread that waits for a mutex.
LEMMA EventStepOne ==
  ASSUME OnlyOne, OneInv, NEW e \in Events, NEW set \in BOOLEAN, EventWake(e, set)
  PROVE  OwnInv'
<1>1. HandleOK
  BY DEF OneInv, WaitInv, HandleOK, Types
<1>2. \A u \in Threads : Served(u)
  BY <1>1, EventWakeOK
<1>3. \A u \in Threads : Rests(u)
  BY DEF EventWake, Rests, callVars
<1>4. UNCHANGED mutexVars /\ held' = held
  BY DEF EventWake, callVars
<1>5. \A m \in Mutexes : queue'[m] = queue[m]
  BY <1>1, HandlesAssumption DEF EventWake, HandleOK, HandleTypes, Handles
<1> QED BY <1>2, <1>3, <1>4, <1>5, EventOne

\* Nor do the requests of other threads, ILWaitEventReset or a stuttering step.
LEMMA RequestOne ==
  ASSUME OnlyOne, OneInv, UNCHANGED mutexVars, queue' = queue,
         UNCHANGED wakeupVars, UNCHANGED callVars, pc' = pc, interrupted \subseteq interrupted'
  PROVE  OwnInv'
<1>1. \A u \in Threads : Rests(u)
  BY DEF Rests, callVars
<1>2. \A u \in Threads : Served(u)
  BY DEF Served, Untouched, InQueue, wakeupVars
<1>3. held' = held
  BY DEF callVars
<1> QED BY <1>1, <1>2, <1>3, EventOne

-----------------------------------------------------------------------------
(* Theorems for calls of ILWaitOne. *)

\* No mutex is owned, no thread is in a call.
LEMMA OwnInit == Init => OwnInv
<1> SUFFICES ASSUME Init PROVE OwnInv
  OBVIOUS
<1>1. ASSUME NEW t \in Threads PROVE OneOK(t)
  BY DEF Init, OneOK, Outside, Looping
<1>2. ASSUME NEW t \in Threads, NEW m \in Mutexes PROVE OwnedOK(t, m)
  <2>1. pc[t] = "idle" /\ owner[m] # t /\ held[t][m] = 0 /\ Lists(t, m, 0)
    BY HandlesAssumption DEF Init
  <2>2. ~Waits(t, m) /\ ~Has(t, m)
    BY <2>1 DEF Waits, Has
  <2> QED BY <2>1, <2>2 DEF OwnedOK
<1> QED BY <1>1, <1>2 DEF OwnInv

\* Every step keeps what is owned.
LEMMA OneNext ==
  ASSUME OnlyOne, OneInv, [Next]_vars
  PROVE  OneInv'
<1>1. ASSUME NEW t \in Threads, CallStep(t) PROVE OwnInv'
  <2>1. pc[t] \notin {"undo", "adjust"}
    BY DEF OneInv, OwnInv, OneOK
  <2>2. ~Undo(t) /\ ~Adjust(t)
    BY <2>1 DEF Undo, Adjust
  <2> QED BY <1>1, <2>2, EnterAbortedOne, EnterWaitOne, SetLimitOne, SetLimitFailsOne,
          RegisterAcquiredOne, RegisterQueuedOne, RegisterFailedOne, SleepInterruptedOne,
          SleepOverOne, SleepOne, WakeInterruptedOne, WakeSignalledOne, UnregisterNextOne,
          LeaveDisturbedOne, LeaveQuietOne, LeaveStoreOne, GiveBackOne DEF CallStep
<1>2. ASSUME NEW t \in Threads, ThreadStep(t) PROVE OwnInv'
  BY <1>1, <1>2, BeginOne, MutexReleaseOne, WakeTimeoutOne, AbortResetOne, ThreadStopsOne,
     DestroyNextOne, DestroyedOne DEF ThreadStep
<1>3. ASSUME NEW t \in Threads, Interrupt(t) \/ Abort(t) \/ WakeupInterrupt(t) PROVE OwnInv'
  <2>1. /\ UNCHANGED handleVars /\ UNCHANGED wakeupVars /\ pc' = pc /\ UNCHANGED callVars
        /\ interrupted \subseteq interrupted'
    BY <1>3 DEF Interrupt, Abort, WakeupInterrupt
  <2>2. UNCHANGED mutexVars /\ queue' = queue
    BY <2>1 DEF handleVars, mutexVars
  <2> QED BY <2>1, <2>2, RequestOne
<1>4. ASSUME NEW e \in Events, EventSet(e) \/ EventPulse(e) PROVE OwnInv'
  BY <1>4, EventStepOne DEF EventSet, EventPulse
<1>5. ASSUME NEW e \in Events, EventReset(e) PROVE OwnInv'
  <2>1. /\ UNCHANGED mutexVars /\ queue' = queue /\ UNCHANGED wakeupVars
        /\ UNCHANGED callVars /\ pc' = pc /\ interrupted' = interrupted
    BY <1>5 DEF EventReset
  <2> QED BY <2>1, RequestOne
<1>6. ASSUME UNCHANGED vars PROVE OwnInv'
  <2>1. /\ UNCHANGED mutexVars /\ queue' = queue /\ UNCHANGED wakeupVars
        /\ UNCHANGED callVars /\ pc' = pc /\ interrupted' = interrupted
    BY <1>6 DEF vars, mutexVars, wakeupVars, callVars
  <2> QED BY <2>1, RequestOne
<1>7. OwnInv'
  BY <1>2, <1>3, <1>4, <1>5, <1>6 DEF Next
<1>8. WaitInv'
  BY NextOK DEF OneInv
<1> QED BY <1>7, <1>8 DEF OneInv

\* The invariant holds in every state.
LEMMA OneInvariance == OnlyOne => (Spec => []OneInv)
<1> SUFFICES ASSUME OnlyOne PROVE Spec => []OneInv
  OBVIOUS
<1>1. Init => OneInv
  BY InitOK, OwnInit DEF OneInv
<1>2. OneInv /\ [Next]_vars => OneInv'
  BY OneNext
<1> QED BY <1>1, <1>2, PTL DEF Spec

\* Every variable keeps its type; in particular ILWaitMutexRelease does not
\* succeed more often than the caller was told that it has the mutex.
THEOREM TypeCorrect == OnlyOne => (Spec => []TypeOK)
<1> SUFFICES ASSUME OnlyOne PROVE Spec => []TypeOK
  OBVIOUS
<1>1. ASSUME OneInv PROVE TypeOK
  <2>1. Types
    BY <1>1 DEF OneInv, WaitInv
  <2>2. held \in [Threads -> [Mutexes -> Nat]]
    <3>1. held \in [Threads -> [Mutexes -> Int]]
      BY <2>1 DEF Types, CallTypes
    <3>2. ASSUME NEW t \in Threads PROVE held[t] \in [Mutexes -> Nat]
      <4>1. held[t] \in [Mutexes -> Int]
        BY <3>1
      <4>2. \A m \in Mutexes : held[t][m] \in Nat
        BY <1>1 DEF OneInv, OwnInv, OwnedOK
      <4> QED BY <4>1, <4>2
    <3> QED BY <3>1, <3>2
  <2> QED BY <2>1, <2>2 DEF TypeOK, Types, HandleTypes, WakeupTypes, FlagTypes, CallTypes
<1>2. OneInv => TypeOK
  BY <1>1
<1> QED BY <1>2, OneInvariance, PTL

\* A thread that ILWaitOne told to have a mutex is its owner, and between calls
\* it owns the mutex exactly as often as it was told and has not released it:
\* whatever timeout, interrupt, abort or failed allocation met a hand-over.
THEOREM HeldIsOwnedHolds == OnlyOne => (Spec => []HeldIsOwned)
<1> SUFFICES ASSUME OnlyOne PROVE Spec => []HeldIsOwned
  OBVIOUS
<1>1. ASSUME OneInv PROVE HeldIsOwned
  <2> SUFFICES ASSUME NEW t \in Threads, NEW m \in Mutexes
               PROVE  /\ held[t][m] > 0 => owner[m] = t
                      /\ pc[t] = "idle" /\ owner[m] = t => count[m] = held[t][m]
    BY DEF HeldIsOwned
  <2>1. OwnedOK(t, m)
    BY <1>1 DEF OneInv, OwnInv
  <2> QED BY <2>1 DEF OwnedOK, Waits, Has
<1>2. OneInv => HeldIsOwned
  BY <1>1
<1> QED BY <1>2, OneInvariance, PTL

\* Between calls, and while _ILWakeupDestroy goes through it, the table of a
\* wakeup lists exactly the mutexes that its thread owns, each once, as long as
\* they have always fitted into the table that was allocated; what the growth
\* of the table loses is left out by that condition, not by the model.
THEOREM TableExactHolds == OnlyOne => (Spec => []TableExact)
<1> SUFFICES ASSUME OnlyOne PROVE Spec => []TableExact
  OBVIOUS
<1>1. ASSUME OneInv PROVE TableExact
  <2> SUFFICES ASSUME NEW t \in Threads, NEW m \in Mutexes, pc[t] \in {"idle", "dying"},
                      Fitted(t)
               PROVE  table[t][m] = (IF owner[m] = t THEN 1 ELSE 0)
    BY DEF TableExact
  <2>1. OwnedOK(t, m)
    BY <1>1 DEF OneInv, OwnInv
  <2> QED BY <2>1 DEF OwnedOK, Waits
<1>2. OneInv => TableExact
  BY <1>1
<1> QED BY <1>2, OneInvariance, PTL

=============================================================================
