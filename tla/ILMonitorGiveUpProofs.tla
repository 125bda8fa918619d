----------------------- MODULE ILMonitorGiveUpProofs -----------------------
(***************************************************************************)
(* Proofs about the monitors of objects, when waits for a monitor may time *)
(* out, be interrupted or be aborted.  A thread that gives up may free the *)
(* monitor before the thread that left it has posted its token; the token  *)
(* then comes back with the monitor, and two threads may own it, so that   *)
(* what ILMonitorProofs shows about tokens and owners does not hold here.  *)
(* What does: monitor->users is never less than the number of those that   *)
(* use the monitor, so that the monitor is never taken away from them.     *)
(* It may be more (a thread whose ownership another one overwrote never    *)
(* leaves the users), and must not wrap around: every user was paid for by *)
(* a token or is a thread that waits for one (Paid).                       *)
(***************************************************************************)
EXTENDS ILMonitor, FiniteSetTheorems, TLAPS

-----------------------------------------------------------------------------
(* The inductive invariant. *)

Waiting == {"waitPost", "waiting", "reenter", "restore"}
Using == Calling \cup {"check", "try", "enterWait", "reload"}

\* Where the control of thread t is, its local variables, and the monitor it
\* has read from the location: that one stays attached until t is done.
ThreadOK(t) ==
  /\ IF pc[t] \in {"idle", "dead", "trim", "post"} THEN at[t] = NoLocation
                                                   ELSE at[t] \in Locations
  /\ poolLock = t <=> pc[t] \in Locked
  /\ pc[t] # "trim" => batch[t] = {}
  /\ pc[t] \in Waiting => saved[t] > 0
  /\ pc[t] \in Using => loc[at[t]] # NoMonitor
  /\ pc[t] \in Using \ {"reload"} => loc[at[t]] = mon[t]
  /\ pc[t] = "post" => mon[t] \in Monitors

\* A monitor is in one place: attached to one location, in one freelist, or on
\* its way to one.  Nothing is said of its token.
FreeOK == freeList \subseteq usedList
LocalOK ==
  \A t \in Threads : \A m \in localFree[t] :
    /\ m \in usedList /\ m \notin freeList
    /\ owner[m] = t /\ users[m] = 1 /\ enterCount[m] = 1
BatchOK ==
  \A t \in Threads : \A m \in batch[t] :
    /\ m \in usedList /\ m \notin freeList /\ owner[m] = NoThread
    /\ \A s \in Threads : m \in batch[s] => s = t
AttachedOK ==
  \A l \in Locations : loc[l] # NoMonitor =>
    /\ loc[l] \in usedList /\ loc[l] \notin freeList
    /\ \A t \in Threads : loc[l] \notin localFree[t] /\ loc[l] \notin batch[t]
    /\ \A k \in Locations : loc[k] = loc[l] => k = l
HomeOK == FreeOK /\ LocalOK /\ BatchOK /\ AttachedOK

\* The threads inside the monitor at l, as they see it; those that are counted
\* because of the call they are in; those of them that wait for the token, or
\* have stopped waiting; those that are about to post it.
Inside(l) == {t \in Threads : depth[l][t] > 0}
Callers(l) == {t \in Threads : pc[t] \in Calling /\ at[t] = l}
Queued(l) ==
  {t \in Threads : pc[t] \in {"blocked", "giveUp", "waiting", "reenter"} /\ at[t] = l}
Posting(l) == {t \in Threads : pc[t] = "post" /\ mon[t] = loc[l]}

\* The owner is inside, with the count it thinks it has.
OwnerOK(l) ==
  \A t \in Threads :
    owner[loc[l]] = t => depth[l][t] > 0 /\ enterCount[loc[l]] = depth[l][t]
\* No one that uses the monitor is left out of users ...
Counted(l) == users[loc[l]] >= Cardinality(Inside(l)) + Cardinality(Callers(l))
\* ... and users grows only with the threads that wait and the tokens that come.
Spare == Cardinality(Threads) + MaxToken + 1
Paid(l) ==
  users[loc[l]] + token[loc[l]] + Cardinality(Posting(l)) <= Cardinality(Queued(l)) + Spare
LocationOK(l) ==
  /\ loc[l] = NoMonitor => \A t \in Threads : depth[l][t] = 0
  /\ loc[l] # NoMonitor => OwnerOK(l) /\ Counted(l) /\ Paid(l)

TokensOK == \A m \in Monitors : token[m] <= MaxToken

GiveUpInv ==
  /\ TypeOK /\ TokensOK
  /\ \A t \in Threads : ThreadOK(t)
  /\ HomeOK
  /\ \A l \in Locations : LocationOK(l)

\* monitor->users is wide enough for the threads and the tokens.
WideCount == UserLimit > 2 * Cardinality(Threads) + MaxToken + 1

-----------------------------------------------------------------------------
(* Numbers of threads. *)

One(S, t) == IF t \in S THEN 1 ELSE 0

\* Sets of threads that differ in t at most differ in size by t.
LEMMA Shift ==
    ASSUME NEW S \in SUBSET Threads, NEW R \in SUBSET Threads, NEW t \in Threads,
           \A s \in Threads \ {t} : s \in R <=> s \in S
    PROVE  /\ Cardinality(S) \in Nat /\ Cardinality(R) \in Nat
           /\ Cardinality(R) = Cardinality(S) + One(R, t) - One(S, t)
<1> DEFINE Rest == S \ {t}
<1>1. IsFiniteSet(S) /\ IsFiniteSet(R) /\ IsFiniteSet(Rest)
  BY SetsAssumption, FS_Subset
<1>2. Cardinality(S) \in Nat /\ Cardinality(R) \in Nat /\ Cardinality(Rest) \in Nat
  BY <1>1, FS_CardinalityType
<1>3. Cardinality(S) = Cardinality(Rest) + One(S, t)
  <2>1. CASE t \in S
    BY <1>1, <1>2, <2>1, FS_RemoveElement DEF One
  <2>2. CASE t \notin S
    <3>1. Rest = S
      BY <2>2
    <3> HIDE DEF Rest
    <3> QED BY <1>2, <2>2, <3>1 DEF One
  <2> QED BY <2>1, <2>2
<1>4. Cardinality(R) = Cardinality(Rest) + One(R, t)
  <2>1. CASE t \in R
    <3>1. R \ {t} = Rest
      OBVIOUS
    <3>2. Cardinality(R \ {t}) = Cardinality(R) - 1
      BY <1>1, <2>1, FS_RemoveElement
    <3>3. Cardinality(Rest) = Cardinality(R \ {t})
      BY <3>1
    <3> HIDE DEF Rest
    <3> QED BY <1>2, <2>1, <3>2, <3>3 DEF One
  <2>2. CASE t \notin R
    <3>1. Rest = R
      BY <2>2
    <3> HIDE DEF Rest
    <3> QED BY <1>2, <2>2, <3>1 DEF One
  <2> QED BY <2>1, <2>2
<1>5. One(S, t) \in Nat /\ One(R, t) \in Nat
  BY DEF One
<1> HIDE DEF Rest
<1> QED BY <1>2, <1>3, <1>4, <1>5

\* A set of threads is no larger than all of them, and smaller without one.
LEMMA SizeOf ==
    ASSUME NEW S \in SUBSET Threads
    PROVE  /\ Cardinality(S) \in Nat /\ Cardinality(Threads) \in Nat
           /\ Cardinality(S) <= Cardinality(Threads)
           /\ \A t \in Threads : t \notin S => Cardinality(S) + 1 <= Cardinality(Threads)
           /\ Cardinality(S) = 0 <=> S = {}
           /\ \A t \in S : Cardinality(S) = 1 => S = {t}
<1>1. IsFiniteSet(Threads) /\ IsFiniteSet(S) /\ Cardinality(S) <= Cardinality(Threads)
  BY SetsAssumption, FS_Subset
<1>2. Cardinality(S) \in Nat /\ Cardinality(Threads) \in Nat
  BY <1>1, FS_CardinalityType
<1>3. ASSUME NEW t \in Threads, t \notin S PROVE Cardinality(S) + 1 <= Cardinality(Threads)
  <2>1. Cardinality(S \cup {t}) = Cardinality(S) + 1
    BY <1>1, <1>3, FS_AddElement
  <2>2. Cardinality(S \cup {t}) <= Cardinality(Threads)
    BY <1>1, FS_Subset
  <2> QED BY <2>1, <2>2
<1>4. Cardinality(S) = 0 <=> S = {}
  BY <1>1, FS_EmptySet
<1>5. ASSUME NEW t \in S, Cardinality(S) = 1 PROVE S = {t}
  <2>1. IsFiniteSet(S \ {t}) /\ Cardinality(S \ {t}) = Cardinality(S) - 1
    BY <1>1, FS_RemoveElement
  <2>2. Cardinality(S \ {t}) = 0
    BY <1>5, <2>1
  <2>3. S \ {t} = {}
    BY <2>1, <2>2, FS_EmptySet
  <2> QED BY <2>3
<1> QED BY <1>1, <1>2, <1>3, <1>4, <1>5

\* The width of users does not matter where it is wide enough.
LEMMA Modulo ==
    ASSUME NEW n \in Nat, n < UserLimit
    PROVE  n % UserLimit = n
  BY BoundsAssumption

\* One more user is counted when a thread comes in from outside the queue, or
\* with a token.
LEMMA RoomForOne ==
    ASSUME WideCount, GiveUpInv, NEW l \in Locations, loc[l] # NoMonitor,
           token[loc[l]] > 0 \/ \E t \in Threads : t \notin Queued(l)
    PROVE  /\ Inc(users[loc[l]]) = users[loc[l]] + 1
           /\ users[loc[l]] + 1 \in 0 .. (UserLimit - 1)
<1>1. loc[l] \in Monitors /\ users[loc[l]] \in Nat /\ token[loc[l]] \in Nat /\ Paid(l)
  BY DEF GiveUpInv, TypeOK, LocationOK
<1>2. Queued(l) \in SUBSET Threads /\ Posting(l) \in SUBSET Threads
  BY DEF Queued, Posting
<1>3. /\ Cardinality(Posting(l)) \in Nat /\ Cardinality(Queued(l)) \in Nat
      /\ Cardinality(Threads) \in Nat
      /\ Cardinality(Queued(l)) <= Cardinality(Threads)
      /\ \A t \in Threads : t \notin Queued(l) => Cardinality(Queued(l)) + 1 <= Cardinality(Threads)
  BY <1>2, SizeOf
<1>4. users[loc[l]] + token[loc[l]] + Cardinality(Posting(l)) <= Cardinality(Queued(l)) + Spare
  BY <1>1 DEF Paid
<1>5. MaxToken \in Nat /\ UserLimit \in Nat /\ Spare = Cardinality(Threads) + MaxToken + 1
  BY BoundsAssumption DEF Spare
<1>6. users[loc[l]] + 1 < UserLimit
  <2>1. CASE token[loc[l]] > 0
    BY <1>1, <1>3, <1>4, <1>5, <2>1 DEF WideCount
  <2>2. CASE \E t \in Threads : t \notin Queued(l)
    <3>1. Cardinality(Queued(l)) + 1 <= Cardinality(Threads)
      BY <1>3, <2>2
    <3> QED BY <1>1, <1>3, <1>4, <1>5, <3>1 DEF WideCount
  <2> QED BY <2>1, <2>2
<1> QED BY <1>1, <1>5, <1>6, Modulo DEF Inc

\* One user less, where there is one.
LEMMA OneLess ==
    ASSUME NEW n \in 0 .. (UserLimit - 1), n > 0
    PROVE  Dec(n) = n - 1 /\ n - 1 \in 0 .. (UserLimit - 1)
<1>1. UserLimit \in Nat
  BY BoundsAssumption
<1>2. n - 1 \in Nat /\ n - 1 < UserLimit
  BY <1>1
<1> QED BY <1>1, <1>2, Modulo DEF Dec

-----------------------------------------------------------------------------
(* What a step of one thread leaves alone. *)

\* The control and the local variables of s, and how deep it is inside.
Stays(s) ==
  /\ pc'[s] = pc[s] /\ at'[s] = at[s] /\ mon'[s] = mon[s] /\ saved'[s] = saved[s]
  /\ batch'[s] = batch[s] /\ (poolLock' = s <=> poolLock = s)
  /\ \A l \in Locations : depth'[l][s] = depth[l][s]

\* The sets of threads at a location keep every thread that takes no step.
LEMMA OthersAt ==
    ASSUME NEW t \in Threads, NEW l \in Locations, \A s \in Threads \ {t} : Stays(s), loc'[l] = loc[l]
    PROVE  \A s \in Threads \ {t} : /\ s \in Inside(l)' <=> s \in Inside(l)
                                    /\ s \in Callers(l)' <=> s \in Callers(l)
                                    /\ s \in Queued(l)' <=> s \in Queued(l)
                                    /\ s \in Posting(l)' <=> s \in Posting(l)
  BY DEF Stays, Inside, Callers, Queued, Posting

\* A thread that takes no step, and whose object keeps its monitor.
LEMMA ThreadStays ==
    ASSUME NEW s \in Threads, ThreadOK(s), Stays(s),
           \A l \in Locations : pc[s] \in Using /\ at[s] = l => loc'[l] = loc[l]
    PROVE  ThreadOK(s)'
<1>1. /\ pc'[s] = pc[s] /\ at'[s] = at[s] /\ mon'[s] = mon[s] /\ saved'[s] = saved[s]
      /\ batch'[s] = batch[s] /\ (poolLock' = s <=> poolLock = s)
  BY DEF Stays
<1>2. pc[s] \in Using => at[s] \in Locations /\ loc'[at[s]] = loc[at[s]]
  BY DEF ThreadOK, Using, Calling
<1> QED BY <1>1, <1>2 DEF ThreadOK

\* The users of a monitor that stays attached, when thread t takes a step: what
\* t adds to them is at least what it needs, and at most what it pays.
LEMMA CountStep ==
    ASSUME TypeOK, TypeOK', NEW t \in Threads, NEW l \in Locations, LocationOK(l),
           loc[l] # NoMonitor, loc'[l] = loc[l], \A s \in Threads \ {t} : Stays(s),
           users'[loc[l]] + One(Inside(l), t) + One(Callers(l), t)
             >= users[loc[l]] + One(Inside(l)', t) + One(Callers(l)', t),
           users'[loc[l]] + token'[loc[l]] + One(Posting(l)', t) + One(Queued(l), t)
             <= users[loc[l]] + token[loc[l]] + One(Posting(l), t) + One(Queued(l)', t)
    PROVE  Counted(l)' /\ Paid(l)'
<1>1. /\ loc[l] \in Monitors /\ users[loc[l]] \in Nat /\ token[loc[l]] \in Nat
      /\ users'[loc[l]] \in Nat /\ token'[loc[l]] \in Nat /\ Counted(l) /\ Paid(l)
  BY DEF TypeOK, LocationOK
<1>2. /\ Inside(l) \in SUBSET Threads /\ Inside(l)' \in SUBSET Threads
      /\ Callers(l) \in SUBSET Threads /\ Callers(l)' \in SUBSET Threads
      /\ Queued(l) \in SUBSET Threads /\ Queued(l)' \in SUBSET Threads
      /\ Posting(l) \in SUBSET Threads /\ Posting(l)' \in SUBSET Threads
  BY DEF Inside, Callers, Queued, Posting
<1>o. \A s \in Threads \ {t} : /\ s \in Inside(l)' <=> s \in Inside(l)
                               /\ s \in Callers(l)' <=> s \in Callers(l)
                               /\ s \in Queued(l)' <=> s \in Queued(l)
                               /\ s \in Posting(l)' <=> s \in Posting(l)
  BY OthersAt
<1>3. /\ Cardinality(Inside(l)) \in Nat /\ Cardinality(Inside(l)') \in Nat
      /\ Cardinality(Inside(l)') = Cardinality(Inside(l)) + One(Inside(l)', t) - One(Inside(l), t)
  BY <1>2, <1>o, Shift
<1>4. /\ Cardinality(Callers(l)) \in Nat /\ Cardinality(Callers(l)') \in Nat
      /\ Cardinality(Callers(l)') = Cardinality(Callers(l)) + One(Callers(l)', t) - One(Callers(l), t)
  BY <1>2, <1>o, Shift
<1>5. /\ Cardinality(Queued(l)) \in Nat /\ Cardinality(Queued(l)') \in Nat
      /\ Cardinality(Queued(l)') = Cardinality(Queued(l)) + One(Queued(l)', t) - One(Queued(l), t)
  BY <1>2, <1>o, Shift
<1>6. /\ Cardinality(Posting(l)) \in Nat /\ Cardinality(Posting(l)') \in Nat
      /\ Cardinality(Posting(l)') = Cardinality(Posting(l)) + One(Posting(l)', t) - One(Posting(l), t)
  BY <1>2, <1>o, Shift
<1>7. \A S : One(S, t) \in {0, 1}
  BY DEF One
<1>8. /\ One(Inside(l), t) \in {0, 1} /\ One(Inside(l)', t) \in {0, 1}
      /\ One(Callers(l), t) \in {0, 1} /\ One(Callers(l)', t) \in {0, 1}
      /\ One(Queued(l), t) \in {0, 1} /\ One(Queued(l)', t) \in {0, 1}
      /\ One(Posting(l), t) \in {0, 1} /\ One(Posting(l)', t) \in {0, 1}
  BY <1>7
<1>9. Counted(l)'
  <2>1. users[loc[l]] >= Cardinality(Inside(l)) + Cardinality(Callers(l))
    BY <1>1 DEF Counted
  <2>2. users'[loc[l]] >= Cardinality(Inside(l)') + Cardinality(Callers(l)')
    BY <1>1, <1>3, <1>4, <1>8, <2>1
  <2> QED BY <2>2 DEF Counted
<1>10. Paid(l)'
  <2>1. users[loc[l]] + token[loc[l]] + Cardinality(Posting(l)) <= Cardinality(Queued(l)) + Spare
    BY <1>1 DEF Paid
  <2>s. Spare \in Nat
    BY BoundsAssumption, SetsAssumption, FS_CardinalityType DEF Spare
  <2>2. users'[loc[l]] + token'[loc[l]] + Cardinality(Posting(l)') <= Cardinality(Queued(l)') + Spare
    BY <1>1, <1>5, <1>6, <1>8, <2>1, <2>s
  <2> QED BY <2>2 DEF Paid, Spare
<1> QED BY <1>9, <1>10

\* An object whose monitor the step is not about.
LEMMA LocationStays ==
    ASSUME TypeOK, NEW l \in Locations, LocationOK(l), loc'[l] = loc[l],
           \A s \in Threads : depth'[l][s] = depth[l][s],
           loc[l] # NoMonitor => /\ owner'[loc[l]] = owner[loc[l]]
                                 /\ enterCount'[loc[l]] = enterCount[loc[l]]
                                 /\ users'[loc[l]] = users[loc[l]]
                                 /\ token'[loc[l]] = token[loc[l]],
           Callers(l)' = Callers(l), Queued(l)' = Queued(l), Posting(l)' \subseteq Posting(l)
    PROVE  LocationOK(l)'
<1>1. CASE loc[l] = NoMonitor
  BY <1>1 DEF LocationOK
<1>2. CASE loc[l] # NoMonitor
  <2>1. OwnerOK(l) /\ Counted(l) /\ Paid(l)
    BY <1>2 DEF LocationOK
  <2>2. OwnerOK(l)'
    BY <1>2, <2>1 DEF OwnerOK
  <2>3. Inside(l)' = Inside(l)
    BY DEF Inside
  <2>4. Counted(l)'
    BY <1>2, <2>1, <2>3 DEF Counted
  <2>5. /\ Cardinality(Posting(l)') \in Nat /\ Cardinality(Posting(l)) \in Nat
        /\ Cardinality(Posting(l)') <= Cardinality(Posting(l))
    <3>1. IsFiniteSet(Posting(l))
      BY SetsAssumption, FS_Subset DEF Posting
    <3>2. IsFiniteSet(Posting(l)') /\ Cardinality(Posting(l)') <= Cardinality(Posting(l))
      BY <3>1, FS_Subset
    <3> QED BY <3>1, <3>2, FS_CardinalityType
  <2>6. Paid(l)'
    <3>1. users[loc[l]] + token[loc[l]] + Cardinality(Posting(l)) <= Cardinality(Queued(l)) + Spare
      BY <2>1 DEF Paid
    <3>2. users[loc[l]] \in Nat /\ token[loc[l]] \in Nat
      BY <1>2 DEF TypeOK
    <3>3. Cardinality(Queued(l)) + Spare \in Nat
      <4>1. Queued(l) \in SUBSET Threads
        BY DEF Queued
      <4> QED BY <4>1, SizeOf, BoundsAssumption DEF Spare
    <3>4. users[loc[l]] + token[loc[l]] + Cardinality(Posting(l)') <= Cardinality(Queued(l)) + Spare
      BY <2>5, <3>1, <3>2, <3>3
    <3> QED BY <1>2, <3>4 DEF Paid, Spare
  <2> QED BY <1>2, <2>2, <2>4, <2>6 DEF LocationOK
<1> QED BY <1>1, <1>2

\* Homes, when no list and no object changes.
LEMMA HomeStays ==
    ASSUME HomeOK, UNCHANGED <<loc, usedList, freeList, localFree, batch>>,
           \A m \in Monitors : (\A l \in Locations : loc[l] # m) =>
                    /\ owner'[m] = owner[m] /\ enterCount'[m] = enterCount[m]
                    /\ users'[m] = users[m],
           TypeOK
    PROVE  HomeOK'
<1>b. \A t \in Threads : \A m \in localFree[t] : \A l \in Locations : loc[l] # m
  BY SetsAssumption DEF HomeOK, AttachedOK, TypeOK
<1>c. \A t \in Threads : \A m \in batch[t] : \A l \in Locations : loc[l] # m
  BY SetsAssumption DEF HomeOK, AttachedOK, TypeOK
<1>1. FreeOK'
  BY DEF HomeOK, FreeOK
<1>2. LocalOK'
  BY <1>b DEF HomeOK, LocalOK, TypeOK
<1>3. BatchOK'
  BY <1>c DEF HomeOK, BatchOK, TypeOK
<1>4. AttachedOK'
  BY DEF HomeOK, AttachedOK
<1> QED BY <1>1, <1>2, <1>3, <1>4 DEF HomeOK

\* Thread t does something at location l, or at none.
Touches(t, l) ==
  /\ \A s \in Threads \ {t} : Stays(s)
  /\ at[t] \in {l, NoLocation} /\ at'[t] \in {l, NoLocation}
  /\ pc'[t] = "post" => l \in Locations /\ mon'[t] = loc[l] /\ loc[l] # NoMonitor
  /\ \A k \in Locations \ {l} :
       /\ loc'[k] = loc[k] /\ depth'[k][t] = depth[k][t]
       /\ loc[k] # NoMonitor => /\ owner'[loc[k]] = owner[loc[k]]
                                /\ enterCount'[loc[k]] = enterCount[loc[k]]
                                /\ users'[loc[k]] = users[loc[k]]
                                /\ token'[loc[k]] = token[loc[k]]
  /\ l \in Locations =>
       loc'[l] = loc[l] \/ \A s \in Threads \ {t} : ~(pc[s] \in Using /\ at[s] = l)

\* A step of thread t at object l: what has to be shown.
LEMMA TouchStep ==
    ASSUME GiveUpInv, NEW t \in Threads, NEW l \in Locations \cup {NoLocation}, Touches(t, l),
           TypeOK', TokensOK', ThreadOK(t)', HomeOK', l \in Locations => LocationOK(l)'
    PROVE  GiveUpInv'
<1>i. TypeOK /\ HomeOK /\ (\A s \in Threads : ThreadOK(s)) /\ \A k \in Locations : LocationOK(k)
  BY DEF GiveUpInv
<1>1. ASSUME NEW s \in Threads PROVE ThreadOK(s)'
  <2>1. CASE s = t
    BY <2>1
  <2>2. CASE s # t
    <3>1. Stays(s)
      BY <2>2 DEF Touches
    <3>2. \A k \in Locations : pc[s] \in Using /\ at[s] = k => loc'[k] = loc[k]
      BY <2>2 DEF Touches
    <3> QED BY <1>i, <3>1, <3>2, ThreadStays
  <2> QED BY <2>1, <2>2
<1>2. ASSUME NEW k \in Locations PROVE LocationOK(k)'
  <2>1. CASE k = l
    BY <2>1
  <2>2. CASE k # l
    <3>1. /\ loc'[k] = loc[k]
          /\ loc[k] # NoMonitor => /\ owner'[loc[k]] = owner[loc[k]]
                                   /\ enterCount'[loc[k]] = enterCount[loc[k]]
                                   /\ users'[loc[k]] = users[loc[k]]
                                   /\ token'[loc[k]] = token[loc[k]]
      BY <2>2 DEF Touches
    <3>2. \A s \in Threads : depth'[k][s] = depth[k][s]
      BY <2>2 DEF Touches, Stays
    <3>3. at[t] # k /\ at'[t] # k
      BY <2>2, SetsAssumption DEF Touches
    <3>4. pc'[t] = "post" => mon'[t] # loc[k]
      BY <1>i, <2>2 DEF Touches, HomeOK, AttachedOK
    <3>5. \A s \in Threads \ {t} : pc'[s] = pc[s] /\ at'[s] = at[s] /\ mon'[s] = mon[s]
      BY DEF Touches, Stays
    <3>6. Callers(k)' = Callers(k) /\ Queued(k)' = Queued(k)
      BY <3>3, <3>5 DEF Callers, Queued
    <3>7. Posting(k)' \subseteq Posting(k)
      BY <3>1, <3>4, <3>5 DEF Posting
    <3> QED BY <1>i, <3>1, <3>2, <3>6, <3>7, LocationStays
  <2> QED BY <2>1, <2>2
<1> QED BY <1>1, <1>2 DEF GiveUpInv

-----------------------------------------------------------------------------
(* Steps that change only the control and the local variables of a thread. *)

\* A step that moves one thread and no shared state.
LEMMA ControlStep ==
    ASSUME GiveUpInv, NEW t \in Threads, NEW l \in Locations,
           UNCHANGED <<shared, lists, depth>>,
           \A s \in Threads \ {t} : /\ pc'[s] = pc[s] /\ at'[s] = at[s] /\ mon'[s] = mon[s]
                                    /\ saved'[s] = saved[s] /\ (poolLock' = s <=> poolLock = s),
           at[t] \in {l, NoLocation}, at'[t] \in {l, NoLocation}, pc'[t] # "post",
           t \in Callers(l)' <=> t \in Callers(l), t \in Queued(l)' <=> t \in Queued(l),
           TypeOK', ThreadOK(t)'
    PROVE  GiveUpInv'
<1>i. TypeOK /\ TokensOK /\ HomeOK /\ LocationOK(l)
  BY DEF GiveUpInv
<1>u. UNCHANGED <<loc, owner, enterCount, users, token, usedList, freeList, localFree, batch, depth>>
  BY DEF shared, lists
<1>1. HomeOK' /\ TokensOK'
  BY <1>i, <1>u, HomeStays DEF TokensOK
<1>2. \A s \in Threads \ {t} : Stays(s)
  BY <1>u DEF Stays
<1>3. Touches(t, l)
  BY <1>u, <1>2 DEF Touches
<1>4. Callers(l)' = Callers(l) /\ Queued(l)' = Queued(l)
  BY <1>u DEF Callers, Queued
<1>5. Posting(l)' \subseteq Posting(l)
  BY <1>u DEF Posting
<1>6. LocationOK(l)'
  BY <1>i, <1>u, <1>4, <1>5, LocationStays
<1> QED BY <1>1, <1>3, <1>6, TouchStep

\* ILMonitorTimedTryEnter reads the object's word.
LEMMA LoadStep ==
    ASSUME GiveUpInv, NEW t \in Threads, NEW l \in Locations, NEW k \in Timeouts, EnterLoad(t, l, k)
    PROVE  GiveUpInv'
<1>i. TypeOK /\ ThreadOK(t)
  BY DEF GiveUpInv
<1>1. /\ pc[t] = "idle" /\ pc'[t] \in {"cas", "lock"} /\ at'[t] = l /\ at[t] = NoLocation
      /\ \A s \in Threads \ {t} : pc'[s] = pc[s] /\ at'[s] = at[s]
      /\ UNCHANGED <<mon, saved, poolLock, shared, lists, depth>>
  BY <1>i DEF EnterLoad, Go, TypeOK, ThreadOK
<1>u. UNCHANGED <<loc, owner, enterCount, users, token, usedList, freeList, localFree, batch, depth>>
  BY <1>1 DEF shared, lists
<1>2. TypeOK'
  BY <1>i, <1>u DEF EnterLoad, Go, TypeOK, Control, Locked
<1>3. ThreadOK(t)'
  BY <1>i, <1>1, <1>u DEF ThreadOK, Locked, Waiting, Using, Calling
<1>4. (t \in Callers(l)' <=> t \in Callers(l)) /\ (t \in Queued(l)' <=> t \in Queued(l))
  BY <1>1 DEF Callers, Queued, Calling
<1> QED BY <1>1, <1>2, <1>3, <1>4, ControlStep

\* The pool lock is taken.
LEMMA LockStep ==
    ASSUME GiveUpInv, NEW t \in Threads, EnterLock(t)
    PROVE  GiveUpInv'
<1>i. TypeOK /\ ThreadOK(t)
  BY DEF GiveUpInv
<1>1. /\ pc[t] = "lock" /\ at[t] \in Locations /\ at' = at
      /\ IF loc[at[t]] = NoMonitor THEN pc'[t] = "attach" ELSE pc'[t] = "check"
      /\ mon'[t] = loc[at[t]] /\ poolLock = NoThread /\ poolLock' = t
      /\ \A s \in Threads \ {t} : pc'[s] = pc[s] /\ mon'[s] = mon[s]
      /\ UNCHANGED <<saved, shared, lists, depth>>
  BY <1>i DEF EnterLock, Go, TypeOK, ThreadOK
<1>u. UNCHANGED <<loc, owner, enterCount, users, token, usedList, freeList, localFree, batch, depth>>
  BY <1>1 DEF shared, lists
<1>2. TypeOK'
  BY <1>i, <1>1, <1>u DEF EnterLock, Go, TypeOK, Control, Locked
<1>3. ThreadOK(t)'
  BY <1>i, <1>1, <1>u DEF ThreadOK, Locked, Waiting, Using, Calling
<1>l. PICK l \in Locations : l = at[t]
  BY <1>1
<1>4. (t \in Callers(l)' <=> t \in Callers(l)) /\ (t \in Queued(l)' <=> t \in Queued(l))
  BY <1>1 DEF Callers, Queued, Calling
<1>5. \A s \in Threads \ {t} : poolLock' = s <=> poolLock = s
  BY <1>1, SetsAssumption
<1> QED BY <1>l, <1>1, <1>2, <1>3, <1>4, <1>5, ControlStep

\* From one place to the next.
Jumps == {<<"cas", "lock">>, <<"attach", "reload">>, <<"check", "try">>, <<"check", "enterWait">>,
          <<"try", "enterWait">>, <<"waiting", "reenter">>, <<"blocked", "giveUp">>,
          <<"acquired", "giveBack">>}

\* A step that only moves the control point.
LEMMA JumpStep ==
    ASSUME GiveUpInv, NEW t \in Threads, NEW a, NEW b, <<a, b>> \in Jumps, pc[t] = a, Go(t, b),
           UNCHANGED <<poolLock, depth, lists, locals, shared>>,
           b = "reload" => loc[at[t]] # NoMonitor
    PROVE  GiveUpInv'
<1>i. TypeOK /\ ThreadOK(t)
  BY DEF GiveUpInv
<1>u. UNCHANGED <<loc, owner, enterCount, users, token, usedList, freeList, localFree, batch, depth,
                  poolLock, at, mon, ms, saved>>
  BY DEF shared, lists, locals
<1>j. \/ a = "cas" /\ b = "lock"
      \/ a = "attach" /\ b = "reload"
      \/ a = "check" /\ b \in {"try", "enterWait"}
      \/ a = "try" /\ b = "enterWait"
      \/ a = "waiting" /\ b = "reenter"
      \/ a = "blocked" /\ b = "giveUp"
      \/ a = "acquired" /\ b = "giveBack"
  BY DEF Jumps
<1>1. /\ pc'[t] = b /\ at[t] \in Locations
      /\ \A s \in Threads \ {t} : pc'[s] = pc[s]
  BY <1>i, <1>j DEF Go, TypeOK, ThreadOK
<1>2. TypeOK'
  BY <1>i, <1>u, <1>j DEF Go, TypeOK, Control, Locked
<1>3. ThreadOK(t)'
  BY <1>i, <1>1, <1>u, <1>j DEF ThreadOK, Locked, Waiting, Using, Calling
<1>l. PICK l \in Locations : l = at[t]
  BY <1>1
<1>4. (t \in Callers(l)' <=> t \in Callers(l)) /\ (t \in Queued(l)' <=> t \in Queued(l))
  BY <1>1, <1>u, <1>j DEF Callers, Queued, Calling
<1>5. pc'[t] # "post"
  BY <1>1, <1>j
<1> QED BY <1>l, <1>1, <1>2, <1>3, <1>4, <1>5, <1>u, ControlStep

\* The object's word is read again under the pool lock.
LEMMA ReloadStep ==
    ASSUME GiveUpInv, NEW t \in Threads, EnterReload(t)
    PROVE  GiveUpInv'
<1>i. TypeOK /\ ThreadOK(t)
  BY DEF GiveUpInv
<1>1. /\ pc[t] = "reload" /\ pc'[t] = "check" /\ at[t] \in Locations /\ at' = at
      /\ mon'[t] = loc[at[t]]
      /\ \A s \in Threads \ {t} : pc'[s] = pc[s] /\ mon'[s] = mon[s]
      /\ UNCHANGED <<poolLock, saved, shared, lists, depth>>
  BY <1>i DEF EnterReload, Go, TypeOK, ThreadOK
<1>u. UNCHANGED <<loc, owner, enterCount, users, token, usedList, freeList, localFree, batch, depth>>
  BY <1>1 DEF shared, lists
<1>2. TypeOK'
  BY <1>i, <1>1, <1>u DEF EnterReload, Go, TypeOK, Control, Locked
<1>3. ThreadOK(t)'
  BY <1>i, <1>1, <1>u DEF ThreadOK, Locked, Waiting, Using, Calling
<1>l. PICK l \in Locations : l = at[t]
  BY <1>1
<1>4. (t \in Callers(l)' <=> t \in Callers(l)) /\ (t \in Queued(l)' <=> t \in Queued(l))
  BY <1>1 DEF Callers, Queued, Calling
<1> QED BY <1>l, <1>1, <1>2, <1>3, <1>4, ControlStep

\* IL_THREAD_BUSY, no memory, or an abort before the wait: t returns, and
\* releases the pool lock.
LEMMA BusyStep ==
    ASSUME GiveUpInv, NEW t \in Threads, pc[t] \in {"attach", "check", "try", "enterWait"},
           poolLock' = NoThread, Return(t), UNCHANGED <<depth, lists, shared>>
    PROVE  GiveUpInv'
<1>i. TypeOK /\ ThreadOK(t)
  BY DEF GiveUpInv
<1>u. UNCHANGED <<loc, owner, enterCount, users, token, usedList, freeList, localFree, batch, depth>>
  BY DEF shared, lists
<1>1. /\ pc'[t] = "idle" /\ at[t] \in Locations /\ at'[t] = NoLocation /\ poolLock = t
      /\ \A s \in Threads \ {t} : /\ pc'[s] = pc[s] /\ mon'[s] = mon[s] /\ at'[s] = at[s]
                                  /\ saved'[s] = saved[s]
  BY <1>i DEF Return, Go, TypeOK, ThreadOK, Locked
<1>2. TypeOK'
  BY <1>i, <1>u DEF Return, Go, TypeOK, Control, Locked, Timeouts
<1>3. ThreadOK(t)'
  BY <1>i, <1>1, <1>u, SetsAssumption DEF ThreadOK, Locked, Waiting, Using, Calling
<1>l. PICK l \in Locations : l = at[t]
  BY <1>1
<1>4. (t \in Callers(l)' <=> t \in Callers(l)) /\ (t \in Queued(l)' <=> t \in Queued(l))
  BY <1>1 DEF Callers, Queued, Calling
<1>5. \A s \in Threads \ {t} : poolLock' = s <=> poolLock = s
  BY <1>1, SetsAssumption
<1> QED BY <1>1, <1>l, <1>2, <1>3, <1>4, <1>5, ControlStep

-----------------------------------------------------------------------------
(* Steps at an attached monitor: owner, token and users.                   *)

\* Thread t does something with the monitor at l, which stays attached.
OnlyAt(t, l) ==
  /\ \A s \in Threads \ {t} : Stays(s)
  /\ UNCHANGED <<loc, usedList, freeList, localFree, batch>>
  /\ at[t] \in {l, NoLocation} /\ at'[t] \in {l, NoLocation}
  /\ pc'[t] = "post" => mon'[t] = loc[l]
  /\ \A m \in Monitors : m # loc[l] =>
                          /\ owner'[m] = owner[m] /\ enterCount'[m] = enterCount[m]
                          /\ users'[m] = users[m] /\ token'[m] = token[m]
  /\ \A k \in Locations : k # l => depth'[k][t] = depth[k][t]

\* The owner: as before, the thread t that is inside, or nobody.
OwnerMoves(t, l) ==
  \/ /\ owner'[loc[l]] = owner[loc[l]] /\ enterCount'[loc[l]] = enterCount[loc[l]]
     /\ depth'[l][t] = depth[l][t]
  \/ owner'[loc[l]] = t /\ depth'[l][t] > 0 /\ enterCount'[loc[l]] = depth'[l][t]
  \/ owner'[loc[l]] = NoThread

\* What t adds to the users and to the tokens.
UsersMove(t, l) ==
  /\ users'[loc[l]] + One(Inside(l), t) + One(Callers(l), t)
       >= users[loc[l]] + One(Inside(l)', t) + One(Callers(l)', t)
  /\ users'[loc[l]] + token'[loc[l]] + One(Posting(l)', t) + One(Queued(l), t)
       <= users[loc[l]] + token[loc[l]] + One(Posting(l), t) + One(Queued(l)', t)

\* A step at an object that has its monitor and keeps it.
LEMMA AttachedStep ==
    ASSUME GiveUpInv, NEW t \in Threads, NEW l \in Locations, loc[l] # NoMonitor, OnlyAt(t, l),
           TypeOK', token'[loc[l]] <= MaxToken, ThreadOK(t)', OwnerMoves(t, l), UsersMove(t, l)
    PROVE  GiveUpInv'
<1>i. TypeOK /\ TokensOK /\ HomeOK /\ LocationOK(l)
  BY DEF GiveUpInv
<1>s. (\A s \in Threads \ {t} : Stays(s)) /\ loc' = loc
  BY DEF OnlyAt
<1>1. HomeOK'
  <2>1. \A m \in Monitors : (\A k \in Locations : loc[k] # m) =>
                    /\ owner'[m] = owner[m] /\ enterCount'[m] = enterCount[m]
                    /\ users'[m] = users[m]
    BY DEF OnlyAt
  <2>2. UNCHANGED <<loc, usedList, freeList, localFree, batch>>
    BY DEF OnlyAt
  <2> QED BY <1>i, <2>1, <2>2, HomeStays
<1>2. \A k \in Locations \ {l} : loc[k] # NoMonitor => loc[k] # loc[l]
  BY <1>i DEF HomeOK, AttachedOK
<1>t. \A k \in Locations : loc[k] # NoMonitor => loc[k] \in Monitors
  BY <1>i DEF TypeOK
<1>3. Touches(t, l)
  BY <1>2, <1>t DEF Touches, OnlyAt
<1>4. TokensOK'
  BY <1>i DEF TokensOK, OnlyAt
<1>5. OwnerOK(l)'
  <2>1. OwnerOK(l) /\ \A s \in Threads \ {t} : depth'[l][s] = depth[l][s]
    BY <1>i, <1>s DEF LocationOK, Stays
  <2> QED BY <1>s, <2>1, SetsAssumption DEF OwnerOK, OwnerMoves
<1>6. Counted(l)' /\ Paid(l)'
  BY <1>i, <1>s, CountStep DEF UsersMove
<1>7. LocationOK(l)'
  BY <1>s, <1>5, <1>6 DEF LocationOK
<1> QED BY <1>1, <1>3, <1>4, <1>7, TouchStep

\* A thread counts for one or for none.
LEMMA OneIs ==
    ASSUME NEW t \in Threads, NEW S
    PROVE  One(S, t) \in {0, 1} /\ (t \in S => One(S, t) = 1) /\ (t \notin S => One(S, t) = 0)
  BY DEF One

\* The owner enters again, or exits a nested level.
LEMMA AgainStep ==
    ASSUME GiveUpInv, NEW t \in Threads, NEW l \in Locations, EnterAgain(t, l) \/ ExitNested(t, l)
    PROVE  GiveUpInv'
<1>i. TypeOK /\ ThreadOK(t) /\ LocationOK(l) /\ loc[l] # NoMonitor /\ loc[l] \in Monitors
  BY DEF GiveUpInv, TypeOK, EnterAgain, ExitNested, Owns
<1>1. /\ pc[t] = "idle" /\ owner[loc[l]] = t
      /\ UNCHANGED <<loc, owner, users, token, poolLock, pc, usedList, freeList, localFree, batch,
                     at, mon, ms, saved>>
  BY DEF EnterAgain, ExitNested, Owns, lists, locals
<1>2. depth[l][t] \in Nat /\ depth[l][t] > 0 /\ enterCount[loc[l]] = depth[l][t]
  BY <1>i, <1>1 DEF TypeOK, LocationOK, OwnerOK
<1>3. PICK n \in Nat : /\ n > 0
                       /\ enterCount' = [enterCount EXCEPT ![loc[l]] = n]
                       /\ depth' = [depth EXCEPT ![l][t] = n]
  <2>1. CASE EnterAgain(t, l)
    <3>1. /\ depth[l][t] + 1 \in Nat /\ depth[l][t] + 1 > 0
          /\ enterCount' = [enterCount EXCEPT ![loc[l]] = depth[l][t] + 1]
          /\ depth' = [depth EXCEPT ![l][t] = depth[l][t] + 1]
      BY <1>2, <2>1 DEF EnterAgain, Entered
    <3> QED BY <3>1
  <2>2. CASE ExitNested(t, l)
    <3>1. /\ depth[l][t] - 1 \in Nat /\ depth[l][t] - 1 > 0
          /\ enterCount' = [enterCount EXCEPT ![loc[l]] = depth[l][t] - 1]
          /\ depth' = [depth EXCEPT ![l][t] = depth[l][t] - 1]
      BY <1>2, <2>2 DEF ExitNested, Entered
    <3> QED BY <3>1
  <2> QED BY <2>1, <2>2
<1>4. /\ depth'[l][t] = n /\ enterCount'[loc[l]] = n
      /\ \A k \in Locations, s \in Threads : k # l \/ s # t => depth'[k][s] = depth[k][s]
      /\ \A m \in Monitors : m # loc[l] => enterCount'[m] = enterCount[m]
  BY <1>i, <1>3 DEF TypeOK
<1>5. TypeOK' /\ token'[loc[l]] <= MaxToken
  <2>1. enterCount' \in [Monitors -> Nat] /\ depth' \in [Locations -> [Threads -> Nat]]
    BY <1>i, <1>3 DEF TypeOK
  <2>2. TypeOK'
    BY <1>i, <1>1, <2>1 DEF TypeOK
  <2> QED BY <1>i, <1>1, <2>2 DEF GiveUpInv, TokensOK
<1>6. \A s \in Threads \ {t} : Stays(s)
  BY <1>1, <1>4 DEF Stays
<1>7. ThreadOK(t)'
  BY <1>i, <1>1, SetsAssumption DEF ThreadOK, Locked, Waiting, Using, Calling
<1>8. OnlyAt(t, l)
  BY <1>i, <1>1, <1>4, <1>6 DEF OnlyAt, ThreadOK
<1>9. OwnerMoves(t, l)
  BY <1>1, <1>3, <1>4 DEF OwnerMoves
<1>10. UsersMove(t, l)
  <2>1. /\ t \in Inside(l) /\ t \in Inside(l)' /\ (t \in Callers(l)' <=> t \in Callers(l))
        /\ (t \in Queued(l)' <=> t \in Queued(l)) /\ (t \in Posting(l)' <=> t \in Posting(l))
    BY <1>1, <1>2, <1>3, <1>4 DEF Inside, Callers, Queued, Posting
  <2>2. users[loc[l]] \in Nat /\ token[loc[l]] \in Nat /\ UNCHANGED <<users, token>>
    BY <1>i, <1>1 DEF TypeOK
  <2> QED BY <2>1, <2>2 DEF UsersMove, One
<1> QED BY <1>i, <1>5, <1>7, <1>8, <1>9, <1>10, AttachedStep

\* The caller's location and the monitor that is attached to it.
LEMMA HereIsMonitor ==
    ASSUME GiveUpInv, NEW t \in Threads, pc[t] \in Using \ {"reload"}
    PROVE  \E l \in Locations : /\ l = at[t] /\ loc[l] = mon[t] /\ loc[l] # NoMonitor
                                /\ loc[l] \in Monitors /\ depth[l][t] \in Nat
                                /\ users[loc[l]] \in 0 .. (UserLimit - 1) /\ token[loc[l]] \in Nat
                                /\ token[loc[l]] <= MaxToken
                                /\ OwnerOK(l) /\ Counted(l)
<1>i. TypeOK /\ TokensOK /\ ThreadOK(t)
  BY DEF GiveUpInv
<1>1. /\ at[t] \in Locations /\ loc[at[t]] = mon[t] /\ loc[at[t]] # NoMonitor
      /\ loc[at[t]] \in Monitors
  BY <1>i DEF ThreadOK, Using, Calling, TypeOK
<1>2. OwnerOK(at[t]) /\ Counted(at[t])
  BY <1>1 DEF LocationOK, GiveUpInv
<1> QED BY <1>i, <1>1, <1>2 DEF TypeOK, TokensOK

\* A thread that is going to wait counts itself in and leaves the pool lock.
LEMMA WaitStep ==
    ASSUME WideCount, GiveUpInv, NEW t \in Threads, EnterWait(t)
    PROVE  GiveUpInv'
<1>i. TypeOK /\ ThreadOK(t) /\ pc[t] = "enterWait"
  BY DEF GiveUpInv, EnterWait
<1>l. PICK l \in Locations : /\ l = at[t] /\ loc[l] = mon[t] /\ loc[l] # NoMonitor
                             /\ loc[l] \in Monitors /\ users[loc[l]] \in 0 .. (UserLimit - 1)
                             /\ token[loc[l]] \in Nat /\ token[loc[l]] <= MaxToken
  BY <1>i, HereIsMonitor DEF Using
<1>q. t \notin Queued(l) /\ t \notin Callers(l)
  BY <1>i DEF Queued, Callers, Calling
<1>n. Inc(users[loc[l]]) = users[loc[l]] + 1 /\ users[loc[l]] + 1 \in 0 .. (UserLimit - 1)
  BY <1>l, <1>q, RoomForOne
<1>1. /\ UNCHANGED <<loc, owner, enterCount, token, depth, usedList, freeList, localFree, batch,
                     at, mon, ms, saved>>
      /\ pc' = [pc EXCEPT ![t] = "blocked"] /\ poolLock' = NoThread
      /\ users' = [users EXCEPT ![loc[l]] = users[loc[l]] + 1]
  BY <1>l, <1>n DEF EnterWait, Go, lists, locals
<1>2. /\ pc'[t] = "blocked" /\ poolLock = t
      /\ \A s \in Threads \ {t} : pc'[s] = pc[s]
      /\ users'[loc[l]] = users[loc[l]] + 1
      /\ \A m \in Monitors : m # loc[l] => users'[m] = users[m]
  BY <1>i, <1>l, <1>1 DEF TypeOK, ThreadOK, Locked
<1>3. TypeOK'
  <2>1. users' \in [Monitors -> 0 .. (UserLimit - 1)]
    BY <1>i, <1>1, <1>n DEF TypeOK
  <2> QED BY <1>i, <1>1, <2>1 DEF TypeOK, Control
<1>4. \A s \in Threads \ {t} : Stays(s)
  BY <1>1, <1>2, SetsAssumption DEF Stays
<1>5. ThreadOK(t)'
  BY <1>i, <1>l, <1>1, <1>2, SetsAssumption DEF ThreadOK, Locked, Waiting, Using, Calling
<1>6. OnlyAt(t, l)
  BY <1>l, <1>1, <1>2, <1>4 DEF OnlyAt
<1>7. OwnerMoves(t, l)
  BY <1>1 DEF OwnerMoves
<1>8. UsersMove(t, l)
  <2>1. /\ t \in Queued(l)' /\ t \in Callers(l)' /\ (t \in Inside(l)' <=> t \in Inside(l))
        /\ t \notin Posting(l)'
    BY <1>l, <1>1, <1>2 DEF Inside, Callers, Queued, Posting, Calling
  <2>2. One(Posting(l), t) \in {0, 1}
    BY OneIs
  <2> QED BY <1>q, <1>l, <1>1, <1>2, <2>1, <2>2 DEF UsersMove, One
<1> QED BY <1>l, <1>1, <1>3, <1>5, <1>6, <1>7, <1>8, AttachedStep

\* A thread takes the token without waiting.
LEMMA TryStep ==
    ASSUME WideCount, GiveUpInv, NEW t \in Threads, EnterTry(t)
    PROVE  GiveUpInv'
<1>i. TypeOK /\ ThreadOK(t) /\ pc[t] = "try"
  BY DEF GiveUpInv, EnterTry
<1>l. PICK l \in Locations : /\ l = at[t] /\ loc[l] = mon[t] /\ loc[l] # NoMonitor
                             /\ loc[l] \in Monitors /\ users[loc[l]] \in 0 .. (UserLimit - 1)
                             /\ token[loc[l]] \in Nat /\ token[loc[l]] <= MaxToken
  BY <1>i, HereIsMonitor DEF Using
<1>q. t \notin Queued(l) /\ t \notin Callers(l)
  BY <1>i DEF Queued, Callers, Calling
<1>n. Inc(users[loc[l]]) = users[loc[l]] + 1 /\ users[loc[l]] + 1 \in 0 .. (UserLimit - 1)
  BY <1>l, <1>q, RoomForOne
<1>1. /\ UNCHANGED <<loc, usedList, freeList, localFree, batch>> /\ token[loc[l]] > 0
      /\ token' = [token EXCEPT ![loc[l]] = token[loc[l]] - 1]
      /\ users' = [users EXCEPT ![loc[l]] = users[loc[l]] + 1]
      /\ owner' = [owner EXCEPT ![loc[l]] = t]
      /\ enterCount' = [enterCount EXCEPT ![loc[l]] = 1]
      /\ depth' = [depth EXCEPT ![l][t] = 1]
      /\ poolLock' = NoThread /\ Return(t)
  BY <1>l, <1>n DEF EnterTry, TryOwn, Entered, lists
<1>2. /\ pc'[t] = "idle" /\ at'[t] = NoLocation /\ poolLock = t
      /\ \A s \in Threads \ {t} : /\ pc'[s] = pc[s] /\ at'[s] = at[s] /\ mon'[s] = mon[s]
                                  /\ saved'[s] = saved[s]
  BY <1>i, <1>1 DEF TypeOK, ThreadOK, Locked, Return, Go
<1>3. /\ token'[loc[l]] = token[loc[l]] - 1 /\ users'[loc[l]] = users[loc[l]] + 1
      /\ owner'[loc[l]] = t /\ enterCount'[loc[l]] = 1 /\ depth'[l][t] = 1
      /\ \A k \in Locations, s \in Threads : k # l \/ s # t => depth'[k][s] = depth[k][s]
      /\ \A m \in Monitors : m # loc[l] =>
            /\ owner'[m] = owner[m] /\ enterCount'[m] = enterCount[m]
            /\ users'[m] = users[m] /\ token'[m] = token[m]
  BY <1>i, <1>l, <1>1 DEF TypeOK
<1>4. TypeOK'
  <2>1. users' \in [Monitors -> 0 .. (UserLimit - 1)]
    BY <1>i, <1>1, <1>n DEF TypeOK
  <2>2. token' \in [Monitors -> Nat] /\ enterCount' \in [Monitors -> Nat]
    BY <1>i, <1>l, <1>1 DEF TypeOK
  <2>3. depth' \in [Locations -> [Threads -> Nat]] /\ owner' \in [Monitors -> Threads \cup {NoThread}]
    BY <1>i, <1>l, <1>1 DEF TypeOK
  <2>4. /\ pc' \in [Threads -> Control] /\ at' \in [Threads -> Locations \cup {NoLocation}]
        /\ mon' \in [Threads -> Monitors \cup {NoMonitor}] /\ ms' \in [Threads -> Timeouts]
        /\ saved' \in [Threads -> Nat]
    BY <1>i, <1>1 DEF TypeOK, Return, Go, Control, Timeouts
  <2> QED BY <1>i, <1>1, <2>1, <2>2, <2>3, <2>4 DEF TypeOK
<1>5. \A s \in Threads \ {t} : Stays(s)
  BY <1>1, <1>2, <1>3, SetsAssumption DEF Stays
<1>6. ThreadOK(t)'
  BY <1>i, <1>1, <1>2, SetsAssumption DEF ThreadOK, Locked, Waiting, Using, Calling
<1>7. OnlyAt(t, l)
  BY <1>l, <1>1, <1>2, <1>3, <1>5 DEF OnlyAt
<1>8. OwnerMoves(t, l)
  BY <1>3 DEF OwnerMoves
<1>9. UsersMove(t, l)
  <2>1. /\ t \notin Queued(l)' /\ t \notin Callers(l)' /\ t \notin Posting(l)'
    BY <1>2 DEF Callers, Queued, Posting, Calling
  <2>2. One(Posting(l), t) \in {0, 1} /\ One(Inside(l), t) \in {0, 1} /\ One(Inside(l)', t) \in {0, 1}
    BY OneIs
  <2>3. One(Callers(l), t) = 0 /\ One(Callers(l)', t) = 0 /\ One(Queued(l), t) = 0
        /\ One(Queued(l)', t) = 0 /\ One(Posting(l)', t) = 0
    BY <1>q, <2>1 DEF One
  <2> QED BY <1>l, <1>1, <1>3, <2>2, <2>3 DEF UsersMove
<1>10. token'[loc[l]] <= MaxToken
  BY <1>l, <1>1, <1>3, BoundsAssumption
<1> QED BY <1>l, <1>4, <1>6, <1>7, <1>8, <1>9, <1>10, AttachedStep

\* The token is taken by a thread that waited for it.
LEMMA TakeStep ==
    ASSUME GiveUpInv, NEW t \in Threads, EnterAcquire(t) \/ WaitReenter(t)
    PROVE  GiveUpInv'
<1>i. TypeOK /\ ThreadOK(t) /\ pc[t] \in {"blocked", "reenter"}
  BY DEF GiveUpInv, EnterAcquire, WaitReenter
<1>l. PICK l \in Locations : /\ l = at[t] /\ loc[l] = mon[t] /\ loc[l] # NoMonitor
                             /\ loc[l] \in Monitors /\ users[loc[l]] \in 0 .. (UserLimit - 1)
                             /\ token[loc[l]] \in Nat /\ token[loc[l]] <= MaxToken
  BY <1>i, HereIsMonitor DEF Using, Calling
<1>1. PICK c \in {"acquired", "restore"} :
      /\ UNCHANGED <<loc, owner, enterCount, users, poolLock, depth, usedList, freeList, localFree,
                     batch, at, mon, ms, saved>>
      /\ token[loc[l]] > 0 /\ token' = [token EXCEPT ![loc[l]] = token[loc[l]] - 1]
      /\ pc' = [pc EXCEPT ![t] = c] /\ (c = "restore" <=> pc[t] = "reenter")
  BY <1>l DEF EnterAcquire, WaitReenter, Go, lists, locals
<1>2. /\ pc'[t] = c /\ \A s \in Threads \ {t} : pc'[s] = pc[s]
      /\ token'[loc[l]] = token[loc[l]] - 1
      /\ \A m \in Monitors : m # loc[l] => token'[m] = token[m]
  BY <1>i, <1>l, <1>1 DEF TypeOK
<1>3. TypeOK'
  <2>1. token' \in [Monitors -> Nat]
    BY <1>i, <1>l, <1>1 DEF TypeOK
  <2>2. pc' \in [Threads -> Control]
    BY <1>i, <1>1 DEF TypeOK, Control
  <2> QED BY <1>i, <1>1, <2>1, <2>2 DEF TypeOK
<1>4. \A s \in Threads \ {t} : Stays(s)
  BY <1>1, <1>2 DEF Stays
<1>5. ThreadOK(t)'
  BY <1>i, <1>l, <1>1, <1>2 DEF ThreadOK, Locked, Waiting, Using, Calling
<1>6. OnlyAt(t, l)
  BY <1>l, <1>1, <1>2, <1>4 DEF OnlyAt
<1>7. OwnerMoves(t, l)
  BY <1>1 DEF OwnerMoves
<1>8. UsersMove(t, l)
  <2>1. /\ t \in Queued(l) /\ t \notin Queued(l)' /\ t \in Callers(l) /\ t \in Callers(l)'
        /\ t \notin Posting(l) /\ t \notin Posting(l)' /\ (t \in Inside(l)' <=> t \in Inside(l))
    BY <1>i, <1>l, <1>1, <1>2 DEF Inside, Callers, Queued, Posting, Calling
  <2> QED BY <1>l, <1>1, <1>2, <2>1 DEF UsersMove, One
<1>9. token'[loc[l]] <= MaxToken
  BY <1>l, <1>1, <1>2, BoundsAssumption
<1> QED BY <1>l, <1>3, <1>5, <1>6, <1>7, <1>8, <1>9, AttachedStep

\* It becomes the owner, with the count it had before it waited.
LEMMA OwnStep ==
    ASSUME GiveUpInv, NEW t \in Threads, EnterOwn(t) \/ WaitRestore(t)
    PROVE  GiveUpInv'
<1>i. TypeOK /\ ThreadOK(t) /\ pc[t] \in {"acquired", "restore"}
  BY DEF GiveUpInv, EnterOwn, WaitRestore
<1>l. PICK l \in Locations : /\ l = at[t] /\ loc[l] = mon[t] /\ loc[l] # NoMonitor
                             /\ loc[l] \in Monitors /\ users[loc[l]] \in 0 .. (UserLimit - 1)
                             /\ token[loc[l]] \in Nat /\ token[loc[l]] <= MaxToken
  BY <1>i, HereIsMonitor DEF Using, Calling
<1>1. PICK n \in Nat :
      /\ n > 0 /\ UNCHANGED <<loc, users, token, poolLock, usedList, freeList, localFree, batch>>
      /\ owner' = [owner EXCEPT ![loc[l]] = t]
      /\ enterCount' = [enterCount EXCEPT ![loc[l]] = n]
      /\ depth' = [depth EXCEPT ![l][t] = n]
      /\ Return(t)
  <2>1. CASE EnterOwn(t)
    <3>1. /\ 1 \in Nat /\ 1 > 0
          /\ UNCHANGED <<loc, users, token, poolLock, usedList, freeList, localFree, batch>>
          /\ owner' = [owner EXCEPT ![loc[l]] = t]
          /\ enterCount' = [enterCount EXCEPT ![loc[l]] = 1]
          /\ depth' = [depth EXCEPT ![l][t] = 1]
          /\ Return(t)
      BY <1>l, <2>1 DEF EnterOwn, Entered, lists
    <3> QED BY <3>1
  <2>2. CASE WaitRestore(t)
    <3>1. saved[t] \in Nat /\ saved[t] > 0
      BY <1>i, <2>2 DEF TypeOK, ThreadOK, Waiting, WaitRestore
    <3> QED BY <1>l, <2>2, <3>1 DEF WaitRestore, Entered, lists
  <2> QED BY <2>1, <2>2
<1>2. /\ pc'[t] = "idle" /\ at'[t] = NoLocation /\ poolLock # t
      /\ \A s \in Threads \ {t} : /\ pc'[s] = pc[s] /\ at'[s] = at[s] /\ mon'[s] = mon[s]
                                  /\ saved'[s] = saved[s]
  BY <1>i, <1>1 DEF TypeOK, ThreadOK, Locked, Return, Go
<1>3. /\ owner'[loc[l]] = t /\ enterCount'[loc[l]] = n /\ depth'[l][t] = n
      /\ \A k \in Locations, s \in Threads : k # l \/ s # t => depth'[k][s] = depth[k][s]
      /\ \A m \in Monitors : m # loc[l] => owner'[m] = owner[m] /\ enterCount'[m] = enterCount[m]
  BY <1>i, <1>l, <1>1 DEF TypeOK
<1>4. TypeOK'
  <2>1. enterCount' \in [Monitors -> Nat]
    BY <1>i, <1>l, <1>1 DEF TypeOK
  <2>2. depth' \in [Locations -> [Threads -> Nat]] /\ owner' \in [Monitors -> Threads \cup {NoThread}]
    BY <1>i, <1>l, <1>1 DEF TypeOK
  <2>3. /\ pc' \in [Threads -> Control] /\ at' \in [Threads -> Locations \cup {NoLocation}]
        /\ mon' \in [Threads -> Monitors \cup {NoMonitor}] /\ ms' \in [Threads -> Timeouts]
        /\ saved' \in [Threads -> Nat]
    BY <1>i, <1>1 DEF TypeOK, Return, Go, Control, Timeouts
  <2> QED BY <1>i, <1>1, <2>1, <2>2, <2>3 DEF TypeOK
<1>5. \A s \in Threads \ {t} : Stays(s)
  BY <1>1, <1>2, <1>3, SetsAssumption DEF Stays
<1>6. ThreadOK(t)'
  BY <1>i, <1>1, <1>2, SetsAssumption DEF ThreadOK, Locked, Waiting, Using, Calling
<1>7. OnlyAt(t, l)
  BY <1>l, <1>1, <1>2, <1>3, <1>5 DEF OnlyAt
<1>8. OwnerMoves(t, l)
  BY <1>1, <1>3 DEF OwnerMoves
<1>9. UsersMove(t, l)
  <2>1. /\ t \notin Queued(l) /\ t \notin Queued(l)' /\ t \in Callers(l) /\ t \notin Callers(l)'
        /\ t \notin Posting(l) /\ t \notin Posting(l)'
    BY <1>i, <1>l, <1>2 DEF Callers, Queued, Posting, Calling
  <2>2. One(Inside(l), t) \in {0, 1} /\ One(Inside(l)', t) \in {0, 1}
    BY OneIs
  <2>3. /\ One(Callers(l), t) = 1 /\ One(Callers(l)', t) = 0 /\ One(Queued(l), t) = 0
        /\ One(Queued(l)', t) = 0 /\ One(Posting(l), t) = 0 /\ One(Posting(l)', t) = 0
    BY <2>1 DEF One
  <2> QED BY <1>l, <1>1, <2>2, <2>3 DEF UsersMove
<1> QED BY <1>l, <1>1, <1>4, <1>6, <1>7, <1>8, <1>9, AttachedStep

\* A thread that uses the monitor is counted, and is alone when users is one.
LEMMA AmongUsers ==
    ASSUME NEW l \in Locations, users[loc[l]] \in Nat, Counted(l), NEW t \in Threads,
           t \in Inside(l) \/ t \in Callers(l)
    PROVE  /\ users[loc[l]] > 0
           /\ users[loc[l]] <= 1 =>
                /\ users[loc[l]] = 1
                /\ ~(t \in Inside(l) /\ t \in Callers(l))
                /\ \A s \in Threads \ {t} : s \notin Inside(l) /\ s \notin Callers(l)
<1>1. Inside(l) \in SUBSET Threads /\ Callers(l) \in SUBSET Threads
  BY DEF Inside, Callers
<1>2. /\ Cardinality(Inside(l)) \in Nat /\ Cardinality(Callers(l)) \in Nat
      /\ (Cardinality(Inside(l)) = 0 <=> Inside(l) = {})
      /\ (Cardinality(Callers(l)) = 0 <=> Callers(l) = {})
      /\ \A s \in Inside(l) : Cardinality(Inside(l)) = 1 => Inside(l) = {s}
      /\ \A s \in Callers(l) : Cardinality(Callers(l)) = 1 => Callers(l) = {s}
  BY <1>1, SizeOf
<1>3. users[loc[l]] >= Cardinality(Inside(l)) + Cardinality(Callers(l))
  BY DEF Counted
<1>4. CASE t \in Inside(l)
  <2>1. Cardinality(Inside(l)) # 0
    BY <1>2, <1>4
  <2>2. users[loc[l]] <= 1 => /\ users[loc[l]] = 1 /\ Cardinality(Callers(l)) = 0
                              /\ Cardinality(Inside(l)) = 1
    BY <1>2, <1>3, <2>1
  <2>3. users[loc[l]] <= 1 => Inside(l) = {t} /\ Callers(l) = {}
    BY <1>2, <1>4, <2>2
  <2>4. users[loc[l]] > 0
    BY <1>2, <1>3, <2>1
  <2> QED BY <2>2, <2>3, <2>4
<1>5. CASE t \in Callers(l)
  <2>1. Cardinality(Callers(l)) # 0
    BY <1>2, <1>5
  <2>2. users[loc[l]] <= 1 => /\ users[loc[l]] = 1 /\ Cardinality(Inside(l)) = 0
                              /\ Cardinality(Callers(l)) = 1
    BY <1>2, <1>3, <2>1
  <2>3. users[loc[l]] <= 1 => Callers(l) = {t} /\ Inside(l) = {}
    BY <1>2, <1>5, <2>2
  <2>4. users[loc[l]] > 0
    BY <1>2, <1>3, <2>1
  <2> QED BY <2>2, <2>3, <2>4
<1> QED BY <1>4, <1>5

\* The object's monitor, of which t is the owner.
LEMMA OwnedIsMonitor ==
    ASSUME GiveUpInv, NEW t \in Threads, NEW l \in Locations, Owns(t, l)
    PROVE  /\ loc[l] # NoMonitor /\ loc[l] \in Monitors /\ owner[loc[l]] = t
           /\ users[loc[l]] \in 0 .. (UserLimit - 1) /\ users[loc[l]] \in Nat
           /\ token[loc[l]] \in Nat /\ token[loc[l]] <= MaxToken
           /\ depth[l][t] \in Nat /\ depth[l][t] > 0 /\ enterCount[loc[l]] = depth[l][t]
           /\ t \in Inside(l) /\ Counted(l)
<1>1. loc[l] # NoMonitor /\ owner[loc[l]] = t /\ TypeOK /\ TokensOK /\ LocationOK(l)
  BY DEF Owns, GiveUpInv
<1>2. /\ loc[l] \in Monitors /\ token[loc[l]] \in Nat /\ token[loc[l]] <= MaxToken
      /\ users[loc[l]] \in 0 .. (UserLimit - 1) /\ users[loc[l]] \in Nat /\ depth[l][t] \in Nat
  BY <1>1 DEF TypeOK, TokensOK
<1>3. Counted(l) /\ depth[l][t] > 0 /\ enterCount[loc[l]] = depth[l][t]
  BY <1>1 DEF LocationOK, OwnerOK
<1> QED BY <1>1, <1>2, <1>3 DEF Inside

\* Others use the monitor that t leaves.
LEMMA ReleaseStep ==
    ASSUME GiveUpInv, NEW t \in Threads, NEW l \in Locations, ExitRelease(t, l)
    PROVE  GiveUpInv'
<1>i. /\ TypeOK /\ ThreadOK(t) /\ pc[t] = "idle" /\ loc[l] # NoMonitor /\ loc[l] \in Monitors
      /\ owner[loc[l]] = t /\ users[loc[l]] \in 0 .. (UserLimit - 1) /\ token[loc[l]] \in Nat
      /\ t \in Inside(l) /\ token[loc[l]] <= MaxToken /\ users[loc[l]] > 1
  BY OwnedIsMonitor DEF GiveUpInv, ExitRelease
<1>n. Dec(users[loc[l]]) = users[loc[l]] - 1 /\ users[loc[l]] - 1 \in 0 .. (UserLimit - 1)
  <2>1. users[loc[l]] > 0
    BY <1>i, BoundsAssumption
  <2> QED BY <1>i, <2>1, OneLess
<1>1. /\ UNCHANGED <<loc, token, poolLock, usedList, freeList, localFree, batch, at, ms, saved>>
      /\ users' = [users EXCEPT ![loc[l]] = users[loc[l]] - 1]
      /\ owner' = [owner EXCEPT ![loc[l]] = NoThread]
      /\ enterCount' = [enterCount EXCEPT ![loc[l]] = 0]
      /\ depth' = [depth EXCEPT ![l][t] = 0]
      /\ mon' = [mon EXCEPT ![t] = loc[l]] /\ pc' = [pc EXCEPT ![t] = "post"]
  BY <1>n DEF ExitRelease, Entered, Go, lists
<1>2. /\ pc'[t] = "post" /\ mon'[t] = loc[l] /\ at[t] = NoLocation /\ poolLock # t
      /\ \A s \in Threads \ {t} : pc'[s] = pc[s] /\ mon'[s] = mon[s]
  BY <1>i, <1>1 DEF TypeOK, ThreadOK, Locked
<1>3. /\ users'[loc[l]] = users[loc[l]] - 1 /\ owner'[loc[l]] = NoThread /\ depth'[l][t] = 0
      /\ \A k \in Locations, s \in Threads : k # l \/ s # t => depth'[k][s] = depth[k][s]
      /\ \A m \in Monitors : m # loc[l] => /\ owner'[m] = owner[m] /\ enterCount'[m] = enterCount[m]
                                           /\ users'[m] = users[m]
  BY <1>i, <1>1 DEF TypeOK
<1>4. TypeOK'
  <2>1. users' \in [Monitors -> 0 .. (UserLimit - 1)]
    BY <1>i, <1>1, <1>n DEF TypeOK
  <2>2. enterCount' \in [Monitors -> Nat] /\ owner' \in [Monitors -> Threads \cup {NoThread}]
    BY <1>i, <1>1 DEF TypeOK
  <2>3. /\ depth' \in [Locations -> [Threads -> Nat]] /\ pc' \in [Threads -> Control]
        /\ mon' \in [Threads -> Monitors \cup {NoMonitor}]
    BY <1>i, <1>1 DEF TypeOK, Control
  <2> QED BY <1>i, <1>1, <2>1, <2>2, <2>3 DEF TypeOK
<1>5. \A s \in Threads \ {t} : Stays(s)
  BY <1>1, <1>2, <1>3 DEF Stays
<1>6. ThreadOK(t)'
  BY <1>i, <1>1, <1>2, SetsAssumption DEF ThreadOK, Locked, Waiting, Using, Calling
<1>7. OnlyAt(t, l)
  BY <1>1, <1>2, <1>3, <1>5 DEF OnlyAt
<1>8. OwnerMoves(t, l)
  BY <1>3 DEF OwnerMoves
<1>9. UsersMove(t, l)
  <2>1. /\ t \notin Queued(l) /\ t \notin Queued(l)' /\ t \notin Callers(l) /\ t \notin Callers(l)'
        /\ t \notin Posting(l) /\ t \in Posting(l)' /\ t \notin Inside(l)'
    BY <1>i, <1>1, <1>2, <1>3 DEF Inside, Callers, Queued, Posting, Calling
  <2>2. /\ One(Callers(l), t) = 0 /\ One(Callers(l)', t) = 0 /\ One(Queued(l), t) = 0
        /\ One(Queued(l)', t) = 0 /\ One(Posting(l), t) = 0 /\ One(Posting(l)', t) = 1
        /\ One(Inside(l), t) = 1 /\ One(Inside(l)', t) = 0
    BY <1>i, <2>1 DEF One
  <2> QED BY <1>i, <1>1, <1>3, <2>2 DEF UsersMove
<1> QED BY <1>i, <1>1, <1>4, <1>6, <1>7, <1>8, <1>9, AttachedStep

\* ILMonitorTimedWait saves the recursion and gives the ownership up.
LEMMA WaitBeginStep ==
    ASSUME GiveUpInv, NEW t \in Threads, NEW l \in Locations, WaitBegin(t, l)
    PROVE  GiveUpInv'
<1>i. /\ TypeOK /\ ThreadOK(t) /\ pc[t] = "idle" /\ loc[l] # NoMonitor /\ loc[l] \in Monitors
      /\ owner[loc[l]] = t /\ users[loc[l]] \in 0 .. (UserLimit - 1) /\ token[loc[l]] \in Nat
      /\ t \in Inside(l) /\ token[loc[l]] <= MaxToken /\ enterCount[loc[l]] > 0
  BY OwnedIsMonitor DEF GiveUpInv, WaitBegin
<1>1. /\ UNCHANGED <<loc, users, token, ms, poolLock, usedList, freeList, localFree, batch>>
      /\ owner' = [owner EXCEPT ![loc[l]] = NoThread]
      /\ enterCount' = [enterCount EXCEPT ![loc[l]] = 0]
      /\ depth' = [depth EXCEPT ![l][t] = 0]
      /\ at' = [at EXCEPT ![t] = l] /\ mon' = [mon EXCEPT ![t] = loc[l]]
      /\ saved' = [saved EXCEPT ![t] = enterCount[loc[l]]] /\ pc' = [pc EXCEPT ![t] = "waitPost"]
  BY DEF WaitBegin, Entered, Go, lists
<1>2. /\ pc'[t] = "waitPost" /\ mon'[t] = loc[l] /\ at[t] = NoLocation /\ at'[t] = l
      /\ saved'[t] = enterCount[loc[l]] /\ poolLock # t
      /\ \A s \in Threads \ {t} : /\ pc'[s] = pc[s] /\ at'[s] = at[s] /\ mon'[s] = mon[s]
                                  /\ saved'[s] = saved[s]
  BY <1>i, <1>1 DEF TypeOK, ThreadOK, Locked
<1>3. /\ owner'[loc[l]] = NoThread /\ depth'[l][t] = 0
      /\ \A k \in Locations, s \in Threads : k # l \/ s # t => depth'[k][s] = depth[k][s]
      /\ \A m \in Monitors : m # loc[l] => owner'[m] = owner[m] /\ enterCount'[m] = enterCount[m]
  BY <1>i, <1>1 DEF TypeOK
<1>4. TypeOK'
  <2>1. enterCount' \in [Monitors -> Nat] /\ owner' \in [Monitors -> Threads \cup {NoThread}]
    BY <1>i, <1>1 DEF TypeOK
  <2>2. /\ depth' \in [Locations -> [Threads -> Nat]] /\ pc' \in [Threads -> Control]
    BY <1>i, <1>1 DEF TypeOK, Control
  <2>3. /\ at' \in [Threads -> Locations \cup {NoLocation}]
        /\ mon' \in [Threads -> Monitors \cup {NoMonitor}] /\ saved' \in [Threads -> Nat]
    BY <1>i, <1>1 DEF TypeOK
  <2> QED BY <1>i, <1>1, <2>1, <2>2, <2>3 DEF TypeOK
<1>5. \A s \in Threads \ {t} : Stays(s)
  BY <1>1, <1>2, <1>3 DEF Stays
<1>6. ThreadOK(t)'
  BY <1>i, <1>1, <1>2, <1>3 DEF ThreadOK, Locked, Waiting, Using, Calling
<1>7. OnlyAt(t, l)
  BY <1>1, <1>2, <1>3, <1>5 DEF OnlyAt
<1>8. OwnerMoves(t, l)
  BY <1>3 DEF OwnerMoves
<1>9. UsersMove(t, l)
  <2>1. /\ t \notin Queued(l) /\ t \notin Queued(l)' /\ t \notin Callers(l) /\ t \in Callers(l)'
        /\ t \notin Posting(l) /\ t \notin Posting(l)' /\ t \notin Inside(l)'
    BY <1>i, <1>1, <1>2, <1>3 DEF Inside, Callers, Queued, Posting, Calling
  <2>2. /\ One(Callers(l), t) = 0 /\ One(Callers(l)', t) = 1 /\ One(Queued(l), t) = 0
        /\ One(Queued(l)', t) = 0 /\ One(Posting(l), t) = 0 /\ One(Posting(l)', t) = 0
        /\ One(Inside(l), t) = 1 /\ One(Inside(l)', t) = 0
    BY <1>i, <2>1 DEF One
  <2> QED BY <1>i, <1>1, <2>2 DEF UsersMove
<1> QED BY <1>i, <1>1, <1>4, <1>6, <1>7, <1>8, <1>9, AttachedStep

\* The token is posted, by Wait, or by Exit to a monitor that is still attached.
LEMMA PostHereStep ==
    ASSUME GiveUpInv, NEW t \in Threads, NEW l \in Locations, loc[l] = mon[t], loc[l] # NoMonitor,
           ExitPost(t) \/ WaitPost(t), pc[t] = "waitPost" => at[t] = l
    PROVE  GiveUpInv'
<1>i. TypeOK /\ ThreadOK(t) /\ pc[t] \in {"post", "waitPost"}
  BY DEF GiveUpInv, ExitPost, WaitPost
<1>l. /\ loc[l] \in Monitors /\ users[loc[l]] \in Nat /\ token[loc[l]] \in Nat
      /\ pc[t] = "post" => at[t] = NoLocation
  BY <1>i DEF TypeOK, ThreadOK
<1>1. /\ UNCHANGED <<loc, owner, enterCount, users, poolLock, depth, usedList, freeList, localFree,
                     batch>>
      /\ token[loc[l]] < MaxToken /\ token' = [token EXCEPT ![loc[l]] = token[loc[l]] + 1]
      /\ \/ pc[t] = "post" /\ Return(t)
         \/ pc[t] = "waitPost" /\ pc' = [pc EXCEPT ![t] = "waiting"] /\ UNCHANGED <<at, mon, ms, saved>>
  BY DEF ExitPost, WaitPost, Post, Go, lists, locals
<1>2. /\ \A s \in Threads \ {t} : /\ pc'[s] = pc[s] /\ at'[s] = at[s] /\ mon'[s] = mon[s]
                                  /\ saved'[s] = saved[s]
      /\ \/ pc[t] = "post" /\ pc'[t] = "idle" /\ at'[t] = NoLocation
         \/ pc[t] = "waitPost" /\ pc'[t] = "waiting" /\ UNCHANGED <<at, mon, saved>>
      /\ token'[loc[l]] = token[loc[l]] + 1
      /\ \A m \in Monitors : m # loc[l] => token'[m] = token[m]
  BY <1>i, <1>l, <1>1 DEF TypeOK, Return, Go
<1>3. TypeOK'
  <2>1. token' \in [Monitors -> Nat]
    BY <1>i, <1>l, <1>1 DEF TypeOK
  <2>2. /\ pc' \in [Threads -> Control] /\ at' \in [Threads -> Locations \cup {NoLocation}]
        /\ mon' \in [Threads -> Monitors \cup {NoMonitor}] /\ ms' \in [Threads -> Timeouts]
        /\ saved' \in [Threads -> Nat]
    <3>1. CASE pc[t] = "post"
      <4>1. Return(t)
        BY <1>1, <3>1
      <4> QED BY <1>i, <4>1 DEF TypeOK, Return, Go, Control, Timeouts
    <3>2. CASE pc[t] = "waitPost"
      <4>1. pc' = [pc EXCEPT ![t] = "waiting"] /\ UNCHANGED <<at, mon, ms, saved>>
        BY <1>1, <3>2
      <4> QED BY <1>i, <4>1 DEF TypeOK, Control
    <3> QED BY <1>i, <3>1, <3>2
  <2> QED BY <1>i, <1>1, <2>1, <2>2 DEF TypeOK
<1>4. \A s \in Threads \ {t} : Stays(s)
  BY <1>1, <1>2 DEF Stays
<1>5. ThreadOK(t)'
  BY <1>i, <1>l, <1>1, <1>2, SetsAssumption DEF ThreadOK, Locked, Waiting, Using, Calling
<1>6. OnlyAt(t, l)
  BY <1>i, <1>l, <1>1, <1>2, <1>4 DEF OnlyAt
<1>7. OwnerMoves(t, l)
  BY <1>1 DEF OwnerMoves
<1>8. UsersMove(t, l)
  <2>1. (t \in Callers(l)' <=> t \in Callers(l)) /\ (t \in Inside(l)' <=> t \in Inside(l))
    <3>1. CASE pc[t] = "post"
      BY <1>1, <1>2, <3>1 DEF Callers, Inside, Calling
    <3>2. CASE pc[t] = "waitPost"
      BY <1>1, <1>2, <3>2 DEF Callers, Inside, Calling
    <3> QED BY <1>i, <3>1, <3>2
  <2>2. t \notin Posting(l)' /\ t \notin Queued(l)
    BY <1>i, <1>2 DEF Posting, Queued
  <2>3. t \in Posting(l) \/ t \in Queued(l)'
    BY <1>i, <1>2 DEF Posting, Queued
  <2>4. /\ One(Callers(l), t) = One(Callers(l)', t) /\ One(Inside(l), t) = One(Inside(l)', t)
        /\ One(Posting(l)', t) = 0 /\ One(Queued(l), t) = 0
        /\ One(Posting(l), t) = 1 \/ One(Queued(l)', t) = 1
    BY <2>1, <2>2, <2>3 DEF One
  <2>5. /\ One(Callers(l), t) \in {0, 1} /\ One(Inside(l), t) \in {0, 1}
        /\ One(Posting(l), t) \in {0, 1} /\ One(Queued(l)', t) \in {0, 1}
    BY OneIs
  <2> QED BY <1>l, <1>1, <1>2, <2>4, <2>5 DEF UsersMove
<1>9. token'[loc[l]] <= MaxToken
  BY <1>l, <1>1, <1>2, BoundsAssumption
<1> QED BY <1>3, <1>5, <1>6, <1>7, <1>8, <1>9, AttachedStep

\* The token comes to a monitor that was taken away from the object: whoever
\* gave up the wait for it was the last user.
LEMMA PostLateStep ==
    ASSUME GiveUpInv, NEW t \in Threads, \A l \in Locations : loc[l] # mon[t], ExitPost(t)
    PROVE  GiveUpInv'
<1>i. /\ TypeOK /\ TokensOK /\ HomeOK /\ ThreadOK(t) /\ pc[t] = "post" /\ at[t] = NoLocation
      /\ mon[t] \in Monitors /\ token[mon[t]] \in Nat
  BY DEF GiveUpInv, ExitPost, ThreadOK, TypeOK
<1>1. /\ UNCHANGED <<loc, owner, enterCount, users, poolLock, depth, usedList, freeList, localFree,
                     batch>>
      /\ token[mon[t]] < MaxToken /\ token' = [token EXCEPT ![mon[t]] = token[mon[t]] + 1]
      /\ Return(t)
  BY DEF ExitPost, Post, lists
<1>2. /\ \A s \in Threads \ {t} : /\ pc'[s] = pc[s] /\ at'[s] = at[s] /\ mon'[s] = mon[s]
                                  /\ saved'[s] = saved[s]
      /\ pc'[t] = "idle" /\ at'[t] = NoLocation
      /\ token'[mon[t]] = token[mon[t]] + 1
      /\ \A m \in Monitors : m # mon[t] => token'[m] = token[m]
  BY <1>i, <1>1 DEF TypeOK, Return, Go
<1>3. TypeOK'
  <2>1. token' \in [Monitors -> Nat]
    BY <1>i, <1>1 DEF TypeOK
  <2>2. /\ pc' \in [Threads -> Control] /\ at' \in [Threads -> Locations \cup {NoLocation}]
        /\ mon' \in [Threads -> Monitors \cup {NoMonitor}] /\ ms' \in [Threads -> Timeouts]
        /\ saved' \in [Threads -> Nat]
    BY <1>i, <1>1 DEF TypeOK, Return, Go, Control, Timeouts
  <2> QED BY <1>i, <1>1, <2>1, <2>2 DEF TypeOK
<1>4. TokensOK'
  <2>1. token'[mon[t]] <= MaxToken
    BY <1>i, <1>1, <1>2, BoundsAssumption
  <2> QED BY <1>i, <1>2, <2>1 DEF TokensOK
<1>5. HomeOK'
  BY <1>i, <1>1, HomeStays
<1>6. \A s \in Threads \ {t} : Stays(s)
  BY <1>1, <1>2 DEF Stays
<1>7. ThreadOK(t)'
  BY <1>i, <1>1, <1>2, SetsAssumption DEF ThreadOK, Locked, Waiting, Using, Calling
<1>8. \A k \in Locations : loc[k] # NoMonitor => token'[loc[k]] = token[loc[k]]
  BY <1>i, <1>2 DEF TypeOK
<1>9. Touches(t, NoLocation)
  BY <1>i, <1>1, <1>2, <1>6, <1>8, SetsAssumption DEF Touches
<1> QED BY <1>3, <1>4, <1>5, <1>7, <1>9, SetsAssumption, TouchStep

\* The two together.
LEMMA PostStep ==
    ASSUME GiveUpInv, NEW t \in Threads, ExitPost(t) \/ WaitPost(t)
    PROVE  GiveUpInv'
<1>1. CASE WaitPost(t)
  <2>1. PICK l \in Locations : l = at[t] /\ loc[l] = mon[t] /\ loc[l] # NoMonitor
    BY <1>1, HereIsMonitor DEF WaitPost, Using, Calling
  <2> QED BY <1>1, <2>1, PostHereStep
<1>2. CASE ExitPost(t)
  <2>1. mon[t] # NoMonitor /\ pc[t] = "post"
    BY <1>2, SetsAssumption DEF ExitPost, GiveUpInv, ThreadOK
  <2>2. CASE \E l \in Locations : loc[l] = mon[t]
    <3>1. PICK l \in Locations : loc[l] = mon[t]
      BY <2>2
    <3> QED BY <1>2, <2>1, <3>1, PostHereStep
  <2>3. CASE \A l \in Locations : loc[l] # mon[t]
    BY <1>2, <2>3, PostLateStep
  <2> QED BY <2>2, <2>3
<1> QED BY <1>1, <1>2

-----------------------------------------------------------------------------
(* A thread gives up the wait.                                             *)

\* What the thread that gives up does, whether it is the last or not.
LEMMA LeaveFacts ==
    ASSUME GiveUpInv, NEW t \in Threads, EnterGiveUp(t)
    PROVE  \E l \in Locations :
             /\ l = at[t] /\ loc[l] = mon[t] /\ loc[l] # NoMonitor /\ loc[l] \in Monitors
             /\ users[loc[l]] \in Nat /\ users[loc[l]] > 0 /\ t \in Callers(l) /\ Counted(l)
             /\ Dec(users[loc[l]]) = users[loc[l]] - 1
             /\ users'[loc[l]] = users[loc[l]] - 1
             /\ token[loc[l]] \in Nat /\ token'[loc[l]] <= MaxToken
             /\ token'[loc[l]] = IF pc[t] = "giveBack" THEN token[loc[l]] + 1 ELSE token[loc[l]]
             /\ \A m \in Monitors : m # loc[l] => users'[m] = users[m] /\ token'[m] = token[m]
             /\ users' \in [Monitors -> 0 .. (UserLimit - 1)] /\ token' \in [Monitors -> Nat]
<1>i. TypeOK /\ TokensOK /\ pc[t] \in {"giveUp", "giveBack"}
  BY DEF GiveUpInv, EnterGiveUp, LeaveUsers
<1>l. PICK l \in Locations : /\ l = at[t] /\ loc[l] = mon[t] /\ loc[l] # NoMonitor
                             /\ loc[l] \in Monitors /\ users[loc[l]] \in 0 .. (UserLimit - 1)
                             /\ token[loc[l]] \in Nat /\ token[loc[l]] <= MaxToken /\ Counted(l)
  BY <1>i, HereIsMonitor DEF Using, Calling
<1>1. t \in Callers(l) /\ users[loc[l]] \in Nat
  BY <1>i, <1>l DEF Callers, Calling
<1>2. users[loc[l]] > 0
  BY <1>l, <1>1, AmongUsers
<1>3. Dec(users[loc[l]]) = users[loc[l]] - 1 /\ users[loc[l]] - 1 \in 0 .. (UserLimit - 1)
  BY <1>l, <1>2, OneLess
<1>4. users' = [users EXCEPT ![loc[l]] = users[loc[l]] - 1]
  BY <1>l, <1>3 DEF EnterGiveUp, LeaveUsers
<1>5. /\ users'[loc[l]] = users[loc[l]] - 1 /\ users' \in [Monitors -> 0 .. (UserLimit - 1)]
      /\ \A m \in Monitors : m # loc[l] => users'[m] = users[m]
  BY <1>i, <1>l, <1>3, <1>4 DEF TypeOK
<1>6. /\ token'[loc[l]] <= MaxToken /\ token' \in [Monitors -> Nat]
      /\ token'[loc[l]] = IF pc[t] = "giveBack" THEN token[loc[l]] + 1 ELSE token[loc[l]]
      /\ \A m \in Monitors : m # loc[l] => token'[m] = token[m]
  <2>1. CASE pc[t] = "giveBack"
    <3>1. token[loc[l]] < MaxToken /\ token' = [token EXCEPT ![loc[l]] = token[loc[l]] + 1]
      BY <1>l, <2>1 DEF EnterGiveUp, LeaveUsers, Post
    <3>2. token[loc[l]] + 1 \in Nat /\ token[loc[l]] + 1 <= MaxToken
      BY <1>l, <3>1, BoundsAssumption
    <3> QED BY <1>i, <1>l, <2>1, <3>1, <3>2 DEF TypeOK
  <2>2. CASE pc[t] = "giveUp"
    <3>1. token' = token
      BY <2>2 DEF EnterGiveUp, LeaveUsers
    <3> QED BY <1>i, <1>l, <2>2, <3>1 DEF TypeOK
  <2> QED BY <1>i, <2>1, <2>2
<1> QED BY <1>l, <1>1, <1>2, <1>3, <1>5, <1>6

\* Its call returns.
LEMMA LeaveReturns ==
    ASSUME GiveUpInv, NEW t \in Threads, EnterGiveUp(t)
    PROVE  /\ pc[t] \in {"giveUp", "giveBack"} /\ poolLock = NoThread /\ Return(t)
           /\ UNCHANGED <<owner, enterCount, usedList, localFree, batch, poolLock, depth>>
           /\ pc'[t] = "idle" /\ at'[t] = NoLocation
           /\ \A s \in Threads \ {t} : Stays(s)
           /\ ThreadOK(t)'
           /\ pc' \in [Threads -> Control] /\ at' \in [Threads -> Locations \cup {NoLocation}]
           /\ mon' \in [Threads -> Monitors \cup {NoMonitor}] /\ ms' \in [Threads -> Timeouts]
           /\ saved' \in [Threads -> Nat]
<1>i. TypeOK /\ ThreadOK(t)
  BY DEF GiveUpInv
<1>1. /\ pc[t] \in {"giveUp", "giveBack"} /\ poolLock = NoThread /\ Return(t)
      /\ UNCHANGED <<owner, enterCount, usedList, localFree, batch, poolLock, depth>>
  BY DEF EnterGiveUp, LeaveUsers
<1>2. /\ pc'[t] = "idle" /\ at'[t] = NoLocation
      /\ \A s \in Threads \ {t} : /\ pc'[s] = pc[s] /\ at'[s] = at[s] /\ mon'[s] = mon[s]
                                  /\ saved'[s] = saved[s]
  BY <1>i, <1>1 DEF TypeOK, Return, Go
<1>3. \A s \in Threads \ {t} : Stays(s)
  BY <1>1, <1>2 DEF Stays
<1>4. ThreadOK(t)'
  BY <1>i, <1>1, <1>2, SetsAssumption DEF ThreadOK, Locked, Waiting, Using, Calling
<1>5. /\ pc' \in [Threads -> Control] /\ at' \in [Threads -> Locations \cup {NoLocation}]
      /\ mon' \in [Threads -> Monitors \cup {NoMonitor}] /\ ms' \in [Threads -> Timeouts]
      /\ saved' \in [Threads -> Nat]
  BY <1>i, <1>1 DEF TypeOK, Return, Go, Control, Timeouts
<1> QED BY <1>1, <1>2, <1>3, <1>4, <1>5

\* When users is one and the pool lock is free, nobody but t has read the
\* monitor from the location.
LEMMA NobodyElse ==
    ASSUME GiveUpInv, NEW t \in Threads, NEW l \in Locations, loc[l] # NoMonitor, poolLock = NoThread,
           t \in Inside(l) \/ t \in Callers(l), users[loc[l]] <= 1
    PROVE  /\ users[loc[l]] = 1
           /\ ~(t \in Inside(l) /\ t \in Callers(l))
           /\ \A s \in Threads \ {t} : depth[l][s] = 0 /\ ~(pc[s] \in Using /\ at[s] = l)
<1>i. /\ TypeOK /\ users[loc[l]] \in Nat /\ Counted(l) /\ \A s \in Threads : ThreadOK(s)
  BY DEF GiveUpInv, TypeOK, LocationOK
<1>1. /\ users[loc[l]] = 1 /\ ~(t \in Inside(l) /\ t \in Callers(l))
      /\ \A s \in Threads \ {t} : s \notin Inside(l) /\ s \notin Callers(l)
  BY <1>i, AmongUsers
<1>2. \A s \in Threads : pc[s] \notin Locked
  BY <1>i, SetsAssumption DEF ThreadOK
<1>3. \A s \in Threads \ {t} : ~(pc[s] \in Using /\ at[s] = l)
  BY <1>1, <1>2 DEF Callers, Using, Locked
<1>4. \A s \in Threads \ {t} : depth[l][s] = 0
  <2>1. \A s \in Threads : depth[l][s] \in Nat
    BY <1>i DEF TypeOK
  <2> QED BY <1>1, <2>1 DEF Inside
<1> QED BY <1>1, <1>3, <1>4

\* The thread that gives up leaves the monitor to its other users, or to the
\* pool's freelist.
LEMMA GiveUpStep ==
    ASSUME GiveUpInv, NEW t \in Threads, EnterGiveUp(t)
    PROVE  GiveUpInv'
<1>i. /\ TypeOK /\ TokensOK /\ ThreadOK(t) /\ FreeOK /\ LocalOK /\ BatchOK /\ AttachedOK
  BY DEF GiveUpInv, HomeOK
<1>l. PICK l \in Locations :
             /\ l = at[t] /\ loc[l] = mon[t] /\ loc[l] # NoMonitor /\ loc[l] \in Monitors
             /\ users[loc[l]] \in Nat /\ users[loc[l]] > 0 /\ t \in Callers(l) /\ Counted(l)
             /\ Dec(users[loc[l]]) = users[loc[l]] - 1
             /\ users'[loc[l]] = users[loc[l]] - 1
             /\ token[loc[l]] \in Nat /\ token'[loc[l]] <= MaxToken
             /\ token'[loc[l]] = IF pc[t] = "giveBack" THEN token[loc[l]] + 1 ELSE token[loc[l]]
             /\ \A m \in Monitors : m # loc[l] => users'[m] = users[m] /\ token'[m] = token[m]
             /\ users' \in [Monitors -> 0 .. (UserLimit - 1)] /\ token' \in [Monitors -> Nat]
  BY LeaveFacts
<1>r. /\ pc[t] \in {"giveUp", "giveBack"} /\ poolLock = NoThread
      /\ UNCHANGED <<owner, enterCount, usedList, localFree, batch, poolLock, depth>>
      /\ pc'[t] = "idle" /\ at'[t] = NoLocation
      /\ \A s \in Threads \ {t} : Stays(s)
      /\ ThreadOK(t)'
      /\ pc' \in [Threads -> Control] /\ at' \in [Threads -> Locations \cup {NoLocation}]
      /\ mon' \in [Threads -> Monitors \cup {NoMonitor}] /\ ms' \in [Threads -> Timeouts]
      /\ saved' \in [Threads -> Nat]
  BY LeaveReturns
<1>1. /\ freeList' = IF users[loc[l]] - 1 = 0 THEN freeList \cup {loc[l]} ELSE freeList
      /\ loc' = IF users[loc[l]] - 1 = 0 THEN [loc EXCEPT ![l] = NoMonitor] ELSE loc
  BY <1>l DEF EnterGiveUp, LeaveUsers
<1>2. CASE users[loc[l]] - 1 # 0
  <2>1. freeList' = freeList /\ loc' = loc
    BY <1>1, <1>2
  <2>2. TypeOK'
    BY <1>i, <1>l, <1>r, <2>1 DEF TypeOK
  <2>3. OnlyAt(t, l)
    BY <1>l, <1>r, <2>1 DEF OnlyAt
  <2>4. OwnerMoves(t, l)
    BY <1>r DEF OwnerMoves
  <2>5. UsersMove(t, l)
    <3>1. /\ t \notin Posting(l) /\ t \notin Posting(l)' /\ t \notin Queued(l)' /\ t \notin Callers(l)'
          /\ (t \in Inside(l)' <=> t \in Inside(l))
          /\ (t \in Queued(l) <=> pc[t] = "giveUp")
      BY <1>l, <1>r DEF Posting, Queued, Callers, Inside, Calling
    <3>2. /\ One(Posting(l), t) = 0 /\ One(Posting(l)', t) = 0 /\ One(Queued(l)', t) = 0
          /\ One(Callers(l)', t) = 0 /\ One(Callers(l), t) = 1
          /\ One(Inside(l), t) = One(Inside(l)', t)
      BY <1>l, <3>1 DEF One
    <3>3. One(Inside(l), t) \in {0, 1}
      BY OneIs
    <3>4. token'[loc[l]] + One(Queued(l), t) = token[loc[l]] + 1
      <4>1. CASE pc[t] = "giveUp"
        BY <1>l, <3>1, <4>1 DEF One
      <4>2. CASE pc[t] = "giveBack"
        BY <1>l, <3>1, <4>2 DEF One
      <4> QED BY <1>r, <4>1, <4>2
    <3>5. token'[loc[l]] \in Nat /\ One(Queued(l), t) \in {0, 1}
      BY <1>l, OneIs
    <3>6. users'[loc[l]] + One(Inside(l), t) + One(Callers(l), t)
            >= users[loc[l]] + One(Inside(l)', t) + One(Callers(l)', t)
      BY <1>l, <3>2, <3>3
    <3>7. users'[loc[l]] + token'[loc[l]] + One(Posting(l)', t) + One(Queued(l), t)
            <= users[loc[l]] + token[loc[l]] + One(Posting(l), t) + One(Queued(l)', t)
      BY <1>l, <3>2, <3>4, <3>5
    <3> QED BY <3>6, <3>7 DEF UsersMove
  <2> QED BY <1>l, <1>r, <2>2, <2>3, <2>4, <2>5, AttachedStep
<1>3. CASE users[loc[l]] - 1 = 0
  <2>1. freeList' = freeList \cup {loc[l]} /\ loc' = [loc EXCEPT ![l] = NoMonitor]
    BY <1>1, <1>3
  <2>2. loc'[l] = NoMonitor /\ \A k \in Locations : k # l => loc'[k] = loc[k]
    BY <1>i, <2>1 DEF TypeOK
  <2>3. users[loc[l]] <= 1
    BY <1>l, <1>3
  <2>4. /\ t \notin Inside(l)
        /\ \A s \in Threads \ {t} : depth[l][s] = 0 /\ ~(pc[s] \in Using /\ at[s] = l)
    BY <1>l, <1>r, <2>3, NobodyElse
  <2>5. \A s \in Threads : depth'[l][s] = 0
    <3>1. depth[l][t] \in Nat /\ ~(depth[l][t] > 0)
      BY <1>i, <2>4 DEF TypeOK, Inside
    <3> QED BY <1>r, <2>4, <3>1
  <2>6. TypeOK'
    <3>1. loc' \in [Locations -> Monitors \cup {NoMonitor}] /\ freeList' \subseteq Monitors
      BY <1>i, <1>l, <2>1 DEF TypeOK
    <3> QED BY <1>i, <1>l, <1>r, <3>1 DEF TypeOK
  <2>7. TokensOK'
    BY <1>i, <1>l DEF TokensOK
  <2>8. HomeOK'
    <3>1. FreeOK'
      BY <1>i, <1>l, <1>r, <2>1 DEF FreeOK, AttachedOK
    <3>2. LocalOK'
      <4>1. \A s \in Threads : \A m \in localFree[s] : m \in Monitors /\ m # loc[l]
        BY <1>i, <1>l DEF AttachedOK, TypeOK
      <4> QED BY <1>i, <1>l, <1>r, <2>1, <4>1 DEF LocalOK
    <3>3. BatchOK'
      <4>1. \A s \in Threads : \A m \in batch[s] : m # loc[l]
        BY <1>i, <1>l DEF AttachedOK
      <4> QED BY <1>i, <1>r, <2>1, <4>1 DEF BatchOK
    <3>4. AttachedOK'
      BY <1>i, <1>l, <1>r, <2>1, <2>2 DEF AttachedOK
    <3> QED BY <3>1, <3>2, <3>3, <3>4 DEF HomeOK
  <2>9. \A k \in Locations \ {l} : loc[k] # NoMonitor => loc[k] \in Monitors /\ loc[k] # loc[l]
    BY <1>i DEF AttachedOK, TypeOK
  <2>10. Touches(t, l)
    BY <1>l, <1>r, <2>2, <2>4, <2>9 DEF Touches
  <2>11. LocationOK(l)'
    BY <2>2, <2>5 DEF LocationOK
  <2> QED BY <1>r, <2>6, <2>7, <2>8, <2>10, <2>11, TouchStep
<1> QED BY <1>2, <1>3

-----------------------------------------------------------------------------
(* Steps that attach a monitor to a location.                              *)

\* An empty location: nobody is inside, nobody uses it.
LEMMA EmptyLocation ==
    ASSUME GiveUpInv, NEW l \in Locations, loc[l] = NoMonitor
    PROVE  \A s \in Threads : /\ depth[l][s] = 0
                              /\ ~(pc[s] \in Using /\ at[s] = l)
  BY DEF GiveUpInv, LocationOK, ThreadOK

\* t attaches m, which is attached nowhere, to the empty location l.  Its token
\* may be there, or come later, as often as Spare allows.
LEMMA AttachStep ==
    ASSUME GiveUpInv, NEW t \in Threads, NEW l \in Locations, NEW m \in Monitors,
           at[t] = l, pc[t] \in {"cas", "attach"}, loc[l] = NoMonitor,
           \A k \in Locations : loc[k] # m,
           loc' = [loc EXCEPT ![l] = m],
           owner'[m] = t, enterCount'[m] = 1, users'[m] = 1,
           \A n \in Monitors : n # m =>
              /\ owner'[n] = owner[n] /\ enterCount'[n] = enterCount[n]
              /\ users'[n] = users[n] /\ token'[n] = token[n],
           depth' = [depth EXCEPT ![l][t] = 1], Return(t), batch' = batch,
           poolLock' = IF pc[t] = "attach" THEN NoThread ELSE poolLock,
           TypeOK', TokensOK', HomeOK'
    PROVE  GiveUpInv'
<1>i. TypeOK /\ ThreadOK(t)
  BY DEF GiveUpInv
<1>1. /\ pc'[t] = "idle" /\ at'[t] = NoLocation /\ poolLock' # t /\ batch[t] = {}
      /\ \A s \in Threads \ {t} : /\ pc'[s] = pc[s] /\ at'[s] = at[s] /\ mon'[s] = mon[s]
                                  /\ saved'[s] = saved[s] /\ (poolLock' = s <=> poolLock = s)
  BY <1>i, SetsAssumption DEF TypeOK, ThreadOK, Locked, Return, Go
<1>2. /\ loc'[l] = m /\ depth'[l][t] = 1 /\ m # NoMonitor
      /\ \A k \in Locations : k # l => loc'[k] = loc[k]
      /\ \A k \in Locations, s \in Threads : k # l \/ s # t => depth'[k][s] = depth[k][s]
  BY <1>i, SetsAssumption DEF TypeOK
<1>3. \A s \in Threads \ {t} : Stays(s)
  BY <1>1, <1>2 DEF Stays
<1>4. \A k \in Locations : loc[k] # NoMonitor => loc[k] \in Monitors
  BY <1>i DEF TypeOK
<1>e. \A s \in Threads : depth[l][s] = 0 /\ ~(pc[s] \in Using /\ at[s] = l)
  BY EmptyLocation
<1>5. Touches(t, l)
  BY <1>1, <1>2, <1>3, <1>4, <1>e DEF Touches
<1>6. ThreadOK(t)'
  BY <1>1, SetsAssumption DEF ThreadOK, Locked, Waiting, Using, Calling
<1>7. \A s \in Threads \ {t} : depth'[l][s] = 0 /\ ~(pc'[s] \in Using /\ at'[s] = l)
  BY <1>1, <1>2, <1>e
<1>8. OwnerOK(l)'
  BY <1>2, <1>7 DEF OwnerOK
<1>9. Counted(l)'
  <2>1. Inside(l)' = {t}
    BY <1>2, <1>7 DEF Inside
  <2>2. Callers(l)' = {}
    BY <1>1, <1>7 DEF Callers, Using, Calling
  <2>3. Cardinality({t}) = 1 /\ Cardinality({}) = 0
    BY FS_Singleton, FS_EmptySet
  <2>4. users'[loc'[l]] = 1
    BY <1>2
  <2>5. users'[loc'[l]] >= Cardinality(Inside(l)') + Cardinality(Callers(l)')
    BY <2>1, <2>2, <2>3, <2>4
  <2> QED BY <2>5 DEF Counted
<1>10. Paid(l)'
  <2>1. Posting(l)' \in SUBSET Threads /\ Queued(l)' \in SUBSET Threads
    BY DEF Posting, Queued
  <2>2. /\ Cardinality(Posting(l)') \in Nat /\ Cardinality(Queued(l)') \in Nat
        /\ Cardinality(Threads) \in Nat /\ Cardinality(Posting(l)') <= Cardinality(Threads)
    BY <2>1, SizeOf
  <2>3. users'[loc'[l]] = 1 /\ token'[loc'[l]] \in Nat /\ token'[loc'[l]] <= MaxToken
    BY <1>2 DEF TypeOK, TokensOK
  <2>4. users'[loc'[l]] + token'[loc'[l]] + Cardinality(Posting(l)')
          <= Cardinality(Queued(l)') + (Cardinality(Threads) + MaxToken + 1)
    BY <2>2, <2>3, BoundsAssumption
  <2> QED BY <2>4 DEF Paid, Spare
<1>11. LocationOK(l)'
  BY <1>2, <1>8, <1>9, <1>10 DEF LocationOK
<1> QED BY <1>5, <1>6, <1>11, TouchStep

\* The monitor comes from the freelist of the thread.
LEMMA AttachLocalStep ==
    ASSUME GiveUpInv, NEW t \in Threads, NEW m \in localFree[t],
           pc[t] \in {"cas", "attach"}, loc[at[t]] = NoMonitor, AttachLocal(t, m),
           poolLock' = IF pc[t] = "attach" THEN NoThread ELSE poolLock
    PROVE  GiveUpInv'
<1>i. TypeOK /\ TokensOK /\ ThreadOK(t) /\ FreeOK /\ LocalOK /\ BatchOK /\ AttachedOK
  BY DEF GiveUpInv, HomeOK
<1>l. PICK l \in Locations : l = at[t] /\ loc[l] = NoMonitor
  BY <1>i DEF ThreadOK
<1>m. /\ m \in Monitors /\ m # NoMonitor /\ m \in usedList /\ m \notin freeList
      /\ owner[m] = t /\ users[m] = 1 /\ enterCount[m] = 1
  BY <1>i, SetsAssumption DEF TypeOK, LocalOK
<1>a. \A k \in Locations : loc[k] # m
  BY <1>i, <1>m DEF AttachedOK
<1>1. /\ UNCHANGED <<owner, enterCount, users, token, usedList, freeList, batch>>
      /\ loc' = [loc EXCEPT ![l] = m] /\ localFree' = [localFree EXCEPT ![t] = localFree[t] \ {m}]
      /\ depth' = [depth EXCEPT ![l][t] = 1] /\ Return(t)
  BY <1>l DEF AttachLocal, Entered
<1>2. TypeOK' /\ TokensOK'
  <2>1. loc' \in [Locations -> Monitors \cup {NoMonitor}] /\ localFree' \in [Threads -> SUBSET Monitors]
    BY <1>i, <1>m, <1>1 DEF TypeOK
  <2>2. depth' \in [Locations -> [Threads -> Nat]]
    BY <1>i, <1>1 DEF TypeOK
  <2>3. /\ pc' \in [Threads -> Control] /\ at' \in [Threads -> Locations \cup {NoLocation}]
        /\ mon' \in [Threads -> Monitors \cup {NoMonitor}] /\ ms' \in [Threads -> Timeouts]
        /\ saved' \in [Threads -> Nat]
    BY <1>i, <1>1 DEF TypeOK, Return, Go, Control, Timeouts
  <2>4. poolLock' \in Threads \cup {NoThread}
    BY <1>i DEF TypeOK
  <2>5. TypeOK'
    BY <1>i, <1>1, <2>1, <2>2, <2>3, <2>4 DEF TypeOK
  <2> QED BY <1>i, <1>1, <2>5 DEF TokensOK
<1>3. HomeOK'
  <2>1. /\ loc'[l] = m /\ \A k \in Locations : k # l => loc'[k] = loc[k]
        /\ localFree'[t] = localFree[t] \ {m}
        /\ \A s \in Threads : s # t => localFree'[s] = localFree[s]
    BY <1>i, <1>1 DEF TypeOK
  <2>2. \A s \in Threads : localFree'[s] \subseteq localFree[s] /\ m \notin localFree'[s]
    BY <1>i, <1>m, <2>1 DEF LocalOK
  <2>3. \A s \in Threads : m \notin batch[s]
    BY <1>i, <1>m, SetsAssumption DEF BatchOK
  <2>4. FreeOK'
    BY <1>i, <1>1 DEF FreeOK
  <2>5. LocalOK'
    BY <1>i, <1>1, <2>2 DEF LocalOK
  <2>6. BatchOK'
    BY <1>i, <1>1 DEF BatchOK
  <2>7. AttachedOK'
    BY <1>i, <1>m, <1>a, <1>1, <2>1, <2>2, <2>3 DEF AttachedOK
  <2> QED BY <2>4, <2>5, <2>6, <2>7 DEF HomeOK
<1> QED BY <1>l, <1>m, <1>a, <1>1, <1>2, <1>3, AttachStep

\* A monitor that the pool has allocated: it is t's, and in no other place.
LEMMA AllocIsNew ==
    ASSUME GiveUpInv, NEW t \in Threads, NEW m \in Monitors, AllocMonitor(t, m)
    PROVE  /\ owner'[m] = t /\ enterCount'[m] = 1 /\ users'[m] = 1
           /\ \A n \in Monitors : n # m =>
                 /\ owner'[n] = owner[n] /\ enterCount'[n] = enterCount[n]
                 /\ users'[n] = users[n] /\ token'[n] = token[n]
           /\ freeList' = freeList \ {m} /\ m \in usedList' /\ usedList' = usedList \cup {m}
           /\ \A k \in Locations : loc[k] # m
           /\ \A s \in Threads : m \notin localFree[s] /\ m \notin batch[s]
           /\ owner' \in [Monitors -> Threads \cup {NoThread}]
           /\ enterCount' \in [Monitors -> Nat] /\ users' \in [Monitors -> 0 .. (UserLimit - 1)]
           /\ token' \in [Monitors -> Nat] /\ TokensOK'
           /\ usedList' \subseteq Monitors /\ freeList' \subseteq Monitors
<1>i. TypeOK /\ TokensOK /\ FreeOK /\ LocalOK /\ BatchOK /\ AttachedOK
  BY DEF GiveUpInv, HomeOK
<1>1. /\ freeList' = freeList \ {m} /\ owner' = [owner EXCEPT ![m] = t]
      /\ enterCount' = [enterCount EXCEPT ![m] = 1] /\ users' = [users EXCEPT ![m] = 1]
  BY DEF AllocMonitor
<1>2. /\ token' \in [Monitors -> Nat] /\ token'[m] <= MaxToken
      /\ \A n \in Monitors : n # m => token'[n] = token[n]
      /\ usedList' = usedList \cup {m}
      /\ m \in freeList \/ m \notin usedList
  <2>1. CASE m \in freeList /\ UNCHANGED <<token, usedList>>
    BY <1>i, <2>1 DEF TypeOK, FreeOK, TokensOK
  <2>2. CASE /\ m \in Monitors \ usedList /\ usedList' = usedList \cup {m}
             /\ token' = [token EXCEPT ![m] = 0]
    BY <1>i, <2>2, BoundsAssumption DEF TypeOK
  <2> QED BY <2>1, <2>2 DEF AllocMonitor
<1>t. TokensOK'
  BY <1>i, <1>2 DEF TokensOK
<1>3. m # NoMonitor
  BY SetsAssumption
<1>4. \A k \in Locations : loc[k] # m
  BY <1>i, <1>2, <1>3 DEF AttachedOK
<1>5. \A s \in Threads : m \notin localFree[s] /\ m \notin batch[s]
  BY <1>i, <1>2 DEF LocalOK, BatchOK
<1>6. 1 \in 0 .. (UserLimit - 1)
  <2>1. Cardinality(Threads) \in Nat /\ Cardinality(Threads) # 0
    BY SetsAssumption, FS_CardinalityType, FS_EmptySet
  <2> QED BY <2>1, BoundsAssumption
<1>7. /\ owner'[m] = t /\ enterCount'[m] = 1 /\ users'[m] = 1
      /\ \A n \in Monitors : n # m => /\ owner'[n] = owner[n] /\ enterCount'[n] = enterCount[n]
                                      /\ users'[n] = users[n]
  BY <1>i, <1>1 DEF TypeOK
<1>8. owner' \in [Monitors -> Threads \cup {NoThread}] /\ enterCount' \in [Monitors -> Nat]
  BY <1>i, <1>1 DEF TypeOK
<1>9. users' \in [Monitors -> 0 .. (UserLimit - 1)]
  BY <1>i, <1>1, <1>6 DEF TypeOK
<1>10. usedList' \subseteq Monitors /\ freeList' \subseteq Monitors
  BY <1>i, <1>1, <1>2 DEF TypeOK
<1> QED BY <1>1, <1>2, <1>t, <1>4, <1>5, <1>7, <1>8, <1>9, <1>10

\* ... and is attached, or lost when the exchange fails.
LEMMA AttachNewStep ==
    ASSUME GiveUpInv, NEW t \in Threads, EnterAttachNew(t)
    PROVE  GiveUpInv'
<1>i. TypeOK /\ ThreadOK(t) /\ FreeOK /\ LocalOK /\ BatchOK /\ AttachedOK /\ pc[t] = "attach"
  BY DEF GiveUpInv, HomeOK, EnterAttachNew
<1>l. PICK l \in Locations : l = at[t]
  BY <1>i DEF ThreadOK
<1>1. PICK m \in Monitors :
        /\ AllocMonitor(t, m)
        /\ \/ /\ loc[l] = NoMonitor /\ loc' = [loc EXCEPT ![l] = m]
              /\ depth' = [depth EXCEPT ![l][t] = 1] /\ Return(t) /\ poolLock' = NoThread
           \/ /\ loc[l] # NoMonitor /\ pc' = [pc EXCEPT ![t] = "reload"]
              /\ UNCHANGED <<loc, depth, poolLock, at, mon, ms, saved>>
        /\ UNCHANGED <<localFree, batch>>
  BY <1>l DEF EnterAttachNew, Entered, Go, locals
<1>2. /\ owner'[m] = t /\ enterCount'[m] = 1 /\ users'[m] = 1
      /\ \A n \in Monitors : n # m =>
            /\ owner'[n] = owner[n] /\ enterCount'[n] = enterCount[n]
            /\ users'[n] = users[n] /\ token'[n] = token[n]
      /\ freeList' = freeList \ {m} /\ m \in usedList' /\ usedList' = usedList \cup {m}
      /\ \A k \in Locations : loc[k] # m
      /\ \A s \in Threads : m \notin localFree[s] /\ m \notin batch[s]
  BY <1>1, AllocIsNew
<1>3. /\ owner' \in [Monitors -> Threads \cup {NoThread}]
      /\ enterCount' \in [Monitors -> Nat] /\ users' \in [Monitors -> 0 .. (UserLimit - 1)]
      /\ token' \in [Monitors -> Nat] /\ TokensOK'
      /\ usedList' \subseteq Monitors /\ freeList' \subseteq Monitors
  BY <1>1, AllocIsNew
<1>4. FreeOK'
  BY <1>i, <1>2 DEF FreeOK
<1>5. LocalOK'
  BY <1>i, <1>1, <1>2 DEF LocalOK, TypeOK
<1>6. BatchOK'
  BY <1>i, <1>1, <1>2 DEF BatchOK, TypeOK
<1>7. CASE loc[l] = NoMonitor
  <2>1. /\ loc' = [loc EXCEPT ![l] = m]
        /\ depth' = [depth EXCEPT ![l][t] = 1] /\ Return(t) /\ poolLock' = NoThread
    BY <1>1, <1>7
  <2>2. TypeOK'
    <3>1. loc' \in [Locations -> Monitors \cup {NoMonitor}] /\ depth' \in [Locations -> [Threads -> Nat]]
      BY <1>i, <2>1 DEF TypeOK
    <3>2. /\ pc' \in [Threads -> Control] /\ at' \in [Threads -> Locations \cup {NoLocation}]
          /\ mon' \in [Threads -> Monitors \cup {NoMonitor}] /\ ms' \in [Threads -> Timeouts]
          /\ saved' \in [Threads -> Nat]
      BY <1>i, <2>1 DEF TypeOK, Return, Go, Control, Timeouts
    <3> QED BY <1>i, <1>1, <1>3, <2>1, <3>1, <3>2 DEF TypeOK
  <2>3. AttachedOK'
    <3>1. loc'[l] = m /\ \A k \in Locations : k # l => loc'[k] = loc[k]
      BY <1>i, <2>1 DEF TypeOK
    <3> QED BY <1>i, <1>1, <1>2, <3>1 DEF AttachedOK
  <2>4. HomeOK'
    BY <1>4, <1>5, <1>6, <2>3 DEF HomeOK
  <2> QED BY <1>i, <1>l, <1>1, <1>2, <1>3, <1>7, <2>1, <2>2, <2>4, AttachStep
<1>8. CASE loc[l] # NoMonitor
  <2>1. pc' = [pc EXCEPT ![t] = "reload"] /\ UNCHANGED <<loc, depth, poolLock, at, mon, ms, saved>>
    BY <1>1, <1>8
  <2>2. TypeOK'
    <3>1. pc' \in [Threads -> Control]
      BY <1>i, <2>1 DEF TypeOK, Control, Locked
    <3> QED BY <1>i, <1>1, <1>3, <2>1, <3>1 DEF TypeOK
  <2>3. HomeOK'
    <3>1. AttachedOK'
      BY <1>i, <1>1, <1>2, <2>1 DEF AttachedOK
    <3> QED BY <1>4, <1>5, <1>6, <3>1 DEF HomeOK
  <2>4. pc'[t] = "reload" /\ \A s \in Threads \ {t} : pc'[s] = pc[s]
    BY <1>i, <2>1 DEF TypeOK
  <2>5. \A s \in Threads \ {t} : Stays(s)
    BY <1>1, <2>1, <2>4 DEF Stays
  <2>6. \A k \in Locations : loc[k] # NoMonitor =>
          /\ owner'[loc[k]] = owner[loc[k]] /\ enterCount'[loc[k]] = enterCount[loc[k]]
          /\ users'[loc[k]] = users[loc[k]] /\ token'[loc[k]] = token[loc[k]]
    BY <1>i, <1>2 DEF TypeOK
  <2>7. Touches(t, l)
    BY <1>l, <2>1, <2>4, <2>5, <2>6 DEF Touches
  <2>8. ThreadOK(t)'
    BY <1>i, <1>l, <1>1, <1>8, <2>1, <2>4 DEF ThreadOK, Locked, Waiting, Using, Calling
  <2>9. Callers(l)' = Callers(l) /\ Queued(l)' = Queued(l) /\ Posting(l)' \subseteq Posting(l)
    BY <1>i, <2>1, <2>4 DEF Callers, Queued, Posting, Calling
  <2>10. LocationOK(l)'
    BY <1>i, <2>1, <2>6, <2>9, LocationStays DEF GiveUpInv
  <2> QED BY <1>3, <2>2, <2>3, <2>7, <2>8, <2>10, TouchStep
<1> QED BY <1>7, <1>8

-----------------------------------------------------------------------------
(* Steps that take the monitor from a location, and the freelists.         *)

\* "I'm the only thread in this monitor": with the pool lock nobody else has
\* read it from the location.
LEMMA AloneInside ==
    ASSUME GiveUpInv, NEW t \in Threads, NEW l \in Locations,
           Owns(t, l), enterCount[loc[l]] <= 1, users[loc[l]] <= 1, poolLock = NoThread
    PROVE  /\ \A s \in Threads \ {t} : depth[l][s] = 0 /\ ~(pc[s] \in Using /\ at[s] = l)
           /\ users[loc[l]] = 1 /\ enterCount[loc[l]] = 1
           /\ loc[l] \in Monitors /\ loc[l] # NoMonitor /\ owner[loc[l]] = t
<1>1. /\ loc[l] # NoMonitor /\ loc[l] \in Monitors /\ owner[loc[l]] = t /\ t \in Inside(l)
      /\ depth[l][t] \in Nat /\ depth[l][t] > 0 /\ enterCount[loc[l]] = depth[l][t]
  BY OwnedIsMonitor
<1>2. enterCount[loc[l]] = 1
  BY <1>1
<1>3. /\ users[loc[l]] = 1
      /\ \A s \in Threads \ {t} : depth[l][s] = 0 /\ ~(pc[s] \in Using /\ at[s] = l)
  BY <1>1, NobodyElse
<1> QED BY <1>1, <1>2, <1>3

\* t, which is alone inside, takes the monitor from the location.
LEMMA DetachStep ==
    ASSUME GiveUpInv, NEW t \in Threads, NEW l \in Locations, pc[t] = "idle",
           \A s \in Threads \ {t} : depth[l][s] = 0 /\ ~(pc[s] \in Using /\ at[s] = l),
           loc' = [loc EXCEPT ![l] = NoMonitor], depth' = [depth EXCEPT ![l][t] = 0],
           \/ pc' = pc /\ batch' = batch
           \/ pc' = [pc EXCEPT ![t] = "trim"] /\ \A s \in Threads \ {t} : batch'[s] = batch[s],
           UNCHANGED <<poolLock, at, mon, ms, saved, enterCount, token>>,
           \A k \in Locations \ {l} : loc[k] # NoMonitor =>
              owner'[loc[k]] = owner[loc[k]] /\ users'[loc[k]] = users[loc[k]],
           TypeOK', HomeOK'
    PROVE  GiveUpInv'
<1>i. TypeOK /\ TokensOK /\ ThreadOK(t)
  BY DEF GiveUpInv
<1>1. /\ pc'[t] \in {"idle", "trim"} /\ (pc'[t] # "trim" => batch'[t] = batch[t])
      /\ \A s \in Threads \ {t} : pc'[s] = pc[s] /\ batch'[s] = batch[s]
      /\ at[t] = NoLocation
  BY <1>i DEF TypeOK, ThreadOK
<1>2. /\ loc'[l] = NoMonitor /\ depth'[l][t] = 0
      /\ \A k \in Locations : k # l => loc'[k] = loc[k]
      /\ \A k \in Locations, s \in Threads : k # l \/ s # t => depth'[k][s] = depth[k][s]
  BY <1>i DEF TypeOK
<1>3. \A s \in Threads \ {t} : Stays(s)
  BY <1>1, <1>2 DEF Stays
<1>4. Touches(t, l)
  BY <1>1, <1>2, <1>3 DEF Touches
<1>5. ThreadOK(t)'
  BY <1>i, <1>1, SetsAssumption DEF ThreadOK, Locked, Waiting, Using, Calling
<1>6. LocationOK(l)' /\ TokensOK'
  BY <1>i, <1>2 DEF LocationOK, TokensOK
<1> QED BY <1>4, <1>5, <1>6, TouchStep

\* The last Exit puts the monitor into the thread's freelist,
LEMMA KeepStep ==
    ASSUME GiveUpInv, NEW t \in Threads, NEW l \in Locations, ExitKeep(t, l)
    PROVE  GiveUpInv'
<1>i. TypeOK /\ FreeOK /\ LocalOK /\ BatchOK /\ AttachedOK /\ pc[t] = "idle"
  BY DEF GiveUpInv, HomeOK, ExitKeep
<1>a. /\ \A s \in Threads \ {t} : depth[l][s] = 0 /\ ~(pc[s] \in Using /\ at[s] = l)
      /\ users[loc[l]] = 1 /\ enterCount[loc[l]] = 1
      /\ loc[l] \in Monitors /\ loc[l] # NoMonitor /\ owner[loc[l]] = t
  BY AloneInside DEF ExitKeep
<1>1. /\ loc' = [loc EXCEPT ![l] = NoMonitor] /\ depth' = [depth EXCEPT ![l][t] = 0]
      /\ localFree' = [localFree EXCEPT ![t] = localFree[t] \cup {loc[l]}]
      /\ UNCHANGED <<owner, enterCount, users, token, usedList, freeList, batch, poolLock,
                     pc, at, mon, ms, saved>>
  BY DEF ExitKeep, Entered, locals
<1>2. TypeOK'
  <2>1. loc' \in [Locations -> Monitors \cup {NoMonitor}] /\ localFree' \in [Threads -> SUBSET Monitors]
    BY <1>i, <1>a, <1>1 DEF TypeOK
  <2>2. depth' \in [Locations -> [Threads -> Nat]]
    BY <1>i, <1>1 DEF TypeOK
  <2> QED BY <1>i, <1>1, <2>1, <2>2 DEF TypeOK
<1>3. HomeOK'
  <2>1. /\ loc'[l] = NoMonitor /\ \A k \in Locations : k # l => loc'[k] = loc[k]
        /\ localFree'[t] = localFree[t] \cup {loc[l]}
        /\ \A s \in Threads : s # t => localFree'[s] = localFree[s]
    BY <1>i, <1>1 DEF TypeOK
  <2>2. FreeOK'
    BY <1>i, <1>1 DEF FreeOK
  <2>3. LocalOK'
    BY <1>i, <1>a, <1>1, <2>1 DEF LocalOK, AttachedOK
  <2>4. BatchOK'
    BY <1>i, <1>1 DEF BatchOK
  <2>5. AttachedOK'
    BY <1>i, <1>1, <2>1 DEF AttachedOK
  <2> QED BY <2>2, <2>3, <2>4, <2>5 DEF HomeOK
<1> QED BY <1>i, <1>a, <1>1, <1>2, <1>3, DetachStep

\* or into a batch, when that is full,
LEMMA TrimStep ==
    ASSUME GiveUpInv, NEW t \in Threads, NEW l \in Locations, ExitTrim(t, l)
    PROVE  GiveUpInv'
<1>i. /\ TypeOK /\ TokensOK /\ ThreadOK(t) /\ FreeOK /\ LocalOK /\ BatchOK /\ AttachedOK /\ pc[t] = "idle"
  BY DEF GiveUpInv, HomeOK, ExitTrim, TrimList
<1>a. /\ \A s \in Threads \ {t} : depth[l][s] = 0 /\ ~(pc[s] \in Using /\ at[s] = l)
      /\ users[loc[l]] = 1 /\ enterCount[loc[l]] = 1
      /\ loc[l] \in Monitors /\ loc[l] # NoMonitor /\ owner[loc[l]] = t
  BY AloneInside DEF ExitTrim, TrimList
<1>1. /\ loc' = [loc EXCEPT ![l] = NoMonitor] /\ depth' = [depth EXCEPT ![l][t] = 0]
      /\ pc' = [pc EXCEPT ![t] = "trim"]
      /\ UNCHANGED <<enterCount, token, usedList, freeList, poolLock, at, mon, ms, saved>>
  BY DEF ExitTrim, TrimList, Entered, Go, locals
<1>2. PICK keep \in SUBSET localFree[t] :
        /\ localFree' = [localFree EXCEPT ![t] = keep]
        /\ batch' = [batch EXCEPT ![t] = (localFree[t] \ keep) \cup {loc[l]}]
        /\ owner' = [m \in Monitors |->
                       IF m \in (localFree[t] \ keep) \cup {loc[l]} THEN NoThread ELSE owner[m]]
        /\ users' = [m \in Monitors |->
                       IF m \in (localFree[t] \ keep) \cup {loc[l]} THEN 0 ELSE users[m]]
  BY DEF ExitTrim, TrimList
<1>3. PICK out \in SUBSET Monitors : out = (localFree[t] \ keep) \cup {loc[l]}
  <2>1. (localFree[t] \ keep) \cup {loc[l]} \in SUBSET Monitors
    BY <1>i, <1>a DEF TypeOK
  <2> QED BY <2>1
<1>4. /\ localFree'[t] = keep /\ batch'[t] = out
      /\ \A s \in Threads : s # t => localFree'[s] = localFree[s] /\ batch'[s] = batch[s]
      /\ \A m \in out : owner'[m] = NoThread /\ users'[m] = 0
      /\ \A m \in Monitors \ out : owner'[m] = owner[m] /\ users'[m] = users[m]
  BY <1>i, <1>2, <1>3 DEF TypeOK
<1>5. \A m \in out : /\ m \in usedList /\ m \notin freeList /\ owner[m] = t
                     /\ m \notin keep
  BY <1>i, <1>a, <1>3 DEF LocalOK, AttachedOK
<1>6. \A k \in Locations : k # l /\ loc[k] # NoMonitor => loc[k] \in Monitors \ out
  BY <1>i, <1>a, <1>3 DEF AttachedOK, TypeOK
<1>7. TypeOK'
  <2>1. loc' \in [Locations -> Monitors \cup {NoMonitor}]
    BY <1>i, <1>1 DEF TypeOK
  <2>2. localFree' \in [Threads -> SUBSET Monitors] /\ batch' \in [Threads -> SUBSET Monitors]
    BY <1>i, <1>2, <1>3 DEF TypeOK
  <2>3. owner' \in [Monitors -> Threads \cup {NoThread}]
    BY <1>i, <1>2 DEF TypeOK
  <2>4. users' \in [Monitors -> 0 .. (UserLimit - 1)]
    <3>1. 0 \in 0 .. (UserLimit - 1)
      BY BoundsAssumption, FS_CardinalityType, SetsAssumption
    <3> QED BY <1>i, <1>2, <3>1 DEF TypeOK
  <2>5. depth' \in [Locations -> [Threads -> Nat]] /\ pc' \in [Threads -> Control]
    BY <1>i, <1>1 DEF TypeOK, Control
  <2> QED BY <1>i, <1>1, <2>1, <2>2, <2>3, <2>4, <2>5 DEF TypeOK
<1>8. HomeOK'
  <2>1. loc'[l] = NoMonitor /\ \A k \in Locations : k # l => loc'[k] = loc[k]
    BY <1>i, <1>1 DEF TypeOK
  <2>2. FreeOK'
    BY <1>i, <1>1, <1>4, <1>5 DEF FreeOK, TypeOK
  <2>3. LocalOK'
    <3>1. \A s \in Threads : \A m \in localFree'[s] : m \in localFree[s] /\ m \in Monitors \ out
      BY <1>i, <1>4, <1>5 DEF LocalOK, TypeOK
    <3> QED BY <1>i, <1>1, <1>4, <3>1 DEF LocalOK
  <2>4. BatchOK'
    <3>1. \A s \in Threads : s # t => \A m \in batch[s] : m \in Monitors \ out
      BY <1>i, <1>5, SetsAssumption DEF BatchOK, TypeOK
    <3> QED BY <1>i, <1>1, <1>4, <1>5, <3>1 DEF BatchOK
  <2>5. AttachedOK'
    <3>1. \A k \in Locations : loc'[k] # NoMonitor => k # l /\ loc'[k] = loc[k] /\ loc[k] \notin out
      BY <1>6, <2>1
    <3>2. \A s \in Threads : localFree'[s] \subseteq localFree[s]
      BY <1>4
    <3> QED BY <1>i, <1>1, <1>4, <3>1, <3>2 DEF AttachedOK
  <2> QED BY <2>2, <2>3, <2>4, <2>5 DEF HomeOK
<1>9. \A k \in Locations \ {l} : loc[k] # NoMonitor =>
        owner'[loc[k]] = owner[loc[k]] /\ users'[loc[k]] = users[loc[k]]
  BY <1>4, <1>6
<1>10. \A s \in Threads \ {t} : batch'[s] = batch[s]
  BY <1>4
<1> QED BY <1>i, <1>a, <1>1, <1>7, <1>8, <1>9, <1>10, DetachStep

\* which then goes to the pool.
LEMMA TrimmedStep ==
    ASSUME GiveUpInv, NEW t \in Threads, ExitTrimmed(t)
    PROVE  GiveUpInv'
<1>i. TypeOK /\ TokensOK /\ ThreadOK(t) /\ FreeOK /\ LocalOK /\ BatchOK /\ AttachedOK /\ pc[t] = "trim"
  BY DEF GiveUpInv, HomeOK, ExitTrimmed
<1>1. /\ UNCHANGED <<loc, owner, enterCount, users, token, usedList, localFree, poolLock, depth,
                     at, mon, ms, saved>>
      /\ freeList' = freeList \cup batch[t] /\ batch' = [batch EXCEPT ![t] = {}]
      /\ pc' = [pc EXCEPT ![t] = "idle"]
  BY DEF ExitTrimmed, Go, shared, locals
<1>2. /\ pc'[t] = "idle" /\ batch'[t] = {} /\ at[t] = NoLocation
      /\ \A s \in Threads \ {t} : pc'[s] = pc[s] /\ batch'[s] = batch[s]
  BY <1>i, <1>1 DEF TypeOK, ThreadOK
<1>3. TypeOK'
  <2>1. /\ pc' \in [Threads -> Control] /\ batch' \in [Threads -> SUBSET Monitors]
        /\ freeList' \subseteq Monitors
    BY <1>i, <1>1 DEF TypeOK, Control
  <2> QED BY <1>i, <1>1, <2>1 DEF TypeOK
<1>4. HomeOK'
  <2>1. FreeOK'
    BY <1>i, <1>1 DEF FreeOK, BatchOK
  <2>2. LocalOK'
    BY <1>i, <1>1, SetsAssumption DEF LocalOK, BatchOK
  <2>3. BatchOK'
    BY <1>i, <1>1, <1>2 DEF BatchOK
  <2>4. AttachedOK'
    BY <1>i, <1>1, <1>2 DEF AttachedOK
  <2> QED BY <2>1, <2>2, <2>3, <2>4 DEF HomeOK
<1>5. \A s \in Threads \ {t} : Stays(s)
  BY <1>1, <1>2 DEF Stays
<1>6. Touches(t, NoLocation)
  BY <1>1, <1>2, <1>5, SetsAssumption DEF Touches
<1>7. ThreadOK(t)'
  BY <1>i, <1>1, <1>2, SetsAssumption DEF ThreadOK, Locked, Waiting, Using, Calling
<1>8. TokensOK'
  BY <1>i, <1>1 DEF TokensOK
<1> QED BY <1>3, <1>4, <1>6, <1>7, <1>8, SetsAssumption, TouchStep

\* The end of a thread gives its freelist to the pool.
LEMMA DestroyStep ==
    ASSUME GiveUpInv, NEW t \in Threads, DestroyThread(t)
    PROVE  GiveUpInv'
<1>i. TypeOK /\ TokensOK /\ ThreadOK(t) /\ FreeOK /\ LocalOK /\ BatchOK /\ AttachedOK /\ pc[t] = "idle"
  BY DEF GiveUpInv, HomeOK, DestroyThread
<1>1. /\ UNCHANGED <<loc, enterCount, token, usedList, batch, poolLock, depth, at, mon, ms, saved>>
      /\ owner' = [m \in Monitors |-> IF m \in localFree[t] THEN NoThread ELSE owner[m]]
      /\ users' = [m \in Monitors |-> IF m \in localFree[t] THEN 0 ELSE users[m]]
      /\ freeList' = freeList \cup localFree[t] /\ localFree' = [localFree EXCEPT ![t] = {}]
      /\ pc' = [pc EXCEPT ![t] = "dead"]
  BY DEF DestroyThread, Go, locals
<1>2. /\ pc'[t] = "dead" /\ localFree'[t] = {} /\ at[t] = NoLocation
      /\ \A s \in Threads \ {t} : pc'[s] = pc[s] /\ localFree'[s] = localFree[s]
      /\ \A m \in localFree[t] : owner'[m] = NoThread /\ users'[m] = 0
      /\ \A m \in Monitors : m \notin localFree[t] => owner'[m] = owner[m] /\ users'[m] = users[m]
  BY <1>i, <1>1 DEF TypeOK, ThreadOK
<1>3. TypeOK'
  <2>1. pc' \in [Threads -> Control] /\ localFree' \in [Threads -> SUBSET Monitors]
    BY <1>i, <1>1 DEF TypeOK, Control
  <2>2. freeList' \subseteq Monitors /\ owner' \in [Monitors -> Threads \cup {NoThread}]
    BY <1>i, <1>1 DEF TypeOK
  <2>3. users' \in [Monitors -> 0 .. (UserLimit - 1)]
    <3>1. 0 \in 0 .. (UserLimit - 1)
      BY BoundsAssumption, FS_CardinalityType, SetsAssumption
    <3> QED BY <1>i, <1>1, <3>1 DEF TypeOK
  <2> QED BY <1>i, <1>1, <2>1, <2>2, <2>3 DEF TypeOK
<1>a. \A k \in Locations : loc[k] # NoMonitor => loc[k] \in Monitors /\ loc[k] \notin localFree[t]
  BY <1>i DEF AttachedOK, TypeOK
<1>4. HomeOK'
  <2>1. FreeOK'
    BY <1>i, <1>1, <1>2 DEF FreeOK, LocalOK, TypeOK
  <2>2. LocalOK'
    <3>1. \A s \in Threads : \A m \in localFree'[s] : m \in localFree[s] /\ m \notin localFree[t]
      BY <1>i, <1>2 DEF LocalOK
    <3> QED BY <1>i, <1>1, <1>2, <3>1 DEF LocalOK, TypeOK
  <2>3. BatchOK'
    <3>1. \A s \in Threads : \A m \in batch[s] : m \in Monitors /\ m \notin localFree[t]
      BY <1>i, SetsAssumption DEF LocalOK, BatchOK, TypeOK
    <3> QED BY <1>i, <1>1, <1>2, <3>1 DEF BatchOK
  <2>4. AttachedOK'
    <3>1. \A s \in Threads : localFree'[s] \subseteq localFree[s]
      BY <1>2
    <3> QED BY <1>i, <1>1, <1>a, <3>1 DEF AttachedOK
  <2> QED BY <2>1, <2>2, <2>3, <2>4 DEF HomeOK
<1>5. \A s \in Threads \ {t} : Stays(s)
  BY <1>1, <1>2 DEF Stays
<1>6. Touches(t, NoLocation)
  BY <1>1, <1>2, <1>5, <1>a, SetsAssumption DEF Touches
<1>7. ThreadOK(t)'
  BY <1>i, <1>1, <1>2, SetsAssumption DEF ThreadOK, Locked, Waiting, Using, Calling
<1>8. TokensOK'
  BY <1>i, <1>1 DEF TokensOK
<1> QED BY <1>3, <1>4, <1>6, <1>7, <1>8, SetsAssumption, TouchStep

\* The collector takes the monitor of an object that no thread can reach.
LEMMA ReclaimStep ==
    ASSUME GiveUpInv, NEW l \in Locations, Reclaim(l)
    PROVE  GiveUpInv'
<1>i. /\ TypeOK /\ TokensOK /\ FreeOK /\ LocalOK /\ BatchOK /\ AttachedOK
      /\ loc[l] # NoMonitor /\ loc[l] \in Monitors
      /\ \A s \in Threads : ThreadOK(s)
      /\ \A k \in Locations : LocationOK(k)
  BY DEF GiveUpInv, HomeOK, Reclaim, TypeOK
<1>1. /\ UNCHANGED <<token, freeList, localFree, batch, poolLock, pc, at, mon, ms, saved>>
      /\ loc' = [loc EXCEPT ![l] = NoMonitor] /\ usedList' = usedList \ {loc[l]}
      /\ owner' = [owner EXCEPT ![loc[l]] = NoThread]
      /\ enterCount' = [enterCount EXCEPT ![loc[l]] = 0]
      /\ users' = [users EXCEPT ![loc[l]] = 0]
      /\ depth' = [depth EXCEPT ![l] = [t \in Threads |-> 0]]
  BY DEF Reclaim, locals
<1>2. /\ loc'[l] = NoMonitor /\ \A s \in Threads : depth'[l][s] = 0
      /\ \A k \in Locations : k # l => loc'[k] = loc[k] /\ depth'[k] = depth[k]
      /\ \A m \in Monitors : m # loc[l] => /\ owner'[m] = owner[m] /\ users'[m] = users[m]
                                           /\ enterCount'[m] = enterCount[m]
  BY <1>i, <1>1 DEF TypeOK
<1>3. \A s \in Threads : at[s] # l
  <2>1. \A s \in Threads : pc[s] = "dead" => at[s] # l
    BY <1>i, SetsAssumption DEF ThreadOK
  <2> QED BY <2>1 DEF Reclaim, Unreachable
<1>4. \A k \in Locations : k # l /\ loc[k] # NoMonitor => loc[k] \in Monitors /\ loc[k] # loc[l]
  BY <1>i DEF AttachedOK, TypeOK
<1>5. TypeOK' /\ TokensOK'
  <2>1. /\ loc' \in [Locations -> Monitors \cup {NoMonitor}] /\ usedList' \subseteq Monitors
        /\ owner' \in [Monitors -> Threads \cup {NoThread}]
    BY <1>i, <1>1 DEF TypeOK
  <2>2. enterCount' \in [Monitors -> Nat] /\ depth' \in [Locations -> [Threads -> Nat]]
    BY <1>i, <1>1 DEF TypeOK
  <2>3. users' \in [Monitors -> 0 .. (UserLimit - 1)]
    <3>1. 0 \in 0 .. (UserLimit - 1)
      BY BoundsAssumption, FS_CardinalityType, SetsAssumption
    <3> QED BY <1>i, <1>1, <3>1 DEF TypeOK
  <2>4. TypeOK'
    BY <1>i, <1>1, <2>1, <2>2, <2>3 DEF TypeOK
  <2> QED BY <1>i, <1>1, <2>4 DEF TokensOK
<1>6. HomeOK'
  <2>1. FreeOK'
    BY <1>i, <1>1 DEF FreeOK, AttachedOK
  <2>2. LocalOK'
    BY <1>i, <1>1, <1>2 DEF LocalOK, AttachedOK, TypeOK
  <2>3. BatchOK'
    BY <1>i, <1>1, <1>2 DEF BatchOK, AttachedOK, TypeOK
  <2>4. AttachedOK'
    BY <1>i, <1>1, <1>2, <1>4 DEF AttachedOK
  <2> QED BY <2>1, <2>2, <2>3, <2>4 DEF HomeOK
<1>7. ASSUME NEW s \in Threads PROVE ThreadOK(s)'
  <2>1. at[s] \in Locations => loc'[at[s]] = loc[at[s]]
    BY <1>2, <1>3
  <2>2. pc[s] \in Using => at[s] \in Locations
    BY <1>i DEF ThreadOK, Using, Calling
  <2> QED BY <1>i, <1>1, <2>1, <2>2 DEF ThreadOK
<1>8. ASSUME NEW k \in Locations PROVE LocationOK(k)'
  <2>1. CASE k = l
    BY <1>2, <2>1 DEF LocationOK
  <2>2. CASE k # l
    <3>1. Callers(k)' = Callers(k) /\ Queued(k)' = Queued(k) /\ Posting(k)' \subseteq Posting(k)
      BY <1>1, <1>2, <2>2 DEF Callers, Queued, Posting
    <3> QED BY <1>i, <1>1, <1>2, <1>4, <2>2, <3>1, LocationStays
  <2> QED BY <2>1, <2>2
<1> QED BY <1>5, <1>6, <1>7, <1>8 DEF GiveUpInv

-----------------------------------------------------------------------------
(* The invariant is inductive. *)

\* GiveUpInv holds before the first call.
LEMMA Initially == Init => GiveUpInv
<1> SUFFICES ASSUME Init PROVE GiveUpInv
  OBVIOUS
<1> USE DEF Init
<1>1. TypeOK /\ TokensOK
  <2>1. 0 \in 0 .. (UserLimit - 1)
    BY BoundsAssumption, FS_CardinalityType, SetsAssumption
  <2>2. TypeOK
    BY <2>1 DEF TypeOK, Control, Timeouts
  <2> QED BY <2>2, BoundsAssumption DEF TokensOK
<1>2. \A t \in Threads : ThreadOK(t)
  BY SetsAssumption DEF ThreadOK, Locked, Waiting, Using, Calling
<1>3. HomeOK
  BY DEF HomeOK, FreeOK, LocalOK, BatchOK, AttachedOK
<1>4. \A l \in Locations : LocationOK(l)
  BY DEF LocationOK
<1> QED BY <1>1, <1>2, <1>3, <1>4 DEF GiveUpInv

\* Every step of the fast path keeps GiveUpInv,
LEMMA FastStep ==
    ASSUME GiveUpInv, NEW t \in Threads, FastPath(t)
    PROVE  GiveUpInv'
<1>1. CASE \E l \in Locations : EnterAgain(t, l)
  BY <1>1, AgainStep
<1>2. CASE \E l \in Locations, k \in Timeouts : EnterLoad(t, l, k)
  BY <1>2, LoadStep
<1>3. CASE EnterCas(t)
  <2>1. CASE loc[at[t]] = NoMonitor
    <3>1. PICK m \in localFree[t] : AttachLocal(t, m)
      BY <1>3, <2>1 DEF EnterCas
    <3> QED BY <1>3, <2>1, <3>1, AttachLocalStep DEF EnterCas
  <2>2. CASE loc[at[t]] # NoMonitor
    <3>1. <<"cas", "lock">> \in Jumps
      BY DEF Jumps
    <3> QED BY <1>3, <2>2, <3>1, JumpStep DEF EnterCas
  <2> QED BY <2>1, <2>2
<1> QED BY <1>1, <1>2, <1>3 DEF FastPath

\* every step of the hard path,
LEMMA HardStep ==
    ASSUME WideCount, GiveUpInv, NEW t \in Threads, HardPath(t)
    PROVE  GiveUpInv'
<1>j. /\ <<"attach", "reload">> \in Jumps /\ <<"check", "try">> \in Jumps
      /\ <<"check", "enterWait">> \in Jumps /\ <<"try", "enterWait">> \in Jumps
  BY DEF Jumps
<1>1. CASE EnterLock(t)
  BY <1>1, LockStep
<1>2. CASE EnterAttachLocal(t)
  <2>1. CASE loc[at[t]] = NoMonitor
    <3>1. PICK m \in localFree[t] : AttachLocal(t, m)
      BY <1>2, <2>1 DEF EnterAttachLocal
    <3> QED BY <1>2, <2>1, <3>1, AttachLocalStep DEF EnterAttachLocal
  <2>2. CASE loc[at[t]] # NoMonitor
    BY <1>j, <1>2, <2>2, JumpStep DEF EnterAttachLocal
  <2> QED BY <2>1, <2>2
<1>3. CASE EnterAttachNew(t)
  BY <1>3, AttachNewStep
<1>4. CASE EnterNoMemory(t)
  BY <1>4, BusyStep DEF EnterNoMemory
<1>5. CASE EnterReload(t)
  BY <1>5, ReloadStep
<1>6. CASE EnterCheck(t)
  <2>1. CASE Go(t, "try") /\ UNCHANGED <<poolLock, locals>>
    BY <1>j, <1>6, <2>1, JumpStep DEF EnterCheck
  <2>2. CASE EnterBusy(t)
    BY <1>6, <2>2, BusyStep DEF EnterCheck, EnterBusy
  <2>3. CASE Go(t, "enterWait") /\ UNCHANGED <<poolLock, locals>>
    BY <1>j, <1>6, <2>3, JumpStep DEF EnterCheck
  <2> QED BY <1>6, <2>1, <2>2, <2>3 DEF EnterCheck
<1>7. CASE EnterTry(t)
  BY <1>7, TryStep
<1>8. CASE EnterTryBusy(t)
  <2>1. CASE EnterBusy(t)
    BY <1>8, <2>1, BusyStep DEF EnterTryBusy, EnterBusy
  <2>2. CASE Go(t, "enterWait") /\ UNCHANGED <<poolLock, locals>>
    BY <1>j, <1>8, <2>2, JumpStep DEF EnterTryBusy
  <2> QED BY <1>8, <2>1, <2>2 DEF EnterTryBusy
<1>9. CASE EnterAborted(t)
  BY <1>9, BusyStep DEF EnterAborted
<1>10. CASE EnterWait(t)
  BY <1>10, WaitStep
<1> QED BY <1>1, <1>2, <1>3, <1>4, <1>5, <1>6, <1>7, <1>8, <1>9, <1>10 DEF HardPath

\* and every step of a thread that waits for a monitor, is back from it or
\* gives up.
LEMMA BlockedStep ==
    ASSUME GiveUpInv, NEW t \in Threads, BlockedPath(t)
    PROVE  GiveUpInv'
<1>j. <<"blocked", "giveUp">> \in Jumps /\ <<"acquired", "giveBack">> \in Jumps
  BY DEF Jumps
<1>1. CASE EnterAcquire(t)
  BY <1>1, TakeStep
<1>2. CASE EnterFails(t)
  BY <1>j, <1>2, JumpStep DEF EnterFails
<1>3. CASE EnterOwn(t)
  BY <1>3, OwnStep
<1>4. CASE EnterInterrupted(t)
  BY <1>j, <1>4, JumpStep DEF EnterInterrupted
<1>5. CASE EnterGiveUp(t)
  BY <1>5, GiveUpStep
<1> QED BY <1>1, <1>2, <1>3, <1>4, <1>5 DEF BlockedPath

\* Every step keeps GiveUpInv.
LEMMA Inductive ==
    ASSUME WideCount, GiveUpInv, [Next]_vars
    PROVE  GiveUpInv'
<1>1. ASSUME NEW t \in Threads, FastPath(t) PROVE GiveUpInv'
  BY <1>1, FastStep
<1>2. ASSUME NEW t \in Threads, HardPath(t) PROVE GiveUpInv'
  BY <1>2, HardStep
<1>3. ASSUME NEW t \in Threads, BlockedPath(t) PROVE GiveUpInv'
  BY <1>3, BlockedStep
<1>4. ASSUME NEW t \in Threads, ExitPath(t) PROVE GiveUpInv'
  BY <1>4, AgainStep, KeepStep, TrimStep, ReleaseStep, TrimmedStep, PostStep DEF ExitPath
<1>5. ASSUME NEW t \in Threads, WaitPath(t) PROVE GiveUpInv'
  <2>1. CASE WaitOver(t)
    <3>1. <<"waiting", "reenter">> \in Jumps
      BY DEF Jumps
    <3> QED BY <2>1, <3>1, JumpStep DEF WaitOver
  <2> QED BY <1>5, <2>1, WaitBeginStep, PostStep, TakeStep, OwnStep DEF WaitPath
<1>6. ASSUME NEW t \in Threads, DestroyThread(t) PROVE GiveUpInv'
  BY <1>6, DestroyStep
<1>7. ASSUME NEW l \in Locations, Reclaim(l) PROVE GiveUpInv'
  BY <1>7, ReclaimStep
<1>8. CASE UNCHANGED vars
  <2>u. UNCHANGED <<loc, owner, enterCount, users, token, usedList, freeList, localFree,
                    poolLock, pc, at, mon, ms, saved, batch, depth>>
    BY <1>8 DEF vars
  <2>i. /\ TypeOK /\ TokensOK /\ HomeOK /\ (\A s \in Threads : ThreadOK(s))
        /\ \A k \in Locations : LocationOK(k)
    BY DEF GiveUpInv
  <2>1. TypeOK' /\ TokensOK'
    BY <2>i, <2>u DEF TypeOK, TokensOK
  <2>2. HomeOK'
    BY <2>i, <2>u, HomeStays
  <2>3. \A s \in Threads : ThreadOK(s)'
    BY <2>i, <2>u, ThreadStays DEF Stays
  <2>4. \A k \in Locations : LocationOK(k)'
    <3>1. \A k \in Locations : /\ Callers(k)' = Callers(k) /\ Queued(k)' = Queued(k)
                               /\ Posting(k)' \subseteq Posting(k)
      BY <2>u DEF Callers, Queued, Posting
    <3> QED BY <2>i, <2>u, <3>1, LocationStays
  <2> QED BY <2>1, <2>2, <2>3, <2>4 DEF GiveUpInv
<1> QED BY <1>1, <1>2, <1>3, <1>4, <1>5, <1>6, <1>7, <1>8 DEF Next

\* GiveUpInv holds throughout.
LEMMA Invariance ==
    ASSUME WideCount
    PROVE  Spec => []GiveUpInv
<1>1. GiveUpInv /\ [Next]_vars => GiveUpInv'
  BY Inductive
<1> QED BY <1>1, Initially, PTL DEF Spec

-----------------------------------------------------------------------------
(* What holds however the waits end. *)

\* The monitor that a thread has read from the object and uses without the
\* pool lock stays the monitor of that object until the thread is done, also
\* when others that wait for it time out, are interrupted or are aborted and
\* leave the users by the end of ILMonitorTimedTryEnter.
THEOREM StaysHoweverWaitsEnd == WideCount => (Spec => []StaysAttached)
<1> SUFFICES ASSUME WideCount PROVE Spec => []StaysAttached
  OBVIOUS
<1>1. GiveUpInv => StaysAttached
  <2> SUFFICES ASSUME GiveUpInv, NEW t \in Threads,
                      pc[t] \in Calling \cup {"check", "try", "enterWait"}
               PROVE  mon[t] \in Monitors /\ loc[at[t]] = mon[t]
    BY DEF StaysAttached
  <2>1. pc[t] \in Using \ {"reload"}
    BY DEF Using, Calling
  <2> QED BY <2>1, HereIsMonitor
<1> QED BY <1>1, Invariance, PTL

\* However the waits end, no monitor belongs to two objects, or to an object
\* and a freelist from which ILMonitorTimedTryEnter would give it to another.
THEOREM OneHomeHoweverWaitsEnd == WideCount => (Spec => []OneHome)
<1> SUFFICES ASSUME WideCount PROVE Spec => []OneHome
  OBVIOUS
<1>1. GiveUpInv => OneHome
  <2> SUFFICES ASSUME GiveUpInv PROVE OneHome
    OBVIOUS
  <2>1. AttachedOK
    BY DEF GiveUpInv, HomeOK
  <2>2. Attached \cap (freeList \cup UNION {localFree[t] \cup batch[t] : t \in Threads}) = {}
    <3> SUFFICES ASSUME NEW m \in Attached, m \in freeList \cup UNION {localFree[t] \cup batch[t] : t \in Threads}
                 PROVE  FALSE
      OBVIOUS
    <3>1. PICK l \in Locations : m = loc[l] /\ loc[l] # NoMonitor
      BY DEF Attached
    <3>2. m \notin freeList /\ \A t \in Threads : m \notin localFree[t] /\ m \notin batch[t]
      BY <2>1, <3>1 DEF AttachedOK
    <3> QED BY <3>2
  <2>3. \A l, k \in Locations : loc[l] = loc[k] /\ loc[l] # NoMonitor => l = k
    BY <2>1 DEF AttachedOK
  <2> QED BY <2>2, <2>3 DEF OneHome
<1> QED BY <1>1, Invariance, PTL
=============================================================================
