-------------------------- MODULE ILMonitorProofs --------------------------
(***************************************************************************)
(* Proofs about the monitors of objects, for any number of threads,        *)
(* monitors and objects, when no wait for a monitor gives up: a thread     *)
(* that times out may free the monitor before its token is posted, and     *)
(* then ILMonitorTimeout.cfg shows two owners.  The argument: a monitor is *)
(* in one place (HomeOK); the one attached to an object has one thread     *)
(* that holds its token, and counts those that use it (LocationOK); what a *)
(* thread has read without the pool lock stays true because the thread is  *)
(* counted, or has the lock (ThreadOK).                                    *)
(***************************************************************************)
EXTENDS ILMonitor, FiniteSetTheorems, TLAPS

-----------------------------------------------------------------------------
(* The inductive invariant. *)

Waiting == {"waitPost", "waiting", "reenter", "restore"}
Using == Calling \cup {"check", "try", "enterWait", "reload"}

\* Where the control of thread t is, its local variables, and the monitor it
\* has read from the location: that one stays attached until t is done.
ThreadOK(t) ==
  /\ IF pc[t] \in {"idle", "dead", "trim", "post"} THEN at[t] = NoLocation
                                                   ELSE at[t] \in Locations
  /\ poolLock = t <=> pc[t] \in Locked
  /\ pc[t] # "trim" => batch[t] = {}
  /\ pc[t] \notin {"giveUp", "giveBack"}
  /\ pc[t] \in Waiting => saved[t] > 0
  /\ at[t] \in Locations => depth[at[t]][t] = 0
  /\ pc[t] \in Using => loc[at[t]] # NoMonitor
  /\ pc[t] \in Using \ {"reload"} => loc[at[t]] = mon[t]
  /\ pc[t] = "post" => \E l \in Locations : /\ loc[l] = mon[t] /\ loc[l] # NoMonitor
                                            /\ depth[l][t] = 0

\* A monitor is in one place: attached to one location, in one freelist, or on
\* its way to one.
FreeOK ==
  \A m \in freeList : /\ m \in usedList
                      /\ owner[m] = NoThread /\ users[m] = 0 /\ token[m] = 0
LocalOK ==
  \A t \in Threads : \A m \in localFree[t] :
    /\ m \in usedList /\ m \notin freeList
    /\ owner[m] = t /\ users[m] = 1 /\ token[m] = 0 /\ enterCount[m] = 1
BatchOK ==
  \A t \in Threads : \A m \in batch[t] :
    /\ m \in usedList /\ m \notin freeList
    /\ owner[m] = NoThread /\ users[m] = 0 /\ token[m] = 0
    /\ \A s \in Threads : m \in batch[s] => s = t
AttachedOK ==
  \A l \in Locations : loc[l] # NoMonitor =>
    /\ loc[l] \in usedList /\ loc[l] \notin freeList
    /\ \A t \in Threads : loc[l] \notin localFree[t] /\ loc[l] \notin batch[t]
    /\ \A k \in Locations : loc[k] = loc[l] => k = l
HomeOK == FreeOK /\ LocalOK /\ BatchOK /\ AttachedOK

\* t is among the users of the monitor at l.
InUse(t, l) == depth[l][t] > 0 \/ (pc[t] \in Calling /\ at[t] = l)
UsersAt(l) == {t \in Threads : InUse(t, l)}

\* t has taken the token of the monitor at l and not posted it yet.
Holds(t, l) ==
  \/ depth[l][t] > 0
  \/ pc[t] \in {"acquired", "waitPost", "restore"} /\ at[t] = l
  \/ pc[t] = "post" /\ mon[t] = loc[l]

\* The owner is the thread inside; one thread holds the token, or it is there
\* to be taken; the users are counted.
OwnerOK(l) ==
  \A t \in Threads : /\ depth[l][t] > 0 <=> owner[loc[l]] = t
                     /\ depth[l][t] > 0 => enterCount[loc[l]] = depth[l][t]
TokenOK(l) ==
  /\ token[loc[l]] \in 0 .. 1
  /\ \A s, t \in Threads : Holds(s, l) /\ Holds(t, l) => s = t
  /\ \A t \in Threads : Holds(t, l) => token[loc[l]] = 0
CountOK(l) == users[loc[l]] = Cardinality(UsersAt(l)) /\ UsersAt(l) # {}
LocationOK(l) ==
  /\ loc[l] = NoMonitor => \A t \in Threads : depth[l][t] = 0
  /\ loc[l] # NoMonitor => OwnerOK(l) /\ TokenOK(l) /\ CountOK(l)

MonitorInv ==
  /\ TypeOK
  /\ \A t \in Threads : ThreadOK(t)
  /\ HomeOK
  /\ \A l \in Locations : LocationOK(l)

NoGiveUps == GiveUps = {}

-----------------------------------------------------------------------------
(* The users of a monitor as a number. *)

\* The width of users does not matter below its limit.
LEMMA Modulo ==
    ASSUME NEW n \in Nat, n < UserLimit
    PROVE  n % UserLimit = n
  BY BoundsAssumption

\* Nor does a count leave its range.
LEMMA ModuloType ==
    ASSUME NEW n \in Int
    PROVE  n % UserLimit \in 0 .. (UserLimit - 1)
  BY BoundsAssumption, FS_CardinalityType, SetsAssumption

\* The count of users, when a thread comes in,
LEMMA OneMoreUser ==
    ASSUME NEW U \in SUBSET Threads, NEW t \in Threads, t \notin U
    PROVE  /\ Inc(Cardinality(U)) = Cardinality(U \cup {t})
           /\ Cardinality(U \cup {t}) \in Nat /\ U \cup {t} # {}
<1>1. IsFiniteSet(Threads)
  BY SetsAssumption
<1>2. IsFiniteSet(U) /\ IsFiniteSet(U \cup {t}) /\ U \cup {t} \in SUBSET Threads
  BY <1>1, FS_Subset
<1>3. Cardinality(U \cup {t}) <= Cardinality(Threads)
  BY <1>1, <1>2, FS_Subset
<1>4. /\ Cardinality(U) \in Nat /\ Cardinality(Threads) \in Nat
      /\ Cardinality(U \cup {t}) = Cardinality(U) + 1
  BY <1>1, <1>2, FS_CardinalityType, FS_AddElement
<1>5. Cardinality(U) + 1 \in Nat /\ Cardinality(U) + 1 < UserLimit
  BY <1>3, <1>4, BoundsAssumption
<1> QED BY <1>4, <1>5, Modulo DEF Inc

\* and when one leaves.
LEMMA OneLessUser ==
    ASSUME NEW U \in SUBSET Threads, NEW t \in U
    PROVE  /\ Dec(Cardinality(U)) = Cardinality(U \ {t})
           /\ Cardinality(U) > 1 => U \ {t} # {}
           /\ Cardinality(U) <= 1 => U = {t}
<1>1. IsFiniteSet(Threads) /\ IsFiniteSet(U) /\ Cardinality(U) <= Cardinality(Threads)
  BY SetsAssumption, FS_Subset
<1>2. /\ Cardinality(U) \in Nat /\ Cardinality(Threads) \in Nat /\ IsFiniteSet(U \ {t})
      /\ Cardinality(U \ {t}) = Cardinality(U) - 1 /\ Cardinality(U \ {t}) \in Nat
  BY <1>1, FS_CardinalityType, FS_RemoveElement
<1>3. Cardinality(U) - 1 \in Nat /\ Cardinality(U) - 1 < UserLimit
  BY <1>1, <1>2, BoundsAssumption
<1>4. Dec(Cardinality(U)) = Cardinality(U \ {t})
  BY <1>2, <1>3, Modulo DEF Dec
<1>5. Cardinality(U \ {t}) = 0 <=> U \ {t} = {}
  BY <1>2, FS_EmptySet
<1>6. Cardinality(U) > 1 => U \ {t} # {}
  BY <1>2, <1>5
<1>7. Cardinality(U) <= 1 => U = {t}
  BY <1>2, <1>5
<1> QED BY <1>4, <1>6, <1>7

-----------------------------------------------------------------------------
(* What a step of one thread leaves alone. *)

\* The control and the local variables of s, and how deep it is inside.
Stays(s) ==
  /\ pc'[s] = pc[s] /\ at'[s] = at[s] /\ mon'[s] = mon[s] /\ saved'[s] = saved[s]
  /\ batch'[s] = batch[s] /\ (poolLock' = s <=> poolLock = s)
  /\ \A l \in Locations : depth'[l][s] = depth[l][s]

\* s relies on the monitor that is attached to l.
Relies(s, l) == (pc[s] \in Using /\ at[s] = l) \/ (pc[s] = "post" /\ mon[s] = loc[l])

\* A thread that takes no step, and whose object keeps its monitor.
LEMMA ThreadStays ==
    ASSUME NEW s \in Threads, ThreadOK(s), Stays(s),
           \A l \in Locations : Relies(s, l) /\ loc[l] # NoMonitor => loc'[l] = loc[l]
    PROVE  ThreadOK(s)'
<1>1. /\ pc'[s] = pc[s] /\ at'[s] = at[s] /\ mon'[s] = mon[s] /\ saved'[s] = saved[s]
      /\ batch'[s] = batch[s] /\ (poolLock' = s <=> poolLock = s)
      /\ \A l \in Locations : depth'[l][s] = depth[l][s]
  BY DEF Stays
<1>2. pc[s] \in Using => at[s] \in Locations /\ loc'[at[s]] = loc[at[s]]
  BY DEF ThreadOK, Relies, Using, Calling
<1>3. pc[s] = "post" => \E l \in Locations : /\ loc'[l] = mon[s] /\ loc'[l] # NoMonitor
                                            /\ depth'[l][s] = 0
  BY <1>1 DEF ThreadOK, Relies
<1> QED BY <1>1, <1>2, <1>3 DEF ThreadOK

\* An object that the step is not about.
LEMMA LocationStays ==
    ASSUME NEW l \in Locations, LocationOK(l), loc'[l] = loc[l],
           \A t \in Threads : depth'[l][t] = depth[l][t],
           loc[l] # NoMonitor => /\ owner'[loc[l]] = owner[loc[l]]
                                 /\ enterCount'[loc[l]] = enterCount[loc[l]]
                                 /\ users'[loc[l]] = users[loc[l]]
                                 /\ token'[loc[l]] = token[loc[l]],
           \A t \in Threads : InUse(t, l)' <=> InUse(t, l),
           \A t \in Threads : Holds(t, l)' => Holds(t, l)
    PROVE  LocationOK(l)'
<1>1. UsersAt(l)' = UsersAt(l)
  BY DEF UsersAt
<1>2. CASE loc[l] = NoMonitor
  BY <1>2 DEF LocationOK
<1>3. CASE loc[l] # NoMonitor
  <2>1. OwnerOK(l)'
    BY <1>3 DEF LocationOK, OwnerOK
  <2>2. TokenOK(l)'
    BY <1>3 DEF LocationOK, TokenOK
  <2>3. CountOK(l)'
    BY <1>1, <1>3 DEF LocationOK, CountOK
  <2> QED BY <1>3, <2>1, <2>2, <2>3 DEF LocationOK
<1> QED BY <1>2, <1>3

\* Homes, when no list and no object changes.
LEMMA HomeStays ==
    ASSUME HomeOK, UNCHANGED <<loc, usedList, freeList, localFree, batch>>,
           \A m \in Monitors : (\A l \in Locations : loc[l] # m) =>
                    /\ owner'[m] = owner[m] /\ enterCount'[m] = enterCount[m]
                    /\ users'[m] = users[m] /\ token'[m] = token[m],
           TypeOK
    PROVE  HomeOK'
<1>a. \A m \in freeList : \A l \in Locations : loc[l] # m
  BY SetsAssumption DEF HomeOK, AttachedOK, TypeOK
<1>b. \A t \in Threads : \A m \in localFree[t] : \A l \in Locations : loc[l] # m
  BY SetsAssumption DEF HomeOK, AttachedOK, TypeOK
<1>c. \A t \in Threads : \A m \in batch[t] : \A l \in Locations : loc[l] # m
  BY SetsAssumption DEF HomeOK, AttachedOK, TypeOK
<1>1. FreeOK'
  BY <1>a DEF HomeOK, FreeOK, TypeOK
<1>2. LocalOK'
  BY <1>b DEF HomeOK, LocalOK, TypeOK
<1>3. BatchOK'
  BY <1>c DEF HomeOK, BatchOK, TypeOK
<1>4. AttachedOK'
  BY DEF HomeOK, AttachedOK
<1> QED BY <1>1, <1>2, <1>3, <1>4 DEF HomeOK

\* Thread t does something at location l, or at none.
Touches(t, l) ==
  /\ \A s \in Threads \ {t} : Stays(s)
  /\ at[t] \in {l, NoLocation} /\ at'[t] \in {l, NoLocation}
  /\ pc'[t] = "post" => l \in Locations /\ mon'[t] = loc[l] /\ loc[l] # NoMonitor
  /\ \A k \in Locations \ {l} :
       /\ loc'[k] = loc[k] /\ depth'[k][t] = depth[k][t]
       /\ loc[k] # NoMonitor => /\ owner'[loc[k]] = owner[loc[k]]
                                /\ enterCount'[loc[k]] = enterCount[loc[k]]
                                /\ users'[loc[k]] = users[loc[k]]
                                /\ token'[loc[k]] = token[loc[k]]
  /\ l \in Locations /\ loc[l] # NoMonitor =>
       loc'[l] = loc[l] \/ \A s \in Threads \ {t} : ~Relies(s, l)

\* A step of thread t at object l: what has to be shown.
LEMMA TouchStep ==
    ASSUME MonitorInv, NEW t \in Threads, NEW l \in Locations \cup {NoLocation}, Touches(t, l),
           TypeOK', ThreadOK(t)', HomeOK', l \in Locations => LocationOK(l)'
    PROVE  MonitorInv'
<1>i. TypeOK /\ HomeOK /\ (\A s \in Threads : ThreadOK(s)) /\ \A k \in Locations : LocationOK(k)
  BY DEF MonitorInv
<1>1. ASSUME NEW s \in Threads PROVE ThreadOK(s)'
  <2>1. CASE s = t
    BY <2>1
  <2>2. CASE s # t
    <3>1. Stays(s)
      BY <2>2 DEF Touches
    <3>2. \A k \in Locations : Relies(s, k) /\ loc[k] # NoMonitor => loc'[k] = loc[k]
      BY <2>2 DEF Touches
    <3> QED BY <1>i, <3>1, <3>2, ThreadStays
  <2> QED BY <2>1, <2>2
<1>2. ASSUME NEW k \in Locations PROVE LocationOK(k)'
  <2>1. CASE k = l
    BY <2>1
  <2>2. CASE k # l
    <3>1. /\ loc'[k] = loc[k]
          /\ loc[k] # NoMonitor => /\ owner'[loc[k]] = owner[loc[k]]
                                   /\ enterCount'[loc[k]] = enterCount[loc[k]]
                                   /\ users'[loc[k]] = users[loc[k]]
                                   /\ token'[loc[k]] = token[loc[k]]
      BY <2>2 DEF Touches
    <3>2. \A s \in Threads : depth'[k][s] = depth[k][s]
      BY <2>2 DEF Touches, Stays
    <3>3. at[t] # k /\ at'[t] # k
      BY <2>2, SetsAssumption DEF Touches
    <3>4. pc'[t] = "post" => mon'[t] # loc[k]
      BY <1>i, <2>2 DEF Touches, HomeOK, AttachedOK
    <3>5. \A s \in Threads \ {t} : pc'[s] = pc[s] /\ at'[s] = at[s] /\ mon'[s] = mon[s]
      BY DEF Touches, Stays
    <3>6. \A s \in Threads : InUse(s, k)' <=> InUse(s, k)
      BY <3>2, <3>3, <3>5 DEF InUse
    <3>7. \A s \in Threads : Holds(s, k)' => Holds(s, k)
      BY <3>1, <3>2, <3>3, <3>4, <3>5 DEF Holds
    <3> QED BY <1>i, <3>1, <3>2, <3>6, <3>7, LocationStays
  <2> QED BY <2>1, <2>2
<1> QED BY <1>1, <1>2 DEF MonitorInv

-----------------------------------------------------------------------------
(* Steps that change only the control and the local variables of a thread. *)

\* A step that moves one thread and no shared state.
LEMMA ControlStep ==
    ASSUME MonitorInv, NEW t \in Threads, NEW l \in Locations,
           UNCHANGED <<shared, lists, depth>>,
           \A s \in Threads \ {t} : /\ pc'[s] = pc[s] /\ at'[s] = at[s] /\ mon'[s] = mon[s]
                                    /\ saved'[s] = saved[s] /\ (poolLock' = s <=> poolLock = s),
           at[t] \in {l, NoLocation}, at'[t] \in {l, NoLocation},
           pc[t] # "post", pc'[t] # "post",
           InUse(t, l)' <=> InUse(t, l),
           Holds(t, l)' => Holds(t, l),
           TypeOK', ThreadOK(t)'
    PROVE  MonitorInv'
<1>i. TypeOK /\ HomeOK /\ LocationOK(l)
  BY DEF MonitorInv
<1>u. UNCHANGED <<loc, owner, enterCount, users, token, usedList, freeList, localFree, batch, depth>>
  BY DEF shared, lists
<1>1. HomeOK'
  BY <1>i, <1>u, HomeStays
<1>2. Touches(t, l)
  BY <1>u DEF Touches, Stays
<1>3. \A s \in Threads : (InUse(s, l)' <=> InUse(s, l)) /\ (Holds(s, l)' => Holds(s, l))
  BY <1>u DEF InUse, Holds
<1>4. LocationOK(l)'
  BY <1>i, <1>u, <1>3, LocationStays
<1> QED BY <1>1, <1>2, <1>4, TouchStep

\* ILMonitorTimedTryEnter reads the object's word.
LEMMA LoadStep ==
    ASSUME MonitorInv, NEW t \in Threads, NEW l \in Locations, NEW k \in Timeouts, EnterLoad(t, l, k)
    PROVE  MonitorInv'
<1>i. TypeOK /\ ThreadOK(t) /\ LocationOK(l)
  BY DEF MonitorInv
<1>1. /\ pc[t] = "idle" /\ pc'[t] \in {"cas", "lock"} /\ at'[t] = l /\ at[t] = NoLocation
      /\ \A s \in Threads \ {t} : pc'[s] = pc[s] /\ at'[s] = at[s]
      /\ UNCHANGED <<mon, saved, poolLock, shared, lists, depth>>
  BY <1>i DEF EnterLoad, Go, TypeOK, ThreadOK
<1>u. UNCHANGED <<loc, owner, enterCount, users, token, usedList, freeList, localFree, batch, depth>>
  BY <1>1 DEF shared, lists
<1>2. TypeOK'
  BY <1>i, <1>u DEF EnterLoad, Go, TypeOK, Control, Locked
<1>3. depth[l][t] = 0
  <2>1. depth[l][t] \in Nat
    BY <1>i DEF TypeOK
  <2>2. loc[l] # NoMonitor => owner[loc[l]] # t
    BY DEF EnterLoad
  <2> QED BY <1>i, <2>1, <2>2 DEF LocationOK, OwnerOK
<1>4. ThreadOK(t)'
  BY <1>i, <1>1, <1>u, <1>3 DEF ThreadOK, Locked, Waiting, Using, Calling
<1>5. (InUse(t, l)' <=> InUse(t, l)) /\ (Holds(t, l)' => Holds(t, l))
  BY <1>1, <1>u DEF InUse, Holds, Calling
<1> QED BY <1>1, <1>2, <1>4, <1>5, ControlStep

\* The pool lock is taken.
LEMMA LockStep ==
    ASSUME MonitorInv, NEW t \in Threads, EnterLock(t)
    PROVE  MonitorInv'
<1>i. TypeOK /\ ThreadOK(t)
  BY DEF MonitorInv
<1>1. /\ pc[t] = "lock" /\ at[t] \in Locations /\ at' = at
      /\ IF loc[at[t]] = NoMonitor THEN pc'[t] = "attach" ELSE pc'[t] = "check"
      /\ mon'[t] = loc[at[t]] /\ poolLock = NoThread /\ poolLock' = t
      /\ \A s \in Threads \ {t} : pc'[s] = pc[s] /\ mon'[s] = mon[s]
      /\ UNCHANGED <<saved, shared, lists, depth>>
  BY <1>i DEF EnterLock, Go, TypeOK, ThreadOK
<1>u. UNCHANGED <<loc, owner, enterCount, users, token, usedList, freeList, localFree, batch, depth>>
  BY <1>1 DEF shared, lists
<1>2. TypeOK'
  BY <1>i, <1>1, <1>u DEF EnterLock, Go, TypeOK, Control, Locked
<1>4. ThreadOK(t)'
  BY <1>i, <1>1, <1>u DEF ThreadOK, Locked, Waiting, Using, Calling
<1>5. (InUse(t, at[t])' <=> InUse(t, at[t])) /\ (Holds(t, at[t])' => Holds(t, at[t]))
  BY <1>1, <1>u DEF InUse, Holds, Calling
<1>6. \A s \in Threads \ {t} : poolLock' = s <=> poolLock = s
  BY <1>1, SetsAssumption
<1> QED BY <1>1, <1>2, <1>4, <1>5, <1>6, ControlStep

\* From one place to the next.
Jumps == {<<"cas", "lock">>, <<"attach", "reload">>, <<"check", "try">>, <<"check", "enterWait">>,
          <<"try", "enterWait">>, <<"waiting", "reenter">>}

\* A step that only moves the control point.
LEMMA JumpStep ==
    ASSUME MonitorInv, NEW t \in Threads, NEW a, NEW b, <<a, b>> \in Jumps, pc[t] = a, Go(t, b),
           UNCHANGED <<poolLock, depth, lists, locals, shared>>,
           b = "reload" => loc[at[t]] # NoMonitor
    PROVE  MonitorInv'
<1>i. TypeOK /\ ThreadOK(t)
  BY DEF MonitorInv
<1>u. UNCHANGED <<loc, owner, enterCount, users, token, usedList, freeList, localFree, batch, depth,
                  poolLock, at, mon, ms, saved>>
  BY DEF shared, lists, locals
<1>j. \/ a = "cas" /\ b = "lock"
      \/ a = "attach" /\ b = "reload"
      \/ a = "check" /\ b \in {"try", "enterWait"}
      \/ a = "try" /\ b = "enterWait"
      \/ a = "waiting" /\ b = "reenter"
  BY DEF Jumps
<1>1. /\ pc'[t] = b /\ at[t] \in Locations
      /\ \A s \in Threads \ {t} : pc'[s] = pc[s]
  BY <1>i, <1>j DEF Go, TypeOK, ThreadOK
<1>2. TypeOK'
  BY <1>i, <1>u, <1>j DEF Go, TypeOK, Control, Locked
<1>3. ThreadOK(t)'
  BY <1>i, <1>1, <1>u, <1>j DEF ThreadOK, Locked, Waiting, Using, Calling
<1>4. (InUse(t, at[t])' <=> InUse(t, at[t])) /\ (Holds(t, at[t])' => Holds(t, at[t]))
  BY <1>1, <1>u, <1>j DEF InUse, Holds, Calling
<1>5. pc[t] # "post" /\ pc'[t] # "post"
  BY <1>1, <1>j
<1> QED BY <1>1, <1>2, <1>3, <1>4, <1>5, <1>u, ControlStep

\* The object's word is read again under the pool lock.
LEMMA ReloadStep ==
    ASSUME MonitorInv, NEW t \in Threads, EnterReload(t)
    PROVE  MonitorInv'
<1>i. TypeOK /\ ThreadOK(t)
  BY DEF MonitorInv
<1>1. /\ pc[t] = "reload" /\ pc'[t] = "check" /\ at[t] \in Locations /\ at' = at
      /\ mon'[t] = loc[at[t]]
      /\ \A s \in Threads \ {t} : pc'[s] = pc[s] /\ mon'[s] = mon[s]
      /\ UNCHANGED <<poolLock, saved, shared, lists, depth>>
  BY <1>i DEF EnterReload, Go, TypeOK, ThreadOK
<1>u. UNCHANGED <<loc, owner, enterCount, users, token, usedList, freeList, localFree, batch, depth>>
  BY <1>1 DEF shared, lists
<1>2. TypeOK'
  BY <1>i, <1>1, <1>u DEF EnterReload, Go, TypeOK, Control, Locked
<1>4. ThreadOK(t)'
  BY <1>i, <1>1, <1>u DEF ThreadOK, Locked, Waiting, Using, Calling
<1>5. (InUse(t, at[t])' <=> InUse(t, at[t])) /\ (Holds(t, at[t])' => Holds(t, at[t]))
  BY <1>1, <1>u DEF InUse, Holds, Calling
<1> QED BY <1>1, <1>2, <1>4, <1>5, ControlStep

\* IL_THREAD_BUSY, or no memory: t returns, and releases the pool lock.
LEMMA BusyStep ==
    ASSUME MonitorInv, NEW t \in Threads, pc[t] \in {"attach", "check", "try"},
           poolLock' = NoThread, Return(t), UNCHANGED <<depth, lists, shared>>
    PROVE  MonitorInv'
<1>i. TypeOK /\ ThreadOK(t)
  BY DEF MonitorInv
<1>u. UNCHANGED <<loc, owner, enterCount, users, token, usedList, freeList, localFree, batch, depth>>
  BY DEF shared, lists
<1>1. /\ pc'[t] = "idle" /\ at[t] \in Locations /\ at'[t] = NoLocation /\ poolLock = t
      /\ \A s \in Threads \ {t} : /\ pc'[s] = pc[s] /\ mon'[s] = mon[s] /\ at'[s] = at[s]
                                  /\ saved'[s] = saved[s]
  BY <1>i DEF Return, Go, TypeOK, ThreadOK, Locked
<1>2. TypeOK'
  BY <1>i, <1>u DEF Return, Go, TypeOK, Control, Locked, Timeouts
<1>4. ThreadOK(t)'
  BY <1>i, <1>1, <1>u, SetsAssumption DEF ThreadOK, Locked, Waiting, Using, Calling
<1>l. PICK l \in Locations : l = at[t]
  BY <1>1
<1>5. (InUse(t, l)' <=> InUse(t, l)) /\ (Holds(t, l)' => Holds(t, l))
  BY <1>1, <1>u DEF InUse, Holds, Calling
<1>6. \A s \in Threads \ {t} : poolLock' = s <=> poolLock = s
  BY <1>1, SetsAssumption
<1> QED BY <1>1, <1>l, <1>2, <1>4, <1>5, <1>6, ControlStep

-----------------------------------------------------------------------------
(* Steps at an attached monitor: owner, token and users.                   *)

\* Thread t does something with the monitor at l, which stays attached.
OnlyAt(t, l) ==
  /\ \A s \in Threads \ {t} : Stays(s)
  /\ UNCHANGED <<loc, usedList, freeList, localFree, batch>>
  /\ at[t] \in {l, NoLocation} /\ at'[t] \in {l, NoLocation}
  /\ pc'[t] = "post" => mon'[t] = loc[l]
  /\ \A m \in Monitors : m # loc[l] =>
                          /\ owner'[m] = owner[m] /\ enterCount'[m] = enterCount[m]
                          /\ users'[m] = users[m] /\ token'[m] = token[m]
  /\ \A k \in Locations : k # l => depth'[k][t] = depth[k][t]

\* A step at an object that has its monitor and keeps it.
LEMMA AttachedStep ==
    ASSUME MonitorInv, NEW t \in Threads, NEW l \in Locations, loc[l] # NoMonitor, OnlyAt(t, l),
           TypeOK', ThreadOK(t)', OwnerOK(l)', TokenOK(l)', CountOK(l)'
    PROVE  MonitorInv'
<1>i. TypeOK /\ HomeOK
  BY DEF MonitorInv
<1>1. HomeOK'
  <2>1. \A m \in Monitors : (\A k \in Locations : loc[k] # m) =>
                    /\ owner'[m] = owner[m] /\ enterCount'[m] = enterCount[m]
                    /\ users'[m] = users[m] /\ token'[m] = token[m]
    BY DEF OnlyAt
  <2>2. UNCHANGED <<loc, usedList, freeList, localFree, batch>>
    BY DEF OnlyAt
  <2> QED BY <1>i, <2>1, <2>2, HomeStays
<1>2. \A k \in Locations \ {l} : loc[k] # NoMonitor => loc[k] # loc[l]
  BY <1>i DEF HomeOK, AttachedOK
<1>t. \A k \in Locations : loc[k] # NoMonitor => loc[k] \in Monitors
  BY <1>i DEF TypeOK
<1>3. Touches(t, l)
  BY <1>2, <1>t DEF Touches, OnlyAt
<1>4. LocationOK(l)'
  BY DEF LocationOK, OnlyAt
<1> QED BY <1>1, <1>3, <1>4, TouchStep

\* What the other threads do at an object stays as it is.
LEMMA OthersAt ==
    ASSUME NEW t \in Threads, NEW l \in Locations, \A s \in Threads \ {t} : Stays(s), loc'[l] = loc[l]
    PROVE  \A s \in Threads \ {t} : /\ InUse(s, l)' <=> InUse(s, l)
                                    /\ Holds(s, l)' <=> Holds(s, l)
                                    /\ depth'[l][s] = depth[l][s]
  BY DEF Stays, InUse, Holds

\* The token: left alone, taken, or posted.
LEMMA TokenStep ==
    ASSUME NEW t \in Threads, NEW l \in Locations, TokenOK(l),
           \A s \in Threads \ {t} : Stays(s), loc'[l] = loc[l],
           \/ token'[loc[l]] = token[loc[l]] /\ (Holds(t, l)' => Holds(t, l))
           \/ token[loc[l]] > 0 /\ token'[loc[l]] = token[loc[l]] - 1
           \/ Holds(t, l) /\ ~Holds(t, l)' /\ token'[loc[l]] = token[loc[l]] + 1
    PROVE  TokenOK(l)'
<1>o. \A s \in Threads \ {t} : Holds(s, l)' <=> Holds(s, l)
  BY OthersAt
<1>1. CASE token'[loc[l]] = token[loc[l]] /\ (Holds(t, l)' => Holds(t, l))
  BY <1>o, <1>1 DEF TokenOK
<1>2. CASE token[loc[l]] > 0 /\ token'[loc[l]] = token[loc[l]] - 1
  <2>1. token[loc[l]] = 1 /\ token'[loc[l]] = 0
    BY <1>2 DEF TokenOK
  <2>2. \A s \in Threads \ {t} : ~Holds(s, l)'
    BY <1>o, <2>1 DEF TokenOK
  <2> QED BY <2>1, <2>2 DEF TokenOK
<1>3. CASE Holds(t, l) /\ ~Holds(t, l)' /\ token'[loc[l]] = token[loc[l]] + 1
  <2>1. token[loc[l]] = 0 /\ token'[loc[l]] = 1
    BY <1>3 DEF TokenOK
  <2>2. \A s \in Threads : ~Holds(s, l)'
    BY <1>o, <1>3 DEF TokenOK
  <2> QED BY <2>1, <2>2 DEF TokenOK
<1> QED BY <1>1, <1>2, <1>3

\* The users: as before, one more, or one less of several.
LEMMA CountStep ==
    ASSUME NEW t \in Threads, NEW l \in Locations, CountOK(l),
           \A s \in Threads \ {t} : Stays(s), loc'[l] = loc[l],
           \/ users'[loc[l]] = users[loc[l]] /\ (InUse(t, l)' <=> InUse(t, l))
           \/ ~InUse(t, l) /\ InUse(t, l)' /\ users'[loc[l]] = Inc(users[loc[l]])
           \/ /\ InUse(t, l) /\ ~InUse(t, l)' /\ users[loc[l]] > 1
              /\ users'[loc[l]] = Dec(users[loc[l]])
    PROVE  CountOK(l)'
<1>o. \A s \in Threads \ {t} : InUse(s, l)' <=> InUse(s, l)
  BY OthersAt
<1>1. CASE users'[loc[l]] = users[loc[l]] /\ (InUse(t, l)' <=> InUse(t, l))
  <2>1. UsersAt(l)' = UsersAt(l)
    BY <1>o, <1>1 DEF UsersAt
  <2> QED BY <1>1, <2>1 DEF CountOK
<1>2. CASE ~InUse(t, l) /\ InUse(t, l)' /\ users'[loc[l]] = Inc(users[loc[l]])
  <2>1. UsersAt(l)' = UsersAt(l) \cup {t} /\ t \notin UsersAt(l) /\ UsersAt(l) \in SUBSET Threads
    BY <1>o, <1>2 DEF UsersAt
  <2> QED BY <1>2, <2>1, OneMoreUser DEF CountOK
<1>3. CASE /\ InUse(t, l) /\ ~InUse(t, l)' /\ users[loc[l]] > 1
           /\ users'[loc[l]] = Dec(users[loc[l]])
  <2>1. UsersAt(l)' = UsersAt(l) \ {t} /\ t \in UsersAt(l) /\ UsersAt(l) \in SUBSET Threads
    BY <1>o, <1>3 DEF UsersAt
  <2> QED BY <1>3, <2>1, OneLessUser DEF CountOK
<1> QED BY <1>1, <1>2, <1>3

\* The owner: as before, the thread t that is inside n deep while nobody else
\* is, or nobody once t has left.
LEMMA OwnerStep ==
    ASSUME NEW t \in Threads, NEW l \in Locations, OwnerOK(l), TypeOK,
           \A s \in Threads \ {t} : Stays(s), loc'[l] = loc[l],
           \/ /\ owner'[loc[l]] = owner[loc[l]] /\ enterCount'[loc[l]] = enterCount[loc[l]]
              /\ depth'[l][t] = depth[l][t]
           \/ /\ \A s \in Threads \ {t} : ~(depth[l][s] > 0)
              /\ owner'[loc[l]] = t /\ depth'[l][t] > 0 /\ enterCount'[loc[l]] = depth'[l][t]
           \/ owner[loc[l]] = t /\ owner'[loc[l]] = NoThread /\ depth'[l][t] = 0
    PROVE  OwnerOK(l)'
<1>o. \A s \in Threads \ {t} : depth'[l][s] = depth[l][s]
  BY OthersAt
<1>1. CASE /\ owner'[loc[l]] = owner[loc[l]] /\ enterCount'[loc[l]] = enterCount[loc[l]]
           /\ depth'[l][t] = depth[l][t]
  BY <1>o, <1>1 DEF OwnerOK
<1>2. CASE /\ \A s \in Threads \ {t} : ~(depth[l][s] > 0)
           /\ owner'[loc[l]] = t /\ depth'[l][t] > 0 /\ enterCount'[loc[l]] = depth'[l][t]
  BY <1>o, <1>2 DEF OwnerOK
<1>3. CASE owner[loc[l]] = t /\ owner'[loc[l]] = NoThread /\ depth'[l][t] = 0
  BY <1>o, <1>3, SetsAssumption DEF OwnerOK
<1> QED BY <1>1, <1>2, <1>3

\* The owner enters again, or exits a nested level.
LEMMA AgainStep ==
    ASSUME MonitorInv, NEW t \in Threads, NEW l \in Locations, EnterAgain(t, l) \/ ExitNested(t, l)
    PROVE  MonitorInv'
<1>i. TypeOK /\ ThreadOK(t) /\ LocationOK(l) /\ loc[l] # NoMonitor /\ loc[l] \in Monitors
  BY DEF MonitorInv, TypeOK, EnterAgain, ExitNested, Owns
<1>d. OwnerOK(l) /\ TokenOK(l) /\ CountOK(l)
  BY <1>i DEF LocationOK
<1>1. /\ pc[t] = "idle" /\ owner[loc[l]] = t
      /\ UNCHANGED <<loc, owner, users, token, poolLock, pc, usedList, freeList, localFree, batch,
                     at, mon, ms, saved>>
  BY DEF EnterAgain, ExitNested, Owns, lists, locals
<1>2. depth[l][t] \in Nat /\ depth[l][t] > 0 /\ enterCount[loc[l]] = depth[l][t]
  BY <1>i, <1>d, <1>1 DEF TypeOK, OwnerOK
<1>3. PICK n \in Nat : /\ n > 0
                       /\ enterCount' = [enterCount EXCEPT ![loc[l]] = n]
                       /\ depth' = [depth EXCEPT ![l][t] = n]
  <2>1. CASE EnterAgain(t, l)
    <3>1. /\ depth[l][t] + 1 \in Nat /\ depth[l][t] + 1 > 0
          /\ enterCount' = [enterCount EXCEPT ![loc[l]] = depth[l][t] + 1]
          /\ depth' = [depth EXCEPT ![l][t] = depth[l][t] + 1]
      BY <1>2, <2>1 DEF EnterAgain, Entered
    <3> QED BY <3>1
  <2>2. CASE ExitNested(t, l)
    <3>1. /\ depth[l][t] - 1 \in Nat /\ depth[l][t] - 1 > 0
          /\ enterCount' = [enterCount EXCEPT ![loc[l]] = depth[l][t] - 1]
          /\ depth' = [depth EXCEPT ![l][t] = depth[l][t] - 1]
      BY <1>2, <2>2 DEF ExitNested, Entered
    <3> QED BY <3>1
  <2> QED BY <2>1, <2>2
<1>4. /\ depth'[l][t] = n /\ enterCount'[loc[l]] = n
      /\ \A k \in Locations, s \in Threads : k # l \/ s # t => depth'[k][s] = depth[k][s]
      /\ \A m \in Monitors : m # loc[l] => enterCount'[m] = enterCount[m]
  BY <1>i, <1>3 DEF TypeOK
<1>5. TypeOK'
  <2>1. enterCount' \in [Monitors -> Nat] /\ depth' \in [Locations -> [Threads -> Nat]]
    BY <1>i, <1>3 DEF TypeOK
  <2> QED BY <1>i, <1>1, <2>1 DEF TypeOK
<1>6. \A s \in Threads \ {t} : Stays(s)
  BY <1>1, <1>4 DEF Stays
<1>7. ThreadOK(t)'
  BY <1>i, <1>1, SetsAssumption DEF ThreadOK, Locked, Waiting, Using, Calling
<1>8. OnlyAt(t, l)
  BY <1>i, <1>1, <1>4, <1>6 DEF OnlyAt, ThreadOK
<1>9. \A s \in Threads \ {t} : ~(depth[l][s] > 0)
  BY <1>d, <1>1 DEF OwnerOK
<1>10. OwnerOK(l)'
  BY <1>i, <1>d, <1>1, <1>3, <1>4, <1>6, <1>9, OwnerStep
<1>11. /\ InUse(t, l) /\ InUse(t, l)' /\ Holds(t, l)
  BY <1>2, <1>3, <1>4 DEF InUse, Holds
<1>12. TokenOK(l)' /\ CountOK(l)'
  BY <1>d, <1>1, <1>6, <1>11, TokenStep, CountStep
<1> QED BY <1>i, <1>5, <1>7, <1>8, <1>10, <1>12, AttachedStep

\* A thread that is going to wait counts itself in and leaves the pool lock.
LEMMA WaitStep ==
    ASSUME MonitorInv, NEW t \in Threads, EnterWait(t)
    PROVE  MonitorInv'
<1>i. TypeOK /\ ThreadOK(t) /\ pc[t] = "enterWait"
  BY DEF MonitorInv, EnterWait
<1>l. PICK l \in Locations : /\ l = at[t] /\ loc[l] = mon[t] /\ loc[l] # NoMonitor
                             /\ loc[l] \in Monitors /\ depth[l][t] = 0
  BY <1>i DEF ThreadOK, Using, TypeOK
<1>d. OwnerOK(l) /\ TokenOK(l) /\ CountOK(l)
  BY <1>l DEF LocationOK, MonitorInv
<1>1. /\ UNCHANGED <<loc, owner, enterCount, token, depth, usedList, freeList, localFree, batch,
                     at, mon, ms, saved>>
      /\ pc' = [pc EXCEPT ![t] = "blocked"] /\ poolLock' = NoThread
      /\ users' = [users EXCEPT ![loc[l]] = Inc(users[loc[l]])]
  BY <1>l DEF EnterWait, Go, lists, locals
<1>2. /\ pc'[t] = "blocked" /\ poolLock = t
      /\ \A s \in Threads \ {t} : pc'[s] = pc[s]
      /\ users'[loc[l]] = Inc(users[loc[l]])
      /\ \A m \in Monitors : m # loc[l] => users'[m] = users[m]
  BY <1>i, <1>l, <1>1 DEF TypeOK, ThreadOK, Locked
<1>3. TypeOK'
  <2>1. users' \in [Monitors -> 0 .. (UserLimit - 1)]
    <3>1. users[loc[l]] \in Int /\ users[loc[l]] + 1 \in Int
      BY <1>i, <1>l, BoundsAssumption DEF TypeOK
    <3>2. Inc(users[loc[l]]) \in 0 .. (UserLimit - 1)
      BY <3>1, ModuloType DEF Inc
    <3> QED BY <1>i, <1>1, <3>2 DEF TypeOK
  <2> QED BY <1>i, <1>1, <2>1 DEF TypeOK, Control
<1>4. \A s \in Threads \ {t} : Stays(s)
  BY <1>1, <1>2, SetsAssumption DEF Stays
<1>5. ThreadOK(t)'
  BY <1>i, <1>l, <1>1, <1>2, SetsAssumption DEF ThreadOK, Locked, Waiting, Using, Calling
<1>6. OnlyAt(t, l)
  BY <1>l, <1>1, <1>2, <1>4 DEF OnlyAt
<1>7. ~InUse(t, l) /\ InUse(t, l)' /\ ~Holds(t, l)'
  BY <1>i, <1>l, <1>1, <1>2 DEF InUse, Holds, Calling
<1>8. OwnerOK(l)' /\ TokenOK(l)' /\ CountOK(l)'
  BY <1>i, <1>d, <1>1, <1>2, <1>4, <1>7, OwnerStep, TokenStep, CountStep
<1> QED BY <1>l, <1>3, <1>5, <1>6, <1>8, AttachedStep

\* The caller's location and the monitor that is attached to it.
LEMMA HereIsMonitor ==
    ASSUME MonitorInv, NEW t \in Threads, pc[t] \in Using \ {"reload"}
    PROVE  \E l \in Locations : /\ l = at[t] /\ loc[l] = mon[t] /\ loc[l] # NoMonitor
                                /\ loc[l] \in Monitors /\ depth[l][t] = 0
                                /\ OwnerOK(l) /\ TokenOK(l) /\ CountOK(l)
<1>i. TypeOK /\ ThreadOK(t)
  BY DEF MonitorInv
<1>1. /\ at[t] \in Locations /\ loc[at[t]] = mon[t] /\ loc[at[t]] # NoMonitor
      /\ loc[at[t]] \in Monitors /\ depth[at[t]][t] = 0
  BY <1>i DEF ThreadOK, Using, Calling, TypeOK
<1>2. OwnerOK(at[t]) /\ TokenOK(at[t]) /\ CountOK(at[t])
  BY <1>1 DEF LocationOK, MonitorInv
<1> QED BY <1>1, <1>2

\* A thread takes the token without waiting.
LEMMA TryStep ==
    ASSUME MonitorInv, NEW t \in Threads, EnterTry(t)
    PROVE  MonitorInv'
<1>i. TypeOK /\ ThreadOK(t) /\ pc[t] = "try"
  BY DEF MonitorInv, EnterTry
<1>l. PICK l \in Locations : /\ l = at[t] /\ loc[l] = mon[t] /\ loc[l] # NoMonitor
                             /\ loc[l] \in Monitors /\ depth[l][t] = 0
                             /\ OwnerOK(l) /\ TokenOK(l) /\ CountOK(l)
  BY <1>i, HereIsMonitor DEF Using
<1>1. /\ UNCHANGED <<loc, usedList, freeList, localFree, batch>> /\ token[loc[l]] > 0
      /\ token' = [token EXCEPT ![loc[l]] = token[loc[l]] - 1]
      /\ users' = [users EXCEPT ![loc[l]] = Inc(users[loc[l]])]
      /\ owner' = [owner EXCEPT ![loc[l]] = t]
      /\ enterCount' = [enterCount EXCEPT ![loc[l]] = 1]
      /\ depth' = [depth EXCEPT ![l][t] = 1]
      /\ poolLock' = NoThread /\ Return(t)
  BY <1>l DEF EnterTry, TryOwn, Entered, lists
<1>2. /\ pc'[t] = "idle" /\ at'[t] = NoLocation /\ poolLock = t
      /\ \A s \in Threads \ {t} : /\ pc'[s] = pc[s] /\ at'[s] = at[s] /\ mon'[s] = mon[s]
                                  /\ saved'[s] = saved[s]
  BY <1>i, <1>1 DEF TypeOK, ThreadOK, Locked, Return, Go
<1>3. /\ token'[loc[l]] = token[loc[l]] - 1 /\ users'[loc[l]] = Inc(users[loc[l]])
      /\ owner'[loc[l]] = t /\ enterCount'[loc[l]] = 1 /\ depth'[l][t] = 1
      /\ \A k \in Locations, s \in Threads : k # l \/ s # t => depth'[k][s] = depth[k][s]
      /\ \A m \in Monitors : m # loc[l] =>
            /\ owner'[m] = owner[m] /\ enterCount'[m] = enterCount[m]
            /\ users'[m] = users[m] /\ token'[m] = token[m]
  BY <1>i, <1>l, <1>1 DEF TypeOK
<1>4. TypeOK'
  <2>1. users' \in [Monitors -> 0 .. (UserLimit - 1)]
    <3>1. users[loc[l]] \in Int /\ users[loc[l]] + 1 \in Int
      BY <1>i, <1>l, BoundsAssumption DEF TypeOK
    <3>2. Inc(users[loc[l]]) \in 0 .. (UserLimit - 1)
      BY <3>1, ModuloType DEF Inc
    <3> QED BY <1>i, <1>1, <3>2 DEF TypeOK
  <2>2. token' \in [Monitors -> Nat] /\ enterCount' \in [Monitors -> Nat]
    BY <1>i, <1>l, <1>1 DEF TypeOK
  <2>3. depth' \in [Locations -> [Threads -> Nat]] /\ owner' \in [Monitors -> Threads \cup {NoThread}]
    BY <1>i, <1>l, <1>1 DEF TypeOK
  <2>4. /\ pc' \in [Threads -> Control] /\ at' \in [Threads -> Locations \cup {NoLocation}]
        /\ mon' \in [Threads -> Monitors \cup {NoMonitor}] /\ ms' \in [Threads -> Timeouts]
        /\ saved' \in [Threads -> Nat]
    BY <1>i, <1>1 DEF TypeOK, Return, Go, Control, Timeouts
  <2> QED BY <1>i, <1>1, <2>1, <2>2, <2>3, <2>4 DEF TypeOK
<1>5. \A s \in Threads \ {t} : Stays(s)
  BY <1>1, <1>2, <1>3, SetsAssumption DEF Stays
<1>6. ThreadOK(t)'
  BY <1>i, <1>1, <1>2, SetsAssumption DEF ThreadOK, Locked, Waiting, Using, Calling
<1>7. OnlyAt(t, l)
  BY <1>l, <1>1, <1>2, <1>3, <1>5 DEF OnlyAt
<1>8. ~InUse(t, l) /\ InUse(t, l)'
  BY <1>i, <1>l, <1>3 DEF InUse, Calling
<1>9. \A s \in Threads \ {t} : ~(depth[l][s] > 0)
  BY <1>l, <1>1 DEF TokenOK, Holds
<1>10. OwnerOK(l)'
  BY <1>i, <1>l, <1>1, <1>3, <1>5, <1>9, OwnerStep
<1>11. TokenOK(l)' /\ CountOK(l)'
  BY <1>l, <1>1, <1>3, <1>5, <1>8, TokenStep, CountStep
<1> QED BY <1>l, <1>4, <1>6, <1>7, <1>10, <1>11, AttachedStep

\* The token is taken by a thread that waited for it.
LEMMA TakeStep ==
    ASSUME MonitorInv, NEW t \in Threads, EnterAcquire(t) \/ WaitReenter(t)
    PROVE  MonitorInv'
<1>i. TypeOK /\ ThreadOK(t) /\ pc[t] \in {"blocked", "reenter"}
  BY DEF MonitorInv, EnterAcquire, WaitReenter
<1>l. PICK l \in Locations : /\ l = at[t] /\ loc[l] = mon[t] /\ loc[l] # NoMonitor
                             /\ loc[l] \in Monitors /\ depth[l][t] = 0
                             /\ OwnerOK(l) /\ TokenOK(l) /\ CountOK(l)
  BY <1>i, HereIsMonitor DEF Using, Calling
<1>1. PICK c \in {"acquired", "restore"} :
      /\ UNCHANGED <<loc, owner, enterCount, users, poolLock, depth, usedList, freeList, localFree,
                     batch, at, mon, ms, saved>>
      /\ token[loc[l]] > 0 /\ token' = [token EXCEPT ![loc[l]] = token[loc[l]] - 1]
      /\ pc' = [pc EXCEPT ![t] = c] /\ (c = "restore" <=> pc[t] = "reenter")
  BY <1>l DEF EnterAcquire, WaitReenter, Go, lists, locals
<1>2. /\ pc'[t] = c /\ \A s \in Threads \ {t} : pc'[s] = pc[s]
      /\ token'[loc[l]] = token[loc[l]] - 1
      /\ \A m \in Monitors : m # loc[l] => token'[m] = token[m]
  BY <1>i, <1>l, <1>1 DEF TypeOK
<1>3. TypeOK'
  <2>1. token' \in [Monitors -> Nat]
    BY <1>i, <1>l, <1>1 DEF TypeOK
  <2>2. pc' \in [Threads -> Control]
    BY <1>i, <1>1 DEF TypeOK, Control
  <2> QED BY <1>i, <1>1, <2>1, <2>2 DEF TypeOK
<1>4. \A s \in Threads \ {t} : Stays(s)
  BY <1>1, <1>2 DEF Stays
<1>5. ThreadOK(t)'
  BY <1>i, <1>l, <1>1, <1>2 DEF ThreadOK, Locked, Waiting, Using, Calling
<1>6. OnlyAt(t, l)
  BY <1>l, <1>1, <1>2, <1>4 DEF OnlyAt
<1>7. InUse(t, l) /\ InUse(t, l)'
  BY <1>i, <1>l, <1>1, <1>2 DEF InUse, Calling
<1>8. OwnerOK(l)' /\ TokenOK(l)' /\ CountOK(l)'
  BY <1>i, <1>l, <1>1, <1>2, <1>4, <1>7, OwnerStep, TokenStep, CountStep
<1> QED BY <1>l, <1>3, <1>5, <1>6, <1>8, AttachedStep

\* It becomes the owner, with the count it had before it waited.
LEMMA OwnStep ==
    ASSUME MonitorInv, NEW t \in Threads, EnterOwn(t) \/ WaitRestore(t)
    PROVE  MonitorInv'
<1>i. TypeOK /\ ThreadOK(t) /\ pc[t] \in {"acquired", "restore"}
  BY DEF MonitorInv, EnterOwn, WaitRestore
<1>l. PICK l \in Locations : /\ l = at[t] /\ loc[l] = mon[t] /\ loc[l] # NoMonitor
                             /\ loc[l] \in Monitors /\ depth[l][t] = 0
                             /\ OwnerOK(l) /\ TokenOK(l) /\ CountOK(l)
  BY <1>i, HereIsMonitor DEF Using, Calling
<1>1. PICK n \in Nat :
      /\ n > 0 /\ UNCHANGED <<loc, users, token, poolLock, usedList, freeList, localFree, batch>>
      /\ owner' = [owner EXCEPT ![loc[l]] = t]
      /\ enterCount' = [enterCount EXCEPT ![loc[l]] = n]
      /\ depth' = [depth EXCEPT ![l][t] = n]
      /\ Return(t)
  <2>1. CASE EnterOwn(t)
    <3>1. /\ 1 \in Nat /\ 1 > 0
          /\ UNCHANGED <<loc, users, token, poolLock, usedList, freeList, localFree, batch>>
          /\ owner' = [owner EXCEPT ![loc[l]] = t]
          /\ enterCount' = [enterCount EXCEPT ![loc[l]] = 1]
          /\ depth' = [depth EXCEPT ![l][t] = 1]
          /\ Return(t)
      BY <1>l, <2>1 DEF EnterOwn, Entered, lists
    <3> QED BY <3>1
  <2>2. CASE WaitRestore(t)
    <3>1. saved[t] \in Nat /\ saved[t] > 0
      BY <1>i, <2>2 DEF TypeOK, ThreadOK, Waiting, WaitRestore
    <3> QED BY <1>l, <2>2, <3>1 DEF WaitRestore, Entered, lists
  <2> QED BY <2>1, <2>2
<1>2. /\ pc'[t] = "idle" /\ at'[t] = NoLocation /\ poolLock # t
      /\ \A s \in Threads \ {t} : /\ pc'[s] = pc[s] /\ at'[s] = at[s] /\ mon'[s] = mon[s]
                                  /\ saved'[s] = saved[s]
  BY <1>i, <1>1 DEF TypeOK, ThreadOK, Locked, Return, Go
<1>3. /\ owner'[loc[l]] = t /\ enterCount'[loc[l]] = n /\ depth'[l][t] = n
      /\ \A k \in Locations, s \in Threads : k # l \/ s # t => depth'[k][s] = depth[k][s]
      /\ \A m \in Monitors : m # loc[l] => owner'[m] = owner[m] /\ enterCount'[m] = enterCount[m]
  BY <1>i, <1>l, <1>1 DEF TypeOK
<1>4. TypeOK'
  <2>1. enterCount' \in [Monitors -> Nat]
    BY <1>i, <1>l, <1>1 DEF TypeOK
  <2>2. depth' \in [Locations -> [Threads -> Nat]] /\ owner' \in [Monitors -> Threads \cup {NoThread}]
    BY <1>i, <1>l, <1>1 DEF TypeOK
  <2>3. /\ pc' \in [Threads -> Control] /\ at' \in [Threads -> Locations \cup {NoLocation}]
        /\ mon' \in [Threads -> Monitors \cup {NoMonitor}] /\ ms' \in [Threads -> Timeouts]
        /\ saved' \in [Threads -> Nat]
    BY <1>i, <1>1 DEF TypeOK, Return, Go, Control, Timeouts
  <2> QED BY <1>i, <1>1, <2>1, <2>2, <2>3 DEF TypeOK
<1>5. \A s \in Threads \ {t} : Stays(s)
  BY <1>1, <1>2, <1>3, SetsAssumption DEF Stays
<1>6. ThreadOK(t)'
  BY <1>i, <1>1, <1>2, SetsAssumption DEF ThreadOK, Locked, Waiting, Using, Calling
<1>7. OnlyAt(t, l)
  BY <1>l, <1>1, <1>2, <1>3, <1>5 DEF OnlyAt
<1>8. InUse(t, l) /\ InUse(t, l)' /\ Holds(t, l)
  BY <1>i, <1>l, <1>1, <1>3 DEF InUse, Holds, Calling
<1>9. \A s \in Threads \ {t} : ~(depth[l][s] > 0)
  BY <1>l, <1>8 DEF TokenOK, Holds
<1>10. OwnerOK(l)'
  BY <1>i, <1>l, <1>1, <1>3, <1>5, <1>9, OwnerStep
<1>11. TokenOK(l)' /\ CountOK(l)'
  BY <1>l, <1>1, <1>5, <1>8, TokenStep, CountStep
<1> QED BY <1>l, <1>4, <1>6, <1>7, <1>10, <1>11, AttachedStep

\* Others use the monitor that t leaves.
LEMMA ReleaseStep ==
    ASSUME MonitorInv, NEW t \in Threads, NEW l \in Locations, ExitRelease(t, l)
    PROVE  MonitorInv'
<1>i. /\ TypeOK /\ ThreadOK(t) /\ pc[t] = "idle" /\ loc[l] # NoMonitor /\ loc[l] \in Monitors
      /\ owner[loc[l]] = t
  BY DEF MonitorInv, TypeOK, ExitRelease, Owns
<1>d. OwnerOK(l) /\ TokenOK(l) /\ CountOK(l)
  BY <1>i DEF LocationOK, MonitorInv
<1>1. /\ UNCHANGED <<loc, token, poolLock, usedList, freeList, localFree, batch, at, ms, saved>>
      /\ users[loc[l]] > 1 /\ users' = [users EXCEPT ![loc[l]] = Dec(users[loc[l]])]
      /\ owner' = [owner EXCEPT ![loc[l]] = NoThread]
      /\ enterCount' = [enterCount EXCEPT ![loc[l]] = 0]
      /\ depth' = [depth EXCEPT ![l][t] = 0]
      /\ mon' = [mon EXCEPT ![t] = loc[l]] /\ pc' = [pc EXCEPT ![t] = "post"]
  BY DEF ExitRelease, Entered, Go, lists
<1>2. /\ pc'[t] = "post" /\ mon'[t] = loc[l] /\ at[t] = NoLocation /\ poolLock # t
      /\ \A s \in Threads \ {t} : pc'[s] = pc[s] /\ mon'[s] = mon[s]
  BY <1>i, <1>1 DEF TypeOK, ThreadOK, Locked
<1>3. /\ users'[loc[l]] = Dec(users[loc[l]]) /\ owner'[loc[l]] = NoThread /\ depth'[l][t] = 0
      /\ \A k \in Locations, s \in Threads : k # l \/ s # t => depth'[k][s] = depth[k][s]
      /\ \A m \in Monitors : m # loc[l] => /\ owner'[m] = owner[m] /\ enterCount'[m] = enterCount[m]
                                           /\ users'[m] = users[m]
  BY <1>i, <1>1 DEF TypeOK
<1>4. TypeOK'
  <2>1. users' \in [Monitors -> 0 .. (UserLimit - 1)]
    <3>1. users[loc[l]] \in Int /\ users[loc[l]] - 1 \in Int
      BY <1>i, BoundsAssumption DEF TypeOK
    <3>2. Dec(users[loc[l]]) \in 0 .. (UserLimit - 1)
      BY <3>1, ModuloType DEF Dec
    <3> QED BY <1>i, <1>1, <3>2 DEF TypeOK
  <2>2. enterCount' \in [Monitors -> Nat] /\ owner' \in [Monitors -> Threads \cup {NoThread}]
    BY <1>i, <1>1 DEF TypeOK
  <2>3. /\ depth' \in [Locations -> [Threads -> Nat]] /\ pc' \in [Threads -> Control]
        /\ mon' \in [Threads -> Monitors \cup {NoMonitor}]
    BY <1>i, <1>1 DEF TypeOK, Control
  <2> QED BY <1>i, <1>1, <2>1, <2>2, <2>3 DEF TypeOK
<1>5. \A s \in Threads \ {t} : Stays(s)
  BY <1>1, <1>2, <1>3 DEF Stays
<1>6. ThreadOK(t)'
  <2>1. \E k \in Locations : loc'[k] = mon'[t] /\ loc'[k] # NoMonitor /\ depth'[k][t] = 0
    BY <1>i, <1>1, <1>2, <1>3
  <2> QED BY <1>i, <1>1, <1>2, <2>1, SetsAssumption DEF ThreadOK, Locked, Waiting, Using, Calling
<1>7. OnlyAt(t, l)
  BY <1>1, <1>2, <1>3, <1>5 DEF OnlyAt
<1>8. depth[l][t] > 0
  BY <1>i, <1>d DEF OwnerOK
<1>9. InUse(t, l) /\ ~InUse(t, l)' /\ Holds(t, l)
  BY <1>2, <1>3, <1>8 DEF InUse, Holds, Calling
<1>10. OwnerOK(l)'
  BY <1>i, <1>d, <1>1, <1>3, <1>5, OwnerStep
<1>11. TokenOK(l)' /\ CountOK(l)'
  BY <1>d, <1>1, <1>3, <1>5, <1>9, TokenStep, CountStep
<1> QED BY <1>i, <1>4, <1>6, <1>7, <1>10, <1>11, AttachedStep

\* The token is posted, by Exit or by Wait.
LEMMA PostStep ==
    ASSUME MonitorInv, NEW t \in Threads, ExitPost(t) \/ WaitPost(t)
    PROVE  MonitorInv'
<1>i. TypeOK /\ ThreadOK(t) /\ pc[t] \in {"post", "waitPost"}
  BY DEF MonitorInv, ExitPost, WaitPost
<1>l. PICK l \in Locations : /\ loc[l] = mon[t] /\ loc[l] # NoMonitor /\ loc[l] \in Monitors
                             /\ pc[t] = "post" => at[t] = NoLocation
                             /\ pc[t] = "waitPost" => at[t] = l
                             /\ depth[l][t] = 0
  BY <1>i DEF ThreadOK, Using, Calling, TypeOK
<1>d. OwnerOK(l) /\ TokenOK(l) /\ CountOK(l)
  BY <1>l DEF LocationOK, MonitorInv
<1>1. /\ UNCHANGED <<loc, owner, enterCount, users, poolLock, depth, usedList, freeList, localFree,
                     batch>>
      /\ token' = [token EXCEPT ![loc[l]] = token[loc[l]] + 1]
      /\ \/ pc[t] = "post" /\ Return(t)
         \/ pc[t] = "waitPost" /\ pc' = [pc EXCEPT ![t] = "waiting"] /\ UNCHANGED <<at, mon, ms, saved>>
  BY <1>l DEF ExitPost, WaitPost, Post, Go, lists, locals
<1>2. /\ \A s \in Threads \ {t} : /\ pc'[s] = pc[s] /\ at'[s] = at[s] /\ mon'[s] = mon[s]
                                  /\ saved'[s] = saved[s]
      /\ \/ pc[t] = "post" /\ pc'[t] = "idle" /\ at'[t] = NoLocation
         \/ pc[t] = "waitPost" /\ pc'[t] = "waiting" /\ UNCHANGED <<at, mon, saved>>
      /\ token'[loc[l]] = token[loc[l]] + 1
      /\ \A m \in Monitors : m # loc[l] => token'[m] = token[m]
  BY <1>i, <1>l, <1>1 DEF TypeOK, Return, Go
<1>3. TypeOK'
  <2>1. token' \in [Monitors -> Nat]
    BY <1>i, <1>l, <1>1 DEF TypeOK
  <2>2. /\ pc' \in [Threads -> Control] /\ at' \in [Threads -> Locations \cup {NoLocation}]
        /\ mon' \in [Threads -> Monitors \cup {NoMonitor}] /\ ms' \in [Threads -> Timeouts]
        /\ saved' \in [Threads -> Nat]
    <3>1. CASE pc[t] = "post"
      <4>1. Return(t)
        BY <1>1, <3>1
      <4> QED BY <1>i, <4>1 DEF TypeOK, Return, Go, Control, Timeouts
    <3>2. CASE pc[t] = "waitPost"
      <4>1. pc' = [pc EXCEPT ![t] = "waiting"] /\ UNCHANGED <<at, mon, ms, saved>>
        BY <1>1, <3>2
      <4> QED BY <1>i, <4>1 DEF TypeOK, Control
    <3> QED BY <1>i, <3>1, <3>2
  <2> QED BY <1>i, <1>1, <2>1, <2>2 DEF TypeOK
<1>4. \A s \in Threads \ {t} : Stays(s)
  BY <1>1, <1>2 DEF Stays
<1>5. ThreadOK(t)'
  BY <1>i, <1>l, <1>1, <1>2, SetsAssumption DEF ThreadOK, Locked, Waiting, Using, Calling
<1>6. OnlyAt(t, l)
  BY <1>i, <1>l, <1>1, <1>2, <1>4 DEF OnlyAt
<1>7. Holds(t, l) /\ ~Holds(t, l)'
  BY <1>i, <1>l, <1>1, <1>2 DEF Holds
<1>8. InUse(t, l)' <=> InUse(t, l)
  BY <1>l, <1>1, <1>2 DEF InUse, Calling
<1>9. OwnerOK(l)' /\ TokenOK(l)' /\ CountOK(l)'
  BY <1>i, <1>d, <1>1, <1>2, <1>4, <1>7, <1>8, OwnerStep, TokenStep, CountStep
<1> QED BY <1>l, <1>3, <1>5, <1>6, <1>9, AttachedStep

\* ILMonitorTimedWait saves the recursion and gives the ownership up.
LEMMA WaitBeginStep ==
    ASSUME MonitorInv, NEW t \in Threads, NEW l \in Locations, WaitBegin(t, l)
    PROVE  MonitorInv'
<1>i. /\ TypeOK /\ ThreadOK(t) /\ pc[t] = "idle" /\ loc[l] # NoMonitor /\ loc[l] \in Monitors
      /\ owner[loc[l]] = t
  BY DEF MonitorInv, TypeOK, WaitBegin, Owns
<1>d. OwnerOK(l) /\ TokenOK(l) /\ CountOK(l)
  BY <1>i DEF LocationOK, MonitorInv
<1>1. /\ UNCHANGED <<loc, users, token, ms, poolLock, usedList, freeList, localFree, batch>>
      /\ owner' = [owner EXCEPT ![loc[l]] = NoThread]
      /\ enterCount' = [enterCount EXCEPT ![loc[l]] = 0]
      /\ depth' = [depth EXCEPT ![l][t] = 0]
      /\ at' = [at EXCEPT ![t] = l] /\ mon' = [mon EXCEPT ![t] = loc[l]]
      /\ saved' = [saved EXCEPT ![t] = enterCount[loc[l]]] /\ pc' = [pc EXCEPT ![t] = "waitPost"]
  BY DEF WaitBegin, Entered, Go, lists
<1>2. /\ pc'[t] = "waitPost" /\ mon'[t] = loc[l] /\ at[t] = NoLocation /\ at'[t] = l
      /\ saved'[t] = enterCount[loc[l]] /\ poolLock # t
      /\ \A s \in Threads \ {t} : /\ pc'[s] = pc[s] /\ at'[s] = at[s] /\ mon'[s] = mon[s]
                                  /\ saved'[s] = saved[s]
  BY <1>i, <1>1 DEF TypeOK, ThreadOK, Locked
<1>3. /\ owner'[loc[l]] = NoThread /\ depth'[l][t] = 0
      /\ \A k \in Locations, s \in Threads : k # l \/ s # t => depth'[k][s] = depth[k][s]
      /\ \A m \in Monitors : m # loc[l] => owner'[m] = owner[m] /\ enterCount'[m] = enterCount[m]
  BY <1>i, <1>1 DEF TypeOK
<1>4. TypeOK'
  <2>1. enterCount' \in [Monitors -> Nat] /\ owner' \in [Monitors -> Threads \cup {NoThread}]
    BY <1>i, <1>1 DEF TypeOK
  <2>2. /\ depth' \in [Locations -> [Threads -> Nat]] /\ pc' \in [Threads -> Control]
    BY <1>i, <1>1 DEF TypeOK, Control
  <2>3. /\ at' \in [Threads -> Locations \cup {NoLocation}]
        /\ mon' \in [Threads -> Monitors \cup {NoMonitor}] /\ saved' \in [Threads -> Nat]
    BY <1>i, <1>1 DEF TypeOK
  <2> QED BY <1>i, <1>1, <2>1, <2>2, <2>3 DEF TypeOK
<1>5. \A s \in Threads \ {t} : Stays(s)
  BY <1>1, <1>2, <1>3 DEF Stays
<1>6. depth[l][t] > 0 /\ enterCount[loc[l]] > 0
  BY <1>i, <1>d DEF OwnerOK
<1>7. ThreadOK(t)'
  BY <1>i, <1>1, <1>2, <1>3, <1>6 DEF ThreadOK, Locked, Waiting, Using, Calling
<1>8. OnlyAt(t, l)
  BY <1>1, <1>2, <1>3, <1>5 DEF OnlyAt
<1>9. InUse(t, l) /\ InUse(t, l)' /\ Holds(t, l)
  BY <1>2, <1>3, <1>6 DEF InUse, Holds, Calling
<1>10. OwnerOK(l)'
  BY <1>i, <1>d, <1>1, <1>3, <1>5, OwnerStep
<1>11. TokenOK(l)' /\ CountOK(l)'
  BY <1>d, <1>1, <1>5, <1>9, TokenStep, CountStep
<1> QED BY <1>i, <1>4, <1>7, <1>8, <1>10, <1>11, AttachedStep

-----------------------------------------------------------------------------
(* Steps that attach a monitor to a location or take it away.              *)

\* An empty location: nobody is inside, nobody uses it.
LEMMA EmptyLocation ==
    ASSUME MonitorInv, NEW l \in Locations, loc[l] = NoMonitor
    PROVE  \A s \in Threads : /\ depth[l][s] = 0
                              /\ ~(pc[s] \in Using /\ at[s] = l)
  BY DEF MonitorInv, LocationOK, ThreadOK

\* A thread that has to post the token has it from an attached monitor.
LEMMA PostIsAttached ==
    ASSUME MonitorInv, NEW s \in Threads, pc[s] = "post"
    PROVE  \E l \in Locations : loc[l] = mon[s] /\ loc[l] # NoMonitor
  BY DEF MonitorInv, ThreadOK

\* t attaches m, which is attached nowhere, to the empty location l.
LEMMA AttachStep ==
    ASSUME MonitorInv, NEW t \in Threads, NEW l \in Locations, NEW m \in Monitors,
           at[t] = l, pc[t] \in {"cas", "attach"}, loc[l] = NoMonitor,
           \A k \in Locations : loc[k] # m,
           loc' = [loc EXCEPT ![l] = m],
           owner'[m] = t, enterCount'[m] = 1, users'[m] = 1, token'[m] = 0,
           \A n \in Monitors : n # m =>
              /\ owner'[n] = owner[n] /\ enterCount'[n] = enterCount[n]
              /\ users'[n] = users[n] /\ token'[n] = token[n],
           depth' = [depth EXCEPT ![l][t] = 1], Return(t), batch' = batch,
           poolLock' = IF pc[t] = "attach" THEN NoThread ELSE poolLock,
           TypeOK', HomeOK'
    PROVE  MonitorInv'
<1>i. TypeOK /\ ThreadOK(t)
  BY DEF MonitorInv
<1>1. /\ pc'[t] = "idle" /\ at'[t] = NoLocation /\ poolLock' # t /\ batch[t] = {}
      /\ \A s \in Threads \ {t} : /\ pc'[s] = pc[s] /\ at'[s] = at[s] /\ mon'[s] = mon[s]
                                  /\ saved'[s] = saved[s] /\ (poolLock' = s <=> poolLock = s)
  BY <1>i, SetsAssumption DEF TypeOK, ThreadOK, Locked, Return, Go
<1>2. /\ loc'[l] = m /\ depth'[l][t] = 1 /\ m # NoMonitor
      /\ \A k \in Locations : k # l => loc'[k] = loc[k]
      /\ \A k \in Locations, s \in Threads : k # l \/ s # t => depth'[k][s] = depth[k][s]
  BY <1>i, SetsAssumption DEF TypeOK
<1>3. \A s \in Threads \ {t} : Stays(s)
  BY <1>1, <1>2 DEF Stays
<1>4. \A k \in Locations : loc[k] # NoMonitor => loc[k] \in Monitors
  BY <1>i DEF TypeOK
<1>5. Touches(t, l)
  BY <1>1, <1>2, <1>3, <1>4 DEF Touches
<1>6. ThreadOK(t)'
  BY <1>1, SetsAssumption DEF ThreadOK, Locked, Waiting, Using, Calling
<1>7. \A s \in Threads \ {t} : ~(depth'[l][s] > 0) /\ ~(pc'[s] \in Using /\ at'[s] = l)
  BY <1>1, <1>2, EmptyLocation
<1>8. \A s \in Threads : pc'[s] = "post" => mon'[s] # m
  BY <1>1, PostIsAttached
<1>9. \A s \in Threads \ {t} : ~InUse(s, l)' /\ ~Holds(s, l)'
  BY <1>2, <1>7, <1>8 DEF InUse, Holds, Using, Calling
<1>10. InUse(t, l)'
  BY <1>2 DEF InUse
<1>11. OwnerOK(l)'
  BY <1>2, <1>7 DEF OwnerOK
<1>12. TokenOK(l)'
  BY <1>2, <1>9 DEF TokenOK
<1>13. CountOK(l)'
  <2>1. UsersAt(l)' = {t}
    BY <1>9, <1>10 DEF UsersAt
  <2>2. Cardinality({t}) = 1 /\ {t} # {}
    BY FS_Singleton
  <2>3. users'[loc'[l]] = 1
    BY <1>2
  <2> QED BY <2>1, <2>2, <2>3 DEF CountOK
<1>14. LocationOK(l)'
  BY <1>2, <1>11, <1>12, <1>13 DEF LocationOK
<1> QED BY <1>5, <1>6, <1>14, TouchStep

\* The monitor comes from the freelist of the thread.
LEMMA AttachLocalStep ==
    ASSUME MonitorInv, NEW t \in Threads, NEW m \in localFree[t],
           pc[t] \in {"cas", "attach"}, loc[at[t]] = NoMonitor, AttachLocal(t, m),
           poolLock' = IF pc[t] = "attach" THEN NoThread ELSE poolLock
    PROVE  MonitorInv'
<1>i. TypeOK /\ ThreadOK(t) /\ FreeOK /\ LocalOK /\ BatchOK /\ AttachedOK
  BY DEF MonitorInv, HomeOK
<1>l. PICK l \in Locations : l = at[t] /\ loc[l] = NoMonitor
  BY <1>i DEF ThreadOK
<1>m. /\ m \in Monitors /\ m # NoMonitor /\ m \in usedList /\ m \notin freeList
      /\ owner[m] = t /\ users[m] = 1 /\ token[m] = 0 /\ enterCount[m] = 1
  BY <1>i, SetsAssumption DEF TypeOK, LocalOK
<1>a. \A k \in Locations : loc[k] # m
  BY <1>i, <1>m DEF AttachedOK
<1>1. /\ UNCHANGED <<owner, enterCount, users, token, usedList, freeList, batch>>
      /\ loc' = [loc EXCEPT ![l] = m] /\ localFree' = [localFree EXCEPT ![t] = localFree[t] \ {m}]
      /\ depth' = [depth EXCEPT ![l][t] = 1] /\ Return(t)
  BY <1>l DEF AttachLocal, Entered
<1>2. TypeOK'
  <2>1. loc' \in [Locations -> Monitors \cup {NoMonitor}] /\ localFree' \in [Threads -> SUBSET Monitors]
    BY <1>i, <1>m, <1>1 DEF TypeOK
  <2>2. depth' \in [Locations -> [Threads -> Nat]]
    BY <1>i, <1>1 DEF TypeOK
  <2>3. /\ pc' \in [Threads -> Control] /\ at' \in [Threads -> Locations \cup {NoLocation}]
        /\ mon' \in [Threads -> Monitors \cup {NoMonitor}] /\ ms' \in [Threads -> Timeouts]
        /\ saved' \in [Threads -> Nat]
    BY <1>i, <1>1 DEF TypeOK, Return, Go, Control, Timeouts
  <2>4. poolLock' \in Threads \cup {NoThread}
    BY <1>i DEF TypeOK
  <2> QED BY <1>i, <1>1, <2>1, <2>2, <2>3, <2>4 DEF TypeOK
<1>3. HomeOK'
  <2>1. /\ loc'[l] = m /\ \A k \in Locations : k # l => loc'[k] = loc[k]
        /\ localFree'[t] = localFree[t] \ {m}
        /\ \A s \in Threads : s # t => localFree'[s] = localFree[s]
    BY <1>i, <1>1 DEF TypeOK
  <2>2. \A s \in Threads : localFree'[s] \subseteq localFree[s] /\ m \notin localFree'[s]
    BY <1>i, <1>m, <2>1 DEF LocalOK
  <2>3. \A s \in Threads : m \notin batch[s]
    BY <1>i, <1>m, SetsAssumption DEF BatchOK
  <2>4. FreeOK'
    BY <1>i, <1>1 DEF FreeOK
  <2>5. LocalOK'
    BY <1>i, <1>1, <2>2 DEF LocalOK
  <2>6. BatchOK'
    BY <1>i, <1>1 DEF BatchOK
  <2>7. AttachedOK'
    BY <1>i, <1>m, <1>a, <1>1, <2>1, <2>2, <2>3 DEF AttachedOK
  <2> QED BY <2>4, <2>5, <2>6, <2>7 DEF HomeOK
<1> QED BY <1>l, <1>m, <1>a, <1>1, <1>2, <1>3, AttachStep

\* A monitor that the pool has allocated: it is t's, and in no other place.
LEMMA AllocIsNew ==
    ASSUME MonitorInv, NEW t \in Threads, NEW m \in Monitors, AllocMonitor(t, m)
    PROVE  /\ owner'[m] = t /\ enterCount'[m] = 1 /\ users'[m] = 1 /\ token'[m] = 0
           /\ \A n \in Monitors : n # m =>
                 /\ owner'[n] = owner[n] /\ enterCount'[n] = enterCount[n]
                 /\ users'[n] = users[n] /\ token'[n] = token[n]
           /\ freeList' = freeList \ {m} /\ m \in usedList' /\ usedList' = usedList \cup {m}
           /\ \A k \in Locations : loc[k] # m
           /\ \A s \in Threads : m \notin localFree[s] /\ m \notin batch[s]
           /\ owner' \in [Monitors -> Threads \cup {NoThread}]
           /\ enterCount' \in [Monitors -> Nat] /\ users' \in [Monitors -> 0 .. (UserLimit - 1)]
           /\ token' \in [Monitors -> Nat]
           /\ usedList' \subseteq Monitors /\ freeList' \subseteq Monitors
<1>i. TypeOK /\ FreeOK /\ LocalOK /\ BatchOK /\ AttachedOK
  BY DEF MonitorInv, HomeOK
<1>1. /\ freeList' = freeList \ {m} /\ owner' = [owner EXCEPT ![m] = t]
      /\ enterCount' = [enterCount EXCEPT ![m] = 1] /\ users' = [users EXCEPT ![m] = 1]
  BY DEF AllocMonitor
<1>2. /\ token' \in [Monitors -> Nat] /\ token'[m] = 0
      /\ \A n \in Monitors : n # m => token'[n] = token[n]
      /\ usedList' = usedList \cup {m}
      /\ m \in freeList \/ m \notin usedList
  <2>1. CASE m \in freeList /\ UNCHANGED <<token, usedList>>
    BY <1>i, <2>1 DEF TypeOK, FreeOK
  <2>2. CASE /\ m \in Monitors \ usedList /\ usedList' = usedList \cup {m}
             /\ token' = [token EXCEPT ![m] = 0]
    BY <1>i, <2>2 DEF TypeOK
  <2> QED BY <2>1, <2>2 DEF AllocMonitor
<1>3. m # NoMonitor
  BY SetsAssumption
<1>4. \A k \in Locations : loc[k] # m
  BY <1>i, <1>2, <1>3 DEF AttachedOK
<1>5. \A s \in Threads : m \notin localFree[s] /\ m \notin batch[s]
  BY <1>i, <1>2 DEF LocalOK, BatchOK
<1>6. 1 \in 0 .. (UserLimit - 1)
  <2>1. Cardinality(Threads) \in Nat /\ Cardinality(Threads) # 0
    BY SetsAssumption, FS_CardinalityType, FS_EmptySet
  <2> QED BY <2>1, BoundsAssumption
<1>7. /\ owner'[m] = t /\ enterCount'[m] = 1 /\ users'[m] = 1
      /\ \A n \in Monitors : n # m => /\ owner'[n] = owner[n] /\ enterCount'[n] = enterCount[n]
                                      /\ users'[n] = users[n]
  BY <1>i, <1>1 DEF TypeOK
<1>8. owner' \in [Monitors -> Threads \cup {NoThread}] /\ enterCount' \in [Monitors -> Nat]
  BY <1>i, <1>1 DEF TypeOK
<1>9. users' \in [Monitors -> 0 .. (UserLimit - 1)]
  BY <1>i, <1>1, <1>6 DEF TypeOK
<1>10. usedList' \subseteq Monitors /\ freeList' \subseteq Monitors
  BY <1>i, <1>1, <1>2 DEF TypeOK
<1> QED BY <1>1, <1>2, <1>4, <1>5, <1>7, <1>8, <1>9, <1>10

\* ... and is attached, or lost when the exchange fails.
LEMMA AttachNewStep ==
    ASSUME MonitorInv, NEW t \in Threads, EnterAttachNew(t)
    PROVE  MonitorInv'
<1>i. TypeOK /\ ThreadOK(t) /\ FreeOK /\ LocalOK /\ BatchOK /\ AttachedOK /\ pc[t] = "attach"
  BY DEF MonitorInv, HomeOK, EnterAttachNew
<1>l. PICK l \in Locations : l = at[t]
  BY <1>i DEF ThreadOK
<1>1. PICK m \in Monitors :
        /\ AllocMonitor(t, m)
        /\ \/ /\ loc[l] = NoMonitor /\ loc' = [loc EXCEPT ![l] = m]
              /\ depth' = [depth EXCEPT ![l][t] = 1] /\ Return(t) /\ poolLock' = NoThread
           \/ /\ loc[l] # NoMonitor /\ pc' = [pc EXCEPT ![t] = "reload"]
              /\ UNCHANGED <<loc, depth, poolLock, at, mon, ms, saved>>
        /\ UNCHANGED <<localFree, batch>>
  BY <1>l DEF EnterAttachNew, Entered, Go, locals
<1>2. /\ owner'[m] = t /\ enterCount'[m] = 1 /\ users'[m] = 1 /\ token'[m] = 0
      /\ \A n \in Monitors : n # m =>
            /\ owner'[n] = owner[n] /\ enterCount'[n] = enterCount[n]
            /\ users'[n] = users[n] /\ token'[n] = token[n]
      /\ freeList' = freeList \ {m} /\ m \in usedList' /\ usedList' = usedList \cup {m}
      /\ \A k \in Locations : loc[k] # m
      /\ \A s \in Threads : m \notin localFree[s] /\ m \notin batch[s]
  BY <1>1, AllocIsNew
<1>3. /\ owner' \in [Monitors -> Threads \cup {NoThread}]
      /\ enterCount' \in [Monitors -> Nat] /\ users' \in [Monitors -> 0 .. (UserLimit - 1)]
      /\ token' \in [Monitors -> Nat]
      /\ usedList' \subseteq Monitors /\ freeList' \subseteq Monitors
  BY <1>1, AllocIsNew
<1>4. FreeOK'
  BY <1>i, <1>2 DEF FreeOK, TypeOK
<1>5. LocalOK'
  BY <1>i, <1>1, <1>2 DEF LocalOK, TypeOK
<1>6. BatchOK'
  BY <1>i, <1>1, <1>2 DEF BatchOK, TypeOK
<1>7. CASE loc[l] = NoMonitor
  <2>1. /\ loc' = [loc EXCEPT ![l] = m]
        /\ depth' = [depth EXCEPT ![l][t] = 1] /\ Return(t) /\ poolLock' = NoThread
    BY <1>1, <1>7
  <2>2. TypeOK'
    <3>1. loc' \in [Locations -> Monitors \cup {NoMonitor}] /\ depth' \in [Locations -> [Threads -> Nat]]
      BY <1>i, <2>1 DEF TypeOK
    <3>2. /\ pc' \in [Threads -> Control] /\ at' \in [Threads -> Locations \cup {NoLocation}]
          /\ mon' \in [Threads -> Monitors \cup {NoMonitor}] /\ ms' \in [Threads -> Timeouts]
          /\ saved' \in [Threads -> Nat]
      BY <1>i, <2>1 DEF TypeOK, Return, Go, Control, Timeouts
    <3> QED BY <1>i, <1>1, <1>3, <2>1, <3>1, <3>2 DEF TypeOK
  <2>3. AttachedOK'
    <3>1. loc'[l] = m /\ \A k \in Locations : k # l => loc'[k] = loc[k]
      BY <1>i, <2>1 DEF TypeOK
    <3> QED BY <1>i, <1>1, <1>2, <3>1 DEF AttachedOK
  <2>4. HomeOK'
    BY <1>4, <1>5, <1>6, <2>3 DEF HomeOK
  <2> QED BY <1>i, <1>l, <1>1, <1>2, <1>7, <2>1, <2>2, <2>4, AttachStep
<1>8. CASE loc[l] # NoMonitor
  <2>1. pc' = [pc EXCEPT ![t] = "reload"] /\ UNCHANGED <<loc, depth, poolLock, at, mon, ms, saved>>
    BY <1>1, <1>8
  <2>2. TypeOK'
    <3>1. pc' \in [Threads -> Control]
      BY <1>i, <2>1 DEF TypeOK, Control, Locked
    <3> QED BY <1>i, <1>1, <1>3, <2>1, <3>1 DEF TypeOK
  <2>3. HomeOK'
    <3>1. AttachedOK'
      BY <1>i, <1>1, <1>2, <2>1 DEF AttachedOK
    <3> QED BY <1>4, <1>5, <1>6, <3>1 DEF HomeOK
  <2>4. pc'[t] = "reload" /\ \A s \in Threads \ {t} : pc'[s] = pc[s]
    BY <1>i, <2>1 DEF TypeOK
  <2>5. \A s \in Threads \ {t} : Stays(s)
    BY <1>1, <2>1, <2>4 DEF Stays
  <2>6. \A k \in Locations : loc[k] # NoMonitor =>
          /\ owner'[loc[k]] = owner[loc[k]] /\ enterCount'[loc[k]] = enterCount[loc[k]]
          /\ users'[loc[k]] = users[loc[k]] /\ token'[loc[k]] = token[loc[k]]
    BY <1>i, <1>2 DEF TypeOK
  <2>7. Touches(t, l)
    BY <1>l, <2>1, <2>4, <2>5, <2>6 DEF Touches
  <2>8. ThreadOK(t)'
    BY <1>i, <1>l, <1>1, <1>8, <2>1, <2>4 DEF ThreadOK, Locked, Waiting, Using, Calling
  <2>9. \A s \in Threads : (InUse(s, l)' <=> InUse(s, l)) /\ (Holds(s, l)' => Holds(s, l))
    BY <1>i, <2>1, <2>4 DEF InUse, Holds, Calling
  <2>10. LocationOK(l)'
    BY <2>1, <2>6, <2>9, LocationStays DEF MonitorInv
  <2> QED BY <2>2, <2>3, <2>7, <2>8, <2>10, TouchStep
<1> QED BY <1>7, <1>8

\* "I'm the only thread in this monitor": with the pool lock nobody else has
\* read it from the location.
LEMMA AloneInside ==
    ASSUME MonitorInv, NEW t \in Threads, NEW l \in Locations, pc[t] = "idle",
           Owns(t, l), enterCount[loc[l]] <= 1, users[loc[l]] <= 1, poolLock = NoThread
    PROVE  /\ \A s \in Threads \ {t} : depth[l][s] = 0 /\ ~Relies(s, l)
           /\ token[loc[l]] = 0 /\ users[loc[l]] = 1 /\ enterCount[loc[l]] = 1
           /\ loc[l] \in Monitors /\ loc[l] # NoMonitor /\ owner[loc[l]] = t
<1>i. /\ TypeOK /\ loc[l] # NoMonitor /\ loc[l] \in Monitors /\ owner[loc[l]] = t
      /\ \A s \in Threads : ThreadOK(s)
  BY DEF MonitorInv, TypeOK, Owns
<1>d. OwnerOK(l) /\ TokenOK(l) /\ CountOK(l)
  BY <1>i DEF LocationOK, MonitorInv
<1>1. depth[l][t] > 0 /\ depth[l][t] \in Nat /\ enterCount[loc[l]] = depth[l][t]
  BY <1>i, <1>d DEF OwnerOK, TypeOK
<1>2. enterCount[loc[l]] = 1
  BY <1>1
<1>3. t \in UsersAt(l) /\ UsersAt(l) \in SUBSET Threads /\ Holds(t, l)
  BY <1>1 DEF UsersAt, InUse, Holds
<1>4. UsersAt(l) = {t}
  <2>1. Cardinality(UsersAt(l)) <= 1
    BY <1>d DEF CountOK
  <2> QED BY <1>3, <2>1, OneLessUser
<1>5. users[loc[l]] = 1
  <2>1. Cardinality({t}) = 1
    BY FS_Singleton
  <2> QED BY <1>d, <1>4, <2>1 DEF CountOK
<1>6. token[loc[l]] = 0 /\ \A s \in Threads \ {t} : ~Holds(s, l)
  BY <1>d, <1>3 DEF TokenOK
<1>7. \A s \in Threads \ {t} : ~InUse(s, l)
  BY <1>4 DEF UsersAt
<1>8. \A s \in Threads : pc[s] \notin Locked
  BY <1>i, SetsAssumption DEF ThreadOK
<1>9. \A s \in Threads \ {t} : ~Relies(s, l)
  BY <1>6, <1>7, <1>8 DEF Relies, InUse, Holds, Using, Locked
<1>10. \A s \in Threads \ {t} : depth[l][s] = 0
  <2>1. \A s \in Threads : depth[l][s] \in Nat
    BY <1>i DEF TypeOK
  <2> QED BY <1>7, <2>1 DEF InUse
<1> QED BY <1>i, <1>2, <1>5, <1>6, <1>9, <1>10

\* t, which is alone inside, takes the monitor from the location.
LEMMA DetachStep ==
    ASSUME MonitorInv, NEW t \in Threads, NEW l \in Locations, pc[t] = "idle",
           loc[l] # NoMonitor, \A s \in Threads \ {t} : depth[l][s] = 0 /\ ~Relies(s, l),
           loc' = [loc EXCEPT ![l] = NoMonitor], depth' = [depth EXCEPT ![l][t] = 0],
           \/ pc' = pc /\ batch' = batch
           \/ pc' = [pc EXCEPT ![t] = "trim"] /\ \A s \in Threads \ {t} : batch'[s] = batch[s],
           UNCHANGED <<poolLock, at, mon, ms, saved, enterCount, token>>,
           \A k \in Locations \ {l} : loc[k] # NoMonitor =>
              owner'[loc[k]] = owner[loc[k]] /\ users'[loc[k]] = users[loc[k]],
           TypeOK', HomeOK'
    PROVE  MonitorInv'
<1>i. TypeOK /\ ThreadOK(t)
  BY DEF MonitorInv
<1>1. /\ pc'[t] \in {"idle", "trim"} /\ (pc'[t] # "trim" => batch'[t] = batch[t])
      /\ \A s \in Threads \ {t} : pc'[s] = pc[s] /\ batch'[s] = batch[s]
      /\ at[t] = NoLocation
  BY <1>i DEF TypeOK, ThreadOK
<1>2. /\ loc'[l] = NoMonitor /\ depth'[l][t] = 0
      /\ \A k \in Locations : k # l => loc'[k] = loc[k]
      /\ \A k \in Locations, s \in Threads : k # l \/ s # t => depth'[k][s] = depth[k][s]
  BY <1>i DEF TypeOK
<1>3. \A s \in Threads \ {t} : Stays(s)
  BY <1>1, <1>2 DEF Stays
<1>4. Touches(t, l)
  BY <1>1, <1>2, <1>3 DEF Touches
<1>5. ThreadOK(t)'
  BY <1>i, <1>1, SetsAssumption DEF ThreadOK, Locked, Waiting, Using, Calling
<1>6. LocationOK(l)'
  BY <1>2 DEF LocationOK
<1> QED BY <1>4, <1>5, <1>6, TouchStep

\* The last Exit puts the monitor into the thread's freelist,
LEMMA KeepStep ==
    ASSUME MonitorInv, NEW t \in Threads, NEW l \in Locations, ExitKeep(t, l)
    PROVE  MonitorInv'
<1>i. TypeOK /\ FreeOK /\ LocalOK /\ BatchOK /\ AttachedOK /\ pc[t] = "idle"
  BY DEF MonitorInv, HomeOK, ExitKeep
<1>a. /\ \A s \in Threads \ {t} : depth[l][s] = 0 /\ ~Relies(s, l)
      /\ token[loc[l]] = 0 /\ users[loc[l]] = 1 /\ enterCount[loc[l]] = 1
      /\ loc[l] \in Monitors /\ loc[l] # NoMonitor /\ owner[loc[l]] = t
  BY AloneInside DEF ExitKeep
<1>1. /\ loc' = [loc EXCEPT ![l] = NoMonitor] /\ depth' = [depth EXCEPT ![l][t] = 0]
      /\ localFree' = [localFree EXCEPT ![t] = localFree[t] \cup {loc[l]}]
      /\ UNCHANGED <<owner, enterCount, users, token, usedList, freeList, batch, poolLock,
                     pc, at, mon, ms, saved>>
  BY DEF ExitKeep, Entered, locals
<1>2. TypeOK'
  <2>1. loc' \in [Locations -> Monitors \cup {NoMonitor}] /\ localFree' \in [Threads -> SUBSET Monitors]
    BY <1>i, <1>a, <1>1 DEF TypeOK
  <2>2. depth' \in [Locations -> [Threads -> Nat]]
    BY <1>i, <1>1 DEF TypeOK
  <2> QED BY <1>i, <1>1, <2>1, <2>2 DEF TypeOK
<1>3. HomeOK'
  <2>1. /\ loc'[l] = NoMonitor /\ \A k \in Locations : k # l => loc'[k] = loc[k]
        /\ localFree'[t] = localFree[t] \cup {loc[l]}
        /\ \A s \in Threads : s # t => localFree'[s] = localFree[s]
    BY <1>i, <1>1 DEF TypeOK
  <2>2. FreeOK'
    BY <1>i, <1>1 DEF FreeOK
  <2>3. LocalOK'
    BY <1>i, <1>a, <1>1, <2>1 DEF LocalOK, AttachedOK
  <2>4. BatchOK'
    BY <1>i, <1>1 DEF BatchOK
  <2>5. AttachedOK'
    BY <1>i, <1>1, <2>1 DEF AttachedOK
  <2> QED BY <2>2, <2>3, <2>4, <2>5 DEF HomeOK
<1> QED BY <1>i, <1>a, <1>1, <1>2, <1>3, DetachStep

\* or into a batch, when that is full,
LEMMA TrimStep ==
    ASSUME MonitorInv, NEW t \in Threads, NEW l \in Locations, ExitTrim(t, l)
    PROVE  MonitorInv'
<1>i. /\ TypeOK /\ ThreadOK(t) /\ FreeOK /\ LocalOK /\ BatchOK /\ AttachedOK /\ pc[t] = "idle"
  BY DEF MonitorInv, HomeOK, ExitTrim, TrimList
<1>a. /\ \A s \in Threads \ {t} : depth[l][s] = 0 /\ ~Relies(s, l)
      /\ token[loc[l]] = 0 /\ users[loc[l]] = 1 /\ enterCount[loc[l]] = 1
      /\ loc[l] \in Monitors /\ loc[l] # NoMonitor /\ owner[loc[l]] = t
  BY AloneInside DEF ExitTrim, TrimList
<1>1. /\ loc' = [loc EXCEPT ![l] = NoMonitor] /\ depth' = [depth EXCEPT ![l][t] = 0]
      /\ pc' = [pc EXCEPT ![t] = "trim"]
      /\ UNCHANGED <<enterCount, token, usedList, freeList, poolLock, at, mon, ms, saved>>
  BY DEF ExitTrim, TrimList, Entered, Go, locals
<1>2. PICK keep \in SUBSET localFree[t] :
        /\ localFree' = [localFree EXCEPT ![t] = keep]
        /\ batch' = [batch EXCEPT ![t] = (localFree[t] \ keep) \cup {loc[l]}]
        /\ owner' = [m \in Monitors |->
                       IF m \in (localFree[t] \ keep) \cup {loc[l]} THEN NoThread ELSE owner[m]]
        /\ users' = [m \in Monitors |->
                       IF m \in (localFree[t] \ keep) \cup {loc[l]} THEN 0 ELSE users[m]]
  BY DEF ExitTrim, TrimList
<1>3. PICK out \in SUBSET Monitors : out = (localFree[t] \ keep) \cup {loc[l]}
  <2>1. (localFree[t] \ keep) \cup {loc[l]} \in SUBSET Monitors
    BY <1>i, <1>a DEF TypeOK
  <2> QED BY <2>1
<1>4. /\ localFree'[t] = keep /\ batch'[t] = out
      /\ \A s \in Threads : s # t => localFree'[s] = localFree[s] /\ batch'[s] = batch[s]
      /\ \A m \in out : owner'[m] = NoThread /\ users'[m] = 0
      /\ \A m \in Monitors \ out : owner'[m] = owner[m] /\ users'[m] = users[m]
  BY <1>i, <1>2, <1>3 DEF TypeOK
<1>5. \A m \in out : /\ m \in usedList /\ m \notin freeList /\ owner[m] = t /\ token[m] = 0
                     /\ m \notin keep
  BY <1>i, <1>a, <1>3 DEF LocalOK, AttachedOK
<1>6. \A k \in Locations : k # l /\ loc[k] # NoMonitor => loc[k] \in Monitors \ out
  BY <1>i, <1>a, <1>3 DEF AttachedOK, TypeOK
<1>7. TypeOK'
  <2>1. loc' \in [Locations -> Monitors \cup {NoMonitor}]
    BY <1>i, <1>1 DEF TypeOK
  <2>2. localFree' \in [Threads -> SUBSET Monitors] /\ batch' \in [Threads -> SUBSET Monitors]
    BY <1>i, <1>2, <1>3 DEF TypeOK
  <2>3. owner' \in [Monitors -> Threads \cup {NoThread}]
    BY <1>i, <1>2 DEF TypeOK
  <2>4. users' \in [Monitors -> 0 .. (UserLimit - 1)]
    <3>1. 0 \in 0 .. (UserLimit - 1)
      BY BoundsAssumption, FS_CardinalityType, SetsAssumption
    <3> QED BY <1>i, <1>2, <3>1 DEF TypeOK
  <2>5. depth' \in [Locations -> [Threads -> Nat]] /\ pc' \in [Threads -> Control]
    BY <1>i, <1>1 DEF TypeOK, Control
  <2> QED BY <1>i, <1>1, <2>1, <2>2, <2>3, <2>4, <2>5 DEF TypeOK
<1>8. HomeOK'
  <2>1. loc'[l] = NoMonitor /\ \A k \in Locations : k # l => loc'[k] = loc[k]
    BY <1>i, <1>1 DEF TypeOK
  <2>2. FreeOK'
    BY <1>i, <1>1, <1>4, <1>5 DEF FreeOK, TypeOK
  <2>3. LocalOK'
    <3>1. \A s \in Threads : \A m \in localFree'[s] : m \in localFree[s] /\ m \in Monitors \ out
      BY <1>i, <1>4, <1>5 DEF LocalOK, TypeOK
    <3> QED BY <1>i, <1>1, <1>4, <3>1 DEF LocalOK
  <2>4. BatchOK'
    <3>1. \A s \in Threads : s # t => \A m \in batch[s] : m \in Monitors \ out
      BY <1>i, <1>5, SetsAssumption DEF BatchOK, TypeOK
    <3> QED BY <1>i, <1>1, <1>4, <1>5, <3>1 DEF BatchOK
  <2>5. AttachedOK'
    <3>1. \A k \in Locations : loc'[k] # NoMonitor => k # l /\ loc'[k] = loc[k] /\ loc[k] \notin out
      BY <1>6, <2>1
    <3>2. \A s \in Threads : localFree'[s] \subseteq localFree[s]
      BY <1>4
    <3> QED BY <1>i, <1>1, <1>4, <3>1, <3>2 DEF AttachedOK
  <2> QED BY <2>2, <2>3, <2>4, <2>5 DEF HomeOK
<1>9. \A k \in Locations \ {l} : loc[k] # NoMonitor =>
        owner'[loc[k]] = owner[loc[k]] /\ users'[loc[k]] = users[loc[k]]
  BY <1>4, <1>6
<1>10. \A s \in Threads \ {t} : batch'[s] = batch[s]
  BY <1>4
<1> QED BY <1>i, <1>a, <1>1, <1>7, <1>8, <1>9, <1>10, DetachStep

\* which then goes to the pool.
LEMMA TrimmedStep ==
    ASSUME MonitorInv, NEW t \in Threads, ExitTrimmed(t)
    PROVE  MonitorInv'
<1>i. TypeOK /\ ThreadOK(t) /\ FreeOK /\ LocalOK /\ BatchOK /\ AttachedOK /\ pc[t] = "trim"
  BY DEF MonitorInv, HomeOK, ExitTrimmed
<1>1. /\ UNCHANGED <<loc, owner, enterCount, users, token, usedList, localFree, poolLock, depth,
                     at, mon, ms, saved>>
      /\ freeList' = freeList \cup batch[t] /\ batch' = [batch EXCEPT ![t] = {}]
      /\ pc' = [pc EXCEPT ![t] = "idle"]
  BY DEF ExitTrimmed, Go, shared, locals
<1>2. /\ pc'[t] = "idle" /\ batch'[t] = {} /\ at[t] = NoLocation
      /\ \A s \in Threads \ {t} : pc'[s] = pc[s] /\ batch'[s] = batch[s]
  BY <1>i, <1>1 DEF TypeOK, ThreadOK
<1>3. TypeOK'
  <2>1. /\ pc' \in [Threads -> Control] /\ batch' \in [Threads -> SUBSET Monitors]
        /\ freeList' \subseteq Monitors
    BY <1>i, <1>1 DEF TypeOK, Control
  <2> QED BY <1>i, <1>1, <2>1 DEF TypeOK
<1>4. HomeOK'
  <2>1. FreeOK'
    BY <1>i, <1>1 DEF FreeOK, BatchOK
  <2>2. LocalOK'
    BY <1>i, <1>1, SetsAssumption DEF LocalOK, BatchOK
  <2>3. BatchOK'
    BY <1>i, <1>1, <1>2 DEF BatchOK
  <2>4. AttachedOK'
    BY <1>i, <1>1, <1>2 DEF AttachedOK
  <2> QED BY <2>1, <2>2, <2>3, <2>4 DEF HomeOK
<1>5. \A s \in Threads \ {t} : Stays(s)
  BY <1>1, <1>2 DEF Stays
<1>6. Touches(t, NoLocation)
  BY <1>1, <1>2, <1>5, SetsAssumption DEF Touches
<1>7. ThreadOK(t)'
  BY <1>i, <1>1, <1>2, SetsAssumption DEF ThreadOK, Locked, Waiting, Using, Calling
<1> QED BY <1>3, <1>4, <1>6, <1>7, SetsAssumption, TouchStep

\* The end of a thread gives its freelist to the pool.
LEMMA DestroyStep ==
    ASSUME MonitorInv, NEW t \in Threads, DestroyThread(t)
    PROVE  MonitorInv'
<1>i. TypeOK /\ ThreadOK(t) /\ FreeOK /\ LocalOK /\ BatchOK /\ AttachedOK /\ pc[t] = "idle"
  BY DEF MonitorInv, HomeOK, DestroyThread
<1>1. /\ UNCHANGED <<loc, enterCount, token, usedList, batch, poolLock, depth, at, mon, ms, saved>>
      /\ owner' = [m \in Monitors |-> IF m \in localFree[t] THEN NoThread ELSE owner[m]]
      /\ users' = [m \in Monitors |-> IF m \in localFree[t] THEN 0 ELSE users[m]]
      /\ freeList' = freeList \cup localFree[t] /\ localFree' = [localFree EXCEPT ![t] = {}]
      /\ pc' = [pc EXCEPT ![t] = "dead"]
  BY DEF DestroyThread, Go, locals
<1>2. /\ pc'[t] = "dead" /\ localFree'[t] = {} /\ at[t] = NoLocation
      /\ \A s \in Threads \ {t} : pc'[s] = pc[s] /\ localFree'[s] = localFree[s]
      /\ \A m \in localFree[t] : owner'[m] = NoThread /\ users'[m] = 0
      /\ \A m \in Monitors : m \notin localFree[t] => owner'[m] = owner[m] /\ users'[m] = users[m]
  BY <1>i, <1>1 DEF TypeOK, ThreadOK
<1>3. TypeOK'
  <2>1. pc' \in [Threads -> Control] /\ localFree' \in [Threads -> SUBSET Monitors]
    BY <1>i, <1>1 DEF TypeOK, Control
  <2>2. freeList' \subseteq Monitors /\ owner' \in [Monitors -> Threads \cup {NoThread}]
    BY <1>i, <1>1 DEF TypeOK
  <2>3. users' \in [Monitors -> 0 .. (UserLimit - 1)]
    <3>1. 0 \in 0 .. (UserLimit - 1)
      BY BoundsAssumption, FS_CardinalityType, SetsAssumption
    <3> QED BY <1>i, <1>1, <3>1 DEF TypeOK
  <2> QED BY <1>i, <1>1, <2>1, <2>2, <2>3 DEF TypeOK
<1>a. \A k \in Locations : loc[k] # NoMonitor => loc[k] \in Monitors /\ loc[k] \notin localFree[t]
  BY <1>i DEF AttachedOK, TypeOK
<1>4. HomeOK'
  <2>1. FreeOK'
    BY <1>i, <1>1, <1>2 DEF FreeOK, LocalOK, TypeOK
  <2>2. LocalOK'
    <3>1. \A s \in Threads : \A m \in localFree'[s] : m \in localFree[s] /\ m \notin localFree[t]
      BY <1>i, <1>2 DEF LocalOK
    <3> QED BY <1>i, <1>1, <1>2, <3>1 DEF LocalOK, TypeOK
  <2>3. BatchOK'
    <3>1. \A s \in Threads : \A m \in batch[s] : m \in Monitors /\ m \notin localFree[t]
      BY <1>i, SetsAssumption DEF LocalOK, BatchOK, TypeOK
    <3> QED BY <1>i, <1>1, <1>2, <3>1 DEF BatchOK
  <2>4. AttachedOK'
    <3>1. \A s \in Threads : localFree'[s] \subseteq localFree[s]
      BY <1>2
    <3> QED BY <1>i, <1>1, <1>a, <3>1 DEF AttachedOK
  <2> QED BY <2>1, <2>2, <2>3, <2>4 DEF HomeOK
<1>5. \A s \in Threads \ {t} : Stays(s)
  BY <1>1, <1>2 DEF Stays
<1>6. Touches(t, NoLocation)
  BY <1>1, <1>2, <1>5, <1>a, SetsAssumption DEF Touches
<1>7. ThreadOK(t)'
  BY <1>i, <1>1, <1>2, SetsAssumption DEF ThreadOK, Locked, Waiting, Using, Calling
<1> QED BY <1>3, <1>4, <1>6, <1>7, SetsAssumption, TouchStep

\* The collector takes the monitor of an object that no thread can reach.
LEMMA ReclaimStep ==
    ASSUME MonitorInv, NEW l \in Locations, Reclaim(l)
    PROVE  MonitorInv'
<1>i. /\ TypeOK /\ FreeOK /\ LocalOK /\ BatchOK /\ AttachedOK
      /\ loc[l] # NoMonitor /\ loc[l] \in Monitors
      /\ \A s \in Threads : ThreadOK(s)
      /\ \A k \in Locations : LocationOK(k)
  BY DEF MonitorInv, HomeOK, Reclaim, TypeOK
<1>1. /\ UNCHANGED <<token, freeList, localFree, batch, poolLock, pc, at, mon, ms, saved>>
      /\ loc' = [loc EXCEPT ![l] = NoMonitor] /\ usedList' = usedList \ {loc[l]}
      /\ owner' = [owner EXCEPT ![loc[l]] = NoThread]
      /\ enterCount' = [enterCount EXCEPT ![loc[l]] = 0]
      /\ users' = [users EXCEPT ![loc[l]] = 0]
      /\ depth' = [depth EXCEPT ![l] = [t \in Threads |-> 0]]
  BY DEF Reclaim, locals
<1>2. /\ loc'[l] = NoMonitor /\ \A s \in Threads : depth'[l][s] = 0
      /\ \A k \in Locations : k # l => loc'[k] = loc[k] /\ depth'[k] = depth[k]
      /\ \A m \in Monitors : m # loc[l] => /\ owner'[m] = owner[m] /\ users'[m] = users[m]
                                           /\ enterCount'[m] = enterCount[m]
  BY <1>i, <1>1 DEF TypeOK
<1>3. \A s \in Threads : at[s] # l /\ (depth[l][s] > 0 => pc[s] = "dead")
  <2>1. \A s \in Threads : pc[s] = "dead" => at[s] # l
    BY <1>i, SetsAssumption DEF ThreadOK
  <2> QED BY <2>1 DEF Reclaim, Unreachable
<1>4. \A s \in Threads : pc[s] = "post" => mon[s] # loc[l]
  <2>1. TokenOK(l) /\ CountOK(l)
    BY <1>i DEF LocationOK
  <2>2. PICK u \in Threads : InUse(u, l)
    BY <2>1 DEF CountOK, UsersAt
  <2>3. depth[l][u] > 0 /\ pc[u] = "dead"
    BY <1>3, <2>2 DEF InUse
  <2>4. \A s \in Threads : Holds(s, l) => s = u
    BY <2>1, <2>3 DEF TokenOK, Holds
  <2> QED BY <2>3, <2>4 DEF Holds
<1>5. \A k \in Locations : k # l /\ loc[k] # NoMonitor => loc[k] \in Monitors /\ loc[k] # loc[l]
  BY <1>i DEF AttachedOK, TypeOK
<1>6. TypeOK'
  <2>1. /\ loc' \in [Locations -> Monitors \cup {NoMonitor}] /\ usedList' \subseteq Monitors
        /\ owner' \in [Monitors -> Threads \cup {NoThread}]
    BY <1>i, <1>1 DEF TypeOK
  <2>2. enterCount' \in [Monitors -> Nat] /\ depth' \in [Locations -> [Threads -> Nat]]
    BY <1>i, <1>1 DEF TypeOK
  <2>3. users' \in [Monitors -> 0 .. (UserLimit - 1)]
    <3>1. 0 \in 0 .. (UserLimit - 1)
      BY BoundsAssumption, FS_CardinalityType, SetsAssumption
    <3> QED BY <1>i, <1>1, <3>1 DEF TypeOK
  <2> QED BY <1>i, <1>1, <2>1, <2>2, <2>3 DEF TypeOK
<1>7. HomeOK'
  <2>1. FreeOK'
    BY <1>i, <1>1, <1>2 DEF FreeOK, AttachedOK, TypeOK
  <2>2. LocalOK'
    BY <1>i, <1>1, <1>2 DEF LocalOK, AttachedOK, TypeOK
  <2>3. BatchOK'
    BY <1>i, <1>1, <1>2 DEF BatchOK, AttachedOK, TypeOK
  <2>4. AttachedOK'
    BY <1>i, <1>1, <1>2, <1>5 DEF AttachedOK
  <2> QED BY <2>1, <2>2, <2>3, <2>4 DEF HomeOK
<1>8. ASSUME NEW s \in Threads PROVE ThreadOK(s)'
  <2>1. pc[s] = "post" => \E k \in Locations : /\ loc'[k] = mon[s] /\ loc'[k] # NoMonitor
                                              /\ depth'[k][s] = 0
    BY <1>i, <1>2, <1>4 DEF ThreadOK
  <2>2. at[s] \in Locations => loc'[at[s]] = loc[at[s]] /\ depth'[at[s]][s] = depth[at[s]][s]
    BY <1>2, <1>3
  <2>3. pc[s] \in Using => at[s] \in Locations
    BY <1>i DEF ThreadOK, Using, Calling
  <2> QED BY <1>i, <1>1, <2>1, <2>2, <2>3 DEF ThreadOK
<1>9. ASSUME NEW k \in Locations PROVE LocationOK(k)'
  <2>1. CASE k = l
    BY <1>2, <2>1 DEF LocationOK
  <2>2. CASE k # l
    <3>1. \A s \in Threads : (InUse(s, k)' <=> InUse(s, k)) /\ (Holds(s, k)' => Holds(s, k))
      BY <1>1, <1>2, <2>2 DEF InUse, Holds
    <3> QED BY <1>i, <1>1, <1>2, <1>5, <2>2, <3>1, LocationStays
  <2> QED BY <2>1, <2>2
<1> QED BY <1>6, <1>7, <1>8, <1>9 DEF MonitorInv

-----------------------------------------------------------------------------
(* The invariant is inductive. *)

\* MonitorInv holds before the first call.
LEMMA Initially == Init => MonitorInv
<1> SUFFICES ASSUME Init PROVE MonitorInv
  OBVIOUS
<1> USE DEF Init
<1>1. TypeOK
  <2>1. 0 \in 0 .. (UserLimit - 1)
    BY BoundsAssumption, FS_CardinalityType, SetsAssumption
  <2> QED BY <2>1 DEF TypeOK, Control, Timeouts
<1>2. \A t \in Threads : ThreadOK(t)
  BY SetsAssumption DEF ThreadOK, Locked, Waiting, Using, Calling
<1>3. HomeOK
  BY DEF HomeOK, FreeOK, LocalOK, BatchOK, AttachedOK
<1>4. \A l \in Locations : LocationOK(l)
  BY DEF LocationOK
<1> QED BY <1>1, <1>2, <1>3, <1>4 DEF MonitorInv

\* Every step of the fast path keeps MonitorInv,
LEMMA FastStep ==
    ASSUME MonitorInv, NEW t \in Threads, FastPath(t)
    PROVE  MonitorInv'
<1>1. CASE \E l \in Locations : EnterAgain(t, l)
  BY <1>1, AgainStep
<1>2. CASE \E l \in Locations, k \in Timeouts : EnterLoad(t, l, k)
  BY <1>2, LoadStep
<1>3. CASE EnterCas(t)
  <2>1. CASE loc[at[t]] = NoMonitor
    <3>1. PICK m \in localFree[t] : AttachLocal(t, m)
      BY <1>3, <2>1 DEF EnterCas
    <3> QED BY <1>3, <2>1, <3>1, AttachLocalStep DEF EnterCas
  <2>2. CASE loc[at[t]] # NoMonitor
    <3>1. <<"cas", "lock">> \in Jumps
      BY DEF Jumps
    <3> QED BY <1>3, <2>2, <3>1, JumpStep DEF EnterCas
  <2> QED BY <2>1, <2>2
<1> QED BY <1>1, <1>2, <1>3 DEF FastPath

\* every step of the hard path,
LEMMA HardStep ==
    ASSUME MonitorInv, NoGiveUps, NEW t \in Threads, HardPath(t)
    PROVE  MonitorInv'
<1>j. /\ <<"attach", "reload">> \in Jumps /\ <<"check", "try">> \in Jumps
      /\ <<"check", "enterWait">> \in Jumps /\ <<"try", "enterWait">> \in Jumps
  BY DEF Jumps
<1>1. CASE EnterLock(t)
  BY <1>1, LockStep
<1>2. CASE EnterAttachLocal(t)
  <2>1. CASE loc[at[t]] = NoMonitor
    <3>1. PICK m \in localFree[t] : AttachLocal(t, m)
      BY <1>2, <2>1 DEF EnterAttachLocal
    <3> QED BY <1>2, <2>1, <3>1, AttachLocalStep DEF EnterAttachLocal
  <2>2. CASE loc[at[t]] # NoMonitor
    BY <1>j, <1>2, <2>2, JumpStep DEF EnterAttachLocal
  <2> QED BY <2>1, <2>2
<1>3. CASE EnterAttachNew(t)
  BY <1>3, AttachNewStep
<1>4. CASE EnterNoMemory(t)
  BY <1>4, BusyStep DEF EnterNoMemory
<1>5. CASE EnterReload(t)
  BY <1>5, ReloadStep
<1>6. CASE EnterCheck(t)
  <2>1. CASE Go(t, "try") /\ UNCHANGED <<poolLock, locals>>
    BY <1>j, <1>6, <2>1, JumpStep DEF EnterCheck
  <2>2. CASE EnterBusy(t)
    BY <1>6, <2>2, BusyStep DEF EnterCheck, EnterBusy
  <2>3. CASE Go(t, "enterWait") /\ UNCHANGED <<poolLock, locals>>
    BY <1>j, <1>6, <2>3, JumpStep DEF EnterCheck
  <2> QED BY <1>6, <2>1, <2>2, <2>3 DEF EnterCheck
<1>7. CASE EnterTry(t)
  BY <1>7, TryStep
<1>8. CASE EnterTryBusy(t)
  <2>1. CASE EnterBusy(t)
    BY <1>8, <2>1, BusyStep DEF EnterTryBusy, EnterBusy
  <2>2. CASE Go(t, "enterWait") /\ UNCHANGED <<poolLock, locals>>
    BY <1>j, <1>8, <2>2, JumpStep DEF EnterTryBusy
  <2> QED BY <1>8, <2>1, <2>2 DEF EnterTryBusy
<1>9. CASE EnterAborted(t)
  BY <1>9 DEF EnterAborted, NoGiveUps
<1>10. CASE EnterWait(t)
  BY <1>10, WaitStep
<1> QED BY <1>1, <1>2, <1>3, <1>4, <1>5, <1>6, <1>7, <1>8, <1>9, <1>10 DEF HardPath

\* and every step of a thread that waits for a monitor or is back from it.
LEMMA BlockedStep ==
    ASSUME MonitorInv, NoGiveUps, NEW t \in Threads, BlockedPath(t)
    PROVE  MonitorInv'
<1>1. CASE EnterAcquire(t)
  BY <1>1, TakeStep
<1>2. CASE EnterFails(t)
  BY <1>2 DEF EnterFails, NoGiveUps
<1>3. CASE EnterOwn(t)
  BY <1>3, OwnStep
<1>4. CASE EnterInterrupted(t)
  BY <1>4 DEF EnterInterrupted, NoGiveUps
<1>5. CASE EnterGiveUp(t)
  BY <1>5 DEF EnterGiveUp, LeaveUsers, MonitorInv, ThreadOK
<1> QED BY <1>1, <1>2, <1>3, <1>4, <1>5 DEF BlockedPath

\* Every step keeps MonitorInv.
LEMMA Inductive ==
    ASSUME NoGiveUps, MonitorInv, [Next]_vars
    PROVE  MonitorInv'
<1>1. ASSUME NEW t \in Threads, FastPath(t) PROVE MonitorInv'
  BY <1>1, FastStep
<1>2. ASSUME NEW t \in Threads, HardPath(t) PROVE MonitorInv'
  BY <1>2, HardStep
<1>3. ASSUME NEW t \in Threads, BlockedPath(t) PROVE MonitorInv'
  BY <1>3, BlockedStep
<1>4. ASSUME NEW t \in Threads, ExitPath(t) PROVE MonitorInv'
  BY <1>4, AgainStep, KeepStep, TrimStep, ReleaseStep, TrimmedStep, PostStep DEF ExitPath
<1>5. ASSUME NEW t \in Threads, WaitPath(t) PROVE MonitorInv'
  <2>1. CASE WaitOver(t)
    <3>1. <<"waiting", "reenter">> \in Jumps
      BY DEF Jumps
    <3> QED BY <2>1, <3>1, JumpStep DEF WaitOver
  <2> QED BY <1>5, <2>1, WaitBeginStep, PostStep, TakeStep, OwnStep DEF WaitPath
<1>6. ASSUME NEW t \in Threads, DestroyThread(t) PROVE MonitorInv'
  BY <1>6, DestroyStep
<1>7. ASSUME NEW l \in Locations, Reclaim(l) PROVE MonitorInv'
  BY <1>7, ReclaimStep
<1>8. CASE UNCHANGED vars
  <2>u. UNCHANGED <<loc, owner, enterCount, users, token, usedList, freeList, localFree,
                    poolLock, pc, at, mon, ms, saved, batch, depth>>
    BY <1>8 DEF vars
  <2>i. TypeOK /\ HomeOK /\ (\A s \in Threads : ThreadOK(s)) /\ \A k \in Locations : LocationOK(k)
    BY DEF MonitorInv
  <2>1. TypeOK'
    BY <2>i, <2>u DEF TypeOK
  <2>2. HomeOK'
    BY <2>i, <2>u, HomeStays
  <2>3. \A s \in Threads : ThreadOK(s)'
    BY <2>i, <2>u, ThreadStays DEF Stays
  <2>4. \A k \in Locations : LocationOK(k)'
    BY <2>i, <2>u, LocationStays DEF InUse, Holds
  <2> QED BY <2>1, <2>2, <2>3, <2>4 DEF MonitorInv
<1> QED BY <1>1, <1>2, <1>3, <1>4, <1>5, <1>6, <1>7, <1>8 DEF Next

\* MonitorInv holds throughout.
LEMMA Invariance ==
    ASSUME NoGiveUps
    PROVE  Spec => []MonitorInv
<1>1. MonitorInv /\ [Next]_vars => MonitorInv'
  BY Inductive
<1> QED BY <1>1, Initially, PTL DEF Spec

-----------------------------------------------------------------------------
(* What the invariant says of the monitors of objects. *)

\* The variables of monitor.c keep their types; in particular monitor->users
\* never wraps around, however many threads use one object.
THEOREM TypeCorrect == NoGiveUps => (Spec => []TypeOK)
<1> SUFFICES ASSUME NoGiveUps PROVE Spec => []TypeOK
  OBVIOUS
<1>1. MonitorInv => TypeOK
  BY DEF MonitorInv
<1> QED BY <1>1, Invariance, PTL

\* "The owner should be 0 at this point": a thread that has waited for the
\* monitor in ILMonitorTimedTryEnter finds it without owner.
THEOREM NobodyOwns == NoGiveUps => (Spec => []OwnerIsClear)
<1> SUFFICES ASSUME NoGiveUps PROVE Spec => []OwnerIsClear
  OBVIOUS
<1>1. MonitorInv => OwnerIsClear
  <2> SUFFICES ASSUME MonitorInv, NEW t \in Threads, pc[t] = "acquired"
               PROVE  owner[mon[t]] = NoThread
    BY DEF OwnerIsClear
  <2>1. PICK l \in Locations : /\ l = at[t] /\ loc[l] = mon[t] /\ loc[l] # NoMonitor
                               /\ loc[l] \in Monitors /\ depth[l][t] = 0
                               /\ OwnerOK(l) /\ TokenOK(l) /\ CountOK(l)
    BY HereIsMonitor DEF Using, Calling
  <2>2. Holds(t, l)
    BY <2>1 DEF Holds
  <2>3. \A s \in Threads : ~(depth[l][s] > 0)
    BY <2>1, <2>2 DEF TokenOK, Holds
  <2>4. owner[loc[l]] \in Threads \cup {NoThread}
    BY <2>1 DEF MonitorInv, TypeOK
  <2> QED BY <2>1, <2>3, <2>4 DEF OwnerOK
<1> QED BY <1>1, Invariance, PTL

\* Mutual exclusion for objects: whoever is inside the monitor of an object,
\* by whichever path of ILMonitorTimedTryEnter or ILMonitorTimedWait, is its
\* owner and has its count.
THEOREM MutualExclusion == NoGiveUps => (Spec => []InsideOwns)
<1> SUFFICES ASSUME NoGiveUps PROVE Spec => []InsideOwns
  OBVIOUS
<1>1. MonitorInv => InsideOwns
  <2> SUFFICES ASSUME MonitorInv, NEW l \in Locations, NEW t \in Threads, depth[l][t] > 0
               PROVE  Owns(t, l) /\ enterCount[loc[l]] = depth[l][t]
    BY DEF InsideOwns
  <2>1. LocationOK(l) /\ loc[l] # NoMonitor
    BY DEF MonitorInv, LocationOK
  <2> QED BY <2>1 DEF LocationOK, OwnerOK, Owns
<1> QED BY <1>1, Invariance, PTL

\* monitor->users is the number of threads that use the monitor, so that the
\* last of them, and only the last, takes it from the object in ILMonitorExit.
THEOREM UsersAreCounted == NoGiveUps => (Spec => []UsersCounted)
<1> SUFFICES ASSUME NoGiveUps PROVE Spec => []UsersCounted
  OBVIOUS
<1>1. MonitorInv => UsersCounted
  BY DEF MonitorInv, LocationOK, CountOK, UsersAt, InUse, UsersCounted
<1> QED BY <1>1, Invariance, PTL

\* A monitor in a freelist of ILMonitorExit has no user and no token, and is
\* attached to no object.
THEOREM FreeMonitorsAreIdle == NoGiveUps => (Spec => []FreeIsIdle)
<1> SUFFICES ASSUME NoGiveUps PROVE Spec => []FreeIsIdle
  OBVIOUS
<1>1. MonitorInv => FreeIsIdle
  <2> SUFFICES ASSUME MonitorInv PROVE FreeIsIdle
    OBVIOUS
  <2>1. FreeOK /\ LocalOK /\ AttachedOK
    BY DEF MonitorInv, HomeOK
  <2>2. \A m \in freeList : m \notin Attached
    BY <2>1 DEF AttachedOK, Attached
  <2>3. \A t \in Threads : \A m \in localFree[t] : m \notin Attached
    BY <2>1 DEF AttachedOK, Attached
  <2> QED BY <2>1, <2>2, <2>3 DEF FreeOK, LocalOK, FreeIsIdle
<1> QED BY <1>1, Invariance, PTL

\* No monitor belongs to two objects, or to an object and a freelist from
\* which ILMonitorTimedTryEnter would give it to another.
THEOREM MonitorHasOneHome == NoGiveUps => (Spec => []OneHome)
<1> SUFFICES ASSUME NoGiveUps PROVE Spec => []OneHome
  OBVIOUS
<1>1. MonitorInv => OneHome
  <2> SUFFICES ASSUME MonitorInv PROVE OneHome
    OBVIOUS
  <2>1. AttachedOK
    BY DEF MonitorInv, HomeOK
  <2>2. Attached \cap (freeList \cup UNION {localFree[t] \cup batch[t] : t \in Threads}) = {}
    <3> SUFFICES ASSUME NEW m \in Attached, m \in freeList \cup UNION {localFree[t] \cup batch[t] : t \in Threads}
                 PROVE  FALSE
      OBVIOUS
    <3>1. PICK l \in Locations : m = loc[l] /\ loc[l] # NoMonitor
      BY DEF Attached
    <3>2. m \notin freeList /\ \A t \in Threads : m \notin localFree[t] /\ m \notin batch[t]
      BY <2>1, <3>1 DEF AttachedOK
    <3> QED BY <3>2
  <2>3. \A l, k \in Locations : loc[l] = loc[k] /\ loc[l] # NoMonitor => l = k
    BY <2>1 DEF AttachedOK
  <2> QED BY <2>2, <2>3 DEF OneHome
<1> QED BY <1>1, Invariance, PTL

\* The monitor that a thread has read from the object and uses without the
\* pool lock stays the monitor of that object until the thread is done.
THEOREM StaysWhileUsed == NoGiveUps => (Spec => []StaysAttached)
<1> SUFFICES ASSUME NoGiveUps PROVE Spec => []StaysAttached
  OBVIOUS
<1>1. MonitorInv => StaysAttached
  <2> SUFFICES ASSUME MonitorInv, NEW t \in Threads,
                      pc[t] \in Calling \cup {"check", "try", "enterWait"}
               PROVE  mon[t] \in Monitors /\ loc[at[t]] = mon[t]
    BY DEF StaysAttached
  <2>1. pc[t] \in Using \ {"reload"}
    BY DEF Using, Calling
  <2> QED BY <2>1, HereIsMonitor
<1> QED BY <1>1, Invariance, PTL

-----------------------------------------------------------------------------
(* The monitor of every object implements MonitorAbs. *)

WaitsAt(t, l) == at[t] = l /\ pc[t] \in Waiting

\* A step of t does nothing to the abstract monitor of l, or t enters or
\* leaves it.
LEMMA AbsThreadStep ==
    ASSUME MonitorInv, MonitorInv', NEW t \in Threads, NEW l \in Locations,
           \A s \in Threads \ {t} : /\ depth'[l][s] = depth[l][s]
                                    /\ pc'[s] = pc[s] /\ at'[s] = at[s],
           WaitsAt(t, l)' /\ ~WaitsAt(t, l) => depth[l][t] > 0,
           WaitsAt(t, l) /\ ~WaitsAt(t, l)' => depth'[l][t] > 0
    PROVE  [Abs(l)!Next]_<<OwnerAt(l), WaitSetAt(l)>>
<1>1. \A s \in Threads : WaitsAt(s, l) => ~(depth[l][s] > 0)
  BY DEF MonitorInv, ThreadOK, WaitsAt
<1>2. \A s \in Threads : WaitsAt(s, l)' => ~(depth'[l][s] > 0)
  BY DEF MonitorInv, ThreadOK, WaitsAt
<1>3. \A r, s \in Threads : depth[l][r] > 0 /\ depth[l][s] > 0 => r = s
  BY DEF MonitorInv, LocationOK, OwnerOK
<1>4. \A r, s \in Threads : depth'[l][r] > 0 /\ depth'[l][s] > 0 => r = s
  BY DEF MonitorInv, LocationOK, OwnerOK
<1>w. WaitSetAt(l) = {s \in Threads : WaitsAt(s, l)} /\ WaitSetAt(l)' = {s \in Threads : WaitsAt(s, l)'}
  BY DEF WaitSetAt, WaitsAt, Waiting
<1>o. \A s \in Threads \ {t} : WaitsAt(s, l)' <=> WaitsAt(s, l)
  BY DEF WaitsAt
<1>5. ASSUME NEW s \in Threads, depth[l][s] > 0 PROVE OwnerAt(l) = s
  BY <1>3, <1>5 DEF OwnerAt
<1>6. ASSUME NEW s \in Threads, depth'[l][s] > 0 PROVE OwnerAt(l)' = s
  BY <1>4, <1>6 DEF OwnerAt
<1>7. (\A s \in Threads : ~(depth[l][s] > 0)) => OwnerAt(l) = NoThread
  BY DEF OwnerAt
<1>8. (\A s \in Threads : ~(depth'[l][s] > 0)) => OwnerAt(l)' = NoThread
  BY DEF OwnerAt
<1>9. CASE depth[l][t] > 0 /\ depth'[l][t] > 0
  <2>1. OwnerAt(l)' = OwnerAt(l)
    BY <1>5, <1>6, <1>9
  <2>2. WaitSetAt(l)' = WaitSetAt(l)
    BY <1>1, <1>2, <1>9, <1>w, <1>o
  <2> QED BY <2>1, <2>2
<1>10. CASE depth[l][t] > 0 /\ ~(depth'[l][t] > 0)
  <2>1. OwnerAt(l) = t
    BY <1>5, <1>10
  <2>2. OwnerAt(l)' = NoThread
    BY <1>3, <1>8, <1>10
  <2>3. WaitSetAt(l)' = WaitSetAt(l) \/ WaitSetAt(l)' = WaitSetAt(l) \cup {t}
    BY <1>1, <1>10, <1>w, <1>o
  <2> QED BY <2>1, <2>2, <2>3 DEF Abs!Next, Abs!Release, Abs!Wait
<1>11. CASE ~(depth[l][t] > 0) /\ depth'[l][t] > 0
  <2>1. OwnerAt(l)' = t
    BY <1>6, <1>11
  <2>2. OwnerAt(l) = NoThread
    BY <1>4, <1>7, <1>11
  <2>3. \/ t \notin WaitSetAt(l) /\ WaitSetAt(l)' = WaitSetAt(l)
        \/ t \in WaitSetAt(l) /\ WaitSetAt(l)' = WaitSetAt(l) \ {t}
    BY <1>2, <1>11, <1>w, <1>o
  <2> QED BY <2>1, <2>2, <2>3 DEF Abs!Next, Abs!Acquire, Abs!Reacquire
<1>12. CASE ~(depth[l][t] > 0) /\ ~(depth'[l][t] > 0)
  <2>1. WaitSetAt(l)' = WaitSetAt(l)
    BY <1>12, <1>w, <1>o
  <2>2. OwnerAt(l)' = OwnerAt(l)
    <3>1. CASE \E s \in Threads : depth[l][s] > 0
      <4>1. PICK s \in Threads : depth[l][s] > 0
        BY <3>1
      <4>2. depth'[l][s] > 0
        BY <1>12, <4>1
      <4> QED BY <1>5, <1>6, <4>1, <4>2
    <3>2. CASE ~\E s \in Threads : depth[l][s] > 0
      BY <1>7, <1>8, <1>12, <3>2
    <3> QED BY <3>1, <3>2
  <2> QED BY <2>1, <2>2
<1> QED BY <1>9, <1>10, <1>11, <1>12

\* The threads that do not act, and where t waits.
LEMMA ActorOnly ==
    ASSUME MonitorInv, NoGiveUps, NEW t \in Threads,
           FastPath(t) \/ HardPath(t) \/ BlockedPath(t) \/ ExitPath(t) \/ WaitPath(t)
             \/ DestroyThread(t)
    PROVE  \A l \in Locations :
             /\ \A s \in Threads \ {t} : /\ depth'[l][s] = depth[l][s]
                                         /\ pc'[s] = pc[s] /\ at'[s] = at[s]
             /\ WaitsAt(t, l)' /\ ~WaitsAt(t, l) => depth[l][t] > 0
             /\ WaitsAt(t, l) /\ ~WaitsAt(t, l)' => depth'[l][t] > 0
<1>i. TypeOK /\ ThreadOK(t)
  BY DEF MonitorInv
<1>t. /\ pc \in [Threads -> Control] /\ at \in [Threads -> Locations \cup {NoLocation}]
      /\ depth \in [Locations -> [Threads -> Nat]] /\ saved \in [Threads -> Nat]
  BY <1>i DEF TypeOK
<1> DEFINE Keeps == \A l \in Locations, s \in Threads \ {t} :
                      /\ depth'[l][s] = depth[l][s] /\ pc'[s] = pc[s] /\ at'[s] = at[s]
           Alike == \/ pc[t] \notin Waiting /\ pc'[t] \notin Waiting
                    \/ pc[t] \in Waiting /\ pc'[t] \in Waiting /\ at'[t] = at[t]
<1>1. CASE FastPath(t)
  <2>1. Keeps /\ Alike
    BY <1>1, <1>t DEF FastPath, EnterAgain, EnterLoad, EnterCas, AttachLocal, Go, Return, Entered,
                      locals, Waiting
  <2> QED BY <2>1 DEF WaitsAt
<1>2. CASE HardPath(t)
  <2>1. Keeps /\ Alike
    <3>1. CASE EnterLock(t) \/ EnterAttachLocal(t) \/ EnterNoMemory(t) \/ EnterReload(t)
      BY <1>t, <3>1 DEF EnterLock, EnterAttachLocal, AttachLocal, EnterNoMemory, EnterReload, Go,
                        Return, Entered, locals, Waiting
    <3>2. CASE EnterAttachNew(t)
      BY <1>t, <3>2 DEF EnterAttachNew, Go, Return, Entered, locals, Waiting
    <3>3. CASE EnterCheck(t) \/ EnterTryBusy(t)
      BY <1>t, <3>3 DEF EnterCheck, EnterTryBusy, EnterBusy, Go, Return, locals, Waiting
    <3>4. CASE EnterTry(t) \/ EnterAborted(t) \/ EnterWait(t)
      BY <1>t, <3>4 DEF EnterTry, TryOwn, EnterAborted, EnterWait, Go, Return, Entered, locals,
                        Waiting
    <3> QED BY <1>2, <3>1, <3>2, <3>3, <3>4 DEF HardPath
  <2> QED BY <2>1 DEF WaitsAt
<1>3. CASE BlockedPath(t)
  <2>1. Keeps /\ Alike
    BY <1>3, <1>t DEF BlockedPath, EnterAcquire, EnterFails, EnterOwn, EnterInterrupted,
      EnterGiveUp, LeaveUsers, Go, Return, Entered, locals, Waiting
  <2> QED BY <2>1 DEF WaitsAt
<1>4. CASE ExitPath(t)
  <2>1. Keeps /\ Alike
    BY <1>4, <1>t DEF ExitPath, ExitNested, ExitKeep, ExitTrim, TrimList, ExitRelease, ExitTrimmed,
      ExitPost, Go, Return, Entered, locals, Waiting
  <2> QED BY <2>1 DEF WaitsAt
<1>5. CASE WaitPath(t)
  <2>1. CASE \E l \in Locations : WaitBegin(t, l)
    <3>1. PICK l \in Locations : WaitBegin(t, l)
      BY <2>1
    <3>2. Keeps /\ at'[t] = l /\ pc[t] = "idle"
      BY <1>t, <3>1 DEF WaitBegin, Go, Entered
    <3>3. depth[l][t] > 0
      BY <3>1 DEF WaitBegin, Owns, MonitorInv, LocationOK, OwnerOK
    <3> QED BY <3>2, <3>3 DEF WaitsAt, Waiting
  <2>2. CASE WaitPost(t) \/ WaitOver(t) \/ WaitReenter(t)
    <3>1. Keeps /\ Alike
      BY <1>t, <2>2 DEF WaitPost, WaitOver, WaitReenter, Go, locals, Waiting
    <3> QED BY <3>1 DEF WaitsAt
  <2>3. CASE WaitRestore(t)
    <3>1. PICK l \in Locations : l = at[t]
      BY <1>i, <2>3 DEF WaitRestore, ThreadOK
    <3>2. saved[t] > 0
      BY <1>i, <2>3 DEF WaitRestore, ThreadOK, Waiting
    <3>3. Keeps /\ depth'[l][t] = saved[t] /\ pc'[t] = "idle"
      BY <1>t, <2>3, <3>1 DEF WaitRestore, Go, Return, Entered
    <3> QED BY <3>1, <3>2, <3>3 DEF WaitsAt, Waiting
  <2> QED BY <1>5, <2>1, <2>2, <2>3 DEF WaitPath
<1>6. CASE DestroyThread(t)
  <2>1. Keeps /\ Alike
    BY <1>6, <1>t DEF DestroyThread, Go, locals, Waiting
  <2> QED BY <2>1 DEF WaitsAt
<1> QED BY <1>1, <1>2, <1>3, <1>4, <1>5, <1>6

\* The object is gone: its dead owner has left.
LEMMA AbsReclaimStep ==
    ASSUME MonitorInv, MonitorInv', NEW l \in Locations, NEW k \in Locations, Reclaim(k)
    PROVE  [Abs(l)!Next]_<<OwnerAt(l), WaitSetAt(l)>>
<1>i. TypeOK
  BY DEF MonitorInv
<1>1. /\ UNCHANGED <<pc, at>>
      /\ depth' = [depth EXCEPT ![k] = [s \in Threads |-> 0]]
  BY DEF Reclaim, locals
<1>2. WaitSetAt(l)' = WaitSetAt(l)
  BY <1>1 DEF WaitSetAt
<1>3. CASE l # k
  <2>1. depth'[l] = depth[l]
    BY <1>i, <1>1, <1>3 DEF TypeOK
  <2> QED BY <1>2, <2>1 DEF OwnerAt
<1>4. CASE l = k
  <2>1. \A s \in Threads : depth'[l][s] = 0
    BY <1>i, <1>1, <1>4 DEF TypeOK
  <2>2. OwnerAt(l)' = NoThread
    BY <2>1 DEF OwnerAt
  <2>3. CASE \E s \in Threads : depth[l][s] > 0
    <3>1. OwnerAt(l) \in Threads
      BY <2>3 DEF OwnerAt
    <3> QED BY <1>2, <2>2, <3>1 DEF Abs!Next, Abs!Release
  <2>4. CASE ~\E s \in Threads : depth[l][s] > 0
    BY <1>2, <2>2, <2>4 DEF OwnerAt
  <2> QED BY <2>3, <2>4
<1> QED BY <1>3, <1>4

\* The monitor of every object implements the abstract monitor: attaching,
\* trying and waiting in ILMonitorTimedTryEnter are the ways to acquire it,
\* ILMonitorExit and the collector release it, and ILMonitorTimedWait gives
\* it up and comes back as the owner.
THEOREM ImplementsMonitor == NoGiveUps => (Spec => AbsSpec)
<1> SUFFICES ASSUME NoGiveUps PROVE Spec => AbsSpec
  OBVIOUS
<1> DEFINE AbsStep == \A l \in Locations : [Abs(l)!Next]_<<OwnerAt(l), WaitSetAt(l)>>
<1>1. Init => \A l \in Locations : Abs(l)!Init
  BY DEF Init, Abs!Init, OwnerAt, WaitSetAt
<1>2. MonitorInv /\ MonitorInv' /\ [Next]_vars => [AbsStep]_vars
  <2> SUFFICES ASSUME MonitorInv, MonitorInv', Next, NEW l \in Locations
               PROVE  [Abs(l)!Next]_<<OwnerAt(l), WaitSetAt(l)>>
    OBVIOUS
  <2>1. ASSUME NEW t \in Threads,
               FastPath(t) \/ HardPath(t) \/ BlockedPath(t) \/ ExitPath(t) \/ WaitPath(t)
                 \/ DestroyThread(t)
        PROVE  [Abs(l)!Next]_<<OwnerAt(l), WaitSetAt(l)>>
    BY <2>1, ActorOnly, AbsThreadStep
  <2>2. ASSUME NEW k \in Locations, Reclaim(k)
        PROVE  [Abs(l)!Next]_<<OwnerAt(l), WaitSetAt(l)>>
    BY <2>2, AbsReclaimStep
  <2> QED BY <2>1, <2>2 DEF Next
<1> HIDE DEF AbsStep
<1>3. Spec => (\A l \in Locations : Abs(l)!Init) /\ [][AbsStep]_vars
  BY <1>1, <1>2, Invariance, PTL DEF Spec
<1> QED BY <1>3 DEF AbsSpec, AbsStep

=============================================================================
