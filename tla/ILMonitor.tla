------------------------------ MODULE ILMonitor ------------------------------
(***************************************************************************)
(* The monitors of objects: src/support/monitor.c.                         *)
(*                                                                         *)
(* An object has a location that holds a pointer to an ILMonitor while     *)
(* some thread uses the object as a monitor.  The ILMonitor is attached by *)
(* a compare and exchange, taken from a thread local freelist, from the    *)
(* pool's freelist or from the memory pool, and detached by the last user. *)
(* The fast path works without the pool lock; the slow path holds it, but  *)
(* not while it waits for the platform monitor (PtMonitor).                *)
(*                                                                         *)
(* The platform monitor appears as the token of its _enterLock and as the  *)
(* threads that wait on it (PtMonitor shows that it keeps the token).  A   *)
(* monitor in a freelist has no token: it counts as entered, because on    *)
(* this platform _ILMonitorAcquire and _ILMonitorRelease do nothing.       *)
(* The freelists are sets: which of their monitors is reused does not      *)
(* matter here.                                                            *)
(***************************************************************************)
EXTENDS Integers, FiniteSets

CONSTANTS Threads, Monitors, Locations,
          NoThread, NoMonitor, NoLocation,
          MinFree,   \* MIN_FREELIST_MONITORS
          MaxFree,   \* MAX_FREELIST_MONITORS
          MaxDepth,  \* bound on the recursion of Enter
          MaxToken,  \* bound on the tokens of a semaphore
          UserLimit, \* the values of monitor->users (2^32: it is unsigned)
          GiveUps    \* how a wait for the monitor may fail

ASSUME SetsAssumption ==
  /\ NoThread \notin Threads
  /\ NoMonitor \notin Monitors
  /\ NoLocation \notin Locations
  /\ IsFiniteSet(Threads)
  /\ IsFiniteSet(Monitors)
ASSUME BoundsAssumption ==
  /\ MinFree \in Nat \ {0} /\ MaxFree \in Nat /\ MinFree < MaxFree
  /\ MaxDepth \in Nat \ {0} /\ MaxToken \in Nat \ {0}
  /\ UserLimit \in Nat /\ UserLimit > Cardinality(Threads)
  /\ GiveUps \subseteq {"timeout", "interrupt", "abort"}

VARIABLES
  loc,        \* loc[l]: the monitor attached to location l
  owner,      \* monitor->owner
  enterCount, \* monitor->enterCount
  users,      \* monitor->users
  token,      \* tokens of monitor->monitor._enterLock
  usedList,   \* monitors allocated from the memory pool
  freeList,   \* the pool's freelist
  localFree,  \* thread->monitorFreeList
  poolLock,   \* the holder of _MonitorPool.lock
  pc,         \* control point of each thread
  at,         \* at[t]: the location t is called with
  mon,        \* mon[t]: the local variable monitor
  ms,         \* ms[t]: the timeout of Enter
  saved,      \* saved[t]: enterCount, saved by Wait
  batch,      \* batch[t]: monitors on the way to the pool's freelist
  depth       \* depth[l][t]: Enter calls of t on l without an Exit, as t sees it

shared == <<loc, owner, enterCount, users, token>>
lists == <<usedList, freeList, localFree, batch>>
locals == <<at, mon, ms, saved>>
vars == <<loc, owner, enterCount, users, token, usedList, freeList, localFree,
          poolLock, pc, at, mon, ms, saved, batch, depth>>

Timeouts == {"zero", "finite", "infinite"}

(* The thread holds the pool lock.                                         *)
Locked == {"attach", "reload", "check", "try", "enterWait"}

Control == Locked \cup
  {"idle", "cas", "lock", "blocked", "acquired", "giveUp", "giveBack", "post",
   "trim", "waitPost", "waiting", "reenter", "restore", "dead"}

-----------------------------------------------------------------------------
Init ==
  /\ loc = [l \in Locations |-> NoMonitor]
  /\ owner = [m \in Monitors |-> NoThread]
  /\ enterCount = [m \in Monitors |-> 0]
  /\ users = [m \in Monitors |-> 0]
  /\ token = [m \in Monitors |-> 0]
  /\ usedList = {}
  /\ freeList = {}
  /\ localFree = [t \in Threads |-> {}]
  /\ poolLock = NoThread
  /\ pc = [t \in Threads |-> "idle"]
  /\ at = [t \in Threads |-> NoLocation]
  /\ mon = [t \in Threads |-> NoMonitor]
  /\ ms = [t \in Threads |-> "zero"]
  /\ saved = [t \in Threads |-> 0]
  /\ batch = [t \in Threads |-> {}]
  /\ depth = [l \in Locations |-> [t \in Threads |-> 0]]

Inc(n) == (n + 1) % UserLimit
Dec(n) == (n - 1) % UserLimit

(* _ILMonitorExit: post the token of m.                                    *)
Post(m) ==
  /\ token[m] < MaxToken
  /\ token' = [token EXCEPT ![m] = @ + 1]

Go(t, c) == pc' = [pc EXCEPT ![t] = c]

(* The call returns: its local variables are gone.                         *)
Return(t) ==
  /\ Go(t, "idle")
  /\ at' = [at EXCEPT ![t] = NoLocation]
  /\ mon' = [mon EXCEPT ![t] = NoMonitor]
  /\ ms' = [ms EXCEPT ![t] = "zero"]
  /\ saved' = [saved EXCEPT ![t] = 0]

(* The call returns IL_THREAD_OK and the caller is inside the monitor.     *)
Entered(t, l, n) == depth' = [depth EXCEPT ![l][t] = n]

-----------------------------------------------------------------------------
(* ILMonitorTimedTryEnter, fast path.                                      *)

(* "I'm already the owner of this monitor."                                *)
EnterAgain(t, l) ==
  /\ pc[t] = "idle"
  /\ loc[l] # NoMonitor
  /\ owner[loc[l]] = t
  /\ enterCount[loc[l]] < MaxDepth
  /\ enterCount' = [enterCount EXCEPT ![loc[l]] = @ + 1]
  /\ Entered(t, l, depth[l][t] + 1)
  /\ UNCHANGED <<loc, owner, users, token, poolLock, pc, lists, locals>>

(* The load of the location: the compare and exchange, or the hard way.    *)
EnterLoad(t, l, k) ==
  /\ pc[t] = "idle"
  /\ loc[l] # NoMonitor => owner[loc[l]] # t
  /\ at' = [at EXCEPT ![t] = l]
  /\ ms' = [ms EXCEPT ![t] = k]
  /\ Go(t, IF loc[l] = NoMonitor /\ localFree[t] # {} THEN "cas" ELSE "lock")
  /\ UNCHANGED <<mon, saved, poolLock, depth, lists, shared>>

(* Mutant: the attached monitor stays in the local freelist.               *)
AttachShared(t, m) ==
  /\ loc' = [loc EXCEPT ![at[t]] = m]
  /\ Entered(t, at[t], 1)
  /\ Return(t)
  /\ UNCHANGED <<owner, enterCount, users, token, lists>>

(* Attach m, a monitor of the thread local freelist: the compare and       *)
(* exchange has found the location empty.                                  *)
AttachLocal(t, m) ==
  /\ loc' = [loc EXCEPT ![at[t]] = m]
  /\ localFree' = [localFree EXCEPT ![t] = @ \ {m}]
  /\ Entered(t, at[t], 1)
  /\ Return(t)
  /\ UNCHANGED <<owner, enterCount, users, token, usedList, freeList, batch>>

EnterCas(t) ==
  /\ pc[t] = "cas"
  /\ UNCHANGED poolLock
  /\ \/ /\ loc[at[t]] = NoMonitor
        /\ \E m \in localFree[t] : AttachLocal(t, m)
     \/ /\ loc[at[t]] # NoMonitor
        /\ Go(t, "lock")
        /\ UNCHANGED <<locals, depth, lists, shared>>

-----------------------------------------------------------------------------
(* ILMonitorTimedTryEnter, with the pool lock.                             *)

(* Lock the monitor system and load the location again.                    *)
EnterLock(t) ==
  /\ pc[t] = "lock"
  /\ poolLock = NoThread
  /\ poolLock' = t
  /\ mon' = [mon EXCEPT ![t] = loc[at[t]]]
  /\ Go(t, IF loc[at[t]] = NoMonitor THEN "attach" ELSE "check")
  /\ UNCHANGED <<at, ms, saved, depth, lists, shared>>

(* The location was empty and there is a monitor in the local freelist.    *)
EnterAttachLocal(t) ==
  /\ pc[t] = "attach"
  /\ localFree[t] # {}
  /\ \/ /\ loc[at[t]] = NoMonitor
        /\ \E m \in localFree[t] : AttachLocal(t, m)
        /\ poolLock' = NoThread
     \/ /\ loc[at[t]] # NoMonitor
        /\ Go(t, "reload")
        /\ UNCHANGED <<poolLock, locals, depth, lists, shared>>

(* _ILMonitorPoolAllocMonitor: reuse a monitor of the pool's freelist, or  *)
(* take one from the memory pool and initialize it (ILMonitorInit).        *)
AllocMonitor(t, m) ==
  /\ \/ m \in freeList /\ UNCHANGED <<token, usedList>>
     \/ /\ freeList = {}
        /\ m \in Monitors \ usedList
        /\ usedList' = usedList \cup {m}
        /\ token' = [token EXCEPT ![m] = 0]
  /\ freeList' = freeList \ {m}
  /\ owner' = [owner EXCEPT ![m] = t]
  /\ enterCount' = [enterCount EXCEPT ![m] = 1]
  /\ users' = [users EXCEPT ![m] = 1]

(* The location was empty: allocate a monitor and try to attach it.  When  *)
(* the exchange fails the allocated monitor is not given back.             *)
EnterAttachNew(t) ==
  /\ pc[t] = "attach"
  /\ localFree[t] = {}
  /\ \E m \in Monitors : AllocMonitor(t, m)
       /\ \/ /\ loc[at[t]] = NoMonitor
             /\ loc' = [loc EXCEPT ![at[t]] = m]
             /\ Entered(t, at[t], 1)
             /\ Return(t)
             /\ poolLock' = NoThread
          \/ /\ loc[at[t]] # NoMonitor
             /\ Go(t, "reload")
             /\ UNCHANGED <<loc, depth, poolLock, locals>>
  /\ UNCHANGED <<localFree, batch>>

(* IL_THREAD_ERR_OUTOFMEMORY.                                              *)
EnterNoMemory(t) ==
  /\ pc[t] = "attach"
  /\ localFree[t] = {} /\ freeList = {} /\ usedList = Monitors
  /\ poolLock' = NoThread
  /\ Return(t)
  /\ UNCHANGED <<depth, lists, shared>>

EnterReload(t) ==
  /\ pc[t] = "reload"
  /\ mon' = [mon EXCEPT ![t] = loc[at[t]]]
  /\ Go(t, "check")
  /\ UNCHANGED <<at, ms, saved, poolLock, depth, lists, shared>>

(* Nobody owns the monitor: try to take it under the pool lock.  With a    *)
(* zero timeout the answer is IL_THREAD_BUSY otherwise.                    *)
EnterBusy(t) ==
  /\ ms[t] = "zero"
  /\ poolLock' = NoThread
  /\ Return(t)

EnterCheck(t) ==
  /\ pc[t] = "check"
  /\ \/ /\ owner[mon[t]] = NoThread
        /\ Go(t, "try")
        /\ UNCHANGED <<poolLock, locals>>
     \/ owner[mon[t]] # NoThread /\ EnterBusy(t)
     \/ /\ owner[mon[t]] # NoThread /\ ms[t] # "zero"
        /\ Go(t, "enterWait")
        /\ UNCHANGED <<poolLock, locals>>
  /\ UNCHANGED <<depth, lists, shared>>

(* _ILMonitorTryEnter has answered: the caller becomes the owner and the   *)
(* monitor has n users.                                                    *)
TryOwn(t, n) ==
  /\ token' = [token EXCEPT ![mon[t]] = @ - 1]
  /\ users' = [users EXCEPT ![mon[t]] = n]
  /\ owner' = [owner EXCEPT ![mon[t]] = t]
  /\ enterCount' = [enterCount EXCEPT ![mon[t]] = 1]
  /\ Entered(t, at[t], 1)
  /\ poolLock' = NoThread
  /\ Return(t)
  /\ UNCHANGED <<loc, lists>>

(* Mutants: the answer is ignored; the thread is not added to the users.   *)
EnterTryAnyway(t) == pc[t] = "try" /\ TryOwn(t, Inc(users[mon[t]]))
EnterTryUncounted(t) ==
  pc[t] = "try" /\ token[mon[t]] > 0 /\ TryOwn(t, users[mon[t]])

EnterTry(t) ==
  /\ pc[t] = "try"
  /\ token[mon[t]] > 0
  /\ TryOwn(t, Inc(users[mon[t]]))

EnterTryBusy(t) ==
  /\ pc[t] = "try"
  /\ token[mon[t]] = 0
  /\ \/ EnterBusy(t)
     \/ ms[t] # "zero" /\ Go(t, "enterWait") /\ UNCHANGED <<poolLock, locals>>
  /\ UNCHANGED <<depth, lists, shared>>

(* _ILThreadEnterWaitState: an abort is pending, or join the users and     *)
(* wait for the platform monitor without the pool lock.                    *)
EnterAborted(t) ==
  /\ pc[t] = "enterWait"
  /\ "abort" \in GiveUps
  /\ poolLock' = NoThread
  /\ Return(t)
  /\ UNCHANGED <<depth, lists, shared>>

EnterWait(t) ==
  /\ pc[t] = "enterWait"
  /\ users' = [users EXCEPT ![mon[t]] = Inc(@)]
  /\ poolLock' = NoThread
  /\ Go(t, "blocked")
  /\ UNCHANGED <<loc, owner, enterCount, token, depth, lists, locals>>

-----------------------------------------------------------------------------
(* ILMonitorTimedTryEnter, after the pool lock has been released.          *)

(* _ILMonitorTimedTryEnter takes the token ...                             *)
EnterAcquire(t) ==
  /\ pc[t] = "blocked"
  /\ token[mon[t]] > 0
  /\ token' = [token EXCEPT ![mon[t]] = @ - 1]
  /\ Go(t, "acquired")
  /\ UNCHANGED <<loc, owner, enterCount, users, poolLock, depth, lists, locals>>

(* ... or returns without it.                                              *)
EnterFails(t) ==
  /\ pc[t] = "blocked"
  /\ \/ "timeout" \in GiveUps /\ ms[t] = "finite"
     \/ "interrupt" \in GiveUps
  /\ Go(t, "giveUp")
  /\ UNCHANGED <<poolLock, depth, lists, locals, shared>>

(* _ILThreadLeaveWaitState has nothing to report: the monitor is ours.     *)
EnterOwn(t) ==
  /\ pc[t] = "acquired"
  /\ owner' = [owner EXCEPT ![mon[t]] = t]
  /\ enterCount' = [enterCount EXCEPT ![mon[t]] = 1]
  /\ Entered(t, at[t], 1)
  /\ Return(t)
  /\ UNCHANGED <<loc, users, token, poolLock, lists>>

(* It reports an interrupt or an abort: the monitor has to be left.        *)
EnterInterrupted(t) ==
  /\ pc[t] = "acquired"
  /\ GiveUps \cap {"interrupt", "abort"} # {}
  /\ Go(t, "giveBack")
  /\ UNCHANGED <<poolLock, depth, lists, locals, shared>>

(* "Remove me from the user list", and leave the platform monitor if we    *)
(* got it.  If we were the last, the monitor goes to the pool's freelist   *)
(* and the location is cleared.  All of it under the pool lock.            *)
LeaveUsers(t, last) ==
  /\ pc[t] \in {"giveUp", "giveBack"}
  /\ poolLock = NoThread
  /\ IF pc[t] = "giveBack" THEN Post(mon[t]) ELSE UNCHANGED token
  /\ users' = [users EXCEPT ![mon[t]] = Dec(@)]
  /\ freeList' = IF last THEN freeList \cup {mon[t]} ELSE freeList
  /\ loc' = IF last THEN [loc EXCEPT ![at[t]] = NoMonitor] ELSE loc
  /\ Return(t)
  /\ UNCHANGED <<owner, enterCount, usedList, localFree, batch, poolLock, depth>>

(* Mutant: the monitor is given to the freelist when one user is left.     *)
GiveUpTooSoon(t) == LeaveUsers(t, Dec(users[mon[t]]) <= 1)

EnterGiveUp(t) == LeaveUsers(t, Dec(users[mon[t]]) = 0)

-----------------------------------------------------------------------------
(* ILMonitorExit.  A thread that is not the owner gets                     *)
(* IL_THREAD_ERR_SYNCLOCK and changes nothing.                             *)
Owns(t, l) == loc[l] # NoMonitor /\ owner[loc[l]] = t

ExitNested(t, l) ==
  /\ pc[t] = "idle"
  /\ Owns(t, l)
  /\ enterCount[loc[l]] > 1
  /\ enterCount' = [enterCount EXCEPT ![loc[l]] = @ - 1]
  /\ Entered(t, l, depth[l][t] - 1)
  /\ UNCHANGED <<loc, owner, users, token, poolLock, pc, lists, locals>>

(* "I'm the only thread in this monitor": clear the location and keep the  *)
(* monitor, still owned, in the local freelist.                            *)
ExitKeep(t, l) ==
  /\ pc[t] = "idle"
  /\ Owns(t, l) /\ enterCount[loc[l]] <= 1 /\ users[loc[l]] <= 1
  /\ poolLock = NoThread
  /\ Cardinality(localFree[t]) < MaxFree
  /\ loc' = [loc EXCEPT ![l] = NoMonitor]
  /\ localFree' = [localFree EXCEPT ![t] = @ \cup {loc[l]}]
  /\ Entered(t, l, 0)
  /\ UNCHANGED <<owner, enterCount, users, token, usedList, freeList, batch, poolLock,
                 pc, locals>>

(* The local freelist is full: keep MinFree monitors and take the others   *)
(* and this one to the pool's freelist, without owner and with u users.    *)
TrimList(t, l, u) ==
  /\ pc[t] = "idle"
  /\ Owns(t, l) /\ enterCount[loc[l]] <= 1 /\ users[loc[l]] <= 1
  /\ poolLock = NoThread
  /\ Cardinality(localFree[t]) >= MaxFree
  /\ \E keep \in SUBSET localFree[t] :
       LET out == (localFree[t] \ keep) \cup {loc[l]}
       IN /\ Cardinality(keep) = MinFree
          /\ localFree' = [localFree EXCEPT ![t] = keep]
          /\ batch' = [batch EXCEPT ![t] = out]
          /\ owner' = [m \in Monitors |-> IF m \in out THEN NoThread ELSE owner[m]]
          /\ users' = [m \in Monitors |-> IF m \in out THEN u ELSE users[m]]
  /\ loc' = [loc EXCEPT ![l] = NoMonitor]
  /\ Entered(t, l, 0)
  /\ Go(t, "trim")
  /\ UNCHANGED <<enterCount, token, usedList, freeList, poolLock, locals>>

(* Mutant: the users of the monitors that leave are not reset.             *)
ExitTrimInUse(t, l) == TrimList(t, l, 1)

ExitTrim(t, l) == TrimList(t, l, 0)

ExitTrimmed(t) ==
  /\ pc[t] = "trim"
  /\ poolLock = NoThread
  /\ freeList' = freeList \cup batch[t]
  /\ batch' = [batch EXCEPT ![t] = {}]
  /\ Go(t, "idle")
  /\ UNCHANGED <<usedList, localFree, poolLock, depth, locals, shared>>

(* Others use the monitor: leave it, and release it for them after the     *)
(* pool lock.                                                              *)
ExitRelease(t, l) ==
  /\ pc[t] = "idle"
  /\ Owns(t, l) /\ enterCount[loc[l]] <= 1 /\ users[loc[l]] > 1
  /\ poolLock = NoThread
  /\ users' = [users EXCEPT ![loc[l]] = Dec(@)]
  /\ owner' = [owner EXCEPT ![loc[l]] = NoThread]
  /\ enterCount' = [enterCount EXCEPT ![loc[l]] = 0]
  /\ mon' = [mon EXCEPT ![t] = loc[l]]
  /\ Entered(t, l, 0)
  /\ Go(t, "post")
  /\ UNCHANGED <<loc, token, poolLock, at, ms, saved, lists>>

(* Mutant: the platform monitor is not left.                               *)
ExitSilently(t) ==
  /\ pc[t] = "post"
  /\ Return(t)
  /\ UNCHANGED <<poolLock, depth, lists, shared>>

ExitPost(t) ==
  /\ pc[t] = "post"
  /\ Post(mon[t])
  /\ Return(t)
  /\ UNCHANGED <<loc, owner, enterCount, users, poolLock, depth, lists>>

-----------------------------------------------------------------------------
(* Mutant: the owner is not cleared before the wait.                       *)
WaitOwned(t, l) ==
  /\ pc[t] = "idle"
  /\ Owns(t, l)
  /\ at' = [at EXCEPT ![t] = l]
  /\ mon' = [mon EXCEPT ![t] = loc[l]]
  /\ saved' = [saved EXCEPT ![t] = enterCount[loc[l]]]
  /\ enterCount' = [enterCount EXCEPT ![loc[l]] = 0]
  /\ Entered(t, l, 0)
  /\ Go(t, "waitPost")
  /\ UNCHANGED <<loc, owner, users, token, ms, poolLock, lists>>

(* ILMonitorTimedWait, called by the owner.                                *)
WaitBegin(t, l) ==
  /\ pc[t] = "idle"
  /\ Owns(t, l)
  /\ at' = [at EXCEPT ![t] = l]
  /\ mon' = [mon EXCEPT ![t] = loc[l]]
  /\ saved' = [saved EXCEPT ![t] = enterCount[loc[l]]]
  /\ enterCount' = [enterCount EXCEPT ![loc[l]] = 0]
  /\ owner' = [owner EXCEPT ![loc[l]] = NoThread]
  /\ Entered(t, l, 0)
  /\ Go(t, "waitPost")
  /\ UNCHANGED <<loc, users, token, ms, poolLock, lists>>

(* _ILMonitorTimedWait releases the token, waits for a pulse, a timeout or *)
(* an interrupt, and takes the token again.                                *)
WaitPost(t) ==
  /\ pc[t] = "waitPost"
  /\ Post(mon[t])
  /\ Go(t, "waiting")
  /\ UNCHANGED <<loc, owner, enterCount, users, poolLock, depth, lists, locals>>

(* Mutant: the wait returns without the token.                             *)
WaitOverUnowned(t) ==
  /\ pc[t] = "waiting"
  /\ Go(t, "restore")
  /\ UNCHANGED <<poolLock, depth, lists, locals, shared>>

WaitOver(t) ==
  /\ pc[t] = "waiting"
  /\ Go(t, "reenter")
  /\ UNCHANGED <<poolLock, depth, lists, locals, shared>>

WaitReenter(t) ==
  /\ pc[t] = "reenter"
  /\ token[mon[t]] > 0
  /\ token' = [token EXCEPT ![mon[t]] = @ - 1]
  /\ Go(t, "restore")
  /\ UNCHANGED <<loc, owner, enterCount, users, poolLock, depth, lists, locals>>

(* Mutant: the monitor comes back as if entered once.                      *)
WaitRestoreOnce(t) ==
  /\ pc[t] = "restore"
  /\ enterCount' = [enterCount EXCEPT ![mon[t]] = 1]
  /\ owner' = [owner EXCEPT ![mon[t]] = t]
  /\ Entered(t, at[t], saved[t])
  /\ Return(t)
  /\ UNCHANGED <<loc, users, token, poolLock, lists>>

(* The saved enterCount and the owner are put back.                        *)
WaitRestore(t) ==
  /\ pc[t] = "restore"
  /\ enterCount' = [enterCount EXCEPT ![mon[t]] = saved[t]]
  /\ owner' = [owner EXCEPT ![mon[t]] = t]
  /\ Entered(t, at[t], saved[t])
  /\ Return(t)
  /\ UNCHANGED <<loc, users, token, poolLock, lists>>

(* _ILMonitorDestroyThread: the local freelist goes to the pool.           *)
DestroyThread(t) ==
  /\ pc[t] = "idle"
  /\ localFree[t] # {} => poolLock = NoThread
  /\ owner' = [m \in Monitors |-> IF m \in localFree[t] THEN NoThread ELSE owner[m]]
  /\ users' = [m \in Monitors |-> IF m \in localFree[t] THEN 0 ELSE users[m]]
  /\ freeList' = freeList \cup localFree[t]
  /\ localFree' = [localFree EXCEPT ![t] = {}]
  /\ Go(t, "dead")
  /\ UNCHANGED <<loc, enterCount, token, usedList, batch, poolLock, depth, locals>>

(* ILMonitorReclaim: the collector destroys an object that no thread can   *)
(* reach, to which a thread that died inside has left a monitor attached.  *)
(* The monitor goes back to the memory pool; the location stands for the   *)
(* next object.                                                            *)
Unreachable(l) ==
  \A t \in Threads : pc[t] = "dead" \/ (depth[l][t] = 0 /\ at[t] # l)

Reclaim(l) ==
  /\ loc[l] # NoMonitor
  /\ Unreachable(l)
  /\ poolLock = NoThread
  /\ loc' = [loc EXCEPT ![l] = NoMonitor]
  /\ usedList' = usedList \ {loc[l]}
  /\ owner' = [owner EXCEPT ![loc[l]] = NoThread]
  /\ enterCount' = [enterCount EXCEPT ![loc[l]] = 0]
  /\ users' = [users EXCEPT ![loc[l]] = 0]
  /\ depth' = [depth EXCEPT ![l] = [t \in Threads |-> 0]]
  /\ UNCHANGED <<token, freeList, localFree, batch, poolLock, pc, locals>>

-----------------------------------------------------------------------------
FastPath(t) ==
  \/ \E l \in Locations : EnterAgain(t, l)
  \/ \E l \in Locations, k \in Timeouts : EnterLoad(t, l, k)
  \/ EnterCas(t)

HardPath(t) ==
  \/ EnterLock(t) \/ EnterAttachLocal(t) \/ EnterAttachNew(t) \/ EnterNoMemory(t)
  \/ EnterReload(t) \/ EnterCheck(t) \/ EnterTry(t) \/ EnterTryBusy(t)
  \/ EnterAborted(t) \/ EnterWait(t)

BlockedPath(t) ==
  \/ EnterAcquire(t) \/ EnterFails(t) \/ EnterOwn(t) \/ EnterInterrupted(t)
  \/ EnterGiveUp(t)

ExitPath(t) ==
  \/ \E l \in Locations :
       ExitNested(t, l) \/ ExitKeep(t, l) \/ ExitTrim(t, l) \/ ExitRelease(t, l)
  \/ ExitTrimmed(t) \/ ExitPost(t)

WaitPath(t) ==
  \/ \E l \in Locations : WaitBegin(t, l)
  \/ WaitPost(t) \/ WaitOver(t) \/ WaitReenter(t) \/ WaitRestore(t)

Next ==
  \/ \E t \in Threads :
       FastPath(t) \/ HardPath(t) \/ BlockedPath(t) \/ ExitPath(t) \/ WaitPath(t)
         \/ DestroyThread(t)
  \/ \E l \in Locations : Reclaim(l)

Spec == Init /\ [][Next]_vars

(* A thread inside a call goes on, a thread that is inside a monitor exits *)
(* it in the end, and neither the pool lock nor the semaphore passes a     *)
(* thread over for ever.  Nothing says that a waiting thread is pulsed.    *)
CallStep(t) ==
  \/ EnterCas(t) \/ HardPath(t) \/ EnterOwn(t) \/ EnterGiveUp(t)
  \/ ExitTrimmed(t) \/ ExitPost(t) \/ WaitPost(t) \/ WaitRestore(t)

ExitLast(t) ==
  \E l \in Locations : ExitKeep(t, l) \/ ExitTrim(t, l) \/ ExitRelease(t, l)

Fairness ==
  \A t \in Threads :
    /\ SF_vars(CallStep(t))
    /\ SF_vars(EnterAcquire(t) \/ WaitReenter(t))
    /\ SF_vars(\E l \in Locations : ExitNested(t, l))
    /\ SF_vars(ExitLast(t))

FairSpec == Spec /\ Fairness

-----------------------------------------------------------------------------
(* Properties.                                                             *)

TypeOK ==
  /\ loc \in [Locations -> Monitors \cup {NoMonitor}]
  /\ owner \in [Monitors -> Threads \cup {NoThread}]
  /\ enterCount \in [Monitors -> Nat]
  /\ users \in [Monitors -> 0..(UserLimit - 1)]
  /\ token \in [Monitors -> Nat]
  /\ usedList \subseteq Monitors
  /\ freeList \subseteq Monitors
  /\ localFree \in [Threads -> SUBSET Monitors]
  /\ poolLock \in Threads \cup {NoThread}
  /\ pc \in [Threads -> Control]
  /\ at \in [Threads -> Locations \cup {NoLocation}]
  /\ mon \in [Threads -> Monitors \cup {NoMonitor}]
  /\ ms \in [Threads -> Timeouts]
  /\ saved \in [Threads -> Nat]
  /\ batch \in [Threads -> SUBSET Monitors]
  /\ depth \in [Locations -> [Threads -> Nat]]

(* "The owner should be 0 at this point." (ILMonitorTimedTryEnter, where a *)
(* thread that waited for the monitor makes itself the owner.)             *)
OwnerIsClear ==
  \A t \in Threads : pc[t] = "acquired" => owner[mon[t]] = NoThread

(* The thread is counted in monitor->users on account of the call it is in.*)
Calling == {"blocked", "acquired", "giveUp", "giveBack", "waitPost", "waiting",
            "reenter", "restore"}

(* The monitor that a thread has read from the location and now uses       *)
(* without the pool lock stays attached to that location (it is never null *)
(* and never recycled for another object) until the thread is done.        *)
StaysAttached ==
  \A t \in Threads :
    pc[t] \in Calling \cup {"check", "try", "enterWait"} =>
      mon[t] \in Monitors /\ loc[at[t]] = mon[t]

(* A thread inside a monitor is its owner with the right count, so that    *)
(* two threads are never inside the monitor of one object, whichever paths *)
(* of ILMonitorTimedTryEnter let them in, Exit, Wait or Pulse never fail   *)
(* with IL_THREAD_ERR_SYNCLOCK and the last Exit is the one that leaves.   *)
InsideOwns ==
  \A l \in Locations, t \in Threads :
    depth[l][t] > 0 => Owns(t, l) /\ enterCount[loc[l]] = depth[l][t]

(* monitor->users counts the threads inside the monitor and those in calls *)
(* that wait for it: it decides in ILMonitorExit whether the monitor may   *)
(* be detached.                                                            *)
UsersCounted ==
  \A l \in Locations :
    loc[l] # NoMonitor =>
      users[loc[l]] = Cardinality({t \in Threads : depth[l][t] > 0 \/
                                     (pc[t] \in Calling /\ at[t] = l)})

(* A monitor in a freelist is attached to no location, has no user and no  *)
(* token: the next thread that takes it is its only owner ("The monitor is *)
(* owned by the current if the function returns success").                 *)
Attached == {loc[l] : l \in Locations} \ {NoMonitor}
FreeIsIdle ==
  /\ \A m \in freeList :
       /\ m \in usedList \ Attached
       /\ owner[m] = NoThread /\ users[m] = 0 /\ token[m] = 0
  /\ \A t \in Threads : \A m \in localFree[t] :
       /\ m \in usedList \ (Attached \cup freeList)
       /\ owner[m] = t /\ users[m] = 1 /\ token[m] = 0 /\ enterCount[m] = 1

(* An object's monitor is its own: no other object has it, and no freelist *)
(* from which another thread would attach it to a second object.           *)
OneHome ==
  /\ \A l, k \in Locations : loc[l] = loc[k] /\ loc[l] # NoMonitor => l = k
  /\ Attached \cap (freeList \cup UNION {localFree[t] \cup batch[t] : t \in Threads}) = {}

(* Unless some thread dies inside a monitor, a thread that asks for one    *)
(* gets an answer.                                                         *)
DiesInside == \E t \in Threads, l \in Locations : pc[t] = "dead" /\ depth[l][t] > 0
EnterReturns ==
  [](~DiesInside) =>
    \A t \in Threads : pc[t] \in {"lock", "blocked", "reenter"} ~> pc[t] = "idle"

(* The monitor of one object implements the abstract monitor.              *)
OwnerAt(l) ==
  IF \E t \in Threads : depth[l][t] > 0
  THEN CHOOSE t \in Threads : depth[l][t] > 0 ELSE NoThread
WaitSetAt(l) ==
  {t \in Threads : at[t] = l /\ pc[t] \in {"waitPost", "waiting", "reenter", "restore"}}
Abs(l) == INSTANCE MonitorAbs WITH owner <- OwnerAt(l), waitSet <- WaitSetAt(l)
AbsSpec ==
  /\ \A l \in Locations : Abs(l)!Init
  /\ [][\A l \in Locations : [Abs(l)!Next]_<<OwnerAt(l), WaitSetAt(l)>>]_vars
=============================================================================
