----------------------------- MODULE WaitHandle -----------------------------
(***************************************************************************)
(* Wait handles: the wakeup objects of src/support/wakeup.c, the waits of  *)
(* src/support/wait.c, and the mutexes and events of wait_mutex.c and      *)
(* wait_event.c that threads wait for.                                     *)
(*                                                                         *)
(* A thread that waits sets the limit of its wakeup, registers with each   *)
(* handle (which it may acquire at once), sleeps until its wakeup has been *)
(* signalled "limit" times, and unregisters from each handle.  The thread  *)
(* that releases a mutex hands it over: it makes the wakeup that it could  *)
(* signal the owner.  Interrupts, aborts and timeouts may come between any *)
(* two of those steps.                                                     *)
(*                                                                         *)
(* Each action is one critical section: of a handle's lock (with the       *)
(* wakeups it signals), of a wakeup's lock or of the thread's lock.        *)
(***************************************************************************)
EXTENDS Integers, FiniteSets, SequencesExt

CONSTANTS Threads, Mutexes, Events, NoThread, NoHandle,
          ManualReset, \* the events that are reset by hand
          Calls,       \* the calls: kind (ILWaitOne, ILWaitAny, ILWaitAll) and handles
          Capacity,    \* size of ownedMutexes when it is allocated (13)
          GrownCapacity, \* its size once it has grown (29)
          MaxCount,    \* bound on the recursion of a mutex
          Disturbs,    \* what may end a wait early
          AllocFails   \* TRUE iff ILMalloc and ILCalloc may fail

ASSUME HandlesAssumption ==
  /\ IsFiniteSet(Threads)
  /\ NoThread \notin Threads
  /\ Mutexes \cap Events = {}
  /\ NoHandle \notin Mutexes \cup Events
  /\ ManualReset \subseteq Events
ASSUME CallsAssumption ==
  /\ \A c \in Calls :
       /\ c.kind \in {"one", "any", "all"}
       /\ c.handles \in Seq(Mutexes \cup Events) /\ c.handles # <<>>
       /\ c.kind = "one" => Len(c.handles) = 1
       /\ \A i, j \in DOMAIN c.handles : c.handles[i] = c.handles[j] => i = j
  /\ MaxCount \in Nat \ {0}
  /\ Capacity \in Nat \ {0}
  /\ GrownCapacity \in Nat /\ Capacity < GrownCapacity
  /\ Disturbs \subseteq {"timeout", "interrupt", "abort"}
  /\ AllocFails \in BOOLEAN

Handles == Mutexes \cup Events

NoRequest == [kind |-> "none", handles |-> <<>>]

VARIABLES
  owner,       \* mutex->owner
  count,       \* mutex->count
  queue,       \* the wakeup queue of each handle
  isSet,       \* EVENT_SET_MASK of event->data
  table,       \* table[t][m]: how often m is in wakeup->ownedMutexes of t
  owned,       \* wakeup->ownedMutexesCount
  capacity,    \* wakeup->ownedMutexesCapacity
  wcount,      \* wakeup->count
  limit,       \* wakeup->limit
  object,      \* wakeup->object
  interrupted, \* the threads whose wakeup->interrupted is set
  intr,        \* the threads with IL_TS_INTERRUPTED
  abortReq,    \* the threads with IL_TS_ABORT_REQUESTED
  wsj,         \* the threads with IL_TS_WAIT_SLEEP_JOIN
  toWake,      \* the threads whose wakeup is about to be interrupted
  pc, req,     \* control point and call of each thread
  todo,        \* the handles of the current loop that are left
  need,        \* the local variable limit of ILWaitAll
  res,         \* the result of the call, so far
  hit,         \* the handle that was acquired, as far as the call knows
  held         \* held[t][m]: times t was told that it has m, less its releases

tableVars == <<table, owned, capacity>>
mutexVars == <<owner, count, tableVars>>
handleVars == <<owner, count, tableVars, queue, isSet>>
wakeupVars == <<wcount, limit, object>>
stateVars == <<intr, abortReq, wsj, toWake>>
callVars == <<req, todo, need, res, hit, held>>
vars == <<owner, count, queue, isSet, table, owned, capacity, wcount, limit, object,
          interrupted, intr, abortReq, wsj, toWake, pc, req, todo, need, res, hit,
          held>>

Results == {"none", "ok", "timeout", "failed", "interrupted"}
Control == {"idle", "enter", "setLimit", "register", "undo", "adjust", "sleep",
            "waiting", "unregister", "leave", "leaveStore", "giveBack",
            "crashed", "dying", "dead"}

Init ==
  /\ owner = [m \in Mutexes |-> NoThread]
  /\ count = [m \in Mutexes |-> 0]
  /\ queue = [h \in Handles |-> <<>>]
  /\ isSet \in [Events -> BOOLEAN]
  /\ table = [t \in Threads |-> [m \in Mutexes |-> 0]]
  /\ owned = [t \in Threads |-> 0]
  /\ capacity = [t \in Threads |-> Capacity]
  /\ wcount = [t \in Threads |-> 0]
  /\ limit = [t \in Threads |-> 0]
  /\ object = [t \in Threads |-> NoHandle]
  /\ interrupted = {} /\ intr = {} /\ abortReq = {} /\ wsj = {} /\ toWake = {}
  /\ pc = [t \in Threads |-> "idle"]
  /\ req = [t \in Threads |-> NoRequest]
  /\ todo = [t \in Threads |-> <<>>]
  /\ need = [t \in Threads |-> 0]
  /\ res = [t \in Threads |-> "none"]
  /\ hit = [t \in Threads |-> NoHandle]
  /\ held = [t \in Threads |-> [m \in Mutexes |-> 0]]

Go(t, c) == pc' = [pc EXCEPT ![t] = c]
Set(f, t, v) == [f EXCEPT ![t] = v]

(* The call returns: its local variables are gone.                         *)
Return(t) ==
  /\ Go(t, "idle")
  /\ req' = Set(req, t, NoRequest)
  /\ todo' = Set(todo, t, <<>>)
  /\ need' = Set(need, t, 0)
  /\ res' = Set(res, t, "none")
  /\ hit' = Set(hit, t, NoHandle)

-----------------------------------------------------------------------------
(* Wakeups and their queues.                                               *)

(* Mutant: the last signal before the limit is not counted.                *)
CountsShort(u) == u \notin interrupted /\ wcount[u] + 1 < limit[u]

(* _ILWakeupSignal counts the signal, and returns 1 when that reaches the  *)
(* limit.                                                                  *)
Counts(u) == u \notin interrupted /\ wcount[u] < limit[u]
Reaches(u) == Counts(u) /\ wcount[u] + 1 >= limit[u]

(* Signal the wakeups of S with the object h.                              *)
Signal(S, h) ==
  /\ wcount' = [u \in Threads |-> IF u \in S /\ Counts(u) THEN wcount[u] + 1 ELSE wcount[u]]
  /\ object' = [u \in Threads |-> IF u \in S /\ Counts(u) THEN h ELSE object[u]]
  /\ UNCHANGED limit

(* _ILWakeupQueueWake takes items from q until one reaches its limit.      *)
Ready(q) == {i \in DOMAIN q : Reaches(q[i])}
First(q) == IF Ready(q) = {} THEN Len(q) + 1 ELSE Min(Ready(q))
Woken(q) == IF First(q) <= Len(q) THEN q[First(q)] ELSE NoThread
Taken(q) == {q[i] : i \in {j \in DOMAIN q : j <= First(q)}}
Left(q) == SubSeq(q, First(q) + 1, Len(q))

(* _ILWakeupQueueRemove: the first item of the wakeup.                     *)
Without(q, t) == RemoveFirst(q, t)

-----------------------------------------------------------------------------
(* Handles.                                                                *)

(* AddMutexToWakeup.  A full table grows, and each of its entries becomes  *)
(* one of the new mutex; without memory for that the mutex is not added.   *)
(* The loop over the primes ends at the second of them whatever the size   *)
(* was: a table that is full after it has grown has no empty bucket, and   *)
(* the search for one never ends, which is no step here.                   *)
Full(t) == owned[t] >= capacity[t]

AddToTable(t, m) ==
  \/ /\ ~Full(t)
     /\ table' = [table EXCEPT ![t][m] = @ + 1]
     /\ owned' = [owned EXCEPT ![t] = @ + 1]
     /\ UNCHANGED capacity
  \/ /\ Full(t) /\ owned[t] < GrownCapacity
     /\ table' = [table EXCEPT ![t] =
                    [x \in Mutexes |-> IF x = m THEN owned[t] + 1 ELSE 0]]
     /\ owned' = [owned EXCEPT ![t] = @ + 1]
     /\ capacity' = [capacity EXCEPT ![t] = GrownCapacity]
  \/ /\ Full(t) /\ AllocFails
     /\ UNCHANGED tableVars

(* Mutant: the mutex stays in ownedMutexes.                                *)
RemoveNothing(t, m) == UNCHANGED tableVars

(* RemoveMutexFromWakeup clears one entry of the mutex, if it finds one.   *)
RemoveFromTable(t, m) ==
  \/ /\ table[t][m] > 0
     /\ table' = [table EXCEPT ![t][m] = @ - 1]
     /\ owned' = [owned EXCEPT ![t] = @ - 1]
     /\ UNCHANGED capacity
  \/ table[t][m] = 0 /\ UNCHANGED tableVars

(* Mutant: nobody in the queue is woken.                                   *)
HandOverNobody(t, m, q) ==
  /\ RemoveFromTable(t, m)
  /\ owner' = [owner EXCEPT ![m] = NoThread]
  /\ count' = [count EXCEPT ![m] = 0]
  /\ queue' = [queue EXCEPT ![m] = q]
  /\ UNCHANGED wakeupVars

(* The last release of m by t, of which q is left as the queue: find       *)
(* something else to give the ownership of the mutex to.                   *)
HandOver(t, m, q) ==
  /\ RemoveFromTable(t, m)
  /\ owner' = [owner EXCEPT ![m] = Woken(q)]
  /\ count' = [count EXCEPT ![m] = IF Woken(q) = NoThread THEN 0 ELSE 1]
  /\ queue' = [queue EXCEPT ![m] = Left(q)]
  /\ Signal(Taken(q), m)

(* MutexRegister, EventRegister: acquire the handle ...                    *)
Available(t, h) ==
  IF h \in Mutexes THEN owner[h] \in {NoThread, t} ELSE isSet[h]

Acquire(t, h) ==
  \/ /\ h \in Mutexes
     /\ owner' = [owner EXCEPT ![h] = t]
     /\ count' = [count EXCEPT ![h] = IF owner[h] = t THEN @ + 1 ELSE 1]
     /\ IF owner[h] = t THEN UNCHANGED tableVars ELSE AddToTable(t, h)
     /\ UNCHANGED <<queue, isSet>>
  \/ /\ h \in Events
     /\ isSet' = [isSet EXCEPT ![h] = h \in ManualReset]
     /\ UNCHANGED <<mutexVars, queue>>

(* ... or join its queue.                                                  *)
Enqueue(t, h) ==
  /\ queue' = [queue EXCEPT ![h] = Append(@, t)]
  /\ UNCHANGED <<mutexVars, isSet>>

(* MutexUnregister and EventUnregister.                                    *)
Unregister(t, h, release) ==
  LET q == Without(queue[h], t)
      mine == h \in Mutexes /\ owner[h] = t
  IN /\ UNCHANGED isSet
     /\ \/ /\ mine /\ release /\ count[h] = 1
           /\ HandOver(t, h, q)
        \/ /\ mine /\ release /\ count[h] > 1
           /\ count' = [count EXCEPT ![h] = @ - 1]
           /\ queue' = [queue EXCEPT ![h] = q]
           /\ UNCHANGED <<owner, tableVars, wakeupVars>>
        \/ /\ mine /\ ~release
           /\ IF count[h] = 1 THEN AddToTable(t, h) ELSE UNCHANGED tableVars
           /\ queue' = [queue EXCEPT ![h] = q]
           /\ UNCHANGED <<owner, count, wakeupVars>>
        \/ /\ ~mine
           /\ queue' = [queue EXCEPT ![h] = q]
           /\ UNCHANGED <<mutexVars, wakeupVars>>

(* Mutant: the owner is not compared with the caller.                      *)
MutexReleaseOthers(t, m) ==
  /\ pc[t] = "idle"
  /\ count[m] = 1 /\ HandOver(t, m, queue[m])
  /\ held' = [held EXCEPT ![t][m] = @ - 1]
  /\ UNCHANGED <<isSet, interrupted, stateVars, pc, req, todo, need, res, hit>>

(* ILWaitMutexRelease by the owner; to another thread it answers           *)
(* IL_WAITMUTEX_RELEASE_FAIL and changes nothing.                          *)
MutexRelease(t, m) ==
  /\ pc[t] = "idle"
  /\ owner[m] = t
  /\ \/ count[m] = 1 /\ HandOver(t, m, queue[m])
     \/ /\ count[m] > 1
        /\ count' = [count EXCEPT ![m] = @ - 1]
        /\ UNCHANGED <<owner, tableVars, queue, wakeupVars>>
  /\ held' = [held EXCEPT ![t][m] = @ - 1]
  /\ UNCHANGED <<isSet, interrupted, stateVars, pc, req, todo, need, res, hit>>

(* ILWaitEventSet and ILWaitEventPulse: only Set leaves the event set, and *)
(* not when it has woken a waiter of an event that resets itself.          *)
EventWake(e, set) ==
  /\ ~isSet[e]
  /\ isSet' = [isSet EXCEPT ![e] = set /\ (queue[e] = <<>> \/ e \in ManualReset)]
  /\ IF e \in ManualReset
     THEN /\ queue' = [queue EXCEPT ![e] = <<>>]
          /\ Signal({queue[e][i] : i \in DOMAIN queue[e]}, e)
     ELSE /\ queue' = [queue EXCEPT ![e] = Left(@)]
          /\ Signal(Taken(queue[e]), e)
  /\ UNCHANGED <<mutexVars, interrupted, stateVars, pc, callVars>>

EventSet(e) == EventWake(e, TRUE)
EventPulse(e) == queue[e] # <<>> /\ EventWake(e, FALSE)

EventReset(e) ==
  /\ isSet[e]
  /\ isSet' = [isSet EXCEPT ![e] = FALSE]
  /\ UNCHANGED <<mutexVars, queue, wakeupVars, interrupted, stateVars, pc, callVars>>

-----------------------------------------------------------------------------
(* The beginning of a call.                                                *)

(* _ILEnterWait shows the wait/sleep/join state, then looks for requests.  *)
Begin(t, r) ==
  /\ pc[t] = "idle"
  /\ \A i \in DOMAIN r.handles :
       r.handles[i] \in Mutexes => held[t][r.handles[i]] < MaxCount
  /\ wsj' = wsj \cup {t}
  /\ req' = Set(req, t, r)
  /\ Go(t, "enter")
  /\ UNCHANGED <<handleVars, wakeupVars, interrupted, intr, abortReq, toWake,
                 todo, need, res, hit, held>>

(* An abort is requested: the call returns, in the wait/sleep/join state.  *)
EnterAborted(t) ==
  /\ pc[t] = "enter"
  /\ t \in abortReq
  /\ intr' = intr \ {t}
  /\ interrupted' = interrupted \ {t}
  /\ Return(t)
  /\ UNCHANGED <<handleVars, wakeupVars, abortReq, wsj, toWake, held>>

EnterWait(t) ==
  /\ pc[t] = "enter"
  /\ t \notin abortReq
  /\ Go(t, "setLimit")
  /\ UNCHANGED <<handleVars, wakeupVars, interrupted, stateVars, callVars>>

(* _ILWakeupSetLimit.                                                      *)
Size(t) == IF req[t].kind = "all" THEN Len(req[t].handles) ELSE 1

SetLimit(t) ==
  /\ pc[t] = "setLimit"
  /\ t \notin interrupted
  /\ wcount' = Set(wcount, t, 0)
  /\ limit' = Set(limit, t, Size(t))
  /\ object' = Set(object, t, NoHandle)
  /\ need' = Set(need, t, Size(t))
  /\ todo' = Set(todo, t, req[t].handles)
  /\ Go(t, "register")
  /\ UNCHANGED <<handleVars, interrupted, stateVars, req, res, hit, held>>

SetLimitFails(t) ==
  /\ pc[t] = "setLimit"
  /\ t \in interrupted
  /\ interrupted' = interrupted \ {t}
  /\ res' = Set(res, t, "interrupted")
  /\ Go(t, "leave")
  /\ UNCHANGED <<handleVars, wakeupVars, stateVars, req, todo, need, hit, held>>

-----------------------------------------------------------------------------
(* Mutant: the handle registered last is left out.                         *)
DoneShort(t) == SubSeq(req[t].handles, 1, Len(req[t].handles) - Len(todo[t]) - 1)

(* The registration loop: handle Head(todo[t]) is next, Done(t) are those  *)
(* before it.                                                              *)
Done(t) == SubSeq(req[t].handles, 1, Len(req[t].handles) - Len(todo[t]))

Advance(t) ==
  /\ todo' = Set(todo, t, Tail(todo[t]))
  /\ Go(t, IF Len(todo[t]) > 1 THEN "register"
           ELSE IF req[t].kind = "all" THEN "adjust" ELSE "sleep")

(* The registration ends the call (_ILWakeupAdjustLimit to 0): unregister  *)
(* the handles registered so far.                                          *)
Finish(t, r) ==
  /\ limit' = Set(limit, t, 0)
  /\ res' = Set(res, t, r)
  /\ todo' = Set(todo, t, Done(t))
  /\ Go(t, IF Done(t) = <<>> THEN "leave" ELSE "undo")

RegisterAcquired(t) ==
  /\ pc[t] = "register"
  /\ Available(t, Head(todo[t]))
  /\ Acquire(t, Head(todo[t]))
  /\ \/ /\ req[t].kind = "all"
        /\ need' = Set(need, t, need[t] - 1)
        /\ Advance(t)
        /\ UNCHANGED <<limit, res, hit>>
     \/ /\ req[t].kind # "all"
        /\ hit' = Set(hit, t, Head(todo[t]))
        /\ Finish(t, "ok")
        /\ UNCHANGED need
  /\ UNCHANGED <<wcount, object, interrupted, stateVars, req, held>>

RegisterQueued(t) ==
  /\ pc[t] = "register"
  /\ ~Available(t, Head(todo[t]))
  /\ Enqueue(t, Head(todo[t]))
  /\ Advance(t)
  /\ UNCHANGED <<wakeupVars, interrupted, stateVars, req, need, res, hit, held>>

(* The queue's own item is in use and there is no memory for another.      *)
RegisterFailed(t) ==
  /\ pc[t] = "register"
  /\ AllocFails
  /\ ~Available(t, Head(todo[t])) /\ queue[Head(todo[t])] # <<>>
  /\ Finish(t, "failed")
  /\ UNCHANGED <<handleVars, wcount, object, interrupted, stateVars, req, need,
                 hit, held>>

Undo(t) ==
  /\ pc[t] = "undo"
  /\ Unregister(t, Head(todo[t]), TRUE)
  /\ todo' = Set(todo, t, Tail(todo[t]))
  /\ Go(t, IF Len(todo[t]) > 1 THEN "undo" ELSE "leave")
  /\ UNCHANGED <<interrupted, stateVars, req, need, res, hit, held>>

(* ILWaitAll: only the handles that were not acquired are waited for.      *)
Adjust(t) ==
  /\ pc[t] = "adjust"
  /\ limit' = Set(limit, t, need[t])
  /\ IF need[t] = 0
     THEN /\ res' = Set(res, t, "ok")
          /\ todo' = Set(todo, t, req[t].handles)
          /\ Go(t, "unregister")
     ELSE Go(t, "sleep") /\ UNCHANGED <<res, todo>>
  /\ UNCHANGED <<handleVars, wcount, object, interrupted, stateVars, req, need, hit,
                 held>>

-----------------------------------------------------------------------------
(* _ILWakeupWait.                                                          *)

(* The wait is over with result r; the wakeup is reset, which does not     *)
(* happen when the interrupt was there before.  Nobody reads the limit of  *)
(* ILWaitAll from here on: it is forgotten.                                *)
Wakes(t, r) ==
  /\ res' = Set(res, t, r)
  /\ todo' = Set(todo, t, req[t].handles)
  /\ Go(t, "unregister")
  /\ need' = Set(need, t, 0)
  /\ UNCHANGED <<handleVars, stateVars, req, held>>

(* The object, which nobody reads before the next signal, is forgotten.    *)
ResetWakeup(t) ==
  /\ wcount' = Set(wcount, t, 0)
  /\ limit' = Set(limit, t, 0)
  /\ object' = Set(object, t, NoHandle)

SleepInterrupted(t) ==
  /\ pc[t] = "sleep"
  /\ t \in interrupted
  /\ interrupted' = interrupted \ {t}
  /\ Wakes(t, "interrupted")
  /\ UNCHANGED <<wakeupVars, hit>>

(* All signals have arrived before the sleep.  The object is not returned. *)
SleepOver(t) ==
  /\ pc[t] = "sleep"
  /\ t \notin interrupted
  /\ wcount[t] >= limit[t]
  /\ Wakes(t, "ok")
  /\ ResetWakeup(t)
  /\ UNCHANGED <<interrupted, hit>>

Sleep(t) ==
  /\ pc[t] = "sleep"
  /\ t \notin interrupted
  /\ wcount[t] < limit[t]
  /\ Go(t, "waiting")
  /\ UNCHANGED <<handleVars, wakeupVars, interrupted, stateVars, callVars>>

WakeInterrupted(t) ==
  /\ pc[t] = "waiting"
  /\ t \in interrupted
  /\ interrupted' = interrupted \ {t}
  /\ Wakes(t, "interrupted")
  /\ ResetWakeup(t)
  /\ UNCHANGED hit

WakeSignalled(t) ==
  /\ pc[t] = "waiting"
  /\ t \notin interrupted
  /\ wcount[t] >= limit[t]
  /\ hit' = IF req[t].kind = "any" THEN Set(hit, t, object[t]) ELSE hit
  /\ Wakes(t, "ok")
  /\ ResetWakeup(t)
  /\ UNCHANGED interrupted

(* The time is over; the signal may have come as well.                     *)
WakeTimeout(t) ==
  /\ pc[t] = "waiting"
  /\ "timeout" \in Disturbs
  /\ t \notin interrupted
  /\ Wakes(t, "timeout")
  /\ ResetWakeup(t)
  /\ UNCHANGED <<interrupted, hit>>

-----------------------------------------------------------------------------
(* The end of a call.                                                      *)

(* Mutant: a timeout counts as success (result < 0).                       *)
KeepsOnTimeout(t, h) ==
  res[t] \in {"ok", "timeout"} /\ (req[t].kind = "any" => h = hit[t])

(* Unregister from every handle; the one that was acquired is kept.        *)
Keeps(t, h) == res[t] = "ok" /\ (req[t].kind = "any" => h = hit[t])

UnregisterNext(t) ==
  /\ pc[t] = "unregister"
  /\ Unregister(t, Head(todo[t]), ~Keeps(t, Head(todo[t])))
  /\ todo' = Set(todo, t, Tail(todo[t]))
  /\ Go(t, IF Len(todo[t]) > 1 THEN "unregister" ELSE "leave")
  /\ UNCHANGED <<interrupted, stateVars, req, need, res, hit, held>>

(* What the caller is told that it has; ILWaitAny answers with an index,   *)
(* which is 0 when no handle was found.                                    *)
Claimed(t) ==
  CASE req[t].kind = "all" -> {req[t].handles[i] : i \in DOMAIN req[t].handles}
    [] req[t].kind = "any" /\ hit[t] # NoHandle -> {hit[t]}
    [] OTHER -> {req[t].handles[1]}

(* _ILLeaveWait: with a request pending the call fails, and what it has    *)
(* acquired is given back; ILWaitAny passes on the handle it has found.    *)
LeaveDisturbed(t) ==
  /\ pc[t] = "leave"
  /\ t \in abortReq \cup intr
  /\ interrupted' = interrupted \ {t}
  /\ wsj' = wsj \ {t}
  /\ \/ res[t] # "ok" /\ Return(t)
     \/ /\ res[t] = "ok"
        /\ todo' = Set(todo, t, IF hit[t] = NoHandle THEN req[t].handles ELSE <<hit[t]>>)
        /\ Go(t, IF req[t].kind = "any" /\ hit[t] = NoHandle THEN "crashed" ELSE "giveBack")
        /\ UNCHANGED <<req, need, res, hit>>
  /\ UNCHANGED <<handleVars, wakeupVars, intr, abortReq, toWake, held>>

LeaveQuiet(t) ==
  /\ pc[t] = "leave"
  /\ t \notin abortReq \cup intr
  /\ Go(t, "leaveStore")
  /\ UNCHANGED <<handleVars, wakeupVars, interrupted, stateVars, callVars>>

LeaveStore(t) ==
  /\ pc[t] = "leaveStore"
  /\ wsj' = wsj \ {t}
  /\ held' = [held EXCEPT ![t] = [m \in Mutexes |->
                 IF res[t] = "ok" /\ m \in Claimed(t) THEN @[m] + 1 ELSE @[m]]]
  /\ Return(t)
  /\ UNCHANGED <<handleVars, wakeupVars, interrupted, intr, abortReq, toWake>>

GiveBack(t) ==
  /\ pc[t] = "giveBack"
  /\ Unregister(t, Head(todo[t]), TRUE)
  /\ \/ /\ Len(todo[t]) > 1
        /\ todo' = Set(todo, t, Tail(todo[t]))
        /\ UNCHANGED <<pc, req, need, res, hit>>
     \/ Len(todo[t]) = 1 /\ Return(t)
  /\ UNCHANGED <<interrupted, stateVars, held>>

-----------------------------------------------------------------------------
(* Requests of other threads, and the end of a thread (thread.c).          *)
Alive(t) == pc[t] \notin {"dying", "dead", "crashed"}

(* ILThreadInterrupt sets the flag under the thread's lock, and after it   *)
(* interrupts the wakeup.                                                  *)
Interrupt(t) ==
  /\ "interrupt" \in Disturbs
  /\ Alive(t)
  /\ intr' = intr \cup {t}
  /\ toWake' = toWake \cup {t}
  /\ UNCHANGED <<handleVars, wakeupVars, interrupted, abortReq, wsj, pc, callVars>>

(* ILThreadAbort interrupts the wakeup of a thread that it sees waiting.   *)
Abort(t) ==
  /\ "abort" \in Disturbs
  /\ Alive(t)
  /\ t \notin abortReq
  /\ abortReq' = abortReq \cup {t}
  /\ toWake' = IF t \in wsj THEN toWake \cup {t} ELSE toWake
  /\ UNCHANGED <<handleVars, wakeupVars, interrupted, intr, wsj, pc, callVars>>

WakeupInterrupt(t) ==
  /\ t \in toWake
  /\ toWake' = toWake \ {t}
  /\ interrupted' = interrupted \cup {t}
  /\ UNCHANGED <<handleVars, wakeupVars, intr, abortReq, wsj, pc, callVars>>

(* ILThreadAbortReset, by the aborted thread.                              *)
AbortReset(t) ==
  /\ pc[t] = "idle"
  /\ t \in abortReq
  /\ abortReq' = abortReq \ {t}
  /\ intr' = intr \ {t}
  /\ interrupted' = interrupted \ {t}
  /\ UNCHANGED <<handleVars, wakeupVars, wsj, toWake, pc, callVars>>

(* _ILThreadRun comes to its end; _ILWakeupDestroy fully releases every    *)
(* mutex in the table, and passes over an entry of one that it no longer   *)
(* owns.                                                                   *)
ThreadStops(t) ==
  /\ pc[t] = "idle"
  /\ Go(t, "dying")
  /\ UNCHANGED <<handleVars, wakeupVars, interrupted, stateVars, callVars>>

DestroyNext(t) ==
  /\ pc[t] = "dying"
  /\ \E m \in Mutexes :
       /\ table[t][m] > 0
       /\ \/ /\ owner[m] = t
             /\ HandOver(t, m, queue[m])
             /\ held' = [held EXCEPT ![t][m] = 0]
          \/ /\ owner[m] # t
             /\ RemoveFromTable(t, m)
             /\ UNCHANGED <<owner, count, queue, wakeupVars, held>>
  /\ UNCHANGED <<isSet, interrupted, stateVars, pc, req, todo, need, res, hit>>

(* The wakeup goes away, and the state of a stopped thread is of no more   *)
(* use; an interrupt may still be on its way to the wakeup.                *)
Destroyed(t) ==
  /\ pc[t] = "dying"
  /\ \A m \in Mutexes : table[t][m] = 0
  /\ Go(t, "dead")
  /\ wcount' = Set(wcount, t, 0)
  /\ limit' = Set(limit, t, 0)
  /\ object' = Set(object, t, NoHandle)
  /\ interrupted' = interrupted \ {t}
  /\ intr' = intr \ {t} /\ abortReq' = abortReq \ {t}
  /\ wsj' = wsj \ {t}
  /\ UNCHANGED <<handleVars, toWake, callVars>>

-----------------------------------------------------------------------------
CallStep(t) ==
  \/ EnterAborted(t) \/ EnterWait(t) \/ SetLimit(t) \/ SetLimitFails(t)
  \/ RegisterAcquired(t) \/ RegisterQueued(t) \/ RegisterFailed(t) \/ Undo(t)
  \/ Adjust(t) \/ SleepInterrupted(t) \/ SleepOver(t) \/ Sleep(t)
  \/ WakeInterrupted(t) \/ WakeSignalled(t) \/ UnregisterNext(t)
  \/ LeaveDisturbed(t) \/ LeaveQuiet(t) \/ LeaveStore(t) \/ GiveBack(t)

ThreadStep(t) ==
  \/ \E r \in Calls : Begin(t, r)
  \/ \E m \in Mutexes : MutexRelease(t, m)
  \/ CallStep(t) \/ WakeTimeout(t)
  \/ AbortReset(t) \/ ThreadStops(t) \/ DestroyNext(t) \/ Destroyed(t)

Next ==
  \/ \E t \in Threads :
       ThreadStep(t) \/ Interrupt(t) \/ Abort(t) \/ WakeupInterrupt(t)
  \/ \E e \in Events : EventSet(e) \/ EventPulse(e) \/ EventReset(e)

Spec == Init /\ [][Next]_vars

(* A thread in a call or at its end goes on, and one that has a mutex      *)
(* releases it in the end, however often it was acquired.                  *)
Fairness ==
  \A t \in Threads :
    /\ WF_vars(CallStep(t))
    /\ WF_vars(DestroyNext(t))
    /\ \A m \in Mutexes :
         /\ SF_vars(MutexRelease(t, m))
         /\ SF_vars(count[m] = 1 /\ MutexRelease(t, m))

FairSpec == Spec /\ Fairness

-----------------------------------------------------------------------------
(* Properties.                                                             *)

TypeOK ==
  /\ owner \in [Mutexes -> Threads \cup {NoThread}]
  /\ count \in [Mutexes -> Nat]
  /\ queue \in [Handles -> Seq(Threads)]
  /\ isSet \in [Events -> BOOLEAN]
  /\ table \in [Threads -> [Mutexes -> Nat]]
  /\ owned \in [Threads -> Int]
  /\ capacity \in [Threads -> {Capacity, GrownCapacity}]
  /\ wcount \in [Threads -> Nat]
  /\ limit \in [Threads -> Nat]
  /\ object \in [Threads -> Handles \cup {NoHandle}]
  /\ interrupted \subseteq Threads
  /\ intr \subseteq Threads /\ abortReq \subseteq Threads
  /\ wsj \subseteq Threads /\ toWake \subseteq Threads
  /\ pc \in [Threads -> Control]
  /\ req \in [Threads -> Calls \cup {NoRequest}]
  /\ todo \in [Threads -> Seq(Handles)]
  /\ need \in [Threads -> Nat]
  /\ res \in [Threads -> Results]
  /\ hit \in [Threads -> Handles \cup {NoHandle}]
  /\ held \in [Threads -> [Mutexes -> Nat]]

(* A thread that was told that it has a mutex is its owner, and between    *)
(* calls a thread owns exactly what it was told, as often as it was told:  *)
(* a wait that timed out, was interrupted or was aborted, maybe after the  *)
(* mutex had been handed over to it, leaves nothing behind.                *)
HeldIsOwned ==
  \A t \in Threads, m \in Mutexes :
    /\ held[t][m] > 0 => owner[m] = t
    /\ pc[t] = "idle" /\ owner[m] = t => count[m] = held[t][m]

(* Between calls ownedMutexes of a thread lists exactly the mutexes that   *)
(* it owns, each of them once, as long as they have fitted into the table  *)
(* as it was allocated: _ILWakeupDestroy releases by that list.  Once the  *)
(* table has grown, or could not grow, DeadOwnsNothing is lost.            *)
Fitted(t) == capacity[t] = Capacity /\ ~AllocFails
TableExact ==
  \A t \in Threads, m \in Mutexes :
    pc[t] \in {"idle", "dying"} /\ Fitted(t) =>
      table[t][m] = (IF owner[m] = t THEN 1 ELSE 0)

(* "Fully release all owned mutexes" (_ILWakeupDestroy): a thread that has *)
(* ended owns no mutex.                                                    *)
DeadOwnsNothing ==
  \A t \in Threads, m \in Mutexes : pc[t] = "dead" => owner[m] # t

(* A mutex nobody owns has no thread in its queue; and of the handles of a *)
(* thread that is about to sleep, or sleeps, those whose queue it is not   *)
(* in were acquired when it registered or have been counted by its wakeup, *)
(* if that is not interrupted: no release and no event passes a waiting    *)
(* thread over.                                                            *)
InQueue(t, h) == \E i \in DOMAIN queue[h] : queue[h][i] = t
Missing(t) == {i \in DOMAIN req[t].handles : ~InQueue(t, req[t].handles[i])}
NobodyStranded ==
  /\ \A m \in Mutexes : owner[m] = NoThread => queue[m] = <<>>
  /\ \A t \in Threads :
       pc[t] \in {"sleep", "waiting"} =>
         \/ t \in interrupted
         \/ wcount[t] >= limit[t]
         \/ Cardinality(Missing(t)) <= wcount[t] + Size(t) - need[t]

(* A thread that is in no call has no item in any queue: its wakeup, which *)
(* goes away with the thread, is not signalled later.                      *)
NoStaleItem ==
  \A t \in Threads, h \in Handles :
    pc[t] \in {"idle", "enter", "setLimit", "dying", "dead"} => ~InQueue(t, h)

(* "Returns zero if the wait handle was acquired", "Returns the index of   *)
(* the handle that was acquired", "Returns zero if all wait handles were   *)
(* acquired" (ILWaitOne, ILWaitAny, ILWaitAll).                            *)
ReturnsOwned ==
  \A t \in Threads, m \in Mutexes : held[t][m] > 0 => owner[m] = t

(* "Interrupted is cleared by ILWaitOne" (_ILWaitOneBackupInterruptsAnd-   *)
(* Aborts): a wait that reports the interrupt has taken the flag back, so  *)
(* that one ILThreadInterrupt ends one wait.                               *)
ClearsInterrupt ==
  [][\A t \in Threads :
       pc[t] = "leave" /\ pc'[t] # "leave" /\ t \in intr \ abortReq => t \notin intr']_vars

(* A thread that waits for a mutex gets it or is told that it does not.    *)
WaitReturns ==
  \A t \in Threads :
    (pc[t] \in {"register", "sleep", "waiting"} /\ req[t].handles[1] \in Mutexes)
      ~> pc[t] = "idle"
=============================================================================
