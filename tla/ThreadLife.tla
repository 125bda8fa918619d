----------------------------- MODULE ThreadLife -----------------------------
(***************************************************************************)
(* The life of a thread object (support/thread.c): create, start, run,     *)
(* stop, destroy, with the counts of threads and the event that tells the  *)
(* main thread that no other foreground thread is left; and the calls      *)
(* threads make on each other while they start and stop: join, interrupt,  *)
(* abort, the background flag, sleep.                                      *)
(*                                                                         *)
(* A thread's state word has a public half, written under the thread's     *)
(* lock, and a private half that only the thread writes, mostly without    *)
(* it. Each action is one critical section of the thread's lock, or one    *)
(* access to the state word outside it. Suspension is in ThreadSuspend,    *)
(* the wakeups of wait handles in WaitHandle.                              *)
(***************************************************************************)
EXTENDS Integers, FiniteSets

CONSTANTS Main,        \* the main thread
          Workers,     \* thread objects that ILThreadCreate may make
          CanJoin,     \* pairs of a thread and one it may join
          AnyBackground, \* ILThreadSetBackground may be called on a thread
                         \* that runs by another than itself
          MaxCalls,    \* calls of all threads, those that make, start
                       \* and destroy a thread not counted
          NoThread

Threads == {Main} \cup Workers

ASSUME ThreadLifeAssumption ==
    /\ Main \notin Workers /\ NoThread \notin Threads /\ IsFiniteSet(Workers)
    /\ CanJoin \subseteq Threads \X Workers
    /\ AnyBackground \in BOOLEAN /\ MaxCalls \in Nat

VARIABLES obj,       \* "none", "live" or "freed"
          pub, priv, \* the halves of the state word, as sets of flags
          useCount,
          handle,    \* threads whose ILThreadCreate handle is still held
          numThreads, numBackground,
          event,     \* noFgThreadsEvent
          released,  \* the main thread, waiting for the event, is signalled
          joinQueue, \* threads whose wakeup is in the queue of a thread
          wake,      \* a thread's wakeup
          pc,        \* where a thread is; "user" is its own code
          target,    \* the thread its call is about
          result,    \* the result of its wait
          seen,      \* the state word it has loaded, or put aside
          calls

objVars == <<obj, useCount, handle>>
countVars == <<numThreads, numBackground, event, released>>
waitVars == <<joinQueue, wake>>
localVars == <<target, result, seen, calls>>
vars == <<objVars, pub, priv, countVars, waitVars, pc, localVars>>

PubFlags == {"unstarted", "background", "interrupted", "abortRequested"}
PrivFlags == {"stopped", "waitSleepJoin", "aborted"}

NewWakeup == [count |-> 0, limit |-> 0, interrupted |-> FALSE, alive |-> TRUE]

Init ==
    /\ obj = [t \in Threads |-> IF t = Main THEN "live" ELSE "none"]
    /\ pub = [t \in Threads |-> {}]
    /\ priv = [t \in Threads |-> {}]
    /\ useCount = [t \in Threads |-> 0]
    /\ handle = {}
    /\ numThreads = 1 /\ numBackground = 0
    /\ event = TRUE /\ released = FALSE
    /\ joinQueue = [t \in Threads |-> {}]
    /\ wake = [t \in Threads |-> NewWakeup]
    /\ pc = [t \in Threads |-> IF t = Main THEN "user" ELSE "none"]
    /\ target = [t \in Threads |-> NoThread]
    /\ result = [t \in Threads |-> "none"]
    /\ seen = [t \in Threads |-> {}]
    /\ calls = 0

Goto(s, where) == pc' = [pc EXCEPT ![s] = where]

\* A call of s begins; there is a bounded number of them.
Calls(s) == /\ pc[s] = "user" /\ calls < MaxCalls
            /\ calls' = calls + 1

Has(t, flag) == flag \in pub[t] \cup priv[t]

\* The objects that a call of s may name: s has a handle, or it is itself.
Reachable(s) == handle \cup {Main, s}

\* The call of s is over.
Returns(s) == /\ Goto(s, "user")
              /\ target' = [target EXCEPT ![s] = NoThread]
              /\ result' = [result EXCEPT ![s] = "none"]

-----------------------------------------------------------------------------
\* The main thread waits for the event and its wakeup takes the signal:
\* _ILWakeupSignal does nothing to one that is interrupted.
SignalReachesMain == pc[Main] = "foreground" /\ ~wake[Main].interrupted

\* Mutant: the event follows the counts as they were before.
AdjustCountStale(threads, background) ==
    LET onlyMain == numThreads - numBackground = 1 IN
    /\ numThreads' = numThreads + threads
    /\ numBackground' = numBackground + background
    /\ event' = onlyMain
    /\ released' = (released \/ (onlyMain /\ SignalReachesMain))

\* _ILThreadAdjustCount: the counts and the event, in one critical section.
\* Setting the event signals the main thread, if it waits.
AdjustCount(threads, background) ==
    LET onlyMain == numThreads + threads - (numBackground + background) = 1 IN
    /\ numThreads' = numThreads + threads
    /\ numBackground' = numBackground + background
    /\ event' = onlyMain
    /\ released' = (released \/ (onlyMain /\ SignalReachesMain))

\* Mutant: the object goes when its thread ends, whoever still uses it.
PrivateDestroyAtStop(t) ==
    /\ useCount' = [useCount EXCEPT ![t] = @ - 1]
    /\ obj' = [obj EXCEPT ![t] = IF "stopped" \in priv[t] \/ "unstarted" \in pub[t]
                                 THEN "freed" ELSE @]

\* _ILPrivateThreadDestroy, with the cleanup of the object.
PrivateDestroy(t) ==
    /\ useCount' = [useCount EXCEPT ![t] = @ - 1]
    /\ obj' = [obj EXCEPT ![t] = IF /\ useCount[t] = 1
                                    /\ "stopped" \in priv[t] \/ "unstarted" \in pub[t]
                                 THEN "freed" ELSE @]

-----------------------------------------------------------------------------
(* Create, start, run, stop, destroy                                       *)

Create(s, t) ==
    /\ pc[s] = "user" /\ obj[t] = "none"
    /\ obj' = [obj EXCEPT ![t] = "live"]
    /\ pub' = [pub EXCEPT ![t] = {"unstarted"}]
    /\ useCount' = [useCount EXCEPT ![t] = 1]
    /\ handle' = handle \cup {t}
    /\ UNCHANGED <<priv, countVars, waitVars, pc, localVars>>

\* ILThreadStart: the system thread waits for the lock until it is done.
Start(s, t) ==
    /\ pc[s] = "user" /\ t \in handle /\ "unstarted" \in pub[t]
    /\ useCount' = [useCount EXCEPT ![t] = @ + 1]
    /\ pub' = [pub EXCEPT ![t] = @ \ {"unstarted"}]
    /\ AdjustCount(1, IF "background" \in pub[t] THEN 1 ELSE 0)
    /\ Goto(t, "start")
    /\ UNCHANGED <<obj, handle, priv, waitVars, localVars>>

RunBegin(t) ==
    /\ pc[t] = "start"
    /\ priv' = [priv EXCEPT ![t] = {}]
    /\ Goto(t, "user")
    /\ UNCHANGED <<objVars, pub, countVars, waitVars, localVars>>

\* The start function has returned: _ILThreadRun loads the state word ...
RunEnd(t) ==
    /\ t # Main /\ pc[t] = "user"
    /\ seen' = [seen EXCEPT ![t] = pub[t]]
    /\ Goto(t, "stop")
    /\ UNCHANGED <<objVars, pub, priv, countVars, waitVars, target, result, calls>>

\* ... stores the private half without the lock ...
Stop(t) ==
    /\ pc[t] = "stop"
    /\ priv' = [priv EXCEPT ![t] = @ \cup {"stopped"}]
    /\ Goto(t, "count")
    /\ UNCHANGED <<objVars, pub, countVars, waitVars, localVars>>

\* Mutant: the thread that ends is counted as a foreground thread.
CountForeground(t) ==
    /\ pc[t] = "count"
    /\ AdjustCount(-1, 0)
    /\ seen' = [seen EXCEPT ![t] = {}]
    /\ Goto(t, "wakeAll")
    /\ UNCHANGED <<objVars, pub, priv, waitVars, target, result, calls>>

\* ... counts itself out with the flag it has loaded ...
Count(t) ==
    /\ pc[t] = "count"
    /\ AdjustCount(-1, IF "background" \in seen[t] THEN -1 ELSE 0)
    /\ seen' = [seen EXCEPT ![t] = {}]
    /\ Goto(t, "wakeAll")
    /\ UNCHANGED <<objVars, pub, priv, waitVars, target, result, calls>>

\* Mutant: a wakeup takes a signal it does not wait for.
SignalledAnyway(w) == IF ~w.interrupted THEN [w EXCEPT !.count = @ + 1] ELSE w

\* _ILWakeupSignal on the wakeup w.
Signalled(w) == IF ~w.interrupted /\ w.count < w.limit
                THEN [w EXCEPT !.count = @ + 1] ELSE w

\* ... wakes everyone waiting to join ...
WakeJoiners(t) ==
    /\ pc[t] = "wakeAll"
    /\ wake' = [s \in Threads |-> IF s \in joinQueue[t] THEN Signalled(wake[s])
                                                       ELSE wake[s]]
    /\ joinQueue' = [joinQueue EXCEPT ![t] = {}]
    /\ Goto(t, "wakeup")
    /\ UNCHANGED <<objVars, pub, priv, countVars, localVars>>

\* ... destroys its wakeup ...
DestroyWakeup(t) ==
    /\ pc[t] = "wakeup"
    /\ wake' = [wake EXCEPT ![t].alive = FALSE]
    /\ Goto(t, "release")
    /\ UNCHANGED <<objVars, pub, priv, countVars, joinQueue, localVars>>

\* ... and gives its own use of the object up.
Release(t) ==
    /\ pc[t] = "release"
    /\ PrivateDestroy(t)
    /\ Goto(t, "none")
    /\ UNCHANGED <<handle, pub, priv, countVars, waitVars, localVars>>

\* ILThreadDestroy: the finalizer of the managed thread object, so nobody
\* is in a call on the thread.
Destroy(s, t) ==
    /\ pc[s] = "user" /\ t \in handle
    /\ \A r \in Threads : pc[r] \notin {"none", "user"} => target[r] # t
    /\ handle' = handle \ {t}
    /\ PrivateDestroy(t)
    /\ UNCHANGED <<pub, priv, countVars, waitVars, pc, localVars>>

-----------------------------------------------------------------------------
(* The background flag                                                     *)

\* ILThreadSetBackground, one critical section of the thread's lock. What
\* the state word says of the thread decides whether it is counted.
SetBackground(s, t, flag) ==
    LET counted == "unstarted" \notin pub[t] /\ "stopped" \notin priv[t] IN
    /\ Calls(s) /\ t \in Reachable(s) \ {Main}
    /\ AnyBackground \/ s = t \/ "unstarted" \in pub[t]
    /\ flag # ("background" \in pub[t])
    /\ pub' = [pub EXCEPT ![t] = IF flag THEN @ \cup {"background"}
                                         ELSE @ \ {"background"}]
    /\ IF counted THEN AdjustCount(0, IF flag THEN 1 ELSE -1)
                  ELSE UNCHANGED countVars
    /\ UNCHANGED <<objVars, priv, waitVars, pc, target, result, seen>>

-----------------------------------------------------------------------------
(* Interrupt and abort                                                     *)

\* ILThreadInterrupt marks the thread, then leaves its lock ...
Interrupt(s, t) ==
    /\ Calls(s) /\ t \in Reachable(s)
    /\ "unstarted" \notin pub[t] /\ "stopped" \notin priv[t]
    /\ pub' = [pub EXCEPT ![t] = @ \cup {"interrupted"}]
    /\ target' = [target EXCEPT ![s] = t]
    /\ Goto(s, "interrupt")
    /\ UNCHANGED <<objVars, priv, countVars, waitVars, result, seen>>

\* ILThreadAbort does so for a thread that waits; one that runs is only
\* marked.
Abort(s, t) ==
    /\ Calls(s) /\ t \in Reachable(s)
    /\ ~Has(t, "aborted") /\ ~Has(t, "abortRequested")
    /\ pub' = [pub EXCEPT ![t] = @ \cup {"abortRequested"}]
    /\ IF "waitSleepJoin" \in priv[t]
       THEN target' = [target EXCEPT ![s] = t] /\ Goto(s, "interrupt")
       ELSE UNCHANGED <<target, pc>>
    /\ UNCHANGED <<objVars, priv, countVars, waitVars, result, seen>>

\* ... and _ILWakeupInterrupt; on a destroyed wakeup it is undefined, here
\* without an effect.
WakeupInterrupt(s) ==
    /\ pc[s] = "interrupt"
    /\ wake' = [wake EXCEPT ![target[s]].interrupted = @ \/ wake[target[s]].alive]
    /\ Returns(s)
    /\ UNCHANGED <<objVars, pub, priv, countVars, joinQueue, seen, calls>>

\* ILThreadSelfAborting: the request becomes an abort.
SelfAborting(s) ==
    /\ pc[s] = "user" /\ "abortRequested" \in pub[s] /\ "aborted" \notin priv[s]
    /\ pub' = [pub EXCEPT ![s] = @ \ {"abortRequested"}]
    /\ priv' = [priv EXCEPT ![s] = @ \cup {"aborted"}]
    /\ UNCHANGED <<objVars, countVars, waitVars, pc, localVars>>

AbortReset(s) ==
    /\ pc[s] = "user"
    /\ Has(s, "abortRequested") \/ Has(s, "aborted")
    /\ pub' = [pub EXCEPT ![s] = @ \ {"abortRequested", "interrupted"}]
    /\ priv' = [priv EXCEPT ![s] = @ \ {"aborted"}]
    /\ wake' = [wake EXCEPT ![s].interrupted = FALSE]
    /\ UNCHANGED <<objVars, countVars, joinQueue, pc, localVars>>

-----------------------------------------------------------------------------
(* Join                                                                    *)

\* With the target's lock: it has stopped, or s queues up for its end. An
\* interrupt that is pending makes _ILWakeupSetLimit fail.
Join(s, t) ==
    /\ Calls(s) /\ <<s, t>> \in CanJoin /\ t \in handle
    /\ "unstarted" \notin pub[t]
    /\ \/ /\ "stopped" \in priv[t]
          /\ result' = [result EXCEPT ![s] = "ok"]
          /\ Goto(s, "joined")
          /\ UNCHANGED waitVars
       \/ /\ "stopped" \notin priv[t] /\ wake[s].interrupted
          /\ wake' = [wake EXCEPT ![s].interrupted = FALSE]
          /\ result' = [result EXCEPT ![s] = "failed"]
          /\ Goto(s, "joined")
          /\ UNCHANGED joinQueue
       \/ /\ "stopped" \notin priv[t] /\ ~wake[s].interrupted
          /\ wake' = [wake EXCEPT ![s].count = 0, ![s].limit = 1]
          /\ joinQueue' = [joinQueue EXCEPT ![t] = @ \cup {s}]
          /\ result' = [result EXCEPT ![s] = "none"]
          /\ Goto(s, "joinState")
    /\ target' = [target EXCEPT ![s] = t]
    /\ UNCHANGED <<objVars, pub, priv, countVars, seen>>

\* With its own lock: an abort was requested, or s is now waiting.
JoinEnterState(s) ==
    /\ pc[s] = "joinState"
    /\ IF "abortRequested" \in pub[s]
       THEN /\ result' = [result EXCEPT ![s] = "aborted"]
            /\ Goto(s, "joinRemove")
            /\ UNCHANGED priv
       ELSE /\ priv' = [priv EXCEPT ![s] = @ \cup {"waitSleepJoin"}]
            /\ Goto(s, "joinWait")
            /\ UNCHANGED result
    /\ UNCHANGED <<objVars, pub, countVars, waitVars, target, seen, calls>>

\* Mutant: whatever ends the sleep is taken for the signal.
JoinWaitOnce(s) ==
    /\ pc[s] = "joinWait"
    /\ wake' = [wake EXCEPT ![s].count = 0, ![s].limit = 0]
    /\ result' = [result EXCEPT ![s] = "ok"]
    /\ Goto(s, "joinLeaveState")
    /\ UNCHANGED <<objVars, pub, priv, countVars, joinQueue, target, seen, calls>>

\* _ILWakeupWait. An interrupt that came before the wait leaves the limit.
JoinWait(s) ==
    /\ pc[s] = "joinWait"
    /\ \/ /\ wake[s].interrupted
          /\ \E keep \in BOOLEAN :
                wake' = [wake EXCEPT ![s].interrupted = FALSE,
                                     ![s].count = IF keep THEN @ ELSE 0,
                                     ![s].limit = IF keep THEN @ ELSE 0]
          /\ result' = [result EXCEPT ![s] = "aborted"]
       \/ /\ ~wake[s].interrupted
          /\ wake' = [wake EXCEPT ![s].count = 0, ![s].limit = 0]
          /\ \/ wake[s].count >= wake[s].limit
                /\ result' = [result EXCEPT ![s] = "ok"]
             \/ wake[s].count < wake[s].limit
                /\ result' = [result EXCEPT ![s] = "timeout"]
    /\ Goto(s, "joinLeaveState")
    /\ UNCHANGED <<objVars, pub, priv, countVars, joinQueue, target, seen, calls>>

\* With its own lock again: an interrupt takes the place of the result.
JoinLeaveState(s) ==
    /\ pc[s] = "joinLeaveState"
    /\ result' = [result EXCEPT ![s] = IF "interrupted" \in pub[s]
                                       THEN "interrupted" ELSE @]
    /\ priv' = [priv EXCEPT ![s] = @ \ {"waitSleepJoin"}]
    /\ pub' = [pub EXCEPT ![s] = @ \ {"interrupted"}]
    /\ Goto(s, "joinRemove")
    /\ UNCHANGED <<objVars, countVars, waitVars, target, seen, calls>>

\* With the target's lock: out of its queue.
JoinRemove(s) ==
    /\ pc[s] = "joinRemove"
    /\ joinQueue' = [joinQueue EXCEPT ![target[s]] = @ \ {s}]
    /\ Goto(s, "joined")
    /\ UNCHANGED <<objVars, pub, priv, countVars, wake, localVars>>

JoinReturn(s) ==
    /\ pc[s] = "joined"
    /\ Returns(s)
    /\ UNCHANGED <<objVars, pub, priv, countVars, waitVars, seen, calls>>

-----------------------------------------------------------------------------
(* Sleep: _ILThreadEnterWaitState, _ILThreadSleep, _ILThreadLeaveWaitState *)

Sleep(s) ==
    /\ Calls(s)
    /\ priv' = [priv EXCEPT ![s] = @ \cup {"waitSleepJoin"}]
    /\ Goto(s, "sleepCheck")
    /\ UNCHANGED <<objVars, pub, countVars, waitVars, target, result, seen>>

\* An abort that was requested: the flag of the wait stays set.
SleepCheck(s) ==
    /\ pc[s] = "sleepCheck"
    /\ IF "abortRequested" \in pub[s]
       THEN pub' = [pub EXCEPT ![s] = @ \ {"interrupted"}] /\ Goto(s, "user")
       ELSE UNCHANGED pub /\ Goto(s, "sleep")
    /\ UNCHANGED <<objVars, priv, countVars, waitVars, localVars>>

SleepOver(s) ==
    /\ pc[s] = "sleep"
    /\ priv' = [priv EXCEPT ![s] = @ \ {"waitSleepJoin"}]
    /\ Goto(s, "sleepLeave")
    /\ UNCHANGED <<objVars, pub, countVars, waitVars, localVars>>

\* Abort and interrupt are taken note of, and the wakeup's interrupt is
\* cancelled.
SleepLeave(s) ==
    /\ pc[s] = "sleepLeave"
    /\ IF pub[s] \cap {"abortRequested", "interrupted"} # {}
       THEN /\ pub' = [pub EXCEPT ![s] = @ \ {"interrupted"}]
            /\ wake' = [wake EXCEPT ![s].interrupted = FALSE]
       ELSE UNCHANGED <<pub, wake>>
    /\ Goto(s, "user")
    /\ UNCHANGED <<objVars, priv, countVars, joinQueue, localVars>>

-----------------------------------------------------------------------------
(* ILThreadWaitForForegroundThreads, by the main thread: ILWaitOne on the  *)
(* event, repeated by _ILWaitOneBackupInterruptsAndAborts as long as it is *)
(* interrupted or aborted. The state words of these attempts are put aside *)
(* (seen) and given back in the end.                                       *)

\* _ILEnterWait stores the private half, then it loads the state word.
EnterWait == priv' = [priv EXCEPT ![Main] = @ \cup {"waitSleepJoin"}]

WaitForForeground ==
    /\ Calls(Main)
    /\ EnterWait
    /\ Goto(Main, "fgEnter")
    /\ UNCHANGED <<objVars, pub, countVars, waitVars, target, result, seen>>

\* An abort that was requested: the flag of the wait stays set.
ForegroundEnter ==
    /\ pc[Main] = "fgEnter"
    /\ IF "abortRequested" \in pub[Main]
       THEN /\ pub' = [pub EXCEPT ![Main] = @ \ {"interrupted"}]
            /\ wake' = [wake EXCEPT ![Main].interrupted = FALSE]
            /\ result' = [result EXCEPT ![Main] = "aborted"]
            /\ Goto(Main, "fgDone")
       ELSE /\ Goto(Main, "fgRegister")
            /\ UNCHANGED <<pub, wake, result>>
    /\ UNCHANGED <<objVars, priv, countVars, joinQueue, target, seen, calls>>

\* The limit of the wakeup cannot be set after an interrupt. The event lets
\* the thread pass, or it waits for the event to be set.
ForegroundRegister ==
    /\ pc[Main] = "fgRegister"
    /\ \/ /\ wake[Main].interrupted
          /\ wake' = [wake EXCEPT ![Main].interrupted = FALSE]
          /\ result' = [result EXCEPT ![Main] = "interrupted"]
          /\ Goto(Main, "fgLeave")
       \/ /\ ~wake[Main].interrupted
          /\ result' = [result EXCEPT ![Main] = IF event THEN "ok" ELSE "none"]
          /\ Goto(Main, IF event THEN "fgLeave" ELSE "foreground")
          /\ UNCHANGED wake
    /\ UNCHANGED <<objVars, pub, priv, countVars, joinQueue, target, seen, calls>>

\* _ILWakeupWait: an interrupt comes before a signal.
ForegroundWait ==
    /\ pc[Main] = "foreground"
    /\ wake[Main].interrupted \/ released
    /\ result' = [result EXCEPT ![Main] = IF wake[Main].interrupted
                                          THEN "interrupted" ELSE "ok"]
    /\ wake' = [wake EXCEPT ![Main].interrupted = FALSE]
    /\ released' = FALSE
    /\ Goto(Main, "fgLeave")
    /\ UNCHANGED <<objVars, pub, priv, numThreads, numBackground, event, joinQueue,
                   target, seen, calls>>

\* _ILLeaveWait: an abort or an interrupt takes the place of the result.
ForegroundLeave ==
    LET told == pub[Main] \cap {"abortRequested", "interrupted"} # {} IN
    /\ pc[Main] = "fgLeave"
    /\ result' = [result EXCEPT ![Main] =
                      IF "abortRequested" \in pub[Main] THEN "aborted"
                      ELSE IF "interrupted" \in pub[Main] THEN "interrupted" ELSE @]
    /\ wake' = [wake EXCEPT ![Main].interrupted = @ /\ ~told]
    /\ priv' = [priv EXCEPT ![Main] = @ \ {"waitSleepJoin"}]
    /\ Goto(Main, "fgDone")
    /\ UNCHANGED <<objVars, pub, countVars, joinQueue, target, seen, calls>>

\* The attempt has failed: the state word is put aside, and the next begins.
ForegroundRetry ==
    /\ pc[Main] = "fgDone" /\ result[Main] # "ok"
    /\ seen' = [seen EXCEPT ![Main] = @ \cup pub[Main] \cup priv[Main]]
    /\ pub' = [pub EXCEPT ![Main] = @ \ {"interrupted", "abortRequested"}]
    /\ EnterWait
    /\ Goto(Main, "fgEnter")
    /\ UNCHANGED <<objVars, countVars, waitVars, target, result, calls>>

\* No foreground thread is left. The interrupts are forgotten, the aborts
\* are requested again.
ForegroundReturn ==
    /\ pc[Main] = "fgDone" /\ result[Main] = "ok"
    /\ pub' = [pub EXCEPT ![Main] =
                   @ \cup ((seen[Main] \cap PubFlags) \ {"interrupted"})]
    /\ priv' = [priv EXCEPT ![Main] = @ \cup (seen[Main] \cap PrivFlags)]
    /\ seen' = [seen EXCEPT ![Main] = {}]
    /\ Returns(Main)
    /\ UNCHANGED <<objVars, countVars, waitVars, calls>>

-----------------------------------------------------------------------------
Run(t) == \/ RunBegin(t) \/ RunEnd(t) \/ Stop(t) \/ Count(t)
          \/ WakeJoiners(t) \/ DestroyWakeup(t) \/ Release(t)

InCall(s) == \/ WakeupInterrupt(s)
             \/ JoinEnterState(s) \/ JoinWait(s) \/ JoinLeaveState(s)
             \/ JoinRemove(s) \/ JoinReturn(s)
             \/ SleepCheck(s) \/ SleepOver(s) \/ SleepLeave(s)

Call(s) == \/ \E t \in Workers : Create(s, t) \/ Start(s, t) \/ Destroy(s, t)
           \/ \E t \in Threads : \/ Interrupt(s, t) \/ Abort(s, t) \/ Join(s, t)
                                 \/ \E flag \in BOOLEAN : SetBackground(s, t, flag)
           \/ SelfAborting(s) \/ AbortReset(s) \/ Sleep(s)

InForeground == \/ ForegroundEnter \/ ForegroundRegister \/ ForegroundWait
                \/ ForegroundLeave \/ ForegroundRetry \/ ForegroundReturn

Next == \/ \E s \in Threads : Run(s) \/ InCall(s) \/ Call(s)
        \/ WaitForForeground \/ InForeground

Spec == Init /\ [][Next]_vars

\* The code of a thread ends, and a call goes on while nothing blocks it.
FairSpec == /\ Spec
            /\ \A s \in Threads : WF_vars(Run(s)) /\ WF_vars(InCall(s))
            /\ WF_vars(InForeground)

-----------------------------------------------------------------------------
Pcs == {"none", "start", "user", "stop", "count", "wakeAll", "wakeup",
        "release", "interrupt", "joinState", "joinWait", "joinLeaveState",
        "joinRemove", "joined", "sleepCheck", "sleep", "sleepLeave",
        "fgEnter", "fgRegister", "foreground", "fgLeave", "fgDone"}

\* Every variable has its type, a wakeup is not signalled beyond its limit.
TypeOK ==
    /\ obj \in [Threads -> {"none", "live", "freed"}]
    /\ pub \in [Threads -> SUBSET PubFlags]
    /\ priv \in [Threads -> SUBSET PrivFlags]
    /\ useCount \in [Threads -> 0 .. 2]
    /\ handle \subseteq Workers
    /\ numThreads \in Nat /\ numBackground \in Nat
    /\ event \in BOOLEAN /\ released \in BOOLEAN
    /\ joinQueue \in [Threads -> SUBSET Threads]
    /\ \A t \in Threads : /\ wake[t].limit \in 0 .. 1
                          /\ wake[t].count \in 0 .. wake[t].limit
                          /\ wake[t].interrupted \in BOOLEAN
                          /\ wake[t].alive \in BOOLEAN
    /\ pc \in [Threads -> Pcs]
    /\ target \in [Threads -> Threads \cup {NoThread}]
    /\ seen \in [Threads -> SUBSET (PubFlags \cup PrivFlags)]
    /\ result \in [Threads -> {"none", "ok", "timeout", "aborted", "interrupted",
                            "failed"}]
    /\ calls \in 0 .. MaxCalls

\* Threads that ILThreadStart has counted in and _ILThreadRun not yet out.
Counted == {t \in Workers : pc[t] \notin {"none", "wakeAll", "wakeup", "release"}}

\* The counts are those of the threads that were started and have not
\* counted themselves out, and the event is set exactly if none of these
\* but the main thread is a foreground thread, however threads start and
\* stop and change their own flag, or that of a thread not started yet.
CountsExact ==
    /\ numThreads = 1 + Cardinality(Counted)
    /\ numBackground = Cardinality({t \in Counted :
           "background" \in IF pc[t] \in {"stop", "count"} THEN seen[t] ELSE pub[t]})
    /\ event <=> (numThreads - numBackground = 1)

\* A thread object is in use until its thread has ended and its handle is
\* destroyed, and is freed then: nobody runs on, calls, or queues up at an
\* object that is gone, and none is left behind.
FreedWhenUnused ==
    \A t \in Workers :
        LET unused == t \notin handle /\ pc[t] = "none" IN
        /\ obj[t] = "freed" <=> obj[t] # "none" /\ unused
        /\ obj[t] # "live" =>
              \A s \in Threads : target[s] # t /\ s \notin joinQueue[t]
                                 /\ t \notin joinQueue[s]

\* ILThreadJoin says that the thread has ended only if it has.
JoinTellsEnd ==
    \A s \in Threads : pc[s] = "joined" /\ result[s] = "ok"
        => "stopped" \in priv[target[s]]

InForegroundWait ==
    pc[Main] \in {"fgEnter", "fgRegister", "foreground", "fgLeave", "fgDone"}

\* The main thread's wait for the foreground threads ends, when they end:
\* although an interrupt may take the signal away and the event be reset
\* before the next attempt.
ForegroundWaitReturns == InForegroundWait ~> (pc[Main] = "user")

\* "If there is only the main thread left then signal the noFgThreads
\* event": when every other thread has ended, the event is set.
EventWhenAlone == Counted = {} => event

\* "The wakeup isn't needed anymore so destroy it now": no call is left
\* that will use it.
WakeupNotNeeded ==
    \A s \in Threads : pc[s] = "interrupt" => wake[target[s]].alive

\* "Clear the wait/sleep/join state and interrupted flag": a thread that is
\* not in a wait is not marked as waiting.
WaitStateCleared ==
    \A s \in Threads : pc[s] = "user" => "waitSleepJoin" \notin priv[s]
=============================================================================
