--------------------------- MODULE ThreadSuspend ---------------------------
(***************************************************************************)
(* Suspend and resume: ILThreadSuspendRequest, ILThreadResume and          *)
(* _ILThreadSuspendRequest (support/thread.c), the signals and semaphores  *)
(* below them (support/pt_defs.c, pt_defs.h), the counting of held locks   *)
(* (thr_defs.h), and the engine's calls above them with the thread's       *)
(* monitor and the safepoint at the end of a native call                   *)
(* (engine/thread.c, cvm_call.c).                                          *)
(*                                                                         *)
(* Controllers suspend and resume one managed thread, the target. What the *)
(* target is to do is a sequence of small operations; the handler of the   *)
(* suspend signal stops it between any two of them. The signal to resume   *)
(* is blocked except in sigsuspend, the signal to suspend is blocked in    *)
(* it. Aborts, interrupts and the collector's own signals are left out.    *)
(***************************************************************************)
EXTENDS Naturals, FiniteSets, Sequences

CONSTANTS Controllers,
          Target,
          MaxCalls,  \* calls of all controllers
          MaxRounds, \* things the target does before it ends
          Nobody

ASSUME ThreadSuspendAssumption ==
    /\ IsFiniteSet(Controllers) /\ Target \notin Controllers
    /\ Nobody \notin Controllers \cup {Target}
    /\ MaxCalls \in Nat /\ MaxRounds \in Nat

VARIABLES pub,        \* flags of the public half of the target's state
          wsj,        \* IL_TS_WAIT_SLEEP_JOIN
          lock,       \* owner of thread->lock
          locksHeld,  \* thread->numLocksHeld
          suspendRequested,
          resumeSent, \* resumeRequested is set and IL_SIG_RESUME sent
          handler,    \* IL_SIG_SUSPEND: "none", "pending", "asleep"
          suspendAck, resumeAck,     \* semaphores
          managed,    \* runningManagedCode
          safepoint,  \* _IL_MANAGED_SAFEPOINT_THREAD_SUSPEND
          life,       \* "registered" (has an engine thread, not started),
                      \* "running", "destroyed" (has no engine thread)
          monitor,    \* owner and count of the target's wait monitor
          todo,       \* the target's next operations
          rounds,
          pc,         \* where a controller is
          requestOnly, calls

protocolVars == <<pub, suspendRequested, resumeSent, handler, suspendAck, resumeAck>>
targetVars == <<wsj, locksHeld, managed, todo, rounds>>
engineVars == <<safepoint, life, monitor>>
controlVars == <<pc, requestOnly, calls>>
vars == <<protocolVars, lock, targetVars, engineVars, controlVars>>

Free == [owner |-> Nobody, count |-> 0]

Init ==
    /\ pub = {} /\ wsj = FALSE /\ lock = Nobody /\ locksHeld = 0
    /\ suspendRequested = FALSE /\ resumeSent = FALSE /\ handler = "none"
    /\ suspendAck = 0 /\ resumeAck = 0
    /\ managed = FALSE /\ safepoint = FALSE /\ life = "registered"
    /\ monitor = Free
    /\ todo = <<>> /\ rounds = 0
    /\ pc = [c \in Controllers |-> "idle"]
    /\ requestOnly = [c \in Controllers |-> FALSE]
    /\ calls = 0

MayEnter(t) == monitor.owner \in {Nobody, t}
Enter(t) == monitor' = [owner |-> t, count |-> monitor.count + 1]
Leave == monitor' = IF monitor.count = 1 THEN Free
                    ELSE [monitor EXCEPT !.count = @ - 1]

-----------------------------------------------------------------------------
(* The target *)

\* Managed code that takes a lock; a sleep; a native call; a suspension of
\* itself; the end of the thread.
Works == <<"lock", "unlock">>
Sleeps == <<"enterWait", "leaveWaitState">>
CallsNative == <<"beginNative", "barrier", "endNative">>
SuspendsItself == <<"beginNative", "lock", "suspend", "barrier", "endNative">>
Ends == <<"enterWait", "enterMonitor", "leaveWait", "unregister">>

Runs == handler # "asleep"

NextOp == IF todo = <<>> THEN "none" ELSE Head(todo)

\* The target does its next operation, and has rest to do.
Does(op, rest) ==
    /\ NextOp = op /\ Runs
    /\ todo' = rest \o Tail(todo)
    /\ UNCHANGED rounds

\* ILThreadStart; the interpreter sets runningManagedCode.
Start ==
    /\ life = "registered" /\ life' = "running"
    /\ todo' = <<"endNative">>
    /\ UNCHANGED <<protocolVars, lock, wsj, locksHeld, managed, rounds,
                   safepoint, monitor>>

Begin ==
    /\ todo = <<>> /\ Runs /\ life = "running"
    /\ rounds < MaxRounds
    /\ rounds' = rounds + 1
    /\ todo' \in {Works, Sleeps, CallsNative, SuspendsItself, Ends}
    /\ UNCHANGED <<protocolVars, lock, wsj, locksHeld, managed, engineVars>>

\* _ILCriticalSectionEnter and _ILMutexLock count the lock before they wait
\* for it.
CountLock ==
    /\ Does("lock", <<>>)
    /\ locksHeld' = locksHeld + 1
    /\ UNCHANGED <<protocolVars, lock, wsj, managed, engineVars>>

\* _ILCriticalSectionLeave and _ILMutexUnlock.
Uncount ==
    /\ Does("unlock", IF locksHeld = 1 /\ suspendRequested
                      THEN <<"lock", "suspendNow", "unlock", "ack", "sleep">>
                      ELSE <<>>)
    /\ locksHeld' = locksHeld - 1
    /\ UNCHANGED <<protocolVars, lock, wsj, managed, engineVars>>

Suspended == (pub \ {"requested"}) \cup {"suspended", "self"}

\* _ILThreadSuspendRequest
SuspendNow ==
    /\ Does("suspendNow", <<>>) /\ lock = Nobody
    /\ pub' = Suspended
    /\ suspendRequested' = FALSE
    /\ UNCHANGED <<resumeSent, handler, suspendAck, resumeAck, lock, wsj,
                   locksHeld, managed, engineVars>>

Ack ==
    /\ Does("ack", <<>>)
    /\ suspendAck' = suspendAck + 1
    /\ UNCHANGED <<pub, suspendRequested, resumeSent, handler, resumeAck,
                   lock, wsj, locksHeld, managed, engineVars>>

\* _ILThreadSuspendSelf, when it is resumed.
SleepEnds ==
    /\ Does("sleep", <<>>)
    /\ resumeSent /\ resumeSent' = FALSE
    /\ resumeAck' = resumeAck + 1
    /\ UNCHANGED <<pub, suspendRequested, handler, suspendAck, lock, wsj,
                   locksHeld, managed, engineVars>>

\* ILThreadSuspend of the calling thread, after the lock is counted; a
\* thread that runs is not suspended.
SuspendSelf ==
    /\ lock = Nobody
    /\ Does("suspend", <<"unlock", "sleep">>)
    /\ pub' = Suspended
    /\ UNCHANGED <<suspendRequested, resumeSent, handler, suspendAck,
                   resumeAck, lock, wsj, locksHeld, managed, engineVars>>

EnterWait ==
    /\ Does("enterWait", <<>>)
    /\ wsj' = TRUE
    /\ UNCHANGED <<protocolVars, lock, locksHeld, managed, engineVars>>

\* _ILThreadLeaveWaitState clears the flag, and then looks for requests;
\* _ILLeaveWait looks first.
LeaveWaitState ==
    /\ Does("leaveWaitState", <<"anyRequest">>)
    /\ wsj' = FALSE
    /\ UNCHANGED <<protocolVars, lock, locksHeld, managed, engineVars>>

AnyRequest ==
    /\ Does("anyRequest", IF "requested" \in pub
                          THEN <<"lock", "honour">> ELSE <<>>)
    /\ UNCHANGED <<protocolVars, lock, wsj, locksHeld, managed, engineVars>>

LeaveWait ==
    /\ Does("leaveWait", IF "requested" \in pub
                         THEN <<"lock", "honour">> ELSE <<"clearWait">>)
    /\ UNCHANGED <<protocolVars, lock, wsj, locksHeld, managed, engineVars>>

ClearWait ==
    /\ Does("clearWait", <<>>)
    /\ wsj' = FALSE
    /\ UNCHANGED <<protocolVars, lock, locksHeld, managed, engineVars>>

\* Both, after they have the lock.
HonourRequest ==
    /\ lock = Nobody
    /\ wsj' = FALSE
    /\ IF "requested" \in pub
       THEN Does("honour", <<"unlock", "sleep">>) /\ pub' = Suspended
       ELSE Does("honour", <<"unlock">>) /\ UNCHANGED pub
    /\ UNCHANGED <<suspendRequested, resumeSent, handler, suspendAck,
                   resumeAck, lock, locksHeld, managed, engineVars>>

BeginNative ==
    /\ Does("beginNative", <<>>)
    /\ managed' = FALSE
    /\ UNCHANGED <<protocolVars, lock, wsj, locksHeld, engineVars>>

\* CHECK_MANAGED_BARRIER
Barrier ==
    /\ Does("barrier", IF safepoint THEN <<"state">> ELSE <<>>)
    /\ safepoint' = FALSE
    /\ UNCHANGED <<protocolVars, lock, wsj, locksHeld, managed, life, monitor>>

BarrierState ==
    /\ Does("state", IF "requested" \in pub THEN <<"lock", "suspend">> ELSE <<>>)
    /\ UNCHANGED <<protocolVars, lock, wsj, locksHeld, managed, engineVars>>

EndNative ==
    /\ Does("endNative", <<>>)
    /\ managed' = TRUE
    /\ UNCHANGED <<protocolVars, lock, wsj, locksHeld, engineVars>>

EnterMonitor ==
    /\ MayEnter(Target) /\ Does("enterMonitor", <<>>)
    /\ Enter(Target)
    /\ UNCHANGED <<protocolVars, lock, wsj, locksHeld, managed, safepoint, life>>

\* ILThreadUnregisterForManagedExecution, inside the monitor.
Unregister ==
    /\ Does("unregister", <<>>)
    /\ life' = "destroyed"
    /\ Leave
    /\ UNCHANGED <<protocolVars, lock, wsj, locksHeld, managed, safepoint>>

\* SuspendSignal. Before "sleep" the signal may still come ahead of
\* sigsuspend, which blocks it until the target is resumed.
HandlerBegins ==
    /\ handler = "pending"
    /\ handler' = "asleep" /\ suspendAck' = suspendAck + 1
    /\ UNCHANGED <<pub, suspendRequested, resumeSent, resumeAck, lock,
                   targetVars, engineVars>>

HandlerEnds ==
    /\ handler = "asleep" /\ resumeSent
    /\ handler' = "none" /\ resumeSent' = FALSE /\ resumeAck' = resumeAck + 1
    /\ UNCHANGED <<pub, suspendRequested, suspendAck, lock, targetVars,
                   engineVars>>

TargetStep ==
    /\ \/ Start \/ Begin \/ CountLock \/ Uncount \/ SuspendNow \/ Ack \/ SleepEnds
       \/ SuspendSelf \/ EnterWait \/ LeaveWaitState \/ AnyRequest
       \/ LeaveWait \/ ClearWait \/ HonourRequest \/ BeginNative \/ Barrier
       \/ BarrierState \/ EndNative \/ EnterMonitor \/ Unregister
       \/ HandlerBegins \/ HandlerEnds
    /\ UNCHANGED controlVars

-----------------------------------------------------------------------------
(* A controller *)

Goto(c, from, to) ==
    /\ pc[c] = from
    /\ pc' = [pc EXCEPT ![c] = to]

Calls == calls < MaxCalls /\ calls' = calls + 1

\* _ILExecThreadSuspendThread enters the monitor and reads the engine thread.
SuspendThread(c) ==
    /\ Calls /\ MayEnter(c)
    /\ IF life # "destroyed"
       THEN /\ Goto(c, "idle", "suspend") /\ Enter(c)
            /\ requestOnly' = [requestOnly EXCEPT ![c] = ~managed]
       ELSE pc[c] = "idle" /\ UNCHANGED <<pc, monitor, requestOnly>>
    /\ UNCHANGED <<protocolVars, lock, targetVars, safepoint, life>>

\* ILThreadSuspendRequest. Nothing leaves the monitor when it returns
\* IL_SUSPEND_OK.
AlreadySuspended(c) ==
    /\ Goto(c, "suspend", "idle") /\ lock = Nobody
    /\ "suspended" \in pub
    /\ UNCHANGED <<protocolVars, lock, monitor, safepoint>>

\* The target has not started.
SuspendFails(c) ==
    /\ Goto(c, "suspend", "idle") /\ lock = Nobody
    /\ "suspended" \notin pub /\ life = "registered"
    /\ Leave
    /\ UNCHANGED <<protocolVars, lock, safepoint>>

RequestSuspend(c) ==
    /\ Goto(c, "suspend", "setSafepoint") /\ lock = Nobody
    /\ "suspended" \notin pub /\ life # "registered" /\ (wsj \/ requestOnly[c])
    /\ pub' = pub \cup {"requested"}
    /\ UNCHANGED <<suspendRequested, resumeSent, handler, suspendAck,
                   resumeAck, lock, monitor, safepoint>>

SetSafepoint(c) ==
    /\ Goto(c, "setSafepoint", "idle")
    /\ safepoint' = TRUE
    /\ Leave
    /\ UNCHANGED <<protocolVars, lock>>

SuspendOther(c) ==
    /\ Goto(c, "suspend", "waitAck") /\ lock = Nobody
    /\ "suspended" \notin pub /\ life # "registered" /\ ~wsj /\ ~requestOnly[c]
    /\ pub' = pub \cup {"suspended"}
    /\ handler' = "pending"
    /\ lock' = c
    /\ UNCHANGED <<suspendRequested, resumeSent, suspendAck, resumeAck,
                   monitor, safepoint>>

\* The bug of not looking at numLocksHeld.
SuspendOkAnyway(c) ==
    /\ Goto(c, "waitAck", "idle") /\ suspendAck > 0
    /\ suspendAck' = suspendAck - 1
    /\ lock' = Nobody
    /\ UNCHANGED <<pub, suspendRequested, resumeSent, handler, resumeAck,
                   monitor, safepoint>>

SuspendOk(c) ==
    /\ Goto(c, "waitAck", "idle") /\ suspendAck > 0 /\ locksHeld = 0
    /\ suspendAck' = suspendAck - 1
    /\ lock' = Nobody
    /\ UNCHANGED <<pub, suspendRequested, resumeSent, handler, resumeAck,
                   monitor, safepoint>>

\* The target holds a lock: it is resumed, and will suspend itself.
LetGoOfLocks(c) ==
    /\ Goto(c, "waitAck", "waitResumed") /\ suspendAck > 0 /\ locksHeld > 0
    /\ suspendAck' = suspendAck - 1
    /\ pub' = (pub \ {"suspended"}) \cup {"requested"}
    /\ suspendRequested' = TRUE /\ resumeSent' = TRUE
    /\ UNCHANGED <<handler, resumeAck, lock, monitor, safepoint>>

\* The bug of not waiting until the target has suspended itself.
TargetResumedReturns(c) ==
    /\ Goto(c, "waitResumed", "idle") /\ resumeAck > 0
    /\ resumeAck' = resumeAck - 1
    /\ lock' = Nobody
    /\ UNCHANGED <<pub, suspendRequested, resumeSent, handler, suspendAck,
                   monitor, safepoint>>

TargetResumed(c) ==
    /\ Goto(c, "waitResumed", "waitSuspended") /\ resumeAck > 0
    /\ resumeAck' = resumeAck - 1
    /\ lock' = Nobody
    /\ UNCHANGED <<pub, suspendRequested, resumeSent, handler, suspendAck,
                   monitor, safepoint>>

TargetSuspended(c) ==
    /\ Goto(c, "waitSuspended", "relock") /\ suspendAck > 0
    /\ suspendAck' = suspendAck - 1
    /\ UNCHANGED <<pub, suspendRequested, resumeSent, handler, resumeAck,
                   lock, monitor, safepoint>>

Relock(c) ==
    /\ Goto(c, "relock", "idle") /\ lock = Nobody
    /\ UNCHANGED <<protocolVars, lock, monitor, safepoint>>

\* _ILExecThreadResumeThread and ILThreadResume
ResumeThread(c) ==
    /\ Calls /\ MayEnter(c)
    /\ IF life # "destroyed"
       THEN Goto(c, "idle", "resume") /\ Enter(c) /\ safepoint' = FALSE
       ELSE pc[c] = "idle" /\ UNCHANGED <<pc, monitor, safepoint>>
    /\ UNCHANGED <<protocolVars, lock, targetVars, life, requestOnly>>

\* The bug of taking back only that the thread suspended itself.
ResumeMarked(c) ==
    /\ Goto(c, "resume", "waitRunning") /\ lock = Nobody
    /\ "suspended" \in pub
    /\ pub' = pub \ {"self"}
    /\ resumeSent' = TRUE
    /\ lock' = c
    /\ UNCHANGED <<suspendRequested, handler, suspendAck, resumeAck,
                   monitor, safepoint>>

Resume(c) ==
    /\ Goto(c, "resume", "waitRunning") /\ lock = Nobody
    /\ "suspended" \in pub
    /\ pub' = pub \ {"suspended", "self"}
    /\ resumeSent' = TRUE
    /\ lock' = c
    /\ UNCHANGED <<suspendRequested, handler, suspendAck, resumeAck,
                   monitor, safepoint>>

\* The bug of waiting for nobody.
ResumedAnyway(c) ==
    /\ Goto(c, "waitRunning", "idle")
    /\ lock' = Nobody
    /\ Leave
    /\ UNCHANGED <<protocolVars, safepoint>>

Resumed(c) ==
    /\ Goto(c, "waitRunning", "idle") /\ resumeAck > 0
    /\ resumeAck' = resumeAck - 1
    /\ lock' = Nobody
    /\ Leave
    /\ UNCHANGED <<pub, suspendRequested, resumeSent, handler, suspendAck,
                   safepoint>>

\* A suspend that was only requested is given up; who waits for it is not
\* told.
CancelRequest(c) ==
    /\ Goto(c, "resume", "idle") /\ lock = Nobody
    /\ "suspended" \notin pub
    /\ pub' = pub \ {"requested"}
    /\ suspendRequested' = ("requested" \notin pub /\ suspendRequested)
    /\ Leave
    /\ UNCHANGED <<resumeSent, handler, suspendAck, resumeAck, lock, safepoint>>

ControllerCall(c) == SuspendThread(c) \/ ResumeThread(c)

ControllerStep(c) ==
    /\ \/ AlreadySuspended(c) \/ SuspendFails(c) \/ RequestSuspend(c)
       \/ SetSafepoint(c) \/ SuspendOther(c) \/ SuspendOk(c)
       \/ LetGoOfLocks(c) \/ TargetResumed(c) \/ TargetSuspended(c)
       \/ Relock(c) \/ Resume(c) \/ Resumed(c) \/ CancelRequest(c)
    /\ UNCHANGED <<targetVars, life, requestOnly, calls>>

Next == TargetStep \/ \E c \in Controllers : ControllerCall(c) \/ ControllerStep(c)

Spec == Init /\ [][Next]_vars

-----------------------------------------------------------------------------
(* The target is stopped, by the signal or by itself. *)
Stopped == handler = "asleep" \/ NextOp = "sleep"

(* The types; the semaphores never count beyond the posts of one round. *)
TypeOK ==
    /\ pub \subseteq {"suspended", "self", "requested"}
    /\ {wsj, suspendRequested, resumeSent, managed, safepoint} \subseteq BOOLEAN
    /\ lock \in Controllers \cup {Nobody}
    /\ locksHeld \in 0 .. 2
    /\ suspendAck \in 0 .. 1 /\ resumeAck \in 0 .. 1
    /\ monitor.owner = Nobody <=> monitor.count = 0

InSuspend == {"waitAck", "waitResumed"}

(* A thread that stays suspended holds no lock ("prevent the thread from   *)
(* being suspended while it holds a lock"): once no controller is about to *)
(* let it go on, numLocksHeld of a stopped target is 0.                    *)
SuspendedHoldsNothing ==
    Stopped /\ ~(\E c \in Controllers : pc[c] \in InSuspend) => locksHeld = 0

GoesToSleep ==
    \E i \in DOMAIN todo :
        /\ todo[i] = "sleep"
        /\ \A j \in 1 .. i - 1 : todo[j] \in {"lock", "suspendNow", "unlock", "ack"}

(* A thread in the state IL_TS_SUSPENDED does nothing of its own until it  *)
(* is resumed, unless the controller that suspends it still waits for the  *)
(* acknowledgement.                                                        *)
SuspendedIsStopped ==
    "suspended" \in pub /\ ~(\E c \in Controllers : pc[c] = "waitAck")
        => Stopped \/ GoesToSleep

(* An acknowledgement of the target is for a controller that waits for it: *)
(* a stale one would let a later ILThreadSuspend return before the target  *)
(* has stopped.                                                            *)
NoStaleAck ==
    /\ suspendAck > 0 => \E c \in Controllers : pc[c] \in {"waitAck", "waitSuspended"}
    /\ resumeAck > 0 => \E c \in Controllers : pc[c] \in {"waitResumed", "waitRunning"}

(* A thread that sleeps is marked as suspended, so that ILThreadResume     *)
(* wakes it, or is about to be woken.                                      *)
SleeperIsMarked ==
    Stopped => \/ "suspended" \in pub \/ resumeSent
               \/ \E c \in Controllers : pc[c] \in InSuspend

(* A controller has the target's monitor only during its calls: "Entering  *)
(* the monitor keeps the execThread from being destroyed".                 *)
MonitorOnlyInCalls ==
    \A c \in Controllers : pc[c] = "idle" => monitor.owner # c
=============================================================================
