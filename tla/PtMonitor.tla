------------------------------ MODULE PtMonitor ------------------------------
(***************************************************************************)
(* The platform monitor of src/support/pt_defs.c, in the variant that the  *)
(* build selects on Linux: _IL_PT_LOCK_SEM (an _ILLock is a semaphore) and *)
(* _IL_PT_INTERRUPT_JMP (the handler of IL_SIG_INTERRUPT leaves an         *)
(* interruptible wait with siglongjmp).                                    *)
(*                                                                         *)
(* A monitor is two semaphores and a counter.  A thread owns the monitor   *)
(* when it has consumed the one token of _enterLock; a waiter sleeps on    *)
(* _waitLock; _waitValue counts waiters negatively, so that Pulse knows    *)
(* whether there is somebody to post a token for.                          *)
(*                                                                         *)
(* pc[t] says where thread t is in the functions below; each value is the  *)
(* point before one access to shared state.                                *)
(***************************************************************************)
EXTENDS Integers, FiniteSets

CONSTANTS Threads,       \* the threads that share the monitor
          NoThread,      \* the owner of a monitor nobody is in
          Creator,       \* the thread that calls _ILMonitorCreate
          SignalWindows, \* where in an interruptible wait IL_SIG_INTERRUPT lands
          WaitsTimeOut   \* TRUE iff callers pass finite timeouts

(* "blocked": before the semaphore call has returned; "acquired": after    *)
(* it returned 0 and before pthread_sigmask blocks the signal again.       *)
ASSUME ThreadsAssumption ==
  /\ IsFiniteSet(Threads)
  /\ Creator \in Threads
  /\ NoThread \notin Threads
ASSUME WindowsAssumption ==
  /\ SignalWindows \subseteq {"blocked", "acquired"}
  /\ WaitsTimeOut \in BOOLEAN

VARIABLES enterLock,  \* tokens of the semaphore mon->_enterLock
          waitLock,   \* tokens of the semaphore mon->_waitLock
          waitValue,  \* mon->_waitValue
          pc,         \* control point of each thread
          sig,        \* the threads that IL_SIG_INTERRUPT is pending for
          count       \* count[t]: waitValue as PulseAll of t exchanged it

vars == <<enterLock, waitLock, waitValue, pc, sig, count>>

-----------------------------------------------------------------------------
(* Control points.                                                         *)

(* The thread owns the monitor: it holds the token of _enterLock.          *)
Inside == {"in", "waitRelease", "pulseInc", "pulsePost", "pulseUndo",
           "pulseAllSwap", "pulseAllPost", "pulseAllAdd"}

(* The thread has taken the token but still is in the signal window of     *)
(* IL_END_INTERRUPTIBLE.                                                   *)
Acquired == {"entered"}

Holding == Inside \cup Acquired

(* The thread is counted in _waitValue as a waiter.                        *)
InWaitQueue == {"waitRelease", "waiting", "waitFailed"}

Control == Holding \cup InWaitQueue \cup {"out", "entering", "released", "reenter"}

At(t, S) == pc[t] \in S
Go(t, c) == pc' = [pc EXCEPT ![t] = c]

Waiters == {t \in Threads : At(t, InWaitQueue)}
Holders == {t \in Threads : At(t, Holding)}

-----------------------------------------------------------------------------
(* _ILMonitorCreate: both semaphores start without a token, so the creator *)
(* owns the monitor.                                                       *)
Init ==
  /\ enterLock = 0
  /\ waitLock = 0
  /\ waitValue = 0
  /\ pc = [t \in Threads |-> IF t = Creator THEN "in" ELSE "out"]
  /\ sig = {}
  /\ count = [t \in Threads |-> 0]

(* _ILThreadInterrupt: pthread_kill(IL_SIG_INTERRUPT).  The signal stays   *)
(* pending while the target keeps it blocked.                              *)
Interrupt(t) ==
  /\ SignalWindows # {}
  /\ t \notin sig
  /\ sig' = sig \cup {t}
  /\ UNCHANGED <<enterLock, waitLock, waitValue, pc, count>>

(* Mutant: the result of sem_trywait is ignored.                           *)
TryEnterAnyway(t) ==
  /\ At(t, {"out"})
  /\ enterLock' = enterLock - 1
  /\ Go(t, "in")
  /\ UNCHANGED <<waitLock, waitValue, sig, count>>

(* _ILMonitorTimedTryEnter with ms = 0: LockTryWait.                       *)
TryEnter(t) ==
  /\ At(t, {"out"})
  /\ enterLock > 0
  /\ enterLock' = enterLock - 1
  /\ Go(t, "in")
  /\ UNCHANGED <<waitLock, waitValue, sig, count>>

(* _ILMonitorTimedTryEnter with another timeout.                           *)
BeginEnter(t) ==
  /\ At(t, {"out"})
  /\ Go(t, "entering")
  /\ UNCHANGED <<enterLock, waitLock, waitValue, sig, count>>

(* The wait of Lock(Timed)WaitInterruptible on _enterLock: sem_wait        *)
(* returned 0, it timed out, or the handler took the siglongjmp.           *)
EnterAcquire(t) ==
  /\ At(t, {"entering"})
  /\ enterLock > 0
  /\ enterLock' = enterLock - 1
  /\ Go(t, "entered")
  /\ UNCHANGED <<waitLock, waitValue, sig, count>>

EnterTimeout(t) ==
  /\ At(t, {"entering"})
  /\ WaitsTimeOut
  /\ Go(t, "out")
  /\ UNCHANGED <<enterLock, waitLock, waitValue, sig, count>>

EnterSignal(t) ==
  /\ \/ At(t, {"entering"}) /\ "blocked" \in SignalWindows
     \/ At(t, {"entered"}) /\ "acquired" \in SignalWindows
  /\ t \in sig
  /\ sig' = sig \ {t}
  /\ Go(t, "out")
  /\ UNCHANGED <<enterLock, waitLock, waitValue, count>>

(* IL_END_INTERRUPTIBLE: the signal is blocked again.                      *)
EnterDone(t) ==
  /\ At(t, {"entered"})
  /\ Go(t, "in")
  /\ UNCHANGED <<enterLock, waitLock, waitValue, sig, count>>

(* Mutant: the exit is noted but _enterLock is not signalled.              *)
ExitSilently(t) ==
  /\ At(t, {"in"})
  /\ Go(t, "out")
  /\ UNCHANGED <<enterLock, waitLock, waitValue, sig, count>>

(* _ILMonitorExit: LockSignal(&(mon->_enterLock)).                         *)
Exit(t) ==
  /\ At(t, {"in"})
  /\ enterLock' = enterLock + 1
  /\ Go(t, "out")
  /\ UNCHANGED <<waitLock, waitValue, sig, count>>

-----------------------------------------------------------------------------
(* _ILMonitorTimedWait.                                                    *)

(* ms = 0: release and reenter without joining the wait queue.             *)
WaitZero(t) ==
  /\ At(t, {"in"})
  /\ enterLock' = enterLock + 1
  /\ Go(t, "reenter")
  /\ UNCHANGED <<waitLock, waitValue, sig, count>>

(* Enter the wait queue ...                                                *)
WaitQueue(t) ==
  /\ At(t, {"in"})
  /\ waitValue' = waitValue - 1
  /\ Go(t, "waitRelease")
  /\ UNCHANGED <<enterLock, waitLock, sig, count>>

(* ... release the ownership of the monitor ...                            *)
WaitRelease(t) ==
  /\ At(t, {"waitRelease"})
  /\ enterLock' = enterLock + 1
  /\ Go(t, "waiting")
  /\ UNCHANGED <<waitLock, waitValue, sig, count>>

(* ... and wait on _waitLock: pulsed, timed out, or interrupted.           *)
WaitPulsed(t) ==
  /\ At(t, {"waiting"})
  /\ waitLock > 0
  /\ waitLock' = waitLock - 1
  /\ Go(t, "released")
  /\ UNCHANGED <<enterLock, waitValue, sig, count>>

WaitTimeout(t) ==
  /\ At(t, {"waiting"})
  /\ WaitsTimeOut
  /\ Go(t, "waitFailed")
  /\ UNCHANGED <<enterLock, waitLock, waitValue, sig, count>>

WaitSignal(t) ==
  /\ \/ At(t, {"waiting"}) /\ "blocked" \in SignalWindows
     \/ At(t, {"released"}) /\ "acquired" \in SignalWindows
  /\ t \in sig
  /\ sig' = sig \ {t}
  /\ Go(t, "waitFailed")
  /\ UNCHANGED <<enterLock, waitLock, waitValue, count>>

(* Mutant: the pulsed waiter returns without the ownership.                *)
WaitDoneUnowned(t) ==
  /\ At(t, {"released"})
  /\ Go(t, "in")
  /\ UNCHANGED <<enterLock, waitLock, waitValue, sig, count>>

WaitDone(t) ==
  /\ At(t, {"released"})
  /\ Go(t, "reenter")
  /\ UNCHANGED <<enterLock, waitLock, waitValue, sig, count>>

(* Mutants: a wait that fails stays counted in _waitValue, or returns at   *)
(* once instead of regaining the ownership.                                *)
WaitLeaveUncounted(t) ==
  /\ At(t, {"waitFailed"})
  /\ Go(t, "reenter")
  /\ UNCHANGED <<enterLock, waitLock, waitValue, sig, count>>
WaitFailReturns(t) ==
  /\ At(t, {"waitFailed"})
  /\ waitValue' = waitValue + 1
  /\ Go(t, "in")
  /\ UNCHANGED <<enterLock, waitLock, sig, count>>

(* "We have not been pulsed so leave the wait queue now".                  *)
WaitLeaveQueue(t) ==
  /\ At(t, {"waitFailed"})
  /\ waitValue' = waitValue + 1
  /\ Go(t, "reenter")
  /\ UNCHANGED <<enterLock, waitLock, sig, count>>

(* LockWaitUninterruptible(&(mon->_enterLock)): a signal that arrives here *)
(* is noted by the handler and consumed, the wait goes on.                 *)
Reenter(t) ==
  /\ At(t, {"reenter"})
  /\ enterLock > 0
  /\ enterLock' = enterLock - 1
  /\ Go(t, "in")
  /\ UNCHANGED <<waitLock, waitValue, sig, count>>

ReenterSignal(t) ==
  /\ At(t, {"reenter"})
  /\ t \in sig
  /\ sig' = sig \ {t}
  /\ UNCHANGED <<enterLock, waitLock, waitValue, pc, count>>

-----------------------------------------------------------------------------
(* _ILMonitorPulse, called by the owner.  The load finds a waiter, the     *)
(* increment may find that it has left in between.                         *)
PulseLoad(t) ==
  /\ At(t, {"in"})
  /\ waitValue < 0
  /\ Go(t, "pulseInc")
  /\ UNCHANGED <<enterLock, waitLock, waitValue, sig, count>>

PulseInc(t) ==
  /\ At(t, {"pulseInc"})
  /\ waitValue' = waitValue + 1
  /\ Go(t, IF waitValue < 0 THEN "pulsePost" ELSE "pulseUndo")
  /\ UNCHANGED <<enterLock, waitLock, sig, count>>

PulsePost(t) ==
  /\ At(t, {"pulsePost"})
  /\ waitLock' = waitLock + 1
  /\ Go(t, "in")
  /\ UNCHANGED <<enterLock, waitValue, sig, count>>

(* Mutant: the increment that found no waiter is not taken back.           *)
PulseKeep(t) ==
  /\ At(t, {"pulseUndo"})
  /\ Go(t, "in")
  /\ UNCHANGED <<enterLock, waitLock, waitValue, sig, count>>

PulseUndo(t) ==
  /\ At(t, {"pulseUndo"})
  /\ waitValue' = waitValue - 1
  /\ Go(t, "in")
  /\ UNCHANGED <<enterLock, waitLock, sig, count>>

(* _ILMonitorPulseAll.                                                     *)
PulseAllLoad(t) ==
  /\ At(t, {"in"})
  /\ waitValue < 0
  /\ Go(t, "pulseAllSwap")
  /\ UNCHANGED <<enterLock, waitLock, waitValue, sig, count>>

PulseAllSwap(t) ==
  /\ At(t, {"pulseAllSwap"})
  /\ count' = [count EXCEPT ![t] = waitValue]
  /\ waitValue' = 0
  /\ Go(t, IF waitValue < 0 THEN "pulseAllPost"
           ELSE IF waitValue > 0 THEN "pulseAllAdd" ELSE "in")
  /\ UNCHANGED <<enterLock, waitLock, sig>>

(* One iteration of LockSignalCount(&(mon->_waitLock), -waitValue).        *)
PulseAllPost(t) ==
  /\ At(t, {"pulseAllPost"})
  /\ waitLock' = waitLock + 1
  /\ count' = [count EXCEPT ![t] = @ + 1]
  /\ Go(t, IF count[t] = -1 THEN "in" ELSE "pulseAllPost")
  /\ UNCHANGED <<enterLock, waitValue, sig>>

PulseAllAdd(t) ==
  /\ At(t, {"pulseAllAdd"})
  /\ waitValue' = waitValue + count[t]
  /\ count' = [count EXCEPT ![t] = 0]
  /\ Go(t, "in")
  /\ UNCHANGED <<enterLock, waitLock, sig>>

-----------------------------------------------------------------------------
EnterStep(t) ==
  \/ TryEnter(t) \/ BeginEnter(t) \/ EnterAcquire(t) \/ EnterTimeout(t)
  \/ EnterSignal(t) \/ EnterDone(t) \/ Exit(t)

WaitStep(t) ==
  \/ WaitZero(t) \/ WaitQueue(t) \/ WaitRelease(t) \/ WaitPulsed(t)
  \/ WaitTimeout(t) \/ WaitSignal(t) \/ WaitDone(t) \/ WaitLeaveQueue(t)
  \/ Reenter(t) \/ ReenterSignal(t)

PulseStep(t) ==
  \/ PulseLoad(t) \/ PulseInc(t) \/ PulsePost(t) \/ PulseUndo(t)
  \/ PulseAllLoad(t) \/ PulseAllSwap(t) \/ PulseAllPost(t) \/ PulseAllAdd(t)

Next ==
  \E t \in Threads : EnterStep(t) \/ WaitStep(t) \/ PulseStep(t) \/ Interrupt(t)

Spec == Init /\ [][Next]_vars

(* The scheduler runs every thread that is inside a function of the        *)
(* monitor, a thread that is inside the monitor leaves it in the end, and  *)
(* a thread blocked on a semaphore is not passed over for ever.            *)
Progress(t) ==
  \/ EnterDone(t) \/ WaitRelease(t) \/ WaitDone(t) \/ WaitLeaveQueue(t)
  \/ PulseInc(t) \/ PulsePost(t) \/ PulseUndo(t)
  \/ PulseAllSwap(t) \/ PulseAllPost(t) \/ PulseAllAdd(t)

Fairness ==
  \A t \in Threads :
    /\ WF_vars(Progress(t))
    /\ SF_vars(EnterAcquire(t) \/ WaitPulsed(t) \/ Reenter(t))
    /\ SF_vars(Exit(t))

FairSpec == Spec /\ Fairness

-----------------------------------------------------------------------------
(* Properties.                                                             *)

TypeOK ==
  /\ enterLock \in Nat
  /\ waitLock \in Nat
  /\ waitValue \in Int
  /\ pc \in [Threads -> Control]
  /\ sig \subseteq Threads
  /\ count \in [Threads -> Int]

(* The token of _enterLock is either in the semaphore or with exactly one  *)
(* thread: never two owners, and never a monitor that nobody owns and      *)
(* nobody can enter (_ILMonitorTimedTryEnter, _ILMonitorExit and the       *)
(* release and reacquisition in _ILMonitorTimedWait).                      *)
EnterTokenConserved == enterLock + Cardinality(Holders) = 1

(* What a pulse in progress has already put on _waitValue without having   *)
(* posted it to _waitLock (or has to take back from it).                   *)
Debt(t) ==
  IF At(t, {"pulsePost", "pulseUndo"}) THEN 1
  ELSE IF At(t, {"pulseAllPost", "pulseAllAdd"}) THEN - count[t] ELSE 0

(* _waitValue is the number of tokens in _waitLock minus the number of     *)
(* threads in the wait queue, up to the pulse in progress: the counter     *)
(* that Pulse and PulseAll decide by never drifts, whatever waits time out *)
(* or are interrupted between their steps.                                 *)
WaitAccounting ==
  /\ (\A t \in Threads : Debt(t) = 0) =>
        waitValue = waitLock - Cardinality(Waiters)
  /\ \A t \in Threads : Debt(t) # 0 =>
        waitValue = waitLock + Debt(t) - Cardinality(Waiters)

(* When the owner sees _waitValue >= 0, so that its Pulse or PulseAll does *)
(* nothing, every thread in the wait queue already has a token: no waiter  *)
(* is passed over by a pulse that was issued while it waited.              *)
NoLostPulse ==
  \A t \in Threads :
    At(t, {"in"}) /\ waitValue >= 0 => waitLock >= Cardinality(Waiters)

(* A call that blocks comes to an end: a thread in Enter gets in or gives  *)
(* up, a thread whose wait is over, pulsed or not, gets the monitor back   *)
(* (_ILMonitorTimedWait only returns with the ownership regained).  Needs  *)
(* every token to come back, so a lost one shows up here as well.          *)
CallsReturn ==
  \A t \in Threads :
    At(t, {"entering", "released", "waitFailed", "reenter"}) ~> At(t, {"in", "out"})

(* The platform monitor implements the abstract one: the owner is the      *)
(* thread that holds the token, the wait set those in _ILMonitorTimedWait  *)
(* after its release.                                                      *)
owner == IF Holders = {} THEN NoThread ELSE CHOOSE t \in Threads : t \in Holders
waitSet == {t \in Threads : At(t, {"waiting", "released", "waitFailed", "reenter"})}
Abs == INSTANCE MonitorAbs
AbsSpec == Abs!Spec
=============================================================================
