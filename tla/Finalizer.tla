----------------------------- MODULE Finalizer -----------------------------
(***************************************************************************)
(* Finalizers (support/hb_gc.c): the finalizer thread, the threads that    *)
(* ask for finalizers and wait for them, the two events between them, the  *)
(* flags that disable finalizers for a while, and the shutdown.            *)
(*                                                                         *)
(* The flags are plain volatile variables: an action is one access to a    *)
(* flag, or one critical section of an event or of _FinalizerLock. Only    *)
(* the finalizer thread resets _FinalizerSignal, so that its wait is a     *)
(* wait for the event to be set. Timeouts, interrupts and aborts all make  *)
(* a wait for _FinalizerResponse fail, and are one action, GiveUp. Nobody  *)
(* interrupts the finalizer thread, and a finalizer starts no thread.      *)
(***************************************************************************)
EXTENDS Naturals, FiniteSets, Sequences

CONSTANTS Main,      \* the thread that shuts the collector down
          Others,    \* the other threads that use it
          Objects,   \* the number of objects with a finalizer
          Ops,       \* the operations each thread calls
          MaxCalls   \* calls of all threads

Clients == {Main} \cup Others

ASSUME FinalizerAssumption ==
    /\ Main \notin Others
    /\ Ops \in [Clients -> SUBSET {"invoke", "collect", "alloc", "full",
                                   "disable", "deinit"}]
    /\ IsFiniteSet(Others) /\ "finalizer" \notin Clients
    /\ Objects \in Nat /\ MaxCalls \in Nat

VARIABLES live,      \* objects whose finalizer is not due
          ready,     \* objects in the list GC_finalize_now
          notified,  \* GC_finalizer_notifier was called for the last collection
          disabled, running, runSync, stop, started, count, \* _Finalizer...
          signal,    \* _FinalizerSignal is set
          waiting,   \* the queue of _FinalizerResponse
          woken,     \* clients whose wakeup it has signalled
          fpc,       \* where the finalizer thread is
          pc, stack, \* where a client is, and where its calls return to
          ignore,    \* its parameter ignoreDisabled
          timed,     \* it called ILGCFullCollection with a timeout
          answer,    \* how its PrivateGCNotifyFinalize ended: "answered" by
                     \* the finalizer thread, "skipped" (both return 0), or
                     \* "gaveUp"
          last,      \* its lastFinalizingCount
          busy,      \* threads that run the finalizer of an object
          section,   \* how often a client has called ILGCDisableFinalizers
                     \* and not yet ILGCEnableFinalizers
          setter,    \* the client whose call set _FinalizersDisabled, if it
                     \* is set
          quiet,     \* clients whose ILGCDisableFinalizers returned 1
          told,      \* the setter, once it has found no finalizer running,
                     \* or was answered
          calls

flagVars == <<disabled, running, runSync, stop, started, count>>
eventVars == <<signal, waiting, woken>>
gcVars == <<live, ready, notified>>
localVars == <<ignore, timed, answer, last>>
sectionVars == <<section, setter, quiet, told>>
vars == <<gcVars, flagVars, eventVars, fpc, pc, stack, localVars, busy,
          sectionVars, calls>>

Init ==
    /\ live = Objects /\ ready = 0 /\ notified = TRUE
    /\ disabled = FALSE /\ running = FALSE /\ runSync = FALSE
    /\ stop = FALSE /\ started = FALSE /\ count = 0
    /\ signal = FALSE /\ waiting = {} /\ woken = {}
    /\ fpc = "new"
    /\ pc = [c \in Clients |-> IF c = Main THEN "user" ELSE "new"]
    /\ stack = [c \in Clients |-> <<>>]
    /\ ignore = [c \in Clients |-> FALSE]
    /\ timed = [c \in Clients |-> FALSE]
    /\ answer = [c \in Clients |-> "skipped"]
    /\ last = [c \in Clients |-> 0]
    /\ busy = {}
    /\ section = [c \in Clients |-> 0]
    /\ setter = {} /\ quiet = {} /\ told = {} /\ calls = 0

At(c, where) == pc[c] = where

Goto(c, where) == pc' = [pc EXCEPT ![c] = where] /\ UNCHANGED stack

\* c calls the operation that starts at where, and goes on at ret.
CallTo(c, where, ret) ==
    /\ pc' = [pc EXCEPT ![c] = where]
    /\ stack' = [stack EXCEPT ![c] = <<ret>> \o @]

Return(c) ==
    /\ pc' = [pc EXCEPT ![c] = Head(stack[c])]
    /\ stack' = [stack EXCEPT ![c] = Tail(@)]

-----------------------------------------------------------------------------
(* GC_invoke_finalizers takes the objects that are ready one by one. *)

TakeOne(w) ==
    /\ w \notin busy /\ ready > 0
    /\ ready' = ready - 1 /\ busy' = busy \cup {w}
    /\ UNCHANGED <<live, notified>>

FinishOne(w) ==
    /\ w \in busy
    /\ busy' = busy \ {w}
    /\ UNCHANGED gcVars

NoneLeft(w) == w \notin busy /\ ready = 0 /\ UNCHANGED <<gcVars, busy>>

(* _FinalizerThreadFunc *)

FWait ==
    /\ fpc = "wait" /\ signal
    /\ running' = TRUE
    /\ fpc' = "check"
    /\ UNCHANGED <<gcVars, disabled, runSync, stop, started, count,
                   eventVars, busy>>

\* The bug of not looking at _FinalizersDisabled.
FCheckEnabled ==
    /\ fpc = "check"
    /\ count' = IF ready > 0 THEN count + 1 ELSE count
    /\ fpc' = IF ready > 0 THEN "invoke" ELSE "clear"
    /\ UNCHANGED <<gcVars, disabled, running, runSync, stop, started,
                   eventVars, busy>>

FCheck ==
    /\ fpc = "check"
    /\ LET invoke == ready > 0 /\ ~disabled
       IN /\ count' = IF invoke THEN count + 1 ELSE count
          /\ fpc' = IF invoke THEN "invoke" ELSE "clear"
    /\ UNCHANGED <<gcVars, disabled, running, runSync, stop, started,
                   eventVars, busy>>

FInvoke ==
    /\ fpc = "invoke"
    /\ \/ (TakeOne("finalizer") \/ FinishOne("finalizer")) /\ UNCHANGED fpc
       \/ NoneLeft("finalizer") /\ fpc' = "clear"
    /\ UNCHANGED <<flagVars, eventVars>>

FClear ==
    /\ fpc = "clear"
    /\ running' = FALSE
    /\ fpc' = "stop?"
    /\ UNCHANGED <<gcVars, disabled, runSync, stop, started, count,
                   eventVars, busy>>

FStopCheck ==
    /\ fpc = "stop?"
    /\ fpc' = IF stop THEN "lastReset" ELSE "reset"
    /\ UNCHANGED <<gcVars, flagVars, eventVars, busy>>

FReset ==
    /\ fpc \in {"reset", "lastReset"}
    /\ signal' = FALSE
    /\ fpc' = IF fpc = "reset" THEN "pulse" ELSE "lastPulse"
    /\ UNCHANGED <<gcVars, flagVars, waiting, woken, busy>>

FPulse ==
    /\ fpc \in {"pulse", "lastPulse"}
    /\ woken' = woken \cup waiting /\ waiting' = {}
    /\ fpc' = IF fpc = "pulse" THEN "wait" ELSE "done"
    /\ UNCHANGED <<gcVars, flagVars, signal, busy>>

FStep ==
    /\ FWait \/ FCheck \/ FInvoke \/ FClear \/ FStopCheck \/ FReset \/ FPulse
    /\ UNCHANGED <<pc, stack, localVars, sectionVars, calls>>

-----------------------------------------------------------------------------
(* PrivateGCNotifyFinalize, with _InvokeFinalizersSynchronously and        *)
(* ILSignalAndWait. A client is at "notify" when it is called.             *)

Alive == {c \in Clients : pc[c] \notin {"new", "gone"}}

\* The bug of counting the foreground threads only; the finalizer thread is
\* a background thread.
NumForeground == Cardinality(Alive)

NumThreads == Cardinality(Alive) + (IF fpc \in {"new", "done"} THEN 0 ELSE 1)

\* Only three of the callers look at the result.
NotifyReturns(c, how) ==
    /\ answer' = [answer EXCEPT ![c] =
           IF Head(stack[c]) \in {"fullFirst", "fullTest", "disableEnd"}
           THEN how ELSE "skipped"]
    /\ ignore' = [ignore EXCEPT ![c] = FALSE]
    /\ Return(c)
    /\ UNCHANGED <<timed, last>>

Notify(c) ==
    /\ At(c, "notify")
    /\ IF (disabled /\ ~ignore[c]) \/ runSync
       THEN NotifyReturns(c, "skipped")
       ELSE Goto(c, "sync") /\ UNCHANGED localVars
    /\ UNCHANGED <<gcVars, flagVars, eventVars, fpc, busy>>

\* Alone, the thread runs the finalizers itself.
TrySynchronously(c) ==
    /\ At(c, "sync")
    /\ \/ /\ ready = 0 \/ runSync
          /\ NotifyReturns(c, "skipped")
          /\ UNCHANGED flagVars
       \/ /\ ready > 0 /\ ~runSync /\ NumThreads > 1
          /\ Goto(c, "start")
          /\ UNCHANGED <<flagVars, localVars>>
       \/ /\ ready > 0 /\ ~runSync /\ NumThreads <= 1
          /\ running' = TRUE /\ runSync' = TRUE /\ count' = count + 1
          /\ Goto(c, "syncRun")
          /\ UNCHANGED <<disabled, stop, started, localVars>>
    /\ UNCHANGED <<gcVars, eventVars, fpc, busy>>

RunSynchronously(c) ==
    /\ At(c, "syncRun")
    /\ \/ /\ TakeOne(c) \/ FinishOne(c)
          /\ UNCHANGED <<pc, stack, flagVars, localVars>>
       \/ /\ NoneLeft(c)
          /\ running' = FALSE /\ runSync' = FALSE
          /\ NotifyReturns(c, "skipped")
          /\ UNCHANGED <<disabled, stop, started, count>>
    /\ UNCHANGED <<eventVars, fpc>>

StartFinalizerThread(c) ==
    /\ At(c, "start")
    /\ \/ /\ ~started
          /\ started' = TRUE /\ fpc' = "wait"
          /\ Goto(c, "register")
          /\ UNCHANGED localVars
       \/ /\ ~started \* ILThreadStart fails
          /\ NotifyReturns(c, "skipped")
          /\ UNCHANGED <<started, fpc>>
       \/ /\ started
          /\ Goto(c, "register")
          /\ UNCHANGED <<started, fpc, localVars>>
    /\ UNCHANGED <<gcVars, disabled, running, runSync, stop, count,
                   eventVars, busy>>

\* The bug of signalling before the thread is registered.
SignalThenRegister(c) ==
    /\ \/ /\ At(c, "register")
          /\ signal' = TRUE
          /\ Goto(c, "signal")
          /\ UNCHANGED waiting
       \/ /\ At(c, "signal")
          /\ waiting' = waiting \cup {c}
          /\ Goto(c, "wait")
          /\ UNCHANGED signal
    /\ UNCHANGED <<gcVars, flagVars, woken, fpc, localVars, busy>>

\* ILSignalAndWait registers with the response, and then signals.
SignalAndWait(c) ==
    /\ \/ /\ At(c, "register")
          /\ waiting' = waiting \cup {c}
          /\ Goto(c, "signal")
          /\ UNCHANGED signal
       \/ /\ At(c, "signal")
          /\ signal' = TRUE
          /\ Goto(c, "wait")
          /\ UNCHANGED waiting
    /\ UNCHANGED <<gcVars, flagVars, woken, fpc, localVars, busy>>

Answered(c) ==
    /\ At(c, "wait") /\ c \in woken
    /\ woken' = woken \ {c}
    /\ NotifyReturns(c, "answered")
    /\ UNCHANGED <<gcVars, flagVars, signal, waiting, fpc, busy>>

\* The bug of leaving the thread in the queue of the event.
GiveUpQueued(c) ==
    /\ pc[c] \in {"register", "wait"}
    /\ NotifyReturns(c, "gaveUp")
    /\ UNCHANGED <<gcVars, flagVars, eventVars, fpc, busy>>

\* An abort before the wait, or the end of the wait by a timeout, an
\* interrupt or an abort.
GiveUp(c) ==
    /\ pc[c] \in {"register", "wait"}
    /\ waiting' = waiting \ {c} /\ woken' = woken \ {c}
    /\ NotifyReturns(c, "gaveUp")
    /\ UNCHANGED <<gcVars, flagVars, signal, fpc, busy>>

Forget(c) == answer' = [answer EXCEPT ![c] = "skipped"]

GaveUp(c) == answer[c] = "gaveUp"

CallNotify(c, ign, ret) ==
    /\ CallTo(c, "notify", ret)
    /\ ignore' = [ignore EXCEPT ![c] = ign]

-----------------------------------------------------------------------------
(* The collector: GC_gcollect, and an allocation, which may collect first. *)
(* Both call the notifier once for a collection that left objects to       *)
(* finalize.                                                               *)

\* A collection finds some objects without references.
FindsGarbage ==
    /\ \E n \in 0 .. live : live' = live - n /\ ready' = ready + n
    /\ notified' = FALSE

MustNotify == ready > 0 /\ ~notified

GCollect(c) ==
    /\ At(c, "gcollect")
    /\ \/ /\ MustNotify
          /\ notified' = TRUE
          /\ CallNotify(c, FALSE, "gcollect")
          /\ UNCHANGED <<live, ready>>
       \/ /\ ~MustNotify
          /\ FindsGarbage
          /\ Goto(c, "collected")
          /\ UNCHANGED ignore
    /\ UNCHANGED <<flagVars, eventVars, fpc, timed, answer, last, busy>>

Collected(c) ==
    /\ At(c, "collected")
    /\ \/ /\ MustNotify
          /\ notified' = TRUE
          /\ CallNotify(c, FALSE, "collected")
          /\ UNCHANGED <<live, ready>>
       \/ /\ ~MustNotify
          /\ Return(c)
          /\ UNCHANGED <<gcVars, ignore>>
    /\ UNCHANGED <<flagVars, eventVars, fpc, timed, answer, last, busy>>

(* ILGCFullCollection *)

FullStart(c) ==
    /\ At(c, "full")
    /\ IF running
       THEN CallNotify(c, TRUE, "fullFirst")
       ELSE Goto(c, "fullLoop") /\ UNCHANGED ignore
    /\ UNCHANGED <<gcVars, flagVars, eventVars, fpc, timed, answer, last, busy>>

FullFirst(c) ==
    /\ At(c, "fullFirst")
    /\ Goto(c, IF GaveUp(c) THEN "gcollect" ELSE "fullLoop")
    /\ Forget(c) /\ UNCHANGED last
    /\ timed' = [timed EXCEPT ![c] = @ /\ ~GaveUp(c)]
    /\ UNCHANGED <<gcVars, flagVars, eventVars, fpc, ignore, busy>>

FullLoop(c) ==
    /\ At(c, "fullLoop")
    /\ last' = [last EXCEPT ![c] = count]
    /\ CallTo(c, "gcollect", "fullCollected")
    /\ UNCHANGED <<gcVars, flagVars, eventVars, fpc, ignore, timed, answer, busy>>

FullReturn(c) ==
    /\ Return(c)
    /\ timed' = [timed EXCEPT ![c] = FALSE] /\ last' = [last EXCEPT ![c] = 0]

\* With a timeout, the time may be over.
FullCollected(c) ==
    /\ At(c, "fullCollected")
    /\ \/ CallNotify(c, timed[c], "fullTest") /\ UNCHANGED <<timed, last>>
       \/ timed[c] /\ FullReturn(c) /\ UNCHANGED ignore
    /\ UNCHANGED <<gcVars, flagVars, eventVars, fpc, answer, busy>>

\* Without a timeout the test of the result is the other way round. Once
\* more if finalizers ran, or if bytes were found (any value).
FullTest(c) ==
    /\ At(c, "fullTest")
    /\ \/ timed[c] # GaveUp(c) /\ Goto(c, "fullLoop") /\ UNCHANGED <<timed, last>>
       \/ (timed[c] = GaveUp(c) \/ last[c] >= count) /\ FullReturn(c)
    /\ Forget(c)
    /\ UNCHANGED <<gcVars, flagVars, eventVars, fpc, ignore, busy>>

(* ILGCDisableFinalizers after it has set the flag; ILGCDeinit *)

InSection(c) == section[c] > 0
Enters(c) == section' = [section EXCEPT ![c] = @ + 1]

\* The call returns 1. The thread knows that no finalizer runs if the flag
\* that it set has not been cleared meanwhile.
Disabled(c, sure) ==
    /\ Enters(c)
    /\ quiet' = quiet \cup {c}
    /\ told' = IF sure /\ c \in setter THEN told \cup {c} ELSE told

DisableCheck(c) ==
    /\ At(c, "disableCheck")
    /\ IF running
       THEN CallNotify(c, TRUE, "disableEnd") /\ UNCHANGED sectionVars
       ELSE Goto(c, "user") /\ Disabled(c, TRUE) /\ UNCHANGED <<setter, ignore>>
    /\ UNCHANGED <<gcVars, flagVars, eventVars, fpc, timed, answer, last, busy>>

\* Of the callers, METADATA_WRLOCK and GetGCHandleTable go on although the
\* call has given up; ILExecProcessDestroy does not, and leaves the flag set.
DisableEnd(c) ==
    /\ At(c, "disableEnd")
    /\ \/ ~GaveUp(c) /\ Disabled(c, answer[c] = "answered")
       \/ GaveUp(c) /\ (Enters(c) \/ UNCHANGED section) /\ UNCHANGED <<quiet, told>>
    /\ Goto(c, "user")
    /\ Forget(c)
    /\ UNCHANGED <<gcVars, flagVars, eventVars, fpc, ignore, timed, last, busy, setter>>

DeinitSignal(c) ==
    /\ At(c, "deinitSignal")
    /\ IF started THEN signal' = TRUE /\ Goto(c, "deinitJoin")
                  ELSE UNCHANGED signal /\ Goto(c, "ended")
    /\ UNCHANGED <<gcVars, flagVars, waiting, woken, fpc, localVars, busy>>

DeinitJoined(c) ==
    /\ At(c, "deinitJoin") /\ fpc = "done"
    /\ Goto(c, "ended")
    /\ UNCHANGED <<gcVars, flagVars, eventVars, fpc, localVars, busy>>

DeinitJoinTimeout(c) ==
    /\ At(c, "deinitJoin")
    /\ Goto(c, "ended")
    /\ UNCHANGED <<gcVars, flagVars, eventVars, fpc, localVars, busy>>

-----------------------------------------------------------------------------
(* The calls a client makes. Between ILGCDisableFinalizers and             *)
(* ILGCEnableFinalizers the engine only allocates, and converts methods,   *)
(* which disables finalizers again. After ILGCDeinit the process ends.     *)

Begins(c, op) ==
    /\ At(c, "user") /\ pc[Main] # "ended" /\ op \in Ops[c]
    /\ InSection(c) => op \in {"alloc", "disable"}
    /\ calls < MaxCalls /\ calls' = calls + 1

StartThread(c) ==
    /\ At(c, "user") /\ ~InSection(c)
    /\ \E d \in Others : At(d, "new") /\ Goto(d, "user")
    /\ UNCHANGED <<gcVars, flagVars, eventVars, fpc, localVars, busy,
                   sectionVars, calls>>

ThreadEnds(c) ==
    /\ At(c, "user") /\ c \in Others /\ ~InSection(c)
    /\ Goto(c, "gone")
    /\ UNCHANGED <<gcVars, flagVars, eventVars, fpc, localVars, busy,
                   sectionVars, calls>>

ILGCInvokeFinalizers(c) ==
    /\ Begins(c, "invoke")
    /\ ready > 0
    /\ CallNotify(c, FALSE, "user")
    /\ UNCHANGED <<gcVars, flagVars, eventVars, fpc, timed, answer, last,
                   busy, sectionVars>>

ILGCCollect(c) ==
    /\ Begins(c, "collect")
    /\ CallTo(c, "gcollect", "user")
    /\ UNCHANGED <<gcVars, flagVars, eventVars, fpc, localVars, busy, sectionVars>>

ILGCAlloc(c) ==
    /\ Begins(c, "alloc")
    /\ FindsGarbage
    /\ CallTo(c, "collected", "user")
    /\ UNCHANGED <<flagVars, eventVars, fpc, localVars, busy, sectionVars>>

ILGCFullCollection(c) ==
    /\ Begins(c, "full")
    /\ \E b \in BOOLEAN : timed' = [timed EXCEPT ![c] = b]
    /\ CallTo(c, "full", "user")
    /\ UNCHANGED <<gcVars, flagVars, eventVars, fpc, ignore, answer, last,
                   busy, sectionVars>>

ILGCDisableFinalizers(c) ==
    /\ Begins(c, "disable")
    /\ \/ disabled /\ Disabled(c, FALSE) /\ UNCHANGED <<pc, stack, disabled, setter>>
       \/ /\ ~disabled /\ disabled' = TRUE /\ setter' = {c}
          /\ Goto(c, "disableCheck")
          /\ UNCHANGED <<section, quiet, told>>
    /\ UNCHANGED <<gcVars, running, runSync, stop, started, count,
                   eventVars, fpc, localVars, busy>>

\* The flag is cleared whoever has set it.
ILGCEnableFinalizers(c) ==
    /\ At(c, "user") /\ InSection(c)
    /\ disabled' = FALSE /\ setter' = {} /\ told' = {}
    /\ section' = [section EXCEPT ![c] = @ - 1]
    /\ quiet' = quiet \ {c}
    /\ UNCHANGED <<gcVars, running, runSync, stop, started, count,
                   eventVars, fpc, pc, stack, localVars, busy, calls>>

ILGCDeinit(c) ==
    /\ c = Main /\ Begins(c, "deinit") /\ ~stop
    /\ stop' = TRUE
    /\ timed' = [timed EXCEPT ![c] = TRUE]
    /\ CallTo(c, "full", "deinitSignal")
    /\ UNCHANGED <<gcVars, disabled, running, runSync, started, count,
                   eventVars, fpc, ignore, answer, last, busy, sectionVars>>

Call(c) ==
    \/ StartThread(c) \/ ThreadEnds(c) \/ ILGCInvokeFinalizers(c)
    \/ ILGCCollect(c) \/ ILGCAlloc(c) \/ ILGCFullCollection(c) \/ ILGCDisableFinalizers(c)
    \/ ILGCEnableFinalizers(c) \/ ILGCDeinit(c)

Step(c) ==
    /\ \/ Notify(c) \/ TrySynchronously(c) \/ RunSynchronously(c)
       \/ StartFinalizerThread(c) \/ SignalAndWait(c) \/ Answered(c)
       \/ GCollect(c) \/ Collected(c)
       \/ FullStart(c) \/ FullFirst(c) \/ FullLoop(c) \/ FullCollected(c)
       \/ FullTest(c) \/ DeinitSignal(c) \/ DeinitJoined(c)
    /\ UNCHANGED <<sectionVars, calls>>

DisableStep(c) == (DisableCheck(c) \/ DisableEnd(c)) /\ UNCHANGED calls

LetGo(c) ==
    (GiveUp(c) \/ DeinitJoinTimeout(c)) /\ UNCHANGED <<sectionVars, calls>>

Next == FStep \/ \E c \in Clients : Call(c) \/ Step(c) \/ DisableStep(c) \/ LetGo(c)

Spec == Init /\ [][Next]_vars

\* Every thread is scheduled; nothing makes a thread call or give up.
FairSpec ==
    /\ Spec
    /\ WF_vars(FStep)
    /\ \A c \in Clients : WF_vars(Step(c)) /\ WF_vars(DisableStep(c))

-----------------------------------------------------------------------------
OuterPoints == {"new", "gone", "user", "disableCheck", "disableEnd", "deinitSignal",
                "deinitJoin", "ended"}

(* The types, with what the thread that runs finalizers is at. *)
TypeOK ==
    /\ live \in Nat /\ ready \in Nat /\ live + ready + Cardinality(busy) <= Objects
    /\ {notified, disabled, running, runSync, stop, started, signal} \subseteq BOOLEAN
    /\ count <= Objects
    /\ waiting \cap woken = {}
    /\ waiting \cup woken \subseteq {c \in Clients : pc[c] \in {"signal", "wait"}}
    /\ \A c \in Clients : /\ c \in busy => pc[c] = "syncRun"
                          /\ pc[c] \in OuterPoints <=> stack[c] = <<>>
    /\ "finalizer" \in busy => fpc = "invoke"
    /\ started <=> fpc # "new"

(* Once the thread that set _FinalizersDisabled has found no finalizer     *)
(* running, or was answered by the finalizer thread, none runs until some  *)
(* thread enables them: _FinalizersRunning and _FinalizersDisabled are     *)
(* each set before the other is read, so that one of the two threads sees  *)
(* the other. The flag is not counted: any METADATA_UNLOCK clears it.      *)
DisableHandshake ==
    told # {} => busy = {}

(* Once ILGCDisableFinalizers has returned 1, no finalizer runs until the  *)
(* thread enables them, as the comment in it guarantees.                   *)
QuietWhileDisabled ==
    quiet # {} => busy = {}

(* A thread that runs finalizers synchronously is the only one that runs   *)
(* any: "there is only one thread active".                                 *)
SyncAlone ==
    \A c \in Clients : pc[c] = "syncRun" =>
        /\ fpc \in {"new", "done"}
        /\ Alive = {c}

(* The wait of a thread that asked for finalizers ends, unless the         *)
(* finalizer thread has stopped for good.                                  *)
WaitIsAnswered ==
    \A c \in Clients : pc[c] = "wait" ~> (pc[c] # "wait" \/ fpc = "done")

(* ILGCDeinit: the finalizer thread stops after the flag is set and the    *)
(* event signalled.                                                        *)
FinalizerStops ==
    \A c \in Clients : pc[c] = "deinitJoin" ~> fpc = "done"

=============================================================================
