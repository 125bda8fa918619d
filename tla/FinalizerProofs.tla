--------------------------- MODULE FinalizerProofs ---------------------------
(***************************************************************************)
(* Proofs about the finalizers, for any set of client threads, any number  *)
(* of objects and any operations.                                          *)
(***************************************************************************)
EXTENDS Finalizer, FiniteSetTheorems, SequenceTheorems, TLAPS

-----------------------------------------------------------------------------
(* The inductive invariant. *)

\* Where a call may return to: at the end of what the client does, and
\* inside a collection.
OuterReturns == {"user", "disableEnd", "deinitSignal"}
InnerReturns == {"gcollect", "collected", "fullFirst", "fullCollected", "fullTest"}
Returns == OuterReturns \cup InnerReturns

Points == OuterPoints \cup InnerReturns \cup
          {"notify", "sync", "syncRun", "start", "register", "signal", "wait",
           "full", "fullLoop"}

\* A call from outside is at the bottom of the stack, and only there.
StackOK(s) ==
    /\ s \in Seq(Returns)
    /\ \A i \in 1 .. Len(s) : s[i] \in OuterReturns <=> i = Len(s)

ControlOK ==
    /\ pc \in [Clients -> Points]
    /\ DOMAIN stack = Clients
    /\ \A c \in Clients : /\ StackOK(stack[c])
                          /\ pc[c] \in OuterPoints <=> stack[c] = <<>>

FPoints == {"new", "wait", "check", "invoke", "clear", "stop?", "reset",
            "lastReset", "pulse", "lastPulse", "done"}

\* TypeOK without the counts.
Shape ==
    /\ {notified, disabled, running, runSync, stop, started, signal} \subseteq BOOLEAN
    /\ fpc \in FPoints
    /\ started <=> fpc # "new"
    /\ waiting \cap woken = {}
    /\ waiting \cup woken \subseteq {c \in Clients : pc[c] \in {"signal", "wait"}}
    /\ busy \subseteq Clients \cup {"finalizer"}
    /\ \A c \in Clients : c \in busy => pc[c] = "syncRun"
    /\ "finalizer" \in busy => fpc = "invoke"

\* The flag is set while the finalizer thread may run finalizers.
RunningSet == fpc \in {"check", "invoke", "clear"} => running

Invoking == fpc = "invoke" \/ \E c \in Clients : pc[c] = "syncRun"

\* _FinalizingCount counts the rounds; each takes an object.
Rounds ==
    /\ live \in Nat /\ ready \in Nat /\ count \in Nat
    /\ live + ready + Cardinality(busy) <= Objects
    /\ count + (live + ready) <= Objects + 1
    /\ (Invoking /\ ready > 0) \/ count + (live + ready) <= Objects

SyncInv == ControlOK /\ Shape /\ RunningSet /\ SyncAlone

CountInv == SyncInv /\ Rounds

-----------------------------------------------------------------------------
(* Calls and returns. *)

\* A call pushes its return point on a stack of the right shape.
LEMMA PushPop ==
    ASSUME NEW s, StackOK(s), NEW r \in Returns, r \in OuterReturns <=> s = <<>>
    PROVE  /\ StackOK(<<r>> \o s)
           /\ <<r>> \o s # <<>>
           /\ Head(<<r>> \o s) = r /\ Tail(<<r>> \o s) = s
<1>1. s \in Seq(Returns) /\ <<r>> \in Seq(Returns) /\ Len(<<r>>) = 1 /\ <<r>>[1] = r
  BY DEF StackOK
<1>2. /\ <<r>> \o s \in Seq(Returns) /\ Len(<<r>> \o s) = Len(s) + 1
      /\ \A i \in 1 .. Len(s) + 1 : (<<r>> \o s)[i] = IF i = 1 THEN r ELSE s[i - 1]
  BY <1>1
<1>3. Len(s) \in Nat /\ (s = <<>> <=> Len(s) = 0)
  BY <1>1, EmptySeq
<1>4. \A i \in 1 .. Len(<<r>> \o s) : (<<r>> \o s)[i] \in OuterReturns
                                         <=> i = Len(<<r>> \o s)
  <2> TAKE i \in 1 .. Len(<<r>> \o s)
  <2>1. CASE i = 1
    BY <1>2, <1>3, <2>1
  <2>2. CASE i # 1
    <3>1. i - 1 \in 1 .. Len(s)
      BY <1>2, <1>3, <2>2
    <3> QED BY <1>2, <1>3, <2>2, <3>1 DEF StackOK
  <2> QED BY <2>1, <2>2
<1>5. Head(<<r>> \o s) = r /\ Tail(<<r>> \o s) = s /\ <<r>> \o s # <<>>
  BY <1>1, HeadTailAppend, <1>2, <1>3
<1> QED BY <1>2, <1>4, <1>5 DEF StackOK

\* A return finds a return point, the outer one only at the bottom.
LEMMA Pop ==
    ASSUME NEW s, StackOK(s), s # <<>>
    PROVE  /\ StackOK(Tail(s)) /\ Head(s) \in Returns
           /\ Head(s) \in OuterReturns <=> Tail(s) = <<>>
<1>1. s \in Seq(Returns) /\ Len(s) \in Nat /\ Len(s) > 0
  BY EmptySeq DEF StackOK
<1>2. /\ Head(s) = s[1] /\ Tail(s) \in Seq(Returns) /\ Len(Tail(s)) = Len(s) - 1
      /\ \A i \in 1 .. Len(s) - 1 : Tail(s)[i] = s[i + 1]
  BY <1>1, HeadTailProperties
<1>3. 1 \in 1 .. Len(s) /\ \A i \in 1 .. Len(s) - 1 : i + 1 \in 1 .. Len(s)
  BY <1>1
<1>4. Tail(s) = <<>> <=> Len(s) = 1
  BY <1>1, <1>2, EmptySeq
<1>5. \A i \in 1 .. Len(s) : s[i] \in OuterReturns <=> i = Len(s)
  BY DEF StackOK
<1>6. \A i \in 1 .. Len(s) - 1 : Tail(s)[i] \in OuterReturns <=> i = Len(s) - 1
  <2> TAKE i \in 1 .. Len(s) - 1
  <2>1. i \in Nat /\ i + 1 \in 1 .. Len(s) /\ Tail(s)[i] = s[i + 1]
    BY <1>1, <1>2, <1>3
  <2>2. s[i + 1] \in OuterReturns <=> i + 1 = Len(s)
    BY <2>1, <1>5
  <2> QED BY <1>1, <2>1, <2>2
<1>7. Head(s) \in Returns /\ (Head(s) \in OuterReturns <=> Len(s) = 1)
  <2>1. s[1] \in Returns
    BY <1>1, <1>3, ElementOfSeq
  <2>2. s[1] \in OuterReturns <=> 1 = Len(s)
    BY <1>3, <1>5
  <2> QED BY <1>1, <1>2, <2>1, <2>2
<1> QED BY <1>2, <1>4, <1>6, <1>7 DEF StackOK

\* A jump inside a call, or outside of all, keeps stacks and points in step.
LEMMA GotoControl ==
    ASSUME ControlOK, NEW c \in Clients, NEW w \in Points, Goto(c, w),
           w \in OuterPoints <=> pc[c] \in OuterPoints
    PROVE  ControlOK'
  BY DEF ControlOK, Goto

\* So does a call,
LEMMA CallControl ==
    ASSUME ControlOK, NEW c \in Clients, NEW w \in Points \ OuterPoints,
           NEW r \in Returns, r \in OuterReturns <=> pc[c] \in OuterPoints,
           CallTo(c, w, r)
    PROVE  ControlOK' /\ Head(stack'[c]) = r /\ Tail(stack'[c]) = stack[c]
<1>1. StackOK(stack[c]) /\ (r \in OuterReturns <=> stack[c] = <<>>)
  BY DEF ControlOK
<1>2. stack' = [stack EXCEPT ![c] = <<r>> \o stack[c]] /\ pc' = [pc EXCEPT ![c] = w]
  BY DEF CallTo
<1> QED BY <1>1, <1>2, PushPop DEF ControlOK

\* and a return.
LEMMA ReturnControl ==
    ASSUME ControlOK, NEW c \in Clients, pc[c] \notin OuterPoints, Return(c)
    PROVE  ControlOK'
<1>1. StackOK(stack[c]) /\ stack[c] # <<>>
  BY DEF ControlOK
<1>2. stack' = [stack EXCEPT ![c] = Tail(stack[c])] /\ pc' = [pc EXCEPT ![c] = Head(stack[c])]
  BY DEF Return
<1>3. /\ StackOK(Tail(stack[c])) /\ Head(stack[c]) \in Returns
      /\ Head(stack[c]) \in OuterReturns <=> Tail(stack[c]) = <<>>
  BY <1>1, Pop
<1>4. Head(stack[c]) \in Points /\ (Head(stack[c]) \in OuterPoints <=> Tail(stack[c]) = <<>>)
  BY <1>3 DEF Returns, OuterReturns, InnerReturns, Points, OuterPoints
<1> QED BY <1>2, <1>3, <1>4 DEF ControlOK

-----------------------------------------------------------------------------
(* Every call returns to where it came from. *)
LEMMA ControlStep == ControlOK /\ [Next]_vars => ControlOK'
<1> SUFFICES ASSUME ControlOK, [Next]_vars PROVE ControlOK'
  OBVIOUS
<1> USE DEF At, Points, OuterPoints, Returns, OuterReturns, InnerReturns
<1>1. CASE FStep
  BY <1>1 DEF FStep, ControlOK
<1>2. ASSUME NEW c \in Clients, NEW how, NotifyReturns(c, how), pc[c] \notin OuterPoints
      PROVE  ControlOK'
  BY <1>2, ReturnControl DEF NotifyReturns
<1>3. ASSUME NEW c \in Clients, Notify(c) \/ TrySynchronously(c) \/ RunSynchronously(c)
      PROVE  ControlOK'
  <2>1. UNCHANGED <<pc, stack>> => ControlOK' BY DEF ControlOK
  <2> QED BY <1>2, <1>3, <2>1, GotoControl DEF Notify, TrySynchronously, RunSynchronously
<1>4. ASSUME NEW c \in Clients, StartFinalizerThread(c) \/ SignalAndWait(c) \/ Answered(c)
                                \/ GiveUp(c)
      PROVE  ControlOK'
  BY <1>2, <1>4, GotoControl DEF StartFinalizerThread, SignalAndWait, Answered, GiveUp
<1>5. ASSUME NEW c \in Clients, GCollect(c) \/ Collected(c)
      PROVE  ControlOK'
  BY <1>5, GotoControl, CallControl, ReturnControl DEF GCollect, Collected, CallNotify
<1>6. ASSUME NEW c \in Clients, FullStart(c) \/ FullFirst(c) \/ FullLoop(c)
      PROVE  ControlOK'
  BY <1>6, GotoControl, CallControl DEF FullStart, FullFirst, FullLoop, CallNotify
<1>7. ASSUME NEW c \in Clients, FullCollected(c) \/ FullTest(c)
      PROVE  ControlOK'
  BY <1>7, GotoControl, CallControl, ReturnControl
     DEF FullCollected, FullTest, FullReturn, CallNotify
<1>8. ASSUME NEW c \in Clients, \/ DisableCheck(c) \/ DisableEnd(c) \/ DeinitSignal(c)
                                \/ DeinitJoined(c) \/ DeinitJoinTimeout(c)
      PROVE  ControlOK'
  BY <1>8, GotoControl, CallControl
     DEF DisableCheck, DisableEnd, DeinitSignal, DeinitJoined, DeinitJoinTimeout, CallNotify
<1>9. ASSUME NEW c \in Clients, StartThread(c) \/ ThreadEnds(c) \/ ILGCEnableFinalizers(c)
      PROVE  ControlOK'
  <2>1. UNCHANGED <<pc, stack>> => ControlOK' BY DEF ControlOK
  <2> QED BY <1>9, <2>1, GotoControl
          DEF StartThread, ThreadEnds, ILGCEnableFinalizers, Clients
<1>10. ASSUME NEW c \in Clients, \/ ILGCInvokeFinalizers(c) \/ ILGCCollect(c) \/ ILGCAlloc(c)
                                 \/ ILGCFullCollection(c) \/ ILGCDeinit(c)
       PROVE  ControlOK'
  BY <1>10, CallControl
     DEF ILGCInvokeFinalizers, ILGCCollect, ILGCAlloc, ILGCFullCollection, ILGCDeinit,
         Begins, CallNotify
<1>11. ASSUME NEW c \in Clients, ILGCDisableFinalizers(c)
       PROVE  ControlOK'
  <2>1. UNCHANGED <<pc, stack>> => ControlOK' BY DEF ControlOK
  <2> QED BY <1>11, <2>1, GotoControl DEF ILGCDisableFinalizers, Begins
<1>12. CASE UNCHANGED vars
  BY <1>12 DEF vars, ControlOK
<1> QED
  BY <1>1, <1>3, <1>4, <1>5, <1>6, <1>7, <1>8, <1>9, <1>10, <1>11, <1>12
     DEF Next, Call, Step, DisableStep, LetGo

\* Inside a call there is a point to return to.
LEMMA ReturnPoint ==
    ASSUME ControlOK, NEW c \in Clients, pc[c] \notin OuterPoints
    PROVE  Head(stack[c]) \in Returns
  BY Pop DEF ControlOK

\* What a client does inside a call keeps it alive.
Stays(c) ==
    /\ pc' = [pc EXCEPT ![c] = pc'[c]]
    /\ pc[c] \notin {"new", "gone"} /\ pc'[c] \notin {"new", "gone"}

\* Who stays where it is in its life is alive as before.
LEMMA AliveStays ==
    ASSUME ControlOK, NEW c \in Clients, Stays(c)
    PROVE  Alive' = Alive
  BY DEF ControlOK, Alive, Stays

\* A thread that finds only one thread is alone.
LEMMA Alone ==
    ASSUME ControlOK, NEW c \in Clients, pc[c] \notin {"new", "gone"}, NumThreads <= 1
    PROVE  Alive = {c} /\ fpc \in {"new", "done"}
<1>1. IsFiniteSet(Clients)
  BY FinalizerAssumption, FS_Singleton, FS_Union DEF Clients
<1>2. IsFiniteSet(Alive) /\ Cardinality(Alive) \in Nat /\ c \in Alive
  BY <1>1, FS_Subset, FS_CardinalityType DEF Alive
<1>3. Cardinality(Alive) # 0
  BY <1>2, FS_EmptySet
<1>4. Cardinality(Alive) = 1 /\ fpc \in {"new", "done"}
  BY <1>2, <1>3 DEF NumThreads
<1> QED BY <1>2, <1>4, FS_Singleton

\* Every step keeps SyncInv.
LEMMA SyncStep == SyncInv /\ [Next]_vars => SyncInv'
<1> SUFFICES ASSUME SyncInv, [Next]_vars PROVE Shape' /\ RunningSet' /\ SyncAlone'
  BY ControlStep DEF SyncInv
<1>c. ControlOK /\ Shape /\ RunningSet /\ SyncAlone /\ "finalizer" \notin Clients
  BY FinalizerAssumption DEF SyncInv
<1>p. pc \in [Clients -> Points]
  BY <1>c DEF ControlOK
<1>h. \A c \in Clients : pc[c] \notin OuterPoints => Head(stack[c]) \in Returns
  BY <1>c, ReturnPoint
<1> USE DEF At, Points, OuterPoints, Returns, OuterReturns, InnerReturns, FPoints
<1>1. CASE FStep
  <2>1. Shape'
    BY <1>1, <1>c DEF FStep, FWait, FCheck, FInvoke, FClear, FStopCheck, FReset, FPulse,
           TakeOne, FinishOne, NoneLeft, gcVars, flagVars, eventVars, Shape
  <2>2. RunningSet'
    BY <1>1, <1>c DEF FStep, FWait, FCheck, FInvoke, FClear, FStopCheck, FReset, FPulse,
           TakeOne, FinishOne, NoneLeft, gcVars, flagVars, eventVars, RunningSet, Shape
  <2>3. fpc \notin {"new", "done"} /\ UNCHANGED pc
    BY <1>1 DEF FStep, FWait, FCheck, FInvoke, FClear, FStopCheck, FReset, FPulse
  <2>4. SyncAlone'
    BY <2>3, <1>c DEF SyncAlone
  <2> QED BY <2>1, <2>2, <2>4
<1>s. ASSUME NEW c \in Clients, Stays(c), pc[c] # "syncRun", pc'[c] # "syncRun", UNCHANGED fpc
      PROVE  SyncAlone'
  BY <1>s, <1>c, <1>p, AliveStays DEF SyncAlone, Stays
<1>m. ASSUME NEW c \in Clients, Stays(c), pc[c] # "syncRun", pc'[c] # "syncRun",
             UNCHANGED <<running, started, fpc, busy>>,
             {disabled', runSync', stop', signal', notified'} \subseteq BOOLEAN,
             waiting' \cap woken' = {},
             waiting' \cup woken' \subseteq (waiting \cup woken) \cup {c},
             c \in waiting' \cup woken' => pc'[c] \in {"signal", "wait"}
      PROVE  Shape' /\ RunningSet' /\ SyncAlone'
  <2>1. SyncAlone' BY <1>m, <1>s
  <2>2. Shape' /\ RunningSet' BY <1>m, <1>c, <1>p DEF Shape, RunningSet, Stays
  <2> QED BY <2>1, <2>2
<1>n. ASSUME UNCHANGED <<running, started, fpc, busy, pc, eventVars>>,
             {disabled', runSync', stop', notified'} \subseteq BOOLEAN
      PROVE  Shape' /\ RunningSet' /\ SyncAlone'
  BY <1>n, <1>c DEF Shape, RunningSet, SyncAlone, Alive, eventVars
<1>b. {notified, disabled, running, runSync, stop, started, signal} \subseteq BOOLEAN
  BY <1>c DEF Shape
<1>e. /\ waiting \cap woken = {}
      /\ \A c \in Clients : c \in waiting \cup woken => pc[c] \in {"signal", "wait"}
  BY <1>c DEF Shape
\* A step of a client that leaves the events alone.
<1>q. ASSUME NEW c \in Clients, Stays(c), pc[c] # "syncRun", pc'[c] # "syncRun",
             pc[c] \notin {"signal", "wait"},
             UNCHANGED <<running, started, fpc, busy, eventVars>>,
             {disabled', runSync', stop', notified'} \subseteq BOOLEAN
      PROVE  Shape' /\ RunningSet' /\ SyncAlone'
  BY <1>q, <1>m, <1>b, <1>e DEF eventVars
<1>r. ASSUME NEW c \in Clients, pc[c] \notin OuterPoints, Return(c)
      PROVE  Stays(c) /\ pc'[c] # "syncRun"
  BY <1>r, <1>h, <1>p DEF Return, Stays
<1>g. ASSUME NEW c \in Clients, NEW w \in Points, pc[c] \notin {"new", "gone"},
             w \notin {"new", "gone"}, pc' = [pc EXCEPT ![c] = w]
      PROVE  Stays(c) /\ pc'[c] = w
  BY <1>g, <1>p DEF Stays
<1>2. ASSUME NEW c \in Clients, Notify(c)
      PROVE  Shape' /\ RunningSet' /\ SyncAlone'
  <2>1. pc[c] = "notify" /\ UNCHANGED <<gcVars, flagVars, eventVars, fpc, busy>>
    BY <1>2 DEF Notify
  <2>2. Stays(c) /\ pc'[c] # "syncRun"
    BY <1>2, <2>1, <1>r, <1>g DEF Notify, NotifyReturns, Goto
  <2> QED BY <2>1, <2>2, <1>q, <1>b DEF gcVars, flagVars
<1>3. ASSUME NEW c \in Clients, TrySynchronously(c)
      PROVE  Shape' /\ RunningSet' /\ SyncAlone'
  <2>1. pc[c] = "sync" /\ UNCHANGED <<gcVars, eventVars, fpc, busy>>
    BY <1>3 DEF TrySynchronously
  <2>2. CASE NotifyReturns(c, "skipped") /\ UNCHANGED flagVars
    BY <2>1, <2>2, <1>r, <1>q, <1>b DEF NotifyReturns, gcVars, flagVars
  <2>3. CASE Goto(c, "start") /\ UNCHANGED flagVars
    BY <2>1, <2>3, <1>g, <1>q, <1>b DEF Goto, gcVars, flagVars
  <2>4. CASE /\ NumThreads <= 1 /\ Goto(c, "syncRun")
             /\ running' = TRUE /\ runSync' = TRUE /\ UNCHANGED <<disabled, stop, started>>
    <3>1. Stays(c) /\ pc' = [pc EXCEPT ![c] = "syncRun"] /\ pc'[c] = "syncRun"
      BY <2>1, <2>4, <1>g DEF Goto
    <3>2. Alive = {c} /\ fpc \in {"new", "done"} /\ Alive' = {c}
      BY <2>1, <2>4, <3>1, <1>c, Alone, AliveStays
    <3>3. SyncAlone'
      BY <3>2, <2>1 DEF SyncAlone, Alive
    <3>4. Shape' /\ RunningSet'
      BY <2>1, <2>4, <3>1, <1>c, <1>p DEF Shape, RunningSet, gcVars, eventVars
    <3> QED BY <3>3, <3>4
  <2> QED BY <1>3, <2>2, <2>3, <2>4 DEF TrySynchronously
<1>4. ASSUME NEW c \in Clients, RunSynchronously(c)
      PROVE  Shape' /\ RunningSet' /\ SyncAlone'
  <2>1. pc[c] = "syncRun" /\ UNCHANGED <<eventVars, fpc>> /\ fpc \in {"new", "done"}
    BY <1>4, <1>c DEF RunSynchronously, SyncAlone
  <2>2. CASE (TakeOne(c) \/ FinishOne(c)) /\ UNCHANGED <<pc, stack, flagVars>>
    <3>1. SyncAlone'
      BY <2>1, <2>2, <1>c DEF SyncAlone, Alive
    <3>2. Shape' /\ RunningSet'
      BY <2>1, <2>2, <1>c, <1>b DEF Shape, RunningSet, TakeOne, FinishOne, gcVars, flagVars, eventVars
    <3> QED BY <3>1, <3>2
  <2>3. CASE /\ NoneLeft(c) /\ running' = FALSE /\ runSync' = FALSE
             /\ NotifyReturns(c, "skipped") /\ UNCHANGED <<disabled, stop, started>>
    <3>1. Stays(c) /\ pc'[c] # "syncRun"
      BY <2>1, <2>3, <1>r DEF NotifyReturns
    <3>2. SyncAlone'
      BY <3>1, <2>1, <1>c, <1>p, AliveStays DEF SyncAlone, Stays
    <3>3. /\ c \notin busy /\ c \notin waiting \cup woken
          /\ UNCHANGED <<notified, busy, signal, waiting, woken, fpc, disabled, stop, started>>
          /\ \A d \in Clients \ {c} : pc'[d] = pc[d]
      BY <3>1, <2>1, <2>3, <1>e, <1>p DEF NoneLeft, gcVars, eventVars, Stays
    <3>5. /\ waiting \cup woken \subseteq {d \in Clients : pc'[d] \in {"signal", "wait"}}
          /\ \A d \in Clients : d \in busy => pc'[d] = "syncRun"
      <4>1. /\ waiting \cup woken \subseteq {d \in Clients : pc[d] \in {"signal", "wait"}}
            /\ \A d \in Clients : d \in busy => pc[d] = "syncRun"
        BY <1>c DEF Shape
      <4> QED BY <3>3, <4>1
    <3>6. RunningSet'
      BY <3>3, <2>1, <2>3 DEF RunningSet
    <3>7. {notified', disabled', running', runSync', stop', started', signal'} \subseteq BOOLEAN
      BY <3>3, <2>3, <1>b
    <3>4. Shape'
      BY <3>3, <3>5, <3>7, <1>c DEF Shape
    <3> QED BY <3>2, <3>4, <3>6
  <2> QED BY <1>4, <2>2, <2>3 DEF RunSynchronously
<1>5. ASSUME NEW c \in Clients, StartFinalizerThread(c)
      PROVE  Shape' /\ RunningSet' /\ SyncAlone'
  <2>1. /\ pc[c] = "start"
        /\ UNCHANGED <<gcVars, disabled, running, runSync, stop, count, eventVars, busy>>
    BY <1>5 DEF StartFinalizerThread
  <2>2. Stays(c) /\ pc'[c] # "syncRun"
    BY <1>5, <2>1, <1>r, <1>g DEF StartFinalizerThread, NotifyReturns, Goto
  <2>3. CASE UNCHANGED <<started, fpc>>
    BY <2>1, <2>2, <2>3, <1>q, <1>b DEF gcVars
  <2>4. CASE ~started /\ started' = TRUE /\ fpc' = "wait"
    <3>1. \A d \in Clients : pc[d] # "syncRun"
      BY <2>1, <1>c DEF SyncAlone, Alive
    <3>2. SyncAlone'
      BY <3>1, <2>2, <1>p DEF SyncAlone, Stays
    <3>3. Shape' /\ RunningSet'
      BY <2>1, <2>2, <2>4, <1>c, <1>p, <1>b DEF Shape, RunningSet, gcVars, eventVars, Stays
    <3> QED BY <3>2, <3>3
  <2> QED BY <1>5, <2>3, <2>4 DEF StartFinalizerThread
<1>6. ASSUME NEW c \in Clients, SignalAndWait(c)
      PROVE  Shape' /\ RunningSet' /\ SyncAlone'
  <2>1. UNCHANGED <<gcVars, flagVars, woken, fpc, busy>>
    BY <1>6 DEF SignalAndWait
  <2>2. Stays(c) /\ pc'[c] \in {"signal", "wait"} /\ pc[c] \in {"register", "signal"}
    BY <1>6, <1>g DEF SignalAndWait, Goto
  <2>3. /\ signal' \in BOOLEAN /\ waiting' \cup woken' \subseteq (waiting \cup woken) \cup {c}
        /\ waiting' \cap woken' = {}
    BY <1>6, <1>b, <1>e DEF SignalAndWait
  <2> QED BY <2>1, <2>2, <2>3, <1>m, <1>b DEF gcVars, flagVars
<1>7. ASSUME NEW c \in Clients, Answered(c) \/ GiveUp(c)
      PROVE  Shape' /\ RunningSet' /\ SyncAlone'
  <2>1. pc[c] \in {"register", "wait"} /\ UNCHANGED <<gcVars, flagVars, signal, fpc, busy>>
    BY <1>7 DEF Answered, GiveUp
  <2>2. Stays(c) /\ pc'[c] # "syncRun"
    BY <1>7, <2>1, <1>r DEF Answered, GiveUp, NotifyReturns
  <2>3. /\ waiting' \cup woken' \subseteq waiting \cup woken
        /\ waiting' \cap woken' = {} /\ c \notin waiting' \cup woken'
    BY <1>7, <1>e DEF Answered, GiveUp
  <2> QED BY <2>1, <2>2, <2>3, <1>m, <1>b DEF gcVars, flagVars
<1>8. ASSUME NEW c \in Clients, GCollect(c) \/ Collected(c)
      PROVE  Shape' /\ RunningSet' /\ SyncAlone'
  <2>1. /\ pc[c] \in {"gcollect", "collected"} /\ UNCHANGED <<flagVars, eventVars, fpc, busy>>
        /\ notified' \in BOOLEAN
    BY <1>8, <1>b DEF GCollect, Collected, FindsGarbage, gcVars
  <2>2. Stays(c) /\ pc'[c] # "syncRun"
    BY <1>8, <2>1, <1>r, <1>g DEF GCollect, Collected, CallNotify, CallTo, Goto
  <2> QED BY <2>1, <2>2, <1>q, <1>b DEF flagVars
<1>9. ASSUME NEW c \in Clients, FullStart(c) \/ FullFirst(c) \/ FullLoop(c)
                                \/ FullCollected(c) \/ FullTest(c)
      PROVE  Shape' /\ RunningSet' /\ SyncAlone'
  <2>1. /\ pc[c] \in {"full", "fullFirst", "fullLoop", "fullCollected", "fullTest"}
        /\ UNCHANGED <<gcVars, flagVars, eventVars, fpc, busy>>
    BY <1>9 DEF FullStart, FullFirst, FullLoop, FullCollected, FullTest
  <2>2. Stays(c) /\ pc'[c] # "syncRun"
    BY <1>9, <2>1, <1>r, <1>g DEF FullStart, FullFirst, FullLoop, FullCollected, FullTest,
           FullReturn, CallNotify, CallTo, Goto
  <2> QED BY <2>1, <2>2, <1>q, <1>b DEF gcVars, flagVars
<1>10. ASSUME NEW c \in Clients, DisableCheck(c) \/ DisableEnd(c)
                                 \/ DeinitJoined(c) \/ DeinitJoinTimeout(c)
       PROVE  Shape' /\ RunningSet' /\ SyncAlone'
  <2>1. /\ pc[c] \in {"disableCheck", "disableEnd", "deinitJoin"}
        /\ UNCHANGED <<gcVars, flagVars, eventVars, fpc, busy>>
    BY <1>10 DEF DisableCheck, DisableEnd, DeinitJoined, DeinitJoinTimeout
  <2>2. Stays(c) /\ pc'[c] # "syncRun"
    BY <1>10, <2>1, <1>g DEF DisableCheck, DisableEnd, DeinitJoined, DeinitJoinTimeout,
           CallNotify, CallTo, Goto
  <2> QED BY <2>1, <2>2, <1>q, <1>b DEF gcVars, flagVars
<1>11. ASSUME NEW c \in Clients, DeinitSignal(c)
       PROVE  Shape' /\ RunningSet' /\ SyncAlone'
  <2>1. /\ pc[c] = "deinitSignal" /\ UNCHANGED <<gcVars, flagVars, waiting, woken, fpc, busy>>
        /\ signal' \in BOOLEAN
    BY <1>11, <1>b DEF DeinitSignal
  <2>2. Stays(c) /\ pc'[c] # "syncRun"
    BY <1>11, <2>1, <1>g DEF DeinitSignal, Goto
  <2> QED BY <2>1, <2>2, <1>m, <1>b, <1>e DEF gcVars, flagVars
<1>12. ASSUME NEW c \in Clients, StartThread(c) \/ ThreadEnds(c)
       PROVE  Shape' /\ RunningSet' /\ SyncAlone'
  <2>1. pc[c] = "user" /\ UNCHANGED <<gcVars, flagVars, eventVars, fpc, busy>>
    BY <1>12 DEF StartThread, ThreadEnds
  <2>2. PICK d \in Clients : \E w \in {"user", "gone"} :
             pc[d] \in {"new", "user"} /\ pc' = [pc EXCEPT ![d] = w]
    BY <1>12 DEF StartThread, ThreadEnds, Goto, Clients
  <2>3. \A e \in Clients : pc[e] # "syncRun"
    BY <2>1, <1>c DEF SyncAlone, Alive
  <2>4. SyncAlone'
    BY <2>2, <2>3, <1>p DEF SyncAlone
  <2>5. Shape' /\ RunningSet'
    BY <2>1, <2>2, <1>c, <1>p DEF Shape, RunningSet, gcVars, flagVars, eventVars
  <2> QED BY <2>4, <2>5
<1>13. ASSUME NEW c \in Clients, \/ ILGCInvokeFinalizers(c) \/ ILGCCollect(c) \/ ILGCAlloc(c)
                                 \/ ILGCFullCollection(c) \/ ILGCDeinit(c)
       PROVE  Shape' /\ RunningSet' /\ SyncAlone'
  <2>1. /\ pc[c] = "user" /\ UNCHANGED <<disabled, running, runSync, started, eventVars, fpc, busy>>
        /\ notified' \in BOOLEAN /\ stop' \in BOOLEAN
    BY <1>13, <1>b DEF ILGCInvokeFinalizers, ILGCCollect, ILGCAlloc, ILGCFullCollection,
           ILGCDeinit, Begins, FindsGarbage, gcVars, flagVars
  <2>2. Stays(c) /\ pc'[c] # "syncRun"
    BY <1>13, <2>1, <1>g DEF ILGCInvokeFinalizers, ILGCCollect, ILGCAlloc, ILGCFullCollection,
           ILGCDeinit, CallNotify, CallTo
  <2> QED BY <2>1, <2>2, <1>q, <1>b
<1>14. ASSUME NEW c \in Clients, ILGCDisableFinalizers(c) \/ ILGCEnableFinalizers(c)
       PROVE  Shape' /\ RunningSet' /\ SyncAlone'
  <2>1. /\ pc[c] = "user" /\ UNCHANGED <<gcVars, running, runSync, stop, started, eventVars, fpc, busy>>
        /\ disabled' \in BOOLEAN
    BY <1>14, <1>b DEF ILGCDisableFinalizers, ILGCEnableFinalizers, Begins
  <2>2. \/ UNCHANGED pc
        \/ Stays(c) /\ pc'[c] # "syncRun"
    BY <1>14, <2>1, <1>g DEF ILGCDisableFinalizers, ILGCEnableFinalizers, Goto
  <2> QED BY <2>1, <2>2, <1>n, <1>q, <1>b DEF gcVars
<1>15. CASE UNCHANGED vars
  BY <1>15, <1>n, <1>b DEF vars, gcVars, flagVars
<1> QED
  BY <1>1, <1>2, <1>3, <1>4, <1>5, <1>6, <1>7, <1>8, <1>9, <1>10, <1>11, <1>12, <1>13, <1>14, <1>15
     DEF Next, Call, Step, DisableStep, LetGo

\* SyncInv holds before the first call.
LEMMA SyncInit == Init => SyncInv
<1> SUFFICES ASSUME Init PROVE SyncInv
  OBVIOUS
<1> USE DEF Points, OuterPoints, InnerReturns, FPoints
<1>1. pc \in [Clients -> {"new", "user"}] /\ stack = [c \in Clients |-> <<>>]
  BY DEF Init
<1>2. ControlOK
  BY <1>1 DEF ControlOK, StackOK
<1>3. Shape /\ RunningSet /\ SyncAlone
  BY <1>1 DEF Init, Shape, RunningSet, SyncAlone
<1> QED BY <1>2, <1>3 DEF SyncInv

(* A thread that runs finalizers synchronously (_InvokeFinalizersSynchronously, *)
(* which is called without a lock after the threads were counted) is the   *)
(* only thread there is, and the finalizer thread does not run, for any    *)
(* threads and operations.                                                 *)
THEOREM SynchronousIsAlone == Spec => []SyncAlone
<1>1. SyncInv => SyncAlone
  BY DEF SyncInv
<1> QED BY SyncInit, SyncStep, <1>1, PTL DEF Spec

-----------------------------------------------------------------------------
(* The counts. *)

\* A step that starts, ends and counts no round, and takes no object.
Uncounted ==
    /\ live' \in Nat /\ ready' \in Nat /\ live' + ready' = live + ready
    /\ ready' >= ready /\ UNCHANGED <<count, busy>>
    /\ Invoking' <=> Invoking

\* The threads in a finalizer can be counted.
LEMMA FiniteBusy ==
    ASSUME Shape
    PROVE  IsFiniteSet(busy) /\ Cardinality(busy) \in Nat
<1>1. IsFiniteSet(Clients \cup {"finalizer"})
  BY FinalizerAssumption, FS_Singleton, FS_Union DEF Clients
<1> QED BY <1>1, FS_Subset, FS_CardinalityType DEF Shape

\* A step that makes no object and runs no finalizer keeps the counts.
LEMMA UncountedStep ==
    ASSUME Rounds, Uncounted, Shape
    PROVE  Rounds'
<1>1. Objects \in Nat /\ Cardinality(busy) \in Nat /\ Cardinality(busy') = Cardinality(busy)
  BY FinalizerAssumption, FiniteBusy DEF Uncounted
<1>2. live' + ready' + Cardinality(busy') <= Objects
  BY <1>1 DEF Rounds, Uncounted
<1>3. /\ count' + (live' + ready') <= Objects + 1
      /\ (Invoking' /\ ready' > 0) \/ count' + (live' + ready') <= Objects
  <2>1. count' + (live' + ready') = count + (live + ready)
    BY DEF Uncounted
  <2>2. ready > 0 => ready' > 0
    BY DEF Rounds, Uncounted
  <2> QED BY <2>1, <2>2 DEF Rounds, Uncounted
<1> QED BY <1>2, <1>3 DEF Rounds, Uncounted

\* A collection only moves objects from live to ready.
LEMMA FindsGarbageCounts ==
    ASSUME live \in Nat, ready \in Nat, FindsGarbage
    PROVE  live' \in Nat /\ ready' \in Nat /\ live' + ready' = live + ready /\ ready' >= ready
  BY DEF FindsGarbage

\* A round of the thread w.
LEMMA RoundStep ==
    ASSUME Rounds, Shape, Invoking, Invoking', NEW w, TakeOne(w) \/ FinishOne(w),
           count' = count
    PROVE  Rounds'
<1>1. IsFiniteSet(busy) /\ Cardinality(busy) \in Nat /\ Objects \in Nat
  BY FiniteBusy, FinalizerAssumption
<1>2. CASE TakeOne(w)
  <2>1. Cardinality(busy') = Cardinality(busy) + 1
    BY <1>1, <1>2, FS_AddElement DEF TakeOne
  <2>2. ready' = ready - 1 /\ ready > 0 /\ live' = live
    BY <1>2 DEF TakeOne
  <2> QED BY <1>1, <2>1, <2>2 DEF Rounds
<1>3. CASE FinishOne(w)
  <2>1. Cardinality(busy') = Cardinality(busy) - 1
    BY <1>1, <1>3, FS_RemoveElement DEF FinishOne
  <2>2. ready' = ready /\ live' = live
    BY <1>3 DEF FinishOne, gcVars
  <2> QED BY <1>1, <1>3, <2>1, <2>2 DEF Rounds
<1> QED BY <1>2, <1>3

\* The thread that starts a round is the only one in a round.
LEMMA NewRound ==
    ASSUME Rounds, ~Invoking, Invoking', ready > 0, UNCHANGED <<gcVars, busy>>,
           count' = count + 1
    PROVE  Rounds'
<1>1. Objects \in Nat /\ live \in Nat /\ ready \in Nat /\ count \in Nat
  BY FinalizerAssumption DEF Rounds
<1>2. live' = live /\ ready' = ready /\ busy' = busy
  BY DEF gcVars
<1>3. count + (live + ready) <= Objects
  BY DEF Rounds
<1>4. count' + (live' + ready') <= Objects + 1 /\ ready' > 0
  BY <1>1, <1>2, <1>3
<1> QED BY <1>1, <1>2, <1>4 DEF Rounds

\* Every step keeps CountInv.
LEMMA CountStep == CountInv /\ [Next]_vars => CountInv'
<1> SUFFICES ASSUME CountInv, [Next]_vars PROVE Rounds'
  BY SyncStep DEF CountInv
<1>c. ControlOK /\ Shape /\ SyncAlone /\ Rounds
  BY DEF CountInv, SyncInv
<1>p. pc \in [Clients -> Points] /\ live \in Nat /\ ready \in Nat
  BY <1>c DEF ControlOK, Rounds
<1>h. \A c \in Clients : pc[c] \notin OuterPoints => Head(stack[c]) \in Returns
  BY <1>c, ReturnPoint
<1>i. fpc \notin {"new", "done"} => \A c \in Clients : pc[c] # "syncRun"
  BY <1>c DEF SyncAlone
\* Nothing is counted, taken or found, and nobody starts or ends a round.
<1>u. ASSUME UNCHANGED <<live, ready, count, busy>>, Invoking' <=> Invoking
      PROVE  Rounds'
  <2>1. Uncounted
    BY <1>u, <1>p DEF Uncounted
  <2> QED BY <2>1, <1>c, UncountedStep
<1> USE DEF At, Points, OuterPoints, Returns, OuterReturns, InnerReturns
<1>1. CASE FStep
  <2>1. UNCHANGED pc
    BY <1>1 DEF FStep
  <2>2. CASE FWait \/ FClear \/ FStopCheck \/ FReset \/ FPulse
    <3>1. fpc # "invoke" /\ fpc' # "invoke" /\ UNCHANGED <<live, ready, count, busy>>
      BY <2>2 DEF FWait, FClear, FStopCheck, FReset, FPulse, gcVars, flagVars
    <3> QED BY <3>1, <2>1, <1>u DEF Invoking
  <2>3. CASE FCheck
    <3>1. fpc = "check" /\ UNCHANGED <<gcVars, busy>> /\ ~Invoking
      BY <2>3, <1>i DEF FCheck, Invoking
    <3>2. CASE ready > 0 /\ ~disabled
      <4>1. count' = count + 1 /\ Invoking'
        BY <2>3, <3>2 DEF FCheck, Invoking
      <4> QED BY <3>1, <3>2, <4>1, <1>c, NewRound
    <3>3. CASE ~(ready > 0 /\ ~disabled)
      <4>1. count' = count /\ fpc' = "clear"
        BY <2>3, <3>3 DEF FCheck
      <4> QED BY <3>1, <4>1, <2>1, <1>u DEF Invoking, gcVars
    <3> QED BY <3>2, <3>3
  <2>4. CASE FInvoke
    <3>1. fpc = "invoke" /\ count' = count
      BY <2>4 DEF FInvoke, flagVars
    <3>2. CASE (TakeOne("finalizer") \/ FinishOne("finalizer")) /\ UNCHANGED fpc
      BY <3>1, <3>2, <1>c, RoundStep DEF Invoking
    <3>3. CASE NoneLeft("finalizer")
      BY <3>1, <3>3, <1>c DEF NoneLeft, gcVars, Rounds
    <3> QED BY <2>4, <3>2, <3>3 DEF FInvoke
  <2> QED BY <1>1, <2>2, <2>3, <2>4 DEF FStep
<1>2. ASSUME NEW c \in Clients, TrySynchronously(c)
      PROVE  Rounds'
  <2>1. pc[c] = "sync" /\ UNCHANGED <<gcVars, fpc, busy>>
    BY <1>2 DEF TrySynchronously
  <2>2. CASE (NotifyReturns(c, "skipped") \/ Goto(c, "start")) /\ UNCHANGED flagVars
    <3>1. Invoking' <=> Invoking
      BY <2>1, <2>2, <1>p, <1>h DEF NotifyReturns, Return, Goto, Invoking
    <3> QED BY <3>1, <2>1, <2>2, <1>u DEF gcVars, flagVars
  <2>3. CASE /\ NumThreads <= 1 /\ Goto(c, "syncRun") /\ ready > 0 /\ count' = count + 1
    <3>1. Alive = {c} /\ fpc \in {"new", "done"}
      BY <1>c, <2>1, <2>3, Alone
    <3>2. ~Invoking
      BY <3>1, <2>1 DEF Invoking, Alive
    <3>3. Invoking'
      BY <2>3, <1>p DEF Goto, Invoking
    <3> QED BY <3>2, <3>3, <2>1, <2>3, <1>c, NewRound
  <2> QED BY <1>2, <2>2, <2>3 DEF TrySynchronously
<1>3. ASSUME NEW c \in Clients, RunSynchronously(c)
      PROVE  Rounds'
  <2>1. pc[c] = "syncRun" /\ count' = count
    BY <1>3 DEF RunSynchronously, flagVars
  <2>2. CASE (TakeOne(c) \/ FinishOne(c)) /\ UNCHANGED pc
    BY <2>1, <2>2, <1>c, RoundStep DEF Invoking
  <2>3. CASE NoneLeft(c)
    BY <2>1, <2>3, <1>c DEF NoneLeft, gcVars, Rounds
  <2> QED BY <1>3, <2>2, <2>3 DEF RunSynchronously
<1>o. ASSUME NEW d \in Clients, pc[d] # "syncRun", NEW w, w # "syncRun",
             pc' = [pc EXCEPT ![d] = w], fpc = "invoke" <=> fpc' = "invoke"
      PROVE  Invoking' <=> Invoking
  BY <1>o, <1>p DEF Invoking
<1>4. ASSUME NEW c \in Clients, Notify(c) \/ SignalAndWait(c) \/ Answered(c) \/ GiveUp(c)
      PROVE  Rounds'
  <2>1. pc[c] \in Points \ (OuterPoints \cup {"syncRun"}) /\ UNCHANGED <<gcVars, flagVars, fpc, busy>>
    BY <1>4 DEF Notify, SignalAndWait, Answered, GiveUp
  <2>2. \E w : w # "syncRun" /\ pc' = [pc EXCEPT ![c] = w]
    BY <1>4, <2>1, <1>h DEF Notify, SignalAndWait, Answered, GiveUp, NotifyReturns, Return, Goto
  <2> QED BY <2>1, <2>2, <1>o, <1>u DEF gcVars, flagVars
<1>5. ASSUME NEW c \in Clients, StartFinalizerThread(c)
      PROVE  Rounds'
  <2>1. /\ pc[c] = "start" /\ UNCHANGED <<gcVars, count, busy>>
        /\ fpc = "invoke" <=> fpc' = "invoke"
    BY <1>5, <1>c DEF StartFinalizerThread, Shape
  <2>2. \E w : w # "syncRun" /\ pc' = [pc EXCEPT ![c] = w]
    BY <1>5, <2>1, <1>h DEF StartFinalizerThread, NotifyReturns, Return, Goto
  <2> QED BY <2>1, <2>2, <1>o, <1>u DEF gcVars
<1>6. ASSUME NEW c \in Clients, GCollect(c) \/ Collected(c) \/ ILGCAlloc(c)
      PROVE  Rounds'
  <2>1. /\ pc[c] \in {"gcollect", "collected", "user"} /\ UNCHANGED <<flagVars, fpc, busy>>
        /\ UNCHANGED <<live, ready>> \/ FindsGarbage
    BY <1>6 DEF GCollect, Collected, ILGCAlloc, Begins, gcVars
  <2>2. \E w : w # "syncRun" /\ pc' = [pc EXCEPT ![c] = w]
    BY <1>6, <2>1, <1>h DEF GCollect, Collected, ILGCAlloc, CallNotify, CallTo, Return, Goto
  <2>3. Invoking' <=> Invoking
    BY <2>1, <2>2, <1>o
  <2>4. CASE UNCHANGED <<live, ready>>
    BY <2>1, <2>3, <2>4, <1>u DEF flagVars
  <2>5. CASE FindsGarbage
    <3>1. Uncounted
      BY <2>1, <2>3, <2>5, <1>p, FindsGarbageCounts DEF Uncounted, flagVars
    <3> QED BY <3>1, <1>c, UncountedStep
  <2> QED BY <2>1, <2>4, <2>5
<1>7. ASSUME NEW c \in Clients, FullStart(c) \/ FullFirst(c) \/ FullLoop(c)
                                \/ FullCollected(c) \/ FullTest(c)
      PROVE  Rounds'
  <2>1. /\ pc[c] \in {"full", "fullFirst", "fullLoop", "fullCollected", "fullTest"}
        /\ UNCHANGED <<gcVars, flagVars, fpc, busy>>
    BY <1>7 DEF FullStart, FullFirst, FullLoop, FullCollected, FullTest
  <2>2. \E w : w # "syncRun" /\ pc' = [pc EXCEPT ![c] = w]
    BY <1>7, <2>1, <1>h DEF FullStart, FullFirst, FullLoop, FullCollected, FullTest,
           FullReturn, CallNotify, CallTo, Goto, Return
  <2> QED BY <2>1, <2>2, <1>o, <1>u DEF gcVars, flagVars
<1>8. ASSUME NEW c \in Clients, \/ DisableCheck(c) \/ DisableEnd(c) \/ DeinitSignal(c)
                                \/ DeinitJoined(c) \/ DeinitJoinTimeout(c)
      PROVE  Rounds'
  <2>1. /\ pc[c] \in {"disableCheck", "disableEnd", "deinitSignal", "deinitJoin"}
        /\ UNCHANGED <<gcVars, flagVars, fpc, busy>>
    BY <1>8 DEF DisableCheck, DisableEnd, DeinitSignal, DeinitJoined, DeinitJoinTimeout
  <2>2. \E w : w # "syncRun" /\ pc' = [pc EXCEPT ![c] = w]
    BY <1>8, <2>1 DEF DisableCheck, DisableEnd, DeinitSignal, DeinitJoined, DeinitJoinTimeout,
           CallNotify, CallTo, Goto
  <2> QED BY <2>1, <2>2, <1>o, <1>u DEF gcVars, flagVars
<1>9. ASSUME NEW c \in Clients, \/ StartThread(c) \/ ThreadEnds(c) \/ ILGCInvokeFinalizers(c)
                                \/ ILGCCollect(c) \/ ILGCFullCollection(c)
      PROVE  Rounds'
  <2>1. UNCHANGED <<gcVars, flagVars, fpc, busy>>
    BY <1>9 DEF StartThread, ThreadEnds, ILGCInvokeFinalizers, ILGCCollect, ILGCFullCollection
  <2>2. \E d \in Clients : \E w : pc[d] # "syncRun" /\ w # "syncRun" /\ pc' = [pc EXCEPT ![d] = w]
    BY <1>9 DEF StartThread, ThreadEnds, ILGCInvokeFinalizers, ILGCCollect, ILGCFullCollection,
           Begins, CallNotify, CallTo, Goto, Clients
  <2> QED BY <2>1, <2>2, <1>o, <1>u DEF gcVars, flagVars
<1>10. ASSUME NEW c \in Clients, \/ ILGCDisableFinalizers(c) \/ ILGCEnableFinalizers(c)
                                 \/ ILGCDeinit(c)
       PROVE  Rounds'
  <2>1. pc[c] = "user" /\ UNCHANGED <<gcVars, count, fpc, busy>>
    BY <1>10 DEF ILGCDisableFinalizers, ILGCEnableFinalizers, ILGCDeinit, Begins
  <2>2. UNCHANGED pc \/ \E w : w # "syncRun" /\ pc' = [pc EXCEPT ![c] = w]
    BY <1>10 DEF ILGCDisableFinalizers, ILGCEnableFinalizers, ILGCDeinit, CallTo, Goto
  <2>3. Invoking' <=> Invoking
    BY <2>1, <2>2, <1>o DEF Invoking
  <2> QED BY <2>1, <2>3, <1>u DEF gcVars
<1>11. CASE UNCHANGED vars
  BY <1>11, <1>u DEF vars, gcVars, flagVars, Invoking
<1> QED
  BY <1>1, <1>2, <1>3, <1>4, <1>5, <1>6, <1>7, <1>8, <1>9, <1>10, <1>11
     DEF Next, Call, Step, DisableStep, LetGo

\* CountInv holds before the first call.
LEMMA CountInit == Init => CountInv
<1> SUFFICES ASSUME Init PROVE Rounds
  BY SyncInit DEF CountInv
<1>1. Cardinality(busy) = 0 /\ Objects \in Nat
  BY FS_EmptySet, FinalizerAssumption DEF Init
<1> QED BY <1>1 DEF Init, Rounds

(* The types of the finalizers' state, for any threads, operations and     *)
(* number of objects: the objects that are live, ready and being finalized *)
(* never exceed the objects there are, _FinalizingCount never passes their *)
(* number (each round takes one), who is queued at _FinalizerResponse is   *)
(* in its wait, and every call has a place to return to.                   *)
THEOREM TypeCorrect == Spec => []TypeOK
<1>1. CountInv => TypeOK
  <2> SUFFICES ASSUME CountInv PROVE TypeOK
    OBVIOUS
  <2>1. ControlOK /\ Shape /\ Rounds
    BY DEF CountInv, SyncInv
  <2>2. count <= Objects
    BY <2>1, FinalizerAssumption DEF Rounds
  <2> QED BY <2>1, <2>2 DEF ControlOK, Shape, Rounds, TypeOK
<1> QED BY CountInit, CountStep, <1>1, PTL DEF Spec

-----------------------------------------------------------------------------
(* The handshake between a thread that disables finalizers and the         *)
(* finalizer thread.                                                       *)

\* c has been called by ILGCDisableFinalizers.
Pending(c) == \E i \in 1 .. Len(stack[c]) : stack[c][i] = "disableEnd"

\* Inside PrivateGCNotifyFinalize.
NotifyPoints == {"notify", "sync", "syncRun", "start", "register", "signal", "wait"}

\* c found no finalizer running, or the finalizer thread has answered it.
Sure(c) ==
    \/ c \in told
    \/ c \in woken /\ Head(stack[c]) = "disableEnd"
    \/ pc[c] = "disableEnd" /\ answer[c] = "answered"

\* A thread that disabled finalizers allocates, and skips the finalizers
\* when it collects.
Allocating(c) ==
    \/ pc[c] = "user"
    \/ pc[c] = "collected" /\ stack[c] = <<"user">>
    \/ /\ pc[c] = "notify" /\ ~ignore[c]
       /\ Head(stack[c]) = "collected" /\ Tail(stack[c]) = <<"user">>

\* What the client that set the flag, and has since been sure, relies on.
HandshakeOf(c) ==
    /\ Pending(c) => Len(stack[c]) = 1 /\ pc[c] \in NotifyPoints
    /\ c \in setter => disabled
    /\ c \in told => c \in setter /\ InSection(c) /\ Allocating(c)
    /\ c \in setter /\ Sure(c) => fpc # "invoke"

Handshake ==
    /\ told \subseteq Clients /\ setter \subseteq Clients
    /\ DOMAIN ignore = Clients /\ DOMAIN answer = Clients /\ section \in [Clients -> Nat]
    /\ \A c \in Clients : HandshakeOf(c)

HandshakeInv == SyncInv /\ Handshake

\* A step of c leaves the other threads alone.
Frame(c) ==
    /\ \A d \in Clients \ {c} :
          /\ pc'[d] = pc[d] /\ stack'[d] = stack[d] /\ ignore'[d] = ignore[d]
          /\ answer'[d] = answer[d] /\ (d \in woken' => d \in woken)
          /\ (d \in told' <=> d \in told) /\ (d \in setter' <=> d \in setter)
          /\ section'[d] = section[d]
    /\ disabled' = disabled \/ disabled' = TRUE
    /\ fpc' = fpc \/ fpc' # "invoke"

\* The handshake of a client that takes no part in the step.
LEMMA Elsewhere ==
    ASSUME Handshake, NEW c \in Clients, Frame(c), NEW d \in Clients, d # c
    PROVE  HandshakeOf(d)'
<1>1. /\ Pending(d)' <=> Pending(d)
      /\ Allocating(d)' <=> Allocating(d)
      /\ InSection(d)' <=> InSection(d)
  BY DEF Frame, Pending, Allocating, InSection
<1>2. Sure(d)' => Sure(d)
  BY DEF Frame, Sure
<1>3. HandshakeOf(d)
  BY DEF Handshake
<1> QED BY <1>1, <1>2, <1>3 DEF Frame, HandshakeOf

\* What calls and returns do to Pending.
LEMMA PendingCall ==
    ASSUME ControlOK, NEW c \in Clients, NEW w, NEW r \in Returns, r # "disableEnd", CallTo(c, w, r), ~Pending(c)
    PROVE  ~Pending(c)'
<1>1. /\ stack' = [stack EXCEPT ![c] = <<r>> \o stack[c]] /\ pc' = [pc EXCEPT ![c] = w]
      /\ stack[c] \in Seq(Returns)
  BY DEF CallTo, ControlOK, StackOK
<1>2. stack'[c] = <<r>> \o stack[c] /\ pc'[c] = w
  BY <1>1 DEF ControlOK
<1>3. ASSUME NEW i \in 1 .. Len(<<r>> \o stack[c])
      PROVE  (<<r>> \o stack[c])[i] # "disableEnd"
  <2>1. /\ Len(<<r>> \o stack[c]) = Len(stack[c]) + 1 /\ Len(stack[c]) \in Nat
        /\ (<<r>> \o stack[c])[i] = IF i = 1 THEN r ELSE stack[c][i - 1]
    BY <1>1, <1>3
  <2>2. i # 1 => i - 1 \in 1 .. Len(stack[c])
    BY <2>1
  <2> QED BY <2>1, <2>2 DEF Pending
<1> QED BY <1>2, <1>3 DEF Pending

\* A return ends what the disabling client waits for.
LEMMA PendingReturn ==
    ASSUME ControlOK, NEW c \in Clients, HandshakeOf(c), pc[c] \notin OuterPoints, Return(c)
    PROVE  /\ ~Pending(c)' /\ pc'[c] = Head(stack[c]) /\ stack'[c] = Tail(stack[c])
           /\ Head(stack[c]) = "disableEnd" => Pending(c)
<1>1. /\ stack' = [stack EXCEPT ![c] = Tail(stack[c])] /\ pc' = [pc EXCEPT ![c] = Head(stack[c])]
      /\ stack[c] \in Seq(Returns) /\ stack[c] # <<>> /\ Head(stack[c]) \in Returns
  BY ReturnPoint DEF Return, ControlOK, StackOK
<1>2. stack'[c] = Tail(stack[c]) /\ pc'[c] = Head(stack[c])
  BY <1>1 DEF ControlOK
<1>3. /\ Len(stack[c]) \in Nat /\ Len(stack[c]) > 0 /\ Head(stack[c]) = stack[c][1]
      /\ Len(Tail(stack[c])) = Len(stack[c]) - 1
      /\ \A i \in 1 .. Len(stack[c]) - 1 : Tail(stack[c])[i] = stack[c][i + 1]
  BY <1>1, EmptySeq, HeadTailProperties
<1>4. ~Pending(c)'
  <2> SUFFICES ASSUME NEW i \in 1 .. Len(Tail(stack[c])), Tail(stack[c])[i] = "disableEnd"
               PROVE  FALSE
    BY <1>2 DEF Pending
  <2>1. i + 1 \in 1 .. Len(stack[c]) /\ stack[c][i + 1] = "disableEnd" /\ Len(stack[c]) # 1
    BY <1>3
  <2> QED BY <2>1 DEF Pending, HandshakeOf
<1>5. Head(stack[c]) = "disableEnd" => Pending(c)
  <2>1. 1 \in 1 .. Len(stack[c])
    BY <1>3
  <2> QED BY <1>3, <2>1 DEF Pending
<1> QED BY <1>2, <1>4, <1>5

\* A jump inside the notification keeps the client waiting.
LEMMA PendingGoto ==
    ASSUME ControlOK, NEW c \in Clients, HandshakeOf(c), NEW w,
           w \in NotifyPoints <=> pc[c] \in NotifyPoints,
           Goto(c, w)
    PROVE  /\ Pending(c)' => Len(stack'[c]) = 1 /\ pc'[c] \in NotifyPoints
           /\ pc'[c] = w
<1>1. stack'[c] = stack[c] /\ pc'[c] = w
  BY DEF Goto, ControlOK
<1> QED BY <1>1 DEF Pending, HandshakeOf

\* The end of PrivateGCNotifyFinalize, for the thread itself and the others.
LEMMA NotifyReturnsFrame ==
    ASSUME HandshakeInv, NEW c \in Clients, pc[c] \notin OuterPoints, NEW how,
           NotifyReturns(c, how)
    PROVE  /\ ~Pending(c)'
           /\ pc'[c] = Head(stack[c]) /\ stack'[c] = Tail(stack[c])
           /\ pc'[c] = "disableEnd" => answer'[c] = how
           /\ DOMAIN ignore' = Clients /\ DOMAIN answer' = Clients
           /\ \A d \in Clients \ {c} : /\ pc'[d] = pc[d] /\ stack'[d] = stack[d]
                                        /\ ignore'[d] = ignore[d] /\ answer'[d] = answer[d]
<1>1. ControlOK /\ Handshake
  BY DEF HandshakeInv, SyncInv
<1>2. Return(c)
  BY DEF NotifyReturns
<1>3. ~Pending(c)'
  BY <1>1, <1>2, PendingReturn DEF Handshake
<1> QED BY <1>1, <1>2, <1>3 DEF NotifyReturns, Return, ControlOK, Handshake

\* A step of a thread that has not been told that finalizers are off.
LEMMA Untold ==
    ASSUME HandshakeInv, NEW c \in Clients, Frame(c), c \notin told', c \notin woken',
           c \in setter' => c \in setter,
           Pending(c)' => Len(stack'[c]) = 1 /\ pc'[c] \in NotifyPoints,
           ~(pc'[c] = "disableEnd" /\ answer'[c] = "answered"),
           DOMAIN ignore' = Clients, DOMAIN answer' = Clients,
           told' \subseteq Clients, setter' \subseteq Clients, section' \in [Clients -> Nat]
    PROVE  Handshake'
<1>1. Handshake
  BY DEF HandshakeInv
<1>2. \A d \in Clients \ {c} : HandshakeOf(d)'
  BY <1>1, Elsewhere
<1>3. HandshakeOf(c)'
  <2>1. ~Sure(c)'
    BY DEF Sure
  <2>2. c \in setter' => disabled'
    BY <1>1 DEF Handshake, HandshakeOf, Frame
  <2> QED BY <2>1, <2>2 DEF HandshakeOf
<1> QED BY <1>2, <1>3 DEF Handshake

\* Every step keeps HandshakeInv.
LEMMA HandshakeStep == HandshakeInv /\ [Next]_vars => HandshakeInv'
<1> SUFFICES ASSUME HandshakeInv, [Next]_vars PROVE Handshake'
  BY SyncStep DEF HandshakeInv
<1>c. ControlOK /\ Shape /\ RunningSet /\ SyncAlone /\ Handshake
  BY DEF HandshakeInv, SyncInv
<1>p. pc \in [Clients -> Points] /\ DOMAIN stack = Clients
  BY <1>c DEF ControlOK
<1>h. \A c \in Clients : pc[c] \notin OuterPoints => Head(stack[c]) \in Returns
  BY <1>c, ReturnPoint
<1>e. \A c \in Clients : c \in woken => pc[c] \in {"signal", "wait"}
  BY <1>c DEF Shape
<1>t. \A c \in Clients : c \in told => Allocating(c) /\ c \in setter /\ InSection(c)
  BY <1>c DEF Handshake, HandshakeOf
<1>w. /\ told \subseteq Clients /\ setter \subseteq Clients /\ section \in [Clients -> Nat]
      /\ DOMAIN ignore = Clients /\ DOMAIN answer = Clients
  BY <1>c DEF Handshake
<1>x. \A c \in Clients : HandshakeOf(c)
  BY <1>c DEF Handshake
<1> USE DEF At, NotifyPoints, Points, OuterPoints, Returns, OuterReturns, InnerReturns
<1>1. CASE FStep
  <2>1. UNCHANGED <<pc, stack, ignore, answer, section, setter, told, disabled>>
    BY <1>1 DEF FStep, FWait, FCheck, FInvoke, FClear, FStopCheck, FReset, FPulse,
           localVars, flagVars, sectionVars
  <2>2. \A c \in Clients : /\ Pending(c)' <=> Pending(c)
                           /\ Allocating(c)' <=> Allocating(c)
    BY <2>1 DEF Pending, Allocating
  <2>3. ASSUME NEW c \in Clients, c \in setter, Sure(c)' PROVE fpc' # "invoke"
    <3>1. CASE FCheck
      <4>1. disabled
        BY <2>3, <1>c DEF Handshake, HandshakeOf
      <4> QED BY <4>1, <3>1 DEF FCheck
    <3>2. CASE FInvoke
      <4>1. Sure(c)
        BY <2>1, <2>3, <3>2 DEF FInvoke, eventVars, Sure
      <4> QED BY <2>3, <4>1, <3>2, <1>c DEF FInvoke, Handshake, HandshakeOf
    <3>3. CASE FWait \/ FClear \/ FStopCheck \/ FReset \/ FPulse
      BY <3>3 DEF FWait, FClear, FStopCheck, FReset, FPulse
    <3> QED BY <1>1, <3>1, <3>2, <3>3 DEF FStep
  <2>4. \A c \in Clients : HandshakeOf(c)'
    BY <2>1, <2>2, <2>3, <1>c DEF Handshake, HandshakeOf, InSection
  <2> QED BY <2>1, <2>4, <1>w DEF Handshake
\* PrivateGCNotifyFinalize.
<1>2. ASSUME NEW c \in Clients, Notify(c), UNCHANGED <<section, setter, told>>
      PROVE  Handshake'
  <2>1. pc[c] = "notify" /\ UNCHANGED <<flagVars, woken, fpc>> /\ c \notin woken
    BY <1>2, <1>e DEF Notify, eventVars
  <2>2. CASE NotifyReturns(c, "skipped")
    <3>1. Frame(c)
      BY <1>2, <2>1, <2>2, NotifyReturnsFrame DEF Frame, flagVars
    <3>2. CASE c \notin told
      BY <1>2, <2>1, <2>2, <3>1, <3>2, <1>w, NotifyReturnsFrame, Untold
    <3>3. CASE c \in told
      <4>1. Head(stack[c]) = "collected" /\ Tail(stack[c]) = <<"user">>
        BY <2>1, <3>3, <1>t DEF Allocating
      <4>2. pc'[c] = "collected" /\ stack'[c] = <<"user">> /\ ~Pending(c)'
        BY <2>1, <2>2, <4>1, NotifyReturnsFrame
      <4>3. Sure(c) /\ HandshakeOf(c)
        BY <3>3, <1>c DEF Sure, Handshake
      <4>4. HandshakeOf(c)'
        BY <1>2, <2>1, <3>3, <4>1, <4>2, <4>3, <1>t DEF HandshakeOf, Allocating, InSection, flagVars
      <4>5. \A d \in Clients \ {c} : HandshakeOf(d)'
        BY <3>1, <1>c, Elsewhere
      <4>6. DOMAIN ignore' = Clients /\ DOMAIN answer' = Clients
        BY <2>1, <2>2, NotifyReturnsFrame
      <4> QED BY <1>2, <1>w, <4>4, <4>5, <4>6 DEF Handshake
    <3> QED BY <3>2, <3>3
  <2>3. CASE ~((disabled /\ ~ignore[c]) \/ runSync) /\ Goto(c, "sync") /\ UNCHANGED localVars
    <3>1. Frame(c)
      BY <1>2, <2>1, <2>3, <1>p DEF Frame, Goto, localVars, flagVars
    <3>2. c \notin told
      BY <2>1, <2>3, <1>t, <1>c DEF Allocating, Handshake, HandshakeOf
    <3>3. /\ pc'[c] = "sync"
          /\ Pending(c)' => Len(stack'[c]) = 1 /\ pc'[c] \in NotifyPoints
      BY <2>1, <2>3, <1>c, <1>x, PendingGoto
    <3> QED BY <1>2, <2>1, <2>3, <3>1, <3>2, <3>3, <1>w, Untold DEF localVars
  <2> QED BY <1>2, <2>2, <2>3 DEF Notify
<1>3. ASSUME NEW c \in Clients, TrySynchronously(c) \/ RunSynchronously(c),
             UNCHANGED <<section, setter, told>>
      PROVE  Handshake'
  <2>1. /\ pc[c] \in {"sync", "syncRun"} /\ UNCHANGED <<disabled, woken, fpc>>
        /\ c \notin woken /\ c \notin told
    BY <1>3, <1>e, <1>t DEF TrySynchronously, RunSynchronously, eventVars, flagVars, Allocating
  <2>2. CASE NotifyReturns(c, "skipped")
    BY <1>3, <2>1, <2>2, <1>w, NotifyReturnsFrame, Untold DEF Frame
  <2>3. CASE (Goto(c, "start") \/ Goto(c, "syncRun") \/ UNCHANGED <<pc, stack>>) /\ UNCHANGED localVars
    <3>1. Frame(c)
      BY <1>3, <2>1, <2>3, <1>p DEF Frame, Goto, localVars
    <3>2. /\ pc'[c] # "disableEnd"
          /\ Pending(c)' => Len(stack'[c]) = 1 /\ pc'[c] \in NotifyPoints
      <4>1. CASE UNCHANGED <<pc, stack>>
        BY <4>1, <2>1, <1>x DEF Pending, HandshakeOf
      <4>2. CASE Goto(c, "start") \/ Goto(c, "syncRun")
        BY <4>2, <2>1, <1>c, <1>x, PendingGoto
      <4> QED BY <2>3, <4>1, <4>2
    <3> QED BY <1>3, <2>1, <2>3, <3>1, <3>2, <1>w, Untold DEF localVars
  <2> QED BY <1>3, <2>2, <2>3 DEF TrySynchronously, RunSynchronously
<1>4. ASSUME NEW c \in Clients, StartFinalizerThread(c), UNCHANGED <<section, setter, told>>
      PROVE  Handshake'
  <2>1. /\ pc[c] = "start" /\ UNCHANGED <<disabled, woken>> /\ (fpc' = fpc \/ fpc' = "wait")
        /\ c \notin woken /\ c \notin told
    BY <1>4, <1>e, <1>t DEF StartFinalizerThread, eventVars, Allocating
  <2>2. CASE NotifyReturns(c, "skipped")
    BY <1>4, <2>1, <2>2, <1>w, NotifyReturnsFrame, Untold DEF Frame
  <2>3. CASE Goto(c, "register") /\ UNCHANGED localVars
    <3>1. Frame(c)
      BY <1>4, <2>1, <2>3, <1>p DEF Frame, Goto, localVars
    <3>2. /\ pc'[c] # "disableEnd"
          /\ Pending(c)' => Len(stack'[c]) = 1 /\ pc'[c] \in NotifyPoints
      BY <2>1, <2>3, <1>c, <1>x, PendingGoto
    <3> QED BY <1>4, <2>1, <2>3, <3>1, <3>2, <1>w, Untold DEF localVars
  <2> QED BY <1>4, <2>2, <2>3 DEF StartFinalizerThread
<1>5. ASSUME NEW c \in Clients, SignalAndWait(c), UNCHANGED <<section, setter, told>>
      PROVE  Handshake'
  <2>1. /\ pc[c] \in {"register", "signal"} /\ pc'[c] \in {"signal", "wait"}
        /\ UNCHANGED <<disabled, woken, fpc, stack, ignore, answer>>
        /\ \A d \in Clients \ {c} : pc'[d] = pc[d]
        /\ c \notin told
    BY <1>5, <1>p, <1>t DEF SignalAndWait, Goto, localVars, flagVars, Allocating
  <2>5. Pending(c)' => Len(stack'[c]) = 1 /\ pc'[c] \in NotifyPoints
    BY <1>5, <2>1, <1>c, <1>x, PendingGoto DEF SignalAndWait
  <2>2. Frame(c)
    BY <1>5, <2>1 DEF Frame
  <2>3. HandshakeOf(c)'
    BY <1>5, <2>1, <2>5, <1>c DEF Handshake, HandshakeOf, Sure
  <2>4. \A d \in Clients \ {c} : HandshakeOf(d)'
    BY <2>2, <1>c, Elsewhere
  <2> QED BY <1>5, <1>w, <2>1, <2>3, <2>4 DEF Handshake
<1>6. ASSUME NEW c \in Clients, GiveUp(c), UNCHANGED <<section, setter, told>>
      PROVE  Handshake'
  <2>1. /\ pc[c] \in {"register", "wait"} /\ UNCHANGED <<disabled, fpc>>
        /\ woken' = woken \ {c} /\ c \notin told /\ NotifyReturns(c, "gaveUp")
    BY <1>6, <1>t DEF GiveUp, flagVars, Allocating
  <2> QED BY <1>6, <2>1, <1>w, NotifyReturnsFrame, Untold DEF Frame
<1>7. ASSUME NEW c \in Clients, Answered(c), UNCHANGED <<section, setter, told>>
      PROVE  Handshake'
  <2>1. /\ pc[c] = "wait" /\ UNCHANGED <<disabled, fpc>> /\ c \in woken
        /\ woken' = woken \ {c} /\ c \notin told /\ NotifyReturns(c, "answered")
    BY <1>7, <1>t DEF Answered, flagVars, Allocating
  <2>2. Frame(c)
    BY <1>7, <2>1, NotifyReturnsFrame DEF Frame
  <2>3. /\ ~Pending(c)'
        /\ pc'[c] = Head(stack[c]) /\ DOMAIN ignore' = Clients /\ DOMAIN answer' = Clients
    BY <2>1, NotifyReturnsFrame
  <2>4. Sure(c)' => Sure(c)
    BY <1>7, <2>1, <2>3 DEF Sure
  <2>5. HandshakeOf(c)'
    BY <1>7, <2>1, <2>3, <2>4, <1>c DEF Handshake, HandshakeOf
  <2>6. \A d \in Clients \ {c} : HandshakeOf(d)'
    BY <2>2, <1>c, Elsewhere
  <2> QED BY <1>7, <1>w, <2>3, <2>5, <2>6 DEF Handshake
\* The collections.
<1>8. ASSUME NEW c \in Clients, Collected(c), UNCHANGED <<section, setter, told>>
      PROVE  Handshake'
  <2>1. /\ pc[c] = "collected" /\ UNCHANGED <<disabled, woken, fpc, answer>> /\ c \notin woken
        /\ ~Pending(c)
    BY <1>8, <1>e, <1>x DEF Collected, eventVars, flagVars, HandshakeOf
  <2>2. CASE CallNotify(c, FALSE, "collected")
    <3>1. /\ pc' = [pc EXCEPT ![c] = "notify"] /\ ignore' = [ignore EXCEPT ![c] = FALSE]
          /\ stack' = [stack EXCEPT ![c] = <<"collected">> \o stack[c]]
          /\ CallTo(c, "notify", "collected")
      BY <2>2 DEF CallNotify, CallTo
    <3>2. /\ pc'[c] = "notify" /\ ignore'[c] = FALSE /\ stack'[c] = <<"collected">> \o stack[c]
          /\ DOMAIN ignore' = Clients
      BY <3>1, <1>p, <1>w
    <3>3. Frame(c)
      BY <1>8, <2>1, <3>1, <1>p, <1>w DEF Frame
    <3>6. ~Pending(c)'
      BY <2>1, <3>1, <1>c, PendingCall
    <3>4. CASE c \notin told
      BY <1>8, <2>1, <3>2, <3>3, <3>4, <3>6, <1>w, Untold
    <3>5. CASE c \in told
      <4>1. stack[c] = <<"user">> /\ InSection(c) /\ c \in setter /\ Sure(c) /\ HandshakeOf(c)
        BY <2>1, <3>5, <1>t, <1>c DEF Allocating, Sure, Handshake
      <4>2. Head(stack'[c]) = "collected" /\ Tail(stack'[c]) = stack[c]
        BY <2>1, <3>1, <1>c, CallControl
      <4>3. Allocating(c)'
        BY <4>1, <4>2, <3>2 DEF Allocating
      <4>4. HandshakeOf(c)'
        BY <1>8, <2>1, <3>2, <3>6, <4>1, <4>3 DEF HandshakeOf, InSection
      <4>5. \A d \in Clients \ {c} : HandshakeOf(d)'
        BY <3>3, <1>c, Elsewhere
      <4> QED BY <1>8, <2>1, <1>w, <3>2, <4>4, <4>5 DEF Handshake
    <3> QED BY <3>4, <3>5
  <2>3. CASE Return(c) /\ UNCHANGED ignore
    <3>1. /\ pc' = [pc EXCEPT ![c] = Head(stack[c])] /\ stack' = [stack EXCEPT ![c] = Tail(stack[c])]
          /\ pc'[c] = Head(stack[c]) /\ pc'[c] # "disableEnd" /\ ~Pending(c)'
      BY <2>1, <2>3, <1>c, <1>x, PendingReturn DEF Return
    <3>2. Frame(c)
      BY <1>8, <2>1, <2>3, <3>1, <1>p DEF Frame
    <3>3. CASE c \notin told
      BY <1>8, <2>1, <2>3, <3>1, <3>2, <3>3, <1>w, Untold
    <3>4. CASE c \in told
      <4>1. stack[c] = <<"user">> /\ InSection(c) /\ c \in setter /\ Sure(c) /\ HandshakeOf(c)
        BY <2>1, <3>4, <1>t, <1>c DEF Allocating, Sure, Handshake
      <4>2. pc'[c] = "user"
        BY <3>1, <4>1
      <4>3. HandshakeOf(c)'
        BY <1>8, <2>1, <3>1, <4>1, <4>2 DEF HandshakeOf, Allocating, InSection
      <4>4. \A d \in Clients \ {c} : HandshakeOf(d)'
        BY <3>2, <1>c, Elsewhere
      <4> QED BY <1>8, <2>1, <2>3, <1>w, <4>3, <4>4 DEF Handshake
    <3> QED BY <3>3, <3>4
  <2> QED BY <1>8, <2>2, <2>3 DEF Collected
<1>9. ASSUME NEW c \in Clients, GCollect(c), UNCHANGED <<section, setter, told>>
      PROVE  Handshake'
  <2>1. /\ pc[c] = "gcollect" /\ UNCHANGED <<disabled, woken, fpc, answer>> /\ c \notin woken
        /\ ~Pending(c) /\ c \notin told
    BY <1>9, <1>e, <1>t, <1>x DEF GCollect, eventVars, flagVars, HandshakeOf, Allocating
  <2>2. CASE CallNotify(c, FALSE, "gcollect")
    <3>1. /\ pc' = [pc EXCEPT ![c] = "notify"] /\ ignore' = [ignore EXCEPT ![c] = FALSE]
          /\ stack' = [stack EXCEPT ![c] = <<"gcollect">> \o stack[c]]
          /\ ~Pending(c)'
      BY <2>1, <2>2, <1>c, PendingCall DEF CallNotify, CallTo
    <3>2. Frame(c)
      BY <1>9, <2>1, <3>1, <1>p, <1>w DEF Frame
    <3> QED BY <1>9, <2>1, <3>1, <3>2, <1>p, <1>w, Untold
  <2>3. CASE Goto(c, "collected") /\ UNCHANGED ignore
    <3>1. Frame(c)
      BY <1>9, <2>1, <2>3, <1>p DEF Frame, Goto
    <3> QED BY <1>9, <2>1, <2>3, <3>1, <1>c, <1>w, <1>x, PendingGoto, Untold
  <2> QED BY <1>9, <2>2, <2>3 DEF GCollect
<1>10. ASSUME NEW c \in Clients, UNCHANGED <<section, setter, told>>,
              FullStart(c) \/ FullFirst(c) \/ FullLoop(c) \/ FullCollected(c) \/ FullTest(c)
       PROVE  Handshake'
  <2>1. /\ pc[c] \in {"full", "fullFirst", "fullLoop", "fullCollected", "fullTest"}
        /\ UNCHANGED <<disabled, woken, fpc>> /\ c \notin woken /\ ~Pending(c) /\ c \notin told
    BY <1>10, <1>e, <1>t, <1>x DEF FullStart, FullFirst, FullLoop, FullCollected, FullTest,
           eventVars, flagVars, HandshakeOf, Allocating
  <2>2. /\ DOMAIN ignore' = Clients /\ DOMAIN answer' = Clients
        /\ \A d \in Clients \ {c} : ignore'[d] = ignore[d] /\ answer'[d] = answer[d]
    BY <1>10, <1>w DEF FullStart, FullFirst, FullLoop, FullCollected, FullTest, CallNotify, Forget
  <2>3. \/ \E w \in {"fullLoop", "gcollect"} : Goto(c, w)
        \/ \E w \in {"notify", "gcollect"}, r \in {"fullFirst", "fullCollected", "fullTest"} :
              CallTo(c, w, r)
        \/ Return(c)
    BY <1>10 DEF FullStart, FullFirst, FullLoop, FullCollected, FullTest, FullReturn, CallNotify
  <2>4. Frame(c)
    BY <1>10, <2>1, <2>2, <2>3, <1>p DEF Frame, Goto, CallTo, Return
  <2>5. ~Pending(c)' /\ pc'[c] # "disableEnd"
    <3>1. ASSUME NEW w \in {"fullLoop", "gcollect"}, Goto(c, w) PROVE ~Pending(c)' /\ pc'[c] # "disableEnd"
      BY <3>1, <2>1, <1>c, <1>x, PendingGoto
    <3>2. ASSUME NEW w \in {"notify", "gcollect"},
                 NEW r \in {"fullFirst", "fullCollected", "fullTest"}, CallTo(c, w, r)
          PROVE  ~Pending(c)' /\ pc'[c] # "disableEnd"
      BY <3>2, <2>1, <1>c, <1>p, PendingCall DEF CallTo
    <3>3. CASE Return(c)
      BY <3>3, <2>1, <1>c, <1>x, PendingReturn
    <3> QED BY <2>3, <3>1, <3>2, <3>3
  <2> QED BY <1>10, <2>1, <2>2, <2>4, <2>5, <1>w, Untold
\* At an outer point the stack is empty.
<1>y. \A c \in Clients : pc[c] \in OuterPoints => stack[c] = <<>> /\ ~Pending(c) /\ c \notin woken
  BY <1>c, <1>e DEF ControlOK, Pending
\* ILGCDisableFinalizers reads _FinalizersRunning.
<1>11. ASSUME NEW c \in Clients, DisableCheck(c)
       PROVE  Handshake'
  <2>1. /\ pc[c] = "disableCheck" /\ UNCHANGED <<disabled, woken, fpc, answer>>
        /\ c \notin woken /\ c \notin told /\ stack[c] = <<>>
    BY <1>11, <1>t, <1>y DEF DisableCheck, eventVars, flagVars, Allocating
  <2>2. CASE running /\ CallNotify(c, TRUE, "disableEnd") /\ UNCHANGED <<section, setter, told>>
    <3>1. /\ pc' = [pc EXCEPT ![c] = "notify"] /\ ignore' = [ignore EXCEPT ![c] = TRUE]
          /\ stack' = [stack EXCEPT ![c] = <<"disableEnd">> \o stack[c]]
      BY <2>2 DEF CallNotify, CallTo
    <3>2. pc'[c] = "notify" /\ Len(stack'[c]) = 1
      BY <2>1, <3>1, <1>p
    <3>3. Frame(c)
      BY <2>1, <2>2, <3>1, <1>p, <1>w DEF Frame
    <3> QED BY <2>1, <2>2, <3>1, <3>2, <3>3, <1>w, Untold
  <2>3. CASE ~running /\ Goto(c, "user") /\ Disabled(c, TRUE) /\ UNCHANGED <<setter, ignore>>
    <3>1. pc'[c] = "user" /\ stack'[c] = <<>>
      BY <2>1, <2>3, <1>p DEF Goto
    <3>2. ~Pending(c)'
      BY <3>1 DEF Pending
    <3>3. fpc' # "invoke" /\ (c \in setter' => disabled')
      BY <2>1, <2>3, <1>c, <1>x DEF RunningSet, HandshakeOf
    <3>4. /\ InSection(c)' /\ section' \in [Clients -> Nat] /\ (c \in told' => c \in setter')
          /\ told' \subseteq Clients /\ setter' \subseteq Clients
          /\ \A d \in Clients \ {c} : /\ section'[d] = section[d]
                                       /\ (d \in told' <=> d \in told)
      BY <2>1, <2>3, <1>w DEF Disabled, Enters, InSection
    <3>5. HandshakeOf(c)'
      BY <3>1, <3>2, <3>3, <3>4 DEF HandshakeOf, Allocating
    <3>6. Frame(c)
      BY <2>1, <2>3, <3>4, <1>p DEF Frame, Goto
    <3>7. \A d \in Clients \ {c} : HandshakeOf(d)'
      BY <3>6, <1>c, Elsewhere
    <3> QED BY <2>1, <2>3, <3>4, <3>5, <3>7, <1>w DEF Handshake
  <2> QED BY <1>11, <2>2, <2>3 DEF DisableCheck, sectionVars
\* ... or has waited for the finalizer thread.
<1>12. ASSUME NEW c \in Clients, DisableEnd(c)
       PROVE  Handshake'
  <2>1. /\ pc[c] = "disableEnd" /\ UNCHANGED <<disabled, woken, fpc, ignore>>
        /\ c \notin woken /\ c \notin told /\ stack[c] = <<>> /\ Goto(c, "user")
        /\ answer' = [answer EXCEPT ![c] = "skipped"]
    BY <1>12, <1>t, <1>y DEF DisableEnd, Forget, eventVars, flagVars, Allocating
  <2>2. /\ pc'[c] = "user" /\ stack'[c] = <<>> /\ DOMAIN answer' = Clients
        /\ \A d \in Clients \ {c} : /\ pc'[d] = pc[d] /\ stack'[d] = stack[d]
                                     /\ answer'[d] = answer[d]
    BY <2>1, <1>p, <1>w DEF Goto
  <2>3. ~Pending(c)'
    BY <2>2 DEF Pending
  <2>4. /\ section' \in [Clients -> Nat] /\ told' \subseteq Clients /\ UNCHANGED setter
        /\ c \in told' => c \in setter /\ InSection(c)' /\ answer[c] = "answered"
        /\ \A d \in Clients \ {c} : section'[d] = section[d] /\ (d \in told' <=> d \in told)
    <3>1. CASE Disabled(c, answer[c] = "answered")
      BY <1>12, <3>1, <2>1, <1>w DEF DisableEnd, Disabled, Enters, InSection
    <3>2. CASE (Enters(c) \/ UNCHANGED section) /\ UNCHANGED <<quiet, told>>
      BY <1>12, <3>2, <2>1, <1>w DEF DisableEnd, Enters
    <3> QED BY <1>12, <3>1, <3>2 DEF DisableEnd
  <2>5. Frame(c)
    BY <2>1, <2>2, <2>4 DEF Frame
  <2>6. c \in setter => disabled /\ (answer[c] = "answered" => fpc # "invoke")
    BY <2>1, <1>x DEF HandshakeOf, Sure
  <2>7. Sure(c)' => c \in told'
    BY <2>1, <2>2 DEF Sure
  <2>8. HandshakeOf(c)'
    BY <2>1, <2>2, <2>3, <2>4, <2>6, <2>7 DEF HandshakeOf, Allocating
  <2>9. \A d \in Clients \ {c} : HandshakeOf(d)'
    BY <2>5, <1>c, Elsewhere
  <2> QED BY <2>1, <2>2, <2>4, <2>8, <2>9, <1>w DEF Handshake
<1>13. ASSUME NEW c \in Clients, UNCHANGED <<section, setter, told>>,
              DeinitSignal(c) \/ DeinitJoined(c) \/ DeinitJoinTimeout(c)
       PROVE  Handshake'
  <2>1. /\ pc[c] \in {"deinitSignal", "deinitJoin"} /\ UNCHANGED <<disabled, woken, fpc, ignore, answer>>
        /\ c \notin woken /\ c \notin told /\ stack[c] = <<>>
        /\ \E w \in {"deinitJoin", "ended"} : Goto(c, w)
    BY <1>13, <1>t, <1>y DEF DeinitSignal, DeinitJoined, DeinitJoinTimeout, eventVars, flagVars,
           localVars, Allocating
  <2>2. Frame(c)
    BY <1>13, <2>1, <1>p DEF Frame, Goto
  <2>3. pc'[c] \in {"deinitJoin", "ended"} /\ stack'[c] = <<>>
    BY <2>1, <1>p DEF Goto
  <2>4. ~Pending(c)'
    BY <2>3 DEF Pending
  <2> QED BY <1>13, <2>1, <2>2, <2>3, <2>4, <1>w, Untold
\* The calls. A thread that is in no section has not been told either.
<1>z. ASSUME NEW c \in Clients, pc[c] \in {"new", "user"}, ~InSection(c),
             UNCHANGED <<disabled, woken, fpc, answer, section, setter, told>>,
             DOMAIN ignore' = Clients,
             \A d \in Clients \ {c} : /\ pc'[d] = pc[d] /\ stack'[d] = stack[d]
                                      /\ ignore'[d] = ignore[d],
             ~Pending(c)', pc'[c] \notin {"disableCheck", "disableEnd"}
      PROVE  Handshake'
  <2>1. c \notin told /\ c \notin woken
    BY <1>z, <1>t, <1>y
  <2>2. Frame(c)
    BY <1>z DEF Frame
  <2> QED BY <1>z, <2>1, <2>2, <1>w, Untold
<1>14. ASSUME NEW c \in Clients, StartThread(c) \/ ThreadEnds(c)
       PROVE  Handshake'
  <2>1. UNCHANGED <<disabled, woken, fpc, answer, ignore, section, setter, told>>
    BY <1>14 DEF StartThread, ThreadEnds, flagVars, eventVars, localVars, sectionVars
  <2>2. PICK d \in Clients, w \in {"user", "gone"} :
             pc[d] \in {"new", "user"} /\ Goto(d, w) /\ (pc[d] = "user" => ~InSection(d))
    BY <1>14 DEF StartThread, ThreadEnds, Clients
  <2>3. d \notin told
    BY <2>2, <1>t DEF Allocating
  <2>4. pc'[d] = w /\ stack'[d] = <<>> /\ d \notin woken /\ ~Pending(d)
    BY <2>2, <1>p, <1>y DEF Goto
  <2>5. ~Pending(d)'
    BY <2>4 DEF Pending
  <2>6. Frame(d)
    BY <2>1, <2>2, <1>p DEF Frame, Goto
  <2> QED BY <2>1, <2>3, <2>4, <2>5, <2>6, <1>w, Untold
<1>15. ASSUME NEW c \in Clients, \/ ILGCInvokeFinalizers(c) \/ ILGCCollect(c)
                                 \/ ILGCFullCollection(c) \/ ILGCDeinit(c)
       PROVE  Handshake'
  <2>1. /\ pc[c] = "user" /\ ~InSection(c) /\ UNCHANGED <<disabled, woken, fpc, answer, section, setter, told>>
        /\ DOMAIN ignore' = Clients /\ \A d \in Clients \ {c} : ignore'[d] = ignore[d]
    BY <1>15, <1>w DEF ILGCInvokeFinalizers, ILGCCollect, ILGCFullCollection, ILGCDeinit, Begins,
           CallNotify, flagVars, eventVars, localVars, sectionVars
  <2>2. PICK w \in {"notify", "gcollect", "full"}, r \in {"user", "deinitSignal"} : CallTo(c, w, r)
    BY <1>15 DEF ILGCInvokeFinalizers, ILGCCollect, ILGCFullCollection, ILGCDeinit, CallNotify
  <2>3. ~Pending(c)'
    BY <2>1, <2>2, <1>c, <1>y, PendingCall
  <2>4. pc'[c] = w /\ \A d \in Clients \ {c} : pc'[d] = pc[d] /\ stack'[d] = stack[d]
    BY <2>2, <1>p DEF CallTo
  <2> QED BY <2>1, <2>3, <2>4, <1>z
<1>16. ASSUME NEW c \in Clients, ILGCAlloc(c)
       PROVE  Handshake'
  <2>1. /\ pc[c] = "user" /\ UNCHANGED <<disabled, woken, fpc, answer, ignore, section, setter, told>>
        /\ CallTo(c, "collected", "user") /\ stack[c] = <<>> /\ c \notin woken
    BY <1>16, <1>y DEF ILGCAlloc, Begins, flagVars, eventVars, localVars, sectionVars
  <2>2. ~Pending(c)'
    BY <2>1, <1>c, <1>y, PendingCall
  <2>3. pc'[c] = "collected" /\ stack'[c] = <<"user">> \o stack[c]
    BY <2>1, <1>p DEF CallTo
  <2>4. <<"user">> \o <<>> = <<"user">>
    BY ConcatEmptySeq
  <2>5. Frame(c)
    BY <2>1, <1>p DEF Frame, CallTo
  <2>6. HandshakeOf(c)'
    BY <2>1, <2>2, <2>3, <2>4, <1>x DEF HandshakeOf, Allocating, Sure, InSection
  <2>7. \A d \in Clients \ {c} : HandshakeOf(d)'
    BY <2>5, <1>c, Elsewhere
  <2> QED BY <2>1, <2>6, <2>7, <1>w DEF Handshake
<1>17. ASSUME NEW c \in Clients, ILGCDisableFinalizers(c)
       PROVE  Handshake'
  <2>1. /\ pc[c] = "user" /\ UNCHANGED <<woken, fpc, answer, ignore>>
        /\ stack[c] = <<>> /\ c \notin woken
    BY <1>17, <1>y DEF ILGCDisableFinalizers, Begins, eventVars, localVars
  \* The flag is set already, by c itself or by another thread.
  <2>2. CASE disabled /\ Disabled(c, FALSE) /\ UNCHANGED <<pc, stack, disabled, setter>>
    <3>1. /\ UNCHANGED told /\ section' \in [Clients -> Nat] /\ InSection(c)'
          /\ \A d \in Clients \ {c} : section'[d] = section[d]
      BY <2>2, <1>w DEF Disabled, Enters, InSection
    <3>2. Frame(c)
      BY <2>1, <2>2, <3>1 DEF Frame
    <3>3. (Pending(c)' <=> Pending(c)) /\ (Sure(c)' <=> Sure(c)) /\ (Allocating(c)' <=> Allocating(c))
      BY <2>1, <2>2, <3>1 DEF Pending, Sure, Allocating
    <3>4. HandshakeOf(c)'
      BY <2>1, <2>2, <3>1, <3>3, <1>x DEF HandshakeOf
    <3>5. \A d \in Clients \ {c} : HandshakeOf(d)'
      BY <3>2, <1>c, Elsewhere
    <3> QED BY <2>1, <2>2, <3>1, <3>4, <3>5, <1>w DEF Handshake
  \* c sets it: nobody has been told anything.
  <2>3. CASE /\ ~disabled /\ disabled' = TRUE /\ setter' = {c} /\ Goto(c, "disableCheck")
             /\ UNCHANGED <<section, quiet, told>>
    <3>1. pc'[c] = "disableCheck" /\ stack'[c] = <<>>
      BY <2>1, <2>3, <1>p DEF Goto
    <3>2. setter = {} /\ told = {}
      BY <2>3, <1>w, <1>x DEF HandshakeOf
    <3>3. Frame(c)
      BY <2>1, <2>3, <3>2, <1>p DEF Frame, Goto
    <3>4. ~Pending(c)' /\ ~Sure(c)'
      BY <2>1, <2>3, <3>1, <3>2 DEF Pending, Sure
    <3>5. HandshakeOf(c)'
      BY <2>3, <3>2, <3>4 DEF HandshakeOf
    <3>6. \A d \in Clients \ {c} : HandshakeOf(d)'
      BY <3>3, <1>c, Elsewhere
    <3> QED BY <2>1, <2>3, <3>5, <3>6, <1>w DEF Handshake
  <2> QED BY <1>17, <2>2, <2>3 DEF ILGCDisableFinalizers
\* Whoever clears the flag, nobody relies on it afterwards.
<1>18. ASSUME NEW c \in Clients, ILGCEnableFinalizers(c)
       PROVE  Handshake'
  <2>1. /\ UNCHANGED <<pc, stack, answer, ignore>> /\ setter' = {} /\ told' = {}
        /\ InSection(c) /\ section' = [section EXCEPT ![c] = @ - 1]
    BY <1>18 DEF ILGCEnableFinalizers, localVars
  <2>2. section' \in [Clients -> Nat]
    BY <2>1, <1>w DEF InSection
  <2>3. ASSUME NEW d \in Clients PROVE HandshakeOf(d)'
    BY <2>1, <1>x DEF HandshakeOf, Pending
  <2> QED BY <2>1, <2>2, <2>3, <1>w DEF Handshake
<1>19. CASE UNCHANGED vars
  BY <1>19, <1>c DEF vars, flagVars, eventVars, localVars, sectionVars, Handshake,
         HandshakeOf, Pending, Sure, Allocating, InSection
<1> QED
  BY <1>1, <1>2, <1>3, <1>4, <1>5, <1>6, <1>7, <1>8, <1>9, <1>10, <1>11, <1>12, <1>13, <1>14,
     <1>15, <1>16, <1>17, <1>18, <1>19
     DEF Next, Call, Step, DisableStep, LetGo, sectionVars

\* HandshakeInv holds before the first call.
LEMMA HandshakeInit == Init => HandshakeInv
<1> SUFFICES ASSUME Init PROVE Handshake
  BY SyncInit DEF HandshakeInv
<1>1. \A c \in Clients : pc[c] \in {"new", "user"} /\ stack[c] = <<>> /\ answer[c] = "skipped"
  BY DEF Init
<1>2. \A c \in Clients : ~Pending(c)
  BY <1>1 DEF Pending
<1> QED BY <1>1, <1>2 DEF Init, Handshake, HandshakeOf, Sure

(* ILGCDisableFinalizers keeps its promise to the thread that set the      *)
(* flag, once it has found no finalizer running or was answered by the     *)
(* finalizer thread: no finalizer runs, on any thread, until some thread   *)
(* enables them. This holds for any number of threads that collect,        *)
(* disable and enable finalizers, invoke them, give up waits and shut      *)
(* down. The flag is not counted, so that the thread may not rely on it    *)
(* longer than that.                                                       *)
THEOREM DisableKeepsQuiet == Spec => []DisableHandshake
<1>1. HandshakeInv => DisableHandshake
  <2> SUFFICES ASSUME HandshakeInv, NEW c, c \in told PROVE busy = {}
    BY DEF DisableHandshake
  <2>1. /\ Shape /\ SyncAlone /\ Handshake
    BY DEF HandshakeInv, SyncInv
  <2>2. c \in Clients /\ fpc # "invoke" /\ pc[c] \in {"user", "collected", "notify"}
    BY <2>1 DEF Handshake, HandshakeOf, Sure, Allocating
  <2>3. c \in Alive /\ pc[c] # "syncRun"
    BY <2>2 DEF Alive
  <2>4. \A d \in Clients : pc[d] # "syncRun"
    BY <2>1, <2>3 DEF SyncAlone
  <2> QED BY <2>1, <2>2, <2>4 DEF Shape
<1> QED BY HandshakeInit, HandshakeStep, <1>1, PTL DEF Spec

=============================================================================
