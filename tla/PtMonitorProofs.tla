--------------------------- MODULE PtMonitorProofs ---------------------------
(***************************************************************************)
(* Proofs about the platform monitor, for every finite set of threads.     *)
(* They assume that no interrupt lands in the window between a successful  *)
(* semaphore call and the restored signal mask (NoLateSignal); the         *)
(* configuration PtMonitorLateSignal.cfg shows that it is needed.          *)
(***************************************************************************)
EXTENDS PtMonitor, FiniteSetTheorems, TLAPS

NoLateSignal == "acquired" \notin SignalWindows

(* PulseAll keeps a negative value while it posts, a positive one while it *)
(* adds it back.                                                           *)
CountInv ==
  \A t \in Threads :
    /\ At(t, {"pulseAllPost"}) => count[t] < 0
    /\ At(t, {"pulseAllAdd"}) => count[t] > 0

IInv == TypeOK /\ EnterTokenConserved /\ WaitAccounting /\ CountInv

-----------------------------------------------------------------------------
(* Every operation of pt_defs.c keeps the types of the monitor's fields.   *)
LEMMA TypeStep == TypeOK /\ [Next]_vars => TypeOK'
<1> USE DEF TypeOK, Control, Holding, Inside, Acquired, InWaitQueue, At, Go
<1> SUFFICES ASSUME TypeOK, [Next]_vars PROVE TypeOK'
  OBVIOUS
<1>1. ASSUME NEW t \in Threads, EnterStep(t) PROVE TypeOK'
  BY <1>1 DEF EnterStep, TryEnter, BeginEnter, EnterAcquire, EnterTimeout,
              EnterSignal, EnterDone, Exit
<1>2. ASSUME NEW t \in Threads, WaitStep(t) PROVE TypeOK'
  BY <1>2 DEF WaitStep, WaitZero, WaitQueue, WaitRelease, WaitPulsed, WaitTimeout,
              WaitSignal, WaitDone, WaitLeaveQueue, Reenter, ReenterSignal
<1>3. ASSUME NEW t \in Threads, PulseStep(t) PROVE TypeOK'
  BY <1>3 DEF PulseStep, PulseLoad, PulseInc, PulsePost, PulseUndo, PulseAllLoad,
              PulseAllSwap, PulseAllPost, PulseAllAdd
<1>4. ASSUME NEW t \in Threads, Interrupt(t) PROVE TypeOK'
  BY <1>4 DEF Interrupt
<1>5. CASE UNCHANGED vars
  BY <1>5 DEF vars
<1> QED
  BY <1>1, <1>2, <1>3, <1>4, <1>5 DEF Next

(* The fields of the platform monitor and the control state stay in range. *)
THEOREM TypeCorrect == Spec => []TypeOK
<1>1. Init => TypeOK
  BY ThreadsAssumption DEF Init, TypeOK, Control, Holding, Inside
<1> QED
  BY <1>1, TypeStep, PTL DEF Spec

-----------------------------------------------------------------------------
(* How a step of one thread changes the number of holders and of waiters.  *)
LEMMA CardStep ==
  ASSUME TypeOK, NEW t \in Threads, NEW c \in Control, Go(t, c)
  PROVE  /\ Cardinality(Holders) \in Nat /\ Cardinality(Waiters) \in Nat
         /\ Cardinality(Holders)' = Cardinality(Holders)
              + (IF c \in Holding THEN 1 ELSE 0) - (IF pc[t] \in Holding THEN 1 ELSE 0)
         /\ Cardinality(Waiters)' = Cardinality(Waiters)
              + (IF c \in InWaitQueue THEN 1 ELSE 0)
              - (IF pc[t] \in InWaitQueue THEN 1 ELSE 0)
<1>1. /\ Holders \in SUBSET Threads
      /\ Waiters \in SUBSET Threads
  BY DEF Holders, Waiters
<1>2. /\ IsFiniteSet(Holders) /\ Cardinality(Holders) \in Nat
      /\ IsFiniteSet(Waiters) /\ Cardinality(Waiters) \in Nat
  BY <1>1, ThreadsAssumption, FS_Subset, FS_CardinalityType
<1>3. pc' = [pc EXCEPT ![t] = c] /\ pc \in [Threads -> Control]
  BY DEF Go, TypeOK
<1>4. Holders' = IF c \in Holding THEN Holders \cup {t} ELSE Holders \ {t}
  BY <1>3 DEF Holders, At
<1>5. Waiters' = IF c \in InWaitQueue THEN Waiters \cup {t} ELSE Waiters \ {t}
  BY <1>3 DEF Waiters, At
<1>6. /\ t \in Holders <=> pc[t] \in Holding
      /\ t \in Waiters <=> pc[t] \in InWaitQueue
  BY DEF Holders, Waiters, At
<1>7. Cardinality(Holders)' = Cardinality(Holders)
        + (IF c \in Holding THEN 1 ELSE 0) - (IF pc[t] \in Holding THEN 1 ELSE 0)
  <2>1. /\ Cardinality(Holders \cup {t}) = IF t \in Holders THEN Cardinality(Holders) ELSE Cardinality(Holders) + 1
        /\ Cardinality(Holders \ {t}) = IF t \in Holders THEN Cardinality(Holders) - 1 ELSE Cardinality(Holders)
    BY <1>2, FS_AddElement, FS_RemoveElement
  <2>2. CASE c \in Holding
    BY <1>2, <1>4, <1>6, <2>1, <2>2
  <2>3. CASE c \notin Holding
    BY <1>2, <1>4, <1>6, <2>1, <2>3
  <2> QED BY <2>2, <2>3
<1>8. Cardinality(Waiters)' = Cardinality(Waiters)
        + (IF c \in InWaitQueue THEN 1 ELSE 0) - (IF pc[t] \in InWaitQueue THEN 1 ELSE 0)
  <2>1. /\ Cardinality(Waiters \cup {t}) = IF t \in Waiters THEN Cardinality(Waiters) ELSE Cardinality(Waiters) + 1
        /\ Cardinality(Waiters \ {t}) = IF t \in Waiters THEN Cardinality(Waiters) - 1 ELSE Cardinality(Waiters)
    BY <1>2, FS_AddElement, FS_RemoveElement
  <2>2. CASE c \in InWaitQueue
    BY <1>2, <1>5, <1>6, <2>1, <2>2
  <2>3. CASE c \notin InWaitQueue
    BY <1>2, <1>5, <1>6, <2>1, <2>3
  <2> QED BY <2>2, <2>3
<1> QED
  BY <1>2, <1>7, <1>8

(* With the token conserved there is at most one holder.                   *)
LEMMA OneHolder ==
  ASSUME TypeOK, EnterTokenConserved, NEW t \in Holders
  PROVE  Holders = {t} /\ enterLock = 0
<1>1. IsFiniteSet(Holders) /\ Cardinality(Holders) \in Nat
  <2>1. Holders \in SUBSET Threads BY DEF Holders
  <2> QED BY <2>1, ThreadsAssumption, FS_Subset, FS_CardinalityType
<1>2. Cardinality(Holders) # 0
  BY <1>1, FS_EmptySet
<1>3. Cardinality(Holders) = 1 /\ enterLock = 0
  BY <1>1, <1>2 DEF EnterTokenConserved, TypeOK
<1> QED
  BY <1>1, <1>3, FS_Singleton

(* Only a holder has a pulse in progress.                                  *)
LEMMA DebtOfHolder ==
  ASSUME TypeOK, NEW t \in Threads
  PROVE  /\ Debt(t) \in Int
         /\ t \notin Holders => Debt(t) = 0
<1> QED
  BY DEF Debt, At, Holders, Holding, Inside, TypeOK


-----------------------------------------------------------------------------
(* A step that changes no debt and keeps waitValue, waitLock and the       *)
(* number of waiters in balance keeps the accounting.                      *)
LEMMA BalancedStep ==
  ASSUME TypeOK, TypeOK', WaitAccounting,
         Cardinality(Waiters) \in Nat, Cardinality(Waiters)' \in Nat,
         \A u \in Threads : Debt(u)' = Debt(u),
         waitValue' - waitLock' + Cardinality(Waiters)'
           = waitValue - waitLock + Cardinality(Waiters)
  PROVE  WaitAccounting'
<1>1. /\ waitValue \in Int /\ waitLock \in Nat
      /\ waitValue' \in Int /\ waitLock' \in Nat
  BY DEF TypeOK
<1>2. (\A t \in Threads : Debt(t)' = 0) => waitValue' = waitLock' - Cardinality(Waiters)'
  BY <1>1 DEF WaitAccounting
<1>3. ASSUME NEW t \in Threads, Debt(t)' # 0
      PROVE  waitValue' = waitLock' + Debt(t)' - Cardinality(Waiters)'
  <2>1. Debt(t)' = Debt(t) /\ Debt(t) \in Int
    BY DebtOfHolder
  <2>2. waitValue = waitLock + Debt(t) - Cardinality(Waiters)
    BY <1>3, <2>1 DEF WaitAccounting
  <2> QED
    BY <1>1, <2>1, <2>2
<1> QED
  BY <1>2, <1>3 DEF WaitAccounting

(* A step of the owner within a pulse: nobody else has a debt.             *)
LEMMA PulsingStep ==
  ASSUME NEW t \in Threads,
         \A u \in Threads \ {t} : Debt(u)' = 0,
         Debt(t)' \in Int, waitValue' \in Int, waitLock' \in Int,
         Cardinality(Waiters)' \in Nat,
         waitValue' = waitLock' + Debt(t)' - Cardinality(Waiters)'
  PROVE  WaitAccounting'
<1> QED
  BY DEF WaitAccounting

(* The steps of Enter and Exit.                                            *)
LEMMA EnterStepInv ==
  ASSUME NoLateSignal, IInv, NEW t \in Threads, EnterStep(t), TypeOK'
  PROVE  IInv'
<1> USE DEF At
<1>1. PICK c \in Control : Go(t, c)
  BY DEF EnterStep, TryEnter, BeginEnter, EnterAcquire, EnterTimeout, EnterSignal,
         EnterDone, Exit, Control, Holding, Inside, Acquired
<1>2. pc' = [pc EXCEPT ![t] = c] /\ pc[t] \in Control /\ count' = count /\ pc'[t] = c
  BY <1>1 DEF Go, IInv, TypeOK, EnterStep, TryEnter, BeginEnter, EnterAcquire,
         EnterTimeout, EnterSignal, EnterDone, Exit
<1>3. /\ c \in {"in", "entering", "entered", "out"}
      /\ pc[t] \in {"in", "entering", "entered", "out"}
      /\ waitValue' = waitValue /\ waitLock' = waitLock
      /\ \/ enterLock' = enterLock /\ (c \in Holding <=> pc[t] \in Holding)
         \/ enterLock' = enterLock - 1 /\ c \in Holding /\ pc[t] \notin Holding
         \/ enterLock' = enterLock + 1 /\ c \notin Holding /\ pc[t] \in Holding
  <2> enterLock \in Nat /\ pc \in [Threads -> Control] BY DEF IInv, TypeOK
  <2> USE <1>2 DEF Go, Holding, Inside, Acquired
  <2>1. CASE TryEnter(t) BY <2>1 DEF TryEnter
  <2>2. CASE BeginEnter(t) BY <2>2 DEF BeginEnter
  <2>3. CASE EnterAcquire(t) BY <2>3 DEF EnterAcquire
  <2>4. CASE EnterTimeout(t) BY <2>4 DEF EnterTimeout
  <2>5. CASE EnterSignal(t) BY <2>5 DEF EnterSignal, NoLateSignal
  <2>6. CASE EnterDone(t) BY <2>6 DEF EnterDone
  <2>7. CASE Exit(t) BY <2>7 DEF Exit
  <2> QED BY <2>1, <2>2, <2>3, <2>4, <2>5, <2>6, <2>7 DEF EnterStep
<1>4. EnterTokenConserved'
  <2>1. /\ Cardinality(Holders) \in Nat
        /\ Cardinality(Holders)' = Cardinality(Holders)
             + (IF c \in Holding THEN 1 ELSE 0) - (IF pc[t] \in Holding THEN 1 ELSE 0)
    BY <1>1, CardStep DEF IInv
  <2>2. enterLock \in Nat /\ enterLock + Cardinality(Holders) = 1
    BY DEF IInv, TypeOK, EnterTokenConserved
  <2>3. enterLock' + Cardinality(Holders)' = 1
    BY <1>3, <2>1, <2>2
  <2> QED
    BY <2>3 DEF EnterTokenConserved
<1>5. WaitAccounting'
  <2>1. \A u \in Threads : Debt(u)' = Debt(u)
    BY <1>2, <1>3 DEF Debt, IInv, TypeOK
  <2>2. /\ Cardinality(Waiters) \in Nat
        /\ Cardinality(Waiters)' = Cardinality(Waiters)
    BY <1>1, <1>3, CardStep DEF IInv, InWaitQueue
  <2> QED
    BY <1>3, <2>1, <2>2, BalancedStep DEF IInv
<1>6. CountInv'
  BY <1>2, <1>3 DEF CountInv, IInv, TypeOK
<1> QED
  BY <1>4, <1>5, <1>6 DEF IInv

(* A step that leaves the monitor and the control state alone.             *)
LEMMA IdleStepInv ==
  ASSUME IInv, TypeOK', UNCHANGED <<enterLock, waitLock, waitValue, pc, count>>
  PROVE  IInv'
<1>1. Holders' = Holders /\ Waiters' = Waiters /\ \A t \in Threads : Debt(t)' = Debt(t)
  BY DEF Holders, Waiters, At, Debt
<1>2. EnterTokenConserved'
  BY <1>1 DEF IInv, EnterTokenConserved
<1>3. WaitAccounting'
  BY <1>1 DEF IInv, WaitAccounting
<1>4. CountInv'
  BY DEF IInv, CountInv, At
<1> QED
  BY <1>2, <1>3, <1>4 DEF IInv

(* The steps of _ILMonitorTimedWait.                                       *)
LEMMA WaitStepInv ==
  ASSUME NoLateSignal, IInv, NEW t \in Threads, WaitStep(t), ~ReenterSignal(t), TypeOK'
  PROVE  IInv'
<1> USE DEF At
<1> DEFINE WaitControl == {"in", "reenter", "waitRelease", "waiting", "released", "waitFailed"}
<1>1. PICK c \in Control : Go(t, c)
  BY DEF WaitStep, WaitZero, WaitQueue, WaitRelease, WaitPulsed, WaitTimeout,
         WaitSignal, WaitDone, WaitLeaveQueue, Reenter, Control, Holding, Inside, InWaitQueue
<1>2. /\ pc' = [pc EXCEPT ![t] = c] /\ pc[t] \in Control /\ pc'[t] = c
      /\ enterLock \in Nat /\ waitLock \in Nat /\ waitValue \in Int
      /\ pc \in [Threads -> Control] /\ count \in [Threads -> Int]
  BY <1>1 DEF Go, IInv, TypeOK
<1>3. /\ c \in WaitControl /\ pc[t] \in WaitControl /\ count' = count
      /\ \/ enterLock' = enterLock /\ (c \in Holding <=> pc[t] \in Holding)
         \/ enterLock' = enterLock - 1 /\ c \in Holding /\ pc[t] \notin Holding
         \/ enterLock' = enterLock + 1 /\ c \notin Holding /\ pc[t] \in Holding
      /\ \/ /\ waitValue' = waitValue /\ waitLock' = waitLock
            /\ c \in InWaitQueue <=> pc[t] \in InWaitQueue
         \/ /\ waitValue' = waitValue - 1 /\ waitLock' = waitLock
            /\ c \in InWaitQueue /\ pc[t] \notin InWaitQueue
         \/ /\ \/ waitValue' = waitValue + 1 /\ waitLock' = waitLock
               \/ waitValue' = waitValue /\ waitLock' = waitLock - 1
            /\ c \notin InWaitQueue /\ pc[t] \in InWaitQueue
  <2> USE <1>2 DEF Go, Holding, Inside, Acquired, InWaitQueue
  <2>1. CASE WaitZero(t) BY <2>1 DEF WaitZero
  <2>2. CASE WaitQueue(t) BY <2>2 DEF WaitQueue
  <2>3. CASE WaitRelease(t) BY <2>3 DEF WaitRelease
  <2>4. CASE WaitPulsed(t) BY <2>4 DEF WaitPulsed
  <2>5. CASE WaitTimeout(t) BY <2>5 DEF WaitTimeout
  <2>6. CASE WaitSignal(t) BY <2>6 DEF WaitSignal, NoLateSignal
  <2>7. CASE WaitDone(t) BY <2>7 DEF WaitDone
  <2>8. CASE WaitLeaveQueue(t) BY <2>8 DEF WaitLeaveQueue
  <2>9. CASE Reenter(t) BY <2>9 DEF Reenter
  <2> QED BY <2>1, <2>2, <2>3, <2>4, <2>5, <2>6, <2>7, <2>8, <2>9 DEF WaitStep
<1>4. EnterTokenConserved'
  <2>1. /\ Cardinality(Holders) \in Nat
        /\ Cardinality(Holders)' = Cardinality(Holders)
             + (IF c \in Holding THEN 1 ELSE 0) - (IF pc[t] \in Holding THEN 1 ELSE 0)
    BY <1>1, CardStep DEF IInv
  <2>2. enterLock + Cardinality(Holders) = 1
    BY DEF IInv, EnterTokenConserved
  <2>3. enterLock' + Cardinality(Holders)' = 1
    BY <1>2, <1>3, <2>1, <2>2
  <2> QED
    BY <2>3 DEF EnterTokenConserved
<1>5. WaitAccounting'
  <2>1. \A u \in Threads : Debt(u)' = Debt(u)
    BY <1>2, <1>3 DEF Debt
  <2>2. /\ Cardinality(Waiters) \in Nat
        /\ Cardinality(Waiters)' = Cardinality(Waiters)
             + (IF c \in InWaitQueue THEN 1 ELSE 0) - (IF pc[t] \in InWaitQueue THEN 1 ELSE 0)
    BY <1>1, CardStep DEF IInv
  <2>3. Cardinality(Waiters)' \in Nat
    <3>1. Waiters' \in SUBSET Threads BY DEF Waiters
    <3> QED BY <3>1, ThreadsAssumption, FS_Subset, FS_CardinalityType
  <2>4. waitValue' - waitLock' + Cardinality(Waiters)'
          = waitValue - waitLock + Cardinality(Waiters)
    BY <1>2, <1>3, <2>2
  <2> QED
    BY <2>1, <2>2, <2>3, <2>4, BalancedStep DEF IInv
<1>6. CountInv'
  BY <1>2, <1>3 DEF CountInv, IInv
<1> QED
  BY <1>4, <1>5, <1>6 DEF IInv

(* The steps of _ILMonitorPulse and _ILMonitorPulseAll.                    *)
LEMMA PulseStepInv ==
  ASSUME IInv, NEW t \in Threads, PulseStep(t), TypeOK'
  PROVE  IInv'
<1> USE DEF At
<1>1. PICK c \in Inside : Go(t, c)
  BY DEF PulseStep, PulseLoad, PulseInc, PulsePost, PulseUndo, PulseAllLoad,
         PulseAllSwap, PulseAllPost, PulseAllAdd, Inside
<1>2. /\ pc' = [pc EXCEPT ![t] = c] /\ pc'[t] = c
      /\ enterLock \in Nat /\ waitLock \in Nat /\ waitValue \in Int
      /\ pc \in [Threads -> Control] /\ count \in [Threads -> Int]
      /\ CountInv
  BY <1>1 DEF Go, IInv, TypeOK
<1>3. /\ c \in Inside \ {"waitRelease"} /\ pc[t] \in Inside \ {"waitRelease"}
      /\ enterLock' = enterLock
      /\ waitValue' - waitLock' - Debt(t)' = waitValue - waitLock - Debt(t)
      /\ \A u \in Threads \ {t} : count'[u] = count[u]
      /\ c = "pulseAllPost" => count'[t] < 0
      /\ c = "pulseAllAdd" => count'[t] > 0
  <2> USE <1>2 DEF Go, Inside, Debt, CountInv
  <2>1. CASE PulseLoad(t) BY <2>1 DEF PulseLoad
  <2>2. CASE PulseInc(t) BY <2>2 DEF PulseInc
  <2>3. CASE PulsePost(t) BY <2>3 DEF PulsePost
  <2>4. CASE PulseUndo(t) BY <2>4 DEF PulseUndo
  <2>5. CASE PulseAllLoad(t) BY <2>5 DEF PulseAllLoad
  <2>6. CASE PulseAllSwap(t) BY <2>6 DEF PulseAllSwap
  <2>7. CASE PulseAllPost(t) BY <2>7 DEF PulseAllPost
  <2>8. CASE PulseAllAdd(t) BY <2>8 DEF PulseAllAdd
  <2> QED BY <2>1, <2>2, <2>3, <2>4, <2>5, <2>6, <2>7, <2>8 DEF PulseStep
<1>4. /\ Cardinality(Holders)' = Cardinality(Holders)
      /\ Cardinality(Waiters)' = Cardinality(Waiters)
      /\ Cardinality(Holders) \in Nat /\ Cardinality(Waiters) \in Nat
  BY <1>1, <1>3, CardStep DEF IInv, Control, Holding, Inside, InWaitQueue
<1>5. EnterTokenConserved'
  BY <1>3, <1>4 DEF IInv, EnterTokenConserved
<1>6. Holders = {t}
  <2>1. t \in Holders
    BY <1>3 DEF Holders, Holding
  <2> QED BY <2>1, OneHolder DEF IInv
<1>7. \A u \in Threads \ {t} : Debt(u) = 0 /\ Debt(u)' = 0
  <2> SUFFICES ASSUME NEW u \in Threads \ {t} PROVE Debt(u) = 0 /\ Debt(u)' = 0
    OBVIOUS
  <2>1. Debt(u) = 0
    BY <1>6, DebtOfHolder DEF IInv
  <2>2. pc'[u] = pc[u] /\ count'[u] = count[u]
    BY <1>2, <1>3
  <2> QED
    BY <2>1, <2>2 DEF Debt
<1>8. Debt(t) \in Int /\ Debt(t)' \in Int /\ waitValue' \in Int /\ waitLock' \in Nat
  BY DEF Debt, IInv, TypeOK
<1>9. waitValue = waitLock + Debt(t) - Cardinality(Waiters)
  <2>1. CASE Debt(t) = 0
    BY <1>2, <1>4, <1>7, <2>1 DEF IInv, WaitAccounting
  <2>2. CASE Debt(t) # 0
    BY <2>2 DEF IInv, WaitAccounting
  <2> QED BY <2>1, <2>2
<1>10. waitValue' = waitLock' + Debt(t)' - Cardinality(Waiters)'
  <2>1. /\ waitValue \in Int /\ waitLock \in Int /\ Cardinality(Waiters) \in Int
        /\ waitValue' \in Int /\ waitLock' \in Int /\ Cardinality(Waiters)' \in Int
        /\ Debt(t) \in Int /\ Debt(t)' \in Int
    BY <1>2, <1>4, <1>8
  <2>2. waitValue' - waitLock' - Debt(t)' = waitValue - waitLock - Debt(t)
    BY <1>3
  <2>3. waitValue - waitLock - Debt(t) = - Cardinality(Waiters)'
    BY <1>4, <1>9, <2>1
  <2> HIDE DEF Debt, At
  <2> QED
    BY <2>1, <2>2, <2>3
<1>11. WaitAccounting'
  BY <1>4, <1>7, <1>8, <1>10, PulsingStep
<1>12. CountInv'
  BY <1>2, <1>3 DEF CountInv
<1> QED
  BY <1>5, <1>11, <1>12 DEF IInv

-----------------------------------------------------------------------------
(* Every step of the monitor keeps the inductive invariant, when no signal *)
(* lands between the return of sem_wait and the mask of the signal.        *)
LEMMA Inductive == NoLateSignal /\ IInv /\ [Next]_vars => IInv'
<1> SUFFICES ASSUME NoLateSignal, IInv, [Next]_vars PROVE IInv'
  OBVIOUS
<1>1. TypeOK'
  BY TypeStep DEF IInv
<1>2. ASSUME NEW t \in Threads, EnterStep(t) PROVE IInv'
  BY <1>1, <1>2, EnterStepInv
<1>3. ASSUME NEW t \in Threads, WaitStep(t) PROVE IInv'
  <2>1. CASE ReenterSignal(t)
    BY <1>1, <2>1, IdleStepInv DEF ReenterSignal
  <2>2. CASE ~ReenterSignal(t)
    BY <1>1, <1>3, <2>2, WaitStepInv
  <2> QED BY <2>1, <2>2
<1>4. ASSUME NEW t \in Threads, PulseStep(t) PROVE IInv'
  BY <1>1, <1>4, PulseStepInv
<1>5. ASSUME NEW t \in Threads, Interrupt(t) PROVE IInv'
  BY <1>1, <1>5, IdleStepInv DEF Interrupt
<1>6. CASE UNCHANGED vars
  BY <1>1, <1>6, IdleStepInv DEF vars
<1> QED
  BY <1>2, <1>3, <1>4, <1>5, <1>6 DEF Next

(* _ILMonitorCreate establishes the inductive invariant.                   *)
LEMMA Initial == Init => IInv
<1> SUFFICES ASSUME Init PROVE IInv
  OBVIOUS
<1> USE ThreadsAssumption DEF Init, At
<1>1. TypeOK
  BY DEF TypeOK, Control, Holding, Inside
<1>2. Holders = {Creator} /\ Waiters = {}
  BY DEF Holders, Waiters, Holding, Inside, Acquired, InWaitQueue
<1>3. Cardinality(Holders) = 1 /\ Cardinality(Waiters) = 0
  BY <1>2, FS_Singleton, FS_EmptySet
<1>4. EnterTokenConserved
  BY <1>3 DEF EnterTokenConserved
<1>5. WaitAccounting
  BY <1>3 DEF WaitAccounting, Debt
<1>6. CountInv
  BY DEF CountInv
<1> QED
  BY <1>1, <1>4, <1>5, <1>6 DEF IInv

(* The inductive invariant: types, the token, the accounting and the value *)
(* that a PulseAll in progress keeps.                                      *)
THEOREM InvariantHolds ==
  ASSUME NoLateSignal
  PROVE  Spec => []IInv
<1>1. IInv /\ [Next]_vars => IInv'
  BY Inductive
<1> QED
  BY <1>1, Initial, PTL DEF Spec

(* The token of _enterLock is never lost or duplicated: one owner at most, *)
(* and a monitor without an owner can be entered.                          *)
THEOREM TokenConserved ==
  ASSUME NoLateSignal
  PROVE  Spec => []EnterTokenConserved
BY InvariantHolds, PTL DEF IInv

(* _waitValue counts the waiters that no token has been posted for.        *)
THEOREM AccountingHolds ==
  ASSUME NoLateSignal
  PROVE  Spec => []WaitAccounting
BY InvariantHolds, PTL DEF IInv

(* A Pulse that does nothing passes nobody over.                           *)
THEOREM PulseServesWaiters ==
  ASSUME NoLateSignal
  PROVE  Spec => []NoLostPulse
<1>1. IInv => NoLostPulse
  <2> SUFFICES ASSUME IInv, NEW t \in Threads, At(t, {"in"}), waitValue >= 0
               PROVE  waitLock >= Cardinality(Waiters)
    BY DEF NoLostPulse
  <2>1. t \in Holders /\ Debt(t) = 0
    BY DEF Holders, At, Holding, Inside, Debt
  <2>2. \A u \in Threads : Debt(u) = 0
    BY <2>1, OneHolder, DebtOfHolder DEF IInv
  <2>3. Cardinality(Waiters) \in Nat
    <3>1. Waiters \in SUBSET Threads BY DEF Waiters
    <3> QED BY <3>1, ThreadsAssumption, FS_Subset, FS_CardinalityType
  <2>4. waitValue = waitLock - Cardinality(Waiters)
    BY <2>2 DEF IInv, WaitAccounting
  <2> QED
    BY <2>3, <2>4 DEF IInv, TypeOK
<1> QED
  BY <1>1, InvariantHolds, PTL

-----------------------------------------------------------------------------
(* The platform monitor implements MonitorAbs.                             *)

WaitSetControl == {"waiting", "released", "waitFailed", "reenter"}

(* What the refinement mapping of the owner is, now and after a step.      *)
LEMMA OwnerOfHolders ==
  /\ Holders = {} => owner = NoThread
  /\ \A t \in Threads : Holders = {t} => owner = t
  /\ Holders' = {} => owner' = NoThread
  /\ \A t \in Threads : Holders' = {t} => owner' = t
BY DEF owner

(* A token in _enterLock means that nobody holds the monitor.              *)
LEMMA NoHolder ==
  ASSUME TypeOK, EnterTokenConserved, enterLock > 0
  PROVE  Holders = {}
<1>1. Holders \in SUBSET Threads BY DEF Holders
<1>2. IsFiniteSet(Holders) /\ Cardinality(Holders) \in Nat
  BY <1>1, ThreadsAssumption, FS_Subset, FS_CardinalityType
<1>3. Cardinality(Holders) = 0
  BY <1>2 DEF EnterTokenConserved, TypeOK
<1> QED BY <1>2, <1>3, FS_EmptySet

(* How a step of one thread changes the owner and the wait set.            *)
LEMMA SetStep ==
  ASSUME TypeOK, NEW t \in Threads, NEW c, Go(t, c)
  PROVE  /\ Holders' = IF c \in Holding THEN Holders \cup {t} ELSE Holders \ {t}
         /\ waitSet' = IF c \in WaitSetControl THEN waitSet \cup {t} ELSE waitSet \ {t}
         /\ t \in Holders <=> pc[t] \in Holding
         /\ t \in waitSet <=> pc[t] \in WaitSetControl
BY DEF Holders, waitSet, WaitSetControl, Go, At, TypeOK

(* Every step of the platform monitor is a step of the abstract monitor or *)
(* leaves its owner and wait set alone.                                    *)
LEMMA StepRefines ==
  ASSUME NoLateSignal, IInv, [Next]_vars
  PROVE  [Abs!Next]_<<owner, waitSet>>
<1> USE DEF WaitSetControl, Holding, Inside, Acquired, At
<1> DEFINE AbsStep == [Abs!Next]_<<owner, waitSet>>
<1>0. TypeOK /\ EnterTokenConserved
  BY DEF IInv
<1>1. ASSUME Holders' = Holders, waitSet' = waitSet PROVE AbsStep
  BY <1>1 DEF owner
<1>2. ASSUME NEW t \in Threads, enterLock > 0, t \notin waitSet, t \notin Holders,
             Holders' = Holders \cup {t}, waitSet' = waitSet \ {t}
      PROVE  AbsStep
  <2>1. owner = NoThread /\ owner' = t /\ waitSet' = waitSet
    BY <1>0, <1>2, NoHolder, OwnerOfHolders
  <2> QED BY <1>2, <2>1 DEF Abs!Next, Abs!Acquire
<1>3. ASSUME NEW t \in Threads, t \in Holders, t \notin waitSet, Holders' = Holders \ {t},
             waitSet' = waitSet \ {t} \/ waitSet' = waitSet \cup {t}
      PROVE  AbsStep
  <2>1. owner = t /\ owner' = NoThread
    BY <1>0, <1>3, OneHolder, OwnerOfHolders
  <2> QED BY <1>3, <2>1 DEF Abs!Next, Abs!Release, Abs!Wait
<1>4. ASSUME NEW t \in Threads, enterLock > 0, t \in waitSet,
             Holders' = Holders \cup {t}, waitSet' = waitSet \ {t}
      PROVE  AbsStep
  <2>1. owner = NoThread /\ owner' = t
    BY <1>0, <1>4, NoHolder, OwnerOfHolders
  <2> QED BY <1>4, <2>1 DEF Abs!Next, Abs!Reacquire
<1>5. ASSUME NEW t \in Threads, NEW c, Go(t, c),
             c \in Holding <=> pc[t] \in Holding,
             c \in WaitSetControl <=> pc[t] \in WaitSetControl
      PROVE  AbsStep
  <2>1. Holders' = Holders /\ waitSet' = waitSet
    BY <1>0, <1>5, SetStep
  <2> QED BY <1>1, <2>1
<1> HIDE DEF AbsStep
<1>6. ASSUME NEW t \in Threads, EnterStep(t) PROVE AbsStep
  <2>1. CASE TryEnter(t) BY <1>0, <1>2, <2>1, SetStep DEF TryEnter
  <2>2. CASE BeginEnter(t) BY <1>5, <2>2 DEF BeginEnter
  <2>3. CASE EnterAcquire(t) BY <1>0, <1>2, <2>3, SetStep DEF EnterAcquire
  <2>4. CASE EnterTimeout(t) BY <1>5, <2>4 DEF EnterTimeout
  <2>5. CASE EnterSignal(t) BY <1>5, <2>5 DEF EnterSignal, NoLateSignal
  <2>6. CASE EnterDone(t) BY <1>5, <2>6 DEF EnterDone
  <2>7. CASE Exit(t) BY <1>0, <1>3, <2>7, SetStep DEF Exit
  <2> QED BY <1>6, <2>1, <2>2, <2>3, <2>4, <2>5, <2>6, <2>7 DEF EnterStep
<1>7. ASSUME NEW t \in Threads, WaitStep(t) PROVE AbsStep
  <2>1. CASE WaitZero(t) BY <1>0, <1>3, <2>1, SetStep DEF WaitZero
  <2>2. CASE WaitQueue(t) BY <1>5, <2>2 DEF WaitQueue
  <2>3. CASE WaitRelease(t) BY <1>0, <1>3, <2>3, SetStep DEF WaitRelease
  <2>4. CASE WaitPulsed(t) BY <1>5, <2>4 DEF WaitPulsed
  <2>5. CASE WaitTimeout(t) BY <1>5, <2>5 DEF WaitTimeout
  <2>6. CASE WaitSignal(t) BY <1>5, <2>6 DEF WaitSignal, NoLateSignal
  <2>7. CASE WaitDone(t) BY <1>5, <2>7 DEF WaitDone
  <2>8. CASE WaitLeaveQueue(t) BY <1>5, <2>8 DEF WaitLeaveQueue
  <2>9. CASE Reenter(t) BY <1>0, <1>4, <2>9, SetStep DEF Reenter
  <2>10. CASE ReenterSignal(t)
    BY <1>1, <2>10 DEF ReenterSignal, Holders, waitSet
  <2> QED
    BY <1>7, <2>1, <2>2, <2>3, <2>4, <2>5, <2>6, <2>7, <2>8, <2>9, <2>10 DEF WaitStep
<1>8. ASSUME NEW t \in Threads, PulseStep(t) PROVE AbsStep
  <2>1. PICK c \in Inside \ {"waitRelease"} : Go(t, c)
    BY <1>8 DEF PulseStep, PulseLoad, PulseInc, PulsePost, PulseUndo, PulseAllLoad,
       PulseAllSwap, PulseAllPost, PulseAllAdd
  <2>2. pc[t] \in Inside
    BY <1>8 DEF PulseStep, PulseLoad, PulseInc, PulsePost, PulseUndo, PulseAllLoad,
       PulseAllSwap, PulseAllPost, PulseAllAdd
  <2> QED BY <1>5, <2>1, <2>2
<1>9. ASSUME pc' = pc PROVE AbsStep
  BY <1>1, <1>9 DEF Holders, waitSet
<1> QED
  BY <1>6, <1>7, <1>8, <1>9 DEF Next, Interrupt, vars, AbsStep

(* A platform monitor gives its users the abstract monitor: one owner, and *)
(* no return from a wait without the ownership.                            *)
THEOREM ImplementsMonitor ==
  ASSUME NoLateSignal
  PROVE  Spec => AbsSpec
<1>1. Init => Abs!Init
  <2> SUFFICES ASSUME Init PROVE Abs!Init
    OBVIOUS
  <2>1. Holders = {Creator} /\ waitSet = {}
    BY ThreadsAssumption DEF Init, Holders, waitSet, At, Holding, Inside, Acquired
  <2>2. owner = Creator
    BY <2>1, OwnerOfHolders, ThreadsAssumption
  <2> QED BY <2>1, <2>2, ThreadsAssumption DEF Abs!Init
<1>2. IInv /\ [Next]_vars => [Abs!Next]_<<owner, waitSet>>
  BY StepRefines
<1> QED
  BY <1>1, <1>2, InvariantHolds, PTL DEF Spec, AbsSpec, Abs!Spec
=============================================================================
