-------------------------- MODULE ThreadLifeProofs --------------------------
(***************************************************************************)
(* Proofs about the life of threads, for any number of workers and calls.  *)
(* A thread object is used by its handle and by its thread, and useCount   *)
(* says by how many of the two (LifeOf); a call names an object that its   *)
(* handle keeps, and is told of an end only when it is one (CallOf).       *)
(***************************************************************************)
EXTENDS ThreadLife, FiniteSetTheorems, TLAPS

-----------------------------------------------------------------------------
(* The inductive invariant. *)

Joining == {"joinState", "joinWait", "joinLeaveState", "joinRemove"}
Calling == Joining \cup {"interrupt", "joined"}

\* The main thread waits for the foreground threads.
Waiting == {"fgEnter", "fgRegister", "foreground", "fgLeave", "fgDone"}

\* The thread runs its own code or is in a call.
Active == Calling \cup Waiting \cup {"user", "sleepCheck", "sleep", "sleepLeave"}

\* The thread has left its code for good.
Ended == {"count", "wakeAll", "wakeup", "release"}

WakeupType == [count : Nat, limit : 0 .. 1, interrupted : BOOLEAN, alive : BOOLEAN]
Results == {"none", "ok", "timeout", "aborted", "interrupted", "failed"}

Types ==
    /\ obj \in [Threads -> {"none", "live", "freed"}]
    /\ pub \in [Threads -> SUBSET PubFlags]
    /\ priv \in [Threads -> SUBSET PrivFlags]
    /\ useCount \in [Threads -> Int]
    /\ handle \subseteq Workers
    /\ numThreads \in Int /\ numBackground \in Int
    /\ event \in BOOLEAN /\ released \in BOOLEAN
    /\ joinQueue \in [Threads -> SUBSET Threads]
    /\ wake \in [Threads -> WakeupType]
    /\ pc \in [Threads -> Pcs]
    /\ target \in [Threads -> Threads \cup {NoThread}]
    /\ seen \in [Threads -> SUBSET (PubFlags \cup PrivFlags)]
    /\ result \in [Threads -> Results]
    /\ calls \in 0 .. MaxCalls

\* The object of worker t, its uses, and what its state word says.
LifeOf(t) ==
    /\ obj[t] = "none" => t \notin handle /\ pc[t] = "none"
    /\ obj[t] = "freed" <=> obj[t] # "none" /\ t \notin handle /\ pc[t] = "none"
    /\ useCount[t] = (IF t \in handle THEN 1 ELSE 0) + (IF pc[t] # "none" THEN 1 ELSE 0)
    /\ "unstarted" \in pub[t] => pc[t] = "none" /\ obj[t] # "none"
    /\ "stopped" \in priv[t] <=> \/ pc[t] \in Ended
                                 \/ pc[t] = "none" /\ obj[t] # "none" /\ "unstarted" \notin pub[t]
    /\ pc[t] \notin Waiting

\* The main thread never ends, and no state word that it puts aside says so.
MainOK == /\ pc[Main] \in Active /\ useCount[Main] = 0
          /\ "unstarted" \notin pub[Main] /\ "stopped" \notin priv[Main]
          /\ "unstarted" \notin seen[Main] /\ "stopped" \notin seen[Main]

\* The call of s: the thread it is about, the queue s is in, its wakeup and
\* the result of its wait.
CallOf(s) ==
    /\ target[s] # NoThread <=> pc[s] \in Calling
    /\ target[s] \in handle \cup {Main, s, NoThread}
    /\ \A t \in Threads : s \in joinQueue[t] => target[s] = t /\ pc[s] \in Joining
    /\ pc[s] \in {"joinState", "joinWait"} => wake[s].limit = 1
    /\ wake[s].count <= wake[s].limit
    /\ \/ pc[s] \in {"joinState", "joinWait"} /\ wake[s].count > 0
       \/ pc[s] \in {"joinLeaveState", "joinRemove", "joined"} /\ result[s] = "ok"
       => "stopped" \in priv[target[s]]

LifeInv == /\ Types
           /\ \A t \in Workers : LifeOf(t)
           /\ MainOK
           /\ \A s \in Threads : CallOf(s)

-----------------------------------------------------------------------------
(* What a step leaves alone. *)

\* The life of a thread that the step is not about.
LEMMA LifeStays ==
    ASSUME NEW t \in Workers, LifeOf(t),
           obj'[t] = obj[t], useCount'[t] = useCount[t], t \in handle' <=> t \in handle,
           "unstarted" \in pub'[t] <=> "unstarted" \in pub[t],
           "stopped" \in priv'[t] <=> "stopped" \in priv[t],
           pc'[t] = pc[t] \/ (pc[t] \in Active /\ pc'[t] \in Active /\ pc'[t] \notin Waiting)
    PROVE  LifeOf(t)'
  BY DEF LifeOf, Waiting, Active, Calling, Joining, Ended

\* The call of a thread that the step is not about.
LEMMA CallStays ==
    ASSUME NEW s \in Threads, CallOf(s), target[s] \in Threads \cup {NoThread},
           pc'[s] = pc[s], target'[s] = target[s], result'[s] = result[s],
           target[s] \in handle => target[s] \in handle',
           \A t \in Threads : s \in joinQueue'[t] => s \in joinQueue[t],
           wake'[s].count = wake[s].count, wake'[s].limit = wake[s].limit,
           \A t \in Threads : "stopped" \in priv[t] => "stopped" \in priv'[t]
    PROVE  CallOf(s)'
<1>1. pc[s] \in Calling => target[s] \in Threads
  BY DEF CallOf
<1>2. {"joinState", "joinWait", "joinLeaveState", "joinRemove", "joined"} \subseteq Calling
  BY DEF Calling, Joining
<1> QED BY <1>1, <1>2 DEF CallOf

\* A state word that the main thread puts aside is one that it has.
SeenOfMain == seen'[Main] \subseteq seen[Main] \cup pub[Main] \cup priv[Main]

\* A step of s inside its own code or in a call, which concerns no count
\* and no object.
Quiet(s) ==
    /\ UNCHANGED <<obj, useCount, handle>> /\ SeenOfMain
    /\ pc[s] \in Active /\ pc'[s] \in Active /\ (s # Main => pc'[s] \notin Waiting)
    /\ \A t \in Threads : /\ "unstarted" \in pub'[t] <=> "unstarted" \in pub[t]
                          /\ "stopped" \in priv'[t] <=> "stopped" \in priv[t]
    /\ \A r \in Threads \ {s} :
          /\ pc'[r] = pc[r] /\ target'[r] = target[r] /\ result'[r] = result[r]
          /\ wake'[r].count = wake[r].count /\ wake'[r].limit = wake[r].limit
          /\ \A t \in Threads : r \in joinQueue'[t] => r \in joinQueue[t]

\* A step inside a call that changes nobody's life.
LEMMA QuietStep ==
    ASSUME LifeInv, NEW s \in Threads, Quiet(s), Types', CallOf(s)'
    PROVE  LifeInv'
<1>i. Types /\ (\A t \in Workers : LifeOf(t)) /\ MainOK /\ \A r \in Threads : CallOf(r)
  BY DEF LifeInv
<1>m. Main \in Threads /\ Workers \subseteq Threads /\ Main \notin Workers
  BY ThreadLifeAssumption DEF Threads
<1>1. ASSUME NEW t \in Workers PROVE LifeOf(t)'
  <2>1. CASE t = s
    BY <1>i, <1>m, <2>1, LifeStays DEF Quiet
  <2>2. CASE t # s
    BY <1>i, <1>m, <2>2, LifeStays DEF Quiet
  <2> QED BY <2>1, <2>2
<1>2. MainOK'
  <2>1. "unstarted" \notin PrivFlags /\ "stopped" \notin PubFlags
    BY DEF PubFlags, PrivFlags
  <2>2. pub[Main] \subseteq PubFlags /\ priv[Main] \subseteq PrivFlags
    BY <1>i, <1>m DEF Types
  <2>3. "unstarted" \notin seen'[Main] /\ "stopped" \notin seen'[Main]
    BY <1>i, <2>1, <2>2 DEF MainOK, Quiet, SeenOfMain
  <2> QED BY <1>i, <1>m, <2>3 DEF MainOK, Quiet
<1>3. ASSUME NEW r \in Threads PROVE CallOf(r)'
  <2>1. CASE r = s
    BY <2>1
  <2>2. CASE r # s
    <3>1. target[r] \in Threads \cup {NoThread}
      BY <1>i DEF Types
    <3> QED BY <1>i, <2>2, <3>1, CallStays DEF Quiet
  <2> QED BY <2>1, <2>2
<1> QED BY <1>1, <1>2, <1>3 DEF LifeInv

-----------------------------------------------------------------------------
(* Calls. *)

\* ILThreadInterrupt and ILThreadAbort set a flag of the target.
LEMMA InterruptStep ==
    ASSUME LifeInv, NEW s \in Threads, NEW t \in Threads, Interrupt(s, t) \/ Abort(s, t)
    PROVE  LifeInv'
<1>i. Types /\ CallOf(s) /\ pc[s] = "user" /\ t \in handle \cup {Main, s}
  BY DEF LifeInv, Interrupt, Abort, Calls, Reachable
<1>m. Main \in Threads /\ NoThread \notin Threads
  BY ThreadLifeAssumption DEF Threads
<1>1. PICK f \in {"interrupted", "abortRequested"} :
        /\ pub' = [pub EXCEPT ![t] = pub[t] \cup {f}]
        /\ \/ target' = [target EXCEPT ![s] = t] /\ pc' = [pc EXCEPT ![s] = "interrupt"]
           \/ UNCHANGED <<target, pc>>
        /\ UNCHANGED <<obj, useCount, handle, priv, numThreads, numBackground, event, released,
                       joinQueue, wake, result, seen>>
        /\ calls' \in 0 .. MaxCalls
  <2>1. calls' \in 0 .. MaxCalls
    BY <1>i, ThreadLifeAssumption DEF Types, Interrupt, Abort, Calls
  <2> QED BY <2>1 DEF Interrupt, Abort, Goto, objVars, countVars, waitVars
<1>2. Types'
  <2>1. pub' \in [Threads -> SUBSET PubFlags]
    BY <1>i, <1>1 DEF Types, PubFlags
  <2>2. pc' \in [Threads -> Pcs] /\ target' \in [Threads -> Threads \cup {NoThread}]
    BY <1>i, <1>1 DEF Types, Pcs
  <2> QED BY <1>i, <1>1, <2>1, <2>2 DEF Types
<1>3. /\ \A r \in Threads \ {s} : pc'[r] = pc[r] /\ target'[r] = target[r]
      /\ \/ pc'[s] = "interrupt" /\ target'[s] = t
         \/ pc'[s] = "user" /\ target'[s] = target[s]
  BY <1>i, <1>1 DEF Types
<1>4. \A r \in Threads : "unstarted" \in pub'[r] <=> "unstarted" \in pub[r]
  BY <1>i, <1>1 DEF Types
<1>5. Quiet(s)
  BY <1>i, <1>1, <1>3, <1>4 DEF Quiet, SeenOfMain, Waiting, Active, Calling
<1>6. CallOf(s)'
  BY <1>i, <1>m, <1>1, <1>3 DEF CallOf, Calling, Joining
<1> QED BY <1>2, <1>5, <1>6, QuietStep

\* Then they tell its wakeup.
LEMMA WakeupInterruptStep ==
    ASSUME LifeInv, NEW s \in Threads, WakeupInterrupt(s)
    PROVE  LifeInv'
<1>i. Types /\ CallOf(s) /\ pc[s] = "interrupt"
  BY DEF LifeInv, WakeupInterrupt
<1>t. PICK t \in Threads : t = target[s]
  BY <1>i DEF CallOf, Types, Calling
<1>1. /\ wake' = [wake EXCEPT ![t].interrupted = wake[t].interrupted \/ wake[t].alive]
      /\ pc' = [pc EXCEPT ![s] = "user"]
      /\ target' = [target EXCEPT ![s] = NoThread]
      /\ result' = [result EXCEPT ![s] = "none"]
      /\ UNCHANGED <<obj, useCount, handle, pub, priv, numThreads, numBackground, event, released,
                     joinQueue, seen, calls>>
  BY <1>t DEF WakeupInterrupt, Returns, Goto, objVars, countVars
<1>2. Types'
  <2>1. wake' \in [Threads -> WakeupType]
    BY <1>i, <1>1 DEF Types, WakeupType
  <2>2. /\ pc' \in [Threads -> Pcs] /\ target' \in [Threads -> Threads \cup {NoThread}]
        /\ result' \in [Threads -> Results]
    BY <1>i, <1>1 DEF Types, Pcs, Results
  <2> QED BY <1>i, <1>1, <2>1, <2>2 DEF Types
<1>3. /\ \A r \in Threads \ {s} : pc'[r] = pc[r] /\ target'[r] = target[r] /\ result'[r] = result[r]
      /\ pc'[s] = "user" /\ target'[s] = NoThread
      /\ \A r \in Threads : wake'[r].count = wake[r].count /\ wake'[r].limit = wake[r].limit
  BY <1>i, <1>1 DEF Types, WakeupType
<1>5. Quiet(s)
  BY <1>i, <1>1, <1>3 DEF Quiet, SeenOfMain, Waiting, Active, Calling
<1>6. CallOf(s)'
  BY <1>i, <1>1, <1>3 DEF CallOf, Calling, Joining
<1> QED BY <1>2, <1>5, <1>6, QuietStep

\* A thread notices its abort, or takes it back.
LEMMA AbortingStep ==
    ASSUME LifeInv, NEW s \in Threads, SelfAborting(s) \/ AbortReset(s)
    PROVE  LifeInv'
<1>i. Types /\ CallOf(s) /\ pc[s] = "user"
  BY DEF LifeInv, SelfAborting, AbortReset
<1>1. /\ UNCHANGED <<obj, useCount, handle, numThreads, numBackground, event, released,
                     joinQueue, pc, target, result, seen, calls>>
      /\ wake' = wake \/ wake' = [wake EXCEPT ![s].interrupted = FALSE]
  BY DEF SelfAborting, AbortReset, objVars, countVars, waitVars, localVars
<1>p. \/ /\ pub' = [pub EXCEPT ![s] = pub[s] \ {"abortRequested"}]
         /\ priv' = [priv EXCEPT ![s] = priv[s] \cup {"aborted"}]
      \/ /\ pub' = [pub EXCEPT ![s] = pub[s] \ {"abortRequested", "interrupted"}]
         /\ priv' = [priv EXCEPT ![s] = priv[s] \ {"aborted"}]
  BY DEF SelfAborting, AbortReset
<1>2. Types'
  <2>1. wake' \in [Threads -> WakeupType]
    <3>1. CASE wake' = wake
      BY <1>i, <3>1 DEF Types
    <3>2. CASE wake' = [wake EXCEPT ![s].interrupted = FALSE]
      BY <1>i, <3>2 DEF Types, WakeupType
    <3> QED BY <1>1, <3>1, <3>2
  <2>2. pub' \in [Threads -> SUBSET PubFlags] /\ priv' \in [Threads -> SUBSET PrivFlags]
    BY <1>i, <1>p DEF Types, PrivFlags
  <2> QED BY <1>i, <1>1, <2>1, <2>2 DEF Types
<1>3. \A r \in Threads : wake'[r].count = wake[r].count /\ wake'[r].limit = wake[r].limit
  BY <1>i, <1>1 DEF Types, WakeupType
<1>4. \A r \in Threads : /\ "unstarted" \in pub'[r] <=> "unstarted" \in pub[r]
                         /\ "stopped" \in priv'[r] <=> "stopped" \in priv[r]
  BY <1>i, <1>p DEF Types
<1>5. Quiet(s)
  BY <1>i, <1>1, <1>3, <1>4 DEF Quiet, SeenOfMain, Waiting, Active, Calling
<1>6. CallOf(s)'
  BY <1>i, <1>1, <1>3 DEF CallOf, Calling, Joining
<1> QED BY <1>2, <1>5, <1>6, QuietStep

\* What the calls do to a wakeup.
LEMMA WakeupReset ==
    ASSUME Types, NEW s \in Threads, NEW n \in 0 .. 1,
           wake' = [wake EXCEPT ![s].count = 0, ![s].limit = n]
    PROVE  /\ wake' \in [Threads -> WakeupType]
           /\ wake'[s].count = 0 /\ wake'[s].limit = n
           /\ \A r \in Threads \ {s} : wake'[r] = wake[r]
<1>1. wake[s] \in WakeupType /\ wake \in [Threads -> WakeupType]
  BY DEF Types
<1>2. wake'[s] = [count |-> 0, limit |-> n, interrupted |-> wake[s].interrupted,
                  alive |-> wake[s].alive]
  BY <1>1 DEF WakeupType
<1>3. wake'[s] \in WakeupType /\ wake'[s].count = 0 /\ wake'[s].limit = n
  BY <1>1, <1>2 DEF WakeupType
<1>4. \A r \in Threads \ {s} : wake'[r] = wake[r]
  BY <1>1
<1>5. wake' \in [Threads -> WakeupType]
  <2>1. wake' = [r \in Threads |-> wake'[r]]
    BY <1>1
  <2> QED BY <1>1, <1>3, <1>4, <2>1
<1> QED BY <1>3, <1>4, <1>5

\* A wakeup of which only the interrupt flag changes.
LEMMA WakeupCleared ==
    ASSUME Types, NEW s \in Threads, NEW i \in BOOLEAN,
           wake' = [wake EXCEPT ![s].interrupted = i]
    PROVE  /\ wake' \in [Threads -> WakeupType]
           /\ \A r \in Threads : wake'[r].count = wake[r].count /\ wake'[r].limit = wake[r].limit
           /\ \A r \in Threads \ {s} : wake'[r] = wake[r]
<1>1. wake[s] \in WakeupType /\ wake \in [Threads -> WakeupType]
  BY DEF Types
<1>2. wake'[s] = [wake[s] EXCEPT !.interrupted = i]
  BY <1>1
<1>3. /\ wake'[s] \in WakeupType /\ wake'[s].count = wake[s].count
      /\ wake'[s].limit = wake[s].limit
  BY <1>1, <1>2 DEF WakeupType
<1>4. \A r \in Threads \ {s} : wake'[r] = wake[r]
  BY <1>1
<1>5. wake' \in [Threads -> WakeupType]
  <2>1. wake' = [r \in Threads |-> wake'[r]]
    BY <1>1
  <2> QED BY <1>1, <1>3, <1>4, <2>1
<1> QED BY <1>3, <1>4, <1>5

\* A wakeup that is interrupted: its count and limit stay or are cleared.
LEMMA WakeupInterrupted ==
    ASSUME Types, NEW s \in Threads, NEW keep \in BOOLEAN,
           wake' = [wake EXCEPT ![s].interrupted = FALSE,
                                ![s].count = IF keep THEN @ ELSE 0,
                                ![s].limit = IF keep THEN @ ELSE 0]
    PROVE  /\ wake' \in [Threads -> WakeupType]
           /\ \/ wake'[s].count = wake[s].count /\ wake'[s].limit = wake[s].limit
              \/ wake'[s].count = 0 /\ wake'[s].limit = 0
           /\ \A r \in Threads \ {s} : wake'[r] = wake[r]
<1>1. wake[s] \in WakeupType /\ wake \in [Threads -> WakeupType]
  BY DEF Types
<1>2. /\ wake'[s] \in WakeupType
      /\ \/ wake'[s].count = wake[s].count /\ wake'[s].limit = wake[s].limit
         \/ wake'[s].count = 0 /\ wake'[s].limit = 0
  <2>1. CASE keep
    <3>1. PICK u : u = [wake[s] EXCEPT !.interrupted = FALSE]
      OBVIOUS
    <3>2. u \in WakeupType /\ u.count = wake[s].count /\ u.limit = wake[s].limit
      BY <1>1, <3>1 DEF WakeupType
    <3>3. PICK v : v = [u EXCEPT !.count = @]
      OBVIOUS
    <3>4. v \in WakeupType /\ v.count = wake[s].count /\ v.limit = wake[s].limit
      BY <1>1, <3>2, <3>3 DEF WakeupType
    <3>5. wake'[s] = [v EXCEPT !.limit = @]
      BY <1>1, <2>1, <3>1, <3>3
    <3> QED BY <1>1, <3>4, <3>5 DEF WakeupType
  <2>2. CASE ~keep
    <3>1. PICK u : u = [wake[s] EXCEPT !.interrupted = FALSE]
      OBVIOUS
    <3>2. u \in WakeupType /\ u.count = wake[s].count /\ u.limit = wake[s].limit
      BY <1>1, <3>1 DEF WakeupType
    <3>3. PICK v : v = [u EXCEPT !.count = 0]
      OBVIOUS
    <3>4. v \in WakeupType /\ v.count = 0 /\ v.limit = wake[s].limit
      BY <1>1, <3>2, <3>3 DEF WakeupType
    <3>5. wake'[s] = [v EXCEPT !.limit = 0]
      BY <1>1, <2>2, <3>1, <3>3
    <3> QED BY <1>1, <3>4, <3>5 DEF WakeupType
  <2> QED BY <2>1, <2>2
<1>4. \A r \in Threads \ {s} : wake'[r] = wake[r]
  BY <1>1
<1>5. wake' \in [Threads -> WakeupType]
  <2>1. wake' = [r \in Threads |-> wake'[r]]
    BY <1>1
  <2> QED BY <1>1, <1>2, <1>4, <2>1
<1> QED BY <1>2, <1>4, <1>5

\* ILThreadJoin under the target's lock.
LEMMA JoinStep ==
    ASSUME LifeInv, NEW s \in Threads, NEW t \in Threads, Join(s, t)
    PROVE  LifeInv'
<1>i. Types /\ CallOf(s) /\ pc[s] = "user" /\ t \in handle /\ t # NoThread
  BY ThreadLifeAssumption DEF LifeInv, Join, Calls, Threads
<1>1. /\ target' = [target EXCEPT ![s] = t]
      /\ UNCHANGED <<obj, useCount, handle, pub, priv, numThreads, numBackground, event, released,
                     seen>>
      /\ calls' \in 0 .. MaxCalls
  <2>1. calls' \in 0 .. MaxCalls
    BY <1>i, ThreadLifeAssumption DEF Types, Join, Calls
  <2> QED BY <2>1 DEF Join, objVars, countVars
<1>2. /\ \A r \in Threads : s \notin joinQueue[r]
      /\ joinQueue \in [Threads -> SUBSET Threads] /\ wake \in [Threads -> WakeupType]
      /\ wake[s].count <= wake[s].limit
  BY <1>i, <1>1 DEF Types, CallOf, Joining
<1>3. PICK c \in {"joined", "joinState"}, x \in {"ok", "failed", "none"} :
        /\ pc' = [pc EXCEPT ![s] = c] /\ result' = [result EXCEPT ![s] = x]
        /\ \/ c = "joined" /\ x = "ok" /\ "stopped" \in priv[t] /\ UNCHANGED <<joinQueue, wake>>
           \/ /\ c = "joined" /\ x = "failed" /\ joinQueue' = joinQueue
              /\ wake' = [wake EXCEPT ![s].interrupted = FALSE]
           \/ /\ c = "joinState" /\ x = "none"
              /\ wake' = [wake EXCEPT ![s].count = 0, ![s].limit = 1]
              /\ joinQueue' = [joinQueue EXCEPT ![t] = joinQueue[t] \cup {s}]
  BY DEF Join, Goto, waitVars
<1>4. /\ wake' \in [Threads -> WakeupType]
      /\ \A r \in Threads \ {s} : wake'[r] = wake[r]
      /\ wake'[s].count <= wake'[s].limit
      /\ c = "joinState" => wake'[s].count = 0 /\ wake'[s].limit = 1
  <2>1. CASE c = "joined" /\ wake' = wake
    BY <1>2, <2>1
  <2>2. CASE c = "joined" /\ wake' = [wake EXCEPT ![s].interrupted = FALSE]
    BY <1>i, <1>2, <2>2, WakeupCleared
  <2>3. CASE wake' = [wake EXCEPT ![s].count = 0, ![s].limit = 1]
    <3>1. /\ wake' \in [Threads -> WakeupType] /\ wake'[s].count = 0 /\ wake'[s].limit = 1
          /\ \A r \in Threads \ {s} : wake'[r] = wake[r]
      <4>1. 1 \in 0 .. 1
        OBVIOUS
      <4> QED BY <1>i, <2>3, <4>1, WakeupReset
    <3> QED BY <3>1
  <2> QED BY <1>3, <2>1, <2>2, <2>3
<1>5. /\ joinQueue' \in [Threads -> SUBSET Threads]
      /\ \A r \in Threads \ {s}, k \in Threads : r \in joinQueue'[k] => r \in joinQueue[k]
      /\ \A k \in Threads : s \in joinQueue'[k] => t = k /\ c = "joinState"
  BY <1>2, <1>3
<1>6. /\ pc'[s] = c /\ target'[s] = t /\ result'[s] = x
      /\ \A r \in Threads \ {s} : pc'[r] = pc[r] /\ target'[r] = target[r] /\ result'[r] = result[r]
  BY <1>i, <1>1, <1>3 DEF Types
<1>7. Types'
  <2>1. /\ pc' \in [Threads -> Pcs] /\ target' \in [Threads -> Threads \cup {NoThread}]
        /\ result' \in [Threads -> Results]
    BY <1>i, <1>1, <1>3 DEF Types, Pcs, Results
  <2> QED BY <1>i, <1>1, <1>4, <1>5, <2>1 DEF Types
<1>8. Quiet(s)
  BY <1>i, <1>1, <1>4, <1>5, <1>6 DEF Quiet, SeenOfMain, Waiting, Active, Calling, Joining
<1>9. CallOf(s)'
  <2>1. c = "joinState" => ~(wake'[s].count > 0)
    BY <1>4
  <2>2. c = "joined" /\ x = "ok" => "stopped" \in priv[t]
    BY <1>3
  <2> QED BY <1>i, <1>1, <1>4, <1>5, <1>6, <2>1, <2>2 DEF CallOf, Calling, Joining
<1> QED BY <1>7, <1>8, <1>9, QuietStep

\* The joining thread marks itself as waiting.
LEMMA JoinEnterStep ==
    ASSUME LifeInv, NEW s \in Threads, JoinEnterState(s)
    PROVE  LifeInv'
<1>i. Types /\ CallOf(s) /\ pc[s] = "joinState"
  BY DEF LifeInv, JoinEnterState
<1>1. UNCHANGED <<obj, useCount, handle, pub, numThreads, numBackground, event, released,
                  joinQueue, wake, target, seen, calls>>
  BY DEF JoinEnterState, objVars, countVars, waitVars
<1>2. \/ /\ result' = [result EXCEPT ![s] = "aborted"] /\ pc' = [pc EXCEPT ![s] = "joinRemove"]
         /\ priv' = priv
      \/ /\ priv' = [priv EXCEPT ![s] = priv[s] \cup {"waitSleepJoin"}]
         /\ pc' = [pc EXCEPT ![s] = "joinWait"] /\ result' = result
  BY DEF JoinEnterState, Goto
<1>3. /\ pc'[s] = "joinWait" \/ (pc'[s] = "joinRemove" /\ result'[s] = "aborted")
      /\ \A r \in Threads \ {s} : pc'[r] = pc[r] /\ result'[r] = result[r]
  BY <1>i, <1>2 DEF Types
<1>4. \A r \in Threads : "stopped" \in priv'[r] <=> "stopped" \in priv[r]
  BY <1>i, <1>2 DEF Types
<1>5. Types'
  <2>1. /\ pc' \in [Threads -> Pcs] /\ result' \in [Threads -> Results]
        /\ priv' \in [Threads -> SUBSET PrivFlags]
    BY <1>i, <1>2 DEF Types, Pcs, Results, PrivFlags
  <2> QED BY <1>i, <1>1, <2>1 DEF Types
<1>6. Quiet(s)
  BY <1>i, <1>1, <1>3, <1>4 DEF Quiet, SeenOfMain, Waiting, Active, Calling, Joining
<1>t. target[s] \in Threads
  BY <1>i DEF CallOf, Types, Calling, Joining
<1>7. CallOf(s)'
  BY <1>i, <1>t, <1>1, <1>3, <1>4 DEF CallOf, Calling, Joining
<1> QED BY <1>5, <1>6, <1>7, QuietStep

\* It sleeps until its wakeup is signalled, interrupted or times out.
LEMMA JoinWaitStep ==
    ASSUME LifeInv, NEW s \in Threads, JoinWait(s)
    PROVE  LifeInv'
<1>i. Types /\ CallOf(s) /\ pc[s] = "joinWait" /\ wake \in [Threads -> WakeupType]
  BY DEF LifeInv, JoinWait, Types
<1>1. /\ UNCHANGED <<obj, useCount, handle, pub, priv, numThreads, numBackground, event, released,
                     joinQueue, target, seen, calls>>
      /\ pc' = [pc EXCEPT ![s] = "joinLeaveState"]
  BY DEF JoinWait, Goto, objVars, countVars
<1>2. PICK x \in {"aborted", "ok", "timeout"} :
        result' = [result EXCEPT ![s] = x] /\ (x = "ok" => wake[s].count >= wake[s].limit)
  BY DEF JoinWait
<1>3. wake[s].limit = 1 /\ wake[s].count \in Nat /\ wake[s].count <= wake[s].limit
  BY <1>i DEF CallOf, WakeupType
<1>4. /\ wake' \in [Threads -> WakeupType]
      /\ \A r \in Threads \ {s} : wake'[r] = wake[r]
      /\ wake'[s].count <= wake'[s].limit
  <2>1. CASE \E keep \in BOOLEAN :
               wake' = [wake EXCEPT ![s].interrupted = FALSE,
                                    ![s].count = IF keep THEN @ ELSE 0,
                                    ![s].limit = IF keep THEN @ ELSE 0]
    <3>1. /\ wake' \in [Threads -> WakeupType]
          /\ \/ wake'[s].count = wake[s].count /\ wake'[s].limit = wake[s].limit
             \/ wake'[s].count = 0 /\ wake'[s].limit = 0
          /\ \A r \in Threads \ {s} : wake'[r] = wake[r]
      BY <1>i, <2>1, WakeupInterrupted
    <3> QED BY <1>3, <3>1
  <2>2. CASE wake' = [wake EXCEPT ![s].count = 0, ![s].limit = 0]
    <3>1. /\ wake' \in [Threads -> WakeupType] /\ wake'[s].count = 0 /\ wake'[s].limit = 0
          /\ \A r \in Threads \ {s} : wake'[r] = wake[r]
      <4>1. 0 \in 0 .. 1
        OBVIOUS
      <4> QED BY <1>i, <2>2, <4>1, WakeupReset
    <3> QED BY <3>1
  <2> QED BY <2>1, <2>2 DEF JoinWait
<1>5. /\ pc'[s] = "joinLeaveState" /\ result'[s] = x
      /\ \A r \in Threads \ {s} : pc'[r] = pc[r] /\ result'[r] = result[r]
  BY <1>i, <1>1, <1>2 DEF Types
<1>6. Types'
  <2>1. pc' \in [Threads -> Pcs] /\ result' \in [Threads -> Results]
    BY <1>i, <1>1, <1>2 DEF Types, Pcs, Results
  <2> QED BY <1>i, <1>1, <1>4, <2>1 DEF Types
<1>7. Quiet(s)
  BY <1>i, <1>1, <1>4, <1>5 DEF Quiet, SeenOfMain, Waiting, Active, Calling, Joining
<1>8. x = "ok" => "stopped" \in priv[target[s]]
  <2>1. x = "ok" => wake[s].count > 0
    BY <1>2, <1>3
  <2> QED BY <1>i, <2>1 DEF CallOf
<1>9. CallOf(s)'
  BY <1>i, <1>1, <1>4, <1>5, <1>8 DEF CallOf, Calling, Joining
<1> QED BY <1>6, <1>7, <1>9, QuietStep

\* It leaves the wait state.
LEMMA JoinLeaveStep ==
    ASSUME LifeInv, NEW s \in Threads, JoinLeaveState(s)
    PROVE  LifeInv'
<1>i. Types /\ CallOf(s) /\ pc[s] = "joinLeaveState"
  BY DEF LifeInv, JoinLeaveState
<1>1. /\ UNCHANGED <<obj, useCount, handle, numThreads, numBackground, event, released,
                     joinQueue, wake, target, seen, calls>>
      /\ pc' = [pc EXCEPT ![s] = "joinRemove"]
      /\ priv' = [priv EXCEPT ![s] = priv[s] \ {"waitSleepJoin"}]
      /\ pub' = [pub EXCEPT ![s] = pub[s] \ {"interrupted"}]
      /\ result' = [result EXCEPT ![s] = IF "interrupted" \in pub[s] THEN "interrupted" ELSE @]
  BY DEF JoinLeaveState, Goto, objVars, countVars, waitVars
<1>2. /\ pc'[s] = "joinRemove" /\ (result'[s] = "ok" => result[s] = "ok")
      /\ \A r \in Threads \ {s} : pc'[r] = pc[r] /\ result'[r] = result[r]
  BY <1>i, <1>1 DEF Types
<1>3. \A r \in Threads : /\ "stopped" \in priv'[r] <=> "stopped" \in priv[r]
                         /\ "unstarted" \in pub'[r] <=> "unstarted" \in pub[r]
  BY <1>i, <1>1 DEF Types
<1>4. Types'
  <2>1. pc' \in [Threads -> Pcs] /\ result' \in [Threads -> Results]
    BY <1>i, <1>1 DEF Types, Pcs, Results
  <2>2. pub' \in [Threads -> SUBSET PubFlags] /\ priv' \in [Threads -> SUBSET PrivFlags]
    BY <1>i, <1>1 DEF Types
  <2> QED BY <1>i, <1>1, <2>1, <2>2 DEF Types
<1>5. Quiet(s)
  BY <1>i, <1>1, <1>2, <1>3 DEF Quiet, SeenOfMain, Waiting, Active, Calling, Joining
<1>t. target[s] \in Threads
  BY <1>i DEF CallOf, Types, Calling, Joining
<1>6. CallOf(s)'
  BY <1>i, <1>t, <1>1, <1>2, <1>3 DEF CallOf, Calling, Joining
<1> QED BY <1>4, <1>5, <1>6, QuietStep

\* s leaves the queue of the thread it joins.
LEMMA JoinRemoveStep ==
    ASSUME LifeInv, NEW s \in Threads, JoinRemove(s)
    PROVE  LifeInv'
<1>i. Types /\ CallOf(s) /\ pc[s] = "joinRemove"
  BY DEF LifeInv, JoinRemove
<1>1. /\ UNCHANGED <<obj, useCount, handle, pub, priv, numThreads, numBackground, event, released,
                     wake, target, result, seen, calls>>
      /\ joinQueue' = [joinQueue EXCEPT ![target[s]] = joinQueue[target[s]] \ {s}]
      /\ pc' = [pc EXCEPT ![s] = "joined"]
  BY DEF JoinRemove, Goto, objVars, countVars, localVars
<1>2. /\ joinQueue' \in [Threads -> SUBSET Threads]
      /\ \A r, k \in Threads : r \in joinQueue'[k] => r \in joinQueue[k]
      /\ \A k \in Threads : s \notin joinQueue'[k]
  BY <1>i, <1>1 DEF Types, CallOf
<1>3. pc'[s] = "joined" /\ \A r \in Threads \ {s} : pc'[r] = pc[r]
  BY <1>i, <1>1 DEF Types
<1>4. Types'
  <2>1. pc' \in [Threads -> Pcs]
    BY <1>i, <1>1 DEF Types, Pcs
  <2> QED BY <1>i, <1>1, <1>2, <2>1 DEF Types
<1>5. Quiet(s)
  BY <1>i, <1>1, <1>2, <1>3 DEF Quiet, SeenOfMain, Waiting, Active, Calling, Joining
<1>6. CallOf(s)'
  BY <1>i, <1>1, <1>2, <1>3 DEF CallOf, Calling, Joining
<1> QED BY <1>4, <1>5, <1>6, QuietStep

\* It returns its result.
LEMMA JoinReturnStep ==
    ASSUME LifeInv, NEW s \in Threads, JoinReturn(s)
    PROVE  LifeInv'
<1>i. Types /\ CallOf(s) /\ pc[s] = "joined"
  BY DEF LifeInv, JoinReturn
<1>1. /\ UNCHANGED <<obj, useCount, handle, pub, priv, numThreads, numBackground, event, released,
                     joinQueue, wake, seen, calls>>
      /\ pc' = [pc EXCEPT ![s] = "user"] /\ target' = [target EXCEPT ![s] = NoThread]
      /\ result' = [result EXCEPT ![s] = "none"]
  BY DEF JoinReturn, Returns, Goto, objVars, countVars, waitVars
<1>2. /\ pc'[s] = "user" /\ target'[s] = NoThread
      /\ \A r \in Threads \ {s} : pc'[r] = pc[r] /\ target'[r] = target[r] /\ result'[r] = result[r]
  BY <1>i, <1>1 DEF Types
<1>3. Types'
  <2>1. /\ pc' \in [Threads -> Pcs] /\ target' \in [Threads -> Threads \cup {NoThread}]
        /\ result' \in [Threads -> Results]
    BY <1>i, <1>1 DEF Types, Pcs, Results
  <2> QED BY <1>i, <1>1, <2>1 DEF Types
<1>4. Quiet(s)
  BY <1>i, <1>1, <1>2 DEF Quiet, SeenOfMain, Waiting, Active, Calling, Joining
<1>5. CallOf(s)'
  BY <1>i, <1>1, <1>2 DEF CallOf, Calling, Joining
<1> QED BY <1>3, <1>4, <1>5, QuietStep

\* A sleep, from its begin to its end.
LEMMA SleepStep ==
    ASSUME LifeInv, NEW s \in Threads,
           Sleep(s) \/ SleepCheck(s) \/ SleepOver(s) \/ SleepLeave(s)
    PROVE  LifeInv'
<1>i. Types /\ CallOf(s) /\ pc[s] \in {"user", "sleepCheck", "sleep", "sleepLeave"}
  BY DEF LifeInv, Sleep, SleepCheck, SleepOver, SleepLeave, Calls
<1>1. /\ UNCHANGED <<obj, useCount, handle, numThreads, numBackground, event, released, joinQueue,
                     target, result, seen>>
      /\ calls' \in 0 .. MaxCalls
  <2>1. calls' \in 0 .. MaxCalls
    BY <1>i, ThreadLifeAssumption
       DEF Types, Sleep, SleepCheck, SleepOver, SleepLeave, Calls, localVars
  <2> QED BY <2>1 DEF Sleep, SleepCheck, SleepOver, SleepLeave, objVars, countVars, waitVars, localVars
<1>2. PICK c \in {"user", "sleepCheck", "sleep", "sleepLeave"} : pc' = [pc EXCEPT ![s] = c]
  BY DEF Sleep, SleepCheck, SleepOver, SleepLeave, Goto
<1>3. /\ wake' \in [Threads -> WakeupType]
      /\ \A r \in Threads : wake'[r].count = wake[r].count /\ wake'[r].limit = wake[r].limit
  <2>1. CASE wake' = wake
    BY <1>i, <2>1 DEF Types
  <2>2. CASE wake' = [wake EXCEPT ![s].interrupted = FALSE]
    BY <1>i, <2>2, WakeupCleared
  <2> QED BY <2>1, <2>2 DEF Sleep, SleepCheck, SleepOver, SleepLeave, waitVars
<1>4. /\ priv' \in [Threads -> SUBSET PrivFlags]
      /\ \A r \in Threads : "stopped" \in priv'[r] <=> "stopped" \in priv[r]
  <2>1. \/ priv' = priv
        \/ priv' = [priv EXCEPT ![s] = priv[s] \cup {"waitSleepJoin"}]
        \/ priv' = [priv EXCEPT ![s] = priv[s] \ {"waitSleepJoin"}]
    BY DEF Sleep, SleepCheck, SleepOver, SleepLeave
  <2> QED BY <1>i, <2>1 DEF Types, PrivFlags
<1>5. /\ pub' \in [Threads -> SUBSET PubFlags]
      /\ \A r \in Threads : "unstarted" \in pub'[r] <=> "unstarted" \in pub[r]
  <2>1. pub' = pub \/ pub' = [pub EXCEPT ![s] = pub[s] \ {"interrupted"}]
    BY DEF Sleep, SleepCheck, SleepOver, SleepLeave
  <2> QED BY <1>i, <2>1 DEF Types
<1>6. pc'[s] = c /\ \A r \in Threads \ {s} : pc'[r] = pc[r]
  BY <1>i, <1>2 DEF Types
<1>7. Types'
  <2>1. pc' \in [Threads -> Pcs]
    BY <1>i, <1>2 DEF Types, Pcs
  <2> QED BY <1>i, <1>1, <1>3, <1>4, <1>5, <2>1 DEF Types
<1>8. Quiet(s)
  BY <1>i, <1>1, <1>3, <1>4, <1>5, <1>6 DEF Quiet, SeenOfMain, Waiting, Active
<1>9. CallOf(s)'
  BY <1>i, <1>1, <1>3, <1>6 DEF CallOf, Calling, Joining
<1> QED BY <1>7, <1>8, <1>9, QuietStep

\* The main thread waits for the foreground threads: its flags,
LEMMA ForegroundFlags ==
    ASSUME LifeInv, WaitForForeground \/ InForeground
    PROVE  /\ pub' \in [Threads -> SUBSET PubFlags] /\ priv' \in [Threads -> SUBSET PrivFlags]
           /\ seen' \in [Threads -> SUBSET (PubFlags \cup PrivFlags)] /\ SeenOfMain
           /\ \A r \in Threads \ {Main} : pub'[r] = pub[r] /\ priv'[r] = priv[r] /\ seen'[r] = seen[r]
           /\ "unstarted" \notin pub'[Main] /\ "stopped" \notin priv'[Main]
<1>m. Main \in Threads
  BY DEF Threads
<1>i. /\ pub \in [Threads -> SUBSET PubFlags] /\ priv \in [Threads -> SUBSET PrivFlags]
      /\ seen \in [Threads -> SUBSET (PubFlags \cup PrivFlags)] /\ MainOK
  BY DEF LifeInv, Types
<1>f. "waitSleepJoin" \in PrivFlags
  BY DEF PrivFlags
<1>1. PICK p \in SUBSET PubFlags : /\ pub' = [pub EXCEPT ![Main] = p]
                                   /\ p \subseteq pub[Main] \cup seen[Main]
  <2>1. CASE pub' = pub
    <3>1. pub' = [pub EXCEPT ![Main] = pub[Main]]
      BY <1>i, <1>m, <2>1
    <3> QED BY <1>i, <1>m, <3>1
  <2>2. CASE pub' = [pub EXCEPT ![Main] = pub[Main] \ {"interrupted"}]
    BY <1>i, <1>m, <2>2
  <2>3. CASE pub' = [pub EXCEPT ![Main] = pub[Main] \ {"interrupted", "abortRequested"}]
    BY <1>i, <1>m, <2>3
  <2>4. CASE pub' = [pub EXCEPT ![Main] =
                         pub[Main] \cup ((seen[Main] \cap PubFlags) \ {"interrupted"})]
    <3>1. PICK p : p = pub[Main] \cup ((seen[Main] \cap PubFlags) \ {"interrupted"})
      OBVIOUS
    <3>2. p \in SUBSET PubFlags /\ p \subseteq pub[Main] \cup seen[Main]
      BY <1>i, <1>m, <3>1
    <3> QED BY <2>4, <3>1, <3>2
  <2> QED BY <2>1, <2>2, <2>3, <2>4
          DEF WaitForForeground, InForeground, ForegroundEnter, ForegroundRegister,
              ForegroundWait, ForegroundLeave, ForegroundRetry, ForegroundReturn
<1>2. PICK q \in SUBSET PrivFlags : /\ priv' = [priv EXCEPT ![Main] = q]
                                    /\ q \subseteq priv[Main] \cup seen[Main] \cup {"waitSleepJoin"}
  <2>1. CASE priv' = priv
    <3>1. priv' = [priv EXCEPT ![Main] = priv[Main]]
      BY <1>i, <1>m, <2>1
    <3> QED BY <1>i, <1>m, <3>1
  <2>2. CASE priv' = [priv EXCEPT ![Main] = priv[Main] \cup {"waitSleepJoin"}]
    BY <1>i, <1>m, <1>f, <2>2
  <2>3. CASE priv' = [priv EXCEPT ![Main] = priv[Main] \ {"waitSleepJoin"}]
    BY <1>i, <1>m, <2>3
  <2>4. CASE priv' = [priv EXCEPT ![Main] = priv[Main] \cup (seen[Main] \cap PrivFlags)]
    <3>1. PICK q : q = priv[Main] \cup (seen[Main] \cap PrivFlags)
      OBVIOUS
    <3>2. q \in SUBSET PrivFlags /\ q \subseteq priv[Main] \cup seen[Main] \cup {"waitSleepJoin"}
      BY <1>i, <1>m, <3>1
    <3> QED BY <2>4, <3>1, <3>2
  <2> QED BY <2>1, <2>2, <2>3, <2>4
          DEF WaitForForeground, EnterWait, InForeground, ForegroundEnter, ForegroundRegister,
              ForegroundWait, ForegroundLeave, ForegroundRetry, ForegroundReturn
<1>3. PICK w \in SUBSET (PubFlags \cup PrivFlags) :
        seen' = [seen EXCEPT ![Main] = w] /\ w \subseteq seen[Main] \cup pub[Main] \cup priv[Main]
  <2>1. CASE seen' = seen
    <3>1. seen' = [seen EXCEPT ![Main] = seen[Main]]
      BY <1>i, <1>m, <2>1
    <3> QED BY <1>i, <1>m, <3>1
  <2>2. CASE seen' = [seen EXCEPT ![Main] = {}]
    <3>1. {} \in SUBSET (PubFlags \cup PrivFlags)
          /\ {} \subseteq seen[Main] \cup pub[Main] \cup priv[Main]
      OBVIOUS
    <3> QED BY <2>2, <3>1
  <2>3. CASE seen' = [seen EXCEPT ![Main] = seen[Main] \cup pub[Main] \cup priv[Main]]
    BY <1>i, <1>m, <2>3
  <2> QED BY <2>1, <2>2, <2>3
          DEF WaitForForeground, InForeground, ForegroundEnter, ForegroundRegister,
              ForegroundWait, ForegroundLeave, ForegroundRetry, ForegroundReturn
<1>4. pub'[Main] = p /\ priv'[Main] = q /\ seen'[Main] = w
  BY <1>i, <1>m, <1>1, <1>2, <1>3
<1>5. "unstarted" \notin p /\ "stopped" \notin q
  BY <1>i, <1>1, <1>2 DEF MainOK
<1>6. \A r \in Threads \ {Main} : pub'[r] = pub[r] /\ priv'[r] = priv[r] /\ seen'[r] = seen[r]
  BY <1>i, <1>1, <1>2, <1>3
<1> QED BY <1>i, <1>1, <1>2, <1>3, <1>4, <1>5, <1>6 DEF SeenOfMain

\* its wakeup,
LEMMA ForegroundWakeup ==
    ASSUME Types, WaitForForeground \/ InForeground
    PROVE  /\ wake' \in [Threads -> WakeupType]
           /\ \A r \in Threads : wake'[r].count = wake[r].count /\ wake'[r].limit = wake[r].limit
<1>m. Main \in Threads
  BY DEF Threads
<1>1. \/ wake' = wake
      \/ \E i \in BOOLEAN : wake' = [wake EXCEPT ![Main].interrupted = i]
  <2>1. CASE ForegroundLeave
    <3>1. wake[Main] \in WakeupType
      BY <1>m DEF Types
    <3>2. PICK i : i = (wake[Main].interrupted
                          /\ ~(pub[Main] \cap {"abortRequested", "interrupted"} # {}))
      OBVIOUS
    <3>3. i \in BOOLEAN /\ wake' = [wake EXCEPT ![Main].interrupted = i]
      BY <2>1, <3>2 DEF ForegroundLeave
    <3> QED BY <3>3
  <2>2. CASE ~ForegroundLeave
    BY <2>2 DEF WaitForForeground, InForeground, ForegroundEnter, ForegroundRegister,
                ForegroundWait, ForegroundRetry, ForegroundReturn, waitVars
  <2> QED BY <2>1, <2>2
<1>2. CASE wake' = wake
  BY <1>2 DEF Types
<1>3. ASSUME NEW i \in BOOLEAN, wake' = [wake EXCEPT ![Main].interrupted = i]
      PROVE  /\ wake' \in [Threads -> WakeupType]
             /\ \A r \in Threads : wake'[r].count = wake[r].count /\ wake'[r].limit = wake[r].limit
  BY <1>m, <1>3, WakeupCleared
<1> QED BY <1>1, <1>2, <1>3

\* and the rest.
LEMMA ForegroundStep ==
    ASSUME LifeInv, WaitForForeground \/ InForeground
    PROVE  LifeInv'
<1>m. Main \in Threads
  BY DEF Threads
<1>i. Types /\ CallOf(Main) /\ pc[Main] \in Waiting \cup {"user"} /\ MainOK
  BY <1>m DEF LifeInv, WaitForForeground, InForeground, ForegroundEnter, ForegroundRegister,
              ForegroundWait, ForegroundLeave, ForegroundRetry, ForegroundReturn, Calls, Waiting
<1>1. /\ UNCHANGED <<obj, useCount, handle, numThreads, numBackground, event, joinQueue>>
      /\ \E c \in Waiting \cup {"user"} : pc' = [pc EXCEPT ![Main] = c]
  BY DEF WaitForForeground, InForeground, ForegroundEnter, ForegroundRegister,
         ForegroundWait, ForegroundLeave, ForegroundRetry, ForegroundReturn, Returns, Goto,
         objVars, countVars, waitVars, Waiting
<1>2. calls' \in 0 .. MaxCalls /\ released' \in BOOLEAN
  <2>1. calls' \in 0 .. MaxCalls
    BY <1>i, ThreadLifeAssumption
       DEF Types, WaitForForeground, InForeground, ForegroundEnter, ForegroundRegister,
           ForegroundWait, ForegroundLeave, ForegroundRetry, ForegroundReturn, Calls
  <2>2. released' = released \/ released' = FALSE
    BY DEF WaitForForeground, InForeground, ForegroundEnter, ForegroundRegister,
           ForegroundWait, ForegroundLeave, ForegroundRetry, ForegroundReturn, countVars
  <2> QED BY <1>i, <2>1, <2>2 DEF Types
<1>3. /\ target' = target \/ target' = [target EXCEPT ![Main] = NoThread]
      /\ \/ result' = result
         \/ \E v \in Results : result' = [result EXCEPT ![Main] = v]
  <2>1. target' = target \/ target' = [target EXCEPT ![Main] = NoThread]
    BY DEF WaitForForeground, InForeground, ForegroundEnter, ForegroundRegister,
           ForegroundWait, ForegroundLeave, ForegroundRetry, ForegroundReturn, Returns
  <2>2. CASE ForegroundLeave
    <3>1. result[Main] \in Results
      BY <1>i, <1>m DEF Types
    <3>2. PICK v : v = IF "abortRequested" \in pub[Main] THEN "aborted"
                       ELSE IF "interrupted" \in pub[Main] THEN "interrupted" ELSE result[Main]
      OBVIOUS
    <3>3. v \in Results
      BY <3>1, <3>2 DEF Results
    <3>4. result' = [result EXCEPT ![Main] = v]
      BY <2>2, <3>2 DEF ForegroundLeave
    <3> QED BY <2>1, <3>3, <3>4
  <2>3. CASE ~ForegroundLeave
    <3>1. \/ result' = result
          \/ \E v \in Results : result' = [result EXCEPT ![Main] = v]
      BY <2>3 DEF WaitForForeground, InForeground, ForegroundEnter, ForegroundRegister,
                  ForegroundWait, ForegroundRetry, ForegroundReturn, Returns, Results
    <3> QED BY <2>1, <3>1
  <2> QED BY <2>2, <2>3
<1>4. /\ pc'[Main] \in Waiting \cup {"user"} /\ target'[Main] = NoThread
      /\ \A r \in Threads \ {Main} :
            pc'[r] = pc[r] /\ target'[r] = target[r] /\ result'[r] = result[r]
  <2>1. target[Main] = NoThread
    BY <1>i DEF CallOf, Waiting, Calling, Joining
  <2> QED BY <1>i, <1>m, <1>1, <1>3, <2>1 DEF Types
<1>5. Types'
  <2>1. pc' \in [Threads -> Pcs]
    BY <1>i, <1>1 DEF Types, Pcs, Waiting
  <2>2. target' \in [Threads -> Threads \cup {NoThread}] /\ result' \in [Threads -> Results]
    BY <1>i, <1>3 DEF Types
  <2> QED BY <1>i, <1>1, <1>2, <2>1, <2>2, ForegroundFlags, ForegroundWakeup DEF Types
<1>6. \A t \in Threads : /\ "unstarted" \in pub'[t] <=> "unstarted" \in pub[t]
                         /\ "stopped" \in priv'[t] <=> "stopped" \in priv[t]
  BY <1>i, ForegroundFlags DEF MainOK
<1>7. Quiet(Main)
  BY <1>i, <1>1, <1>4, <1>6, ForegroundFlags, ForegroundWakeup DEF Quiet, SeenOfMain, Waiting, Active
<1>8. CallOf(Main)'
  BY <1>i, <1>m, <1>1, <1>4, ForegroundWakeup DEF CallOf, Calling, Joining, Waiting
<1> QED BY <1>m, <1>5, <1>7, <1>8, QuietStep

-----------------------------------------------------------------------------
(* Create, start, run, stop, destroy. *)

\* A step about the worker t.
Lives(t) ==
    /\ \A r \in Threads \ {t} :
          /\ obj'[r] = obj[r] /\ useCount'[r] = useCount[r] /\ (r \in handle' <=> r \in handle)
          /\ "unstarted" \in pub'[r] <=> "unstarted" \in pub[r]
          /\ "stopped" \in priv'[r] <=> "stopped" \in priv[r]
          /\ pc'[r] = pc[r] /\ seen'[r] = seen[r]
    /\ "stopped" \in priv[t] => "stopped" \in priv'[t]
    /\ \A r \in Threads :
          /\ target'[r] = target[r] /\ result'[r] = result[r]
          /\ target[r] \in handle => target[r] \in handle'
          /\ \A k \in Threads : r \in joinQueue'[k] => r \in joinQueue[k]

\* A step of the life of thread t: what has to be shown.
LEMMA LifeStep ==
    ASSUME LifeInv, NEW t \in Workers, Lives(t), Types', LifeOf(t)', CallOf(t)',
           \A r \in Threads \ {t} : \/ wake'[r].count = wake[r].count /\ wake'[r].limit = wake[r].limit
                                    \/ CallOf(r)'
    PROVE  LifeInv'
<1>i. Types /\ (\A r \in Workers : LifeOf(r)) /\ MainOK /\ \A r \in Threads : CallOf(r)
  BY DEF LifeInv
<1>m. Main \in Threads /\ Workers \subseteq Threads /\ Main # t /\ Main \notin Workers
  BY ThreadLifeAssumption DEF Threads
<1>1. ASSUME NEW r \in Workers PROVE LifeOf(r)'
  <2>1. CASE r # t
    BY <1>i, <1>m, <2>1, LifeStays DEF Lives
  <2> QED BY <2>1
<1>2. MainOK'
  BY <1>i, <1>m DEF MainOK, Lives
<1>3. ASSUME NEW r \in Threads PROVE CallOf(r)'
  <2>1. CASE r # t /\ wake'[r].count = wake[r].count /\ wake'[r].limit = wake[r].limit
    <3>1. target[r] \in Threads \cup {NoThread}
      BY <1>i DEF Types
    <3>2. \A k \in Threads : "stopped" \in priv[k] => "stopped" \in priv'[k]
      BY DEF Lives
    <3> QED BY <1>i, <2>1, <3>1, <3>2, CallStays DEF Lives
  <2> QED BY <2>1
<1> QED BY <1>1, <1>2, <1>3 DEF LifeInv

\* The counts and the event keep their types.
LEMMA AdjustTypes ==
    ASSUME Types, NEW m \in Int, NEW n \in Int, AdjustCount(m, n)
    PROVE  /\ numThreads' \in Int /\ numBackground' \in Int
           /\ event' \in BOOLEAN /\ released' \in BOOLEAN
<1>1. numThreads' \in Int /\ numBackground' \in Int
  BY DEF Types, AdjustCount
<1>2. event' \in BOOLEAN /\ released' \in BOOLEAN
  BY Zenon DEF AdjustCount
<1> QED BY <1>1, <1>2

\* ILThreadCreate.
LEMMA CreateStep ==
    ASSUME LifeInv, NEW s \in Threads, NEW t \in Workers, Create(s, t)
    PROVE  LifeInv'
<1>m. t \in Threads
  BY DEF Threads
<1>i. Types /\ LifeOf(t) /\ CallOf(t) /\ obj[t] = "none"
  BY <1>m DEF LifeInv, Create
<1>1. /\ obj' = [obj EXCEPT ![t] = "live"] /\ pub' = [pub EXCEPT ![t] = {"unstarted"}]
      /\ useCount' = [useCount EXCEPT ![t] = 1] /\ handle' = handle \cup {t}
      /\ UNCHANGED <<priv, numThreads, numBackground, event, released, joinQueue, wake, pc,
                     target, result, seen, calls>>
  BY DEF Create, countVars, waitVars, localVars
<1>2. /\ obj'[t] = "live" /\ pub'[t] = {"unstarted"} /\ useCount'[t] = 1
      /\ \A r \in Threads \ {t} : obj'[r] = obj[r] /\ pub'[r] = pub[r] /\ useCount'[r] = useCount[r]
  BY <1>i, <1>m, <1>1 DEF Types
<1>3. Types'
  <2>1. obj' \in [Threads -> {"none", "live", "freed"}]
    BY <1>i, <1>1 DEF Types
  <2>2. useCount' \in [Threads -> Int]
    <3>1. 1 \in Int /\ useCount \in [Threads -> Int]
      BY <1>i DEF Types
    <3> QED BY <1>1, <3>1
  <2>3. pub' \in [Threads -> SUBSET PubFlags]
    BY <1>i, <1>1 DEF Types, PubFlags
  <2>4. handle' \subseteq Workers
    BY <1>i, <1>1 DEF Types
  <2> QED BY <1>i, <1>1, <2>1, <2>2, <2>3, <2>4 DEF Types
<1>4. LifeOf(t)'
  BY <1>i, <1>1, <1>2 DEF LifeOf, Waiting, Ended
<1>5. Lives(t)
  BY <1>1, <1>2 DEF Lives
<1>6. CallOf(t)'
  BY <1>i, <1>1 DEF CallOf
<1> QED BY <1>1, <1>3, <1>4, <1>5, <1>6, LifeStep

\* ILThreadStart.
LEMMA StartStep ==
    ASSUME LifeInv, NEW s \in Threads, NEW t \in Workers, Start(s, t)
    PROVE  LifeInv'
<1>m. t \in Threads
  BY DEF Threads
<1>i. Types /\ LifeOf(t) /\ CallOf(t) /\ "unstarted" \in pub[t] /\ t \in handle
  BY <1>m DEF LifeInv, Start
<1>1. /\ useCount' = [useCount EXCEPT ![t] = useCount[t] + 1]
      /\ pub' = [pub EXCEPT ![t] = pub[t] \ {"unstarted"}] /\ pc' = [pc EXCEPT ![t] = "start"]
      /\ UNCHANGED <<obj, handle, priv, joinQueue, wake, target, result, seen, calls>>
      /\ AdjustCount(1, IF "background" \in pub[t] THEN 1 ELSE 0)
  BY DEF Start, Goto, waitVars, localVars
<1>2. /\ pc'[t] = "start" /\ pub'[t] = pub[t] \ {"unstarted"} /\ useCount'[t] = useCount[t] + 1
      /\ \A r \in Threads \ {t} : pc'[r] = pc[r] /\ pub'[r] = pub[r] /\ useCount'[r] = useCount[r]
  BY <1>i, <1>m, <1>1 DEF Types
<1>3. Types'
  <2>1. useCount' \in [Threads -> Int]
    <3>1. useCount[t] + 1 \in Int
      BY <1>i, <1>m DEF Types
    <3> QED BY <1>i, <1>1, <3>1 DEF Types
  <2>2. pub' \in [Threads -> SUBSET PubFlags] /\ pc' \in [Threads -> Pcs]
    BY <1>i, <1>1 DEF Types, Pcs
  <2>3. /\ numThreads' \in Int /\ numBackground' \in Int
        /\ event' \in BOOLEAN /\ released' \in BOOLEAN
    <3>1. 1 \in Int /\ (IF "background" \in pub[t] THEN 1 ELSE 0) \in Int
      OBVIOUS
    <3> QED BY <1>i, <1>1, <3>1, AdjustTypes
  <2> QED BY <1>i, <1>1, <2>1, <2>2, <2>3 DEF Types
<1>4. LifeOf(t)'
  BY <1>i, <1>1, <1>2 DEF LifeOf, Waiting, Ended
<1>5. Lives(t)
  BY <1>1, <1>2 DEF Lives
<1>6. CallOf(t)'
  BY <1>i, <1>1, <1>2 DEF CallOf, LifeOf, Calling, Joining
<1> QED BY <1>1, <1>3, <1>4, <1>5, <1>6, LifeStep

\* From one place to the next on the way in and out.
Passes(a, b) ==
    \/ a = "start" /\ b = "user"
    \/ a = "user" /\ b = "stop"
    \/ a = "stop" /\ b = "count"
    \/ a = "count" /\ b = "wakeAll"
    \/ a = "wakeAll" /\ b = "wakeup"
    \/ a = "wakeup" /\ b = "release"

\* A thread goes from one point of _ILThreadRun to the next.
LEMMA PassStep ==
    ASSUME LifeInv, NEW t \in Workers, NEW a, NEW b, Passes(a, b),
           pc[t] = a, pc' = [pc EXCEPT ![t] = b],
           UNCHANGED <<obj, useCount, handle, pub, target, result, calls>>,
           \A r \in Threads \ {t} : priv'[r] = priv[r],
           a \in {"start", "user"} => priv'[t] \subseteq priv[t],
           a = "stop" => "stopped" \in priv'[t],
           a \in {"count", "wakeAll", "wakeup"} => priv' = priv,
           priv' \in [Threads -> SUBSET PrivFlags],
           seen' \in [Threads -> SUBSET (PubFlags \cup PrivFlags)],
           \A r \in Threads \ {t} : seen'[r] = seen[r],
           numThreads' \in Int, numBackground' \in Int, event' \in BOOLEAN, released' \in BOOLEAN,
           joinQueue' \in [Threads -> SUBSET Threads], wake' \in [Threads -> WakeupType],
           wake'[t].count = wake[t].count, wake'[t].limit = wake[t].limit,
           \A r, k \in Threads : r \in joinQueue'[k] => r \in joinQueue[k],
           \A r \in Threads \ {t} : \/ wake'[r].count = wake[r].count /\ wake'[r].limit = wake[r].limit
                                    \/ CallOf(r)'
    PROVE  LifeInv'
<1>m. t \in Threads
  BY DEF Threads
<1>i. Types /\ LifeOf(t) /\ CallOf(t)
  BY <1>m DEF LifeInv
<1>1. pc'[t] = b /\ \A r \in Threads \ {t} : pc'[r] = pc[r]
  BY <1>i, <1>m DEF Types
<1>2. Types'
  <2>1. pc' \in [Threads -> Pcs]
    BY <1>i, <1>m DEF Types, Pcs, Passes
  <2> QED BY <1>i, <2>1 DEF Types
<1>3. /\ "stopped" \in priv'[t] <=> b \in Ended
      /\ "stopped" \in priv[t] => "stopped" \in priv'[t]
  BY <1>i DEF LifeOf, Waiting, Ended, Passes
<1>4. LifeOf(t)'
  BY <1>i, <1>1, <1>3 DEF LifeOf, Waiting, Ended, Passes
<1>5. Lives(t)
  BY <1>1, <1>3 DEF Lives
<1>6. CallOf(t)'
  BY <1>i, <1>m, <1>1 DEF CallOf, Calling, Joining, Passes
<1> QED BY <1>2, <1>4, <1>5, <1>6, LifeStep

\* Only a worker starts and ends.
LEMMA RunsAWorker ==
    ASSUME LifeInv, NEW t \in Threads, Run(t)
    PROVE  t \in Workers
<1>1. t # Main
  BY DEF LifeInv, MainOK, Waiting, Active, Calling, Joining, Run, RunBegin, RunEnd, Stop, Count,
         WakeJoiners, DestroyWakeup, Release
<1> QED BY <1>1 DEF Threads

\* _ILThreadRun begins,
LEMMA RunBeginStep ==
    ASSUME LifeInv, NEW t \in Workers, RunBegin(t)
    PROVE  LifeInv'
<1>m. t \in Threads
  BY DEF Threads
<1>i. Types
  BY DEF LifeInv
<1>1. /\ pc[t] = "start" /\ pc' = [pc EXCEPT ![t] = "user"] /\ priv' = [priv EXCEPT ![t] = {}]
      /\ UNCHANGED <<obj, useCount, handle, pub, numThreads, numBackground, event, released,
                     joinQueue, wake, target, result, seen, calls>>
  BY DEF RunBegin, Goto, objVars, countVars, waitVars, localVars
<1>2. /\ priv'[t] = {} /\ \A r \in Threads \ {t} : priv'[r] = priv[r]
      /\ priv' \in [Threads -> SUBSET PrivFlags]
  BY <1>i, <1>m, <1>1 DEF Types
<1> QED BY <1>i, <1>1, <1>2, PassStep DEF Types, Passes

\* its code ends,
LEMMA RunEndStep ==
    ASSUME LifeInv, NEW t \in Workers, RunEnd(t)
    PROVE  LifeInv'
<1>m. t \in Threads
  BY DEF Threads
<1>i. Types
  BY DEF LifeInv
<1>1. /\ pc[t] = "user" /\ pc' = [pc EXCEPT ![t] = "stop"] /\ seen' = [seen EXCEPT ![t] = pub[t]]
      /\ UNCHANGED <<obj, useCount, handle, pub, priv, numThreads, numBackground, event, released,
                     joinQueue, wake, target, result, calls>>
  BY DEF RunEnd, Goto, objVars, countVars, waitVars
<1>2. /\ seen' \in [Threads -> SUBSET (PubFlags \cup PrivFlags)]
      /\ \A r \in Threads \ {t} : seen'[r] = seen[r]
  BY <1>i, <1>m, <1>1 DEF Types
<1> QED BY <1>i, <1>1, <1>2, PassStep DEF Types, Passes

\* it is marked as stopped,
LEMMA StopStep ==
    ASSUME LifeInv, NEW t \in Workers, Stop(t)
    PROVE  LifeInv'
<1>m. t \in Threads
  BY DEF Threads
<1>i. Types
  BY DEF LifeInv
<1>1. /\ pc[t] = "stop" /\ pc' = [pc EXCEPT ![t] = "count"]
      /\ priv' = [priv EXCEPT ![t] = priv[t] \cup {"stopped"}]
      /\ UNCHANGED <<obj, useCount, handle, pub, numThreads, numBackground, event, released,
                     joinQueue, wake, target, result, seen, calls>>
  BY DEF Stop, Goto, objVars, countVars, waitVars, localVars
<1>2. /\ "stopped" \in priv'[t] /\ \A r \in Threads \ {t} : priv'[r] = priv[r]
      /\ priv' \in [Threads -> SUBSET PrivFlags]
  BY <1>i, <1>m, <1>1 DEF Types, PrivFlags
<1> QED BY <1>i, <1>1, <1>2, PassStep DEF Types, Passes

\* and counts itself out.
LEMMA CountStep ==
    ASSUME LifeInv, NEW t \in Workers, Count(t)
    PROVE  LifeInv'
<1>m. t \in Threads
  BY DEF Threads
<1>i. Types
  BY DEF LifeInv
<1>1. /\ pc[t] = "count" /\ pc' = [pc EXCEPT ![t] = "wakeAll"] /\ seen' = [seen EXCEPT ![t] = {}]
      /\ AdjustCount(-1, IF "background" \in seen[t] THEN -1 ELSE 0)
      /\ UNCHANGED <<obj, useCount, handle, pub, priv, joinQueue, wake, target, result, calls>>
  BY DEF Count, Goto, objVars, waitVars
<1>2. /\ seen' \in [Threads -> SUBSET (PubFlags \cup PrivFlags)]
      /\ \A r \in Threads \ {t} : seen'[r] = seen[r]
  BY <1>i, <1>m, <1>1 DEF Types
<1>3. /\ numThreads' \in Int /\ numBackground' \in Int
      /\ event' \in BOOLEAN /\ released' \in BOOLEAN
  <2>1. -1 \in Int /\ (IF "background" \in seen[t] THEN -1 ELSE 0) \in Int
    OBVIOUS
  <2> QED BY <1>i, <1>1, <2>1, AdjustTypes
<1> QED BY <1>i, <1>1, <1>2, <1>3, PassStep DEF Types, Passes

\* A signal does not exceed the limit of a wakeup.
LEMMA WakeupSignalled ==
    ASSUME NEW w \in WakeupType
    PROVE  /\ Signalled(w) \in WakeupType /\ Signalled(w).limit = w.limit
           /\ w.count <= w.limit => Signalled(w).count <= w.limit
<1>1. CASE ~w.interrupted /\ w.count < w.limit
  <2>1. Signalled(w) = [count |-> w.count + 1, limit |-> w.limit, interrupted |-> w.interrupted,
                        alive |-> w.alive]
    BY <1>1 DEF Signalled, WakeupType
  <2> QED BY <1>1, <2>1 DEF WakeupType
<1>2. CASE ~(~w.interrupted /\ w.count < w.limit)
  BY <1>2 DEF Signalled
<1> QED BY <1>1, <1>2

\* Whoever is woken waits for t, and t has stopped.
LEMMA WakeJoinersStep ==
    ASSUME LifeInv, NEW t \in Workers, WakeJoiners(t)
    PROVE  LifeInv'
<1>m. t \in Threads
  BY DEF Threads
<1>i. Types /\ LifeOf(t) /\ (\A r \in Threads : CallOf(r))
  BY DEF LifeInv
<1>1. /\ pc[t] = "wakeAll" /\ pc' = [pc EXCEPT ![t] = "wakeup"]
      /\ wake' = [r \in Threads |-> IF r \in joinQueue[t] THEN Signalled(wake[r]) ELSE wake[r]]
      /\ joinQueue' = [joinQueue EXCEPT ![t] = {}]
      /\ UNCHANGED <<obj, useCount, handle, pub, priv, numThreads, numBackground, event, released,
                     target, result, seen, calls>>
  BY DEF WakeJoiners, Goto, objVars, countVars, localVars
<1>2. /\ joinQueue' \in [Threads -> SUBSET Threads]
      /\ \A r, k \in Threads : r \in joinQueue'[k] => r \in joinQueue[k]
  BY <1>i, <1>m, <1>1 DEF Types
<1>3. t \notin joinQueue[t]
  BY <1>i, <1>m, <1>1 DEF CallOf, Joining
<1>4. wake' \in [Threads -> WakeupType]
  <2>1. \A r \in Threads : wake[r] \in WakeupType /\ Signalled(wake[r]) \in WakeupType
    BY <1>i, WakeupSignalled DEF Types
  <2> QED BY <1>1, <2>1
<1>5. wake'[t].count = wake[t].count /\ wake'[t].limit = wake[t].limit
  BY <1>m, <1>1, <1>3
<1>6. ASSUME NEW r \in Threads \ {t}
      PROVE  \/ wake'[r].count = wake[r].count /\ wake'[r].limit = wake[r].limit
             \/ CallOf(r)'
  <2>1. CASE r \notin joinQueue[t]
    BY <1>1, <2>1
  <2>2. CASE r \in joinQueue[t]
    <3>1. /\ pc'[r] = pc[r] /\ pc[r] \in Joining /\ target[r] = t
      BY <1>i, <1>m, <1>1, <2>2 DEF Types, CallOf
    <3>2. "stopped" \in priv[t]
      BY <1>i, <1>1 DEF LifeOf, Waiting, Ended
    <3>3. /\ wake[r].count <= wake[r].limit
          /\ pc[r] \in {"joinState", "joinWait"} => wake[r].limit = 1
          /\ target[r] # NoThread /\ pc[r] \in Calling
          /\ target[r] \in handle \cup {Main, r, NoThread}
      BY <1>i, <3>1 DEF CallOf, Calling
    <3>4. wake'[r].limit = wake[r].limit /\ wake'[r].count <= wake'[r].limit
      <4>1. wake[r] \in WakeupType /\ wake'[r] = Signalled(wake[r])
        BY <1>i, <1>1, <2>2 DEF Types
      <4> QED BY <3>3, <4>1, WakeupSignalled
    <3>5. \A k \in Threads : r \in joinQueue'[k] => target[r] = k
      BY <1>i, <1>2 DEF CallOf
    <3> QED BY <1>1, <3>1, <3>2, <3>3, <3>4, <3>5 DEF CallOf
  <2> QED BY <2>1, <2>2
<1> QED BY <1>i, <1>1, <1>2, <1>4, <1>5, <1>6, PassStep DEF Types, Passes

\* The wakeup of a thread that ends is destroyed.
LEMMA DestroyWakeupStep ==
    ASSUME LifeInv, NEW t \in Workers, DestroyWakeup(t)
    PROVE  LifeInv'
<1>m. t \in Threads
  BY DEF Threads
<1>i. Types
  BY DEF LifeInv
<1>1. /\ pc[t] = "wakeup" /\ pc' = [pc EXCEPT ![t] = "release"]
      /\ wake' = [wake EXCEPT ![t].alive = FALSE]
      /\ UNCHANGED <<obj, useCount, handle, pub, priv, numThreads, numBackground, event, released,
                     joinQueue, target, result, seen, calls>>
  BY DEF DestroyWakeup, Goto, objVars, countVars, localVars
<1>2. wake' \in [Threads -> WakeupType]
  BY <1>i, <1>m, <1>1 DEF Types, WakeupType
<1>3. ASSUME NEW r \in Threads PROVE wake'[r].count = wake[r].count /\ wake'[r].limit = wake[r].limit
  BY <1>i, <1>m, <1>1 DEF Types, WakeupType
<1>4. /\ Passes("wakeup", "release")
      /\ priv' \in [Threads -> SUBSET PrivFlags] /\ seen' \in [Threads -> SUBSET (PubFlags \cup PrivFlags)]
      /\ numThreads' \in Int /\ numBackground' \in Int /\ event' \in BOOLEAN /\ released' \in BOOLEAN
      /\ joinQueue' \in [Threads -> SUBSET Threads]
  BY <1>i, <1>1 DEF Types, Passes
<1> QED BY <1>m, <1>1, <1>2, <1>3, <1>4, PassStep

\* A thread that ends gives its use of the object up.
LEMMA ReleaseStep ==
    ASSUME LifeInv, NEW t \in Workers, Release(t)
    PROVE  LifeInv'
<1>m. t \in Threads
  BY DEF Threads
<1>i. Types /\ LifeOf(t) /\ CallOf(t) /\ pc[t] = "release"
  BY <1>m DEF LifeInv, Release
<1>1. /\ useCount' = [useCount EXCEPT ![t] = useCount[t] - 1]
      /\ obj' = [obj EXCEPT ![t] = IF /\ useCount[t] = 1
                                      /\ "stopped" \in priv[t] \/ "unstarted" \in pub[t]
                                   THEN "freed" ELSE obj[t]]
      /\ pc' = [pc EXCEPT ![t] = "none"]
      /\ UNCHANGED <<handle, pub, priv, numThreads, numBackground, event, released,
                     joinQueue, wake, target, result, seen, calls>>
  BY DEF Release, PrivateDestroy, Goto, countVars, waitVars, localVars
<1>2. /\ useCount[t] = (IF t \in handle THEN 2 ELSE 1) /\ "stopped" \in priv[t]
      /\ obj[t] = "live" /\ "unstarted" \notin pub[t]
  BY <1>i, <1>m DEF LifeOf, Waiting, Ended, Types
<1>3. /\ useCount'[t] = useCount[t] - 1 /\ pc'[t] = "none"
      /\ obj'[t] = IF t \in handle THEN "live" ELSE "freed"
      /\ \A r \in Threads \ {t} : obj'[r] = obj[r] /\ pc'[r] = pc[r] /\ useCount'[r] = useCount[r]
  BY <1>i, <1>m, <1>1, <1>2 DEF Types
<1>4. Types'
  <2>1. useCount' \in [Threads -> Int]
    <3>1. useCount[t] - 1 \in Int
      BY <1>2
    <3> QED BY <1>i, <1>1, <3>1 DEF Types
  <2>2. obj' \in [Threads -> {"none", "live", "freed"}]
    BY <1>i, <1>1, <1>2 DEF Types
  <2>3. pc' \in [Threads -> Pcs]
    BY <1>i, <1>1 DEF Types, Pcs
  <2> QED BY <1>i, <1>1, <2>1, <2>2, <2>3 DEF Types
<1>5. LifeOf(t)'
  BY <1>1, <1>2, <1>3 DEF LifeOf, Waiting, Ended
<1>6. Lives(t)
  BY <1>1, <1>3 DEF Lives
<1>7. CallOf(t)'
  BY <1>i, <1>m, <1>1, <1>3 DEF CallOf, Calling, Joining
<1> QED BY <1>1, <1>4, <1>5, <1>6, <1>7, LifeStep

\* Nobody is in a call on the thread whose handle goes.
LEMMA DestroyStep ==
    ASSUME LifeInv, NEW s \in Threads, NEW t \in Workers, Destroy(s, t)
    PROVE  LifeInv'
<1>m. t \in Threads
  BY DEF Threads
<1>i. Types /\ LifeOf(t) /\ (\A r \in Threads : CallOf(r)) /\ t \in handle
  BY DEF LifeInv, Destroy
<1>1. /\ useCount' = [useCount EXCEPT ![t] = useCount[t] - 1]
      /\ obj' = [obj EXCEPT ![t] = IF /\ useCount[t] = 1
                                      /\ "stopped" \in priv[t] \/ "unstarted" \in pub[t]
                                   THEN "freed" ELSE obj[t]]
      /\ handle' = handle \ {t}
      /\ UNCHANGED <<pub, priv, numThreads, numBackground, event, released,
                     joinQueue, wake, pc, target, result, seen, calls>>
  BY DEF Destroy, PrivateDestroy, countVars, waitVars, localVars
<1>2. /\ useCount[t] = (IF pc[t] # "none" THEN 2 ELSE 1) /\ obj[t] = "live"
      /\ pc[t] = "none" => "stopped" \in priv[t] \/ "unstarted" \in pub[t]
  BY <1>i, <1>m DEF LifeOf, Types
<1>3. /\ useCount'[t] = useCount[t] - 1
      /\ obj'[t] = IF pc[t] # "none" THEN "live" ELSE "freed"
      /\ \A r \in Threads \ {t} : obj'[r] = obj[r] /\ useCount'[r] = useCount[r]
  BY <1>i, <1>m, <1>1, <1>2 DEF Types
<1>n. \A r \in Threads : target[r] # t
  <2>1. SUFFICES ASSUME NEW r \in Threads, pc[r] \in {"none", "user"} PROVE target[r] # t
    BY DEF Destroy
  <2>2. target[r] = NoThread
    BY <1>i, <2>1 DEF CallOf, Calling, Joining
  <2> QED BY <1>m, <2>2, ThreadLifeAssumption
<1>4. Types'
  <2>1. useCount' \in [Threads -> Int]
    <3>1. useCount[t] - 1 \in Int
      BY <1>2
    <3> QED BY <1>i, <1>1, <3>1 DEF Types
  <2>2. obj' \in [Threads -> {"none", "live", "freed"}]
    BY <1>i, <1>1, <1>2 DEF Types
  <2>3. handle' \subseteq Workers
    BY <1>i, <1>1 DEF Types
  <2> QED BY <1>i, <1>1, <2>1, <2>2, <2>3 DEF Types
<1>5. LifeOf(t)'
  BY <1>i, <1>1, <1>2, <1>3 DEF LifeOf
<1>6. Lives(t)
  BY <1>1, <1>3, <1>n DEF Lives
<1>7. CallOf(t)'
  <2>1. target[t] \in Threads \cup {NoThread} /\ CallOf(t)
    BY <1>i, <1>m DEF Types
  <2> QED BY <1>m, <1>1, <1>n, <2>1, CallStays
<1> QED BY <1>1, <1>4, <1>5, <1>6, <1>7, LifeStep

\* The background flag is set or cleared.
LEMMA SetBackgroundStep ==
    ASSUME LifeInv, NEW s \in Threads, NEW t \in Threads, NEW flag \in BOOLEAN,
           SetBackground(s, t, flag)
    PROVE  LifeInv'
<1>i. Types /\ CallOf(s) /\ pc[s] = "user"
  BY DEF LifeInv, SetBackground, Calls
<1>1. /\ UNCHANGED <<obj, useCount, handle, priv, joinQueue, wake, pc, target, result, seen>>
      /\ \/ pub' = [pub EXCEPT ![t] = pub[t] \cup {"background"}]
         \/ pub' = [pub EXCEPT ![t] = pub[t] \ {"background"}]
      /\ AdjustCount(0, IF flag THEN 1 ELSE -1) \/ UNCHANGED countVars
  BY DEF SetBackground, objVars, waitVars
<1>2. /\ pub' \in [Threads -> SUBSET PubFlags]
      /\ \A r \in Threads : "unstarted" \in pub'[r] <=> "unstarted" \in pub[r]
  BY <1>i, <1>1 DEF Types, PubFlags
<1>3. /\ numThreads' \in Int /\ numBackground' \in Int
      /\ event' \in BOOLEAN /\ released' \in BOOLEAN
  <2>1. CASE AdjustCount(0, IF flag THEN 1 ELSE -1)
    <3>1. 0 \in Int /\ (IF flag THEN 1 ELSE -1) \in Int
      OBVIOUS
    <3> QED BY <1>i, <2>1, <3>1, AdjustTypes
  <2>2. CASE UNCHANGED countVars
    BY <1>i, <2>2 DEF Types, countVars
  <2> QED BY <1>1, <2>1, <2>2
<1>4. calls' \in 0 .. MaxCalls
  BY <1>i, ThreadLifeAssumption DEF Types, SetBackground, Calls
<1>5. Types'
  BY <1>i, <1>1, <1>2, <1>3, <1>4 DEF Types
<1>6. Quiet(s)
  BY <1>i, <1>1, <1>2 DEF Quiet, SeenOfMain, Waiting, Active
<1>7. CallOf(s)'
  BY <1>i, <1>1 DEF CallOf
<1> QED BY <1>5, <1>6, <1>7, QuietStep

-----------------------------------------------------------------------------
(* The invariant holds. *)

\* LifeInv holds before the first call.
LEMMA LifeInit == Init => LifeInv
<1> SUFFICES ASSUME Init PROVE LifeInv
  OBVIOUS
<1>m. Main \in Threads /\ Workers \subseteq Threads /\ Main \notin Workers
  BY ThreadLifeAssumption DEF Threads
<1>1. Types
  <2>1. wake \in [Threads -> WakeupType]
    <3>1. NewWakeup \in WakeupType
      BY DEF NewWakeup, WakeupType
    <3> QED BY <3>1 DEF Init
  <2>2. useCount \in [Threads -> Int] /\ numThreads \in Int /\ numBackground \in Int
    BY DEF Init
  <2>3. calls \in 0 .. MaxCalls
    BY ThreadLifeAssumption DEF Init
  <2> QED BY <2>1, <2>2, <2>3 DEF Init, Types, Pcs, Results
<1>2. \A t \in Workers : LifeOf(t)
  BY <1>m DEF Init, LifeOf, Waiting, Ended
<1>3. MainOK
  BY <1>m DEF Init, MainOK, Active
<1>4. ASSUME NEW s \in Threads PROVE CallOf(s)
  <2>1. /\ pc[s] \in {"user", "none"} /\ target[s] = NoThread /\ wake[s].count = 0
        /\ wake[s].limit = 0 /\ \A t \in Threads : joinQueue[t] = {}
    BY DEF Init, NewWakeup
  <2> QED BY <2>1 DEF CallOf, Calling, Joining
<1> QED BY <1>1, <1>2, <1>3, <1>4 DEF LifeInv

\* Every step keeps LifeInv.
LEMMA LifeNext == LifeInv /\ [Next]_vars => LifeInv'
<1> SUFFICES ASSUME LifeInv, [Next]_vars PROVE LifeInv'
  OBVIOUS
<1>1. ASSUME NEW s \in Threads, Run(s) PROVE LifeInv'
  <2>1. s \in Workers
    BY <1>1, RunsAWorker
  <2> QED BY <1>1, <2>1, RunBeginStep, RunEndStep, StopStep, CountStep, WakeJoinersStep,
             DestroyWakeupStep, ReleaseStep DEF Run
<1>2. ASSUME NEW s \in Threads, InCall(s) PROVE LifeInv'
  BY <1>2, WakeupInterruptStep, JoinEnterStep, JoinWaitStep, JoinLeaveStep, JoinRemoveStep,
     JoinReturnStep, SleepStep DEF InCall
<1>3. ASSUME NEW s \in Threads, Call(s) PROVE LifeInv'
  <2>1. ASSUME NEW t \in Workers, Create(s, t) \/ Start(s, t) \/ Destroy(s, t) PROVE LifeInv'
    BY <2>1, CreateStep, StartStep, DestroyStep
  <2>2. ASSUME NEW t \in Threads, Interrupt(s, t) \/ Abort(s, t) \/ Join(s, t) PROVE LifeInv'
    BY <2>2, InterruptStep, JoinStep
  <2>3. ASSUME NEW t \in Threads, NEW flag \in BOOLEAN, SetBackground(s, t, flag) PROVE LifeInv'
    BY <2>3, SetBackgroundStep
  <2>4. ASSUME SelfAborting(s) \/ AbortReset(s) \/ Sleep(s) PROVE LifeInv'
    BY <2>4, AbortingStep, SleepStep
  <2> QED BY <1>3, <2>1, <2>2, <2>3, <2>4 DEF Call
<1>4. CASE WaitForForeground \/ InForeground
  BY <1>4, ForegroundStep
<1>5. CASE UNCHANGED vars
  <2>1. UNCHANGED <<obj, pub, priv, useCount, handle, numThreads, numBackground, event, released,
                    joinQueue, wake, pc, target, result, seen, calls>>
    BY <1>5 DEF vars, objVars, countVars, waitVars, localVars
  <2> QED BY <2>1 DEF LifeInv, Types, LifeOf, MainOK, CallOf
<1> QED BY <1>1, <1>2, <1>3, <1>4, <1>5 DEF Next

\* LifeInv holds throughout.
LEMMA LifeInvariance == Spec => []LifeInv
BY LifeInit, LifeNext, PTL DEF Spec

-----------------------------------------------------------------------------
(* The theorems. *)

\* A thread object goes exactly when its thread has ended and its handle is
\* destroyed (_ILPrivateThreadDestroy), and nobody is then in a call on it
\* or in a queue with it.
THEOREM ObjectOutlivesUses == Spec => []FreedWhenUnused
<1>1. LifeInv => FreedWhenUnused
  <2> SUFFICES ASSUME LifeInv, NEW t \in Workers
               PROVE  /\ obj[t] = "freed" <=> obj[t] # "none" /\ t \notin handle /\ pc[t] = "none"
                      /\ obj[t] # "live" =>
                            \A s \in Threads : target[s] # t /\ s \notin joinQueue[t]
                                               /\ t \notin joinQueue[s]
    BY DEF FreedWhenUnused
  <2>i. Types /\ LifeOf(t) /\ (\A s \in Threads : CallOf(s)) /\ t \in Threads /\ t # Main
    BY ThreadLifeAssumption DEF LifeInv, Threads
  <2>1. obj[t] # "live" => t \notin handle /\ pc[t] = "none"
    BY <2>i DEF LifeOf, Types
  <2>2. ASSUME obj[t] # "live", NEW s \in Threads
        PROVE  target[s] # t /\ s \notin joinQueue[t] /\ t \notin joinQueue[s]
    <3>1. target[t] = NoThread /\ NoThread # t /\ \A r \in Threads : t \notin joinQueue[r]
      BY <2>i, <2>1, <2>2, ThreadLifeAssumption DEF CallOf, Calling, Joining
    <3>2. target[s] # t
      <4>1. CASE s = t
        BY <3>1, <4>1
      <4>2. CASE s # t
        BY <2>i, <2>1, <2>2, <3>1, <4>2 DEF CallOf
      <4> QED BY <4>1, <4>2
    <3> QED BY <2>i, <3>1, <3>2 DEF CallOf
  <2> QED BY <2>i, <2>2 DEF LifeOf
<1> QED BY <1>1, LifeInvariance, PTL

\* ILThreadJoin returns IL_JOIN_OK only for a thread that has stopped,
\* whether it found the thread stopped or was woken by it.
THEOREM JoinIsTruthful == Spec => []JoinTellsEnd
<1>1. LifeInv => JoinTellsEnd
  BY DEF LifeInv, CallOf, JoinTellsEnd
<1> QED BY <1>1, LifeInvariance, PTL

-----------------------------------------------------------------------------
(* The counts. *)

\* The background flag of a thread that runs is set by nobody but itself.
OwnBackground == AnyBackground = FALSE

Background(t) == "background" \in IF pc[t] \in {"stop", "count"} THEN seen[t] ELSE pub[t]
InBackground == {t \in Counted : Background(t)}

\* The counted threads are finitely many.
LEMMA CountedFinite ==
    /\ IsFiniteSet(Counted) /\ IsFiniteSet(InBackground)
    /\ Cardinality(Counted) \in Nat /\ Cardinality(InBackground) \in Nat
<1>1. Counted \in SUBSET Workers /\ InBackground \in SUBSET Workers /\ IsFiniteSet(Workers)
  BY ThreadLifeAssumption DEF Counted, InBackground
<1>2. IsFiniteSet(Counted) /\ IsFiniteSet(InBackground)
  BY <1>1, FS_Subset
<1> QED BY <1>2, FS_CardinalityType

\* CountsExact in terms of the counted threads,
LEMMA CountsAre ==
    CountsExact <=> /\ numThreads = 1 + Cardinality(Counted)
                    /\ numBackground = Cardinality(InBackground)
                    /\ event <=> (numThreads - numBackground = 1)
BY DEF CountsExact, InBackground, Background

\* and of those after a step.
LEMMA CountsWillBe ==
    ASSUME numThreads' = 1 + Cardinality(Counted'), numBackground' = Cardinality(InBackground'),
           event' <=> (numThreads' - numBackground' = 1)
    PROVE  CountsExact'
BY DEF CountsExact, InBackground, Background

\* A step that changes neither counts nor who is counted.
LEMMA CountsStay ==
    ASSUME CountsExact, UNCHANGED <<numThreads, numBackground, event>>,
           \A t \in Workers : /\ t \in Counted' <=> t \in Counted
                              /\ t \in Counted => (Background(t)' <=> Background(t))
    PROVE  CountsExact'
<1>1. Counted' = Counted
  BY DEF Counted
<1>2. InBackground' = InBackground
  BY <1>1 DEF InBackground, Counted
<1> QED BY <1>1, <1>2, CountsAre, CountsWillBe

\* A step of s in its code or in a call leaves every count and every flag.
Uncounted(s) ==
    /\ UNCHANGED <<numThreads, numBackground, event>>
    /\ \A r \in Workers : /\ "background" \in pub'[r] <=> "background" \in pub[r]
                          /\ seen'[r] = seen[r]
    /\ \A r \in Threads \ {s} : pc'[r] = pc[r]
    /\ pc[s] \in Active /\ pc'[s] \in Active

\* A step of a kind that counts nobody.
LEMMA UncountedStep ==
    ASSUME CountsExact, NEW s \in Threads, Uncounted(s)
    PROVE  CountsExact'
<1>1. ASSUME NEW t \in Workers
      PROVE  /\ t \in Counted' <=> t \in Counted
             /\ t \in Counted => (Background(t)' <=> Background(t))
  <2>1. t \in Threads
    BY DEF Threads
  <2>2. CASE t = s
    BY <2>1, <2>2 DEF Uncounted, Counted, Background, Active, Waiting, Calling, Joining
  <2>3. CASE t # s
    BY <2>1, <2>3 DEF Uncounted, Counted, Background
  <2> QED BY <2>2, <2>3
<1> QED BY <1>1, CountsStay DEF Uncounted

\* The steps of a join or a sleep are such steps,
LEMMA InCallUncounted ==
    ASSUME Types, NEW s \in Threads, InCall(s)
    PROVE  Uncounted(s)
<1>1. CASE WakeupInterrupt(s) \/ JoinReturn(s)
  BY <1>1 DEF Types, Uncounted, WakeupInterrupt, JoinReturn, Returns, Goto, countVars,
              Active, Calling, Joining
<1>2. CASE JoinEnterState(s) \/ JoinWait(s)
  <2>1. UNCHANGED <<pub, numThreads, numBackground, event, seen>>
    BY <1>2 DEF JoinEnterState, JoinWait, countVars
  <2>2. /\ pc[s] \in {"joinState", "joinWait"}
        /\ \E c \in {"joinRemove", "joinWait", "joinLeaveState"} : pc' = [pc EXCEPT ![s] = c]
    BY <1>2 DEF JoinEnterState, JoinWait, Goto
  <2> QED BY <2>1, <2>2 DEF Types, Uncounted, Active, Calling, Joining
<1>3. CASE JoinLeaveState(s) \/ JoinRemove(s)
  BY <1>3 DEF Types, Threads, Uncounted, JoinLeaveState, JoinRemove, Goto, countVars, localVars,
              Active, Calling, Joining
<1>4. CASE SleepCheck(s) \/ SleepOver(s) \/ SleepLeave(s)
  <2>1. UNCHANGED <<numThreads, numBackground, event, seen>>
    BY <1>4 DEF SleepCheck, SleepOver, SleepLeave, countVars, localVars
  <2>2. /\ pc[s] \in {"sleepCheck", "sleep", "sleepLeave"}
        /\ \E c \in {"user", "sleep", "sleepLeave"} : pc' = [pc EXCEPT ![s] = c]
    BY <1>4 DEF SleepCheck, SleepOver, SleepLeave, Goto
  <2>3. pub' = pub \/ pub' = [pub EXCEPT ![s] = pub[s] \ {"interrupted"}]
    BY <1>4 DEF SleepCheck, SleepOver, SleepLeave
  <2> QED BY <2>1, <2>2, <2>3 DEF Types, Threads, Uncounted, Active, Calling, Joining
<1> QED BY <1>1, <1>2, <1>3, <1>4 DEF InCall

\* as are the calls that begin one, interrupts and aborts,
LEMMA CallUncounted ==
    ASSUME Types, NEW s \in Threads,
           \/ \E t \in Threads : Interrupt(s, t) \/ Abort(s, t) \/ Join(s, t)
           \/ SelfAborting(s) \/ AbortReset(s) \/ Sleep(s)
    PROVE  Uncounted(s)
<1>1. ASSUME NEW t \in Threads, Interrupt(s, t) \/ Abort(s, t)
      PROVE  Uncounted(s)
  <2>1. /\ UNCHANGED <<numThreads, numBackground, event, seen>> /\ pc[s] = "user"
        /\ pc' = pc \/ pc' = [pc EXCEPT ![s] = "interrupt"]
    BY <1>1 DEF Interrupt, Abort, Calls, Goto, countVars
  <2>2. \/ pub' = [pub EXCEPT ![t] = pub[t] \cup {"interrupted"}]
        \/ pub' = [pub EXCEPT ![t] = pub[t] \cup {"abortRequested"}]
    BY <1>1 DEF Interrupt, Abort
  <2> QED BY <2>1, <2>2 DEF Types, Threads, Uncounted, Active, Calling
<1>2. ASSUME NEW t \in Threads, Join(s, t)
      PROVE  Uncounted(s)
  <2>1. /\ UNCHANGED <<pub, numThreads, numBackground, event, seen>> /\ pc[s] = "user"
        /\ pc' = [pc EXCEPT ![s] = "joined"] \/ pc' = [pc EXCEPT ![s] = "joinState"]
    BY <1>2 DEF Join, Calls, Goto, countVars
  <2> QED BY <2>1 DEF Types, Uncounted, Active, Calling, Joining
<1>3. CASE SelfAborting(s) \/ AbortReset(s)
  <2>1. UNCHANGED <<numThreads, numBackground, event, seen, pc>> /\ pc[s] = "user"
    BY <1>3 DEF SelfAborting, AbortReset, countVars, localVars
  <2>2. \/ pub' = [pub EXCEPT ![s] = pub[s] \ {"abortRequested"}]
        \/ pub' = [pub EXCEPT ![s] = pub[s] \ {"abortRequested", "interrupted"}]
    BY <1>3 DEF SelfAborting, AbortReset
  <2> QED BY <2>1, <2>2 DEF Types, Threads, Uncounted, Active
<1>4. CASE Sleep(s)
  BY <1>4 DEF Types, Uncounted, Sleep, Calls, Goto, countVars, Active
<1> QED BY <1>1, <1>2, <1>3, <1>4

\* and the main thread's wait.
LEMMA ForegroundUncounted ==
    ASSUME LifeInv, WaitForForeground \/ InForeground
    PROVE  Uncounted(Main)
<1>i. Types /\ Main \notin Workers
  BY ThreadLifeAssumption DEF LifeInv
<1>1. /\ UNCHANGED <<numThreads, numBackground, event>>
      /\ pc[Main] \in Waiting \cup {"user"}
      /\ \E c \in Waiting \cup {"user"} : pc' = [pc EXCEPT ![Main] = c]
  BY DEF WaitForForeground, InForeground, ForegroundEnter, ForegroundRegister,
         ForegroundWait, ForegroundLeave, ForegroundRetry, ForegroundReturn, Returns, Goto,
         Calls, countVars, Waiting
<1>2. \A r \in Workers : pub'[r] = pub[r] /\ seen'[r] = seen[r]
  BY <1>i, ForegroundFlags DEF Threads
<1> QED BY <1>i, <1>1, <1>2 DEF Types, Uncounted, Active, Threads

\* Everything between the counting in and the counting out, and the end of
\* a thread that is counted out.
LEMMA PassUncounted ==
    ASSUME LifeInv, CountsExact, NEW t \in Workers,
           \/ RunBegin(t) \/ RunEnd(t) \/ Stop(t)
           \/ WakeJoiners(t) \/ DestroyWakeup(t) \/ Release(t)
    PROVE  CountsExact'
<1>m. t \in Threads
  BY DEF Threads
<1>i. Types
  BY DEF LifeInv
<1>1. UNCHANGED <<numThreads, numBackground, event, pub>>
  BY DEF RunBegin, RunEnd, Stop, WakeJoiners, DestroyWakeup, Release, countVars
<1>2. /\ \A r \in Threads \ {t} : pc'[r] = pc[r] /\ seen'[r] = seen[r]
      /\ \/ pc[t] \in {"wakeAll", "wakeup", "release"} /\ pc'[t] \in {"wakeup", "release", "none"}
         \/ pc[t] = "start" /\ pc'[t] = "user"
         \/ pc[t] = "user" /\ pc'[t] = "stop" /\ seen'[t] = pub[t]
         \/ pc[t] = "stop" /\ pc'[t] = "count" /\ seen'[t] = seen[t]
  BY <1>i, <1>m DEF Types, RunBegin, RunEnd, Stop, WakeJoiners, DestroyWakeup, Release, Goto, localVars
<1>3. ASSUME NEW r \in Workers
      PROVE  /\ r \in Counted' <=> r \in Counted
             /\ r \in Counted => (Background(r)' <=> Background(r))
  <2>1. r \in Threads
    BY DEF Threads
  <2>2. CASE r = t
    BY <1>1, <1>2, <2>2 DEF Counted, Background
  <2>3. CASE r # t
    BY <1>1, <1>2, <2>1, <2>3 DEF Counted, Background
  <2> QED BY <2>2, <2>3
<1> QED BY <1>1, <1>3, CountsStay

\* A thread that is created or destroyed is not counted.
LEMMA ObjectUncounted ==
    ASSUME LifeInv, CountsExact, NEW s \in Threads, NEW t \in Workers, Create(s, t) \/ Destroy(s, t)
    PROVE  CountsExact'
<1>m. t \in Threads
  BY DEF Threads
<1>i. Types /\ LifeOf(t)
  BY DEF LifeInv
<1>1. UNCHANGED <<numThreads, numBackground, event, pc, seen>>
  BY DEF Create, Destroy, countVars, localVars
<1>2. pub' = pub \/ (pc[t] = "none" /\ \A r \in Threads \ {t} : pub'[r] = pub[r])
  BY <1>i, <1>m DEF Create, Destroy, Types, LifeOf
<1>3. ASSUME NEW r \in Workers
      PROVE  /\ r \in Counted' <=> r \in Counted
             /\ r \in Counted => (Background(r)' <=> Background(r))
  <2>1. r \in Threads
    BY DEF Threads
  <2> QED BY <1>1, <1>2, <2>1 DEF Counted, Background
<1> QED BY <1>1, <1>3, CountsStay

\* What _ILThreadAdjustCount does when a thread comes in, or goes out.
LEMMA CountIn ==
    ASSUME CountsExact, NEW t, t \notin Counted, Counted' = Counted \cup {t},
           NEW n \in {0, 1}, AdjustCount(1, n),
           InBackground' = IF n = 1 THEN InBackground \cup {t} ELSE InBackground
    PROVE  CountsExact'
<1>1. t \notin InBackground
  BY DEF InBackground
<1>2. Cardinality(Counted') = Cardinality(Counted) + 1
  BY CountedFinite, FS_AddElement
<1>3. Cardinality(InBackground') = Cardinality(InBackground) + n
  <2>1. CASE n = 1
    BY <1>1, <2>1, CountedFinite, FS_AddElement
  <2>2. CASE n = 0
    BY <2>2, CountedFinite
  <2> QED BY <2>1, <2>2
<1>4. /\ numThreads' = numThreads + 1 /\ numBackground' = numBackground + n
      /\ event' <=> (numThreads + 1 - (numBackground + n) = 1)
  BY DEF AdjustCount
<1> QED BY <1>2, <1>3, <1>4, CountsAre, CountsWillBe, CountedFinite

\* A thread that counts itself out, as what it was.
LEMMA CountOut ==
    ASSUME CountsExact, NEW t \in Counted, Counted' = Counted \ {t}, NEW n \in {0, -1},
           AdjustCount(-1, n), n = -1 <=> t \in InBackground,
           InBackground' = InBackground \ {t}
    PROVE  CountsExact'
<1>1. Cardinality(Counted') = Cardinality(Counted) - 1
  BY CountedFinite, FS_RemoveElement
<1>2. Cardinality(InBackground') = Cardinality(InBackground) + n
  <2>1. /\ IsFiniteSet(InBackground) /\ Cardinality(InBackground) \in Nat
        /\ Cardinality(InBackground') =
              IF t \in InBackground THEN Cardinality(InBackground) - 1 ELSE Cardinality(InBackground)
    BY CountedFinite, FS_RemoveElement
  <2>2. CASE n = -1
    BY <2>1, <2>2
  <2>3. CASE n = 0
    BY <2>1, <2>3
  <2> QED BY <2>2, <2>3
<1>3. /\ numThreads' = numThreads + (-1) /\ numBackground' = numBackground + n
      /\ event' <=> (numThreads + (-1) - (numBackground + n) = 1)
  BY DEF AdjustCount
<1> QED BY <1>1, <1>2, <1>3, CountsAre, CountsWillBe, CountedFinite

\* A thread is counted when it is started.
LEMMA StartCounts ==
    ASSUME LifeInv, CountsExact, NEW s \in Threads, NEW t \in Workers, Start(s, t)
    PROVE  CountsExact'
<1>m. Workers \subseteq Threads /\ t \in Threads
  BY DEF Threads
<1>i. Types /\ pc[t] = "none"
  BY DEF LifeInv, LifeOf, Start
<1>1. /\ \A r \in Threads \ {t} : pc'[r] = pc[r] /\ pub'[r] = pub[r]
      /\ pc'[t] = "start" /\ seen' = seen
      /\ "background" \in pub'[t] <=> "background" \in pub[t]
  BY <1>i, <1>m DEF Types, Start, Goto, localVars
<1>2. t \notin Counted /\ Counted' = Counted \cup {t}
  BY <1>i, <1>m, <1>1 DEF Counted
<1>3. \A r \in Counted : r # t /\ (Background(r)' <=> Background(r))
  BY <1>m, <1>1, <1>2 DEF Counted, Background
<1>4. Background(t)' <=> "background" \in pub[t]
  BY <1>1 DEF Background
<1>5. CASE "background" \in pub[t]
  <2>1. InBackground' = InBackground \cup {t}
    BY <1>2, <1>3, <1>4, <1>5 DEF InBackground
  <2>2. AdjustCount(1, 1) /\ 1 \in {0, 1}
    BY <1>5 DEF Start
  <2> QED BY <1>2, <2>1, <2>2, CountIn
<1>6. CASE "background" \notin pub[t]
  <2>1. InBackground' = InBackground
    BY <1>2, <1>3, <1>4, <1>6 DEF InBackground
  <2>2. AdjustCount(1, 0) /\ 0 \in {0, 1} /\ 0 # 1
    BY <1>6 DEF Start
  <2> QED BY <1>2, <2>1, <2>2, CountIn
<1> QED BY <1>5, <1>6

\* It counts itself out with the flag it has read, which is still so.
LEMMA CountCounts ==
    ASSUME LifeInv, CountsExact, NEW t \in Workers, Count(t)
    PROVE  CountsExact'
<1>m. Workers \subseteq Threads /\ t \in Threads
  BY DEF Threads
<1>i. Types /\ pc[t] = "count"
  BY DEF LifeInv, Count
<1>1. /\ \A r \in Threads \ {t} : pc'[r] = pc[r] /\ seen'[r] = seen[r]
      /\ pc'[t] = "wakeAll" /\ pub' = pub
  BY <1>i, <1>m DEF Types, Count, Goto
<1>2. t \in Counted /\ Counted' = Counted \ {t}
  BY <1>i, <1>m, <1>1 DEF Counted
<1>3. \A r \in Counted \ {t} : Background(r)' <=> Background(r)
  BY <1>m, <1>1 DEF Counted, Background
<1>4. InBackground' = InBackground \ {t}
  BY <1>2, <1>3 DEF InBackground
<1>5. t \in InBackground <=> "background" \in seen[t]
  BY <1>i, <1>2 DEF InBackground, Background
<1>6. CASE "background" \in seen[t]
  <2>1. AdjustCount(-1, -1) /\ -1 \in {0, -1}
    BY <1>6 DEF Count
  <2> QED BY <1>2, <1>4, <1>5, <1>6, <2>1, CountOut
<1>7. CASE "background" \notin seen[t]
  <2>1. AdjustCount(-1, 0) /\ 0 \in {0, -1} /\ 0 # -1
    BY <1>7 DEF Count
  <2> QED BY <1>2, <1>4, <1>5, <1>7, <2>1, CountOut
<1> QED BY <1>6, <1>7

\* A thread that sets its own flag is counted; one that is not started is
\* not.
LEMMA SetBackgroundCounts ==
    ASSUME OwnBackground, LifeInv, CountsExact, NEW s \in Threads, NEW t \in Threads,
           NEW flag \in BOOLEAN, SetBackground(s, t, flag)
    PROVE  CountsExact'
<1>m. t \in Workers /\ Workers \subseteq Threads
  BY DEF SetBackground, Threads
<1>i. Types /\ LifeOf(t) /\ pc[s] = "user"
  BY <1>m DEF LifeInv, SetBackground, Calls
<1>1. /\ pc' = pc /\ seen' = seen /\ \A r \in Threads \ {t} : pub'[r] = pub[r]
      /\ "background" \in pub[t] <=> ~flag
      /\ "background" \in pub'[t] <=> flag
  BY <1>i DEF Types, SetBackground
<1>2. Counted' = Counted
  BY <1>1 DEF Counted
<1>3. \A r \in Counted \ {t} : Background(r)' <=> Background(r)
  BY <1>m, <1>1 DEF Counted, Background
<1>4. CASE "unstarted" \in pub[t]
  <2>1. t \notin Counted /\ UNCHANGED <<numThreads, numBackground, event>>
    BY <1>i, <1>4 DEF LifeOf, Counted, SetBackground, countVars
  <2> QED BY <1>2, <1>3, <2>1, CountsStay
<1>5. CASE "unstarted" \notin pub[t]
  <2>1. s = t
    BY <1>5 DEF SetBackground, OwnBackground
  <2>2. t \in Counted /\ "stopped" \notin priv[t]
    BY <1>i, <1>m, <2>1 DEF Counted, LifeOf, Ended
  <2>3. AdjustCount(0, IF flag THEN 1 ELSE -1)
    BY <1>5, <2>2 DEF SetBackground
  <2>4. (Background(t) <=> ~flag) /\ (Background(t)' <=> flag)
    BY <1>i, <1>1, <2>1 DEF Background
  <2>5. /\ Cardinality(InBackground') = Cardinality(InBackground) + (IF flag THEN 1 ELSE -1)
        /\ Cardinality(InBackground) \in Nat
    <3>1. CASE flag
      <4>1. InBackground' = InBackground \cup {t} /\ t \notin InBackground
        BY <1>2, <1>3, <2>2, <2>4, <3>1 DEF InBackground
      <4> QED BY <3>1, <4>1, CountedFinite, FS_AddElement
    <3>2. CASE ~flag
      <4>1. InBackground' = InBackground \ {t} /\ t \in InBackground
        BY <1>2, <1>3, <2>2, <2>4, <3>2 DEF InBackground
      <4>2. Cardinality(InBackground') = Cardinality(InBackground) - 1
        BY <4>1, CountedFinite, FS_RemoveElement
      <4> QED BY <3>2, <4>2, CountedFinite
    <3> QED BY <3>1, <3>2
  <2>6. PICK n \in {1, -1} : n = IF flag THEN 1 ELSE -1
    OBVIOUS
  <2>7. /\ numThreads' = numThreads + 0 /\ numBackground' = numBackground + n
        /\ event' <=> (numThreads + 0 - (numBackground + n) = 1)
    BY <2>3, <2>6 DEF AdjustCount
  <2> QED BY <1>2, <2>5, <2>6, <2>7, CountsAre, CountsWillBe, CountedFinite
<1> QED BY <1>4, <1>5

\* The counts are exact in the beginning.
LEMMA CountsInit == Init => CountsExact
<1> SUFFICES ASSUME Init PROVE CountsExact
  OBVIOUS
<1>1. Counted = {} /\ InBackground = {}
  BY ThreadLifeAssumption DEF Init, Counted, InBackground, Threads
<1>2. Cardinality({}) = 0
  BY FS_EmptySet
<1>3. numThreads = 1 /\ numBackground = 0 /\ event = TRUE
  BY DEF Init
<1> QED BY <1>1, <1>2, <1>3, CountsAre

\* Every step keeps them exact, if a thread sets its own flag only.
LEMMA CountsNext ==
    ASSUME OwnBackground, LifeInv, CountsExact, [Next]_vars
    PROVE  CountsExact'
<1>i. Types
  BY DEF LifeInv
<1>1. ASSUME NEW s \in Threads, Run(s) PROVE CountsExact'
  <2>1. s \in Workers
    BY <1>1, RunsAWorker
  <2> QED BY <1>1, <2>1, PassUncounted, CountCounts DEF Run
<1>2. ASSUME NEW s \in Threads, InCall(s) PROVE CountsExact'
  BY <1>i, <1>2, InCallUncounted, UncountedStep
<1>3. ASSUME NEW s \in Threads, Call(s) PROVE CountsExact'
  <2>1. ASSUME NEW t \in Workers, Create(s, t) \/ Start(s, t) \/ Destroy(s, t) PROVE CountsExact'
    BY <2>1, ObjectUncounted, StartCounts
  <2>2. ASSUME NEW t \in Threads, NEW flag \in BOOLEAN, SetBackground(s, t, flag)
        PROVE  CountsExact'
    BY <2>2, SetBackgroundCounts
  <2>3. ASSUME \/ \E t \in Threads : Interrupt(s, t) \/ Abort(s, t) \/ Join(s, t)
               \/ SelfAborting(s) \/ AbortReset(s) \/ Sleep(s)
        PROVE  CountsExact'
    BY <1>i, <2>3, CallUncounted, UncountedStep
  <2> QED BY <1>3, <2>1, <2>2, <2>3 DEF Call
<1>4. CASE WaitForForeground \/ InForeground
  <2>1. Main \in Threads
    BY DEF Threads
  <2> QED BY <1>4, <2>1, ForegroundUncounted, UncountedStep
<1>5. CASE UNCHANGED vars
  <2>1. UNCHANGED <<pub, numThreads, numBackground, event, pc, seen>>
    BY <1>5 DEF vars, countVars, localVars
  <2> QED BY <2>1 DEF CountsExact, Counted
<1> QED BY <1>1, <1>2, <1>3, <1>4, <1>5 DEF Next

\* The counts of _ILThreadAdjustCount are those of the threads that were
\* started and have not counted themselves out, and the event tells when
\* only the main thread is left, as long as a running thread's background
\* flag is set by itself alone.
THEOREM CountsAreExact == OwnBackground => (Spec => []CountsExact)
<1>1. SUFFICES ASSUME OwnBackground PROVE Spec => []CountsExact
  OBVIOUS
<1>2. CountsExact /\ LifeInv /\ [Next]_vars => CountsExact'
  BY <1>1, CountsNext
<1> QED BY <1>2, CountsInit, LifeInvariance, PTL DEF Spec

\* Every variable keeps its type, the use count stays within the two uses
\* an object can have and a wakeup is not signalled beyond its limit.
THEOREM TypeCorrect == OwnBackground => (Spec => []TypeOK)
<1>1. SUFFICES ASSUME OwnBackground PROVE Spec => []TypeOK
  OBVIOUS
<1>2. LifeInv /\ CountsExact => TypeOK
  <2>1. SUFFICES ASSUME LifeInv, CountsExact PROVE TypeOK
    OBVIOUS
  <2>i. Types /\ (\A t \in Workers : LifeOf(t)) /\ MainOK /\ \A s \in Threads : CallOf(s)
    BY <2>1 DEF LifeInv
  <2>2. numThreads \in Nat /\ numBackground \in Nat
    BY <2>1, CountsAre, CountedFinite
  <2>3. useCount \in [Threads -> 0 .. 2]
    <3>1. ASSUME NEW t \in Threads PROVE useCount[t] \in 0 .. 2
      <4>1. CASE t \in Workers
        BY <2>i, <4>1 DEF LifeOf
      <4>2. CASE t = Main
        BY <2>i, <4>2 DEF MainOK
      <4> QED BY <4>1, <4>2 DEF Threads
    <3> QED BY <2>i, <3>1 DEF Types
  <2>4. ASSUME NEW t \in Threads
        PROVE  /\ wake[t].limit \in 0 .. 1 /\ wake[t].count \in 0 .. wake[t].limit
               /\ wake[t].interrupted \in BOOLEAN /\ wake[t].alive \in BOOLEAN
    BY <2>i DEF Types, WakeupType, CallOf
  <2> QED BY <2>i, <2>2, <2>3, <2>4 DEF Types, TypeOK, Results
<1> QED BY <1>1, <1>2, CountsAreExact, LifeInvariance, PTL

=============================================================================
