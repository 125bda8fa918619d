----------------------------- MODULE MonitorAbs -----------------------------
(***************************************************************************)
(* What a monitor promises to the threads that use it, whatever it is made *)
(* of: at most one owner, and a thread that waits gives the ownership up   *)
(* and comes back only as the owner.  The platform monitor (PtMonitor) and *)
(* the monitors attached to objects (ILMonitor) are shown to implement it. *)
(***************************************************************************)
CONSTANTS Threads, NoThread

VARIABLES owner,    \* the thread inside the monitor, or NoThread
          waitSet   \* threads inside Wait that do not own the monitor

Init ==
  /\ owner \in Threads \cup {NoThread}
  /\ waitSet = {}

Acquire(t) ==
  /\ owner = NoThread
  /\ t \notin waitSet
  /\ owner' = t
  /\ UNCHANGED waitSet

Release(t) ==
  /\ owner = t
  /\ owner' = NoThread
  /\ UNCHANGED waitSet

Wait(t) ==
  /\ owner = t
  /\ owner' = NoThread
  /\ waitSet' = waitSet \cup {t}

Reacquire(t) ==
  /\ owner = NoThread
  /\ t \in waitSet
  /\ owner' = t
  /\ waitSet' = waitSet \ {t}

Next == \E t \in Threads : Acquire(t) \/ Release(t) \/ Wait(t) \/ Reacquire(t)

Spec == Init /\ [][Next]_<<owner, waitSet>>
=============================================================================
