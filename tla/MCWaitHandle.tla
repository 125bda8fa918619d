---------------------------- MODULE MCWaitHandle ----------------------------
(* Instances of WaitHandle for TLC.                                        *)
EXTENDS WaitHandle, TLC

(* The calls of a run: of one handle, of two mutexes, of a mutex and an    *)
(* event.                                                                  *)
OneCalls == {[kind |-> "one", handles |-> <<h>>] : h \in Handles}
AnyCalls ==
  {[kind |-> "any", handles |-> <<m, n>>] : m \in Mutexes, n \in Mutexes} \
  {[kind |-> "any", handles |-> <<m, m>>] : m \in Mutexes}
AllCalls ==
  {[kind |-> "all", handles |-> <<m, n>>] : m \in Mutexes, n \in Mutexes} \
  {[kind |-> "all", handles |-> <<m, m>>] : m \in Mutexes}
ManyCalls ==
  {[kind |-> k, handles |-> <<m, e>>] : k \in {"any", "all"}, m \in Mutexes, e \in Events}

(* A bound: the table of owned mutexes of at most one thread grows.         *)
OneGrows ==
  \A t, u \in Threads :
    capacity[t] # Capacity /\ capacity[u] # Capacity => t = u

(* Threads are interchangeable, and mutexes that are waited for one by one. *)
Symmetry == Permutations(Threads)
OneSymmetry == Permutations(Threads) \cup Permutations(Mutexes)
=============================================================================
