----------------------------- MODULE MCCCtorMgr -----------------------------
(* Two classes whose constructors use each other, a third without one.     *)
EXTENDS CCtorMgr, TLC

CONSTANTS t1, t2, t3, t4, A, B, C, ma, mb, ca, cb

MCOwner == ma :> A @@ mb :> B @@ ca :> A @@ cb :> B
MCBody == ma :> <<<<"field", C>>>>
       @@ mb :> <<<<"field", A>>>>
       @@ ca :> <<<<"field", A>>, <<"call", mb>>>>
       @@ cb :> <<<<"call", ma>>>>
MCCCtor == A :> ca @@ B :> cb @@ C :> NoMethod

ThreadSymmetry == Permutations(Threads)
=============================================================================
