---------------------------- MODULE MCThreadLife ----------------------------
(* Instances of ThreadLife.                                                *)
EXTENDS ThreadLife

CONSTANTS main, w1, w2

\* The main thread joins both workers, and one of them the other.
MCCanJoin == {<<main, w1>>, <<main, w2>>, <<w1, w2>>}
=============================================================================
