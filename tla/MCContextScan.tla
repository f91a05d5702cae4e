--------------------------- MODULE MCContextScan ----------------------------
(* A small instance of ContextScan: three call ids, at most MaxRows rows.    *)
EXTENDS ContextScan, TLC

CallSymmetry == Permutations(CallIds)
=============================================================================
