----------------------------- MODULE MCWaitSide -----------------------------
(* One side with four callers: enough for a group of three to be woken while  *)
(* a fourth parks, cancels or leaves in between.                              *)
EXTENDS WaitSide, TLC

Symmetry == Permutations(Callers)
=============================================================================
