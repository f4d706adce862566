------------------------------ MODULE MCYdbOCC ------------------------------
(* YdbOCC for TLC: keys are symmetric. *)
EXTENDS YdbOCC, TLC

Symmetry == Permutations(Keys)
=============================================================================
