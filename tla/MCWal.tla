------------------------------- MODULE MCWal -------------------------------
(* Wal for TLC. *)
EXTENDS Wal, TLC

Symmetry == Permutations(Accounts) \cup Permutations(Values)
=============================================================================
