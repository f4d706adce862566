---------------------------- MODULE MCLockCache ----------------------------
(* LockCache for TLC: symmetric clients and threads. *)
EXTENDS LockCache, TLC

Symmetry == Permutations(Clients) \union Permutations(Threads)
=============================================================================
