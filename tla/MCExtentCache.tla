---------------------------- MODULE MCExtentCache ----------------------------
(* ExtentCache for TLC. *)
EXTENDS ExtentCache, TLC

Symmetry == Permutations(Clients)

\* Nothing is promised after a lookup has overlapped a put: TLC stops there.
Unmixed == ~mixed
=============================================================================
