------------------------------ MODULE MCYdb2PL ------------------------------
(* Ydb2PL for TLC. *)
EXTENDS Ydb2PL, TLC

Symmetry == Permutations(Keys)

\* The handlers never look at the history, and SerialSpec only at what a step
\* adds to it.
WithoutHistory == <<extent, locked, trans_id_cnt, live, value, write_set, graph, calls,
                    reads>>
=============================================================================
