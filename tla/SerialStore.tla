---------------------------- MODULE SerialStore ----------------------------
(***************************************************************************)
(* What a transactional ydb server promises: transactions that commit      *)
(* behave as if they ran one after the other, each in a single step, in    *)
(* the order of their commits.  YdbOCC and Ydb2PL are shown to implement   *)
(* this specification.                                                     *)
(***************************************************************************)
EXTENDS Sequences, Naturals

CONSTANTS Keys,   \* what is stored, by extent id
          Empty,  \* the value of a key nobody has written
          Absent  \* stands for "the transaction did not touch this key"

VARIABLES store,   \* the committed value of every key
          history  \* the committed transactions: what each read and wrote

svars == <<store, history>>

SInit == store = [k \in Keys |-> Empty] /\ history = << >>

\* Transaction e runs: what it read is what is stored, and its writes replace it.
Run(e) ==
  /\ \A k \in Keys : e.reads[k] \in {Absent, store[k]}
  /\ store' = [k \in Keys |-> IF e.writes[k] = Absent THEN store[k] ELSE e.writes[k]]
  /\ history' = Append(history, e)

SNext == Len(history') = Len(history) + 1 /\ Run(history'[Len(history')])

SSpec == SInit /\ [][SNext]_svars
=============================================================================
