------------------------------- MODULE YdbOCC -------------------------------
(***************************************************************************)
(* The optimistic ydb server, ydb_server_occ.  Every handler holds         *)
(* ks_mutex from its first to its last line, calls to the extent server    *)
(* included, so a handler is one action; what interleaves are the handlers *)
(* of different transactions.  A handler called with an unknown            *)
(* transaction id answers TRANSIDINV and changes nothing.                  *)
(*                                                                         *)
(* A key stands for the extent id that SDBMHash makes of a name.           *)
(***************************************************************************)
EXTENDS Integers, Sequences

CONSTANTS Keys,    \* extent ids
          Values,  \* what set() may store
          Empty,   \* the content of a fresh extent, and what del() stores
          Absent,  \* no entry in a map
          MaxTxns  \* bound: transactions begun

ASSUME ValueAssumption == Empty \in Values /\ Absent \notin Values
ASSUME BoundAssumption == MaxTxns \in Nat

Txns == 0 .. MaxTxns-1

VARIABLES
  extent,       \* the extent server: the content of every key
  transid_cnt,  \* the next transaction id
  live,         \* the ids that kv_store holds
  value,        \* kv_store[id]->value
  write_set,    \* kv_store[id]->write_set
  valid,        \* kv_store[id]->valid
  reads,        \* history: what each transaction was told by the extent server
  begun,        \* history: how many transactions had committed when it began
  history       \* history: the committed transactions in commit order

vars == <<extent, transid_cnt, live, value, write_set, valid, reads, begun, history>>

NoEntries == [k \in Keys |-> Absent]

Init ==
  /\ extent = [k \in Keys |-> Empty]
  /\ transid_cnt = 0
  /\ live = {}
  /\ value = [i \in Txns |-> NoEntries]
  /\ write_set = [i \in Txns |-> {}]
  /\ valid = [i \in Txns |-> TRUE]
  /\ reads = [i \in Txns |-> NoEntries]
  /\ begun = [i \in Txns |-> 0]
  /\ history = << >>

-----------------------------------------------------------------------------
\* Faulty variant: the id is not used up.
BeginSameId ==
  /\ transid_cnt < MaxTxns
  /\ live' = live \union {transid_cnt}
  /\ begun' = [begun EXCEPT ![transid_cnt] = Len(history)]
  /\ UNCHANGED <<extent, transid_cnt, value, write_set, valid, reads, history>>

\* transaction_begin()
Begin ==
  /\ transid_cnt < MaxTxns
  /\ transid_cnt' = transid_cnt + 1
  /\ live' = live \union {transid_cnt}
  /\ begun' = [begun EXCEPT ![transid_cnt] = Len(history)]
  /\ UNCHANGED <<extent, value, write_set, valid, reads, history>>

\* get() of a key the transaction has not touched yet: the extent server is
\* asked.  A get() of a key it has touched answers from the map.
Get(id, k) ==
  /\ id \in live /\ value[id][k] = Absent
  /\ value' = [value EXCEPT ![id][k] = extent[k]]
  /\ reads' = [reads EXCEPT ![id][k] = extent[k]]
  /\ UNCHANGED <<extent, transid_cnt, live, write_set, valid, begun, history>>

\* set(), and del() with v = Empty
Set(id, k, v) ==
  /\ id \in live
  /\ value' = [value EXCEPT ![id][k] = v]
  /\ write_set' = [write_set EXCEPT ![id] = @ \union {k}]
  /\ UNCHANGED <<extent, transid_cnt, live, valid, reads, begun, history>>

\* The map of a transaction is deleted.
Erase(id) ==
  /\ live' = live \ {id}
  /\ value' = [value EXCEPT ![id] = NoEntries]
  /\ write_set' = [write_set EXCEPT ![id] = {}]
  /\ reads' = [reads EXCEPT ![id] = NoEntries]
  /\ begun' = [begun EXCEPT ![id] = 0]

\* The writes of a transaction, as a map of its written keys.
Writes(id) == [k \in Keys |-> IF k \in write_set[id] THEN value[id][k] ELSE Absent]

\* Every other transaction with an entry for a key that id writes is doomed.
WriteConflicts(id) == {j \in live \ {id} : write_set[j] \cap write_set[id] # {}}  \* faulty
AllOthers(id) == live \ {id}  \* faulty

Conflicts(id) == {j \in live \ {id} : \E k \in write_set[id] : value[j][k] # Absent}

\* The test transaction_commit() begins with.
MayAlwaysCommit(id) == id \in live  \* faulty variant
MayCommit(id) == id \in live /\ valid[id]

\* transaction_commit() of a transaction that is still valid
Commit(id) ==
  /\ MayCommit(id)
  /\ valid' = [j \in Txns |-> IF j \in Conflicts(id) THEN FALSE ELSE valid[j]]
  /\ extent' = [k \in Keys |-> IF k \in write_set[id] THEN value[id][k] ELSE extent[k]]
  /\ history' = Append(history, [reads |-> reads[id], writes |-> Writes(id)])
  /\ Erase(id)
  /\ UNCHANGED transid_cnt

\* The map of a transaction goes without a trace in the extent server.
Discard(id) ==
  /\ Erase(id)
  /\ valid' = [valid EXCEPT ![id] = TRUE]
  /\ UNCHANGED <<extent, transid_cnt, history>>

\* transaction_commit() of a doomed transaction answers ABORT.
CommitFails(id) == id \in live /\ ~valid[id] /\ Discard(id)

\* transaction_abort()
Abort(id) == id \in live /\ Discard(id)

Next ==
  \/ Begin
  \/ \E id \in Txns, k \in Keys : Get(id, k)
  \/ \E id \in Txns, k \in Keys, v \in Values : Set(id, k, v)
  \/ \E id \in Txns : Commit(id) \/ CommitFails(id) \/ Abort(id)

Spec == Init /\ [][Next]_vars

-----------------------------------------------------------------------------
(* Properties *)

Entries == [Keys -> Values \union {Absent}]

TypeOK ==
  /\ extent \in [Keys -> Values]
  /\ transid_cnt \in 0 .. MaxTxns
  /\ live \subseteq 0 .. transid_cnt-1
  /\ value \in [Txns -> Entries]
  /\ write_set \in [Txns -> SUBSET Keys]
  /\ valid \in [Txns -> BOOLEAN]
  /\ reads \in [Txns -> Entries]
  /\ begun \in [Txns -> Nat]
  /\ history \in Seq([reads : Entries, writes : Entries])

\* Backward validation by invalidation is complete: as long as a transaction is
\* valid, everything it was told is still what the extent server holds
\* (transaction_commit, the loop over kv_store).
ValidReadsCurrent ==
  \A id \in live : valid[id] =>
    \A k \in Keys : reads[id][k] \in {Absent, extent[k]}

\* A transaction is doomed only by a conflict: some transaction that committed
\* after it began wrote a key it has an entry for.
DoomedByConflict ==
  \A id \in live : ~valid[id] =>
    \E i \in begun[id]+1 .. Len(history), k \in Keys :
      history[i].writes[k] # Absent /\ value[id][k] # Absent

Store == INSTANCE SerialStore WITH store <- extent

\* The server is serializable: it implements the serial store.
SerialSpec == Store!SSpec
=============================================================================
