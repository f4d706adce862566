---------------------------- MODULE YdbOCCProof ----------------------------
(***************************************************************************)
(* YdbOCC implements SerialStore, for every set of keys, every set of      *)
(* values and any number of transactions.                                  *)
(***************************************************************************)
EXTENDS YdbOCC, TLAPS

\* A key that a transaction read or wrote has an entry in its map, which is
\* where Conflicts looks.
EntriesKept ==
  \A id \in Txns, k \in Keys :
    reads[id][k] # Absent \/ k \in write_set[id] => value[id][k] # Absent

\* A transaction that has not begun has read nothing.
FreshTxns ==
  \A id \in Txns \ live, k \in Keys : reads[id][k] = Absent

Inv == TypeOK /\ EntriesKept /\ FreshTxns /\ ValidReadsCurrent

LEMMA InitInv == Init => Inv
BY ValueAssumption, BoundAssumption DEF Init, Inv, TypeOK, EntriesKept, FreshTxns,
   ValidReadsCurrent, NoEntries, Entries

LEMMA BeginInv ==
  ASSUME Inv, Begin
  PROVE  Inv'
<1>1. TypeOK'
  BY BoundAssumption DEF Inv, TypeOK, Txns, Begin
<1>2. EntriesKept'
  BY DEF Inv, EntriesKept, Begin
<1>3. FreshTxns'
  BY DEF Inv, FreshTxns, Begin
<1>4. ValidReadsCurrent'
  BY BoundAssumption DEF Inv, TypeOK, ValidReadsCurrent, FreshTxns, Txns, Begin
<1>5. QED BY <1>1, <1>2, <1>3, <1>4 DEF Inv

LEMMA GetInv ==
  ASSUME NEW id \in Txns, NEW k \in Keys, Inv, Get(id, k)
  PROVE  Inv'
<1>1. TypeOK'
  BY DEF Inv, TypeOK, Entries, Get
<1>2. EntriesKept'
  BY DEF Inv, TypeOK, EntriesKept, Entries, Get
<1>3. FreshTxns'
  BY DEF Inv, FreshTxns, Get
<1>4. ValidReadsCurrent'
  BY DEF Inv, ValidReadsCurrent, Get
<1>5. QED BY <1>1, <1>2, <1>3, <1>4 DEF Inv

LEMMA SetInv ==
  ASSUME NEW id \in Txns, NEW k \in Keys, NEW v \in Values, Inv, Set(id, k, v)
  PROVE  Inv'
<1>1. TypeOK'
  BY DEF Inv, TypeOK, Entries, Set
<1>2. EntriesKept'
  BY ValueAssumption DEF Inv, TypeOK, EntriesKept, Entries, Set
<1>3. FreshTxns'
  BY DEF Inv, FreshTxns, Set
<1>4. ValidReadsCurrent'
  BY DEF Inv, ValidReadsCurrent, Set
<1>5. QED BY <1>1, <1>2, <1>3, <1>4 DEF Inv

LEMMA CommitInv ==
  ASSUME NEW id \in Txns, Inv, Commit(id)
  PROVE  Inv'
<1>1. TypeOK'
  <2>1. Writes(id) \in Entries /\ reads[id] \in Entries
    BY DEF Inv, TypeOK, Entries, Writes
  <2>2. history' \in Seq([reads : Entries, writes : Entries])
    BY <2>1 DEF Inv, TypeOK, Commit, MayCommit
  <2>3. value' \in [Txns -> Entries] /\ reads' \in [Txns -> Entries]
    BY DEF Inv, TypeOK, Commit, MayCommit, Erase, NoEntries, Entries
  <2>4. extent' \in [Keys -> Values]
    BY DEF Inv, TypeOK, EntriesKept, Commit, MayCommit, Entries
  <2>5. QED BY <2>2, <2>3, <2>4 DEF Inv, TypeOK, Commit, MayCommit, Erase
<1>2. EntriesKept'
  BY DEF Inv, TypeOK, EntriesKept, Commit, MayCommit, Erase
<1>3. FreshTxns'
  BY DEF Inv, TypeOK, FreshTxns, Commit, MayCommit, Erase, NoEntries
<1>4. ValidReadsCurrent'
  BY BoundAssumption DEF Inv, TypeOK, ValidReadsCurrent, EntriesKept, Txns, Commit,
     MayCommit, Erase, Conflicts
<1>5. QED BY <1>1, <1>2, <1>3, <1>4 DEF Inv

LEMMA DiscardInv ==
  ASSUME NEW id \in Txns, id \in live, Inv, Discard(id)
  PROVE  Inv'
<1>1. TypeOK'
  BY DEF Inv, TypeOK, Entries, Discard, Erase, NoEntries
<1>2. EntriesKept'
  BY DEF Inv, TypeOK, EntriesKept, Discard, Erase
<1>3. FreshTxns'
  BY DEF Inv, TypeOK, FreshTxns, Discard, Erase, NoEntries
<1>4. ValidReadsCurrent'
  BY DEF Inv, ValidReadsCurrent, Discard, Erase
<1>5. QED BY <1>1, <1>2, <1>3, <1>4 DEF Inv

LEMMA InvStep == Inv /\ [Next]_vars => Inv'
<1> SUFFICES ASSUME Inv, [Next]_vars PROVE Inv'
  OBVIOUS
<1>1. CASE Begin
  BY <1>1, BeginInv
<1>2. CASE \E id \in Txns, k \in Keys : Get(id, k)
  BY <1>2, GetInv
<1>3. CASE \E id \in Txns, k \in Keys, v \in Values : Set(id, k, v)
  BY <1>3, SetInv
<1>4. CASE \E id \in Txns : Commit(id)
  BY <1>4, CommitInv
<1>5. CASE \E id \in Txns : CommitFails(id) \/ Abort(id)
  BY <1>5, DiscardInv DEF CommitFails, Abort
<1>6. CASE UNCHANGED vars
  BY <1>6 DEF vars, Inv, TypeOK, EntriesKept, FreshTxns, ValidReadsCurrent
<1>7. QED BY <1>1, <1>2, <1>3, <1>4, <1>5, <1>6 DEF Next

\* The maps of the server keep their types.
THEOREM TypeCorrect == Spec => []TypeOK
<1>1. Spec => []Inv
  BY InitInv, InvStep, PTL DEF Spec
<1>2. QED BY <1>1, PTL DEF Inv

\* A valid transaction has read what is still committed, whatever the others
\* did meanwhile: invalidation at commit misses no conflict.
THEOREM ValidReads == Spec => []ValidReadsCurrent
<1>1. Spec => []Inv
  BY InitInv, InvStep, PTL DEF Spec
<1>2. QED BY <1>1, PTL DEF Inv

-----------------------------------------------------------------------------
(* Only conflicts doom *)

\* The commits after a transaction began are there to be looked at, and an id that
\* is not in use is not doomed.
Begun == \A id \in Txns : begun[id] <= Len(history) /\ (id \notin live => valid[id])

LEMMA DoomedStep ==
  Inv /\ Begun /\ DoomedByConflict /\ [Next]_vars => (Begun /\ DoomedByConflict)'
<1> SUFFICES ASSUME Inv, Begun, DoomedByConflict, [Next]_vars
             PROVE  Begun' /\ DoomedByConflict'
  OBVIOUS
<1>1. /\ Len(history) \in Nat /\ begun \in [Txns -> Nat] /\ valid \in [Txns -> BOOLEAN]
      /\ value \in [Txns -> Entries] /\ live \subseteq Txns
  BY BoundAssumption DEF Inv, TypeOK, Txns
<1>2. CASE Begin
  <2>1. /\ UNCHANGED <<valid, value, history>> /\ live' = live \union {transid_cnt}
        /\ begun' = [begun EXCEPT ![transid_cnt] = Len(history)]
        /\ transid_cnt \in Txns \ live
    BY <1>2, BoundAssumption DEF Begin, Inv, TypeOK, Txns
  <2>2. Begun'
    BY <1>1, <2>1 DEF Begun
  <2>3. valid[transid_cnt]
    BY <2>1 DEF Begun
  <2>4. QED BY <1>1, <2>1, <2>2, <2>3 DEF DoomedByConflict
<1>3. ASSUME NEW id \in Txns, NEW k \in Keys, NEW v \in Values,
             value' = [value EXCEPT ![id][k] = v],
             UNCHANGED <<live, valid, begun, history>>
      PROVE  Begun' /\ DoomedByConflict'
  <2>1. \A j \in Txns, x \in Keys : value[j][x] # Absent => value'[j][x] # Absent
    BY <1>1, <1>3, ValueAssumption DEF Entries
  <2>2. QED BY <1>1, <1>3, <2>1 DEF Begun, DoomedByConflict
<1>4. CASE \E id \in Txns, k \in Keys : Get(id, k)
  <2>1. \A k \in Keys : extent[k] \in Values
    BY DEF Inv, TypeOK
  <2>2. QED BY <1>3, <1>4, <2>1 DEF Get
<1>5. CASE \E id \in Txns, k \in Keys, v \in Values : Set(id, k, v)
  BY <1>3, <1>5 DEF Set
<1>6. ASSUME NEW id \in Txns, Commit(id) PROVE Begun' /\ DoomedByConflict'
  <2>1. /\ id \in live /\ live' = live \ {id} /\ valid[id]
        /\ \A j \in Txns : j # id => value'[j] = value[j] /\ begun'[j] = begun[j]
        /\ begun'[id] = 0
        /\ \A j \in Txns : valid'[j] = IF j \in Conflicts(id) THEN FALSE ELSE valid[j]
    BY <1>1, <1>6 DEF Commit, MayCommit, Erase
  <2>2. /\ Len(history') = Len(history) + 1
        /\ \A i \in 1..Len(history) : history'[i] = history[i]
        /\ history'[Len(history)+1].writes = Writes(id)
    BY <1>6 DEF Commit, Inv, TypeOK
  <2>3. id \notin Conflicts(id)
    BY DEF Conflicts
  <2>4. Begun'
    <3>1. SUFFICES ASSUME NEW j \in Txns
                   PROVE  begun'[j] <= Len(history') /\ (j \notin live' => valid'[j])
      BY DEF Begun
    <3>2. begun'[j] <= Len(history')
      <4>1. begun[j] \in Nat /\ begun[j] <= Len(history)
        BY <1>1, <3>1 DEF Begun
      <4>2. begun'[j] = 0 \/ begun'[j] = begun[j]
        BY <2>1
      <4>3. QED BY <1>1, <2>2, <4>1, <4>2
    <3>3. j \notin live' => valid'[j]
      <4>1. j \notin live' => j \notin Conflicts(id)
        BY <2>1, <2>3 DEF Conflicts
      <4>2. j \notin live' => valid[j]
        BY <2>1 DEF Begun
      <4>3. QED BY <2>1, <4>1, <4>2
    <3>4. QED BY <3>2, <3>3
  <2>5. ASSUME NEW j \in live', ~valid'[j]
        PROVE  \E i \in begun'[j]+1 .. Len(history'), k \in Keys :
                 history'[i].writes[k] # Absent /\ value'[j][k] # Absent
    <3>1. j \in live /\ j # id /\ j \in Txns /\ begun[j] \in Nat /\ begun[j] <= Len(history)
      BY <1>1, <2>1, <2>5 DEF Begun
    <3>2. CASE j \in Conflicts(id)
      <4>1. PICK k \in Keys : k \in write_set[id] /\ value[j][k] # Absent
        BY <1>6, <3>2 DEF Conflicts, Commit, MayCommit, Inv, TypeOK
      <4>2. Writes(id)[k] # Absent
        BY <4>1 DEF Writes, Inv, EntriesKept
      <4>3. Len(history)+1 \in begun'[j]+1 .. Len(history')
        BY <1>1, <2>1, <2>2, <3>1
      <4>4. QED BY <2>1, <2>2, <3>1, <4>1, <4>2, <4>3
    <3>3. CASE j \notin Conflicts(id)
      <4>1. PICK i \in begun[j]+1 .. Len(history), k \in Keys :
              history[i].writes[k] # Absent /\ value[j][k] # Absent
        BY <2>1, <2>5, <3>1, <3>3 DEF DoomedByConflict
      <4>2. i \in 1..Len(history) /\ i \in begun'[j]+1 .. Len(history')
        BY <1>1, <2>1, <2>2, <3>1, <4>1
      <4>3. QED BY <2>1, <2>2, <3>1, <4>1, <4>2
    <3>4. QED BY <3>2, <3>3
  <2>6. QED BY <2>4, <2>5 DEF DoomedByConflict
<1>7. ASSUME NEW id \in Txns, id \in live, Discard(id) PROVE Begun' /\ DoomedByConflict'
  <2>1. /\ live' = live \ {id} /\ UNCHANGED history
        /\ \A j \in Txns : j # id =>
             value'[j] = value[j] /\ begun'[j] = begun[j] /\ valid'[j] = valid[j]
        /\ begun'[id] = 0 /\ valid'[id]
    BY <1>1, <1>7 DEF Discard, Erase
  <2>2. Begun'
    BY <1>1, <2>1 DEF Begun
  <2>3. QED BY <1>1, <2>1, <2>2 DEF DoomedByConflict
<1>8. CASE UNCHANGED vars
  BY <1>8 DEF vars, Begun, DoomedByConflict
<1>9. QED BY <1>2, <1>4, <1>5, <1>6, <1>7, <1>8 DEF Next, CommitFails, Abort

\* transaction_commit() dooms nobody without a conflict: a doomed transaction has
\* an entry for a key that was written by a transaction that committed after it
\* began.
THEOREM OnlyConflictsDoom == Spec => []DoomedByConflict
<1>1. Init => Begun /\ DoomedByConflict
  BY DEF Init, Begun, DoomedByConflict
<1>2. Spec => []Inv
  BY InitInv, InvStep, PTL DEF Spec
<1>3. QED BY <1>1, <1>2, DoomedStep, PTL DEF Spec

-----------------------------------------------------------------------------
(* Refinement *)

\* A commit runs the transaction on the serial store, in one step.
LEMMA CommitRuns ==
  ASSUME NEW id \in Txns, Inv, Commit(id)
  PROVE  Store!SNext
<1> DEFINE e == [reads |-> reads[id], writes |-> Writes(id)]
<1>1. history' = Append(history, e) /\ Len(history') = Len(history) + 1
      /\ history'[Len(history')] = e
  BY DEF Commit, MayCommit
<1>2. \A k \in Keys : e.reads[k] \in {Absent, extent[k]}
  BY DEF Inv, ValidReadsCurrent, Commit, MayCommit
<1>3. extent' = [k \in Keys |-> IF e.writes[k] = Absent THEN extent[k] ELSE e.writes[k]]
  <2>1. \A k \in Keys : k \in write_set[id] => value[id][k] # Absent
    BY DEF Inv, EntriesKept
  <2>2. extent' = [k \in Keys |-> IF k \in write_set[id] THEN value[id][k] ELSE extent[k]]
    BY DEF Commit, MayCommit
  <2>3. QED BY <2>1, <2>2 DEF Writes
<1>4. QED BY <1>1, <1>2, <1>3 DEF Store!SNext, Store!Run

LEMMA StepRefines == Inv /\ [Next]_vars => [Store!SNext]_(Store!svars)
<1> SUFFICES ASSUME Inv, [Next]_vars PROVE [Store!SNext]_(Store!svars)
  OBVIOUS
<1>1. CASE \E id \in Txns : Commit(id)
  BY <1>1, CommitRuns
<1>2. CASE ~ \E id \in Txns : Commit(id)
  BY <1>2 DEF Next, Begin, Get, Set, CommitFails, Abort, Discard, vars, Store!svars
<1>3. QED BY <1>1, <1>2

\* ydb_server_occ is serializable: what its transactions read and what they leave
\* in the extent server is what a serial execution in commit order gives.
THEOREM Serializable == Spec => SerialSpec
<1>1. Spec => []Inv
  BY InitInv, InvStep, PTL DEF Spec
<1>2. Init => Store!SInit
  BY DEF Init, Store!SInit
<1>3. QED BY <1>1, <1>2, StepRefines, PTL DEF Spec, SerialSpec, Store!SSpec
=============================================================================
