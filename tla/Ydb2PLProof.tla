---------------------------- MODULE Ydb2PLProof ----------------------------
(***************************************************************************)
(* Ydb2PL implements SerialStore and never gives a key to two              *)
(* transactions, for every set of keys, of values, any number of           *)
(* transactions and any size of the thread pool.  Whatever CyQuery answers *)
(* plays no part in this.                                                  *)
(*                                                                         *)
(* It aborts a transaction exactly when it would close a deadlock, and so  *)
(* never has one, if the set of keys is finite.  The argument has three    *)
(* parts.  cy_query() is right about every finite graph whose degrees are  *)
(* counted right; its rounds are a recursive function, which is taken      *)
(* apart with the least number principle.  The wait graph is exact, and    *)
(* its degrees are.  A deadlock is a cycle of the graph, and the other way *)
(* around.                                                                 *)
(***************************************************************************)
EXTENDS Ydb2PL, FiniteSetTheorems, TLAPS

\* A key that a transaction read or wrote is one that it holds.
EntriesKept ==
  \A id \in Txns, k \in Keys :
    reads[id][k] # Absent \/ k \in write_set[id] => value[id][k] # Absent

\* A transaction that has not begun, or has ended, owns nothing.
EndedOwnNothing ==
  \A id \in Txns \ live, k \in Keys : value[id][k] = Absent

\* A handler under way acquires a key that its transaction does not hold.
WantsNew ==
  \A id \in Txns, k \in Keys : wants[id] = k => value[id][k] = Absent

\* No key has two owners, and the lock of an owned key is taken.
OneOwner ==
  \A id, o \in Txns, k \in Keys : Owns(id, k) /\ Owns(o, k) => id = o

OwnedLocked ==
  \A id \in Txns, k \in Keys : Owns(id, k) => k \in locked

\* The lock of a key that nobody owns is free.
LockedOwned ==
  \A k \in locked : \E id \in live : Owns(id, k)

\* Nobody but its owner writes what a transaction has read.
ReadsCurrent ==
  \A id \in Txns, k \in Keys : reads[id][k] \in {Absent, extent[k]}

Inv ==
  /\ TypeOK
  /\ EntriesKept
  /\ EndedOwnNothing
  /\ WantsNew
  /\ OneOwner
  /\ OwnedLocked
  /\ LockedOwned
  /\ ReadsCurrent

LEMMA InitInv == Init => Inv
<1> SUFFICES ASSUME Init PROVE Inv
  OBVIOUS
<1> USE ValueAssumption, KeyAssumption, BoundAssumption DEF Init
<1>1. TypeOK
  BY SMTT(30) DEF TypeOK, NoEntries, Txns, Nodes, Waiting
<1>2. EntriesKept /\ EndedOwnNothing /\ WantsNew /\ ReadsCurrent
  BY DEF EntriesKept, EndedOwnNothing, WantsNew, ReadsCurrent, NoEntries
<1>3. OneOwner /\ OwnedLocked /\ LockedOwned
  BY DEF OneOwner, OwnedLocked, LockedOwned, Owns, NoEntries
<1>4. QED BY <1>1, <1>2, <1>3 DEF Inv

LEMMA BeginInv ==
  ASSUME Inv, Begin
  PROVE  Inv'
<1>1. TypeOK'
  BY BoundAssumption DEF Inv, TypeOK, Waiting, graph, calls, Begin
<1>2. EntriesKept'
  BY DEF Inv, EntriesKept, Begin
<1>3. EndedOwnNothing'
  BY DEF Inv, EndedOwnNothing, Begin
<1>4. WantsNew'
  BY DEF Inv, WantsNew, calls, Begin
<1>5. OneOwner'
  BY DEF Inv, OneOwner, Owns, calls, Begin
<1>6. OwnedLocked'
  BY DEF Inv, OwnedLocked, Owns, calls, Begin
<1>7. LockedOwned'
  BY DEF Inv, LockedOwned, Owns, calls, Begin
<1>8. ReadsCurrent'
  BY DEF Inv, ReadsCurrent, Begin
<1>9. QED BY <1>1, <1>2, <1>3, <1>4, <1>5, <1>6, <1>7, <1>8 DEF Inv

LEMMA WaitInv ==
  ASSUME NEW id \in Txns, NEW k \in Keys, NEW v \in Values \union {Absent}, Inv,
         id \in live \ Waiting, value[id][k] = Absent,
         wait_graph' = wait_graph \union {<<id, k>>},
         degree' = [degree EXCEPT ![k] = @ + 1],
         wants' = [wants EXCEPT ![id] = k],
         storing' = [storing EXCEPT ![id] = v],
         UNCHANGED <<extent, locked, trans_id_cnt, live, value, write_set,
                     granted, reads, history>>
  PROVE  Inv'
<1>1. TypeOK'
  BY DEF Inv, TypeOK, Waiting, Nodes
<1>2. EntriesKept'
  BY DEF Inv, EntriesKept
<1>3. EndedOwnNothing'
  BY DEF Inv, EndedOwnNothing
<1>4. WantsNew'
  BY DEF Inv, WantsNew
<1>5. OneOwner'
  BY DEF Inv, TypeOK, OneOwner, Owns
<1>6. OwnedLocked'
  BY DEF Inv, TypeOK, OwnedLocked, Owns
<1>7. LockedOwned'
  BY DEF Inv, TypeOK, LockedOwned, Owns, Txns
<1>8. ReadsCurrent'
  BY DEF Inv, ReadsCurrent
<1>9. QED BY <1>1, <1>2, <1>3, <1>4, <1>5, <1>6, <1>7, <1>8 DEF Inv

LEMMA LockGrantedInv ==
  ASSUME NEW id \in Txns, Inv, LockGranted(id)
  PROVE  Inv'
<1>1. TypeOK'
  <2>1. id \in live \cap Waiting /\ wants[id] \in Keys
    BY DEF Inv, TypeOK, LockGranted, Waiting
  <2>2. locked' \subseteq Keys /\ granted' \subseteq live \cap Waiting
    BY <2>1 DEF Inv, TypeOK, LockGranted
  <2>3. Waiting' = Waiting
    BY DEF LockGranted, Waiting
  <2>4. QED BY <2>2, <2>3 DEF Inv, TypeOK, LockGranted, graph
<1>2. EntriesKept'
  BY DEF Inv, EntriesKept, LockGranted
<1>3. EndedOwnNothing'
  BY DEF Inv, EndedOwnNothing, LockGranted
<1>4. WantsNew'
  BY DEF Inv, WantsNew, LockGranted
<1>5. OneOwner'
  BY DEF Inv, OneOwner, OwnedLocked, Owns, LockGranted, LockFree
<1>6. OwnedLocked'
  BY DEF Inv, OwnedLocked, Owns, LockGranted
<1>7. LockedOwned'
  BY DEF Inv, TypeOK, LockedOwned, Owns, LockGranted
<1>8. ReadsCurrent'
  BY DEF Inv, ReadsCurrent, LockGranted
<1>9. QED BY <1>1, <1>2, <1>3, <1>4, <1>5, <1>6, <1>7, <1>8 DEF Inv

LEMMA FinishInv ==
  ASSUME NEW id \in Txns, Inv, Finish(id)
  PROVE  Inv'
<1>1. TypeOK'
  <2>1. id \in live /\ wants[id] \in Keys /\ id \in Waiting
    BY DEF Inv, TypeOK, Finish, Waiting
  <2> DEFINE k == wants[id]
             v == IF storing[id] = Absent THEN extent[k] ELSE storing[id]
  <2>2. v \in Values
    BY <2>1 DEF Inv, TypeOK
  <2>3. value' \in [Txns -> Entries] /\ reads' \in [Txns -> Entries]
    <3>1. value' = [value EXCEPT ![id][k] = v]
          /\ (reads' = [reads EXCEPT ![id][k] = v] \/ reads' = reads)
      BY DEF Finish
    <3> HIDE DEF v
    <3>2. QED BY SMTT(30), <2>1, <2>2, <3>1 DEF Inv, TypeOK, Entries
  <2>4. write_set' \in [Txns -> SUBSET Keys]
    BY <2>1 DEF Inv, TypeOK, Finish, Turned
  <2>5. wait_graph' \subseteq Nodes \X Nodes /\ degree' \in [Nodes -> Int]
    BY <2>1 DEF Inv, TypeOK, Finish, Turned, Nodes
  <2>6. /\ wants' \in [Txns -> Keys \union {Absent}]
        /\ storing' \in [Txns -> Values \union {Absent}]
        /\ Waiting' = Waiting \ {id}
    BY DEF Inv, TypeOK, Finish, Waiting
  <2>7. granted' \subseteq live' \cap Waiting' /\ Waiting' \subseteq live'
    BY <2>6 DEF Inv, TypeOK, Finish
  <2>8. QED BY <2>3, <2>4, <2>5, <2>6, <2>7 DEF Inv, TypeOK, Finish
<1>2. EntriesKept'
  BY ValueAssumption DEF Inv, TypeOK, EntriesKept, Entries, Finish
<1>3. EndedOwnNothing'
  BY DEF Inv, TypeOK, EndedOwnNothing, Finish
<1>4. WantsNew'
  BY KeyAssumption DEF Inv, TypeOK, WantsNew, Finish
<1>5. OneOwner'
  BY DEF Inv, OneOwner, Owns, Finish
<1>6. OwnedLocked'
  BY DEF Inv, OwnedLocked, Owns, Finish
<1>7. LockedOwned'
  BY ValueAssumption DEF Inv, TypeOK, LockedOwned, EndedOwnNothing, Owns, Waiting,
     Entries, Finish
<1>8. ReadsCurrent'
  <2>1. id \in live /\ wants[id] \in Keys
    BY DEF Inv, TypeOK, Finish, Waiting
  <2>2. CASE storing[id] = Absent
    <3>1. reads' = [reads EXCEPT ![id][wants[id]] = extent[wants[id]]] /\ extent' = extent
      BY <2>2 DEF Finish
    <3>2. QED BY <3>1 DEF Inv, ReadsCurrent
  <2>3. CASE storing[id] # Absent
    BY <2>3 DEF Inv, Finish, ReadsCurrent
  <2>4. QED BY <2>2, <2>3
<1>9. QED BY <1>1, <1>2, <1>3, <1>4, <1>5, <1>6, <1>7, <1>8 DEF Inv

LEMMA SetHeldInv ==
  ASSUME NEW id \in Txns, NEW k \in Keys, NEW v \in Values, Inv, SetHeld(id, k, v)
  PROVE  Inv'
<1>1. TypeOK'
  BY DEF Inv, TypeOK, Waiting, Entries, graph, calls, SetHeld
<1>2. EntriesKept'
  BY ValueAssumption DEF Inv, EntriesKept, SetHeld
<1>3. EndedOwnNothing'
  BY DEF Inv, EndedOwnNothing, SetHeld
<1>4. WantsNew'
  BY DEF Inv, WantsNew, calls, SetHeld
<1>5. OneOwner'
  BY DEF Inv, OneOwner, Owns, calls, SetHeld
<1>6. OwnedLocked'
  BY DEF Inv, OwnedLocked, Owns, calls, SetHeld
<1>7. LockedOwned'
  BY ValueAssumption DEF Inv, LockedOwned, Owns, Entries, graph, calls, SetHeld, Called
<1>8. ReadsCurrent'
  BY DEF Inv, ReadsCurrent, SetHeld
<1>9. QED BY <1>1, <1>2, <1>3, <1>4, <1>5, <1>6, <1>7, <1>8 DEF Inv

LEMMA EndTxnInv ==
  ASSUME NEW id \in Txns, NEW g \in SUBSET (Nodes \X Nodes), NEW deg \in [Nodes -> Int],
         Inv, id \in live \ Waiting, EndTxn(id, g, deg),
         extent' \in [Keys -> Values],
         \A k \in Keys : value[id][k] = Absent => extent'[k] = extent[k],
         history' \in Seq([reads : Entries, writes : Entries])
  PROVE  Inv'
<1>1. TypeOK'
  BY DEF Inv, TypeOK, Waiting, Txns, Entries, calls, EndTxn, DeleteNode, NoEntries
<1>2. EntriesKept'
  BY DEF Inv, TypeOK, EntriesKept, EndTxn
<1>3. EndedOwnNothing'
  BY DEF Inv, TypeOK, EndedOwnNothing, EndTxn, NoEntries
<1>4. WantsNew'
  BY DEF Inv, WantsNew, calls, EndTxn, NoEntries
<1>5. OneOwner'
  BY DEF Inv, OneOwner, Owns, calls, EndTxn, NoEntries
<1>6. OwnedLocked'
  BY DEF Inv, TypeOK, OwnedLocked, OneOwner, Owns, calls, EndTxn, Held, NoEntries
<1>7. LockedOwned'
  BY DEF Inv, TypeOK, LockedOwned, Owns, Nodes, calls, EndTxn, Held
<1>8. ReadsCurrent'
  <2> SUFFICES ASSUME NEW o \in Txns, NEW k \in Keys
               PROVE  reads'[o][k] \in {Absent, extent'[k]}
    BY DEF ReadsCurrent
  <2>1. CASE o = id
    BY <2>1 DEF Inv, TypeOK, EndTxn, NoEntries
  <2>2. CASE o # id
    <3>1. reads'[o][k] = reads[o][k]
      BY <2>2 DEF EndTxn
    <3>2. reads[o][k] # Absent => value[id][k] = Absent
      BY <2>2 DEF Inv, EntriesKept, OneOwner, Owns
    <3>3. QED BY <3>1, <3>2 DEF Inv, ReadsCurrent
  <2>3. QED BY <2>1, <2>2
<1>9. QED BY <1>1, <1>2, <1>3, <1>4, <1>5, <1>6, <1>7, <1>8 DEF Inv

LEMMA RequestInv ==
  ASSUME NEW id \in Txns, NEW k \in Keys, Inv, Request(id, k)
  PROVE  Inv'
<1> DEFINE g == wait_graph \union {<<id, k>>}
           deg == [degree EXCEPT ![k] = @ + 1]
<1>1. CASE EndTxn(id, g, deg)
  <2>1. g \in SUBSET (Nodes \X Nodes) /\ deg \in [Nodes -> Int]
    BY DEF Inv, TypeOK, Nodes
  <2>2. id \in live \ Waiting /\ UNCHANGED <<extent, history>>
    BY DEF Request, Called
  <2>3. extent' \in [Keys -> Values] /\ history' \in Seq([reads : Entries, writes : Entries])
    BY <2>2 DEF Inv, TypeOK
  <2> HIDE DEF g, deg
  <2>4. QED BY <1>1, <2>1, <2>2, <2>3, EndTxnInv
<1>2. CASE ~EndTxn(id, g, deg)
  BY <1>2, WaitInv DEF Request, Called
<1>3. QED BY <1>1, <1>2

LEMMA CommitInv ==
  ASSUME NEW id \in Txns, Inv, Commit(id)
  PROVE  Inv'
<1>1. Writes(id) \in Entries /\ reads[id] \in Entries
  BY DEF Inv, TypeOK, Entries, Writes
<1>2. history' \in Seq([reads : Entries, writes : Entries])
  BY <1>1 DEF Inv, TypeOK, Commit
<1>3. extent' \in [Keys -> Values]
  BY DEF Inv, TypeOK, EntriesKept, Entries, Commit
<1>4. \A k \in Keys : value[id][k] = Absent => extent'[k] = extent[k]
  BY DEF Inv, EntriesKept, Commit
<1>5. wait_graph \in SUBSET (Nodes \X Nodes) /\ degree \in [Nodes -> Int]
  BY DEF Inv, TypeOK
<1>6. QED BY <1>2, <1>3, <1>4, <1>5, EndTxnInv DEF Commit, Called

LEMMA AbortInv ==
  ASSUME NEW id \in Txns, Inv, Abort(id)
  PROVE  Inv'
<1>1. extent' \in [Keys -> Values] /\ history' \in Seq([reads : Entries, writes : Entries])
  BY DEF Inv, TypeOK, Abort
<1>2. wait_graph \in SUBSET (Nodes \X Nodes) /\ degree \in [Nodes -> Int]
  BY DEF Inv, TypeOK
<1>3. QED BY <1>1, <1>2, EndTxnInv DEF Abort, Called

LEMMA InvStep == Inv /\ [Next]_vars => Inv'
<1> SUFFICES ASSUME Inv, [Next]_vars PROVE Inv'
  OBVIOUS
<1>1. CASE Begin
  BY <1>1, BeginInv
<1>2. CASE \E id \in Txns, k \in Keys : Request(id, k)
  BY <1>2, RequestInv
<1>3. CASE \E id \in Txns : LockGranted(id) \/ Finish(id)
  BY <1>3, LockGrantedInv, FinishInv
<1>4. CASE \E id \in Txns, k \in Keys, v \in Values : SetHeld(id, k, v)
  BY <1>4, SetHeldInv
<1>5. CASE \E id \in Txns : Commit(id) \/ Abort(id)
  BY <1>5, CommitInv, AbortInv
<1>6. CASE UNCHANGED vars
  BY <1>6 DEF vars, graph, calls, Inv, TypeOK, EntriesKept, EndedOwnNothing, WantsNew,
     OneOwner, OwnedLocked, LockedOwned, ReadsCurrent, Owns, Waiting
<1>7. QED BY <1>1, <1>2, <1>3, <1>4, <1>5, <1>6 DEF Next

LEMMA InvHolds == Spec => []Inv
BY InitInv, InvStep, PTL DEF Spec

\* The maps of the server keep their types.
THEOREM TypeCorrect == Spec => []TypeOK
<1>1. Inv => TypeOK
  BY DEF Inv
<1>2. QED BY <1>1, InvHolds, PTL

-----------------------------------------------------------------------------
(* Locks *)

LEMMA InvLocks == Inv => LocksOwned
<1> SUFFICES ASSUME Inv, NEW k \in Keys
             PROVE  Cardinality({id \in live : Owns(id, k)}) = (IF k \in locked THEN 1 ELSE 0)
  BY DEF LocksOwned
<1> DEFINE owners == {id \in live : Owns(id, k)}
<1>0. live \subseteq Txns
  BY BoundAssumption DEF Inv, TypeOK, Txns
<1>1. CASE k \in locked
  <2>1. PICK o \in live : Owns(o, k)
    BY <1>1 DEF Inv, LockedOwned
  <2>2. owners = {o}
    BY <1>0, <2>1 DEF Inv, OneOwner
  <2>3. QED BY <1>1, <2>2, FS_Singleton
<1>2. CASE k \notin locked
  <2>1. owners = {}
    BY <1>0, <1>2 DEF Inv, OwnedLocked
  <2>2. QED BY <1>2, <2>1, FS_EmptySet
<1>3. QED BY <1>1, <1>2

\* Strict two-phase locking excludes and leaks nothing: a lock of the lock server
\* is taken exactly when one live transaction owns the key.
THEOREM LocksAgree == Spec => []LocksOwned
BY InvHolds, InvLocks, PTL

-----------------------------------------------------------------------------
(* Refinement *)

\* A commit runs the transaction on the serial store, in one step.
LEMMA CommitRuns ==
  ASSUME NEW id \in Txns, Inv, Commit(id)
  PROVE  Store!SNext
<1> DEFINE e == [reads |-> reads[id], writes |-> Writes(id)]
<1>1. history' = Append(history, e) /\ Len(history') = Len(history) + 1
      /\ history'[Len(history')] = e
  BY DEF Commit
<1>2. \A k \in Keys : e.reads[k] \in {Absent, extent[k]}
  BY DEF Inv, ReadsCurrent
<1>3. extent' = [k \in Keys |-> IF e.writes[k] = Absent THEN extent[k] ELSE e.writes[k]]
  <2>1. \A k \in Keys : k \in write_set[id] => value[id][k] # Absent
    BY DEF Inv, EntriesKept
  <2>2. extent' = [k \in Keys |-> IF k \in write_set[id] THEN value[id][k] ELSE extent[k]]
    BY DEF Commit
  <2>3. QED BY <2>1, <2>2 DEF Writes
<1>4. QED BY <1>1, <1>2, <1>3 DEF Store!SNext, Store!Run

LEMMA StepRefines == Inv /\ [Next]_vars => [Store!SNext]_(Store!svars)
<1> SUFFICES ASSUME Inv, [Next]_vars PROVE [Store!SNext]_(Store!svars)
  OBVIOUS
<1>1. CASE \E id \in Txns : Commit(id)
  BY <1>1, CommitRuns
<1>2. CASE ~ \E id \in Txns : Commit(id)
  BY <1>2 DEF Next, Begin, Request, LockGranted, Finish, SetHeld, Abort, vars,
     Store!svars
<1>3. QED BY <1>1, <1>2

\* ydb_server_2pl is serializable: what its transactions read and what they leave
\* in the extent server is what a serial execution in commit order gives.
THEOREM Serializable == Spec => SerialSpec
<1>1. Init => Store!SInit
  BY DEF Init, Store!SInit
<1>2. QED BY <1>1, InvHolds, StepRefines, PTL DEF Spec, SerialSpec, Store!SSpec

-----------------------------------------------------------------------------
(* Recursion over numbers *)

LEMMA LeastNat ==
  ASSUME NEW T, T \subseteq Nat, T # {}
  PROVE  \E n \in T : \A m \in T : n <= m
<1>1. PICK n \in T : \A m \in T : <<m, n>> \notin OpToRel(<, Nat)
  BY NatLessThanWellFounded, WFMin, Zenon
<1>2. \A m \in T : ~(m < n)
  BY <1>1, Zenon DEF OpToRel
<1>3. \A m \in T : n <= m
  <2>1. n \in Nat /\ \A m \in T : m \in Nat
    OBVIOUS
  <2> HIDE <1>1
  <2>2. QED BY <1>2, <2>1
<1>4. QED BY <1>3, Zenon

\* The runs of n steps that begin with a and go on with step
Runs(V, a, step, n) ==
  {h \in [0..n -> V] : h[0] = a /\ \A i \in 1..n : h[i] = step[h[i-1]]}

LEMMA RunsExist ==
  ASSUME NEW V, NEW a \in V, NEW step \in [V -> V], NEW n \in Nat
  PROVE  Runs(V, a, step, n) # {}
<1> DEFINE T == {i \in Nat : Runs(V, a, step, i) = {}}
<1> SUFFICES ASSUME T # {} PROVE FALSE
  OBVIOUS
<1>1. PICK m \in T : \A i \in T : m <= i
  BY LeastNat
<1>2. m # 0
  <2>1. [i \in 0..0 |-> a] \in Runs(V, a, step, 0)
    BY DEF Runs
  <2>2. QED BY <2>1
<1>3. m-1 \in Nat \ T
  BY <1>1, <1>2
<1>4. PICK h \in Runs(V, a, step, m-1) : TRUE
  BY <1>3
<1>5. h \in [0..m-1 -> V] /\ h[0] = a /\ \A i \in 1..m-1 : h[i] = step[h[i-1]]
  BY <1>4 DEF Runs
<1> DEFINE g == [i \in 0..m |-> IF i = m THEN step[h[m-1]] ELSE h[i]]
<1>6. g \in Runs(V, a, step, m)
  <2>1. g \in [0..m -> V] /\ g[0] = a
    BY <1>2, <1>3, <1>5
  <2>2. ASSUME NEW i \in 1..m PROVE g[i] = step[g[i-1]]
    BY <1>2, <1>3, <1>5, <2>2
  <2>3. QED BY <2>1, <2>2 DEF Runs
<1>7. QED BY <1>1, <1>6

LEMMA RunsAgree ==
  ASSUME NEW V, NEW a, NEW step, NEW n \in Nat, NEW m \in Nat,
         NEW g \in Runs(V, a, step, n), NEW h \in Runs(V, a, step, m),
         NEW i \in Nat, i <= n, i <= m
  PROVE  g[i] = h[i]
<1> DEFINE T == {j \in Nat : j <= n /\ j <= m /\ g[j] # h[j]}
<1> SUFFICES ASSUME T # {} PROVE FALSE
  OBVIOUS
<1>1. PICK j \in T : \A k \in T : j <= k
  BY LeastNat
<1>2. j # 0
  BY DEF Runs
<1>3. j-1 \in Nat \ T
  BY <1>1, <1>2
<1>4. g[j] = step[g[j-1]] /\ h[j] = step[h[j-1]]
  BY <1>1, <1>2 DEF Runs
<1>5. QED BY <1>1, <1>3, <1>4

\* A function on numbers may be defined from its value one before.
LEMMA Recursion ==
  ASSUME NEW V, NEW a \in V, NEW step \in [V -> V]
  PROVE  \E f \in [Nat -> V] : f[0] = a /\ \A i \in Nat \ {0} : f[i] = step[f[i-1]]
<1> DEFINE run == [n \in Nat |-> CHOOSE h : h \in Runs(V, a, step, n)]
           f == [n \in Nat |-> run[n][n]]
<1>1. \A n \in Nat : run[n] \in Runs(V, a, step, n)
  BY RunsExist
<1> HIDE DEF run
<1>2. f \in [Nat -> V] /\ f[0] = a
  BY <1>1 DEF Runs
<1>3. ASSUME NEW i \in Nat \ {0} PROVE f[i] = step[f[i-1]]
  <2>1. run[i][i] = step[run[i][i-1]]
    BY <1>1 DEF Runs
  <2>2. run[i][i-1] = run[i-1][i-1]
    BY <1>1, RunsAgree
  <2>3. QED BY <2>1, <2>2
<1>4. QED BY <1>2, <1>3

-----------------------------------------------------------------------------
(* cy_query() *)

LEMMA NodesFinite == IsFiniteSet(Nodes) /\ Cardinality(Nodes) \in Nat
<1>1. IsFiniteSet(Txns)
  BY BoundAssumption, FS_Interval DEF Txns
<1>2. IsFiniteSet(Nodes)
  BY <1>1, KeyAssumption, FS_Union DEF Nodes
<1>3. QED BY <1>2, FS_CardinalityType

LEMMA RoundsRecursion ==
  ASSUME NEW g, NEW deg
  PROVE  /\ Rounds(g, deg) \in [Nat -> SUBSET Nodes]
         /\ Rounds(g, deg)[0] = {n \in Nodes : deg[n] = 0}
         /\ \A i \in Nat \ {0} : Rounds(g, deg)[i] = TakeAway(g, deg, Rounds(g, deg)[i-1])
<1> DEFINE a == {n \in Nodes : deg[n] = 0}
           step == [P \in SUBSET Nodes |-> TakeAway(g, deg, P)]
<1>1. a \in SUBSET Nodes
  OBVIOUS
<1>2. step \in [SUBSET Nodes -> SUBSET Nodes]
  BY DEF TakeAway
<1>3. \A P \in SUBSET Nodes : step[P] = TakeAway(g, deg, P)
  OBVIOUS
<1>4. PICK f \in [Nat -> SUBSET Nodes] :
        f[0] = a /\ \A i \in Nat \ {0} : f[i] = step[f[i-1]]
  <2> DEFINE V == SUBSET Nodes
  <2> SUFFICES \E f \in [Nat -> V] : f[0] = a /\ \A i \in Nat \ {0} : f[i] = step[f[i-1]]
    OBVIOUS
  <2>1. a \in V /\ step \in [V -> V]
    BY <1>1, <1>2
  <2> HIDE DEF V, a, step
  <2>2. QED BY <2>1, Recursion
<1>5. \A i \in Nat \ {0} : f[i] = TakeAway(g, deg, f[i-1])
  <2> HIDE DEF a, step
  <2>1. QED BY <1>3, <1>4
<1>6. f = [i \in Nat |-> IF i = 0 THEN {n \in Nodes : deg[n] = 0} ELSE TakeAway(g, deg, f[i-1])]
  <2> SUFFICES f = [i \in Nat |-> IF i = 0 THEN a ELSE TakeAway(g, deg, f[i-1])]
    OBVIOUS
  <2> HIDE DEF a, step
  <2>1. QED BY <1>4, <1>5
<1>7. Rounds(g, deg) = [i \in Nat |-> IF i = 0 THEN {n \in Nodes : deg[n] = 0}
                                     ELSE TakeAway(g, deg, Rounds(g, deg)[i-1])]
  BY <1>6, Zenon DEF Rounds
<1>8. /\ Rounds(g, deg)[0] = a
      /\ \A i \in Nat \ {0} : Rounds(g, deg)[i] = TakeAway(g, deg, Rounds(g, deg)[i-1])
  <2> DEFINE r == Rounds(g, deg)
  <2>1. r = [i \in Nat |-> IF i = 0 THEN a ELSE TakeAway(g, deg, r[i-1])]
    BY <1>7, Zenon
  <2> HIDE DEF r, a
  <2>2. r[0] = a /\ \A i \in Nat \ {0} : r[i] = TakeAway(g, deg, r[i-1])
    BY <2>1
  <2>3. QED BY <2>2 DEF r
<1>9. \A i \in Nat : Rounds(g, deg)[i] \subseteq Nodes
  <2> DEFINE r == Rounds(g, deg)
             T == {i \in Nat : ~(r[i] \subseteq Nodes)}
  <2> SUFFICES ASSUME T # {} PROVE FALSE
    OBVIOUS
  <2>1. PICK i \in T : \A j \in T : i <= j
    BY LeastNat
  <2>2. i # 0
    BY <1>8
  <2>3. r[i-1] \subseteq Nodes
    BY <2>1, <2>2
  <2>4. QED BY <1>8, <2>1, <2>2, <2>3 DEF TakeAway
<1>10. Rounds(g, deg) \in [Nat -> SUBSET Nodes]
  <2> DEFINE r == Rounds(g, deg)
  <2>1. r = [i \in Nat |-> IF i = 0 THEN a ELSE TakeAway(g, deg, r[i-1])]
    BY <1>7, Zenon
  <2>2. \A i \in Nat : r[i] \in SUBSET Nodes
    BY <1>9
  <2> HIDE DEF r, a
  <2>3. r \in [Nat -> SUBSET Nodes]
    BY <2>1, <2>2
  <2>4. QED BY <2>3 DEF r
<1>11. QED BY <1>8, <1>10

LEMMA IntoFinite ==
  ASSUME NEW g, NEW P \in SUBSET Nodes, NEW n
  PROVE  /\ IsFiniteSet(EdgesInto(g, P, n))
         /\ Cardinality(EdgesInto(g, P, n)) \in Nat
         /\ EdgesInto(g, P, n) \subseteq EdgesInto(g, Nodes, n)
         /\ Cardinality(EdgesInto(g, P, n)) <= Cardinality(EdgesInto(g, Nodes, n))
         /\ Cardinality(EdgesInto(g, P, n)) = Cardinality(EdgesInto(g, Nodes, n))
              <=> \A m \in Nodes : <<m, n>> \in g => m \in P
<1>1. EdgesInto(g, P, n) \subseteq EdgesInto(g, Nodes, n) /\ EdgesInto(g, Nodes, n) \subseteq Nodes
  BY DEF EdgesInto
<1>2. IsFiniteSet(EdgesInto(g, Nodes, n))
  BY <1>1, NodesFinite, FS_Subset
<1>3. /\ IsFiniteSet(EdgesInto(g, P, n))
      /\ Cardinality(EdgesInto(g, P, n)) \in Nat
      /\ Cardinality(EdgesInto(g, P, n)) <= Cardinality(EdgesInto(g, Nodes, n))
      /\ Cardinality(EdgesInto(g, P, n)) = Cardinality(EdgesInto(g, Nodes, n))
           => EdgesInto(g, P, n) = EdgesInto(g, Nodes, n)
  BY <1>1, <1>2, FS_Subset, FS_CardinalityType
<1>4. EdgesInto(g, P, n) = EdgesInto(g, Nodes, n)
        <=> \A m \in Nodes : <<m, n>> \in g => m \in P
  BY DEF EdgesInto
<1>5. QED BY <1>1, <1>3, <1>4

\* The degrees deg are those of graph g.
Counted(g, deg) == \A n \in Nodes : deg[n] = Cardinality(EdgesInto(g, Nodes, n))

\* The nodes all of whose edges come from nodes of P
Freed(g, P) == {n \in Nodes : \A m \in Nodes : <<m, n>> \in g => m \in P}

\* A round takes the nodes away that no edge enters any more.
LEMMA RoundTakes ==
  ASSUME NEW g, NEW deg, Counted(g, deg), NEW P \in SUBSET Nodes
  PROVE  TakeAway(g, deg, P) = P \union Freed(g, P)
<1>1. ASSUME NEW n \in Nodes
      PROVE  Cardinality(EdgesInto(g, P, n)) >= deg[n]
               <=> \A m \in Nodes : <<m, n>> \in g => m \in P
  <2>1. deg[n] = Cardinality(EdgesInto(g, Nodes, n)) /\ deg[n] \in Nat
    <3>1. Nodes \in SUBSET Nodes
      OBVIOUS
    <3>2. Cardinality(EdgesInto(g, Nodes, n)) \in Nat
      BY <3>1, IntoFinite
    <3>3. QED BY <3>2 DEF Counted
  <2>2. /\ Cardinality(EdgesInto(g, P, n)) \in Nat
        /\ Cardinality(EdgesInto(g, P, n)) <= deg[n]
        /\ Cardinality(EdgesInto(g, P, n)) = deg[n]
             <=> \A m \in Nodes : <<m, n>> \in g => m \in P
    BY <2>1, IntoFinite
  <2>3. QED BY <2>1, <2>2
<1>2. QED BY <1>1 DEF TakeAway, Freed

LEMMA RoundZero ==
  ASSUME NEW g, NEW deg, Counted(g, deg)
  PROVE  Rounds(g, deg)[0] = Freed(g, {})
<1>1. \A n \in Nodes : deg[n] = 0 <=> \A m \in Nodes : <<m, n>> \notin g
  <2> SUFFICES ASSUME NEW n \in Nodes
               PROVE  deg[n] = 0 <=> \A m \in Nodes : <<m, n>> \notin g
    OBVIOUS
  <2>1. IsFiniteSet(EdgesInto(g, Nodes, n)) /\ deg[n] = Cardinality(EdgesInto(g, Nodes, n))
    BY IntoFinite DEF Counted
  <2>2. deg[n] = 0 <=> EdgesInto(g, Nodes, n) = {}
    BY <2>1, FS_EmptySet
  <2>3. QED BY <2>2 DEF EdgesInto
<1>2. QED BY <1>1, RoundsRecursion DEF Freed

\* The rounds only take away; who is gone in a round had all its edges from
\* nodes gone before.
LEMMA RoundsGrow ==
  ASSUME NEW g, NEW deg, Counted(g, deg), NEW i \in Nat
  PROVE  /\ Rounds(g, deg)[i] \subseteq Rounds(g, deg)[i+1]
         /\ Rounds(g, deg)[i+1] \subseteq Freed(g, Rounds(g, deg)[i])
<1> DEFINE r == Rounds(g, deg)
<1>1. /\ r \in [Nat -> SUBSET Nodes] /\ r[0] = Freed(g, {})
      /\ \A j \in Nat : r[j+1] = r[j] \union Freed(g, r[j])
  BY RoundsRecursion, RoundZero, RoundTakes
<1> DEFINE T == {j \in Nat : ~(r[j] \subseteq Freed(g, r[j]))}
<1>2. ASSUME T # {} PROVE FALSE
  <2>1. PICK j \in T : \A k \in T : j <= k
    BY <1>2, LeastNat
  <2>2. j # 0
    BY <1>1 DEF Freed
  <2>3. r[j-1] \subseteq Freed(g, r[j-1]) /\ r[j] = r[j-1] \union Freed(g, r[j-1])
    BY <1>1, <2>1, <2>2
  <2>4. QED BY <2>1, <2>3 DEF Freed
<1>3. QED BY <1>1, <1>2

\* Every set of nodes has one from which no edge leads back into the set.
Acyclic(g) ==
  \A S \in SUBSET Nodes : S # {} => \E n \in S : \A m \in S : <<n, m>> \notin g

\* A set that holds on to itself is never taken away.
LEMMA AllTakenAcyclic ==
  ASSUME NEW g, NEW deg, Counted(g, deg), NEW N \in Nat,
         \A n, m \in Nodes : <<n, m>> \in g => n \in Rounds(g, deg)[N]
  PROVE  Acyclic(g)
<1> DEFINE r == Rounds(g, deg)
<1> SUFFICES ASSUME NEW S \in SUBSET Nodes, S # {},
                    \A n \in S : \E m \in S : <<n, m>> \in g
             PROVE  FALSE
  BY DEF Acyclic
<1> DEFINE T == {i \in Nat : S \subseteq r[i]}
<1>1. N \in T
  OBVIOUS
<1>2. PICK i \in T : \A j \in T : i <= j
  BY <1>1, LeastNat
<1>3. CASE i = 0
  BY ZenonT(60), <1>2, <1>3, RoundZero DEF Freed
<1>4. CASE i # 0
  <2>1. i-1 \in Nat /\ r[i] \subseteq Freed(g, r[i-1])
    BY <1>4, RoundsGrow
  <2>2. S \subseteq r[i-1]
    BY <1>2, <2>1 DEF Freed
  <2>3. QED BY <1>2, <1>4, <2>1, <2>2
<1>5. QED BY <1>3, <1>4

\* Rounds that go on take away a node more each.
LEMMA RoundsFixed ==
  ASSUME NEW g, NEW deg, Counted(g, deg)
  PROVE  LET r == Rounds(g, deg)  N == Cardinality(Nodes) IN r[N+1] = r[N]
<1> DEFINE r == Rounds(g, deg)
           N == Cardinality(Nodes)
<1>1. N \in Nat /\ r \in [Nat -> SUBSET Nodes]
  BY NodesFinite, RoundsRecursion
<1>2. \A i \in Nat : /\ r[i] \subseteq r[i+1]
                     /\ IsFiniteSet(r[i]) /\ Cardinality(r[i]) \in 0..N
  BY <1>1, RoundsGrow, NodesFinite, FS_Subset, FS_CardinalityType
<1>3. \A i \in Nat : r[i+1] = r[i] \/ Cardinality(r[i+1]) >= Cardinality(r[i]) + 1
  BY <1>2, FS_Subset
\* once nothing goes, nothing goes any more
<1>4. \A i \in Nat : r[i+1] = r[i] => r[i+2] = r[i+1]
  BY <1>1, RoundTakes, RoundsRecursion
<1> DEFINE T == {i \in Nat : i <= N /\ Cardinality(r[i]) < i}
<1>5. ASSUME r[N+1] # r[N] PROVE FALSE
  <2>1. \A i \in 0..N : r[i+1] # r[i]
    <3> DEFINE U == {i \in Nat : i <= N /\ r[N-i+1] = r[N-i]}
    <3> SUFFICES ASSUME NEW k \in 0..N, r[k+1] = r[k] PROVE FALSE
      OBVIOUS
    <3>0. N-k \in U
      <4>1. N-k \in Nat /\ N-k <= N /\ N-(N-k) = k
        BY <1>1
      <4>2. QED BY <4>1
    <3>1. PICK i \in U : \A j \in U : i <= j
      BY <3>0, LeastNat
    <3>2. i # 0
      BY <1>1, <1>5
    <3>3. N-i \in Nat /\ (N-i)+2 = N-(i-1)+1 /\ (N-i)+1 = N-(i-1)
      BY <1>1
    <3>4. i-1 \in U
      BY <1>1, <1>4, <3>1, <3>2, <3>3
    <3>5. QED BY <3>1, <3>4
  <2>2. T = {}
    <3> SUFFICES ASSUME T # {} PROVE FALSE
      OBVIOUS
    <3>1. PICK i \in T : \A j \in T : i <= j
      BY LeastNat
    <3>2. i # 0 /\ i-1 \in 0..N
      <4>1. Cardinality(r[0]) \in Nat
        BY <1>1, <1>2
      <4>2. QED BY <1>1, <3>1, <4>1
    <3>3. Cardinality(r[i-1]) >= i-1
      BY <1>2, <3>1, <3>2
    <3>4. Cardinality(r[i]) >= Cardinality(r[i-1]) + 1
      BY <1>3, <2>1, <3>2
    <3>5. Cardinality(r[i]) < i /\ Cardinality(r[i]) \in Int /\ Cardinality(r[i-1]) \in Int
      BY <1>1, <1>2, <3>1, <3>2
    <3>6. QED BY <3>1, <3>2, <3>3, <3>4, <3>5
  <2>3. Cardinality(r[N]) >= N /\ Cardinality(r[N+1]) >= Cardinality(r[N]) + 1
    BY <1>1, <1>2, <1>3, <1>5, <2>2
  <2>4. QED BY <1>1, <1>2, <2>3
<1>6. QED BY <1>5

LEMMA LeastSet ==
  ASSUME NEW C, C \subseteq SUBSET Nodes, C # {}
  PROVE  \E M \in C : \A L \in C : L \subseteq M => L = M
<1>1. \A L \in C : IsFiniteSet(L) /\ Cardinality(L) \in Nat
  BY NodesFinite, FS_Subset, FS_CardinalityType
<1> DEFINE T == {Cardinality(L) : L \in C}
<1>2. PICK k \in T : \A j \in T : k <= j
  <2>1. T \subseteq Nat /\ T # {}
    BY <1>1
  <2> HIDE DEF T
  <2>2. QED BY <2>1, LeastNat
<1>3. PICK M \in C : Cardinality(M) = k
  BY <1>2
<1>4. ASSUME NEW L \in C, L \subseteq M PROVE L = M
  <2>1. Cardinality(L) <= Cardinality(M) /\ (Cardinality(M) = Cardinality(L) => M = L)
    BY <1>1, <1>4, FS_Subset
  <2>2. Cardinality(M) <= Cardinality(L)
    BY <1>2, <1>3
  <2>3. QED BY <1>1, <2>1, <2>2
<1>5. QED BY <1>3, <1>4

\* Where every node of a finite set is entered from the set, some nodes of it
\* also lead back into it.
LEMMA EnteredNotAcyclic ==
  ASSUME NEW g, NEW L \in SUBSET Nodes, L # {},
         \A n \in L : \E m \in L : <<m, n>> \in g
  PROVE  ~Acyclic(g)
<1> DEFINE C == {M \in SUBSET L : M # {} /\ \A n \in M : \E m \in M : <<m, n>> \in g}
<1>1. C \subseteq SUBSET Nodes /\ L \in C
  OBVIOUS
<1>2. PICK M \in C : \A K \in C : K \subseteq M => K = M
  <2> HIDE DEF C
  <2>1. QED BY <1>1, LeastSet
<1>3. ASSUME NEW n \in M, \A m \in M : <<n, m>> \notin g PROVE FALSE
  <2>1. \A k \in M \ {n} : \E m \in M \ {n} : <<m, k>> \in g
    BY <1>3
  <2>2. M \ {n} # {}
    <3>1. PICK m \in M : <<m, n>> \in g
      OBVIOUS
    <3>2. m # n
      BY <1>3, <3>1
    <3>3. QED BY <3>2
  <2>3. M \ {n} \in C
    BY <2>1, <2>2
  <2>4. QED BY <1>2, <2>3
<1>4. QED BY <1>3 DEF Acyclic

\* cy_query() is right: it answers yes exactly when the graph has a cycle.
LEMMA CyQueryRight ==
  ASSUME NEW g, NEW deg, Counted(g, deg), g \subseteq Nodes \X Nodes
  PROVE  CyQuery(g, deg) <=> ~Acyclic(g)
<1> DEFINE r == Rounds(g, deg)
           N == Cardinality(Nodes)
<1>0. N \in Nat /\ r \in [Nat -> SUBSET Nodes] /\ r[N] \in SUBSET Nodes
  BY NodesFinite, RoundsRecursion
<1>1. CyQuery(g, deg) <=> \E n, m \in Nodes : <<m, n>> \in g /\ m \notin r[N]
  <2>1. \A n \in Nodes : Cardinality(EdgesInto(g, r[N], n)) = deg[n]
                         <=> \A m \in Nodes : <<m, n>> \in g => m \in r[N]
    <3> SUFFICES ASSUME NEW n \in Nodes
                 PROVE  Cardinality(EdgesInto(g, r[N], n)) = deg[n]
                          <=> \A m \in Nodes : <<m, n>> \in g => m \in r[N]
      OBVIOUS
    <3>1. deg[n] = Cardinality(EdgesInto(g, Nodes, n))
      BY DEF Counted
    <3> HIDE DEF r, N
    <3>2. QED BY ZenonT(60), <1>0, <3>1, IntoFinite
  <2>2. CyQuery(g, deg) <=> \E n \in Nodes : deg[n] # Cardinality(EdgesInto(g, r[N], n))
    BY Zenon DEF CyQuery
  <2> HIDE DEF r, N
  <2>3. QED BY <2>1, <2>2
<1>2. CASE \A n, m \in Nodes : <<m, n>> \in g => m \in r[N]
  <2>1. Acyclic(g)
    BY <1>0, <1>2, AllTakenAcyclic
  <2>2. QED BY <1>1, <1>2, <2>1
<1>3. CASE \E n, m \in Nodes : <<m, n>> \in g /\ m \notin r[N]
  <2> DEFINE L == Nodes \ r[N]
  <2>1. r[N] = r[N] \union Freed(g, r[N])
    <3>1. r[N+1] = r[N]
      BY RoundsFixed
    <3>2. r[N+1] = TakeAway(g, deg, r[N])
      BY <1>0, RoundsRecursion
    <3>3. TakeAway(g, deg, r[N]) = r[N] \union Freed(g, r[N])
      BY <1>0, RoundTakes
    <3>4. QED BY <3>1, <3>2, <3>3
  <2>2. \A n \in L : \E m \in L : <<m, n>> \in g
    BY <2>1 DEF Freed
  <2>3. L \in SUBSET Nodes /\ L # {}
    BY <1>3
  <2>4. ~Acyclic(g)
    <3> HIDE DEF L
    <3>1. QED BY <2>2, <2>3, EnteredNotAcyclic
  <2>5. QED BY <1>1, <1>3, <2>4
<1>4. QED BY <1>2, <1>3

-----------------------------------------------------------------------------
(* The wait graph *)

\* The graph says who waits for what and who holds what.
GraphExact ==
  /\ wait_graph \subseteq (Txns \X Keys) \union (Keys \X Txns)
  /\ \A id \in Txns, k \in Keys :
       /\ <<id, k>> \in wait_graph <=> wants[id] = k
       /\ <<k, id>> \in wait_graph <=> value[id][k] # Absent

GInv ==
  /\ Inv
  /\ GraphExact
  /\ Counted(wait_graph, degree)
  /\ Acyclic(wait_graph)

LEMMA EdgeAdded ==
  ASSUME NEW g, NEW deg \in [Nodes -> Int], Counted(g, deg),
         NEW m \in Nodes, NEW n \in Nodes, <<m, n>> \notin g
  PROVE  Counted(g \union {<<m, n>>}, [deg EXCEPT ![n] = @ + 1])
<1> DEFINE h == g \union {<<m, n>>}
<1> SUFFICES ASSUME NEW p \in Nodes
             PROVE  [deg EXCEPT ![n] = @ + 1][p] = Cardinality(EdgesInto(h, Nodes, p))
  BY DEF Counted
<1>1. IsFiniteSet(EdgesInto(g, Nodes, p)) /\ deg[p] = Cardinality(EdgesInto(g, Nodes, p))
  BY IntoFinite DEF Counted
<1>2. CASE p = n
  <2>1. EdgesInto(h, Nodes, p) = EdgesInto(g, Nodes, p) \union {m} /\ m \notin EdgesInto(g, Nodes, p)
    BY <1>2 DEF EdgesInto
  <2> HIDE DEF h
  <2>2. QED BY <1>1, <1>2, <2>1, FS_AddElement
<1>3. CASE p # n
  <2>1. EdgesInto(h, Nodes, p) = EdgesInto(g, Nodes, p)
    BY <1>3 DEF EdgesInto
  <2> HIDE DEF h
  <2>2. QED BY <1>1, <1>3, <2>1
<1>4. QED BY <1>2, <1>3

LEMMA EdgeRemoved ==
  ASSUME NEW g, NEW deg \in [Nodes -> Int], Counted(g, deg),
         NEW m \in Nodes, NEW n \in Nodes, <<m, n>> \in g
  PROVE  Counted(g \ {<<m, n>>}, [deg EXCEPT ![n] = @ - 1])
<1> DEFINE h == g \ {<<m, n>>}
<1> SUFFICES ASSUME NEW p \in Nodes
             PROVE  [deg EXCEPT ![n] = @ - 1][p] = Cardinality(EdgesInto(h, Nodes, p))
  BY DEF Counted
<1>1. IsFiniteSet(EdgesInto(g, Nodes, p)) /\ deg[p] = Cardinality(EdgesInto(g, Nodes, p))
  BY IntoFinite DEF Counted
<1>2. CASE p = n
  <2>1. EdgesInto(h, Nodes, p) = EdgesInto(g, Nodes, p) \ {m} /\ m \in EdgesInto(g, Nodes, p)
    BY <1>2 DEF EdgesInto
  <2> HIDE DEF h
  <2>2. QED BY <1>1, <1>2, <2>1, FS_RemoveElement
<1>3. CASE p # n
  <2>1. EdgesInto(h, Nodes, p) = EdgesInto(g, Nodes, p)
    BY <1>3 DEF EdgesInto
  <2> HIDE DEF h
  <2>2. QED BY <1>1, <1>3, <2>1
<1>4. QED BY <1>2, <1>3

\* delete_node() keeps the count right.
LEMMA NodeDeleted ==
  ASSUME NEW g, g \subseteq (Txns \X Keys) \union (Keys \X Txns),
         NEW deg \in [Nodes -> Int], Counted(g, deg), NEW id \in Txns,
         DeleteNode(id, g, deg)
  PROVE  Counted(wait_graph', degree')
<1> SUFFICES ASSUME NEW p \in Nodes
             PROVE  degree'[p] = Cardinality(EdgesInto(wait_graph', Nodes, p))
  BY DEF Counted
<1>0. /\ wait_graph' = {e \in g : e[1] # id /\ e[2] # id}
      /\ degree'[p] = IF p = id THEN 0 ELSE IF <<id, p>> \in g THEN deg[p] - 1 ELSE deg[p]
      /\ id \in Nodes
  BY DEF DeleteNode, Nodes
<1>1. IsFiniteSet(EdgesInto(g, Nodes, p)) /\ deg[p] = Cardinality(EdgesInto(g, Nodes, p))
  BY IntoFinite DEF Counted
<1>2. CASE p = id
  <2>1. EdgesInto(wait_graph', Nodes, p) = {}
    BY <1>0, <1>2 DEF EdgesInto
  <2>2. QED BY <1>0, <1>2, <2>1, FS_EmptySet
<1>3. CASE p # id
  <2>1. EdgesInto(wait_graph', Nodes, p) = EdgesInto(g, Nodes, p) \ {id}
    BY <1>0, <1>3 DEF EdgesInto
  <2>2. id \in EdgesInto(g, Nodes, p) <=> <<id, p>> \in g
    BY <1>0 DEF EdgesInto
  <2>3. Cardinality(EdgesInto(g, Nodes, p) \ {id})
          = IF <<id, p>> \in g THEN deg[p] - 1 ELSE deg[p]
    BY <1>1, <2>2, FS_RemoveElement
  <2>4. QED BY <1>0, <1>3, <2>1, <2>3
<1>4. QED BY <1>2, <1>3

LEMMA SubgraphAcyclic ==
  ASSUME NEW g, NEW h, Acyclic(g), h \subseteq g
  PROVE  Acyclic(h)
BY DEF Acyclic

\* The edge of a request may be turned around, once its transaction has no
\* other: where nothing leads on, no cycle goes through.
LEMMA TurnedAcyclic ==
  ASSUME NEW g, Acyclic(g), NEW id \in Txns, NEW k \in Keys,
         \A n \in Nodes : <<id, n>> \in g => n = k
  PROVE  Acyclic((g \ {<<id, k>>}) \union {<<k, id>>})
<1> DEFINE h == (g \ {<<id, k>>}) \union {<<k, id>>}
<1> SUFFICES ASSUME NEW S \in SUBSET Nodes, S # {},
                    \A n \in S : \E m \in S : <<n, m>> \in h
             PROVE  FALSE
  BY DEF Acyclic
<1>1. id # k
  BY KeyAssumption
<1>2. id \notin S
  BY <1>1
<1>3. \A n \in S : \E m \in S : <<n, m>> \in g
  BY <1>2
<1>4. QED BY <1>3 DEF Acyclic

LEMMA InitGInv == Init => GInv
<1> SUFFICES ASSUME Init PROVE GInv
  OBVIOUS
<1>1. Inv
  BY InitInv
<1>2. GraphExact
  BY KeyAssumption DEF Init, GraphExact, NoEntries
<1>3. Counted(wait_graph, degree)
  <2>1. \A n \in Nodes : EdgesInto(wait_graph, Nodes, n) = {}
    BY DEF Init, EdgesInto
  <2>2. QED BY <2>1, FS_EmptySet DEF Init, Counted
<1>4. Acyclic(wait_graph)
  BY DEF Init, Acyclic
<1>5. QED BY <1>1, <1>2, <1>3, <1>4 DEF GInv

LEMMA EdgesExact ==
  ASSUME GInv, NEW id \in Txns, NEW k \in Keys
  PROVE  /\ <<id, k>> \in wait_graph <=> wants[id] = k
         /\ <<k, id>> \in wait_graph <=> value[id][k] # Absent
<1>1. GraphExact
  BY DEF GInv
<1>2. QED BY <1>1 DEF GraphExact

LEMMA GraphKept ==
  ASSUME GInv, UNCHANGED <<wants, value, wait_graph, degree>>
  PROVE  GraphExact' /\ Counted(wait_graph, degree)' /\ Acyclic(wait_graph)'
BY DEF GInv, GraphExact, Counted, Acyclic

\* A transaction ends, with or without a last request drawn in the graph.
LEMMA EndTxnGraph ==
  ASSUME NEW id \in Txns, NEW k \in Keys, GInv, id \notin Waiting,
         NEW g, NEW deg \in [Nodes -> Int], Counted(g, deg),
         g = wait_graph \/ g = wait_graph \union {<<id, k>>},
         EndTxn(id, g, deg)
  PROVE  GraphExact' /\ Counted(wait_graph, degree)' /\ Acyclic(wait_graph)'
<1>1. /\ wait_graph' = {e \in g : e[1] # id /\ e[2] # id}
      /\ value' = [value EXCEPT ![id] = NoEntries]
      /\ wants' = wants /\ wants[id] = Absent
      /\ value \in [Txns -> Entries] /\ Keys \cap Txns = {} /\ Absent \notin Keys
  BY KeyAssumption DEF GInv, Inv, TypeOK, EndTxn, DeleteNode, calls, Waiting
<1>2. wait_graph' = {e \in wait_graph : e[1] # id /\ e[2] # id}
  BY <1>1
<1>3. GraphExact'
  <2>1. wait_graph' \subseteq wait_graph
    BY <1>2
  <2> SUFFICES ASSUME NEW o \in Txns, NEW l \in Keys
               PROVE  /\ <<o, l>> \in wait_graph' <=> wants'[o] = l
                      /\ <<l, o>> \in wait_graph' <=> value'[o][l] # Absent
    BY <2>1 DEF GInv, GraphExact
  <2>2. CASE o = id
    <3>1. value'[o][l] = Absent
      BY <1>1, <2>2 DEF NoEntries
    <3>2. QED BY <1>1, <1>2, <2>2, <3>1
  <2>3. CASE o # id
    <3>1. value'[o] = value[o] /\ l # id
      BY <1>1, <2>3
    <3>2. QED BY <1>1, <1>2, <2>3, <3>1, EdgesExact
  <2>4. QED BY <2>2, <2>3
<1>4. Counted(wait_graph, degree)'
  <2>1. g \subseteq (Txns \X Keys) \union (Keys \X Txns)
    BY DEF GInv, GraphExact
  <2>2. Counted(wait_graph', degree')
    BY <2>1, NodeDeleted DEF EndTxn
  <2>3. QED BY <2>2 DEF Counted, EdgesInto
<1>5. Acyclic(wait_graph)'
  <2>1. Acyclic(wait_graph')
    BY <1>2, SubgraphAcyclic DEF GInv
  <2>2. QED BY <2>1 DEF Acyclic
<1>6. QED BY <1>3, <1>4, <1>5

\* The graph as it would be with the request of id for k
LEMMA RequestCounted ==
  ASSUME NEW id \in Txns, NEW k \in Keys, GInv, id \notin Waiting
  PROVE  /\ Counted(wait_graph \union {<<id, k>>}, [degree EXCEPT ![k] = @ + 1])
         /\ [degree EXCEPT ![k] = @ + 1] \in [Nodes -> Int]
         /\ ClosesCycle(id, k) <=> ~Acyclic(wait_graph \union {<<id, k>>})
<1> DEFINE g == wait_graph \union {<<id, k>>}
           deg == [degree EXCEPT ![k] = @ + 1]
<1>1. /\ id \in Nodes /\ k \in Nodes
      /\ degree \in [Nodes -> Int] /\ wait_graph \subseteq Nodes \X Nodes
  BY DEF GInv, Inv, TypeOK, Nodes
<1>2. <<id, k>> \notin wait_graph
  <2>1. wants[id] # k
    BY KeyAssumption DEF Waiting
  <2>2. QED BY <2>1, EdgesExact
<1>3. Counted(g, deg)
  BY <1>1, <1>2, EdgeAdded DEF GInv
<1>4. g \subseteq Nodes \X Nodes /\ deg \in [Nodes -> Int]
  BY <1>1
<1>5. ClosesCycle(id, k) <=> CyQuery(g, deg)
  BY DEF ClosesCycle
<1> HIDE DEF g, deg
<1>6. CyQuery(g, deg) <=> ~Acyclic(g)
  BY <1>3, <1>4, CyQueryRight
<1>7. QED BY <1>3, <1>4, <1>5, <1>6 DEF g, deg

LEMMA RequestGraph ==
  ASSUME NEW id \in Txns, NEW k \in Keys, GInv, Request(id, k)
  PROVE  GraphExact' /\ Counted(wait_graph, degree)' /\ Acyclic(wait_graph)'
<1> DEFINE g == wait_graph \union {<<id, k>>}
           deg == [degree EXCEPT ![k] = @ + 1]
<1>1. id \notin Waiting
  BY DEF Request, Called
<1>2. Counted(g, deg) /\ deg \in [Nodes -> Int] /\ (ClosesCycle(id, k) <=> ~Acyclic(g))
  BY <1>1, RequestCounted
<1>3. CASE ClosesCycle(id, k)
  <2>1. EndTxn(id, g, deg)
    BY <1>3 DEF Request
  <2> HIDE DEF deg
  <2>2. QED BY <1>1, <1>2, <2>1, EndTxnGraph
<1>4. CASE ~ClosesCycle(id, k)
  <2>1. /\ wait_graph' = g /\ degree' = deg
        /\ wants' = [wants EXCEPT ![id] = k] /\ value' = value
        /\ wants \in [Txns -> Keys \union {Absent}]
    BY <1>4 DEF Request, GInv, Inv, TypeOK
  <2>2. GraphExact'
    <3>1. wait_graph' \subseteq (Txns \X Keys) \union (Keys \X Txns)
      BY <2>1 DEF GInv, GraphExact
    <3>2. ASSUME NEW o \in Txns, NEW l \in Keys
          PROVE  /\ <<o, l>> \in wait_graph' <=> wants'[o] = l
                 /\ <<l, o>> \in wait_graph' <=> value'[o][l] # Absent
      <4>1. <<l, o>> # <<id, k>> /\ wants[id] = Absent
        BY <1>1, KeyAssumption DEF Waiting
      <4>2. <<o, l>> \in wait_graph' <=> wants'[o] = l
        <5>1. CASE o = id /\ l = k
          BY <2>1, <5>1
        <5>2. CASE ~(o = id /\ l = k)
          <6>1. <<o, l>> \in wait_graph' <=> <<o, l>> \in wait_graph
            BY <2>1, <5>2
          <6>2. wants'[o] = l <=> wants[o] = l
            BY <2>1, <4>1, <5>2, KeyAssumption
          <6>3. QED BY <6>1, <6>2, EdgesExact
        <5>3. QED BY <5>1, <5>2
      <4>3. QED BY <2>1, <4>1, <4>2, EdgesExact
    <3>3. QED BY <3>1, <3>2 DEF GraphExact
  <2>3. Counted(wait_graph, degree)'
    BY <1>2, <2>1 DEF Counted, EdgesInto
  <2>4. Acyclic(wait_graph)'
    BY <1>2, <1>4, <2>1 DEF Acyclic
  <2>5. QED BY <2>2, <2>3, <2>4
<1>5. QED BY <1>3, <1>4

LEMMA FinishGraph ==
  ASSUME NEW id \in Txns, GInv, Finish(id)
  PROVE  GraphExact' /\ Counted(wait_graph, degree)' /\ Acyclic(wait_graph)'
<1> DEFINE k == wants[id]
           g == wait_graph \ {<<id, k>>}
<1>1. /\ k \in Keys /\ id \in Nodes /\ k \in Nodes /\ id # k
      /\ degree \in [Nodes -> Int]
      /\ wants \in [Txns -> Keys \union {Absent}] /\ value \in [Txns -> Entries]
      /\ value[id][k] = Absent
  BY KeyAssumption DEF GInv, Inv, TypeOK, WantsNew, Finish, Waiting, Nodes
<1>2. <<id, k>> \in wait_graph /\ <<k, id>> \notin wait_graph
  BY <1>1, EdgesExact
<1>3. /\ wait_graph' = g \union {<<k, id>>}
      /\ degree' = [[degree EXCEPT ![k] = @ - 1] EXCEPT ![id] = @ + 1]
      /\ wants' = [wants EXCEPT ![id] = Absent]
  BY <1>1 DEF Finish, Turned
<1>4. PICK v \in Values : value' = [value EXCEPT ![id][k] = v]
  <2>1. (IF storing[id] = Absent THEN extent[k] ELSE storing[id]) \in Values
    BY <1>1 DEF GInv, Inv, TypeOK
  <2>2. QED BY <2>1 DEF Finish
<1> HIDE DEF k
<1>5. GraphExact'
  <2>1. wait_graph' \subseteq (Txns \X Keys) \union (Keys \X Txns)
    BY <1>1, <1>3 DEF GInv, GraphExact
  <2>2. ASSUME NEW o \in Txns, NEW l \in Keys
        PROVE  /\ <<o, l>> \in wait_graph' <=> wants'[o] = l
               /\ <<l, o>> \in wait_graph' <=> value'[o][l] # Absent
    <3>1. /\ <<o, l>> \in wait_graph <=> wants[o] = l
          /\ <<l, o>> \in wait_graph <=> value[o][l] # Absent
      BY EdgesExact
    <3>2. <<o, l>> \in wait_graph' <=> wants'[o] = l
      BY <1>1, <1>3, <3>1, KeyAssumption DEF k
    <3>3. <<l, o>> \in wait_graph' <=> value'[o][l] # Absent
      <4>1. CASE o = id /\ l = k
        BY <1>1, <1>3, <1>4, <4>1, ValueAssumption DEF Entries
      <4>2. CASE ~(o = id /\ l = k)
        <5>1. value'[o][l] = value[o][l]
          BY <1>1, <1>4, <4>2 DEF Entries
        <5>2. <<l, o>> \in wait_graph' <=> <<l, o>> \in wait_graph
          BY <1>1, <1>3, <4>2, KeyAssumption
        <5>3. QED BY <3>1, <5>1, <5>2
      <4>3. QED BY <4>1, <4>2
    <3>4. QED BY <3>2, <3>3
  <2>3. QED BY <2>1, <2>2 DEF GraphExact
<1>6. Counted(wait_graph, degree)'
  <2>1. Counted(g, [degree EXCEPT ![k] = @ - 1])
    BY <1>1, <1>2, EdgeRemoved DEF GInv
  <2>2. [degree EXCEPT ![k] = @ - 1] \in [Nodes -> Int] /\ <<k, id>> \notin g
    BY <1>1, <1>2
  <2> HIDE DEF g
  <2>3. Counted(wait_graph', degree')
    BY <1>1, <1>3, <2>1, <2>2, EdgeAdded
  <2>4. QED BY <2>3 DEF Counted, EdgesInto
<1>7. Acyclic(wait_graph)'
  <2>1. \A n \in Nodes : <<id, n>> \in wait_graph => n = k
    <3>1. \A n \in Keys : <<id, n>> \in wait_graph => n = k
      BY EdgesExact DEF k
    <3>2. \A n \in Txns : <<id, n>> \notin wait_graph
      BY KeyAssumption DEF GInv, GraphExact
    <3>3. QED BY <3>1, <3>2 DEF Nodes
  <2>2. Acyclic(wait_graph')
    BY <1>1, <1>3, <2>1, TurnedAcyclic DEF GInv
  <2>3. QED BY <2>2 DEF Acyclic
<1>8. QED BY <1>5, <1>6, <1>7

LEMMA EndGraph ==
  ASSUME NEW id \in Txns, GInv, id \notin Waiting, EndTxn(id, wait_graph, degree)
  PROVE  GraphExact' /\ Counted(wait_graph, degree)' /\ Acyclic(wait_graph)'
<1>1. degree \in [Nodes -> Int] /\ Counted(wait_graph, degree)
  BY DEF GInv, Inv, TypeOK
<1>2. CASE Keys # {}
  BY <1>1, <1>2, EndTxnGraph
<1>3. CASE Keys = {}
  <2>1. wait_graph = {} /\ wait_graph' = {}
    BY <1>3 DEF GInv, GraphExact, EndTxn, DeleteNode
  <2>2. GraphExact' /\ Acyclic(wait_graph)'
    BY <1>3, <2>1 DEF GraphExact, Acyclic
  <2>3. Counted(wait_graph', degree')
    BY <1>1, <2>1, NodeDeleted DEF EndTxn
  <2>4. QED BY <2>2, <2>3 DEF Counted, EdgesInto
<1>4. QED BY <1>2, <1>3

LEMMA GInvStep == GInv /\ [Next]_vars => GInv'
<1> SUFFICES ASSUME GInv, [Next]_vars PROVE GInv'
  OBVIOUS
<1>1. Inv'
  BY InvStep DEF GInv
<1> SUFFICES GraphExact' /\ Counted(wait_graph, degree)' /\ Acyclic(wait_graph)'
  BY <1>1 DEF GInv
<1>2. CASE Begin
  BY <1>2, GraphKept DEF Begin, graph, calls
<1>3. CASE \E id \in Txns, k \in Keys : Request(id, k)
  BY <1>3, RequestGraph
<1>4. ASSUME NEW id \in Txns, LockGranted(id)
      PROVE  GraphExact' /\ Counted(wait_graph, degree)' /\ Acyclic(wait_graph)'
  BY <1>4, GraphKept DEF LockGranted, graph
<1>5. ASSUME NEW id \in Txns, Finish(id)
      PROVE  GraphExact' /\ Counted(wait_graph, degree)' /\ Acyclic(wait_graph)'
  BY <1>5, FinishGraph
<1>6. ASSUME NEW id \in Txns, NEW k \in Keys, NEW v \in Values, SetHeld(id, k, v)
      PROVE  GraphExact' /\ Counted(wait_graph, degree)' /\ Acyclic(wait_graph)'
  <2>1. /\ value' = [value EXCEPT ![id][k] = v] /\ value[id][k] # Absent /\ v # Absent
        /\ UNCHANGED <<wants, wait_graph, degree>>
        /\ value \in [Txns -> Entries]
    BY <1>6, ValueAssumption DEF SetHeld, graph, calls, GInv, Inv, TypeOK
  <2>2. \A o \in Txns, l \in Keys : value'[o][l] = Absent <=> value[o][l] = Absent
    BY <2>1 DEF Entries
  <2>3. GraphExact'
    <3>1. ASSUME NEW o \in Txns, NEW l \in Keys
          PROVE  /\ <<o, l>> \in wait_graph' <=> wants'[o] = l
                 /\ <<l, o>> \in wait_graph' <=> value'[o][l] # Absent
      <4>1. <<o, l>> \in wait_graph' <=> wants'[o] = l
        BY <2>1, EdgesExact
      <4>2. <<l, o>> \in wait_graph' <=> value[o][l] # Absent
        BY <2>1, EdgesExact
      <4>3. value'[o][l] = Absent <=> value[o][l] = Absent
        BY <2>2
      <4>4. QED BY <4>1, <4>2, <4>3
    <3>2. QED BY <2>1, <3>1 DEF GInv, GraphExact
  <2>4. QED BY <2>1, <2>3 DEF GInv, Counted, EdgesInto, Acyclic
<1>7. ASSUME NEW id \in Txns, Commit(id) \/ Abort(id)
      PROVE  GraphExact' /\ Counted(wait_graph, degree)' /\ Acyclic(wait_graph)'
  BY <1>7, EndGraph DEF Commit, Abort, Called
<1>8. CASE UNCHANGED vars
  BY <1>8, GraphKept DEF vars, graph, calls
<1>9. QED BY <1>2, <1>3, <1>4, <1>5, <1>6, <1>7, <1>8 DEF Next

LEMMA GInvHolds == Spec => []GInv
BY InitGInv, GInvStep, PTL DEF Spec

\* The degrees that get(), set() and delete_node() count by hand are the
\* in-degrees of the graph.
THEOREM DegreesRight == Spec => []DegreeIsInDegree
<1>1. GInv => DegreeIsInDegree
  BY DEF GInv, Counted, DegreeIsInDegree
<1>2. QED BY <1>1, GInvHolds, PTL

-----------------------------------------------------------------------------
(* Deadlocks *)

\* Transactions that wait for each other are a cycle of the graph.
LEMMA DeadlockIsCycle ==
  ASSUME GInv, NEW D \in SUBSET live, NEW w \in [Txns -> Keys \union {Absent}],
         Deadlocked(D, w),
         NEW g, wait_graph \subseteq g, \A id \in D : <<id, w[id]>> \in g
  PROVE  ~Acyclic(g)
<1>1. D \subseteq Txns
  BY BoundAssumption DEF GInv, Inv, TypeOK, Txns
<1> DEFINE S == D \union {w[id] : id \in D}
<1>2. \A id \in D : /\ w[id] \in Keys /\ id \notin granted
                    /\ \E o \in D : o \notin granted /\ Owns(o, w[id])
  BY <1>1 DEF Deadlocked
<1>3. S \in SUBSET Nodes /\ S # {}
  BY <1>1, <1>2 DEF Nodes, Deadlocked
<1>4. ASSUME NEW n \in S PROVE \E m \in S : <<n, m>> \in g
  <2>1. CASE n \in D
    BY <2>1
  <2>2. CASE \E id \in D : n = w[id]
    <3>1. PICK o \in D : value[o][n] # Absent /\ n \in Keys
      BY <1>2, <2>2 DEF Owns
    <3>2. <<n, o>> \in wait_graph
      BY <1>1, <3>1, EdgesExact
    <3>3. QED BY <3>2
  <2>3. QED BY <2>1, <2>2
<1> HIDE DEF S
<1>5. QED BY <1>3, <1>4 DEF Acyclic

\* With its thread for every transaction, the pool is never the reason to wait.
LEMMA StuckIsDeadlock ==
  ASSUME GInv, Workers >= MaxTxns, NEW D \in SUBSET live, Stuck(D)
  PROVE  Deadlocked(D, wants)
<1>1. live \subseteq Txns /\ Waiting \subseteq Txns
  BY BoundAssumption DEF GInv, Inv, TypeOK, Txns, Waiting
<1>2. ASSUME NEW id \in D, id \notin Waiting PROVE FreeWorker
  <2>1. IsFiniteSet(Txns) /\ Cardinality(Txns) = MaxTxns
    BY BoundAssumption, FS_Interval DEF Txns
  <2>2. Waiting \subseteq Txns \ {id} /\ id \in Txns
    BY <1>1, <1>2
  <2>3. IsFiniteSet(Txns \ {id}) /\ Cardinality(Txns \ {id}) = MaxTxns - 1
    BY <2>1, <2>2, FS_RemoveElement
  <2>4. Cardinality(Waiting) <= MaxTxns - 1 /\ Cardinality(Waiting) \in Nat
    BY <2>2, <2>3, FS_Subset, FS_CardinalityType
  <2>5. QED BY <2>4, BoundAssumption DEF FreeWorker
<1>3. \A id \in D : id \in Waiting \ granted /\ \E o \in D : Owns(o, wants[id])
  BY <1>2 DEF Stuck
<1>4. QED BY <1>3 DEF Deadlocked, Stuck, Waiting

\* No set of transactions ever waits for itself, provided that the pool has a
\* thread for each: ydb_server_2pl::get and set abort in time.
THEOREM DeadlockFree == ASSUME Workers >= MaxTxns PROVE Spec => []NoDeadlock
<1>1. GInv => NoDeadlock
  <2> SUFFICES ASSUME GInv, NEW D \in SUBSET live, Stuck(D) PROVE FALSE
    BY DEF NoDeadlock
  <2>1. Deadlocked(D, wants)
    BY StuckIsDeadlock
  <2>2. wants \in [Txns -> Keys \union {Absent}] /\ D \subseteq Txns
    BY BoundAssumption DEF GInv, Inv, TypeOK, Txns
  <2>3. \A id \in D : <<id, wants[id]>> \in wait_graph
    BY <2>1, <2>2, EdgesExact DEF Deadlocked
  <2>4. ~Acyclic(wait_graph)
    BY <2>1, <2>2, <2>3, DeadlockIsCycle
  <2>5. QED BY <2>4 DEF GInv
<1>2. QED BY <1>1, GInvHolds, PTL

\* A cycle that a request would close is a set of transactions that would wait
\* for each other.
LEMMA CycleIsDeadlock ==
  ASSUME GInv, NEW id \in live \ Waiting, NEW k \in Keys,
         ~Acyclic(wait_graph \union {<<id, k>>})
  PROVE  \E D \in SUBSET live : Deadlocked(D, [wants EXCEPT ![id] = k])
<1> DEFINE g == wait_graph \union {<<id, k>>}
           w == [wants EXCEPT ![id] = k]
<1>1. /\ live \subseteq Txns /\ Waiting \subseteq live /\ granted \subseteq Waiting
      /\ wants \in [Txns -> Keys \union {Absent}]
      /\ Keys \cap Txns = {} /\ Absent \notin Keys
  BY BoundAssumption, KeyAssumption DEF GInv, Inv, TypeOK, Txns
<1>2. PICK S \in SUBSET Nodes : S # {} /\ \A n \in S : \E m \in S : <<n, m>> \in g
  BY DEF Acyclic
<1> DEFINE D == S \cap Txns
\* who is in the set waits, for a key of the set
<1>3. ASSUME NEW o \in D PROVE o \in live /\ w[o] # Absent /\ w[o] \in S
  <2>1. PICK l \in S : <<o, l>> \in g
    BY <1>2
  <2>2. l \in Keys
    BY <1>1, <2>1 DEF GInv, GraphExact
  <2>3. CASE o = id
    <3>1. <<o, l>> \notin wait_graph
      BY <1>1, <2>2, <2>3, EdgesExact DEF Waiting
    <3>2. QED BY <1>1, <2>1, <2>3, <3>1
  <2>4. CASE o # id
    <3>1. o \in Txns /\ <<o, l>> \in wait_graph
      BY <2>1, <2>4
    <3>2. wants[o] = l
      BY <2>2, <3>1, EdgesExact
    <3>3. w[o] = l /\ o \in Waiting
      BY <1>1, <2>2, <2>4, <3>1, <3>2 DEF Waiting
    <3>4. QED BY <1>1, <2>1, <2>2, <3>3
  <2>5. QED BY <2>3, <2>4
\* and a key of the set is held by one of them
<1>4. ASSUME NEW l \in S \cap Keys PROVE \E o \in D : value[o][l] # Absent
  <2>1. PICK o \in S : <<l, o>> \in g
    BY <1>2
  <2>2. <<l, o>> \in wait_graph
    BY <1>1, <2>1
  <2>3. o \in Txns
    BY <1>1, <2>2 DEF GInv, GraphExact
  <2>4. value[o][l] # Absent
    BY <2>2, <2>3, EdgesExact
  <2>5. QED BY <2>1, <2>3, <2>4
<1>5. D # {}
  BY <1>2, <1>4 DEF Nodes
<1>6. ASSUME NEW o \in D PROVE o \notin granted /\ \E p \in D : Owns(p, w[o])
  <2>1. w[o] \in S \cap Keys
    BY <1>1, <1>3
  <2>2. PICK p \in D : value[p][w[o]] # Absent
    BY <1>4, <2>1
  <2>3. ASSUME o \in granted PROVE FALSE
    <3>1. w[o] = wants[o]
      BY <1>1, <2>3
    <3>2. Owns(o, w[o]) /\ Owns(p, w[o])
      BY <2>2, <2>3, <3>1 DEF Owns
    <3>3. o = p
      BY <2>1, <3>2 DEF GInv, Inv, OneOwner
    <3>4. QED BY <2>1, <2>2, <3>1, <3>3 DEF GInv, Inv, WantsNew
  <2>4. QED BY <2>2, <2>3 DEF Owns
<1>7. Deadlocked(D, w) /\ D \in SUBSET live
  <2> HIDE DEF w, D
  <2>1. QED BY <1>3, <1>5, <1>6 DEF Deadlocked
<1>8. QED BY <1>7

\* cy_query() finds a cycle exactly when the request would deadlock: no
\* transaction is aborted for nothing, and none waits that should not.
THEOREM DetectionRight == Spec => []DetectionExact
<1>1. GInv => DetectionExact
  <2> SUFFICES ASSUME GInv, NEW id \in live \ Waiting, NEW k \in Keys
               PROVE  ClosesCycle(id, k)
                        <=> \E D \in SUBSET live : Deadlocked(D, [wants EXCEPT ![id] = k])
    BY DEF DetectionExact
  <2> DEFINE g == wait_graph \union {<<id, k>>}
             w == [wants EXCEPT ![id] = k]
  <2>1. live \subseteq Txns /\ wants \in [Txns -> Keys \union {Absent}]
    BY BoundAssumption DEF GInv, Inv, TypeOK, Txns
  <2>2. ClosesCycle(id, k) <=> ~Acyclic(g)
    BY <2>1, RequestCounted
  <2>3. ASSUME NEW D \in SUBSET live, Deadlocked(D, w) PROVE ~Acyclic(g)
    <3>1. w \in [Txns -> Keys \union {Absent}] /\ wait_graph \subseteq g
      BY <2>1
    <3>2. \A o \in D : <<o, w[o]>> \in g
      <4> SUFFICES ASSUME NEW o \in D PROVE <<o, w[o]>> \in g
        OBVIOUS
      <4>1. CASE o = id
        BY <2>1, <4>1
      <4>2. CASE o # id
        <5>1. w[o] = wants[o] /\ w[o] \in Keys
          BY <2>1, <2>3, <3>1, <4>2 DEF Deadlocked
        <5>2. QED BY <2>1, <5>1, EdgesExact
      <4>3. QED BY <4>1, <4>2
    <3> HIDE DEF g, w
    <3>3. QED BY <2>3, <3>1, <3>2, DeadlockIsCycle
  <2>4. QED BY <2>2, <2>3, CycleIsDeadlock
<1>2. QED BY <1>1, GInvHolds, PTL
=============================================================================
