------------------------------- MODULE Ydb2PL -------------------------------
(***************************************************************************)
(* The two-phase-locking ydb server, ydb_server_2pl, with the lock server  *)
(* it locks keys at and the thread pool that runs its handlers.            *)
(*                                                                         *)
(* A handler holds ks_mutex throughout, but for get() and set() of a key   *)
(* the transaction has not locked: they draw the request in the wait       *)
(* graph, look for a cycle, leave the mutex for the acquire call, and      *)
(* finish under the mutex again.  A client has one call under way at a     *)
(* time, and may stop calling at any point.                                *)
(***************************************************************************)
EXTENDS Integers, Sequences, FiniteSets

CONSTANTS Keys,     \* extent ids, which are also the lock ids
          Values,   \* what set() may store
          Empty,    \* the content of a fresh extent, and what del() stores
          Absent,   \* no entry in a map; no call under way
          Workers,  \* threads of the pool that runs the handlers
          MaxTxns   \* bound: transactions begun

Txns == 0 .. MaxTxns-1

ASSUME ValueAssumption == Empty \in Values /\ Absent \notin Values
ASSUME KeyAssumption == IsFiniteSet(Keys) /\ Absent \notin Keys /\ Keys \cap Txns = {}
ASSUME BoundAssumption == MaxTxns \in Nat /\ Workers \in Nat \ {0}

VARIABLES
  extent,        \* the extent server: the content of every key
  locked,        \* the lock server: the ids whose locks[lid] is true
  trans_id_cnt,  \* the next transaction id
  live,          \* the ids that kv_store holds
  value,         \* kv_store[id]; its keys are the locks the transaction holds
  write_set,     \* write_set[id]
  wait_graph,    \* edges: transaction to the key it waits for, key to its holder
  degree,        \* the in-degree of every node, kept by hand
  wants,         \* the key a handler of the transaction is acquiring
  storing,       \* what that handler will store; Absent when it is a get()
  granted,       \* the transactions whose acquire call has been served
  reads,         \* history: what each transaction was told by the extent server
  history        \* history: the committed transactions in commit order

graph == <<wait_graph, degree>>
calls == <<wants, storing, granted>>
vars == <<extent, locked, trans_id_cnt, live, value, write_set, graph, calls,
          reads, history>>

\* The graph has both kinds of node; the code keeps them apart by adding 10000
\* to transaction ids.
Nodes == Keys \union Txns

NoEntries == [k \in Keys |-> Absent]

Init ==
  /\ extent = [k \in Keys |-> Empty]
  /\ locked = {}
  /\ trans_id_cnt = 0
  /\ live = {}
  /\ value = [i \in Txns |-> NoEntries]
  /\ write_set = [i \in Txns |-> {}]
  /\ wait_graph = {}
  /\ degree = [n \in Nodes |-> 0]
  /\ wants = [i \in Txns |-> Absent]
  /\ storing = [i \in Txns |-> Absent]
  /\ granted = {}
  /\ reads = [i \in Txns |-> NoEntries]
  /\ history = << >>

-----------------------------------------------------------------------------
(* The wait graph *)

\* The edges of graph g that come from a node of S into node n.
EdgesInto(g, S, n) == {m \in S : <<m, n>> \in g}

\* One round of cy_query(): the nodes of P are gone with their edges, and those
\* whose degree has come down to zero go, too.
TakeAway(g, deg, P) == P \union {n \in Nodes : Cardinality(EdgesInto(g, P, n)) >= deg[n]}

Rounds(g, deg) ==
  LET Gone[i \in Nat] == IF i = 0 THEN {n \in Nodes : deg[n] = 0}
                         ELSE TakeAway(g, deg, Gone[i-1])
  IN  Gone

\* cy_query(): after as many rounds as there are nodes, there is a cycle when a
\* degree is left over.
CyQuery(g, deg) ==
  LET Taken == Rounds(g, deg)[Cardinality(Nodes)]
  IN  \E n \in Nodes : deg[n] # Cardinality(EdgesInto(g, Taken, n))

\* Faulty variant: the request of the transaction stays counted.
DeleteNodeUncounted(id, g, deg) ==
  /\ wait_graph' = {e \in g : e[1] # id /\ e[2] # id}
  /\ degree' = [n \in Nodes |-> IF n = id THEN 0 ELSE deg[n]]

\* delete_node(): the transaction leaves graph g, and its request with it.
DeleteNode(id, g, deg) ==
  /\ wait_graph' = {e \in g : e[1] # id /\ e[2] # id}
  /\ degree' = [n \in Nodes |-> IF n = id THEN 0
                                ELSE IF <<id, n>> \in g THEN deg[n] - 1
                                ELSE deg[n]]

\* The keys a transaction has locked.
Written(id) == write_set[id]  \* faulty variant
Held(id) == {k \in Keys : value[id][k] # Absent}

\* A transaction ends: its locks are released and all trace of it is erased.
EndTxn(id, g, deg) ==
  /\ locked' = locked \ Held(id)
  /\ DeleteNode(id, g, deg)
  /\ live' = live \ {id}
  /\ value' = [value EXCEPT ![id] = NoEntries]
  /\ write_set' = [write_set EXCEPT ![id] = {}]
  /\ reads' = [reads EXCEPT ![id] = NoEntries]
  /\ UNCHANGED <<trans_id_cnt, calls>>

-----------------------------------------------------------------------------
(* The handlers *)

\* The handlers under way, which wait for a lock, leave a thread for one more.
Waiting == {id \in Txns : wants[id] # Absent}
FreeWorker == Cardinality(Waiting) < Workers

\* A call of a live transaction reaches the server.
CalledAgain(id) == id \in live /\ FreeWorker  \* faulty variant
Called(id) == id \in live /\ id \notin Waiting /\ FreeWorker

\* transaction_begin()
Begin ==
  /\ FreeWorker
  /\ trans_id_cnt < MaxTxns  \* bound
  /\ trans_id_cnt' = trans_id_cnt + 1
  /\ live' = live \union {trans_id_cnt}
  /\ UNCHANGED <<extent, locked, value, write_set, graph, calls, reads, history>>

\* The wait for key k, once drawn, would close a cycle.
WasCyclic(id, k) == CyQuery(wait_graph, degree)  \* faulty variant
ClosesCycle(id, k) ==
  CyQuery(wait_graph \union {<<id, k>>}, [degree EXCEPT ![k] = @ + 1])

\* get() or set() of a key that is not locked yet, up to the acquire call.  The
\* transaction that would close a cycle is aborted on the spot.
Request(id, k) ==
  LET g == wait_graph \union {<<id, k>>}
      deg == [degree EXCEPT ![k] = @ + 1]
  IN
  /\ Called(id) /\ value[id][k] = Absent
  /\ IF ClosesCycle(id, k)
     THEN EndTxn(id, g, deg)
     ELSE /\ wait_graph' = g
          /\ degree' = deg
          /\ wants' = [wants EXCEPT ![id] = k]
          /\ \E v \in Values \union {Absent} : storing' = [storing EXCEPT ![id] = v]
          /\ UNCHANGED <<locked, trans_id_cnt, live, value, write_set, granted, reads>>
  /\ UNCHANGED <<extent, history>>

\* The test lock_server::acquire() waits on.
AnyLock(k) == k \in Keys  \* faulty variant
LockFree(k) == k \notin locked

\* lock_server::acquire(): whichever waiting handler finds the lock free has it.
LockGranted(id) ==
  /\ id \in Waiting \ granted /\ LockFree(wants[id])
  /\ locked' = locked \union {wants[id]}
  /\ granted' = granted \union {id}
  /\ UNCHANGED <<extent, trans_id_cnt, live, value, write_set, graph, wants,
                 storing, reads, history>>

\* The edge of a request, turned around once the key is locked.
Undrawn(id, k) == wait_graph \ {<<id, k>>}  \* faulty variant
Turned(id, k) == (wait_graph \ {<<id, k>>}) \union {<<k, id>>}

\* The rest of get() and set(): turn the edge of the request around, then read
\* the extent or keep the new value.
Finish(id) ==
  LET k == wants[id]
      v == IF storing[id] = Absent THEN extent[k] ELSE storing[id]
  IN
  /\ id \in granted
  /\ wait_graph' = Turned(id, k)
  /\ degree' = [degree EXCEPT ![k] = @ - 1, ![id] = @ + 1]
  /\ value' = [value EXCEPT ![id][k] = v]
  /\ IF storing[id] = Absent
     THEN reads' = [reads EXCEPT ![id][k] = v] /\ UNCHANGED write_set
     ELSE write_set' = [write_set EXCEPT ![id] = @ \union {k}] /\ UNCHANGED reads
  /\ wants' = [wants EXCEPT ![id] = Absent]
  /\ storing' = [storing EXCEPT ![id] = Absent]
  /\ granted' = granted \ {id}
  /\ UNCHANGED <<extent, locked, trans_id_cnt, live, history>>

\* set() of a key the transaction has locked.  get() of such a key changes nothing.
SetHeld(id, k, v) ==
  /\ Called(id) /\ value[id][k] # Absent
  /\ value' = [value EXCEPT ![id][k] = v]
  /\ write_set' = [write_set EXCEPT ![id] = @ \union {k}]
  /\ UNCHANGED <<extent, locked, trans_id_cnt, live, graph, calls, reads, history>>

\* The writes of a transaction, as a map of its written keys.
Writes(id) == [k \in Keys |-> IF k \in write_set[id] THEN value[id][k] ELSE Absent]

\* transaction_commit()
Commit(id) ==
  /\ Called(id)
  /\ extent' = [k \in Keys |-> IF k \in write_set[id] THEN value[id][k] ELSE extent[k]]
  /\ EndTxn(id, wait_graph, degree)
  /\ history' = Append(history, [reads |-> reads[id], writes |-> Writes(id)])

\* transaction_abort()
Abort(id) ==
  /\ Called(id)
  /\ EndTxn(id, wait_graph, degree)
  /\ UNCHANGED <<extent, history>>

Next ==
  \/ Begin
  \/ \E id \in Txns, k \in Keys : Request(id, k)
  \/ \E id \in Txns : LockGranted(id) \/ Finish(id)
  \/ \E id \in Txns, k \in Keys, v \in Values : SetHeld(id, k, v)
  \/ \E id \in Txns : Commit(id) \/ Abort(id)

Spec == Init /\ [][Next]_vars

-----------------------------------------------------------------------------
(* Properties *)

Entries == [Keys -> Values \union {Absent}]

TypeOK ==
  /\ extent \in [Keys -> Values]
  /\ locked \subseteq Keys
  /\ trans_id_cnt \in 0 .. MaxTxns
  /\ live \subseteq 0 .. trans_id_cnt-1
  /\ value \in [Txns -> Entries]
  /\ write_set \in [Txns -> SUBSET Keys]
  /\ wait_graph \subseteq Nodes \X Nodes
  /\ degree \in [Nodes -> Int]
  /\ wants \in [Txns -> Keys \union {Absent}]
  /\ storing \in [Txns -> Values \union {Absent}]
  /\ granted \subseteq live \cap Waiting
  /\ Waiting \subseteq live
  /\ reads \in [Txns -> Entries]
  /\ history \in Seq([reads : Entries, writes : Entries])

\* A transaction owns a key from the moment the lock server serves it.
Owns(id, k) == value[id][k] # Absent \/ (id \in granted /\ wants[id] = k)

\* The lock server's locks and the server's own maps agree: a lock is taken
\* exactly when one live transaction owns it, so none leaks at the end of a
\* transaction and none has two owners (deadlock_abort, transaction_commit and
\* transaction_abort release what kv_store[id] lists).
LocksOwned ==
  \A k \in Keys :
    Cardinality({id \in live : Owns(id, k)}) = (IF k \in locked THEN 1 ELSE 0)

\* The degrees, kept by hand in five places, are the in-degrees of the graph.
DegreeIsInDegree ==
  \A n \in Nodes : degree[n] = Cardinality(EdgesInto(wait_graph, Nodes, n))

\* Every transaction of D waits, as w says, for a key that another one of D owns.
Deadlocked(D, w) ==
  /\ D # {}
  /\ \A id \in D : /\ id \notin granted /\ w[id] # Absent
                   /\ \E o \in D : Owns(o, w[id])

\* cy_query() is exact at every request any client could make now: it finds a
\* cycle if and only if the wait would be a real deadlock.  Neither a lock
\* served but not yet drawn in the graph, nor an edge left behind, misleads it.
DetectionExact ==
  \A id \in live \ Waiting, k \in Keys : value[id][k] = Absent =>
    (ClosesCycle(id, k)
       <=> \E D \in SUBSET live : Deadlocked(D, [wants EXCEPT ![id] = k]))

\* Every transaction of D waits for a key that one of D owns, or is not waiting
\* and cannot be served, because the handlers of D fill the thread pool.
Stuck(D) ==
  /\ D # {}
  /\ \A id \in D :
       \/ id \in Waiting \ granted /\ \E o \in D : Owns(o, wants[id])
       \/ id \notin Waiting /\ ~FreeWorker /\ Waiting \subseteq D

\* test-lab3-part2-b.cc:1, "the locks are cyclic dependent so it will cause dead
\* lock, ydb_server should solve the problem by abort one transaction": no set of
\* transactions ever waits for itself.
NoDeadlock == \A D \in SUBSET live : ~Stuck(D)

Store == INSTANCE SerialStore WITH store <- extent

\* The server is serializable: it implements the serial store.
SerialSpec == Store!SSpec
=============================================================================
