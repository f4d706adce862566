# TLA+ models of the lab-cse distributed services

The repository holds course work; its core is `src/lab-cse`: an RPC library, a
lock service with client caching, an extent (block) service with a file system
on top, and a transactional key-value server in an optimistic and a two-phase
locking variant. This directory models that core, model-checks it with TLC and
proves the main safety properties with TLAPS. Every definition that stands for
code is listed with its lines in `PROJECT.json` under `map`.

Run from this directory: `tlc -workers 2 -config MCLockCache.cfg MCLockCache`
(and likewise for each row of the table of runs), `tlapm LockCacheProof.tla`.

## Inventory

`lab4` is the most recent and complete copy of the files; the tests of the
key-value server are in `lab3`, whose copies of the modelled files are the same.

| Component (source) | State | Operations | Talks to | Modelled |
|---|---|---|---|---|
| Lock client cache (`lab4/lock_client_cache.cc`) | per lock: `locks` (NONE, FREE, LOCKED, ACQUIRING, RELEASING), `revoke_flag`, condition variable | `acquire`, `release`; handlers `revoke`, `retry` | lock server by RPC both ways | `LockCache` |
| Lock server cache (`lab4/lock_server_cache.cc`) | per lock: queue of client ids, holder first | `acquire`, `release` | calls `revoke`, `retry` on clients from inside its handlers | `LockCache` |
| Optimistic ydb server (`lab4/ydb_server_occ.cc`) | `kv_store[id]`: values seen, write set, valid flag; `transid_cnt` | begin, get, set, del, commit, abort | extent server, inside its mutex | `YdbOCC` |
| 2PL ydb server (`lab4/ydb_server_2pl.cc`) | values, write sets, `wait_graph`, `degree` | the same | extent server; lock server, outside its mutex | `Ydb2PL` |
| Plain lock server (`lab4/lock_server.cc`) | `locks[lid]`, condition variable | `acquire`, `release` | - | in `Ydb2PL` |
| At-most-once layer (`lab4/rpc/rpc.cc`) | client: next xid, outstanding calls, window of finished xids; server: reply window per client, nonce | `call1`, `got_pdu`, `bind`; `dispatch`, `checkduplicate_and_update`, `add_reply` | connections, dispatch pool | `RpcAtMostOnce` |
| Connections and polling (`lab4/rpc/connection.cc`, `pollmgr.cc`) | per connection: `dead_`, the PDUs going out and coming in, `refno_`; watched descriptors, callbacks | `send`, `write_cb`, `read_cb`, `closeconn`, `decref`; the poll loop | the at-most-once layer, by `got_pdu` | `Connection` |
| Dispatch pool (`lab4/rpc/thr_pool.cc`, `fifo.h`) | queue of 1000 jobs, ten threads | `addJob`, `takeJob` | - | no |
| Handle manager (`lab4/handle.cc`) | map of client handles with `refcnt` and `del` | `get_handle`, `safebind`, `done_handle` | lock and extent servers | no |
| Extent cache (`lab4/extent_client.cc`, `extent_server.cc`) | client: cached content with dirty and keep_writing flags; server: readers and current writer of each file | create, get, getattr, put, remove; handlers `refresh`, `require` | each calls the other from its handlers | `ExtentCache` |
| Inode and block manager (`lab4/inode_manager.cc`) | block bitmap, `using_blocks`, inode table, blocks | alloc, free, read, write, remove | called by the extent server | `InodeManager` |
| File system (`lab4/yfs_client.cc`) | none of its own: directories are extents | create, mkdir, lookup, readdir, read, write, unlink, symlink, setattr | lock and extent clients | `FileSystem`, `ExtentCache` |
| Write-ahead log exercise (`handson1/wal-sys.py`) | log, on-disk and in-memory data | begin, create, credit, debit, commit, abort, checkpoint, recovery | - | `Wal` |
| Plain ydb server and client, marshalling, logging, fuse glue, testers | - | stateless | - | no |
| `lab1`, `lab2`, `lab3`, `src/lab-ics`, `src/lab-ml` | - | - | - | no: earlier copies, and unrelated exercises |

What is hard, and what makes each part correct:

- *Lock cache*: client threads, handler threads and server handlers interleave,
  the mutexes are dropped around every call, a `retry` can overtake the answer
  that announces it, a `revoke` can reach a client that does not have the lock
  yet. Correct means: one thread in, no revoke or grant lost or left over, the
  server's front really holds the lock, everybody is served.
- *ydb, optimistic*: a commit must doom exactly the transactions that saw what
  it overwrites; committed transactions must be serializable.
- *ydb, 2PL*: the wait graph is stale while the mutex is dropped, degrees are
  counted by hand, several handlers wait for one lock. Correct means: no
  deadlock, no needless abort, no leaked lock, serializable.
- *At-most-once layer*: loss, duplication, reordering, time-outs, a server
  restart. Correct means: no call runs twice, no needed reply is forgotten, no
  call is refused that was not executed.
- *Connections*: one buffer for all senders, a poll thread that finishes what
  they began and calls back without its lock, reference counts that decide
  about deletion, a peer that may close at any moment. Correct means: PDUs stay
  whole, `send` tells the truth and returns, nobody uses what is deleted.
- *Extent cache*: write-back copies in several clients, with no mutex in any
  handler and calls in both directions. Correct means: clean copies are
  current, no update is lost.
- *Inodes and directories*: the bitmap against the blocks in use, growing and
  shrinking files, a full disk, no inode left, an entry for every inode.
- *Log*: a crash between any two writes, in recovery's aftermath too; several
  transactions on one account.
- *Pool*: handlers that call back into clients wait in the pool their own
  answers need. *Handles*: a client that cannot be bound.

`PROJECT.json` lists each of these at its line under `hazards`.

## Modules

| Module | Lines of the system it stands for |
|---|---|
| `LockService` | abstract: a line of clients, the head owns the lock, one thread inside |
| `LockCache` | both cache classes, for one lock id; implements `LockService` |
| `LockCacheTimeout` | `LockCache` plus acquire calls that end in `timeout_failure` |
| `LockCacheProof` | theorems about `LockCache` |
| `SerialStore` | abstract: transactions run one at a time, in commit order |
| `YdbOCC`, `YdbOCCProof` | `ydb_server_occ`; implements `SerialStore` |
| `Ydb2PL`, `Ydb2PLProof` | `ydb_server_2pl`, `lock_server` and the pool's threads; implements `SerialStore` |
| `RpcAtMostOnce`, `RpcAtMostOnceProof` | `rpcc` and `rpcs` |
| `Connection`, `ConnectionProof` | `connection`, `PollMgr` and `SelectAIO`, for one descriptor |
| `ExtentCache`, `ExtentCacheProof` | `extent_client` and `extent_server` for one file, with the calls and locks of `yfs_client` |
| `InodeManager` | `disk`, `block_manager` and `inode_manager`, as operators on a record |
| `FileTree` | abstract: every name has a content of its own |
| `FileSystem`, `FileSystemProof` | `yfs_client` on one directory over `InodeManager`; implements `FileTree` |
| `Wal`, `WalProof` | `wal-sys.py` |
| `MCLockCache`, `MCYdbOCC`, `MCYdb2PL`, `MCExtentCache`, `MCFileSystem`, `MCWal` | symmetry, views and constraints for TLC |

Definitions marked *faulty variant* are not part of a specification. Each is
one plausible mistake in the definition below it, and under `mutants` stands
the property that fails when the mistake is made.

### LockCache

One action is one critical section. `acquire()` is the family `TryLock` (first
test and the loop on `FREE`), `CallServer`, `AcquireReturns`, `AcquireRetries`
and `AwaitGrant` (the loop on `FREE` or `LOCKED`); `release()` is
`ReleaseLocally`, or `ReleaseToServer` and `ReleaseReturns`. `waiting[c]` is
the wait set of the one condition variable both loops share: `Signal` wakes
some member, `SpuriousWake` any. The calls are state: `acq`, `rvk`, `rel` hold
the phase of each call between its send and its return, `rvkTo` and `retryTo`
the client a server handler calls. The server's handlers are `ServerGrants`,
`ServerRevokes`, `ServerAnswers` (the result of `revoke` is the result of
`acquire`) and `ServerReleases`.

Abstractions: one lock id (the classes keep everything per id and the mutexes
are held too briefly to couple ids); `safebind` succeeds; each handler has a
thread (a full pool is not modelled); calls are delivered, except in
`LockCacheTimeout`.

### YdbOCC, Ydb2PL, SerialStore

A key is the extent id that `SDBMHash` makes of a name, so two names that
collide are one key. Handlers that hold `ks_mutex` throughout are one action.
`history`, `reads` and `begun` are history variables. In `Ydb2PL`, `Request` is
`get()` or `set()` up to the acquire call, `LockGranted` the lock server's
answer to whichever waiting handler it lets in, `Finish` the rest under the
mutex. `CyQuery` takes nodes of degree zero away as `cy_query()` does, all
that there are in a round and not one after the other: what is left at the end
is the same. `EndTxn` releases all locks in one step: the code does it one by
one, but a handler that
gets a lock early cannot go on before `ks_mutex` is free. A client has one call
under way. `Workers` is the number of threads of the pool that runs handlers.

A transaction that commits appends what it read and wrote to `history`;
`SerialStore` says that its reads are the current content and that its writes
replace it, in one step.

### RpcAtMostOnce

The network is the set of requests that have been sent (`request`, with
`xid_rep` and the server nonce in the header) and the set `replies`: anything
sent may be delivered late, repeatedly, in any order, or never. The client's
window is a set: the code's list is sorted, and a copy in it changes neither its
front nor what `Compress` drops. `DispatchNew`, `DispatchOld` and `OldServer`
are `dispatch()` with the answers of `checkduplicate_and_update()`; `Reply` is
the handler's return with `add_reply()`. `Restart` replaces the server by one
with a new nonce.

### Connection

A step is what a thread does under `connection::m_` or `PollMgr::m_` without
letting go of it; `thread` says where each is. `SendHead` is `send()` up to its
first wait, `SendCompletes` and `SendFails` the rest after `send_complete_` and
after `block_remove_fd`, which is `BlockRemove` and `Removed`. The poll thread
goes through `PollHead` (the pending change), `PollWait` (the copy of the
descriptor sets), `PollReady` (what `select` found), `PollTests` (the tests of
`callbacks_[fd]`, lines 116 and 122), `PollRead` and `PollWrite` (the calls);
what it found may be stale by then, and that is the point. `ReadPdu` lists what
`readpdu()` may do, the stale `errno` of a peer closing inside a PDU included.
The owner is `rpcc::chan_` or the `tcpsconn` map, which replaces a dead
connection or closes a live one. `awake` holds the threads a condition
variable has woken. The waits of `send()` are in loops that test again, so a
spurious wake-up of them changes nothing. The wait of `block_remove_fd`
(`pollmgr.cc:66`) is not in a loop: `SpuriousReturn` is its end with nobody's
broadcast, and the history `spurious` says that there has been one. The poll
thread may then call what is gone, `PollCallsNobody`. `aborted` is the end of the
model, by a failed `VERIFY` or by such a call.

### ExtentCache

One file and its name. An operation of `yfs_client` is the list `todo` of the
extent calls it still has to make, under the lock of the file; `lookup` makes
its get without that lock, as its commented-out acquire does. `phase[c]` follows
c's call through the client, the server's handler, and the handlers that one
calls: `Require` and `ServerStores` are the writer's copy on its way to the
server, inside a reader's get; `TellNext` and `Refresh` the loop of
`refresh_client`, one client after the other, with the writer forgotten before
it is told. A client makes one call at a time because `fuse_session_loop`
(`fuse.cc:607`) is one thread. Of the attributes the size is modelled, which
goes with the content; `attr_dirty` says whether it is current. The type and the
times are not: `put` sets neither the type nor the times of the server, and
marks them clean all the same.

### InodeManager, FileSystem, FileTree

The inode manager is a record `im` and operators on it. That one of its methods
runs as a whole is an assumption: nothing in the extent server orders the ten
threads of its pool (see the limits). A chunk is a block's worth of data; a file
has `NDIRECT` blocks in the inode and `NINDIRECT` through the indirect block,
whose table is written to disk like data. `Flipped` is the exclusive or in
`free_block`, once for every time a block is among those freed, and
`WriteBlocks` keeps the last of the writes of a block. `FreeBlocks` frees what
the loops visit, which is one block even of an empty file and never the indirect
block (history `lost`). `FileSystem` keeps the root directory in that inode
manager as a file of entries. When all inodes are in use, `AllocInode` answers 0
and `Create` lists the name with that number, as the code does, because neither
`extent_server::create` nor `yfs_client::create` looks; `HasInode` are the names
that have a file. What writes to or removes a name with inode 0 follows a NULL
inode: `ServerDies`, after which `down` holds and nothing goes on. `FileTree`
has `MaxFiles` for this, all inodes but the root's: a create beyond them makes
no file. `im.full` says that an allocation has failed: the step in which it does
is checked, then the exploration ends.

### Wal

A command that logs and then writes is two steps, `LogUpdate` and `WriteToDisk`;
`end` is one step per write that it flushes. `LogUpdate` has the guards of
`is_valid_command` and no others, so transactions may work on one account in any
order. The history `clashed` collects the accounts on which that happened:
`UsedAlone` says that no other transaction that is still at work has an update
of the account (in redo mode a transaction is at work until its `end`), and that
in undo mode an account is not created over what recovery has restored. `Crash`
is `do_crash()`, which dumps the database; `Dies` is an exception (`abort`
raises one: it calls `close` and `tild`, which do not exist), after which
nothing is dumped and nothing is promised. Recovery is `RollBack`, then
`ForwardScan` in redo mode, and `Conclusions`, what is appended to the log.
`Line` is one turn of the loop of `roll_back`, and `Scan` a function on the
places of the log: what the loop has found when it has read back to that line.
`over` stands for its `break`.

## Runs

| Run | Instance | States what |
|---|---|---|
| `lock_cache` | 3 clients, 2 threads each | `MutualExclusion`, `HolderIsFront`, `RevokedOnce`, `RetryIsTaken`, implements `LockService`; no deadlock |
| `lock_cache_live` | 3 clients, 1 thread each | `ClientServed`: a client that asks the server gets the lock |
| `lock_cache_signal` | 2 clients, 2 threads each | `ClientServed` **fails** |
| `lock_cache_timeout` | 2 clients, 1 thread each | `MutualExclusion` **fails** once calls time out |
| `ydb_occ` | 3 transactions, 2 keys, 2 values | `ValidReadsCurrent`, `DoomedByConflict`, implements `SerialStore` |
| `ydb_2pl` | 3 transactions, 3 keys, 2 values, 3 workers | `LocksOwned`, `DegreeIsInDegree`, `DetectionExact`, `NoDeadlock`, implements `SerialStore` |
| `rpc` | 4 calls, 1 restart, calls may give up | `AtMostOnce`, `ReplyKept`, `XidRepExact`, `PatientNotRefused` |
| `extent_cache` | 3 clients, 2 contents, 1 lookup at a time | `Coherent`, `NotLost`, `KeepsWritingAlone`, `RequiredHasItem`; no deadlock |
| `file_system` | 3 names, 3 inodes (2 but the root's), 8 blocks, 1 direct and 2 indirect blocks per file | `InodesListed`, `BlocksOwned`, implements `FileTree` |
| `connection` | 2 senders, PDUs of 2 pieces, a socket that holds 1, 2 pieces coming in | `PdusWhole`, `SendTellsTheTruth`, `DeletedUnused`, `NobodyForgotten`, `SendReturns`, `CloseNoticed` |
| `connection_dead_cb` | the same | `WriteCbAlive` **fails** |
| `wal` | 2 transactions, 2 accounts, 2 values, 3 updates, 1 checkpoint, 1 crash | `Survivable`, `RecoveryEnds`, `OneOutcome` |

Passing runs with a `TypeOK` check that too.

The bounds. Three clients are the fewest in which a client is revoked while it
waits for its own grant and another one queues behind; two threads make the
condition variable shared and let a thread use a cached lock. Two keys and three
transactions give write skew, a doomed transaction that goes on, and an
invalidation of two; the second value tells an overwritten extent from a fresh
one. The wait graph gets three transactions on three keys: cycles of length two
and three, and a chain into a cycle; its `VIEW` leaves out the history, which no
handler reads. Four calls (a bind and three) are what a refused call needs.
Three clients of the extent cache are a writer, the writer before it and a
reader. Eight blocks are fewer than two files and a directory can use with the
blocks that get lost, so the disk does fill up; three names are one more than
the inodes there are for them, so that a create finds none; two indirect blocks
reach both ends of a table. A socket that holds less than a PDU makes `write_cb`
finish what `send` began. Two transactions and three updates let one transaction
overwrite what another committed, before its `end` or after it, and go on; the
crash of `MaxCrashes` is followed by the one that `Survivable` supposes in every
state, so recovery after recovery is covered.

Three runs look at part of what their specification allows. `extent_cache` has
the constraint `Unmixed`: nothing is promised once a lookup has overlapped a
put. `wal` has `Dumped`: nothing is promised once the process has ended without
a dump. `file_system` ends at the full disk, and where the server dies. Two more
properties have a premise about the history: `Survivable` is about accounts not
in `clashed`, and one conjunct of `DeletedUnused` about states before a
spurious return. The states where the premise fails are in the runs all the
same, and the other properties are checked in them.

`CHECK_DEADLOCK FALSE` is set where the numbers of transactions, calls, crashes
or pieces are bounded and the system stops at the bound, and in `file_system`,
which stops at the full disk or with the server. `LockCache` and `ExtentCache`
run for ever and are checked for deadlock.

### Fairness

`FairSpec` asks for weak fairness of each thread's own steps, of each handler
and of the holder's release: threads are scheduled, RPC handlers run, and the
file system and the tester release what they acquire. There is none on
`Acquire` (nobody need ask) nor on `SpuriousWake` (nobody may count on it).
`ClientServed` is a promise to a client, not to each thread: a thread that
comes back quickly may overtake a sibling for as long as nobody revokes.

`Connection` has weak fairness of each sender, of the owner's closing once
begun, of the poll thread and of a peer that is there and reads: they are
threads and processes that run on. There is none on a peer sending or closing,
on taking references or on closing the connection.

### Where code and comments part

- `lock_cache_signal`: `retry_handler` wakes one thread of a condition variable
  that two loops share. If it wakes a thread that waits for `FREE`, that one
  sleeps again, and the thread the grant was for is never woken: the client
  holds the lock, nobody uses it, and the server's queue stands still. With
  broadcasts in place of the signals the property holds.
- `lock_cache_timeout`: `acquire()` tests the result of its call for `RETRY`
  only, so a call that timed out counts as a grant. In the run two such calls
  time out before the server has handled either.
- `connection_dead_cb`: `send()` marks a connection dead and only then takes its
  descriptor out of the poll set. If an earlier sender had asked for
  `CB_WRONLY`, the poll thread may already have found the descriptor writable:
  `write_cb` begins with `VERIFY(!dead_)`, and the process ends. `read_cb` tests
  `dead_` instead.
- `pollmgr.cc:57-59` says that the return of `block_remove_fd` guarantees that
  the callbacks of the descriptor will never be called again. It waits without a
  loop (line 66), so a spurious wake-up lets it return while the poll thread is
  between its test of `callbacks_[fd]` and the call. Without `spurious` in its
  last conjunct `DeletedUnused` fails: the connection is deleted under the poll
  thread.
- `rpc.h:273` calls `FORGOTTEN` a "duplicate of an old RPC"; the server answers
  it to any xid below the front of its window. After a call that timed out
  without reaching the server, a request overtaken by a younger one is refused
  although nobody executed it. While no call gives up it cannot happen
  (`PatientNotRefused`).
- `rpc.cc:653` says that requests up to `xid_rep` are deleted; the code
  (`rpc.cc:706`) keeps the one that equals it. The code is right: with the
  comment's version (`DeletedUpTo`) `PatientNotRefused` fails.
- `lookup` without the directory's lock (`yfs_client.cc:275`): when its get
  overlaps another client's put, the server may forget the writer in the middle
  of the put, or the reader may store an old copy as clean. `Coherent` and
  `NotLost` then fail; without the constraint `Unmixed` and the premise
  `~mixed` TLC shows how.
- `extent_client.cc:98` marks all attributes clean after a `put`, the type
  included. `get` makes an entry with type 0 (line 52), and only `getattr` of a
  dirty entry asks the server for the type: after a `lookup` and a `create` in a
  directory the client has not used before, `isdir` denies that it is one, until
  another client's write marks the entry dirty. The type is not modelled.
- `inode_manager.cc:130` answers 0 when all inodes are in use, and nobody looks
  (`extent_server.cc:24`, `yfs_client.cc:216`): `create` answers OK and lists
  the name with inode 0, and from then on `create` of it answers EXIST.
  `InodesListed` and `TreeSpec` hold beside such names.
- `wal-sys.py:392`, redo mode: a transaction commits and does not end, another
  one writes its account, commits and ends, and the program crashes. Recovery
  finds the first one committed and not ended and redoes its value over the
  committed value of the second.
- `wal-sys.py:380`, undo mode: `recover` assigns `current_db` as a local variable,
  so that after a restart no account exists in memory. `create_account` of one
  that is on disk is accepted (line 70) and logged without an old value, and when
  it is undone the account is deleted. Undoing also fails two transactions that
  wrote one account. `Survivable` without `clashed` fails in all these ways.
- `wal-sys.py:454` names `EMPTY`, which is not defined: after a checkpoint
  between a transaction's commit and its end, recovery raises `NameError`
  (the first case of `RecoveryEnds`; the second is the `KeyError` of undoing a
  `create_account` that was logged and not yet written).

## Proofs

For every value of the constants that meets the named assumptions, which say
that a bound is a number, that sets whose size is counted are finite, and that a
sign for "nothing" is no value. `DeadlockFree` alone has a hypothesis of its own.

| Module | Theorems |
|---|---|
| `LockCacheProof` | `InvHolds` (`[]Inv`), `TypeCorrect` (`TypeOK`), `Exclusive` (`MutualExclusion`), `FrontHolds` (`HolderIsFront`), `RetryTaken` (`RetryIsTaken`), `RevokesRight` (`RevokedOnce`), `Refinement` (`ServiceSpec`) |
| `YdbOCCProof` | `TypeCorrect`, `ValidReads` (`ValidReadsCurrent`), `OnlyConflictsDoom` (`DoomedByConflict`), `Serializable` (`SerialSpec`) |
| `Ydb2PLProof` | `TypeCorrect`, `LocksAgree` (`LocksOwned`), `Serializable` (`SerialSpec`), `DegreesRight` (`DegreeIsInDegree`), `DetectionRight` (`DetectionExact`), `DeadlockFree` (`NoDeadlock`, if `Workers >= MaxTxns`) |
| `RpcAtMostOnceProof` | `TypeCorrect`, `NeverTwice` (`AtMostOnce`), `RepliesKept` (`ReplyKept`), `WindowExact` (`XidRepExact`), `PatientServed` (`PatientNotRefused`) |
| `ExtentCacheProof` | `InvHolds`, `TypeCorrect`, `CleanIsCurrent` (`Coherent`), `NothingLost` (`NotLost`), `OneKeepsWriting` (`KeepsWritingAlone`), `RequiredHas` (`RequiredHasItem`) |
| `FileSystemProof` | `Invariance` (`[]Inv`), `InodesListedOnce` (`InodesListed`), `BlocksOwnedOnce` (`BlocksOwned`), `ImplementsFileTree` (`TreeSpec`) |
| `ConnectionProof` | `InvHolds`, `TypeCorrect`, `PdusStayWhole` (`PdusWhole`), `TruthTold` (`SendTellsTheTruth`), `DeletedRight` (`DeletedUnused`), `NobodySleepsOn` (`NobodyForgotten`) |
| `WalProof` | `Invariance` (`[]Inv`), `CommittedSurvive` (`Survivable`), `RecoveryTerminates` (`RecoveryEnds`), `OutcomesAgree` (`OneOutcome`) |

Each proof has one lemma per action, and in it a step for each part of the
invariant that the action can disturb; TLC has checked each invariant first.

*LockCache.* No assumption. Mutual exclusion is not inductive: whether a thread
may enter depends on the client's state, that on the server's queue, and that
on calls in flight. `Inv` therefore has four parts. `QueueInv`: the queue has no
duplicate, holds exactly the clients that own or await the lock, and only its
front owns, releases or has been granted. `ClientInv`: at most one thread of a
client is between its call and the end of the tenure, in a place that agrees
with the client's state. `RevokeInv`: the life of a revoke call, on its way to
the client just before in the queue, under way, done; it is what makes an OK
answer of `acquire` mean that the lock is free. `RetryInv` with `OneRetry`: the
client a retry goes to is the new front and still waits. `RevokedOnce` counts,
for each client of the queue, its revoke flag, its call to release and the
revokes on their way to it. That there is no more than one follows from `Inv`
alone, for it says who sends a revoke to whom; that there is one needs `AllAsked`
besides. `Refinement` maps `queue` to the line and the threads at `"locked"` to
the inside.

*YdbOCC.* From `ValueAssumption` and `BoundAssumption`. `ValidReadsCurrent` needs
two facts more: a transaction that was told something has an entry
(`EntriesKept`), so a commit that overwrites it finds it; and an id not yet given
out has no entries (`FreshTxns`). At a commit the reads are then current, which
is a step of `SerialStore`. `DoomedByConflict` needs that a transaction begins
valid and after all commits so far (`Begun`).

*Ydb2PL, serializability.* From `ValueAssumption`, `KeyAssumption` and
`BoundAssumption`. A key has one owner (`OneOwner`), an owned key is locked
(`OwnedLocked`) and a locked key is owned (`LockedOwned`), where an owner is a
transaction that has an entry or whose acquire call has been served. Reads then
stay current (`ReadsCurrent`), because only the owner writes. `CyQuery` plays no
part here: the server is serializable and leaks no lock whatever the cycle check
answers.

*Ydb2PL, deadlock.* From the same assumptions. First, `cy_query()` is right: on
a finite graph whose degrees are counted right its rounds end with nothing left
if and only if there is no set of nodes (but the empty one) each of which has an
edge into the set. The rounds are a recursive function; `Recursion` and
`RoundsRecursion` show that there is one, from the least number principle, which
the well-foundedness of the naturals gives. Second, `GInv`: although handlers
draw edges, drop the mutex, release and abort in between, the graph says at
every moment who waits for what and who holds what (`GraphExact`), its degrees
are right, and it is acyclic, because an edge is drawn only after the question
whether it closes a cycle. Third, a set of transactions that wait for each other
is a cycle of the graph, and the other way around. So the server aborts exactly
when it must. That somebody can always go on needs a thread of the pool for each
transaction, and that is the hypothesis of `DeadlockFree`: the code's pool has
ten threads for any number of clients.

*RpcAtMostOnce.* From `BoundAssumption`. Two arguments meet. The client's
window is exact (`WindowOf`): it has a front up to which every call is finished,
the next is not, and beyond it the window lists the finished calls.
`UpdateExact` shows that `update_xid_rep` keeps it so, whatever call finishes
next; where it fills the gap behind the front, the new front is the least xid
whose successor is missing, which exists because the naturals are well-founded.
So what a request says is finished is finished (`RequestsHonest`). Then the
server may delete what lies below: a call it has executed is remembered or below
all that is remembered, and as long as its caller waits it is remembered
(`Remembered`), because its own xid is never among the finished ones. A
duplicate is therefore never taken for a new call (`ExecutedOnce`).
`PatientServed` rests on `AnswerInv`: while nobody has given up, every finished
call was executed, so that all calls up to the front of the server's window were
(`FrontExecuted`), and only those are refused as forgotten. A window
that is empty would take any call for its front, whatever came before it; that
the window of an instance is not empty once it has answered a bind is
`AnsweredRemembers`, and that all requests but the one bind carry the nonce of
such an instance is `BoundOnce`.

*ExtentCache.* From `ContentAssumption`. `Inv` has two parts. `Structure` holds
always: which calls a client can be making (`CallsFit`), where each can be
(`PhasesFit`, `AskedFits`, `TellingFits`), that the server knows everybody who
has a fresh entry (`Known`) and that its writer has one (`WriterHasItem`). So
the writer that is asked for its copy has it (`AskedFits`), on which the
`require` handler relies without looking: `RequiredHasItem`. `Data` holds until
a lookup has overlapped a put: lookups and puts are then apart, so that either
one put is under way alone or only reads are. What travels in a reply, what the
writer has when it is asked and what the server has when there is no writer is
what was last put, and a client that keeps writing is the writer and the only
one with a fresh entry (`KeepsAlone`), unless a refresh is on its way to it.

*Connection.* From `SizeAssumption`, `BoundAssumption` and `ThreadAssumption`
(finitely many senders, the owner none of them). `wpdu_` belongs to the one
sender that waits for its completion or that is on its way through
`block_remove_fd` (`Holder`); while the connection lives, a PDU in it is watched
for by the poll thread (`Alive`), and a dead connection is called back only
while somebody removes its descriptor (`Removing`). With `Counted` and
`OwnerRole` this gives the reference counts of `DeletedUnused`, whatever wakes
the waits. That the poll thread is not about to call is another invariant,
`Away` (`AwayHolds`): until a wait of `block_remove_fd` returns spuriously,
whoever has been let out of it finds the poll thread past its loops. `Written`
says that every piece lies where its number modulo the size of a PDU says, and
that the stream ends where `wpdu_.solong` says; the lemma `WriteOn` is what any
`write()` makes of that, and is used for the first write of `send()` and for
those of `write_cb`. `SendTellsTheTruth` and `NobodyForgotten` are then
inductive together with the rest.

*FileSystem.* From `SizeAssumption` (numbers of inodes and blocks, at least one
direct block, and the chunk of zeros among the values) and `AbsentAssumption`.
`Inv` speaks of a state that has not found the disk full, and has two layers.
`Sound(m, S)` is about blocks: each of the files `S` was never written or is
laid out, its blocks and its indirect block all there and each in one place; no
block is shared; the used blocks are those of the files and the lost indirect
blocks; the bitmap agrees. It has the set of files as a parameter because
`write_file` passes through a state in which one file has none: `FreeSound`
takes the file out of `S`, `AllocSound` puts it back with its new content. Why
the bit is right although it is flipped: a file never written frees only block
0, for which nobody looks at the bit, and any other has each block once
(`FlippedOnce`). Why the blocks given are free and different: `Alloc` takes them
by their rank among the free ones, and a set has a member of each rank
(`RankExists`). `Filed` is about the directory: it lists every allocated inode
but the root once, with a content of the right kind; the names with inode 0 are
left out, and there are as many files as `MaxFiles` exactly when a create finds
no inode. The lemmas `CreateStep`, `UnlinkStep` and `WriteStep` say what each
operation does to `Sound`, to `Filed` and to the tree; when the write finds the
disk full, they still say that the other files stay, which is the rest of
`TreeSpec`.

*Wal.* From `ValueAssumption` and `BoundAssumption`. The properties speak of what
recovery would compute from the log as it stands, so there are two questions:
what `roll_back` finds in a log, and what logs there can be.

The scan is read line by line. `After` says what it has found when it is at line
*k* and has met no checkpoint: who has ended, who has an outcome and no end (the
winners), who has neither (the losers), and the database with the updates of
losers from *k* on undone. `Before` says the same beyond the checkpoint, where
the scan knows a transaction from the checkpoint's lists too, and may stop early.
`Backwards` carries a fact from the end of the log to its first line; that is an
induction over the places, from the well-foundedness of the naturals, and not
over the data. The whole log then gives `Leaves` (undo mode: an account has what
the first update of a loser found in it, or what is on disk) and `Brings` (redo
mode: it has the last update of a transaction that committed and did not end, or
what is on disk).

`Inv` is about the program. The log is well formed (`LogGood`): the lines of a
transaction come in order, it has at most one outcome, and that before its end,
and what a checkpoint lists is right. `tid_stat` agrees with it (`StatusOK`). In
undo mode the transactions of earlier processes are settled by the lines
recovery added (`Settled`); in redo mode they have ended or will be ignored. No
two transactions at work have updates of the same account, if it is not in
`clashed` (`Alone`): that is what `clashed` means, and without it undoing one
could undo another. What is said of data is said of the accounts not in
`clashed`: in undo mode the disk with the updates to undo taken back is
`committed`, the last of them is on disk unless it is just being written, and
only the first can have found no account, so that none of the others fails
(`UndoData`); in redo mode the disk with the updates to redo is `committed`
(`RedoData`), the last pending write of an account is the last update in the log
(`Pending`), and what the flush has passed is on disk (`Flushed`). A crash in
the middle of a flush is then harmless, since what is written is written again.
TLC has checked `Inv` over the run's instance.

Only model-checked: `ClientServed`, `SendReturns` and `CloseNoticed`, because
liveness is beyond the prover. Every invariant and every refinement that a
passing run checks is a theorem.

## Limits of the models

- `NoDeadlock` is checked with one worker per transaction. With more clients
  than the ten threads of the pool, handlers that wait for a lock can fill it,
  and the commit that would free the lock is not dispatched until calls time
  out.
- A commit of either ydb server is one step. The code writes extent after
  extent and keeps no log: a crash in between is outside these models, as is
  the lock server's memory of the locks of a server that died.
- A client of `Ydb2PL` that gives up on a waiting call and calls again is not
  modelled.
- `LockCache` assumes that clients stay alive. When `safebind` fails, the
  server's `acquire` returns with its mutex locked.
- `Connection` has one descriptor and one owner. `closeconn` wakes no sender
  that waits, so `SendReturns` excepts a connection closed over a sender's head;
  a peer that stops reading without closing holds a sender for ever, so fairness
  asks it to read. `dispatch` of a request for an old server (`rpc.cc:533`) never
  gives its reference back.
- `ExtentCache` assumes that clients stay alive (the result of `safebind` is
  not tested) and that a thread of the server is free for the put that a
  `require` causes inside a get; a file is unlinked when nobody is using it,
  since `unlink` holds only the directory's lock.
- `ExtentCache` has the content and the size; not the type and the times of the
  attributes.
- `FileSystem` has one directory and one operation at a time: the methods of the
  inode manager are not interleaved, although operations on different files have
  different locks and the server has ten threads and no mutex. Names neither
  contain each other nor occur in a number (`unlink` searches the directory for
  the letters), are listed when unlinked, and contents and directory fit in
  `MAXFILE` blocks. What happens after the disk was found full, or after the
  server followed a NULL inode, is not explored. Every client that starts
  empties the root directory (`yfs_client.cc:18`).
- `Wal` takes a fresh tid for each transaction (the check at line 61 tests a
  command type that never occurs), and the mode does not change from run to run.
  Which transaction works on which account is left open, but `Survivable` says
  nothing of an account on which two were at work, where "at work" lasts until
  `end` in redo mode and until the outcome in undo mode, or which was created
  in undo mode over what recovery restored. After a restart the in-memory database
  is empty, and accounts have to be created again.

## Not modelled

The dispatch pool on its own (its threads are counted in `Ydb2PL`, and
`Connection` lets it refuse a PDU) and the handle manager, whose reference
counts matter only once a client cannot be bound; marshalling, logging, the fuse
binding and the testers, which keep no state a property is about; the plain ydb
server, which forwards. `lab1` to `lab3` hold earlier states of the files
modelled in `lab4`, so modelling them would say the same things again; the other
courses' labs are exercises without concurrency or state.

## Plan

Done: every part listed as modelled above, and the proofs of all their
invariants. Next, in order:

1. `DispatchPool` with handlers that call back, composed with the lock service.
2. `HandleMgr`, and a variant of `LockCache` with dead clients.
3. Several directories, and `FileSystem` over `ExtentCache`.
4. Crash variants of the ydb servers; abandoned calls in `Ydb2PL`.
