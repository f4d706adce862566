----------------------------- MODULE ExtentCache -----------------------------
(***************************************************************************)
(* The write-back cache of the extent service for one file: extent_client  *)
(* in every client process and extent_server, with the operations of       *)
(* yfs_client that drive them.                                             *)
(*                                                                         *)
(* A client keeps a copy of the file.  The client that last wrote through  *)
(* keeps writing in its own copy only; the server asks it for the content  *)
(* (require) when somebody else reads, and tells all others that their     *)
(* copies are out of date (refresh).  Neither side takes a mutex; what     *)
(* orders the operations is the lock of the file.  lookup() alone reads    *)
(* without it.                                                             *)
(*                                                                         *)
(* Of the attributes, the size is modelled.  The type is not: a get() that *)
(* finds no entry gives it 0, a put() then marks it clean, and only        *)
(* getattr() of a dirty entry brings the inode's.  Nor are the times: each *)
(* put() takes its client's clock, and each write_file() the server's.     *)
(***************************************************************************)
EXTENDS Naturals, Sequences, FiniteSets

CONSTANTS Clients,  \* processes with an extent_client
          Values,   \* contents of the file; one also stands for its size
          Empty,    \* the content of a new file
          Nobody,
          MaxLookups  \* bound: lookups under way at a time

ASSUME ContentAssumption == Empty \in Values /\ Nobody \notin Clients

VARIABLES
  \* extent_server, client_map[eid] and the inode
  content, clients, current_writer,
  \* extent_client, file_cache[eid]
  cached,       \* the clients that have an entry
  item,         \* the entries, of attr the size alone
  \* the calls: at most one per client, for fuse_session_loop is one thread
  todo,         \* the calls the client's operation has still to make
  phase,        \* where the first of them has got to
  asked,        \* the writer that the handler of c's call has required
  carry,        \* the content on its way, to the server or back
  told, telling,\* refresh loop: the clients done with, the one being called
  \* the lock service, and the directory that names the file
  lock, linked,
  \* history
  latest,       \* the content last put
  mixed         \* a lookup has overlapped a put

server == <<content, clients, current_writer>>
cache == <<cached, item>>
call == <<todo, phase, asked, carry, told, telling>>
vars == <<server, cache, call, lock, linked, latest, mixed>>

\* What stands where a client has no entry
NoItem == [buf_dirty |-> FALSE, attr_dirty |-> FALSE, keep_writing |-> FALSE,
           buf |-> Empty, size |-> Empty]
Items == [buf_dirty : BOOLEAN, attr_dirty : BOOLEAN, keep_writing : BOOLEAN,
          buf : Values, size : Values]
Phases == {"idle", "sent", "require", "store", "tell others", "stored",
           "read", "tell", "reply", "apply"}

\* The calls the operations of yfs_client make while they hold the lock.
Scripts == {<<"get">>,          \* read, readdir, readlink
            <<"getattr">>,      \* isfile, getfile, getdir, getsymlink
            <<"get", "put">>}   \* write, setattr, addtoparent and unlink on a directory

Init ==
  /\ content = Empty /\ clients = {} /\ current_writer = Nobody
  /\ cached = {}
  /\ item = [c \in Clients |-> NoItem]
  /\ todo = [c \in Clients |-> << >>]
  /\ phase = [c \in Clients |-> "idle"]
  /\ asked = [c \in Clients |-> Nobody]
  /\ carry = [c \in Clients |-> Empty]
  /\ told = [c \in Clients |-> {}]
  /\ telling = [c \in Clients |-> Nobody]
  /\ lock = Nobody /\ linked = FALSE
  /\ latest = Empty /\ mixed = FALSE

Doing(c, m) == todo[c] # << >> /\ Head(todo[c]) = m
At(c, p) == phase[c] = p
Goto(c, p) == phase' = [phase EXCEPT ![c] = p]

LookingUp(c) == todo[c] # << >> /\ lock # c /\ Head(todo[c]) = "get"
Putting(c) == Doing(c, "put") /\ ~At(c, "idle")

-----------------------------------------------------------------------------
(* The file system's operations: yfs_client *)

\* An operation begins: lc->acquire(ino).
Acquire(c) ==
  /\ linked /\ todo[c] = << >> /\ lock = Nobody
  /\ lock' = c
  /\ \E s \in Scripts : todo' = [todo EXCEPT ![c] = s]
  /\ UNCHANGED <<server, cache, phase, asked, carry, told, telling, linked, latest, mixed>>

\* lookup(), whose acquire is commented out
Lookup(c) ==
  /\ linked /\ todo[c] = << >>
  /\ Cardinality({d \in Clients : LookingUp(d)}) < MaxLookups  \* bound
  /\ todo' = [todo EXCEPT ![c] = <<"get">>]
  /\ mixed' = (mixed \/ \E d \in Clients : Putting(d))
  /\ UNCHANGED <<server, cache, phase, asked, carry, told, telling, lock, linked, latest>>

\* Faulty variant: an operation that returns keeps the lock.
CallDoneLocked(c) ==
  /\ todo' = [todo EXCEPT ![c] = Tail(@)]
  /\ Goto(c, "idle")
  /\ carry' = [carry EXCEPT ![c] = Empty]
  /\ lock' = lock

\* The operation goes on with its next call, or returns and releases the lock.
CallDone(c) ==
  /\ todo' = [todo EXCEPT ![c] = Tail(@)]
  /\ Goto(c, "idle")
  /\ carry' = [carry EXCEPT ![c] = Empty]
  /\ lock' = IF lock = c /\ Len(todo[c]) = 1 THEN Nobody ELSE lock

\* create() and symlink(): the new file has the client's name for it only later.
Create(c) ==
  /\ ~linked /\ \A d \in Clients : todo[d] = << >>
  /\ todo' = [todo EXCEPT ![c] = <<"create">>]
  /\ Goto(c, "sent")
  /\ UNCHANGED <<server, cache, asked, carry, told, telling, lock, linked, latest, mixed>>

\* unlink(), of a file that nobody is using: it holds the lock of the directory only.
Unlink(c) ==
  /\ linked /\ \A d \in Clients : todo[d] = << >>
  /\ linked' = FALSE
  /\ todo' = [todo EXCEPT ![c] = <<"remove">>]
  /\ Goto(c, "sent")
  /\ UNCHANGED <<server, cache, asked, carry, told, telling, lock, latest, mixed>>

-----------------------------------------------------------------------------
(* extent_client *)

NeedsCall(c, m) ==
  \/ c \notin cached
  \/ m = "get" /\ item[c].buf_dirty
  \/ m = "getattr" /\ item[c].attr_dirty

\* get() and getattr() of an entry that is not dirty
Hit(c) ==
  /\ \E m \in {"get", "getattr"} : Doing(c, m) /\ ~NeedsCall(c, m)
  /\ At(c, "idle")
  /\ CallDone(c)
  /\ UNCHANGED <<server, cache, asked, told, telling, linked, latest, mixed>>

\* get() and getattr() up to their call
Miss(c) ==
  /\ \E m \in {"get", "getattr"} : Doing(c, m) /\ NeedsCall(c, m)
  /\ At(c, "idle")
  /\ Goto(c, "sent")
  /\ UNCHANGED <<server, cache, todo, asked, carry, told, telling, lock, linked, latest, mixed>>

\* The rest of get(): buf and attr.size, with attr_dirty as it was in an old entry
GetReturns(c) ==
  /\ Doing(c, "get") /\ At(c, "reply")
  /\ cached' = cached \union {c}
  /\ item' = [item EXCEPT ![c] =
       [buf_dirty |-> FALSE,
        attr_dirty |-> IF c \in cached THEN @.attr_dirty ELSE TRUE,
        keep_writing |-> c \in cached /\ @.keep_writing,
        buf |-> carry[c], size |-> carry[c]]]
  /\ CallDone(c)
  /\ UNCHANGED <<server, asked, told, telling, linked, latest, mixed>>

\* The rest of getattr()
GetattrReturns(c) ==
  /\ Doing(c, "getattr") /\ At(c, "reply")
  /\ cached' = cached \union {c}
  /\ item' = [item EXCEPT ![c] =
       [buf_dirty |-> c \notin cached \/ @.buf_dirty,
        attr_dirty |-> FALSE,
        keep_writing |-> c \in cached /\ @.keep_writing,
        buf |-> IF c \in cached THEN @.buf ELSE Empty,
        size |-> carry[c]]]
  /\ CallDone(c)
  /\ UNCHANGED <<server, asked, told, telling, linked, latest, mixed>>

\* put() of a content computed from what was got: straight to the copy while
\* keep_writing is set, and through the server otherwise.
Put(c) ==
  /\ Doing(c, "put") /\ At(c, "idle")
  /\ \E v \in Values : carry' = [carry EXCEPT ![c] = v]
  /\ Goto(c, IF item[c].keep_writing THEN "apply" ELSE "sent")
  /\ mixed' = (mixed \/ \E d \in Clients : LookingUp(d))
  /\ UNCHANGED <<server, cache, todo, asked, told, telling, lock, linked, latest>>

\* The call of put() returns.
PutReturns(c) ==
  /\ Doing(c, "put") /\ At(c, "reply")
  /\ item' = [item EXCEPT ![c].keep_writing = TRUE]
  /\ Goto(c, "apply")
  /\ UNCHANGED <<server, cached, todo, asked, carry, told, telling, lock, linked, latest, mixed>>

\* The rest of put()
PutApplies(c) ==
  /\ At(c, "apply")
  /\ item' = [item EXCEPT ![c] =
       [@ EXCEPT !.buf = carry[c], !.size = carry[c],
                 !.buf_dirty = FALSE, !.attr_dirty = FALSE]]
  /\ latest' = carry[c]
  /\ CallDone(c)
  /\ UNCHANGED <<server, cached, asked, told, telling, linked, mixed>>

\* create() returns: a clean entry, and the name goes into the directory.
CreateReturns(c) ==
  /\ Doing(c, "create") /\ At(c, "reply")
  /\ cached' = cached \union {c}
  /\ item' = [item EXCEPT ![c] =
       [buf_dirty |-> FALSE, attr_dirty |-> FALSE, keep_writing |-> FALSE,
        buf |-> Empty, size |-> Empty]]
  /\ linked' = TRUE
  /\ CallDone(c)
  /\ UNCHANGED <<server, asked, told, telling, latest, mixed>>

\* remove() returns and drops the entry.
RemoveReturns(c) ==
  /\ Doing(c, "remove") /\ At(c, "reply")
  /\ cached' = cached \ {c}
  /\ item' = [item EXCEPT ![c] = NoItem]
  /\ CallDone(c)
  /\ UNCHANGED <<server, asked, told, telling, linked, latest, mixed>>

RefreshedOnly(i) == [i EXCEPT !.buf_dirty = TRUE, !.attr_dirty = TRUE]  \* faulty variant
\* What refresh_handler() leaves of an entry
Refreshed(i) == [i EXCEPT !.buf_dirty = TRUE, !.attr_dirty = TRUE, !.keep_writing = FALSE]

\* refresh_handler() in the client that the handler of c's call is telling
Refresh(c) ==
  LET d == telling[c] IN
  /\ d # Nobody
  /\ item' = IF d \in cached THEN [item EXCEPT ![d] = Refreshed(@)] ELSE item
  /\ telling' = [telling EXCEPT ![c] = Nobody]
  /\ UNCHANGED <<server, cached, todo, phase, asked, carry, told, lock, linked, latest, mixed>>

\* require_handler() in the writer, up to its own put call: it sends its copy.
Require(c) ==
  /\ At(c, "require")
  /\ carry' = [carry EXCEPT ![c] = item[asked[c]].buf]
  /\ Goto(c, "store")
  /\ UNCHANGED <<server, cache, todo, asked, told, telling, lock, linked, latest, mixed>>

\* The rest of require_handler()
RequireReturns(c) ==
  /\ At(c, "stored")
  /\ item' = IF asked[c] \in cached
             THEN [item EXCEPT ![asked[c]] =
                     [@ EXCEPT !.buf_dirty = FALSE, !.attr_dirty = FALSE]]
             ELSE item
  /\ asked' = [asked EXCEPT ![c] = Nobody]
  /\ Goto(c, "read")
  /\ UNCHANGED <<server, cached, todo, carry, told, telling, lock, linked, latest, mixed>>

-----------------------------------------------------------------------------
(* extent_server *)

\* Faulty variant: the writer is not required.
ServerReadsOwn(c) ==
  /\ Doing(c, "get") \/ Doing(c, "getattr")
  /\ At(c, "sent")
  /\ asked' = asked
  /\ Goto(c, "read")
  /\ UNCHANGED <<server, cache, todo, carry, told, telling, lock, linked, latest, mixed>>

\* get() and getattr() begin: the writer, if there is one, is required.
ServerReads(c) ==
  /\ Doing(c, "get") \/ Doing(c, "getattr")
  /\ At(c, "sent")
  /\ asked' = [asked EXCEPT ![c] = current_writer]
  /\ Goto(c, IF current_writer = Nobody THEN "read" ELSE "require")
  /\ UNCHANGED <<server, cache, todo, carry, told, telling, lock, linked, latest, mixed>>

\* The writer's put arrives from its require_handler.
ServerStores(c) ==
  /\ At(c, "store")
  /\ content' = carry[c]
  /\ clients' = clients \union {asked[c]}
  /\ current_writer' = asked[c]
  /\ told' = [told EXCEPT ![c] = {asked[c]}]
  /\ Goto(c, "tell others")
  /\ UNCHANGED <<cache, todo, asked, carry, telling, lock, linked, latest, mixed>>

\* read_file(), or getattr() of the inode, and whether anybody is told
ServerAnswers(c) ==
  /\ At(c, "read")
  /\ carry' = [carry EXCEPT ![c] = content]
  /\ clients' = clients \union {c}
  /\ told' = [told EXCEPT ![c] = {c}]
  /\ Goto(c, IF current_writer = Nobody THEN "reply" ELSE "tell")
  /\ UNCHANGED <<content, current_writer, cache, todo, asked, telling, lock, linked, latest, mixed>>

\* put() of a client
ServerWrites(c) ==
  /\ Doing(c, "put") /\ At(c, "sent")
  /\ content' = carry[c]
  /\ clients' = clients \union {c}
  /\ current_writer' = c
  /\ told' = [told EXCEPT ![c] = {c}]
  /\ Goto(c, "tell")
  /\ UNCHANGED <<cache, todo, asked, carry, telling, lock, linked, latest, mixed>>

\* Faulty variant: the client_info of the file that had the inode before is kept.
ServerReuses(c) ==
  /\ Doing(c, "create") /\ At(c, "sent")
  /\ content' = Empty /\ latest' = Empty
  /\ clients' = clients \union {c}
  /\ current_writer' = current_writer
  /\ Goto(c, "reply")
  /\ UNCHANGED <<cache, todo, asked, carry, told, telling, lock, linked, mixed>>

\* create(): a new client_info
ServerCreates(c) ==
  /\ Doing(c, "create") /\ At(c, "sent")
  /\ content' = Empty /\ latest' = Empty
  /\ clients' = {c}
  /\ current_writer' = Nobody
  /\ Goto(c, "reply")
  /\ UNCHANGED <<cache, todo, asked, carry, told, telling, lock, linked, mixed>>

\* remove()
ServerRemoves(c) ==
  /\ Doing(c, "remove") /\ At(c, "sent")
  /\ clients' = clients \union {c}
  /\ told' = [told EXCEPT ![c] = {c}]
  /\ Goto(c, "tell")
  /\ UNCHANGED <<content, current_writer, cache, todo, asked, carry, telling, lock, linked, latest, mixed>>

ToTellReaders(c) == clients \ (told[c] \union {current_writer})  \* faulty variant
ToTell(c) == clients \ told[c]

\* refresh_client(): the loop takes up the next client.
TellNext(c) ==
  /\ At(c, "tell") \/ At(c, "tell others")
  /\ telling[c] = Nobody
  /\ \E d \in ToTell(c) :
       /\ telling' = [telling EXCEPT ![c] = d]
       /\ told' = [told EXCEPT ![c] = @ \union {d}]
       /\ current_writer' = IF d = current_writer THEN Nobody ELSE current_writer
  /\ UNCHANGED <<content, clients, cache, todo, phase, asked, carry, lock, linked, latest, mixed>>

\* The loop is through: the handler returns.
AllTold(c) ==
  /\ At(c, "tell") \/ At(c, "tell others")
  /\ telling[c] = Nobody /\ ToTell(c) = {}
  /\ told' = [told EXCEPT ![c] = {}]
  /\ Goto(c, IF At(c, "tell") THEN "reply" ELSE "stored")
  /\ UNCHANGED <<server, cache, todo, asked, carry, telling, lock, linked, latest, mixed>>

-----------------------------------------------------------------------------
Operation(c) == Acquire(c) \/ Lookup(c) \/ Create(c) \/ Unlink(c)
ClientStep(c) ==
  \/ Hit(c) \/ Miss(c) \/ GetReturns(c) \/ GetattrReturns(c)
  \/ Put(c) \/ PutReturns(c) \/ PutApplies(c)
  \/ CreateReturns(c) \/ RemoveReturns(c)
HandlerStep(c) == Refresh(c) \/ Require(c) \/ RequireReturns(c)
ServerStep(c) ==
  \/ ServerReads(c) \/ ServerStores(c) \/ ServerAnswers(c)
  \/ ServerWrites(c) \/ ServerCreates(c) \/ ServerRemoves(c)
  \/ TellNext(c) \/ AllTold(c)

Next == \E c \in Clients : Operation(c) \/ ClientStep(c) \/ HandlerStep(c) \/ ServerStep(c)

Spec == Init /\ [][Next]_vars

-----------------------------------------------------------------------------
(* Properties.  They hold as long as no lookup overlaps a put of another     *)
(* client; a lookup may overlap everything else.                             *)

TypeOK ==
  /\ content \in Values /\ clients \subseteq Clients
  /\ current_writer \in Clients \union {Nobody}
  /\ cached \subseteq Clients
  /\ item \in [Clients -> Items]
  /\ todo \in [Clients -> {<< >>, <<"put">>, <<"create">>, <<"remove">>} \union Scripts]
  /\ phase \in [Clients -> Phases]
  /\ asked \in [Clients -> Clients \union {Nobody}]
  /\ carry \in [Clients -> Values]
  /\ told \in [Clients -> SUBSET Clients]
  /\ telling \in [Clients -> Clients \union {Nobody}]
  /\ lock \in Clients \union {Nobody} /\ (lock # Nobody => todo[lock] # << >>)
  /\ linked \in BOOLEAN
  /\ latest \in Values /\ mixed \in BOOLEAN

\* What a client finds in its cache without a call is what was last put by anybody,
\* the content and its size, also after the inode has been given to a new file:
\* put() and require_handler() mark the size clean without asking for it.
Coherent ==
  ~mixed =>
    \A c \in cached :
      /\ ~item[c].buf_dirty => item[c].buf = latest
      /\ ~item[c].attr_dirty => item[c].size = latest

\* No update of a file that exists is lost: between two puts the last content is on
\* the server, or in the clean copy of the client that the server will require it of.
NotLost ==
  linked /\ ~mixed /\ (\A c \in Clients : ~Putting(c)) =>
    \/ content = latest
    \/ /\ current_writer \in cached
       /\ ~item[current_writer].buf_dirty /\ item[current_writer].buf = latest

\* A client that writes in its own copy only is the one the server would require,
\* or is about to be told to stop: two clients never do.
KeepsWritingAlone ==
  ~mixed =>
    \A c \in cached :
      item[c].keep_writing =>
        current_writer = c \/ \E d \in Clients : telling[d] = c

\* The client that is required has an entry: require_handler() uses it unseen.
RequiredHasItem == \A c \in Clients : At(c, "require") => asked[c] \in cached
=============================================================================
