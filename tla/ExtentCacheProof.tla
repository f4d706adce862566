-------------------------- MODULE ExtentCacheProof --------------------------
(***************************************************************************)
(* What ExtentCache promises of its file, for any number of clients, any   *)
(* contents and any bound on lookups.                                      *)
(*                                                                         *)
(* The invariant has two parts.  Structure holds in every state: which     *)
(* calls there are, where each can be, who is known to the server.  Data   *)
(* holds as long as no lookup has overlapped a put: then either one put is *)
(* under way alone, or calls that only read are, and all that travels or   *)
(* is clean is the content last put.                                       *)
(***************************************************************************)
EXTENDS ExtentCache, TLAPS

\* The call that every client's operation is to make next, or is making, and
\* the clients that have a put to make after it
op == [c \in Clients |-> IF todo[c] = << >> THEN "none" ELSE Head(todo[c])]
writers == {c \in Clients : todo[c] = <<"get", "put">>}

Reads(c) == op[c] \in {"get", "getattr"}
LooksUp(c) == op[c] = "get" /\ lock # c
Puts(c) == op[c] = "put" /\ phase[c] # "idle"

\* An entry that nobody will use without asking the server
Stale(d) == d \in cached => /\ item[d].buf_dirty /\ item[d].attr_dirty
                            /\ ~item[d].keep_writing

-----------------------------------------------------------------------------
(* Structure *)

\* Who has what under way.  A file without a name has one user at most.
CallsFit == \A c \in Clients :
  /\ op[c] = "put" => lock = c /\ c \in cached
  /\ op[c] = "getattr" => lock = c
  /\ c \in writers => lock = c /\ op[c] = "get"
  /\ op[c] \in {"create", "remove"} => ~linked /\ \A d \in Clients \ {c} : op[d] = "none"
  /\ Reads(c) \/ op[c] = "put" => linked
  /\ lock = c => op[c] # "none"

\* Where a call can be
PhasesFit == \A c \in Clients :
  /\ op[c] = "none" => phase[c] = "idle"
  /\ op[c] = "create" => phase[c] \in {"sent", "reply"}
  /\ op[c] = "remove" => phase[c] \in {"sent", "tell", "reply"}
  /\ op[c] = "put" => phase[c] \in {"idle", "sent", "tell", "reply", "apply"}
  /\ Reads(c) => phase[c] # "apply"

\* The writer that is asked for its copy has one.
AskedFits == \A c \in Clients :
  /\ asked[c] # Nobody <=> phase[c] \in {"require", "store", "tell others", "stored"}
  /\ asked[c] # Nobody => asked[c] \in cached
  /\ phase[c] = "tell others" => asked[c] \in told[c] /\ asked[c] \in clients
  /\ phase[c] = "stored" => asked[c] \in clients

\* The loops of refresh_client
TellingFits == \A c \in Clients :
  /\ telling[c] # Nobody => phase[c] \in {"tell", "tell others"} /\ telling[c] \in told[c]
  /\ telling[c] = c => phase[c] = "tell others"
  /\ phase[c] = "tell" => c \in told[c]

\* The server knows everybody who may have a fresh entry.
Known ==
  /\ \A d \in cached \ clients : Stale(d)
  /\ \A c \in Clients : phase[c] \in {"tell", "apply", "reply"} => c \in clients

\* A writer has an entry, as long as the file has a name.
WriterHasItem ==
  /\ linked => current_writer \in cached \union {Nobody}
  /\ \A c \in Clients : op[c] = "create" /\ phase[c] = "reply" => current_writer = Nobody

\* Nobody has a fresh entry of a file that is gone.
GoneIsStale ==
  /\ \A c \in Clients : op[c] = "remove" =>
       /\ phase[c] = "tell" => \A d \in told[c] \ {c, telling[c]} : Stale(d)
       /\ phase[c] = "reply" => \A d \in Clients \ {c} : Stale(d)
  /\ ~linked /\ (\A c \in Clients : op[c] # "remove") => \A d \in Clients : Stale(d)

Structure == /\ TypeOK /\ CallsFit /\ PhasesFit /\ AskedFits /\ TellingFits
             /\ Known /\ WriterHasItem /\ GoneIsStale

-----------------------------------------------------------------------------
(* Data *)

Apart == \A c, d \in Clients : ~(LooksUp(c) /\ Puts(d))

\* What the server says is what was last put.
ReadsLatest == \A c \in Clients : Reads(c) =>
  /\ phase[c] \in {"tell others", "stored", "read", "tell"} => content = latest
  /\ phase[c] \in {"store", "tell", "reply"} => carry[c] = latest

CreatesLatest == \A c \in Clients : op[c] = "create" /\ phase[c] = "reply" =>
  content = latest /\ latest = Empty

\* The copy that is asked for is good, and there is only one to ask for.
AskedLatest == \A c \in Clients : asked[c] # Nobody =>
  /\ item[asked[c]].buf = latest /\ item[asked[c]].size = latest
  /\ current_writer \in {Nobody, asked[c]}
  /\ \A d \in Clients : asked[d] \in {Nobody, asked[c]}

\* The server or the writer has the latest content, between two puts.
WriterLatest == linked /\ (\A c \in Clients : ~Puts(c)) =>
  /\ current_writer = Nobody => content = latest
  /\ current_writer # Nobody =>
       /\ item[current_writer].buf = latest /\ item[current_writer].size = latest
       /\ content # latest => ~item[current_writer].buf_dirty

\* A client that keeps writing and has not been told to stop is the writer;
\* nobody else has a fresh entry or is about to have one.
KeepsAlone == \A w \in cached :
  item[w].keep_writing /\ (\A d \in Clients : telling[d] # w) =>
    /\ current_writer = w
    /\ \A d \in Clients \ {w} :
         /\ d \in cached => item[d].buf_dirty /\ item[d].attr_dirty
         /\ Reads(d) => phase[d] # "reply" /\ (phase[d] = "tell" => w \notin told[d])

\* Who is about to put does so alone.
PutsAlone == \A c \in Clients : op[c] = "put" =>
  /\ \A w \in cached \ {c} : item[w].keep_writing => \E d \in Clients : telling[d] = w
  /\ phase[c] \in {"sent", "tell", "reply"} => ~item[c].keep_writing
  /\ phase[c] \in {"tell", "reply", "apply"} => current_writer = c
  /\ phase[c] = "tell" => \A d \in told[c] \ {c, telling[c]} : Stale(d)
  /\ phase[c] \in {"reply", "apply"} => \A d \in Clients \ {c} : Stale(d)

Data == /\ Apart /\ Coherent /\ ReadsLatest /\ CreatesLatest /\ AskedLatest
        /\ WriterLatest /\ KeepsAlone /\ PutsAlone

Inv == Structure /\ (~mixed => Data)

-----------------------------------------------------------------------------
(* The calls *)

USE ContentAssumption

Ops == {"none", "get", "getattr", "put", "create", "remove"}
Todos == {<< >>, <<"put">>, <<"create">>, <<"remove">>} \union Scripts

\* What the model says about todo, in terms of op
LEMMA OpMeaning ==
  ASSUME TypeOK, NEW c \in Clients
  PROVE  /\ op[c] \in Ops
         /\ todo[c] = << >> <=> op[c] = "none"
         /\ \A m \in Ops \ {"none"} : Doing(c, m) <=> op[c] = m
         /\ LookingUp(c) <=> LooksUp(c)
         /\ Putting(c) <=> Puts(c)
<1>1. todo[c] \in Todos
  BY DEF TypeOK, Todos
<1>2. /\ op[c] \in Ops
      /\ todo[c] = << >> <=> op[c] = "none"
  BY <1>1 DEF Todos, Scripts, op, Ops
<1>3. \A m \in Ops \ {"none"} : Doing(c, m) <=> op[c] = m
  BY <1>2 DEF Doing, op
<1> QED
  BY <1>2, <1>3 DEF LookingUp, LooksUp, Putting, Puts, Ops, At, op

\* An operation goes on with its put, or is over.
LEMMA CallDoneMeaning ==
  ASSUME TypeOK, NEW c \in Clients, op[c] # "none", CallDone(c)
  PROVE  /\ todo' \in [Clients -> Todos]
         /\ phase' \in [Clients -> Phases] /\ carry' \in [Clients -> Values]
         /\ \A d \in Clients : op'[d] = IF d # c THEN op[d] ELSE IF c \in writers THEN "put" ELSE "none"
         /\ \A d \in Clients : d \in writers' <=> d # c /\ d \in writers
         /\ \A d \in Clients : phase'[d] = IF d = c THEN "idle" ELSE phase[d]
         /\ \A d \in Clients : carry'[d] = IF d = c THEN Empty ELSE carry[d]
         /\ lock' = IF lock = c /\ c \notin writers THEN Nobody ELSE lock
<1>1. todo[c] \in Todos /\ todo[c] # << >>
  BY OpMeaning DEF TypeOK, Todos
<1>2. todo'[c] = Tail(todo[c]) /\ \A d \in Clients \ {c} : todo'[d] = todo[d]
  BY DEF CallDone, TypeOK
<1>3. /\ todo'[c] = IF c \in writers THEN <<"put">> ELSE << >>
      /\ c \in writers <=> Len(todo[c]) # 1
  <2>1. CASE c \in writers
    <3>1. todo[c] = <<"get", "put">>
      BY <2>1 DEF writers
    <3> QED
      BY <1>2, <2>1, <3>1
  <2>2. CASE c \notin writers
    <3>1. \E m \in Ops : todo[c] = <<m>>
      BY <1>1, <2>2 DEF Todos, Scripts, Ops, writers
    <3> QED
      BY <1>2, <2>2, <3>1
  <2> QED
    BY <2>1, <2>2
<1>4. todo' \in [Clients -> Todos]
  <2>1. << >> \in Todos /\ <<"put">> \in Todos
    BY DEF Todos
  <2> QED
    BY <1>2, <1>3, <2>1 DEF CallDone, TypeOK, Todos
<1>5. \A d \in Clients : op'[d] = IF d # c THEN op[d] ELSE IF c \in writers THEN "put" ELSE "none"
  BY <1>2, <1>3 DEF op
<1>6. \A d \in Clients : d \in writers' <=> d # c /\ d \in writers
  <2>1. <<"put">> # <<"get", "put">> /\ << >> # <<"get", "put">>
    OBVIOUS
  <2> QED
    BY <1>2, <1>3, <2>1 DEF writers
<1>7. phase' \in [Clients -> Phases] /\ carry' \in [Clients -> Values]
  BY DEF CallDone, Goto, TypeOK, Phases
<1> QED
  BY <1>3, <1>4, <1>5, <1>6, <1>7 DEF CallDone, Goto, TypeOK

\* The facts about types that the steps need
LEMMA InRange ==
  ASSUME TypeOK
  PROVE  /\ cached \subseteq Clients /\ clients \subseteq Clients
         /\ current_writer \in Clients \union {Nobody}
         /\ \A c \in Clients :
              /\ op[c] \in Ops
              /\ asked[c] \in Clients \union {Nobody}
              /\ telling[c] \in Clients \union {Nobody}
              /\ told[c] \subseteq Clients
<1>1. \A c \in Clients : op[c] \in Ops
  BY OpMeaning
<1> QED
  BY <1>1 DEF TypeOK

\* Nobody but c has a call under way.
Quiet(c) == \A d \in Clients \ {c} :
  op[d] = "none" /\ phase[d] = "idle" /\ telling[d] = Nobody /\ asked[d] = Nobody

\* Creating and removing is done alone, and so is putting unless a lookup overlaps it.
LEMMA Quietness ==
  ASSUME Structure
  PROVE  /\ \A c \in Clients : op[c] \in {"create", "remove"} => Quiet(c)
         /\ Apart => \A c \in Clients : Puts(c) => Quiet(c)
         /\ Apart => \A c, d \in Clients : Reads(c) => ~Puts(d)
<1>1. \A d \in Clients : op[d] = "none" =>
        phase[d] = "idle" /\ telling[d] = Nobody /\ asked[d] = Nobody
  BY DEF Structure, PhasesFit, TellingFits, AskedFits
<1>2. \A c \in Clients : op[c] \in {"create", "remove"} => Quiet(c)
  BY <1>1 DEF Structure, CallsFit, Quiet
<1>3. ASSUME Apart, NEW c \in Clients, Puts(c) PROVE Quiet(c)
  <2>1. op[c] = "put" /\ lock = c
    BY <1>3 DEF Structure, CallsFit, Puts
  <2>2. ASSUME NEW d \in Clients \ {c} PROVE op[d] = "none"
    <3>1. op[d] \in Ops
      BY InRange DEF Structure
    <3>2. op[d] \notin {"create", "remove"}
      BY <2>1 DEF Structure, CallsFit
    <3>3. op[d] \notin {"getattr", "put"}
      BY <2>1 DEF Structure, CallsFit
    <3>4. op[d] # "get"
      BY <1>3, <2>1 DEF Apart, LooksUp
    <3> QED
      BY <3>1, <3>2, <3>3, <3>4 DEF Ops
  <2> QED
    BY <1>1, <2>2 DEF Quiet
<1>4. ASSUME Apart, NEW c \in Clients, NEW d \in Clients, Reads(c), Puts(d) PROVE FALSE
  BY <1>3, <1>4 DEF Quiet, Reads, Puts
<1> QED
  BY <1>2, <1>3, <1>4

-----------------------------------------------------------------------------
(* The file system's operations *)

\* An operation begins while the lock is free: nobody puts or is about to.
LEMMA AcquireStep ==
  ASSUME Inv, NEW c \in Clients, Acquire(c)
  PROVE  Inv'
<1> TypeOK
  BY DEF Inv, Structure
<1>1. /\ linked
      /\ op[c] = "none"
      /\ lock = Nobody
      /\ op'[c] \in {"get", "getattr"}
      /\ c \in writers' => op'[c] = "get"
  BY OpMeaning DEF op, writers, Ops, TypeOK, Acquire, At, Scripts, Ops
<1>2. /\ \A d \in Clients \ {c} : op'[d] = op[d] /\ (d \in writers' <=> d \in writers)
      /\ lock' = c
      /\ UNCHANGED <<content, clients, current_writer, cached, linked, latest, mixed,
                     phase, asked, carry, told, telling, item>>
  BY <1>1 DEF TypeOK, op, writers, Acquire, At, Goto, server, cache, call, Scripts, Ops
<1>3. Structure'
  <2>1. TypeOK'
    <3>1. todo' \in [Clients -> Todos]
      BY DEF TypeOK, Todos, Acquire
    <3>2. lock' # Nobody => op'[lock'] # "none"
      BY <1>1, <1>2 DEF Inv, Structure, CallsFit, TypeOK
    <3>3. lock' # Nobody => todo'[lock'] # << >>
      BY <1>1, <1>2, <3>2 DEF TypeOK, op
    <3> QED
      BY <1>1, <1>2, <3>1, <3>3 DEF TypeOK, Todos
  <2>2. CallsFit'
    BY <1>1, <1>2 DEF Inv, Structure, CallsFit, Reads
  <2>3. PhasesFit'
    BY <1>1, <1>2 DEF Inv, Structure, PhasesFit, Reads
  <2>4. WriterHasItem'
    BY <1>1, <1>2 DEF Inv, Structure, WriterHasItem
  <2>5. GoneIsStale'
    BY <1>1, <1>2 DEF Inv, Structure, GoneIsStale, Stale
  <2>6. AskedFits' /\ TellingFits' /\ Known'
    BY <1>2 DEF Inv, Structure, AskedFits, TellingFits, Known, Stale
  <2> QED
    BY <2>1, <2>2, <2>3, <2>4, <2>5, <2>6 DEF Structure
<1>4. ASSUME ~mixed' PROVE Data'
  <2> Data
    BY <1>1, <1>2, <1>4 DEF Inv
  <2>1. Apart'
    BY <1>1, <1>2 DEF Data, Apart, LooksUp, Puts
  <2>2. ReadsLatest'
    BY <1>1, <1>2 DEF Inv, Structure, Data, ReadsLatest, PhasesFit, Reads
  <2>3. CreatesLatest'
    BY <1>1, <1>2 DEF Data, CreatesLatest
  <2>4. WriterLatest'
    BY <1>1, <1>2 DEF Data, WriterLatest, Puts
  <2>5. KeepsAlone'
    BY <1>1, <1>2 DEF Inv, Structure, Data, KeepsAlone, PhasesFit, Reads
  <2>6. PutsAlone'
    BY <1>1, <1>2 DEF Data, PutsAlone, Stale
  <2>7. Coherent' /\ AskedLatest'
    BY <1>2 DEF Data, Coherent, AskedLatest
  <2> QED
    BY <2>1, <2>2, <2>3, <2>4, <2>5, <2>6, <2>7 DEF Data
<1> QED
  BY <1>3, <1>4 DEF Inv

\* A lookup that begins while nobody puts finds a file that only readers use.
LEMMA LookupStep ==
  ASSUME Inv, NEW c \in Clients, Lookup(c)
  PROVE  Inv'
<1> TypeOK
  BY DEF Inv, Structure
<1>1. /\ linked
      /\ op[c] = "none"
  BY OpMeaning DEF op, writers, Ops, TypeOK, Lookup, At
<1>2. /\ \A d \in Clients \ {c} : op'[d] = op[d] /\ (d \in writers' <=> d \in writers)
      /\ UNCHANGED <<content, clients, current_writer, cached, lock, linked, latest,
                     phase, asked, carry, told, telling, item>>
  BY <1>1 DEF TypeOK, op, writers, Lookup, At, Goto, server, cache, call
<1>3. op'[c] = "get" /\ c \notin writers'
  <2>1. todo'[c] = <<"get">>
    BY DEF Lookup, TypeOK
  <2> QED
    BY <2>1 DEF op, writers
<1>4. (mixed => mixed') /\ (~mixed' => \A d \in Clients : ~Puts(d))
  BY OpMeaning DEF Lookup
<1>5. Structure'
  <2>1. TypeOK'
    <3>1. mixed' \in BOOLEAN
      BY <1>1, <1>2, <1>3, <1>4 DEF TypeOK, Lookup, At, Goto, server, cache, call
    <3>2. todo' \in [Clients -> Todos]
      <4>1. <<"get">> \in Todos
        BY DEF Todos, Scripts
      <4> QED
        BY <4>1 DEF TypeOK, Todos, Lookup, At, Goto, server, cache, call
    <3>3. lock' # Nobody => op'[lock'] # "none"
      BY <1>1, <1>2, <1>3, <1>4 DEF Inv, Structure, CallsFit, TypeOK
    <3>4. lock' # Nobody => todo'[lock'] # << >>
      BY <1>1, <1>2, <1>3, <1>4, <3>3 DEF TypeOK, op
    <3> QED
      BY <1>1, <1>2, <1>3, <1>4, <3>1, <3>2, <3>4 DEF TypeOK, Todos
  <2>2. CallsFit'
    BY <1>1, <1>2, <1>3, <1>4 DEF Inv, Structure, CallsFit, Reads
  <2>3. PhasesFit'
    BY <1>1, <1>2, <1>3, <1>4 DEF Inv, Structure, PhasesFit, Reads
  <2>4. WriterHasItem'
    BY <1>1, <1>2, <1>3, <1>4 DEF Inv, Structure, WriterHasItem
  <2>5. GoneIsStale'
    BY <1>1, <1>2, <1>3, <1>4 DEF Inv, Structure, GoneIsStale, Stale
  <2>6. AskedFits' /\ TellingFits' /\ Known'
    BY <1>2, <1>3, <1>4 DEF Inv, Structure, AskedFits, TellingFits, Known, Stale
  <2> QED
    BY <2>1, <2>2, <2>3, <2>4, <2>5, <2>6 DEF Structure
<1>6. ASSUME ~mixed' PROVE Data'
  <2> Data
    BY <1>1, <1>2, <1>3, <1>4, <1>6 DEF Inv
  <2>1. Apart'
    BY <1>1, <1>2, <1>3, <1>4, <1>6 DEF Data, Apart, LooksUp, Puts
  <2>2. Coherent'
    BY <1>1, <1>2, <1>3, <1>4, <1>6 DEF Data, Coherent
  <2>3. ReadsLatest'
    BY <1>1, <1>2, <1>3, <1>4, <1>6 DEF Inv, Structure, Data, ReadsLatest, PhasesFit,
       Reads
  <2>4. CreatesLatest'
    BY <1>1, <1>2, <1>3, <1>4, <1>6 DEF Data, CreatesLatest
  <2>5. AskedLatest'
    BY <1>1, <1>2, <1>3, <1>4, <1>6 DEF Data, AskedLatest
  <2>6. WriterLatest'
    BY <1>1, <1>2, <1>3, <1>4, <1>6 DEF Data, WriterLatest, Puts
  <2>7. KeepsAlone'
    BY <1>1, <1>2, <1>3, <1>4, <1>6 DEF Inv, Structure, Data, KeepsAlone, PhasesFit, Reads
  <2>8. PutsAlone'
    BY <1>1, <1>2, <1>3, <1>4, <1>6 DEF Data, PutsAlone, Stale
  <2> QED
    BY <2>1, <2>2, <2>3, <2>4, <2>5, <2>6, <2>7, <2>8 DEF Data
<1> QED
  BY <1>5, <1>6 DEF Inv

\* A file is created when nobody has anything under way: no fresh entry is left of the last.
LEMMA CreateStep ==
  ASSUME Inv, NEW c \in Clients, Create(c)
  PROVE  Inv'
<1> TypeOK
  BY DEF Inv, Structure
<1>1. /\ ~linked
      /\ \A d \in Clients : op[d] = "none"
      /\ op'[c] = "create"
      /\ c \notin writers'
  BY OpMeaning DEF op, writers, Ops, TypeOK, Create, At
<1>2. /\ phase'[c] = "sent"
      /\ \A d \in Clients \ {c} :
            /\ phase'[d] = phase[d]
            /\ op'[d] = op[d]
            /\ d \in writers' <=> d \in writers
      /\ UNCHANGED <<content, clients, current_writer, cached, lock, linked, latest,
                     mixed, asked, carry, told, telling, item>>
  BY <1>1 DEF TypeOK, op, writers, Create, At, Goto, server, cache, call
<1>3. Structure'
  <2>1. TypeOK'
    <3>1. phase' \in [Clients -> Phases]
      BY <1>1, <1>2 DEF TypeOK, Phases, Create, At, Goto, server, cache, call
    <3>2. todo' \in [Clients -> Todos]
      <4>1. <<"create">> \in Todos
        BY DEF Todos, Scripts
      <4> QED
        BY <4>1 DEF TypeOK, Todos, Create, At, Goto, server, cache, call
    <3>3. lock' # Nobody => op'[lock'] # "none"
      BY <1>1, <1>2 DEF Inv, Structure, CallsFit, TypeOK
    <3>4. lock' # Nobody => todo'[lock'] # << >>
      BY <1>1, <1>2, <3>3 DEF TypeOK, op
    <3> QED
      BY <1>1, <1>2, <3>1, <3>2, <3>4 DEF TypeOK, Todos
  <2>2. CallsFit'
    BY <1>1, <1>2 DEF Inv, Structure, CallsFit, Reads
  <2>3. PhasesFit'
    BY <1>1, <1>2 DEF Inv, Structure, PhasesFit, Reads
  <2>4. AskedFits'
    BY <1>1, <1>2 DEF Inv, Structure, AskedFits, PhasesFit, Reads
  <2>5. TellingFits'
    BY <1>1, <1>2 DEF Inv, Structure, TellingFits, PhasesFit, Reads
  <2>6. Known'
    BY <1>1, <1>2 DEF Inv, Structure, Known, Stale
  <2>7. WriterHasItem'
    BY <1>1, <1>2 DEF Inv, Structure, WriterHasItem
  <2>8. GoneIsStale'
    BY <1>1, <1>2 DEF Inv, Structure, GoneIsStale, Stale
  <2> QED
    BY <2>1, <2>2, <2>3, <2>4, <2>5, <2>6, <2>7, <2>8 DEF Structure
<1>4. ASSUME ~mixed' PROVE Data'
  <2> Data
    BY <1>1, <1>2, <1>4 DEF Inv
  <2>1. Apart'
    BY <1>1, <1>2 DEF Data, Apart, LooksUp, Puts
  <2>2. ReadsLatest'
    BY <1>1, <1>2 DEF Data, ReadsLatest, Reads
  <2>3. CreatesLatest'
    BY <1>1, <1>2 DEF Data, CreatesLatest
  <2>4. WriterLatest'
    BY <1>1, <1>2 DEF Data, WriterLatest, Puts
  <2>5. KeepsAlone'
    BY <1>1, <1>2 DEF Data, KeepsAlone, Reads
  <2>6. PutsAlone'
    BY <1>1, <1>2 DEF Data, PutsAlone, Stale
  <2>7. Coherent' /\ AskedLatest'
    BY <1>2 DEF Data, Coherent, AskedLatest
  <2> QED
    BY <2>1, <2>2, <2>3, <2>4, <2>5, <2>6, <2>7 DEF Data
<1> QED
  BY <1>3, <1>4 DEF Inv

\* A file is removed when nobody has anything under way.
LEMMA UnlinkStep ==
  ASSUME Inv, NEW c \in Clients, Unlink(c)
  PROVE  Inv'
<1> TypeOK
  BY DEF Inv, Structure
<1>1. /\ linked
      /\ \A d \in Clients : op[d] = "none"
      /\ op'[c] = "remove"
      /\ c \notin writers'
  BY OpMeaning DEF op, writers, Ops, TypeOK, Unlink, At
<1>2. /\ phase'[c] = "sent"
      /\ \A d \in Clients \ {c} :
            /\ phase'[d] = phase[d]
            /\ op'[d] = op[d]
            /\ d \in writers' <=> d \in writers
      /\ linked' = FALSE
      /\ UNCHANGED <<content, clients, current_writer, cached, lock, latest, mixed, asked,
                     carry, told, telling, item>>
  BY <1>1 DEF TypeOK, op, writers, Unlink, At, Goto, server, cache, call
<1>3. Structure'
  <2>1. TypeOK'
    <3>1. phase' \in [Clients -> Phases]
      BY <1>1, <1>2 DEF TypeOK, Phases, Unlink, At, Goto, server, cache, call
    <3>2. todo' \in [Clients -> Todos]
      <4>1. <<"remove">> \in Todos
        BY DEF Todos, Scripts
      <4> QED
        BY <4>1 DEF TypeOK, Todos, Unlink, At, Goto, server, cache, call
    <3>3. lock' # Nobody => op'[lock'] # "none"
      BY <1>1, <1>2 DEF Inv, Structure, CallsFit, TypeOK
    <3>4. lock' # Nobody => todo'[lock'] # << >>
      BY <1>1, <1>2, <3>3 DEF TypeOK, op
    <3> QED
      BY <1>1, <1>2, <3>1, <3>2, <3>4 DEF TypeOK, Todos
  <2>2. CallsFit'
    BY <1>1, <1>2 DEF Inv, Structure, CallsFit, Reads
  <2>3. PhasesFit'
    BY <1>1, <1>2 DEF Inv, Structure, PhasesFit, Reads
  <2>4. AskedFits'
    BY <1>1, <1>2 DEF Inv, Structure, AskedFits, PhasesFit, Reads
  <2>5. TellingFits'
    BY <1>1, <1>2 DEF Inv, Structure, TellingFits, PhasesFit, Reads
  <2>6. Known'
    BY <1>1, <1>2 DEF Inv, Structure, Known, Stale
  <2>7. WriterHasItem'
    BY <1>1, <1>2 DEF Inv, Structure, WriterHasItem
  <2>8. GoneIsStale'
    BY <1>1, <1>2 DEF Inv, Structure, GoneIsStale, Stale
  <2> QED
    BY <2>1, <2>2, <2>3, <2>4, <2>5, <2>6, <2>7, <2>8 DEF Structure
<1>4. ASSUME ~mixed' PROVE Data'
  <2> Data
    BY <1>1, <1>2, <1>4 DEF Inv
  <2>1. Apart'
    BY <1>1, <1>2 DEF Data, Apart, LooksUp, Puts
  <2>2. ReadsLatest'
    BY <1>1, <1>2 DEF Data, ReadsLatest, Reads
  <2>3. CreatesLatest'
    BY <1>1, <1>2 DEF Data, CreatesLatest
  <2>4. WriterLatest'
    BY <1>1, <1>2 DEF Data, WriterLatest, Puts
  <2>5. KeepsAlone'
    BY <1>1, <1>2 DEF Data, KeepsAlone, Reads
  <2>6. PutsAlone'
    BY <1>1, <1>2 DEF Data, PutsAlone, Stale
  <2>7. Coherent' /\ AskedLatest'
    BY <1>2 DEF Data, Coherent, AskedLatest
  <2> QED
    BY <2>1, <2>2, <2>3, <2>4, <2>5, <2>6, <2>7 DEF Data
<1> QED
  BY <1>3, <1>4 DEF Inv

-----------------------------------------------------------------------------
(* extent_client *)

\* Whoever finds a clean entry is alone in keeping to write, or nobody is.
LEMMA HitStep ==
  ASSUME Inv, NEW c \in Clients, Hit(c)
  PROVE  Inv'
<1> TypeOK
  BY DEF Inv, Structure
<1>1. /\ Reads(c)
      /\ phase[c] = "idle"
      /\ c \in cached
      /\ op[c] = "get" => ~item[c].buf_dirty
  BY OpMeaning DEF Reads, Ops, TypeOK, Hit, At, NeedsCall
<1>2. op[c] # "none" /\ CallDone(c)
  BY <1>1, OpMeaning DEF Reads, Hit
<1>3. /\ phase'[c] = "idle"
      /\ carry'[c] = Empty
      /\ op'[c] = IF c \in writers THEN "put" ELSE "none"
      /\ c \notin writers'
      /\ \A d \in Clients \ {c} :
            /\ phase'[d] = phase[d]
            /\ carry'[d] = carry[d]
            /\ op'[d] = op[d]
            /\ d \in writers' <=> d \in writers
      /\ lock' = IF lock = c /\ c \notin writers THEN Nobody ELSE lock
      /\ UNCHANGED <<content, clients, current_writer, cached, linked, latest, mixed,
                     asked, told, telling, item>>
  BY <1>1, <1>2, CallDoneMeaning DEF TypeOK, Hit, At, Goto, server, cache, call, NeedsCall
<1>4. Structure'
  <2>1. TypeOK'
    <3>1. todo' \in [Clients -> Todos]
      BY <1>2, CallDoneMeaning
    <3>2. phase' \in [Clients -> Phases] /\ carry' \in [Clients -> Values]
      BY <1>2, CallDoneMeaning
    <3>3. lock' # Nobody => op'[lock'] # "none"
      BY <1>1, <1>3, <1>2, CallDoneMeaning DEF Inv, Structure, CallsFit, TypeOK
    <3>4. lock' # Nobody => todo'[lock'] # << >>
      BY <1>1, <1>3, <3>3 DEF TypeOK, op
    <3> QED
      BY <1>1, <1>3, <3>1, <3>2, <3>4 DEF TypeOK, Todos
  <2>2. CallsFit'
    BY <1>1, <1>3 DEF Inv, Structure, CallsFit, Reads
  <2>3. PhasesFit'
    BY <1>1, <1>3 DEF Inv, Structure, PhasesFit, Reads
  <2>4. AskedFits'
    BY <1>1, <1>3 DEF Inv, Structure, AskedFits, Reads
  <2>5. TellingFits'
    BY <1>1, <1>3 DEF Inv, Structure, TellingFits, Reads
  <2>6. Known'
    BY <1>1, <1>3 DEF Inv, Structure, Known, Stale, Reads
  <2>7. WriterHasItem'
    BY <1>1, <1>3 DEF Inv, Structure, WriterHasItem, Reads
  <2>8. GoneIsStale'
    BY <1>1, <1>3 DEF Inv, Structure, GoneIsStale, CallsFit, Stale, Reads
  <2> QED
    BY <2>1, <2>2, <2>3, <2>4, <2>5, <2>6, <2>7, <2>8 DEF Structure
<1>5. ASSUME ~mixed' PROVE Data'
  <2> Data
    BY <1>1, <1>3, <1>5 DEF Inv
  <2>1. Apart'
    BY <1>1, <1>3 DEF Data, Apart, LooksUp, Puts, Reads
  <2>2. ReadsLatest'
    BY <1>1, <1>3 DEF Data, ReadsLatest, Reads
  <2>3. CreatesLatest'
    BY <1>1, <1>3 DEF Data, CreatesLatest, Reads
  <2>4. WriterLatest'
    BY <1>1, <1>3 DEF Data, WriterLatest, Puts, Reads
  <2>5. KeepsAlone'
    BY <1>1, <1>3 DEF Data, KeepsAlone, Reads
  <2>6. PutsAlone'
    BY <1>1, <1>3, InRange DEF Inv, Structure, Data, PutsAlone, KeepsAlone, CallsFit,
       Stale, Reads, Ops
  <2>7. Coherent' /\ AskedLatest'
    BY <1>3 DEF Data, Coherent, AskedLatest
  <2> QED
    BY <2>1, <2>2, <2>3, <2>4, <2>5, <2>6, <2>7 DEF Data
<1> QED
  BY <1>4, <1>5 DEF Inv

\* A call to the server changes nothing yet.
LEMMA MissStep ==
  ASSUME Inv, NEW c \in Clients, Miss(c)
  PROVE  Inv'
<1> TypeOK
  BY DEF Inv, Structure
<1>1. /\ Reads(c)
      /\ phase[c] = "idle"
  BY OpMeaning DEF Reads, Ops, TypeOK, Miss, At
<1>2. /\ phase'[c] = "sent"
      /\ \A d \in Clients \ {c} : phase'[d] = phase[d]
      /\ UNCHANGED <<content, clients, current_writer, cached, lock, linked, latest,
                     mixed, asked, carry, told, telling, item, todo>>
  BY <1>1 DEF TypeOK, Miss, At, Goto, server, cache, call
<1>3. op' = op /\ writers' = writers
  BY <1>2, Zenon DEF op, writers
<1>4. Structure'
  <2>1. TypeOK'
    <3>1. phase' \in [Clients -> Phases]
      BY <1>1, <1>2, <1>3 DEF TypeOK, Phases, Miss, At, Goto, server, cache, call
    <3> QED
      BY <1>1, <1>2, <1>3, <3>1 DEF TypeOK
  <2>2. CallsFit'
    BY <1>1, <1>2, <1>3 DEF Inv, Structure, CallsFit, Reads
  <2>3. PhasesFit'
    BY <1>1, <1>2, <1>3 DEF Inv, Structure, PhasesFit, Reads
  <2>4. AskedFits'
    BY <1>1, <1>2, <1>3 DEF Inv, Structure, AskedFits, Reads
  <2>5. TellingFits'
    BY <1>1, <1>2, <1>3 DEF Inv, Structure, TellingFits, Reads
  <2>6. Known'
    BY <1>1, <1>2, <1>3 DEF Inv, Structure, Known, Stale, Reads
  <2>7. WriterHasItem'
    BY <1>1, <1>2, <1>3 DEF Inv, Structure, WriterHasItem, Reads
  <2>8. GoneIsStale'
    BY <1>1, <1>2, <1>3 DEF Inv, Structure, GoneIsStale, Stale, Reads
  <2> QED
    BY <2>1, <2>2, <2>3, <2>4, <2>5, <2>6, <2>7, <2>8 DEF Structure
<1>5. ASSUME ~mixed' PROVE Data'
  <2> Data
    BY <1>1, <1>2, <1>3, <1>5 DEF Inv
  <2>1. Apart'
    BY <1>1, <1>2, <1>3 DEF Inv, Structure, Data, Apart, CallsFit, LooksUp, Puts, Reads
  <2>2. ReadsLatest'
    BY <1>1, <1>2, <1>3 DEF Data, ReadsLatest, Reads
  <2>3. CreatesLatest'
    BY <1>1, <1>2, <1>3 DEF Data, CreatesLatest, Reads
  <2>4. WriterLatest'
    BY <1>1, <1>2, <1>3 DEF Data, WriterLatest, Puts, Reads
  <2>5. KeepsAlone'
    BY <1>1, <1>2, <1>3 DEF Data, KeepsAlone, Reads
  <2>6. PutsAlone'
    BY <1>1, <1>2, <1>3 DEF Inv, Structure, Data, PutsAlone, CallsFit, Stale, Reads
  <2>7. Coherent' /\ AskedLatest'
    BY <1>2, <1>3 DEF Data, Coherent, AskedLatest
  <2> QED
    BY <2>1, <2>2, <2>3, <2>4, <2>5, <2>6, <2>7 DEF Data
<1> QED
  BY <1>4, <1>5 DEF Inv

\* What get() brings home is the content last put: no put has begun since it was read.
LEMMA GetReturnsStep ==
  ASSUME Inv, NEW c \in Clients, GetReturns(c)
  PROVE  Inv'
<1> TypeOK
  BY DEF Inv, Structure
<1>1. /\ op[c] = "get"
      /\ phase[c] = "reply"
  BY OpMeaning DEF Ops, TypeOK, GetReturns, At
<1>2. op[c] # "none" /\ CallDone(c)
  BY <1>1, OpMeaning DEF Reads, GetReturns
<1>3. /\ phase'[c] = "idle"
      /\ carry'[c] = Empty
      /\ op'[c] = IF c \in writers THEN "put" ELSE "none"
      /\ c \notin writers'
      /\ \A d \in Clients \ {c} :
            /\ phase'[d] = phase[d]
            /\ carry'[d] = carry[d]
            /\ op'[d] = op[d]
            /\ d \in writers' <=> d \in writers
      /\ cached' = cached \union {c}
      /\ lock' = IF lock = c /\ c \notin writers THEN Nobody ELSE lock
      /\ UNCHANGED <<content, clients, current_writer, linked, latest, mixed, asked, told,
                     telling>>
  BY <1>1, <1>2, CallDoneMeaning DEF TypeOK, GetReturns, At, Goto, server, cache, call,
     Items
<1>4. /\ item'[c].buf_dirty = FALSE
      /\ item'[c].attr_dirty <=> (c \in cached => item[c].attr_dirty)
      /\ item'[c].keep_writing <=> (c \in cached /\ item[c].keep_writing)
      /\ item'[c].buf = carry[c]
      /\ item'[c].size = carry[c]
      /\ \A d \in Clients : d # c => item'[d] = item[d]
  BY <1>1 DEF TypeOK, GetReturns, At, Goto, server, cache, call, Items
<1>5. Structure'
  <2>1. TypeOK'
    <3>1. item' \in [Clients -> Items]
      <4>1. item[c] \in Items
        BY <1>1 DEF TypeOK
      <4>2. item'[c] \in Items
        BY <1>1, <4>1 DEF TypeOK, GetReturns, At, Goto, server, cache, call, Items
      <4> QED
        BY <1>1, <4>2 DEF TypeOK, GetReturns, At, Goto, server, cache, call
    <3>2. todo' \in [Clients -> Todos]
      BY <1>2, CallDoneMeaning
    <3>3. phase' \in [Clients -> Phases] /\ carry' \in [Clients -> Values]
      BY <1>2, CallDoneMeaning
    <3>4. lock' # Nobody => op'[lock'] # "none"
      BY <1>1, <1>3, <1>4, <1>2, CallDoneMeaning DEF Inv, Structure, CallsFit, TypeOK
    <3>5. lock' # Nobody => todo'[lock'] # << >>
      BY <1>1, <1>3, <1>4, <3>4 DEF TypeOK, op
    <3> QED
      BY <1>1, <1>3, <1>4, <3>1, <3>2, <3>3, <3>5 DEF TypeOK, Todos
  <2>2. CallsFit'
    BY <1>1, <1>3, <1>4 DEF Inv, Structure, CallsFit, Reads
  <2>3. PhasesFit'
    BY <1>1, <1>3, <1>4 DEF Inv, Structure, PhasesFit, Reads
  <2>4. AskedFits'
    BY <1>1, <1>3, <1>4 DEF Inv, Structure, AskedFits
  <2>5. TellingFits'
    BY <1>1, <1>3, <1>4 DEF Inv, Structure, TellingFits
  <2>6. Known'
    BY <1>1, <1>3, <1>4, InRange DEF Inv, Structure, Known, Stale, Ops
  <2>7. WriterHasItem'
    BY <1>1, <1>3, <1>4 DEF Inv, Structure, WriterHasItem
  <2>8. GoneIsStale'
    BY <1>1, <1>3, <1>4 DEF Inv, Structure, GoneIsStale, CallsFit, Stale, Reads
  <2> QED
    BY <2>1, <2>2, <2>3, <2>4, <2>5, <2>6, <2>7, <2>8 DEF Structure
<1>6. ASSUME ~mixed' PROVE Data'
  <2> Data
    BY <1>1, <1>3, <1>4, <1>6 DEF Inv
  <2>1. Apart'
    BY <1>1, <1>3, <1>4 DEF Data, Apart, LooksUp, Puts
  <2>2. Coherent'
    <3>1. carry[c] = latest
      BY <1>1 DEF Data, ReadsLatest, Reads
    <3> QED
      BY <1>1, <1>3, <1>4, <3>1, InRange DEF Data, Coherent
  <2>3. ReadsLatest'
    BY <1>1, <1>3, <1>4 DEF Data, ReadsLatest, Reads
  <2>4. CreatesLatest'
    BY <1>1, <1>3, <1>4 DEF Data, CreatesLatest
  <2>5. AskedLatest'
    <3>1. carry[c] = latest
      BY <1>1 DEF Data, ReadsLatest, Reads
    <3>2. \A a \in Clients : item[a].buf = latest /\ item[a].size = latest /\ a \in cached
                           => item'[a].buf = latest /\ item'[a].size = latest
      BY <1>1, <1>4, <3>1
    <3>3. \A d \in Clients : asked[d] # Nobody => asked[d] \in Clients /\ asked[d] \in cached
      BY InRange DEF Inv, Structure, AskedFits
    <3> QED
      BY <1>3, <3>2, <3>3 DEF Data, AskedLatest
  <2>6. WriterLatest'
    BY <1>1, <1>3, <1>4, InRange DEF Data, WriterLatest, ReadsLatest, Puts, Reads, Ops
  <2>7. KeepsAlone'
    BY <1>1, <1>3, <1>4, InRange DEF Data, KeepsAlone, Reads, Ops
  <2>8. PutsAlone'
    BY <1>1, <1>3, <1>4, InRange, Quietness DEF Inv, Structure, Data, PutsAlone,
       KeepsAlone, CallsFit, Apart, Stale, Reads, LooksUp, Puts, Ops, Quiet
  <2> QED
    BY <2>1, <2>2, <2>3, <2>4, <2>5, <2>6, <2>7, <2>8 DEF Data
<1> QED
  BY <1>5, <1>6 DEF Inv

\* So it is for getattr(), which leaves a dirty buffer dirty.
LEMMA GetattrReturnsStep ==
  ASSUME Inv, NEW c \in Clients, GetattrReturns(c)
  PROVE  Inv'
<1> TypeOK
  BY DEF Inv, Structure
<1>1. /\ op[c] = "getattr"
      /\ phase[c] = "reply"
  BY OpMeaning DEF Ops, TypeOK, GetattrReturns, At
<1>2. op[c] # "none" /\ CallDone(c)
  BY <1>1, OpMeaning DEF Reads, GetattrReturns
<1>3. /\ phase'[c] = "idle"
      /\ carry'[c] = Empty
      /\ op'[c] = IF c \in writers THEN "put" ELSE "none"
      /\ c \notin writers'
      /\ \A d \in Clients \ {c} :
            /\ phase'[d] = phase[d]
            /\ carry'[d] = carry[d]
            /\ op'[d] = op[d]
            /\ d \in writers' <=> d \in writers
      /\ cached' = cached \union {c}
      /\ lock' = IF lock = c /\ c \notin writers THEN Nobody ELSE lock
      /\ UNCHANGED <<content, clients, current_writer, linked, latest, mixed, asked, told,
                     telling>>
  BY <1>1, <1>2, CallDoneMeaning DEF TypeOK, GetattrReturns, At, Goto, server, cache,
     call, Items
<1>4. /\ item'[c].buf_dirty <=> (c \in cached => item[c].buf_dirty)
      /\ item'[c].attr_dirty = FALSE
      /\ item'[c].keep_writing <=> (c \in cached /\ item[c].keep_writing)
      /\ item'[c].buf = IF c \in cached THEN item[c].buf ELSE Empty
      /\ item'[c].size = carry[c]
      /\ \A d \in Clients : d # c => item'[d] = item[d]
  BY <1>1 DEF TypeOK, GetattrReturns, At, Goto, server, cache, call, Items
<1>5. Structure'
  <2>1. TypeOK'
    <3>1. item' \in [Clients -> Items]
      <4>1. item[c] \in Items
        BY <1>1 DEF TypeOK
      <4>2. item'[c] \in Items
        BY <1>1, <4>1 DEF TypeOK, GetattrReturns, At, Goto, server, cache, call, Items
      <4> QED
        BY <1>1, <4>2 DEF TypeOK, GetattrReturns, At, Goto, server, cache, call
    <3>2. todo' \in [Clients -> Todos]
      BY <1>2, CallDoneMeaning
    <3>3. phase' \in [Clients -> Phases] /\ carry' \in [Clients -> Values]
      BY <1>2, CallDoneMeaning
    <3>4. lock' # Nobody => op'[lock'] # "none"
      BY <1>1, <1>3, <1>4, <1>2, CallDoneMeaning DEF Inv, Structure, CallsFit, TypeOK
    <3>5. lock' # Nobody => todo'[lock'] # << >>
      BY <1>1, <1>3, <1>4, <3>4 DEF TypeOK, op
    <3> QED
      BY <1>1, <1>3, <1>4, <3>1, <3>2, <3>3, <3>5 DEF TypeOK, Todos
  <2>2. CallsFit'
    BY <1>1, <1>3, <1>4 DEF Inv, Structure, CallsFit, Reads
  <2>3. PhasesFit'
    BY <1>1, <1>3, <1>4 DEF Inv, Structure, PhasesFit, Reads
  <2>4. AskedFits'
    BY <1>1, <1>3, <1>4 DEF Inv, Structure, AskedFits
  <2>5. TellingFits'
    BY <1>1, <1>3, <1>4 DEF Inv, Structure, TellingFits
  <2>6. Known'
    BY <1>1, <1>3, <1>4, InRange DEF Inv, Structure, Known, Stale, Ops
  <2>7. WriterHasItem'
    BY <1>1, <1>3, <1>4 DEF Inv, Structure, WriterHasItem
  <2>8. GoneIsStale'
    BY <1>1, <1>3, <1>4 DEF Inv, Structure, GoneIsStale, CallsFit, Stale, Reads
  <2> QED
    BY <2>1, <2>2, <2>3, <2>4, <2>5, <2>6, <2>7, <2>8 DEF Structure
<1>6. ASSUME ~mixed' PROVE Data'
  <2> Data
    BY <1>1, <1>3, <1>4, <1>6 DEF Inv
  <2>1. Apart'
    BY <1>1, <1>3, <1>4 DEF Data, Apart, LooksUp, Puts
  <2>2. Coherent'
    <3>1. carry[c] = latest
      BY <1>1 DEF Data, ReadsLatest, Reads
    <3> QED
      BY <1>1, <1>3, <1>4, <3>1, InRange DEF Data, Coherent
  <2>3. ReadsLatest'
    BY <1>1, <1>3, <1>4 DEF Data, ReadsLatest, Reads
  <2>4. CreatesLatest'
    BY <1>1, <1>3, <1>4 DEF Data, CreatesLatest
  <2>5. AskedLatest'
    <3>1. carry[c] = latest
      BY <1>1 DEF Data, ReadsLatest, Reads
    <3>2. \A a \in Clients : item[a].buf = latest /\ item[a].size = latest /\ a \in cached
                           => item'[a].buf = latest /\ item'[a].size = latest
      BY <1>1, <1>4, <3>1
    <3>3. \A d \in Clients : asked[d] # Nobody => asked[d] \in Clients /\ asked[d] \in cached
      BY InRange DEF Inv, Structure, AskedFits
    <3> QED
      BY <1>3, <3>2, <3>3 DEF Data, AskedLatest
  <2>6. WriterLatest'
    BY ZenonT(60), <1>1, <1>3, <1>4, InRange DEF Inv, Structure, Data, WriterLatest,
       ReadsLatest, WriterHasItem, Puts, Reads, Ops
  <2>7. KeepsAlone'
    BY <1>1, <1>3, <1>4, InRange DEF Data, KeepsAlone, Reads, Ops
  <2>8. PutsAlone'
    BY <1>1, <1>3, <1>4, InRange, Quietness DEF Inv, Structure, Data, PutsAlone,
       KeepsAlone, CallsFit, Apart, Stale, Reads, LooksUp, Puts, Ops, Quiet
  <2> QED
    BY <2>1, <2>2, <2>3, <2>4, <2>5, <2>6, <2>7, <2>8 DEF Data
<1> QED
  BY <1>5, <1>6 DEF Inv

\* A put begins: but for lookups, which mixed accounts for, nobody else is using the file,
\* so who keeps writing is the writer and all other entries are stale.
LEMMA PutStep ==
  ASSUME Inv, NEW c \in Clients, Put(c)
  PROVE  Inv'
<1> TypeOK
  BY DEF Inv, Structure
<1>1. /\ op[c] = "put"
      /\ phase[c] = "idle"
  BY OpMeaning DEF Ops, TypeOK, Put, At
<1>2. /\ phase'[c] = IF item[c].keep_writing THEN "apply" ELSE "sent"
      /\ \A d \in Clients \ {c} : phase'[d] = phase[d] /\ carry'[d] = carry[d]
      /\ UNCHANGED <<content, clients, current_writer, cached, lock, linked, latest,
                     asked, told, telling, item, todo>>
  BY <1>1 DEF TypeOK, Put, At, Goto, server, cache, call
<1>3. op' = op /\ writers' = writers
  BY <1>2, Zenon DEF op, writers
<1>4. (mixed => mixed') /\ (~mixed' => \A d \in Clients : ~LooksUp(d))
  BY OpMeaning DEF Put
<1>5. Structure'
  <2>1. TypeOK'
    <3>1. phase' \in [Clients -> Phases]
      BY <1>1, <1>2, <1>3, <1>4 DEF TypeOK, Phases, Put, At, Goto, server, cache, call
    <3>2. carry' \in [Clients -> Values]
      BY <1>1, <1>2, <1>3, <1>4 DEF TypeOK, Put, At, Goto, server, cache, call
    <3>3. mixed' \in BOOLEAN
      BY <1>1, <1>2, <1>3, <1>4 DEF TypeOK, Put, At, Goto, server, cache, call
    <3> QED
      BY <1>1, <1>2, <1>3, <1>4, <3>1, <3>2, <3>3 DEF TypeOK
  <2>2. CallsFit'
    BY <1>1, <1>2, <1>3, <1>4 DEF Inv, Structure, CallsFit, Reads
  <2>3. PhasesFit'
    BY <1>1, <1>2, <1>3, <1>4 DEF Inv, Structure, PhasesFit, Reads
  <2>4. AskedFits'
    BY <1>1, <1>2, <1>3, <1>4 DEF Inv, Structure, AskedFits
  <2>5. TellingFits'
    BY <1>1, <1>2, <1>3, <1>4 DEF Inv, Structure, TellingFits
  <2>6. Known'
    BY <1>1, <1>2, <1>3, <1>4 DEF Inv, Structure, Known, CallsFit, Stale, Reads
  <2>7. WriterHasItem'
    BY <1>1, <1>2, <1>3, <1>4 DEF Inv, Structure, WriterHasItem
  <2>8. GoneIsStale'
    BY <1>1, <1>2, <1>3, <1>4 DEF Inv, Structure, GoneIsStale, Stale
  <2> QED
    BY <2>1, <2>2, <2>3, <2>4, <2>5, <2>6, <2>7, <2>8 DEF Structure
<1>6. ASSUME ~mixed' PROVE Data'
  <2> Data
    BY <1>1, <1>2, <1>3, <1>4, <1>6 DEF Inv
  <2>1. Apart'
    BY <1>1, <1>2, <1>3, <1>4, <1>6 DEF Data, Apart, LooksUp, Puts
  <2>2. Coherent'
    BY <1>1, <1>2, <1>3, <1>4, <1>6 DEF Data, Coherent
  <2>3. ReadsLatest'
    BY <1>1, <1>2, <1>3, <1>4, <1>6 DEF Data, ReadsLatest, Reads
  <2>4. CreatesLatest'
    BY <1>1, <1>2, <1>3, <1>4, <1>6 DEF Data, CreatesLatest
  <2>5. AskedLatest'
    BY <1>1, <1>2, <1>3, <1>4, <1>6 DEF Data, AskedLatest
  <2>6. WriterLatest'
    BY <1>1, <1>2, <1>3, <1>4, <1>6 DEF Data, WriterLatest, Puts
  <2>7. KeepsAlone'
    BY <1>1, <1>2, <1>3, <1>4, <1>6 DEF Data, KeepsAlone, Reads
  <2>8. PutsAlone'
    <3>1. Quiet(c)
      <4>1. \A d \in Clients \ {c} : op[d] = "none"
        <5> SUFFICES ASSUME NEW d \in Clients \ {c} PROVE op[d] = "none"
          OBVIOUS
        <5>1. op[d] \in Ops
          BY InRange
        <5>2. op[d] \notin {"create", "remove", "getattr", "put"} /\ lock = c
          BY <1>1 DEF Inv, Structure, CallsFit
        <5>3. op[d] # "get"
          BY <1>4, <1>6, <5>2 DEF LooksUp
        <5> QED
          BY <5>1, <5>2, <5>3 DEF Ops
      <4> QED
        BY <4>1 DEF Inv, Structure, PhasesFit, AskedFits, TellingFits, Quiet
    <3>2. \A d \in Clients : telling[d] = Nobody
      BY <1>1, <3>1 DEF Inv, Structure, TellingFits, Quiet
    <3>3. \A w \in cached \ {c} : ~item[w].keep_writing
      BY <1>1, <3>2, InRange DEF Data, PutsAlone
    <3>4. c \in cached
      BY <1>1 DEF Inv, Structure, CallsFit
    <3>5. item[c].keep_writing => /\ current_writer = c
                                  /\ \A d \in Clients \ {c} : d \in cached => item[d].buf_dirty /\ item[d].attr_dirty
      BY <3>2, <3>4 DEF Data, KeepsAlone
    <3> QED
      BY <1>1, <1>2, <1>3, <3>1, <3>3, <3>5 DEF PutsAlone, Stale, Quiet
  <2> QED
    BY <2>1, <2>2, <2>3, <2>4, <2>5, <2>6, <2>7, <2>8 DEF Data
<1> QED
  BY <1>5, <1>6 DEF Inv

\* All others have been told when the call of put() returns, so c may keep to itself.
LEMMA PutReturnsStep ==
  ASSUME Inv, NEW c \in Clients, PutReturns(c)
  PROVE  Inv'
<1> TypeOK
  BY DEF Inv, Structure
<1>1. /\ op[c] = "put"
      /\ phase[c] = "reply"
  BY OpMeaning DEF Ops, TypeOK, PutReturns, At
<1>2. /\ phase'[c] = "apply"
      /\ \A d \in Clients \ {c} : phase'[d] = phase[d]
      /\ UNCHANGED <<content, clients, current_writer, cached, lock, linked, latest,
                     mixed, asked, carry, told, telling, todo>>
  BY <1>1 DEF TypeOK, PutReturns, At, Goto, server, cache, call, Items
<1>3. op' = op /\ writers' = writers
  BY <1>2, Zenon DEF op, writers
<1>4. /\ item'[c].keep_writing = TRUE
      /\ item'[c].buf_dirty <=> item[c].buf_dirty
      /\ item'[c].attr_dirty <=> item[c].attr_dirty
      /\ item'[c].buf = item[c].buf
      /\ item'[c].size = item[c].size
      /\ \A d \in Clients : d # c => item'[d] = item[d]
  BY <1>1 DEF TypeOK, PutReturns, At, Goto, server, cache, call, Items
<1>5. Structure'
  <2>1. TypeOK'
    <3>1. item' \in [Clients -> Items]
      <4>1. item[c] \in Items
        BY <1>1 DEF TypeOK
      <4>2. item'[c] \in Items
        BY <1>1, <4>1 DEF TypeOK, PutReturns, At, Goto, server, cache, call, Items
      <4> QED
        BY <1>1, <4>2 DEF TypeOK, PutReturns, At, Goto, server, cache, call
    <3>2. phase' \in [Clients -> Phases]
      BY <1>1, <1>2, <1>3, <1>4 DEF TypeOK, Phases, PutReturns, At, Goto, server, cache,
         call, Items
    <3> QED
      BY <1>1, <1>2, <1>3, <1>4, <3>1, <3>2 DEF TypeOK
  <2>2. CallsFit'
    BY <1>1, <1>2, <1>3, <1>4 DEF Inv, Structure, CallsFit, Reads
  <2>3. PhasesFit'
    BY <1>1, <1>2, <1>3, <1>4 DEF Inv, Structure, PhasesFit, Reads
  <2>4. AskedFits'
    BY <1>1, <1>2, <1>3, <1>4 DEF Inv, Structure, AskedFits
  <2>5. TellingFits'
    BY <1>1, <1>2, <1>3, <1>4 DEF Inv, Structure, TellingFits
  <2>6. Known'
    BY <1>1, <1>2, <1>3, <1>4, InRange DEF Inv, Structure, Known, Stale, Ops
  <2>7. WriterHasItem'
    BY <1>1, <1>2, <1>3, <1>4 DEF Inv, Structure, WriterHasItem
  <2>8. GoneIsStale'
    BY <1>1, <1>2, <1>3, <1>4 DEF Inv, Structure, GoneIsStale, CallsFit, Stale, Reads
  <2> QED
    BY <2>1, <2>2, <2>3, <2>4, <2>5, <2>6, <2>7, <2>8 DEF Structure
<1>6. ASSUME ~mixed' PROVE Data'
  <2> Data
    BY <1>1, <1>2, <1>3, <1>4, <1>6 DEF Inv
  <2>1. Apart'
    BY <1>1, <1>2, <1>3, <1>4 DEF Data, Apart, LooksUp, Puts
  <2>2. Coherent'
    BY <1>1, <1>2, <1>3, <1>4, InRange DEF Data, Coherent, Ops
  <2>3. ReadsLatest'
    BY <1>1, <1>2, <1>3, <1>4 DEF Data, ReadsLatest, Reads
  <2>4. CreatesLatest'
    BY <1>1, <1>2, <1>3, <1>4 DEF Data, CreatesLatest
  <2>5. AskedLatest'
    BY <1>1, <1>2, <1>3, <1>4 DEF Data, AskedLatest, PutsAlone, Stale
  <2>6. WriterLatest'
    BY <1>1, <1>2, <1>3, <1>4 DEF Data, WriterLatest, Puts
  <2>7. KeepsAlone'
    BY <1>1, <1>2, <1>3, <1>4, InRange, Quietness DEF Inv, Data, KeepsAlone, PutsAlone,
       Apart, Reads, Stale, LooksUp, Puts, Ops, Quiet
  <2>8. PutsAlone'
    BY <1>1, <1>2, <1>3, <1>4, InRange, Quietness DEF Inv, Data, PutsAlone, Apart, Stale,
       LooksUp, Puts, Ops, Quiet
  <2> QED
    BY <2>1, <2>2, <2>3, <2>4, <2>5, <2>6, <2>7, <2>8 DEF Data
<1> QED
  BY <1>5, <1>6 DEF Inv

\* The content last put changes: no other entry is fresh, and nothing is on its way.
LEMMA PutAppliesStep ==
  ASSUME Inv, NEW c \in Clients, PutApplies(c)
  PROVE  Inv'
<1> TypeOK
  BY DEF Inv, Structure
<1>1. /\ op[c] = "put"
      /\ phase[c] = "apply"
  BY OpMeaning DEF op, Ops, TypeOK, PhasesFit, Inv, Structure, Reads, PutApplies, At
<1>2. op[c] # "none" /\ CallDone(c)
  BY <1>1, OpMeaning DEF Reads, PutApplies
<1>3. /\ phase'[c] = "idle"
      /\ carry'[c] = Empty
      /\ op'[c] = IF c \in writers THEN "put" ELSE "none"
      /\ c \notin writers'
      /\ \A d \in Clients \ {c} :
            /\ phase'[d] = phase[d]
            /\ carry'[d] = carry[d]
            /\ op'[d] = op[d]
            /\ d \in writers' <=> d \in writers
      /\ lock' = IF lock = c /\ c \notin writers THEN Nobody ELSE lock
      /\ latest' = carry[c]
      /\ UNCHANGED <<content, clients, current_writer, cached, linked, mixed, asked, told,
                     telling>>
  BY <1>1, <1>2, CallDoneMeaning DEF TypeOK, PutApplies, At, Goto, server, cache, call,
     Items
<1>4. /\ item'[c].buf_dirty = FALSE
      /\ item'[c].attr_dirty = FALSE
      /\ item'[c].buf = carry[c]
      /\ item'[c].size = carry[c]
      /\ item'[c].keep_writing <=> item[c].keep_writing
      /\ \A d \in Clients : d # c => item'[d] = item[d]
  BY <1>1 DEF TypeOK, PutApplies, At, Goto, server, cache, call, Items
<1>5. Structure'
  <2>1. TypeOK'
    <3>1. item' \in [Clients -> Items]
      <4>1. item[c] \in Items
        BY <1>1 DEF TypeOK
      <4>2. item'[c] \in Items
        BY <1>1, <4>1 DEF TypeOK, PutApplies, At, Goto, server, cache, call, Items
      <4> QED
        BY <1>1, <4>2 DEF TypeOK, PutApplies, At, Goto, server, cache, call
    <3>2. todo' \in [Clients -> Todos]
      BY <1>2, CallDoneMeaning
    <3>3. phase' \in [Clients -> Phases] /\ carry' \in [Clients -> Values]
      BY <1>2, CallDoneMeaning
    <3>4. lock' # Nobody => op'[lock'] # "none"
      BY <1>1, <1>3, <1>4, <1>2, CallDoneMeaning DEF Inv, Structure, CallsFit, TypeOK
    <3>5. lock' # Nobody => todo'[lock'] # << >>
      BY <1>1, <1>3, <1>4, <3>4 DEF TypeOK, op
    <3> QED
      BY <1>1, <1>3, <1>4, <3>1, <3>2, <3>3, <3>5 DEF TypeOK, Todos
  <2>2. CallsFit'
    BY <1>1, <1>3, <1>4 DEF Inv, Structure, CallsFit, Reads
  <2>3. PhasesFit'
    BY <1>1, <1>3, <1>4 DEF Inv, Structure, PhasesFit, Reads
  <2>4. AskedFits'
    BY <1>1, <1>3, <1>4 DEF Inv, Structure, AskedFits
  <2>5. TellingFits'
    BY <1>1, <1>3, <1>4 DEF Inv, Structure, TellingFits
  <2>6. Known'
    BY <1>1, <1>3, <1>4, InRange DEF Inv, Structure, Known, Stale, Ops
  <2>7. WriterHasItem'
    BY <1>1, <1>3, <1>4 DEF Inv, Structure, WriterHasItem
  <2>8. GoneIsStale'
    BY <1>1, <1>3, <1>4 DEF Inv, Structure, GoneIsStale, CallsFit, Stale, Reads
  <2> QED
    BY <2>1, <2>2, <2>3, <2>4, <2>5, <2>6, <2>7, <2>8 DEF Structure
<1>6. ASSUME ~mixed' PROVE Data'
  <2> Data
    BY <1>1, <1>3, <1>4, <1>6 DEF Inv
  <2>1. Apart'
    BY <1>1, <1>3, <1>4 DEF Data, Apart, LooksUp, Puts
  <2>2. Coherent'
    BY <1>1, <1>3, <1>4, InRange DEF Data, Coherent, PutsAlone, Stale, Ops
  <2>3. ReadsLatest'
    <3>1. Quiet(c)
      BY <1>1, Quietness DEF Inv, Data, Puts
    <3>2. op'[c] \in {"put", "none"} /\ \A d \in Clients \ {c} : op'[d] = "none"
      BY <1>3, <3>1 DEF Quiet
    <3> QED
      BY <3>2 DEF ReadsLatest, Reads
  <2>4. CreatesLatest'
    BY <1>1, <1>3, <1>4 DEF Inv, Structure, Data, CreatesLatest, CallsFit, Reads
  <2>5. AskedLatest'
    BY <1>1, <1>3, <1>4 DEF Data, AskedLatest, PutsAlone, Stale
  <2>6. WriterLatest'
    BY <1>1, <1>3, <1>4 DEF Data, WriterLatest, PutsAlone, Puts, Stale
  <2>7. KeepsAlone'
    BY <1>1, <1>3, <1>4, InRange, Quietness DEF Inv, Data, KeepsAlone, PutsAlone, Apart,
       Reads, Stale, LooksUp, Puts, Ops, Quiet
  <2>8. PutsAlone'
    BY <1>1, <1>3, <1>4 DEF Inv, Structure, Data, PutsAlone, CallsFit, Stale, Reads
  <2> QED
    BY <2>1, <2>2, <2>3, <2>4, <2>5, <2>6, <2>7, <2>8 DEF Data
<1> QED
  BY <1>5, <1>6 DEF Inv

\* The file gets its name. Its client_info is new, so no writer is left of the last file.
LEMMA CreateReturnsStep ==
  ASSUME Inv, NEW c \in Clients, CreateReturns(c)
  PROVE  Inv'
<1> TypeOK
  BY DEF Inv, Structure
<1>1. /\ op[c] = "create"
      /\ phase[c] = "reply"
  BY OpMeaning DEF Ops, TypeOK, CreateReturns, At
<1>2. op[c] # "none" /\ CallDone(c)
  BY <1>1, OpMeaning DEF Reads, CreateReturns
<1>3. /\ phase'[c] = "idle"
      /\ carry'[c] = Empty
      /\ op'[c] = IF c \in writers THEN "put" ELSE "none"
      /\ c \notin writers'
      /\ \A d \in Clients \ {c} :
            /\ phase'[d] = phase[d]
            /\ carry'[d] = carry[d]
            /\ op'[d] = op[d]
            /\ d \in writers' <=> d \in writers
      /\ cached' = cached \union {c}
      /\ lock' = IF lock = c /\ c \notin writers THEN Nobody ELSE lock
      /\ linked' = TRUE
      /\ UNCHANGED <<content, clients, current_writer, latest, mixed, asked, told,
                     telling>>
  BY <1>1, <1>2, CallDoneMeaning DEF TypeOK, CreateReturns, At, Goto, server, cache, call,
     Items
<1>4. /\ item'[c].buf_dirty = FALSE
      /\ item'[c].attr_dirty = FALSE
      /\ item'[c].keep_writing = FALSE
      /\ item'[c].buf = Empty
      /\ item'[c].size = Empty
      /\ \A d \in Clients : d # c => item'[d] = item[d]
  BY <1>1 DEF TypeOK, CreateReturns, At, Goto, server, cache, call, Items
<1>5. Structure'
  <2>1. TypeOK'
    <3>1. item' \in [Clients -> Items]
      <4>1. item[c] \in Items
        BY <1>1 DEF TypeOK
      <4>2. item'[c] \in Items
        BY <1>1, <4>1 DEF TypeOK, CreateReturns, At, Goto, server, cache, call, Items
      <4> QED
        BY <1>1, <4>2 DEF TypeOK, CreateReturns, At, Goto, server, cache, call
    <3>2. todo' \in [Clients -> Todos]
      BY <1>2, CallDoneMeaning
    <3>3. phase' \in [Clients -> Phases] /\ carry' \in [Clients -> Values]
      BY <1>2, CallDoneMeaning
    <3>4. lock' # Nobody => op'[lock'] # "none"
      BY <1>1, <1>3, <1>4, <1>2, CallDoneMeaning DEF Inv, Structure, CallsFit, TypeOK
    <3>5. lock' # Nobody => todo'[lock'] # << >>
      BY <1>1, <1>3, <1>4, <3>4 DEF TypeOK, op
    <3> QED
      BY <1>1, <1>3, <1>4, <3>1, <3>2, <3>3, <3>5 DEF TypeOK, Todos
  <2>2. CallsFit'
    BY <1>1, <1>3, <1>4 DEF Inv, Structure, CallsFit, Reads
  <2>3. PhasesFit'
    BY <1>1, <1>3, <1>4 DEF Inv, Structure, PhasesFit, Reads
  <2>4. AskedFits'
    BY <1>1, <1>3, <1>4 DEF Inv, Structure, AskedFits
  <2>5. TellingFits'
    BY <1>1, <1>3, <1>4 DEF Inv, Structure, TellingFits
  <2>6. Known'
    BY <1>1, <1>3, <1>4, InRange DEF Inv, Structure, Known, Stale, Ops
  <2>7. WriterHasItem'
    BY <1>1, <1>3, <1>4 DEF Inv, Structure, WriterHasItem
  <2>8. GoneIsStale'
    BY <1>1, <1>3, <1>4 DEF Inv, Structure, GoneIsStale, CallsFit, Stale, Reads
  <2> QED
    BY <2>1, <2>2, <2>3, <2>4, <2>5, <2>6, <2>7, <2>8 DEF Structure
<1>6. ASSUME ~mixed' PROVE Data'
  <2> Data
    BY <1>1, <1>3, <1>4, <1>6 DEF Inv
  <2>1. Apart'
    BY <1>1, <1>3, <1>4 DEF Data, Apart, LooksUp, Puts
  <2>2. Coherent'
    BY <1>1, <1>3, <1>4, InRange DEF Data, Coherent, CreatesLatest, Ops
  <2>3. ReadsLatest'
    BY <1>1, <1>3, <1>4 DEF Data, ReadsLatest, Reads
  <2>4. CreatesLatest'
    BY <1>1, <1>3, <1>4 DEF Data, CreatesLatest
  <2>5. AskedLatest'
    BY <1>1, <1>3, <1>4, Quietness DEF Inv, Structure, Data, AskedLatest, AskedFits, Quiet
  <2>6. WriterLatest'
    BY <1>1, <1>3, <1>4, InRange DEF Inv, Structure, Data, WriterLatest, CreatesLatest,
       WriterHasItem, Puts, Ops
  <2>7. KeepsAlone'
    BY <1>1, <1>3, <1>4, InRange DEF Inv, Structure, Data, KeepsAlone, GoneIsStale,
       CallsFit, Reads, Stale, Ops
  <2>8. PutsAlone'
    BY <1>1, <1>3, <1>4 DEF Inv, Structure, Data, PutsAlone, CallsFit, Stale, Reads
  <2> QED
    BY <2>1, <2>2, <2>3, <2>4, <2>5, <2>6, <2>7, <2>8 DEF Data
<1> QED
  BY <1>5, <1>6 DEF Inv

\* Who removed the file drops its entry, and all others are stale.
LEMMA RemoveReturnsStep ==
  ASSUME Inv, NEW c \in Clients, RemoveReturns(c)
  PROVE  Inv'
<1> TypeOK
  BY DEF Inv, Structure
<1>1. /\ op[c] = "remove"
      /\ phase[c] = "reply"
  BY OpMeaning DEF Ops, TypeOK, RemoveReturns, At, Items, NoItem
<1>2. op[c] # "none" /\ CallDone(c)
  BY <1>1, OpMeaning DEF Reads, RemoveReturns
<1>3. /\ phase'[c] = "idle"
      /\ carry'[c] = Empty
      /\ op'[c] = IF c \in writers THEN "put" ELSE "none"
      /\ c \notin writers'
      /\ \A d \in Clients \ {c} :
            /\ phase'[d] = phase[d]
            /\ carry'[d] = carry[d]
            /\ op'[d] = op[d]
            /\ d \in writers' <=> d \in writers
      /\ cached' = cached \ {c}
      /\ lock' = IF lock = c /\ c \notin writers THEN Nobody ELSE lock
      /\ UNCHANGED <<content, clients, current_writer, linked, latest, mixed, asked, told,
                     telling>>
  BY <1>1, <1>2, CallDoneMeaning DEF TypeOK, RemoveReturns, At, Goto, server, cache, call,
     Items, NoItem
<1>4. \A d \in Clients : d # c => item'[d] = item[d]
  BY <1>1 DEF TypeOK, RemoveReturns, At, Goto, server, cache, call, Items, NoItem
<1>5. Structure'
  <2>1. TypeOK'
    <3>1. item' \in [Clients -> Items]
      BY <1>1, <1>3, <1>4, <1>2, CallDoneMeaning DEF TypeOK, RemoveReturns, At, Goto,
         server, cache, call, Items, NoItem
    <3>2. todo' \in [Clients -> Todos]
      BY <1>2, CallDoneMeaning
    <3>3. phase' \in [Clients -> Phases] /\ carry' \in [Clients -> Values]
      BY <1>2, CallDoneMeaning
    <3>4. lock' # Nobody => op'[lock'] # "none"
      BY <1>1, <1>3, <1>4, <1>2, CallDoneMeaning DEF Inv, Structure, CallsFit, TypeOK
    <3>5. lock' # Nobody => todo'[lock'] # << >>
      BY <1>1, <1>3, <1>4, <3>4 DEF TypeOK, op
    <3> QED
      BY <1>1, <1>3, <1>4, <3>1, <3>2, <3>3, <3>5 DEF TypeOK, Todos
  <2>2. CallsFit'
    BY <1>1, <1>3, <1>4 DEF Inv, Structure, CallsFit, Reads
  <2>3. PhasesFit'
    BY <1>1, <1>3, <1>4 DEF Inv, Structure, PhasesFit, Reads
  <2>4. AskedFits'
    BY ZenonT(60), <1>1, <1>3, <1>4 DEF Inv, Structure, AskedFits, CallsFit, PhasesFit, Reads
  <2>5. TellingFits'
    BY <1>1, <1>3, <1>4 DEF Inv, Structure, TellingFits
  <2>6. Known'
    BY <1>1, <1>3, <1>4, InRange DEF Inv, Structure, Known, Stale, Ops
  <2>7. WriterHasItem'
    BY <1>1, <1>3, <1>4 DEF Inv, Structure, WriterHasItem, CallsFit, Reads
  <2>8. GoneIsStale'
    BY <1>1, <1>3, <1>4 DEF Inv, Structure, GoneIsStale, CallsFit, Stale, Reads
  <2> QED
    BY <2>1, <2>2, <2>3, <2>4, <2>5, <2>6, <2>7, <2>8 DEF Structure
<1>6. ASSUME ~mixed' PROVE Data'
  <2> Data
    BY <1>1, <1>3, <1>4, <1>6 DEF Inv
  <2>1. Apart'
    BY <1>1, <1>3, <1>4 DEF Data, Apart, LooksUp, Puts
  <2>2. Coherent'
    BY <1>1, <1>3, <1>4, InRange DEF Data, Coherent, Ops
  <2>3. ReadsLatest'
    BY <1>1, <1>3, <1>4 DEF Data, ReadsLatest, Reads
  <2>4. CreatesLatest'
    BY <1>1, <1>3, <1>4 DEF Data, CreatesLatest
  <2>5. AskedLatest'
    BY <1>1, <1>3, <1>4, Quietness DEF Inv, Structure, Data, AskedLatest, AskedFits, Quiet
  <2>6. WriterLatest'
    BY <1>1, <1>3, <1>4 DEF Inv, Structure, Data, WriterLatest, CallsFit, Puts, Reads
  <2>7. KeepsAlone'
    BY <1>1, <1>3, <1>4, InRange DEF Inv, Structure, Data, KeepsAlone, GoneIsStale, Reads,
       Stale, Ops
  <2>8. PutsAlone'
    BY <1>1, <1>3, <1>4 DEF Inv, Structure, Data, PutsAlone, CallsFit, Stale, Reads
  <2> QED
    BY <2>1, <2>2, <2>3, <2>4, <2>5, <2>6, <2>7, <2>8 DEF Data
<1> QED
  BY <1>5, <1>6 DEF Inv

-----------------------------------------------------------------------------
(* The handlers in the clients *)

\* A client that is told loses a fresh entry. If it is the writer again by now, the server
\* has its content, because who tells has read or stored it.
LEMMA RefreshStep ==
  ASSUME Inv, NEW c \in Clients, Refresh(c)
  PROVE  Inv'
<1> TypeOK
  BY DEF Inv, Structure
<1>1. telling[c] # Nobody
  BY OpMeaning DEF Ops, TypeOK, Refresh, At, Items, Refreshed
<1>2. /\ telling'[c] = Nobody
      /\ \A d \in Clients \ {c} : telling'[d] = telling[d]
      /\ UNCHANGED <<content, clients, current_writer, cached, lock, linked, latest,
                     mixed, phase, asked, carry, told, todo>>
  BY <1>1 DEF TypeOK, Refresh, At, Goto, server, cache, call, Items, Refreshed
<1>3. op' = op /\ writers' = writers
  BY <1>2, Zenon DEF op, writers
<1>4. /\ item'[telling[c]].buf_dirty <=> (telling[c] \in cached \/ item[telling[c]].buf_dirty)
      /\ item'[telling[c]].attr_dirty <=> (telling[c] \in cached \/ item[telling[c]].attr_dirty)
      /\ item'[telling[c]].keep_writing <=> (telling[c] \notin cached /\ item[telling[c]].keep_writing)
      /\ item'[telling[c]].buf = item[telling[c]].buf
      /\ item'[telling[c]].size = item[telling[c]].size
      /\ \A d \in Clients : d # telling[c] => item'[d] = item[d]
  BY <1>1 DEF TypeOK, Refresh, At, Goto, server, cache, call, Items, Refreshed
<1>5. Structure'
  <2>1. TypeOK'
    <3>1. item' \in [Clients -> Items]
      <4>1. item[telling[c]] \in Items
        BY <1>1 DEF TypeOK
      <4>2. item'[telling[c]] \in Items
        BY <1>1, <4>1 DEF TypeOK, Refresh, At, Goto, server, cache, call, Items, Refreshed
      <4> QED
        BY <1>1, <4>2 DEF TypeOK, Refresh, At, Goto, server, cache, call, Refreshed
    <3>2. telling' \in [Clients -> Clients \union {Nobody}]
      BY <1>1, <1>2, <1>3, <1>4 DEF TypeOK, Refresh, At, Goto, server, cache, call, Items,
         Refreshed
    <3> QED
      BY <1>1, <1>2, <1>3, <1>4, <3>1, <3>2 DEF TypeOK
  <2>2. TellingFits'
    BY <1>1, <1>2, <1>3, <1>4 DEF Inv, Structure, TellingFits
  <2>3. Known'
    BY <1>1, <1>2, <1>3, <1>4, InRange DEF Inv, Structure, Known, Stale, Ops
  <2>4. GoneIsStale'
    BY <1>1, <1>2, <1>3, <1>4, InRange DEF Inv, Structure, GoneIsStale, Stale, Ops
  <2>5. CallsFit' /\ PhasesFit' /\ AskedFits' /\ WriterHasItem'
    BY <1>2, <1>3, <1>4 DEF Inv, Structure, CallsFit, PhasesFit, AskedFits, WriterHasItem,
       Reads
  <2> QED
    BY <2>1, <2>2, <2>3, <2>4, <2>5 DEF Structure
<1>6. ASSUME ~mixed' PROVE Data'
  <2> Data
    BY <1>1, <1>2, <1>3, <1>4, <1>6 DEF Inv
  <2>1. Coherent'
    BY <1>1, <1>2, <1>3, <1>4, InRange DEF Data, Coherent, Ops
  <2>2. AskedLatest'
    BY <1>1, <1>2, <1>3, <1>4, InRange DEF Data, AskedLatest, Ops
  <2>3. WriterLatest'
    <3> SUFFICES ASSUME linked, \A d \in Clients : ~Puts(d)
                 PROVE  /\ current_writer = Nobody => content = latest
                        /\ current_writer # Nobody =>
                             /\ item'[current_writer].buf = latest /\ item'[current_writer].size = latest
                             /\ content # latest => ~item'[current_writer].buf_dirty
      BY <1>2, <1>3 DEF WriterLatest, Puts
    <3>1. /\ current_writer = Nobody => content = latest
          /\ current_writer # Nobody =>
               /\ item[current_writer].buf = latest /\ item[current_writer].size = latest
               /\ content # latest => ~item[current_writer].buf_dirty
      BY DEF Data, WriterLatest
    <3>2. content = latest
      <4>1. phase[c] \in {"tell", "tell others"}
        BY <1>1 DEF Inv, Structure, TellingFits
      <4>2. op[c] \in Ops /\ op[c] \notin {"none", "create", "remove", "put"}
        BY <4>1, InRange DEF Inv, Structure, PhasesFit, CallsFit, Puts
      <4> QED
        BY <4>1, <4>2 DEF Data, ReadsLatest, Reads, Ops
    <3>3. current_writer # Nobody => /\ item'[current_writer].buf = item[current_writer].buf
                                     /\ item'[current_writer].size = item[current_writer].size
      BY <1>4, InRange
    <3> QED
      BY <3>1, <3>2, <3>3
  <2>4. KeepsAlone'
    BY <1>1, <1>2, <1>3, <1>4, InRange DEF Data, KeepsAlone, Reads, Ops
  <2>5. PutsAlone'
    BY <1>1, <1>2, <1>3, <1>4, InRange DEF Data, PutsAlone, Stale, Ops
  <2>6. Apart' /\ ReadsLatest' /\ CreatesLatest'
    BY <1>2, <1>3, <1>4 DEF Data, Apart, ReadsLatest, CreatesLatest, LooksUp, Puts, Reads
  <2> QED
    BY <2>1, <2>2, <2>3, <2>4, <2>5, <2>6 DEF Data
<1> QED
  BY <1>5, <1>6 DEF Inv

\* The writer's copy is the content last put.
LEMMA RequireStep ==
  ASSUME Inv, NEW c \in Clients, Require(c)
  PROVE  Inv'
<1> TypeOK
  BY DEF Inv, Structure
<1>1. /\ phase[c] = "require"
      /\ asked[c] \in Clients
  BY OpMeaning DEF Ops, TypeOK, AskedFits, Inv, Structure, Require, At
<1>2. /\ phase'[c] = "store"
      /\ carry'[c] = item[asked[c]].buf
      /\ \A d \in Clients \ {c} : phase'[d] = phase[d] /\ carry'[d] = carry[d]
      /\ UNCHANGED <<content, clients, current_writer, cached, lock, linked, latest,
                     mixed, asked, told, telling, item, todo>>
  BY <1>1 DEF TypeOK, Require, At, Goto, server, cache, call, Items
<1>3. op' = op /\ writers' = writers
  BY <1>2, Zenon DEF op, writers
<1>4. Structure'
  <2>1. TypeOK'
    <3>1. phase' \in [Clients -> Phases]
      BY <1>1, <1>2, <1>3 DEF TypeOK, Phases, Require, At, Goto, server, cache, call,
         Items
    <3>2. carry' \in [Clients -> Values]
      BY <1>1, <1>2, <1>3 DEF TypeOK, Require, At, Goto, server, cache, call, Items
    <3> QED
      BY <1>1, <1>2, <1>3, <3>1, <3>2 DEF TypeOK
  <2>2. CallsFit'
    BY <1>1, <1>2, <1>3 DEF Inv, Structure, CallsFit, Reads
  <2>3. PhasesFit'
    BY <1>1, <1>2, <1>3 DEF Inv, Structure, PhasesFit, Reads
  <2>4. AskedFits'
    BY <1>1, <1>2, <1>3 DEF Inv, Structure, AskedFits
  <2>5. TellingFits'
    BY <1>1, <1>2, <1>3 DEF Inv, Structure, TellingFits
  <2>6. Known'
    BY <1>1, <1>2, <1>3 DEF Inv, Structure, Known, Stale
  <2>7. WriterHasItem'
    BY <1>1, <1>2, <1>3 DEF Inv, Structure, WriterHasItem
  <2>8. GoneIsStale'
    BY <1>1, <1>2, <1>3 DEF Inv, Structure, GoneIsStale, Stale
  <2> QED
    BY <2>1, <2>2, <2>3, <2>4, <2>5, <2>6, <2>7, <2>8 DEF Structure
<1>5. ASSUME ~mixed' PROVE Data'
  <2> Data
    BY <1>1, <1>2, <1>3, <1>5 DEF Inv
  <2>1. Apart'
    BY <1>1, <1>2, <1>3 DEF Data, Apart, LooksUp, Puts
  <2>2. ReadsLatest'
    BY <1>1, <1>2, <1>3 DEF Data, ReadsLatest, AskedLatest, Reads
  <2>3. CreatesLatest'
    BY <1>1, <1>2, <1>3 DEF Data, CreatesLatest
  <2>4. WriterLatest'
    BY <1>1, <1>2, <1>3 DEF Data, WriterLatest, Puts
  <2>5. KeepsAlone'
    BY <1>1, <1>2, <1>3 DEF Data, KeepsAlone, Reads
  <2>6. PutsAlone'
    BY <1>1, <1>2, <1>3 DEF Data, PutsAlone, Stale
  <2>7. Coherent' /\ AskedLatest'
    BY <1>2, <1>3 DEF Data, Coherent, AskedLatest
  <2> QED
    BY <2>1, <2>2, <2>3, <2>4, <2>5, <2>6, <2>7 DEF Data
<1> QED
  BY <1>4, <1>5 DEF Inv

\* The writer's entry is clean again, and what it holds is the content last put.
LEMMA RequireReturnsStep ==
  ASSUME Inv, NEW c \in Clients, RequireReturns(c)
  PROVE  Inv'
<1> TypeOK
  BY DEF Inv, Structure
<1>1. /\ phase[c] = "stored"
      /\ asked[c] \in Clients
      /\ asked[c] \in cached
  BY OpMeaning DEF Ops, TypeOK, AskedFits, Inv, Structure, RequireReturns, At
<1>2. /\ phase'[c] = "read"
      /\ asked'[c] = Nobody
      /\ \A d \in Clients \ {c} : phase'[d] = phase[d] /\ asked'[d] = asked[d]
      /\ UNCHANGED <<content, clients, current_writer, cached, lock, linked, latest,
                     mixed, carry, told, telling, todo>>
  BY <1>1 DEF TypeOK, RequireReturns, At, Goto, server, cache, call, Items
<1>3. op' = op /\ writers' = writers
  BY <1>2, Zenon DEF op, writers
<1>4. /\ item'[asked[c]].buf_dirty = FALSE
      /\ item'[asked[c]].attr_dirty = FALSE
      /\ item'[asked[c]].keep_writing <=> item[asked[c]].keep_writing
      /\ item'[asked[c]].buf = item[asked[c]].buf
      /\ item'[asked[c]].size = item[asked[c]].size
      /\ \A d \in Clients : d # asked[c] => item'[d] = item[d]
  BY <1>1 DEF TypeOK, RequireReturns, At, Goto, server, cache, call, Items
<1>5. Structure'
  <2>1. TypeOK'
    <3>1. item' \in [Clients -> Items]
      <4>1. item[asked[c]] \in Items
        BY <1>1 DEF TypeOK
      <4>2. item'[asked[c]] \in Items
        BY <1>1, <4>1 DEF TypeOK, RequireReturns, At, Goto, server, cache, call, Items
      <4> QED
        BY <1>1, <4>2 DEF TypeOK, RequireReturns, At, Goto, server, cache, call
    <3>2. phase' \in [Clients -> Phases]
      BY <1>1, <1>2, <1>3, <1>4 DEF TypeOK, Phases, RequireReturns, At, Goto, server,
         cache, call, Items
    <3>3. asked' \in [Clients -> Clients \union {Nobody}]
      BY <1>1, <1>2, <1>3, <1>4 DEF TypeOK, RequireReturns, At, Goto, server, cache, call,
         Items
    <3> QED
      BY <1>1, <1>2, <1>3, <1>4, <3>1, <3>2, <3>3 DEF TypeOK
  <2>2. CallsFit'
    BY <1>1, <1>2, <1>3, <1>4 DEF Inv, Structure, CallsFit, Reads
  <2>3. PhasesFit'
    BY <1>1, <1>2, <1>3, <1>4 DEF Inv, Structure, PhasesFit, Reads
  <2>4. AskedFits'
    BY ZenonT(60), <1>1, <1>2, <1>3, <1>4 DEF Inv, Structure, AskedFits
  <2>5. TellingFits'
    BY <1>1, <1>2, <1>3, <1>4 DEF Inv, Structure, TellingFits
  <2>6. Known'
    BY ZenonT(60), <1>1, <1>2, <1>3, <1>4, InRange DEF Inv, Structure, Known, AskedFits, Stale, Ops
  <2>7. WriterHasItem'
    BY <1>1, <1>2, <1>3, <1>4 DEF Inv, Structure, WriterHasItem
  <2>8. GoneIsStale'
    BY <1>1, <1>2, <1>3, <1>4, InRange DEF Inv, Structure, GoneIsStale, CallsFit,
       PhasesFit, Stale, Reads, Ops
  <2> QED
    BY <2>1, <2>2, <2>3, <2>4, <2>5, <2>6, <2>7, <2>8 DEF Structure
<1>6. ASSUME ~mixed' PROVE Data'
  <2> Data
    BY <1>1, <1>2, <1>3, <1>4, <1>6 DEF Inv
  <2>1. Apart'
    BY <1>1, <1>2, <1>3, <1>4 DEF Data, Apart, LooksUp, Puts
  <2>2. Coherent'
    BY <1>1, <1>2, <1>3, <1>4, InRange DEF Data, Coherent, AskedLatest, Ops
  <2>3. ReadsLatest'
    BY <1>1, <1>2, <1>3, <1>4 DEF Data, ReadsLatest, Reads
  <2>4. CreatesLatest'
    BY <1>1, <1>2, <1>3, <1>4 DEF Data, CreatesLatest
  <2>5. AskedLatest'
    BY <1>1, <1>2, <1>3, <1>4 DEF Data, AskedLatest
  <2>6. WriterLatest'
    BY <1>1, <1>2, <1>3, <1>4 DEF Data, WriterLatest, AskedLatest, Puts
  <2>7. KeepsAlone'
    BY <1>1, <1>2, <1>3, <1>4, InRange DEF Data, KeepsAlone, AskedLatest, Reads, Ops
  <2>8. PutsAlone'
    BY <1>1, <1>2, <1>3, <1>4, InRange, Quietness DEF Inv, Structure, Data, PutsAlone,
       PhasesFit, Apart, Stale, Reads, LooksUp, Puts, Ops, Quiet
  <2> QED
    BY <2>1, <2>2, <2>3, <2>4, <2>5, <2>6, <2>7, <2>8 DEF Data
<1> QED
  BY <1>5, <1>6 DEF Inv

-----------------------------------------------------------------------------
(* extent_server *)

\* The writer is asked while nobody puts: its copy is the content last put.
LEMMA ServerReadsStep ==
  ASSUME Inv, NEW c \in Clients, ServerReads(c)
  PROVE  Inv'
<1> TypeOK
  BY DEF Inv, Structure
<1>1. /\ Reads(c)
      /\ phase[c] = "sent"
  BY OpMeaning DEF Reads, Ops, TypeOK, ServerReads, At
<1>2. /\ phase'[c] = IF current_writer = Nobody THEN "read" ELSE "require"
      /\ asked'[c] = current_writer
      /\ \A d \in Clients \ {c} : phase'[d] = phase[d] /\ asked'[d] = asked[d]
      /\ UNCHANGED <<content, clients, current_writer, cached, lock, linked, latest,
                     mixed, carry, told, telling, item, todo>>
  BY <1>1 DEF TypeOK, ServerReads, At, Goto, server, cache, call
<1>3. op' = op /\ writers' = writers
  BY <1>2, Zenon DEF op, writers
<1>4. Structure'
  <2>1. TypeOK'
    <3>1. phase' \in [Clients -> Phases]
      BY <1>1, <1>2, <1>3 DEF TypeOK, Phases, ServerReads, At, Goto, server, cache, call
    <3>2. asked' \in [Clients -> Clients \union {Nobody}]
      BY <1>1, <1>2, <1>3 DEF TypeOK, ServerReads, At, Goto, server, cache, call
    <3> QED
      BY <1>1, <1>2, <1>3, <3>1, <3>2 DEF TypeOK
  <2>2. CallsFit'
    BY <1>1, <1>2, <1>3 DEF Inv, Structure, CallsFit, Reads
  <2>3. PhasesFit'
    BY <1>1, <1>2, <1>3 DEF Inv, Structure, PhasesFit, Reads
  <2>4. AskedFits'
    BY <1>1, <1>2, <1>3 DEF Inv, Structure, AskedFits, CallsFit, PhasesFit, WriterHasItem,
       Reads
  <2>5. TellingFits'
    BY <1>1, <1>2, <1>3 DEF Inv, Structure, TellingFits, Reads
  <2>6. Known'
    BY <1>1, <1>2, <1>3 DEF Inv, Structure, Known, Stale, Reads
  <2>7. WriterHasItem'
    BY <1>1, <1>2, <1>3 DEF Inv, Structure, WriterHasItem, Reads
  <2>8. GoneIsStale'
    BY <1>1, <1>2, <1>3 DEF Inv, Structure, GoneIsStale, Stale, Reads
  <2> QED
    BY <2>1, <2>2, <2>3, <2>4, <2>5, <2>6, <2>7, <2>8 DEF Structure
<1>5. ASSUME ~mixed' PROVE Data'
  <2> Data
    BY <1>1, <1>2, <1>3, <1>5 DEF Inv
  <2>1. Apart'
    BY <1>1, <1>2, <1>3 DEF Data, Apart, LooksUp, Puts, Reads
  <2>2. Coherent'
    BY <1>1, <1>2, <1>3 DEF Data, Coherent, Reads
  <2>3. ReadsLatest'
    BY <1>1, <1>2, <1>3, Quietness DEF Inv, Structure, Data, ReadsLatest, WriterLatest,
       CallsFit, Apart, Reads, Puts, LooksUp, Quiet
  <2>4. CreatesLatest'
    BY <1>1, <1>2, <1>3 DEF Data, CreatesLatest, Reads
  <2>5. AskedLatest'
    BY <1>1, <1>2, <1>3, InRange, Quietness DEF Inv, Structure, Data, AskedLatest,
       WriterLatest, CallsFit, Apart, Puts, Reads, LooksUp, Ops, Quiet
  <2>6. WriterLatest'
    BY <1>1, <1>2, <1>3 DEF Data, WriterLatest, Puts, Reads
  <2>7. KeepsAlone'
    BY <1>1, <1>2, <1>3 DEF Data, KeepsAlone, Reads
  <2>8. PutsAlone'
    BY <1>1, <1>2, <1>3 DEF Data, PutsAlone, Stale, Reads
  <2> QED
    BY <2>1, <2>2, <2>3, <2>4, <2>5, <2>6, <2>7, <2>8 DEF Data
<1> QED
  BY <1>4, <1>5 DEF Inv

\* The content that the writer sent is the content last put.
LEMMA ServerStoresStep ==
  ASSUME Inv, NEW c \in Clients, ServerStores(c)
  PROVE  Inv'
<1> TypeOK
  BY DEF Inv, Structure
<1>1. /\ phase[c] = "store"
      /\ asked[c] \in Clients
  BY OpMeaning DEF Ops, TypeOK, AskedFits, Inv, Structure, ServerStores, At
<1>2. /\ phase'[c] = "tell others"
      /\ told'[c] = {asked[c]}
      /\ \A d \in Clients \ {c} : phase'[d] = phase[d] /\ told'[d] = told[d]
      /\ content' = carry[c]
      /\ clients' = clients \union {asked[c]}
      /\ current_writer' = asked[c]
      /\ UNCHANGED <<cached, lock, linked, latest, mixed, asked, carry, telling, item,
                     todo>>
  BY <1>1 DEF TypeOK, ServerStores, At, Goto, server, cache, call
<1>3. op' = op /\ writers' = writers
  BY <1>2, Zenon DEF op, writers
<1>4. Structure'
  <2>1. TypeOK'
    <3>1. phase' \in [Clients -> Phases]
      BY <1>1, <1>2, <1>3 DEF TypeOK, Phases, ServerStores, At, Goto, server, cache, call
    <3>2. told' \in [Clients -> SUBSET Clients]
      <4>1. {asked[c]} \in SUBSET Clients
        BY <1>1 DEF TypeOK
      <4> QED
        BY <1>1, <4>1 DEF TypeOK, ServerStores, At, Goto, server, cache, call
    <3> QED
      BY <1>1, <1>2, <1>3, <3>1, <3>2 DEF TypeOK, AskedFits, Inv, Structure
  <2>2. CallsFit'
    BY <1>1, <1>2, <1>3 DEF Inv, Structure, CallsFit, Reads
  <2>3. PhasesFit'
    BY <1>1, <1>2, <1>3 DEF Inv, Structure, PhasesFit, Reads
  <2>4. AskedFits'
    BY <1>1, <1>2, <1>3 DEF Inv, Structure, AskedFits
  <2>5. TellingFits'
    BY <1>1, <1>2, <1>3 DEF Inv, Structure, TellingFits
  <2>6. Known'
    BY <1>1, <1>2, <1>3 DEF Inv, Structure, Known, Stale
  <2>7. WriterHasItem'
    BY <1>1, <1>2, <1>3, InRange DEF Inv, Structure, WriterHasItem, AskedFits, CallsFit,
       PhasesFit, Reads, Ops
  <2>8. GoneIsStale'
    BY ZenonT(60), <1>1, <1>2, <1>3 DEF Inv, Structure, GoneIsStale, Stale
  <2> QED
    BY <2>1, <2>2, <2>3, <2>4, <2>5, <2>6, <2>7, <2>8 DEF Structure
<1>5. ASSUME ~mixed' PROVE Data'
  <2> Data
    BY <1>1, <1>2, <1>3, <1>5 DEF Inv
  <2>1. Apart'
    BY <1>1, <1>2, <1>3 DEF Data, Apart, LooksUp, Puts
  <2>2. Coherent'
    BY <1>1, <1>2, <1>3 DEF Data, Coherent
  <2>3. ReadsLatest'
    BY <1>1, <1>2, <1>3, InRange DEF Inv, Structure, Data, ReadsLatest, PhasesFit, Reads,
       Ops
  <2>4. CreatesLatest'
    BY <1>1, <1>2, <1>3 DEF Inv, Structure, Data, CreatesLatest, CallsFit, PhasesFit,
       Reads
  <2>5. AskedLatest'
    BY <1>1, <1>2, <1>3 DEF Data, AskedLatest
  <2>6. WriterLatest'
    BY <1>1, <1>2, <1>3, InRange DEF Inv, Structure, Data, WriterLatest, ReadsLatest,
       AskedLatest, PhasesFit, Puts, Reads, Ops
  <2>7. KeepsAlone'
    <3> SUFFICES ASSUME NEW w \in cached, item[w].keep_writing, \A d \in Clients : telling[d] # w
                 PROVE  /\ current_writer' = w
                        /\ \A d \in Clients \ {w} :
                             /\ d \in cached => item[d].buf_dirty /\ item[d].attr_dirty
                             /\ Reads(d) => phase'[d] # "reply" /\ (phase'[d] = "tell" => w \notin told'[d])
      BY <1>2, <1>3 DEF KeepsAlone, Reads
    <3>1. /\ current_writer = w
          /\ \A d \in Clients \ {w} :
               /\ d \in cached => item[d].buf_dirty /\ item[d].attr_dirty
               /\ Reads(d) => phase[d] # "reply" /\ (phase[d] = "tell" => w \notin told[d])
      BY DEF Data, KeepsAlone
    <3>2. asked[c] = w
      BY <1>1, <3>1, InRange DEF Data, AskedLatest
    <3> QED
      BY <1>2, <3>1, <3>2
  <2>8. PutsAlone'
    <3>1. op[c] \in Ops /\ op[c] \notin {"none", "create", "remove", "put"}
      BY <1>1, InRange DEF Inv, Structure, PhasesFit
    <3>2. \A p \in Clients : ~Puts(p)
      BY <3>1, Quietness DEF Inv, Data, Reads, Ops
    <3>3. \A p \in Clients : op[p] = "put" => phase'[p] = "idle"
      BY <1>2, <3>1, <3>2 DEF Puts
    <3> QED
      BY ZenonT(60), <1>2, <1>3, <3>3 DEF Data, PutsAlone
  <2> QED
    BY <2>1, <2>2, <2>3, <2>4, <2>5, <2>6, <2>7, <2>8 DEF Data
<1> QED
  BY <1>4, <1>5 DEF Inv

\* The server's content is the content last put, and goes to the reader.
LEMMA ServerAnswersStep ==
  ASSUME Inv, NEW c \in Clients, ServerAnswers(c)
  PROVE  Inv'
<1> TypeOK
  BY DEF Inv, Structure
<1>1. phase[c] = "read"
  BY OpMeaning DEF Ops, TypeOK, ServerAnswers, At
<1>2. /\ phase'[c] = IF current_writer = Nobody THEN "reply" ELSE "tell"
      /\ carry'[c] = content
      /\ told'[c] = {c}
      /\ \A d \in Clients \ {c} :
            /\ phase'[d] = phase[d]
            /\ carry'[d] = carry[d]
            /\ told'[d] = told[d]
      /\ clients' = clients \union {c}
      /\ UNCHANGED <<content, current_writer, cached, lock, linked, latest, mixed, asked,
                     telling, item, todo>>
  BY <1>1 DEF TypeOK, ServerAnswers, At, Goto, server, cache, call
<1>3. op' = op /\ writers' = writers
  BY <1>2, Zenon DEF op, writers
<1>4. Structure'
  <2>1. TypeOK'
    <3>1. phase' \in [Clients -> Phases]
      BY <1>1, <1>2, <1>3 DEF TypeOK, Phases, ServerAnswers, At, Goto, server, cache, call
    <3>2. carry' \in [Clients -> Values]
      BY <1>1, <1>2, <1>3 DEF TypeOK, ServerAnswers, At, Goto, server, cache, call
    <3>3. told' \in [Clients -> SUBSET Clients]
      <4>1. {c} \in SUBSET Clients
        BY <1>1 DEF TypeOK
      <4> QED
        BY <1>1, <4>1 DEF TypeOK, ServerAnswers, At, Goto, server, cache, call
    <3> QED
      BY <1>1, <1>2, <1>3, <3>1, <3>2, <3>3 DEF TypeOK
  <2>2. CallsFit'
    BY <1>1, <1>2, <1>3 DEF Inv, Structure, CallsFit, Reads
  <2>3. PhasesFit'
    BY <1>1, <1>2, <1>3 DEF Inv, Structure, PhasesFit, Reads
  <2>4. AskedFits'
    BY <1>1, <1>2, <1>3 DEF Inv, Structure, AskedFits
  <2>5. TellingFits'
    BY <1>1, <1>2, <1>3 DEF Inv, Structure, TellingFits
  <2>6. Known'
    BY <1>1, <1>2, <1>3 DEF Inv, Structure, Known, Stale
  <2>7. WriterHasItem'
    BY <1>1, <1>2, <1>3 DEF Inv, Structure, WriterHasItem
  <2>8. GoneIsStale'
    BY <1>1, <1>2, <1>3 DEF Inv, Structure, GoneIsStale, PhasesFit, Stale, Reads
  <2> QED
    BY <2>1, <2>2, <2>3, <2>4, <2>5, <2>6, <2>7, <2>8 DEF Structure
<1>5. ASSUME ~mixed' PROVE Data'
  <2> Data
    BY <1>1, <1>2, <1>3, <1>5 DEF Inv
  <2>1. Apart'
    BY <1>1, <1>2, <1>3 DEF Data, Apart, LooksUp, Puts
  <2>2. ReadsLatest'
    BY <1>1, <1>2, <1>3 DEF Data, ReadsLatest, Reads
  <2>3. CreatesLatest'
    BY <1>1, <1>2, <1>3 DEF Inv, Structure, Data, CreatesLatest, PhasesFit, Reads
  <2>4. WriterLatest'
    BY <1>1, <1>2, <1>3 DEF Data, WriterLatest, Puts
  <2>5. KeepsAlone'
    BY <1>1, <1>2, <1>3, InRange DEF Data, KeepsAlone, Reads, Ops
  <2>6. PutsAlone'
    BY <1>1, <1>2, <1>3 DEF Inv, Structure, Data, PutsAlone, PhasesFit, Stale, Reads
  <2>7. Coherent' /\ AskedLatest'
    BY <1>2, <1>3 DEF Data, Coherent, AskedLatest
  <2> QED
    BY <2>1, <2>2, <2>3, <2>4, <2>5, <2>6, <2>7 DEF Data
<1> QED
  BY <1>4, <1>5 DEF Inv

\* A put that calls the server is alone and nobody keeps writing.
LEMMA ServerWritesStep ==
  ASSUME Inv, NEW c \in Clients, ServerWrites(c)
  PROVE  Inv'
<1> TypeOK
  BY DEF Inv, Structure
<1>1. /\ op[c] = "put"
      /\ phase[c] = "sent"
  BY OpMeaning DEF Ops, TypeOK, ServerWrites, At
<1>2. /\ phase'[c] = "tell"
      /\ told'[c] = {c}
      /\ \A d \in Clients \ {c} : phase'[d] = phase[d] /\ told'[d] = told[d]
      /\ content' = carry[c]
      /\ clients' = clients \union {c}
      /\ current_writer' = c
      /\ UNCHANGED <<cached, lock, linked, latest, mixed, asked, carry, telling, item,
                     todo>>
  BY <1>1 DEF TypeOK, ServerWrites, At, Goto, server, cache, call
<1>3. op' = op /\ writers' = writers
  BY <1>2, Zenon DEF op, writers
<1>4. Structure'
  <2>1. TypeOK'
    <3>1. phase' \in [Clients -> Phases]
      BY <1>1, <1>2, <1>3 DEF TypeOK, Phases, ServerWrites, At, Goto, server, cache, call
    <3>2. told' \in [Clients -> SUBSET Clients]
      <4>1. {c} \in SUBSET Clients
        BY <1>1 DEF TypeOK
      <4> QED
        BY <1>1, <4>1 DEF TypeOK, ServerWrites, At, Goto, server, cache, call
    <3> QED
      BY <1>1, <1>2, <1>3, <3>1, <3>2 DEF TypeOK
  <2>2. CallsFit'
    BY <1>1, <1>2, <1>3 DEF Inv, Structure, CallsFit, Reads
  <2>3. PhasesFit'
    BY <1>1, <1>2, <1>3 DEF Inv, Structure, PhasesFit, Reads
  <2>4. AskedFits'
    BY <1>1, <1>2, <1>3 DEF Inv, Structure, AskedFits
  <2>5. TellingFits'
    BY <1>1, <1>2, <1>3 DEF Inv, Structure, TellingFits
  <2>6. Known'
    BY <1>1, <1>2, <1>3 DEF Inv, Structure, Known, Stale
  <2>7. WriterHasItem'
    BY <1>1, <1>2, <1>3 DEF Inv, Structure, WriterHasItem, CallsFit, Reads
  <2>8. GoneIsStale'
    BY <1>1, <1>2, <1>3 DEF Inv, Structure, GoneIsStale, Stale
  <2> QED
    BY <2>1, <2>2, <2>3, <2>4, <2>5, <2>6, <2>7, <2>8 DEF Structure
<1>5. ASSUME ~mixed' PROVE Data'
  <2> Data
    BY <1>1, <1>2, <1>3, <1>5 DEF Inv
  <2>1. Apart'
    BY <1>1, <1>2, <1>3 DEF Data, Apart, LooksUp, Puts
  <2>2. Coherent'
    BY <1>1, <1>2, <1>3 DEF Data, Coherent
  <2>3. ReadsLatest'
    BY <1>1, <1>2, <1>3, Quietness DEF Inv, Data, ReadsLatest, Apart, Reads, LooksUp,
       Puts, Quiet
  <2>4. CreatesLatest'
    BY <1>1, <1>2, <1>3 DEF Inv, Structure, Data, CreatesLatest, CallsFit, Reads
  <2>5. AskedLatest'
    BY <1>1, <1>2, <1>3, Quietness DEF Inv, Structure, Data, AskedLatest, AskedFits,
       Apart, LooksUp, Puts, Quiet
  <2>6. WriterLatest'
    BY <1>1, <1>2, <1>3 DEF Data, WriterLatest, Puts
  <2>7. KeepsAlone'
    <3>1. Quiet(c)
      BY <1>1, Quietness DEF Inv, Data, Puts
    <3>2. \A d \in Clients : telling[d] = Nobody
      BY <1>1, <3>1 DEF Inv, Structure, TellingFits, Quiet
    <3>3. \A w \in cached : ~item[w].keep_writing
      BY <1>1, <3>2, InRange DEF Data, PutsAlone
    <3> QED
      BY <1>2, <3>3 DEF KeepsAlone
  <2>8. PutsAlone'
    BY <1>1, <1>2, <1>3 DEF Inv, Structure, Data, PutsAlone, CallsFit, Stale, Reads
  <2> QED
    BY <2>1, <2>2, <2>3, <2>4, <2>5, <2>6, <2>7, <2>8 DEF Data
<1> QED
  BY <1>4, <1>5 DEF Inv

\* Nobody has a fresh entry of a file that is gone, so none is left for the new one.
LEMMA ServerCreatesStep ==
  ASSUME Inv, NEW c \in Clients, ServerCreates(c)
  PROVE  Inv'
<1> TypeOK
  BY DEF Inv, Structure
<1>1. /\ op[c] = "create"
      /\ phase[c] = "sent"
  BY OpMeaning DEF Ops, TypeOK, ServerCreates, At
<1>2. /\ phase'[c] = "reply"
      /\ \A d \in Clients \ {c} : phase'[d] = phase[d]
      /\ content' = Empty
      /\ clients' = {c}
      /\ current_writer' = Nobody
      /\ latest' = Empty
      /\ UNCHANGED <<cached, lock, linked, mixed, asked, carry, told, telling, item,
                     todo>>
  BY <1>1 DEF TypeOK, ServerCreates, At, Goto, server, cache, call
<1>3. op' = op /\ writers' = writers
  BY <1>2, Zenon DEF op, writers
<1>4. Structure'
  <2>1. TypeOK'
    <3>1. phase' \in [Clients -> Phases]
      BY <1>1, <1>2, <1>3 DEF TypeOK, Phases, ServerCreates, At, Goto, server, cache, call
    <3> QED
      BY <1>1, <1>2, <1>3, <3>1 DEF TypeOK
  <2>2. CallsFit'
    BY <1>1, <1>2, <1>3 DEF Inv, Structure, CallsFit, Reads
  <2>3. PhasesFit'
    BY <1>1, <1>2, <1>3 DEF Inv, Structure, PhasesFit, Reads
  <2>4. AskedFits'
    BY <1>1, <1>2, <1>3 DEF Inv, Structure, AskedFits, CallsFit, PhasesFit, Reads
  <2>5. TellingFits'
    BY <1>1, <1>2, <1>3 DEF Inv, Structure, TellingFits
  <2>6. Known'
    BY <1>1, <1>2, <1>3, InRange, Quietness DEF Inv, Structure, Known, GoneIsStale,
       CallsFit, Stale, Reads, Ops, Quiet
  <2>7. WriterHasItem'
    BY <1>1, <1>2, <1>3 DEF Inv, Structure, WriterHasItem
  <2>8. GoneIsStale'
    BY <1>1, <1>2, <1>3 DEF Inv, Structure, GoneIsStale, Stale
  <2> QED
    BY <2>1, <2>2, <2>3, <2>4, <2>5, <2>6, <2>7, <2>8 DEF Structure
<1>5. ASSUME ~mixed' PROVE Data'
  <2> Data
    BY <1>1, <1>2, <1>3, <1>5 DEF Inv
  <2>1. Apart'
    BY <1>1, <1>2, <1>3 DEF Data, Apart, LooksUp, Puts
  <2>2. Coherent'
    BY <1>1, <1>2, <1>3, InRange DEF Inv, Structure, Data, Coherent, GoneIsStale,
       CallsFit, Stale, Reads, Ops
  <2>3. ReadsLatest'
    BY <1>1, <1>2, <1>3 DEF Inv, Structure, Data, ReadsLatest, CallsFit, Reads
  <2>4. CreatesLatest'
    BY <1>1, <1>2, <1>3 DEF Data, CreatesLatest
  <2>5. AskedLatest'
    BY <1>1, <1>2, <1>3, Quietness DEF Inv, Structure, Data, AskedLatest, AskedFits, Quiet
  <2>6. WriterLatest'
    BY <1>1, <1>2, <1>3 DEF Data, WriterLatest, Puts
  <2>7. KeepsAlone'
    BY <1>1, <1>2, <1>3, InRange DEF Inv, Structure, Data, KeepsAlone, GoneIsStale,
       CallsFit, Reads, Stale, Ops
  <2>8. PutsAlone'
    BY <1>1, <1>2, <1>3 DEF Inv, Structure, Data, PutsAlone, CallsFit, Stale, Reads
  <2> QED
    BY <2>1, <2>2, <2>3, <2>4, <2>5, <2>6, <2>7, <2>8 DEF Data
<1> QED
  BY <1>4, <1>5 DEF Inv

\* The handler of remove() begins to tell everybody it knows of.
LEMMA ServerRemovesStep ==
  ASSUME Inv, NEW c \in Clients, ServerRemoves(c)
  PROVE  Inv'
<1> TypeOK
  BY DEF Inv, Structure
<1>1. /\ op[c] = "remove"
      /\ phase[c] = "sent"
  BY OpMeaning DEF Ops, TypeOK, ServerRemoves, At
<1>2. /\ phase'[c] = "tell"
      /\ told'[c] = {c}
      /\ \A d \in Clients \ {c} : phase'[d] = phase[d] /\ told'[d] = told[d]
      /\ clients' = clients \union {c}
      /\ UNCHANGED <<content, current_writer, cached, lock, linked, latest, mixed, asked,
                     carry, telling, item, todo>>
  BY <1>1 DEF TypeOK, ServerRemoves, At, Goto, server, cache, call
<1>3. op' = op /\ writers' = writers
  BY <1>2, Zenon DEF op, writers
<1>4. Structure'
  <2>1. TypeOK'
    <3>1. phase' \in [Clients -> Phases]
      BY <1>1, <1>2, <1>3 DEF TypeOK, Phases, ServerRemoves, At, Goto, server, cache, call
    <3>2. told' \in [Clients -> SUBSET Clients]
      <4>1. {c} \in SUBSET Clients
        BY <1>1 DEF TypeOK
      <4> QED
        BY <1>1, <4>1 DEF TypeOK, ServerRemoves, At, Goto, server, cache, call
    <3> QED
      BY <1>1, <1>2, <1>3, <3>1, <3>2 DEF TypeOK
  <2>2. CallsFit'
    BY <1>1, <1>2, <1>3 DEF Inv, Structure, CallsFit, Reads
  <2>3. PhasesFit'
    BY <1>1, <1>2, <1>3 DEF Inv, Structure, PhasesFit, Reads
  <2>4. AskedFits'
    BY <1>1, <1>2, <1>3 DEF Inv, Structure, AskedFits
  <2>5. TellingFits'
    BY <1>1, <1>2, <1>3 DEF Inv, Structure, TellingFits
  <2>6. Known'
    BY <1>1, <1>2, <1>3 DEF Inv, Structure, Known, Stale
  <2>7. WriterHasItem'
    BY <1>1, <1>2, <1>3 DEF Inv, Structure, WriterHasItem
  <2>8. GoneIsStale'
    BY <1>1, <1>2, <1>3 DEF Inv, Structure, GoneIsStale, Stale
  <2> QED
    BY <2>1, <2>2, <2>3, <2>4, <2>5, <2>6, <2>7, <2>8 DEF Structure
<1>5. ASSUME ~mixed' PROVE Data'
  <2> Data
    BY <1>1, <1>2, <1>3, <1>5 DEF Inv
  <2>1. Apart'
    BY <1>1, <1>2, <1>3 DEF Data, Apart, LooksUp, Puts
  <2>2. ReadsLatest'
    BY <1>1, <1>2, <1>3 DEF Data, ReadsLatest, Reads
  <2>3. CreatesLatest'
    BY <1>1, <1>2, <1>3 DEF Data, CreatesLatest
  <2>4. WriterLatest'
    BY <1>1, <1>2, <1>3 DEF Data, WriterLatest, Puts
  <2>5. KeepsAlone'
    BY <1>1, <1>2, <1>3 DEF Data, KeepsAlone, Reads
  <2>6. PutsAlone'
    BY <1>1, <1>2, <1>3 DEF Data, PutsAlone, Stale
  <2>7. Coherent' /\ AskedLatest'
    BY <1>2, <1>3 DEF Data, Coherent, AskedLatest
  <2> QED
    BY <2>1, <2>2, <2>3, <2>4, <2>5, <2>6, <2>7 DEF Data
<1> QED
  BY <1>4, <1>5 DEF Inv

\* The writer is forgotten before it is told. In a get the server has its content by then;
\* in a put it is another client than c, and what it has no longer counts.
LEMMA TellNextStep ==
  ASSUME Inv, NEW c \in Clients, TellNext(c)
  PROVE  Inv'
<1> TypeOK
  BY DEF Inv, Structure
<1>0. PICK e \in clients \ told[c] :
      /\ telling' = [telling EXCEPT ![c] = e] /\ told' = [told EXCEPT ![c] = @ \union {e}]
      /\ current_writer' = IF e = current_writer THEN Nobody ELSE current_writer
  BY DEF TellNext, ToTell
<1>1. /\ phase[c] \in {"tell", "tell others"}
      /\ telling[c] = Nobody
      /\ e \in clients \ told[c] /\ e \in Clients
  BY <1>0, OpMeaning DEF Ops, TypeOK, TellNext, At
<1>2. /\ \A d : d \in told'[c] <=> d \in told[c] \/ d = e
      /\ telling'[c] = e
      /\ \A d \in Clients \ {c} : told'[d] = told[d] /\ telling'[d] = telling[d]
      /\ current_writer' = IF e = current_writer THEN Nobody ELSE current_writer
      /\ UNCHANGED <<content, clients, cached, lock, linked, latest, mixed, phase, asked,
                     carry, item, todo>>
  BY ZenonT(60), <1>0, <1>1 DEF TypeOK, TellNext, At, Goto, server, cache, call
<1>3. op' = op /\ writers' = writers
  BY <1>2, Zenon DEF op, writers
<1>4. Structure'
  <2>1. TypeOK'
    <3>1. told' \in [Clients -> SUBSET Clients]
      <4>1. told[c] \union {e} \in SUBSET Clients
        BY <1>1 DEF TypeOK
      <4> QED
        BY <1>0, <1>1, <4>1 DEF TypeOK, TellNext, At, Goto, server, cache, call
    <3>2. telling' \in [Clients -> Clients \union {Nobody}]
      BY <1>0, <1>1, <1>2, <1>3 DEF TypeOK, TellNext, At, Goto, server, cache, call
    <3> QED
      BY <1>1, <1>2, <1>3, <3>1, <3>2 DEF TypeOK
  <2>2. AskedFits'
    BY <1>1, <1>2, <1>3 DEF Inv, Structure, AskedFits
  <2>3. TellingFits'
    <3>1. phase'[c] = phase[c] /\ \A d \in Clients \ {c} : told'[d] = told[d] /\ telling'[d] = telling[d] /\ phase'[d] = phase[d]
      BY <1>2
    <3>2. telling'[c] \in told'[c]
      BY <1>2
    <3>3. telling'[c] = c => phase'[c] = "tell others"
      BY <1>1, <1>2 DEF Inv, Structure, TellingFits
    <3>4. phase[c] = "tell" => c \in told'[c]
      BY <1>1, <1>2 DEF Inv, Structure, TellingFits
    <3>5. ASSUME NEW d \in Clients
          PROVE  /\ telling'[d] # Nobody => phase'[d] \in {"tell", "tell others"}
                 /\ telling'[d] # Nobody => telling'[d] \in told'[d]
                 /\ telling'[d] = d => phase'[d] = "tell others"
                 /\ phase'[d] = "tell" => d \in told'[d]
      <4>1. CASE d = c
        BY <1>1, <3>1, <3>2, <3>3, <3>4, <4>1
      <4>2. CASE d # c
        <5>1. told'[d] = told[d] /\ telling'[d] = telling[d] /\ phase'[d] = phase[d]
          BY <3>1, <4>2
        <5>2. /\ telling[d] # Nobody => phase[d] \in {"tell", "tell others"} /\ telling[d] \in told[d]
              /\ telling[d] = d => phase[d] = "tell others"
              /\ phase[d] = "tell" => d \in told[d]
          BY Zenon DEF Inv, Structure, TellingFits
        <5> QED
          BY <5>1, <5>2
      <4> QED
        BY <4>1, <4>2
    <3> QED
      BY <3>5 DEF TellingFits
  <2>4. WriterHasItem'
    BY <1>1, <1>2, <1>3 DEF Inv, Structure, WriterHasItem
  <2>5. GoneIsStale'
    <3>1. cached' = cached /\ item' = item /\ linked' = linked /\ op' = op /\ phase' = phase
      BY <1>2, <1>3
    <3>2. ASSUME NEW r \in Clients, op[r] = "remove", phase[r] = "tell", NEW d \in told'[r] \ {r, telling'[r]}
          PROVE  Stale(d)
      <4>1. d \in told[r] \ {r, telling[r]} \/ (r = c /\ d \in told[c] \ {c})
        BY <1>2, <3>2
      <4>2. d \in told[r] \ {r, telling[r]}
        BY <1>1, <4>1, InRange
      <4> QED
        BY <3>2, <4>2 DEF Inv, Structure, GoneIsStale
    <3> QED
      BY <3>1, <3>2 DEF Inv, Structure, GoneIsStale, Stale
  <2>6. CallsFit' /\ PhasesFit' /\ Known'
    BY <1>2, <1>3 DEF Inv, Structure, CallsFit, PhasesFit, Known, Reads, Stale
  <2> QED
    BY <2>1, <2>2, <2>3, <2>4, <2>5, <2>6 DEF Structure
<1>5. ASSUME ~mixed' PROVE Data'
  <2> Data
    BY <1>1, <1>2, <1>3, <1>5 DEF Inv
  <2>1. AskedLatest'
    BY <1>1, <1>2, <1>3 DEF Data, AskedLatest
  <2>2. WriterLatest'
    BY <1>1, <1>2, <1>3, InRange DEF Inv, Structure, Data, WriterLatest, ReadsLatest,
       PhasesFit, CallsFit, Puts, Reads, Ops
  <2>3. KeepsAlone'
    <3> SUFFICES ASSUME NEW w \in cached, item[w].keep_writing, \A d \in Clients : telling'[d] # w
                 PROVE  /\ current_writer' = w
                        /\ \A d \in Clients \ {w} :
                             /\ d \in cached => item[d].buf_dirty /\ item[d].attr_dirty
                             /\ Reads(d) => phase[d] # "reply" /\ (phase[d] = "tell" => w \notin told'[d])
      BY <1>2, <1>3 DEF KeepsAlone, Reads
    <3>1. w # e /\ w # Nobody
      BY <1>2, InRange
    <3>2. \A d \in Clients : telling[d] # w
      BY <1>1, <1>2, <3>1
    <3>3. /\ current_writer = w
          /\ \A d \in Clients \ {w} :
               /\ d \in cached => item[d].buf_dirty /\ item[d].attr_dirty
               /\ Reads(d) => phase[d] # "reply" /\ (phase[d] = "tell" => w \notin told[d])
      BY <3>2 DEF Data, KeepsAlone
    <3>4. \A d \in Clients : w \in told'[d] <=> w \in told[d]
      BY <1>2, <3>1
    <3> QED
      BY <1>2, <3>1, <3>3, <3>4
  <2>4. PutsAlone'
    <3> SUFFICES ASSUME NEW p \in Clients, op[p] = "put"
                 PROVE  /\ \A w \in cached \ {p} : item[w].keep_writing => \E d \in Clients : telling'[d] = w
                        /\ phase[p] \in {"sent", "tell", "reply"} => ~item[p].keep_writing
                        /\ phase[p] \in {"tell", "reply", "apply"} => current_writer' = p
                        /\ phase[p] = "tell" => \A d \in told'[p] \ {p, telling'[p]} : Stale(d)
                        /\ phase[p] \in {"reply", "apply"} => \A d \in Clients \ {p} : Stale(d)
      BY <1>2, <1>3 DEF PutsAlone, Stale
    <3>1. /\ \A w \in cached \ {p} : item[w].keep_writing => \E d \in Clients : telling[d] = w
          /\ phase[p] \in {"sent", "tell", "reply"} => ~item[p].keep_writing
          /\ phase[p] \in {"tell", "reply", "apply"} => current_writer = p
          /\ phase[p] = "tell" => \A d \in told[p] \ {p, telling[p]} : Stale(d)
          /\ phase[p] \in {"reply", "apply"} => \A d \in Clients \ {p} : Stale(d)
      BY DEF Data, PutsAlone
    <3>2. ASSUME NEW w \in cached, NEW d \in Clients, telling[d] = w PROVE telling'[d] = w
      <4>1. w # Nobody
        BY InRange
      <4> QED
        BY <1>1, <1>2, <3>2, <4>1
    <3>3. CASE p = c
      <4>1. phase[c] = "tell"
        BY <1>1, <3>3 DEF Inv, Structure, PhasesFit
      <4>2. c \in told[c] /\ e # c
        BY <1>1, <4>1 DEF Inv, Structure, TellingFits
      <4>3. current_writer' = c
        BY <1>2, <3>1, <3>3, <4>1, <4>2
      <4>4. \A d \in told'[c] \ {c, telling'[c]} : Stale(d)
        BY <1>1, <1>2, <3>1, <3>3, <4>1, InRange
      <4> QED
        BY <3>1, <3>2, <3>3, <4>1, <4>3, <4>4
    <3>4. CASE p # c
      <4>1. ~Puts(p)
        BY <1>1, <3>4, Quietness DEF Inv, Data, Quiet
      <4>2. phase[p] = "idle"
        BY <4>1 DEF Puts
      <4> QED
        BY <3>1, <3>2, <4>2
    <3> QED
      BY <3>3, <3>4
  <2>5. Apart' /\ Coherent' /\ ReadsLatest' /\ CreatesLatest'
    BY <1>2, <1>3 DEF Data, Apart, Coherent, ReadsLatest, CreatesLatest, LooksUp, Puts,
       Reads
  <2> QED
    BY <2>1, <2>2, <2>3, <2>4, <2>5 DEF Data
<1> QED
  BY <1>4, <1>5 DEF Inv

\* Everybody has been told whom the server knows, and nobody else has a fresh entry.
LEMMA AllToldStep ==
  ASSUME Inv, NEW c \in Clients, AllTold(c)
  PROVE  Inv'
<1> TypeOK
  BY DEF Inv, Structure
<1>1. /\ phase[c] \in {"tell", "tell others"}
      /\ telling[c] = Nobody
      /\ clients \subseteq told[c]
  BY OpMeaning DEF Ops, TypeOK, AllTold, At, ToTell
<1>2. /\ phase'[c] = IF phase[c] = "tell" THEN "reply" ELSE "stored"
      /\ told'[c] = {}
      /\ \A d \in Clients \ {c} : phase'[d] = phase[d] /\ told'[d] = told[d]
      /\ UNCHANGED <<content, clients, current_writer, cached, lock, linked, latest,
                     mixed, asked, carry, telling, item, todo>>
  BY <1>1 DEF TypeOK, AllTold, At, Goto, server, cache, call, ToTell
<1>3. op' = op /\ writers' = writers
  BY <1>2, Zenon DEF op, writers
<1>4. Structure'
  <2>1. TypeOK'
    <3>1. phase' \in [Clients -> Phases]
      BY <1>1, <1>2, <1>3 DEF TypeOK, Phases, AllTold, At, Goto, server, cache, call,
         ToTell
    <3>2. told' \in [Clients -> SUBSET Clients]
      BY <1>1, <1>2, <1>3 DEF TypeOK, AllTold, At, Goto, server, cache, call, ToTell
    <3> QED
      BY <1>1, <1>2, <1>3, <3>1, <3>2 DEF TypeOK
  <2>2. CallsFit'
    BY <1>1, <1>2, <1>3 DEF Inv, Structure, CallsFit, Reads
  <2>3. PhasesFit'
    BY <1>1, <1>2, <1>3 DEF Inv, Structure, PhasesFit, Reads
  <2>4. AskedFits'
    BY <1>1, <1>2, <1>3 DEF Inv, Structure, AskedFits
  <2>5. TellingFits'
    BY <1>1, <1>2, <1>3 DEF Inv, Structure, TellingFits
  <2>6. Known'
    BY <1>1, <1>2, <1>3 DEF Inv, Structure, Known, Stale
  <2>7. WriterHasItem'
    BY <1>1, <1>2, <1>3 DEF Inv, Structure, WriterHasItem, PhasesFit, Reads
  <2>8. GoneIsStale'
    BY ZenonT(60), <1>1, <1>2, <1>3 DEF Inv, Structure, GoneIsStale, Known, Stale
  <2> QED
    BY <2>1, <2>2, <2>3, <2>4, <2>5, <2>6, <2>7, <2>8 DEF Structure
<1>5. ASSUME ~mixed' PROVE Data'
  <2> Data
    BY <1>1, <1>2, <1>3, <1>5 DEF Inv
  <2>1. Apart'
    BY <1>1, <1>2, <1>3 DEF Data, Apart, LooksUp, Puts
  <2>2. ReadsLatest'
    BY <1>1, <1>2, <1>3 DEF Data, ReadsLatest, Reads
  <2>3. CreatesLatest'
    BY <1>1, <1>2, <1>3 DEF Inv, Structure, Data, CreatesLatest, PhasesFit, Reads
  <2>4. WriterLatest'
    BY <1>1, <1>2, <1>3 DEF Data, WriterLatest, Puts
  <2>5. KeepsAlone'
    <3> SUFFICES ASSUME NEW w \in cached, item[w].keep_writing, \A d \in Clients : telling[d] # w
                 PROVE  /\ current_writer = w
                        /\ \A d \in Clients \ {w} :
                             /\ d \in cached => item[d].buf_dirty /\ item[d].attr_dirty
                             /\ Reads(d) => phase'[d] # "reply" /\ (phase'[d] = "tell" => w \notin told'[d])
      BY <1>2, <1>3 DEF KeepsAlone, Reads
    <3>1. /\ current_writer = w
          /\ \A d \in Clients \ {w} :
               /\ d \in cached => item[d].buf_dirty /\ item[d].attr_dirty
               /\ Reads(d) => phase[d] # "reply" /\ (phase[d] = "tell" => w \notin told[d])
      BY DEF Data, KeepsAlone
    <3>2. w \in clients
      BY DEF Inv, Structure, Known, Stale
    <3>3. c # w => ~Reads(c) \/ phase'[c] = "stored"
      BY <1>1, <1>2, <3>1, <3>2
    <3> QED
      BY <1>2, <3>1, <3>3
  <2>6. PutsAlone'
    <3> SUFFICES ASSUME NEW p \in Clients, op[p] = "put"
                 PROVE  /\ \A w \in cached \ {p} : item[w].keep_writing => \E d \in Clients : telling[d] = w
                        /\ phase'[p] \in {"sent", "tell", "reply"} => ~item[p].keep_writing
                        /\ phase'[p] \in {"tell", "reply", "apply"} => current_writer = p
                        /\ phase'[p] = "tell" => \A d \in told'[p] \ {p, telling[p]} : Stale(d)
                        /\ phase'[p] \in {"reply", "apply"} => \A d \in Clients \ {p} : Stale(d)
      BY <1>2, <1>3 DEF PutsAlone, Stale
    <3>1. /\ \A w \in cached \ {p} : item[w].keep_writing => \E d \in Clients : telling[d] = w
          /\ phase[p] \in {"sent", "tell", "reply"} => ~item[p].keep_writing
          /\ phase[p] \in {"tell", "reply", "apply"} => current_writer = p
          /\ phase[p] = "tell" => \A d \in told[p] \ {p, telling[p]} : Stale(d)
          /\ phase[p] \in {"reply", "apply"} => \A d \in Clients \ {p} : Stale(d)
      BY DEF Data, PutsAlone
    <3>2. CASE p = c
      <4>1. phase[c] = "tell" /\ phase'[c] = "reply"
        BY <1>1, <1>2, <3>2 DEF Inv, Structure, PhasesFit
      <4>2. \A d \in told[c] \ {c} : Stale(d)
        BY <1>1, <3>1, <3>2, <4>1, InRange
      <4>3. \A d \in Clients \ told[c] : Stale(d)
        BY <1>1 DEF Inv, Structure, Known, Stale
      <4> QED
        BY <3>1, <3>2, <4>1, <4>2, <4>3
    <3>3. CASE p # c
      BY <1>2, <3>1, <3>3
    <3> QED
      BY <3>2, <3>3
  <2>7. Coherent' /\ AskedLatest'
    BY <1>2, <1>3 DEF Data, Coherent, AskedLatest
  <2> QED
    BY <2>1, <2>2, <2>3, <2>4, <2>5, <2>6, <2>7 DEF Data
<1> QED
  BY <1>4, <1>5 DEF Inv

-----------------------------------------------------------------------------
(* The theorems *)

\* A file system that has just been made: the file has no name, and nobody an entry.
LEMMA InitInv == Init => Inv
<1> SUFFICES ASSUME Init PROVE Inv
  OBVIOUS
<1>1. TypeOK
  <2>1. NoItem \in Items
    BY DEF NoItem, Items
  <2> QED
    BY <2>1 DEF Init, TypeOK, Phases
<1>2. op = [c \in Clients |-> "none"] /\ writers = {}
  BY Zenon DEF Init, op, writers
<1>3. Structure
  BY <1>1, <1>2 DEF Init, Structure, CallsFit, PhasesFit, AskedFits, TellingFits, Known,
     WriterHasItem, GoneIsStale, Reads, Stale
<1>4. Data
  BY <1>2 DEF Init, Data, Apart, Coherent, ReadsLatest, CreatesLatest, AskedLatest,
     WriterLatest, KeepsAlone, PutsAlone, LooksUp, Reads
<1> QED
  BY <1>3, <1>4 DEF Inv

\* A step of something else
LEMMA StutterInv == Inv /\ UNCHANGED vars => Inv'
<1> SUFFICES ASSUME Inv, UNCHANGED vars PROVE Inv'
  OBVIOUS
<1>1. op' = op /\ writers' = writers
  BY Zenon DEF vars, call, op, writers
<1>2. Structure'
  BY <1>1 DEF Inv, Structure, TypeOK, CallsFit, PhasesFit, AskedFits, TellingFits, Known,
     WriterHasItem, GoneIsStale, Reads, Stale, vars, server, cache, call
<1>3. ASSUME ~mixed' PROVE Data'
  <2> Data
    BY <1>3 DEF Inv, vars
  <2>1. Apart' /\ ReadsLatest' /\ CreatesLatest' /\ WriterLatest'
    BY <1>1 DEF Data, Apart, ReadsLatest, CreatesLatest, WriterLatest, LooksUp, Puts, Reads,
       vars, server, cache, call
  <2>2. Coherent' /\ AskedLatest'
    BY DEF Data, Coherent, AskedLatest, vars, server, cache, call
  <2>3. KeepsAlone' /\ PutsAlone'
    BY <1>1 DEF Data, KeepsAlone, PutsAlone, Reads, Stale, vars, server, cache, call
  <2> QED
    BY <2>1, <2>2, <2>3 DEF Data
<1> QED
  BY <1>2, <1>3 DEF Inv

\* The inductive invariant: in every state the calls are where the code can have them,
\* and until a lookup has overlapped a put, all that is clean or travels is what was
\* last put.
THEOREM InvHolds == Spec => []Inv
<1>1. ASSUME Inv, Next PROVE Inv'
  <2> PICK c \in Clients : Operation(c) \/ ClientStep(c) \/ HandlerStep(c) \/ ServerStep(c)
    BY <1>1 DEF Next
  <2>1. CASE Operation(c)
    BY <1>1, <2>1, AcquireStep, LookupStep, CreateStep, UnlinkStep DEF Operation
  <2>2. CASE ClientStep(c)
    BY <1>1, <2>2, HitStep, MissStep, GetReturnsStep, GetattrReturnsStep, PutStep,
       PutReturnsStep, PutAppliesStep, CreateReturnsStep, RemoveReturnsStep DEF ClientStep
  <2>3. CASE HandlerStep(c)
    BY <1>1, <2>3, RefreshStep, RequireStep, RequireReturnsStep DEF HandlerStep
  <2>4. CASE ServerStep(c)
    BY <1>1, <2>4, ServerReadsStep, ServerStoresStep, ServerAnswersStep, ServerWritesStep,
       ServerCreatesStep, ServerRemovesStep, TellNextStep, AllToldStep DEF ServerStep
  <2> QED
    BY <2>1, <2>2, <2>3, <2>4
<1> QED
  BY <1>1, InitInv, StutterInv, PTL DEF Spec

\* Type correctness of one file's entries in the caches and at the server.
THEOREM TypeCorrect == Spec => []TypeOK
<1>1. Inv => TypeOK
  BY DEF Inv, Structure
<1> QED
  BY <1>1, InvHolds, PTL

\* get() and getattr() without a call: a clean content, and a size marked clean, in
\* whichever cache and through whatever hand-over of the writer's role, are those last
\* put, as long as no lookup has overlapped a put.
THEOREM CleanIsCurrent == Spec => []Coherent
<1>1. Inv => Coherent
  BY DEF Inv, Data, Coherent
<1> QED
  BY <1>1, InvHolds, PTL

\* What was last put is on the server or in the clean copy of current_writer, which
\* the server would require it of, although put() mostly stays in the client's cache;
\* as long as no lookup has overlapped a put.
THEOREM NothingLost == Spec => []NotLost
<1>1. Inv => NotLost
  <2> SUFFICES ASSUME Inv, linked, ~mixed, \A c \in Clients : ~Putting(c)
               PROVE  \/ content = latest
                      \/ /\ current_writer \in cached
                         /\ ~item[current_writer].buf_dirty
                         /\ item[current_writer].buf = latest
    BY DEF NotLost
  <2>1. \A c \in Clients : ~Puts(c)
    BY OpMeaning DEF Inv, Structure
  <2>2. current_writer \in cached \union {Nobody}
    BY DEF Inv, Structure, WriterHasItem
  <2> QED
    BY <2>1, <2>2 DEF Inv, Data, WriterLatest
<1> QED
  BY <1>1, InvHolds, PTL

\* Two clients never both have keep_writing set, unnoticed by the server, as long as
\* no lookup has overlapped a put.
THEOREM OneKeepsWriting == Spec => []KeepsWritingAlone
<1>1. Inv => KeepsWritingAlone
  BY DEF Inv, Data, KeepsAlone, KeepsWritingAlone
<1> QED
  BY <1>1, InvHolds, PTL

\* require_handler() finds an entry, even when lookups overlap puts.
THEOREM RequiredHas == Spec => []RequiredHasItem
<1>1. Inv => RequiredHasItem
  BY DEF Inv, Structure, AskedFits, RequiredHasItem, At
<1> QED
  BY <1>1, InvHolds, PTL
=============================================================================
