----------------------------- MODULE LockCache -----------------------------
(***************************************************************************)
(* The caching lock service of lab4: lock_client_cache in every client     *)
(* process and lock_server_cache in the lock server, for one lock id.      *)
(*                                                                         *)
(* An action is one critical section of the code, under the client's or    *)
(* the server's mutex; every RPC leaves the mutex and is two or more steps *)
(* apart from its answer, so all interleavings of handlers, callers and    *)
(* calls in flight are behaviours.  A call is identified by the client it  *)
(* is made for: a client has one acquire call, one revoke call made on its *)
(* behalf and one release call outstanding at a time.                      *)
(***************************************************************************)
EXTENDS Integers, Sequences, FiniteSets

CONSTANTS Clients,  \* lock_client_cache instances
          Threads   \* the threads of each client that use the lock

VARIABLES
  queue,        \* server: locks[lid], the holder first
  cstate,       \* client: locks[lid]
  revoke_flag,  \* client: revoke_flag[lid]
  waiting,      \* client: the threads asleep on cvs[lid]
  pc,           \* where each thread is in acquire() or release()
  acq,          \* the acquire call of a client, from its send to its reply
  rvk,          \* the revoke call made by the acquire handler of a client
  rvkTo,        \* the client that call goes to; the client itself when idle
  rel,          \* the release call of a client, from its send to its reply
  retryTo       \* the client its retry call goes to; itself when idle

vars == <<queue, cstate, revoke_flag, waiting, pc, acq, rvk, rvkTo, rel, retryTo>>

ClientStates == {"NONE", "FREE", "LOCKED", "ACQUIRING", "RELEASING"}
ThreadStates == {"idle", "call", "waitRetry", "waitFree", "locked", "release"}
AcquirePhases == {"none", "request", "revoking", "ok", "retry"}
RevokePhases == {"none", "sent", "releasing", "ok", "retry"}
ReleasePhases == {"none", "sent", "retrying", "replied"}

\* Every structure of the code is indexed by lock id and created on first use:
\* the client's entry as NONE, the server's as an empty queue.
Init ==
  /\ queue = << >>
  /\ cstate = [c \in Clients |-> "NONE"]
  /\ revoke_flag = [c \in Clients |-> FALSE]
  /\ waiting = [c \in Clients |-> {}]
  /\ pc = [c \in Clients |-> [t \in Threads |-> "idle"]]
  /\ acq = [c \in Clients |-> "none"]
  /\ rvk = [c \in Clients |-> "none"]
  /\ rvkTo = [c \in Clients |-> c]
  /\ rel = [c \in Clients |-> "none"]
  /\ retryTo = [c \in Clients |-> c]

-----------------------------------------------------------------------------
(* The client: lock_client_cache *)

\* pthread_cond_signal on the one condition variable of the lock: it wakes some
\* thread of the wait set, whichever of the two wait loops that thread is in.
SignalForgotten(c) == c \in Clients /\ UNCHANGED waiting  \* faulty variant

Signal(c) ==
  \/ waiting[c] = {} /\ UNCHANGED waiting
  \/ \E w \in waiting[c] : waiting' = [waiting EXCEPT ![c] = @ \ {w}]

\* acquire() returns with the lock in hand.
Grant(c, t) ==
  /\ cstate' = [cstate EXCEPT ![c] = "LOCKED"]
  /\ pc' = [pc EXCEPT ![c][t] = "locked"]
  /\ UNCHANGED <<waiting, acq>>

\* ACQUIRE_LOCK_FROM_SERVER: mark the lock and call the server.
CallServer(c, t) ==
  /\ cstate' = [cstate EXCEPT ![c] = "ACQUIRING"]
  /\ acq' = [acq EXCEPT ![c] = "request"]
  /\ pc' = [pc EXCEPT ![c][t] = "call"]
  /\ UNCHANGED waiting

\* pthread_cond_wait inside one of the two loops.
Sleep(c, t, loop) ==
  /\ waiting' = [waiting EXCEPT ![c] = @ \union {t}]
  /\ pc' = [pc EXCEPT ![c][t] = loop]
  /\ UNCHANGED <<cstate, acq>>

\* The loop `while (locks[lid] != FREE)`, with its jump back to the server, and
\* the first test of acquire(), which takes the same branches.
TryLock(c, t) ==
  /\ CASE cstate[c] = "NONE" -> CallServer(c, t)
       [] cstate[c] = "FREE" -> Grant(c, t)
       [] OTHER              -> Sleep(c, t, "waitFree")
  /\ UNCHANGED <<queue, revoke_flag, rvk, rvkTo, rel, retryTo>>

\* A thread calls acquire().
Acquire(c, t) == pc[c][t] = "idle" /\ TryLock(c, t)

\* A thread waiting for its own client's lock wakes up and looks again.
WakeFree(c, t) ==
  /\ pc[c][t] = "waitFree" /\ t \notin waiting[c]
  /\ TryLock(c, t)

\* The acquire call returns anything but RETRY: the lock is taken as granted.
AcquireReturns(c, t) ==
  /\ pc[c][t] = "call" /\ acq[c] = "ok"
  /\ cstate' = [cstate EXCEPT ![c] = "LOCKED"]
  /\ pc' = [pc EXCEPT ![c][t] = "locked"]
  /\ acq' = [acq EXCEPT ![c] = "none"]
  /\ UNCHANGED <<queue, revoke_flag, waiting, rvk, rvkTo, rel, retryTo>>

\* The acquire call returns RETRY: the server queued this client.  The thread
\* goes on to the loop `while (locks[lid] != FREE && locks[lid] != LOCKED)`.
AcquireRetries(c, t) ==
  /\ pc[c][t] = "call" /\ acq[c] = "retry"
  /\ pc' = [pc EXCEPT ![c][t] = "waitRetry"]
  /\ acq' = [acq EXCEPT ![c] = "none"]
  /\ UNCHANGED <<queue, cstate, revoke_flag, waiting, rvk, rvkTo, rel, retryTo>>

\* That loop, on entry and after each wakeup.
AwaitGrant(c, t) ==
  /\ pc[c][t] = "waitRetry" /\ t \notin waiting[c]
  /\ CASE cstate[c] \in {"FREE", "LOCKED"} -> Grant(c, t)
       [] cstate[c] = "NONE"               -> CallServer(c, t)
       [] OTHER                            -> Sleep(c, t, "waitRetry")
  /\ UNCHANGED <<queue, revoke_flag, rvk, rvkTo, rel, retryTo>>

\* release() while the server wants the lock back: call release first.
ReleaseToServer(c, t) ==
  /\ pc[c][t] = "locked" /\ revoke_flag[c]
  /\ cstate' = [cstate EXCEPT ![c] = "RELEASING"]
  /\ rel' = [rel EXCEPT ![c] = "sent"]
  /\ pc' = [pc EXCEPT ![c][t] = "release"]
  /\ UNCHANGED <<queue, revoke_flag, waiting, acq, rvk, rvkTo, retryTo>>

\* release() otherwise: the client keeps the lock and wakes one of its threads.
ReleaseLocally(c, t) ==
  /\ pc[c][t] = "locked" /\ ~revoke_flag[c]
  /\ cstate' = [cstate EXCEPT ![c] = "FREE"]
  /\ pc' = [pc EXCEPT ![c][t] = "idle"]
  /\ Signal(c)
  /\ UNCHANGED <<queue, revoke_flag, acq, rvk, rvkTo, rel, retryTo>>

\* The revoke is done with: the flag must not outlive the tenure it ended.
FlagKept(c) == revoke_flag  \* faulty variant
FlagCleared(c) == [revoke_flag EXCEPT ![c] = FALSE]

\* The release call of release() returns.
ReleaseReturns(c, t) ==
  /\ pc[c][t] = "release" /\ rel[c] = "replied"
  /\ cstate' = [cstate EXCEPT ![c] = "NONE"]
  /\ revoke_flag' = FlagCleared(c)
  /\ Signal(c)
  /\ pc' = [pc EXCEPT ![c][t] = "idle"]
  /\ rel' = [rel EXCEPT ![c] = "none"]
  /\ UNCHANGED <<queue, acq, rvk, rvkTo, retryTo>>

\* The lock may go back at once: the client has it and no thread does.
GivesBackHeld(c) == cstate[c] \in {"FREE", "LOCKED"}  \* faulty variant
GivesBack(c) == cstate[c] = "FREE"

\* revoke_handler(), called for the acquire handler of client d: the lock goes
\* back at once when no thread holds it, otherwise when it is next released.
RevokeHandler(d) ==
  LET c == rvkTo[d] IN
  /\ rvk[d] = "sent"
  /\ IF GivesBack(c)
     THEN /\ cstate' = [cstate EXCEPT ![c] = "RELEASING"]
          /\ rel' = [rel EXCEPT ![c] = "sent"]
          /\ rvk' = [rvk EXCEPT ![d] = "releasing"]
          /\ UNCHANGED revoke_flag
     ELSE /\ revoke_flag' = [revoke_flag EXCEPT ![c] = TRUE]
          /\ rvk' = [rvk EXCEPT ![d] = "retry"]
          /\ UNCHANGED <<cstate, rel>>
  /\ UNCHANGED <<queue, waiting, pc, acq, rvkTo, retryTo>>

\* The release call of revoke_handler() returns, and the handler with it.
RevokeReleased(d) ==
  LET c == rvkTo[d] IN
  /\ rvk[d] = "releasing" /\ rel[c] = "replied"
  /\ cstate' = [cstate EXCEPT ![c] = "NONE"]
  /\ Signal(c)
  /\ rel' = [rel EXCEPT ![c] = "none"]
  /\ rvk' = [rvk EXCEPT ![d] = "ok"]
  /\ UNCHANGED <<queue, revoke_flag, pc, acq, rvkTo, retryTo>>

\* retry_handler(), called by the release handler that serves client c: only a
\* client still ACQUIRING takes the grant.  The release call is then answered.
RetryHandler(c) ==
  LET f == retryTo[c] IN
  /\ rel[c] = "retrying"
  /\ IF cstate[f] = "ACQUIRING"
     THEN cstate' = [cstate EXCEPT ![f] = "LOCKED"] /\ Signal(f)
     ELSE UNCHANGED <<cstate, waiting>>
  /\ rel' = [rel EXCEPT ![c] = "replied"]
  /\ retryTo' = [retryTo EXCEPT ![c] = c]
  /\ UNCHANGED <<queue, revoke_flag, pc, acq, rvk, rvkTo>>

-----------------------------------------------------------------------------
(* The server: lock_server_cache *)

\* acquire() finds nobody in the queue: the lock is granted at once.
ServerGrants(d) ==
  /\ acq[d] = "request" /\ queue = << >>
  /\ queue' = Append(queue, d)
  /\ acq' = [acq EXCEPT ![d] = "ok"]
  /\ UNCHANGED <<cstate, revoke_flag, waiting, pc, rvk, rvkTo, rel, retryTo>>

\* acquire() queues the client and, outside the mutex, calls revoke on the
\* client queued just before it.
ServerRevokes(d) ==
  /\ acq[d] = "request" /\ queue # << >>
  /\ queue' = Append(queue, d)
  /\ rvk' = [rvk EXCEPT ![d] = "sent"]
  /\ rvkTo' = [rvkTo EXCEPT ![d] = queue[Len(queue)]]
  /\ acq' = [acq EXCEPT ![d] = "revoking"]
  /\ UNCHANGED <<cstate, revoke_flag, waiting, pc, rel, retryTo>>

\* The revoke call made for client d has returned.
RevokeStarted(d) == rvk[d] # "none"  \* faulty variant
RevokeReturned(d) == rvk[d] \in {"ok", "retry"}

\* The revoke call returns; its result decides the answer of acquire().
ServerAnswers(d) ==
  /\ acq[d] = "revoking" /\ RevokeReturned(d)
  /\ acq' = [acq EXCEPT ![d] = rvk[d]]
  /\ rvk' = [rvk EXCEPT ![d] = "none"]
  /\ rvkTo' = [rvkTo EXCEPT ![d] = d]
  /\ UNCHANGED <<queue, cstate, revoke_flag, waiting, pc, rel, retryTo>>

\* What release() leaves of the queue, and whom it calls.
PoppedBack(q) == SubSeq(q, 1, Len(q)-1)  \* faulty variant
Popped(q) == Tail(q)

SameFront(q) == q[1]  \* faulty variant
NextFront(q) == q[2]

\* release() pops the front of the queue, whoever that is, and calls retry on
\* the new front if there is one.
ServerReleases(c) ==
  /\ rel[c] = "sent"
  /\ queue' = Popped(queue)
  /\ IF Len(queue) = 1
     THEN rel' = [rel EXCEPT ![c] = "replied"] /\ UNCHANGED retryTo
     ELSE /\ rel' = [rel EXCEPT ![c] = "retrying"]
          /\ retryTo' = [retryTo EXCEPT ![c] = NextFront(queue)]
  /\ UNCHANGED <<cstate, revoke_flag, waiting, pc, acq, rvk, rvkTo>>

-----------------------------------------------------------------------------
\* pthread_cond_wait may return without a signal.
SpuriousWake(c, t) ==
  /\ t \in waiting[c]
  /\ waiting' = [waiting EXCEPT ![c] = @ \ {t}]
  /\ UNCHANGED <<queue, cstate, revoke_flag, pc, acq, rvk, rvkTo, rel, retryTo>>

\* The steps the code takes by itself once it can.
ThreadStep(c, t) ==
  \/ WakeFree(c, t)
  \/ AcquireReturns(c, t)
  \/ AcquireRetries(c, t)
  \/ AwaitGrant(c, t)
  \/ ReleaseToServer(c, t)
  \/ ReleaseLocally(c, t)
  \/ ReleaseReturns(c, t)

AcquireHandler(d) == ServerGrants(d) \/ ServerRevokes(d) \/ ServerAnswers(d)

RevokeCall(d) == RevokeHandler(d) \/ RevokeReleased(d)

ReleaseHandler(c) == ServerReleases(c) \/ RetryHandler(c)

Next ==
  \/ \E c \in Clients, t \in Threads :
       Acquire(c, t) \/ ThreadStep(c, t) \/ SpuriousWake(c, t)
  \/ \E c \in Clients : AcquireHandler(c) \/ RevokeCall(c) \/ ReleaseHandler(c)

Spec == Init /\ [][Next]_vars

\* Every thread and every handler is scheduled, and whoever holds the lock
\* releases it, as the file system and the tester do.  A thread need not ask
\* for the lock, and no wakeup without a signal may be counted on.
Fairness ==
  /\ \A c \in Clients, t \in Threads : WF_vars(ThreadStep(c, t))
  /\ \A c \in Clients : /\ WF_vars(AcquireHandler(c))
                        /\ WF_vars(RevokeCall(c))
                        /\ WF_vars(ReleaseHandler(c))

FairSpec == Spec /\ Fairness

-----------------------------------------------------------------------------
(* Properties *)

TypeOK ==
  /\ queue \in Seq(Clients)
  /\ cstate \in [Clients -> ClientStates]
  /\ revoke_flag \in [Clients -> BOOLEAN]
  /\ waiting \in [Clients -> SUBSET Threads]
  /\ pc \in [Clients -> [Threads -> ThreadStates]]
  /\ acq \in [Clients -> AcquirePhases]
  /\ rvk \in [Clients -> RevokePhases]
  /\ rvkTo \in [Clients -> Clients]
  /\ rel \in [Clients -> ReleasePhases]
  /\ retryTo \in [Clients -> Clients]

\* No two threads, of one client or of two, are past acquire() together
\* (lock_client_cache::acquire, both return paths).
MutualExclusion ==
  \A c, d \in Clients, s, t \in Threads :
    pc[c][s] = "locked" /\ pc[d][t] = "locked" => c = d /\ s = t

\* A client holds the lock, used or cached, only as the front of the server's
\* queue; and release(), which pops without looking at the caller's id, is only
\* ever called by the front.
HolderIsFront ==
  \A c \in Clients :
    cstate[c] \in {"FREE", "LOCKED"} \/ rel[c] = "sent"
      => queue # << >> /\ Head(queue) = c

\* What the server knows of client c's place in the queue being claimed by the
\* client behind it: the revoke call on its way, or already taken note of.
Claims(c) ==
  Cardinality({d \in Clients : rvk[d] = "sent" /\ rvkTo[d] = c})
    + (IF revoke_flag[c] \/ cstate[c] = "RELEASING" THEN 1 ELSE 0)

\* Every client in the queue but the last is asked for the lock exactly once,
\* and the last is not asked: a revoke is neither lost, nor sent to a client
\* that gave the lock up, nor left over for a later tenure.
RevokedOnce ==
  /\ \A i \in 1..Len(queue) : Claims(queue[i]) = (IF i < Len(queue) THEN 1 ELSE 0)
  /\ \A c \in Clients :
       c \notin {queue[i] : i \in DOMAIN queue}
         => Claims(c) = (IF cstate[c] = "RELEASING" THEN 1 ELSE 0)

\* The retry call always finds the new front ACQUIRING and not already answered:
\* the branches of retry_handler() that drop a grant are never taken.
RetryIsTaken ==
  \A c \in Clients :
    rel[c] = "retrying" =>
      /\ queue # << >> /\ Head(queue) = retryTo[c]
      /\ cstate[retryTo[c]] = "ACQUIRING"
      /\ acq[retryTo[c]] # "ok"

\* A client that asks the server for the lock is served, however the others
\* behave: some thread of it takes the lock.
ClientServed ==
  \A c \in Clients :
    (cstate[c] = "ACQUIRING") ~> (\E t \in Threads : pc[c][t] = "locked")

-----------------------------------------------------------------------------
\* The client whose turn it is passes the lock on when the server pops it.
Inside == {ct \in Clients \X Threads : pc[ct[1]][ct[2]] = "locked"}

Service == INSTANCE LockService WITH line <- queue, inside <- Inside

\* The two classes together implement the lock service: first come, first
\* served between clients, one thread inside at a time.
ServiceSpec == Service!SSpec
=============================================================================
