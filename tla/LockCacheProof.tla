--------------------------- MODULE LockCacheProof ---------------------------
(***************************************************************************)
(* The caching lock service keeps its lock exclusive, for every number of  *)
(* clients and threads.  Inv is the inductive invariant.                   *)
(***************************************************************************)
EXTENDS LockCache, TLAPS, FiniteSetTheorems

\* Client c is a member of the server's queue, as far as its own state and its
\* calls tell.
Queued(c) ==
  \/ cstate[c] \in {"FREE", "LOCKED"}
  \/ cstate[c] = "ACQUIRING" /\ acq[c] # "request"
  \/ cstate[c] = "RELEASING" /\ rel[c] = "sent"

\* Client c is at the front, and stays there until it releases.
AtFront(c) == queue # << >> /\ queue[1] = c

\* Thread t of client c is between its client's call to the server and the end
\* of the tenure that call led to.
Busy(c, t) == pc[c][t] \in {"call", "waitRetry", "locked", "release"}

\* The queue holds every client once, and exactly the clients that own or await
\* the lock; whoever may use it or give it back is at the front.
NoDup == \A i, j \in 1..Len(queue) : queue[i] = queue[j] => i = j
Members == \A c \in Clients : Queued(c) <=> \E i \in 1..Len(queue) : queue[i] = c
Front ==
  \A c \in Clients :
    cstate[c] \in {"FREE", "LOCKED"} \/ rel[c] = "sent" \/ acq[c] = "ok" => AtFront(c)

\* At most one thread of a client is busy, and its place in the code agrees with
\* the state of its client.
OneBusy == \A c \in Clients, s, t \in Threads : Busy(c, s) /\ Busy(c, t) => s = t
ThreadInv ==
  \A c \in Clients, t \in Threads :
    /\ Busy(c, t) => cstate[c] \notin {"NONE", "FREE"}
    /\ pc[c][t] = "locked" => cstate[c] = "LOCKED"
    /\ pc[c][t] = "release" => cstate[c] = "RELEASING" /\ revoke_flag[c]
    /\ pc[c][t] \in {"call", "waitRetry"} => cstate[c] \in {"ACQUIRING", "LOCKED"}
    /\ pc[c][t] = "call" => acq[c] # "none"
CallInv ==
  \A c \in Clients :
    /\ acq[c] # "none" => \E t \in Threads : pc[c][t] = "call"
    /\ acq[c] = "request" => cstate[c] = "ACQUIRING" /\ ~revoke_flag[c]
    /\ cstate[c] \in {"NONE", "FREE"} => ~revoke_flag[c]
    /\ cstate[c] = "RELEASING" <=> rel[c] # "none"

\* The life of the revoke call made for client d: on its way to the client just
\* before d in the queue, which nobody has asked yet; then under way while that
\* client gives the lock back; then done, with the lock at d.
Pending == \A d \in Clients : acq[d] = "revoking" <=> rvk[d] # "none"
Sent ==
  \A d \in Clients : rvk[d] = "sent" =>
    /\ \E i \in 1..Len(queue)-1 : queue[i] = rvkTo[d] /\ queue[i+1] = d
    /\ cstate[rvkTo[d]] # "RELEASING" /\ ~revoke_flag[rvkTo[d]]
Releasing ==
  \A d \in Clients : rvk[d] = "releasing" =>
    /\ cstate[rvkTo[d]] = "RELEASING" /\ ~revoke_flag[rvkTo[d]]
    /\ rel[rvkTo[d]] = "sent" => Len(queue) > 1 /\ queue[2] = d
    /\ rel[rvkTo[d]] = "retrying" => retryTo[rvkTo[d]] = d
    /\ rel[rvkTo[d]] = "replied" => cstate[d] = "LOCKED"
Done == \A d \in Clients : rvk[d] = "ok" => cstate[d] = "LOCKED"
OneRevoke ==
  \A d, e \in Clients :
    /\ rvk[d] \in {"sent", "releasing"} /\ rvk[e] \in {"sent", "releasing"}
    /\ rvkTo[d] = rvkTo[e]
    => d = e
NotLast ==
  \A c \in Clients : revoke_flag[c] \/ cstate[c] = "RELEASING" =>
    queue # << >> /\ queue[Len(queue)] # c

\* The one retry call goes to the front, which is waiting for it.
OneRetry == \A c, d \in Clients : rel[c] = "retrying" /\ rel[d] = "retrying" => c = d
RetryInv ==
  \A c \in Clients : rel[c] = "retrying" =>
    /\ AtFront(retryTo[c])
    /\ cstate[retryTo[c]] = "ACQUIRING"
    /\ acq[retryTo[c]] \notin {"request", "ok"}

QueueInv == NoDup /\ Members /\ Front
ClientInv == OneBusy /\ ThreadInv /\ CallInv
RevokeInv == Pending /\ Sent /\ Releasing /\ Done /\ OneRevoke /\ NotLast

Inv == TypeOK /\ QueueInv /\ ClientInv /\ RevokeInv /\ OneRetry /\ RetryInv

-----------------------------------------------------------------------------
(* What the operators on the queue and the signal do. *)

LEMMA AppendFacts ==
  ASSUME NEW S, NEW q \in Seq(S), NEW e \in S
  PROVE  /\ Append(q, e) \in Seq(S)
         /\ Len(q) \in Nat /\ Len(Append(q, e)) = Len(q) + 1
         /\ \A i \in 1..Len(q) : q[i] \in S /\ Append(q, e)[i] = q[i]
         /\ Append(q, e)[Len(q) + 1] = e
OBVIOUS

LEMMA TailFacts ==
  ASSUME NEW S, NEW q \in Seq(S), q # << >>
  PROVE  /\ Tail(q) \in Seq(S)
         /\ Len(q) \in Nat \ {0} /\ Len(Tail(q)) = Len(q) - 1
         /\ \A i \in 1..Len(q)-1 : Tail(q)[i] = q[i+1]
         /\ \A i \in 1..Len(q) : q[i] \in S
OBVIOUS

LEMMA SignalType ==
  ASSUME waiting \in [Clients -> SUBSET Threads], NEW c \in Clients, Signal(c)
  PROVE  waiting' \in [Clients -> SUBSET Threads]
BY DEF Signal

-----------------------------------------------------------------------------
(* Every action preserves the invariant. *)

LEMMA InitInv == Init => Inv
BY DEF Init, Inv, TypeOK, QueueInv, NoDup, Members, Front, ClientInv, OneBusy,
   ThreadInv, CallInv, RevokeInv, Pending, Sent, Releasing, Done, OneRevoke, NotLast,
   OneRetry, RetryInv, Queued, Busy, ClientStates, ThreadStates, AcquirePhases,
   RevokePhases, ReleasePhases

LEMMA AcquireReturnsInv ==
  ASSUME Inv, NEW c \in Clients, NEW t \in Threads, AcquireReturns(c, t)
  PROVE  Inv'
<1> USE DEF Inv, QueueInv, ClientInv, RevokeInv
<1>1. TypeOK'
  BY DEF AcquireReturns, TypeOK, ClientStates, ThreadStates, AcquirePhases
<1>2. Members'
  BY DEF AcquireReturns, Members, Queued, ThreadInv
<1>3. ThreadInv'
  BY DEF AcquireReturns, ThreadInv, Busy, TypeOK, OneBusy
<1>4. CallInv'
  BY DEF AcquireReturns, CallInv, TypeOK, ThreadInv
<1>5. Releasing'
  <2>1. cstate[c] # "RELEASING"
    BY DEF AcquireReturns, ThreadInv
  <2> QED
    BY <2>1 DEF AcquireReturns, Releasing
<1>6. NoDup' /\ Front' /\ OneBusy' /\ Pending' /\ Sent' /\ Done' /\ OneRevoke' /\
      NotLast' /\ OneRetry' /\ RetryInv'
  BY DEF AcquireReturns, NoDup, Front, AtFront, OneBusy, Busy, Pending, Sent, Done,
     OneRevoke, NotLast, OneRetry, RetryInv
<1> QED
  BY <1>1, <1>2, <1>3, <1>4, <1>5, <1>6

LEMMA AcquireRetriesInv ==
  ASSUME Inv, NEW c \in Clients, NEW t \in Threads, AcquireRetries(c, t)
  PROVE  Inv'
<1> USE DEF Inv, QueueInv, ClientInv, RevokeInv
<1>1. TypeOK'
  BY DEF AcquireRetries, TypeOK, ThreadStates, AcquirePhases
<1>2. ThreadInv'
  BY DEF AcquireRetries, ThreadInv, Busy, TypeOK, OneBusy
<1>3. CallInv'
  BY DEF AcquireRetries, CallInv, TypeOK
<1>4. NoDup' /\ Members' /\ Front' /\ OneBusy' /\ Pending' /\ Sent' /\ Releasing' /\
      Done' /\ OneRevoke' /\ NotLast' /\ OneRetry' /\ RetryInv'
  BY DEF AcquireRetries, NoDup, Members, Queued, Front, AtFront, OneBusy, Busy, Pending,
     Sent, Releasing, Done, OneRevoke, NotLast, OneRetry, RetryInv
<1> QED
  BY <1>1, <1>2, <1>3, <1>4

LEMMA ReleaseToServerInv ==
  ASSUME Inv, NEW c \in Clients, NEW t \in Threads, ReleaseToServer(c, t)
  PROVE  Inv'
<1> USE DEF Inv, QueueInv, ClientInv, RevokeInv
<1>a. rvk[c] = "none" /\ cstate[c] = "LOCKED"
  <2>1. pc[c][t] = "locked" /\ cstate[c] = "LOCKED"
    BY DEF ReleaseToServer, ThreadInv
  <2>2. acq[c] = "none"
    BY <2>1 DEF OneBusy, Busy, CallInv
  <2> QED
    BY <2>1, <2>2 DEF Pending
<1>1. TypeOK'
  BY DEF ReleaseToServer, TypeOK, ClientStates, ThreadStates, ReleasePhases
<1>2. Members'
  BY DEF ReleaseToServer, Members, Queued, TypeOK, ThreadInv
<1>3. Front'
  BY DEF ReleaseToServer, Front, AtFront, ThreadInv
<1>4. ThreadInv'
  BY DEF ReleaseToServer, ThreadInv, Busy, TypeOK, OneBusy
<1>5. CallInv'
  BY DEF ReleaseToServer, CallInv, TypeOK
<1>6. Releasing'
  BY <1>a DEF ReleaseToServer, Releasing
<1>7. Done'
  BY <1>a DEF ReleaseToServer, Done
<1>8. RetryInv'
  BY DEF ReleaseToServer, RetryInv, AtFront, ThreadInv
<1>9. NoDup' /\ OneBusy' /\ Pending' /\ Sent' /\ OneRevoke' /\ NotLast' /\ OneRetry'
  BY DEF ReleaseToServer, NoDup, OneBusy, Busy, Pending, Sent, OneRevoke, NotLast,
     OneRetry
<1> QED
  BY <1>1, <1>2, <1>3, <1>4, <1>5, <1>6, <1>7, <1>8, <1>9

LEMMA ReleaseLocallyInv ==
  ASSUME Inv, NEW c \in Clients, NEW t \in Threads, ReleaseLocally(c, t)
  PROVE  Inv'
<1> USE DEF Inv, QueueInv, ClientInv, RevokeInv
<1>a. rvk[c] = "none" /\ cstate[c] = "LOCKED"
  <2>1. pc[c][t] = "locked" /\ cstate[c] = "LOCKED"
    BY DEF ReleaseLocally, ThreadInv
  <2>2. acq[c] = "none"
    BY <2>1 DEF OneBusy, Busy, CallInv
  <2> QED
    BY <2>1, <2>2 DEF Pending
<1>1. TypeOK'
  <2>1. waiting' \in [Clients -> SUBSET Threads]
    BY SignalType DEF ReleaseLocally, TypeOK
  <2> QED
    BY <2>1 DEF ReleaseLocally, TypeOK, ClientStates, ThreadStates
<1>2. Members'
  BY DEF ReleaseLocally, Members, Queued, ThreadInv
<1>3. Front'
  BY DEF ReleaseLocally, Front, AtFront, ThreadInv
<1>4. ThreadInv'
  BY DEF ReleaseLocally, ThreadInv, Busy, TypeOK, OneBusy
<1>5. CallInv'
  BY DEF ReleaseLocally, CallInv, ThreadInv
<1>6. Releasing'
  BY <1>a DEF ReleaseLocally, Releasing
<1>7. Done'
  BY <1>a DEF ReleaseLocally, Done
<1>8. RetryInv'
  BY DEF ReleaseLocally, RetryInv, AtFront, ThreadInv
<1>9. NoDup' /\ OneBusy' /\ Pending' /\ Sent' /\ OneRevoke' /\ NotLast' /\ OneRetry'
  BY DEF ReleaseLocally, NoDup, OneBusy, Busy, Pending, Sent, OneRevoke, NotLast,
     OneRetry
<1> QED
  BY <1>1, <1>2, <1>3, <1>4, <1>5, <1>6, <1>7, <1>8, <1>9

LEMMA ReleaseReturnsInv ==
  ASSUME Inv, NEW c \in Clients, NEW t \in Threads, ReleaseReturns(c, t)
  PROVE  Inv'
<1> USE DEF Inv, QueueInv, ClientInv, RevokeInv
<1>1. TypeOK'
  <2>1. waiting' \in [Clients -> SUBSET Threads]
    BY SignalType DEF ReleaseReturns, TypeOK
  <2> QED
    BY <2>1 DEF ReleaseReturns, FlagCleared, TypeOK, ClientStates, ThreadStates,
       ReleasePhases
<1>2. Members'
  BY DEF ReleaseReturns, Members, Queued, CallInv
<1>3. ThreadInv'
  BY DEF ReleaseReturns, FlagCleared, ThreadInv, Busy, TypeOK, OneBusy
<1>4. CallInv'
  BY DEF ReleaseReturns, FlagCleared, CallInv, TypeOK
<1>5. Releasing'
  BY DEF ReleaseReturns, FlagCleared, Releasing, ThreadInv
<1>6. Done'
  BY DEF ReleaseReturns, Done, CallInv
<1>7. RetryInv'
  BY DEF ReleaseReturns, RetryInv, AtFront, CallInv
<1>8. NoDup' /\ Front' /\ OneBusy' /\ Pending' /\ Sent' /\ OneRevoke' /\ NotLast' /\
      OneRetry'
  BY DEF ReleaseReturns, FlagCleared, NoDup, Front, AtFront, OneBusy, Busy, Pending,
     Sent, OneRevoke, NotLast, OneRetry
<1> QED
  BY <1>1, <1>2, <1>3, <1>4, <1>5, <1>6, <1>7, <1>8

LEMMA SpuriousWakeInv ==
  ASSUME Inv, NEW c \in Clients, NEW t \in Threads, SpuriousWake(c, t)
  PROVE  Inv'
<1> USE DEF Inv, QueueInv, ClientInv, RevokeInv
<1>1. TypeOK'
  BY DEF SpuriousWake, TypeOK
<1>2. NoDup' /\ Members' /\ Front' /\ OneBusy' /\ ThreadInv' /\ CallInv' /\ Pending' /\
      Sent' /\ Releasing' /\ Done' /\ OneRevoke' /\ NotLast' /\ OneRetry' /\ RetryInv'
  BY DEF SpuriousWake, NoDup, Members, Queued, Front, AtFront, OneBusy, Busy, ThreadInv,
     CallInv, Pending, Sent, Releasing, Done, OneRevoke, NotLast, OneRetry, RetryInv
<1> QED
  BY <1>1, <1>2

LEMMA RevokeHandlerInv ==
  ASSUME Inv, NEW c \in Clients, RevokeHandler(c)
  PROVE  Inv'
<1> USE DEF Inv, QueueInv, ClientInv, RevokeInv
<1> DEFINE p == rvkTo[c]
<1>1. TypeOK'
  BY ZenonT(60) DEF RevokeHandler, GivesBack, TypeOK, ClientStates, ThreadStates, AcquirePhases,
     RevokePhases, ReleasePhases
<1>p. p \in Clients /\ rvk[c] = "sent" /\ acq[c] = "revoking"
  BY DEF RevokeHandler, TypeOK, Pending
<1>i. PICK i \in 1..Len(queue)-1 : queue[i] = p /\ queue[i+1] = c
  BY <1>p DEF Sent
<1>2. /\ p \in Clients /\ p # c /\ rvk[c] = "sent" /\ acq[c] = "revoking"
      /\ cstate[p] # "RELEASING" /\ ~revoke_flag[p] /\ Queued(p)
  <2>1. p # c
    BY <1>i DEF NoDup
  <2>2. Queued(p)
    BY <1>i DEF Members, TypeOK
  <2> QED
    BY <1>p, <2>1, <2>2 DEF Sent
<1>3. queue # << >> /\ queue[Len(queue)] # p
  <2>1. queue \in Seq(Clients) /\ Len(queue) \in Nat /\ i \in 1..Len(queue) /\ i # Len(queue)
    BY DEF TypeOK
  <2> QED
    BY <1>i DEF NoDup
<1>4. \A d \in Clients : rvk[d] \in {"sent", "releasing"} /\ rvkTo[d] = p => d = c
  BY <1>2 DEF OneRevoke
<1>5. CASE cstate[p] = "FREE"
  <2>1. AtFront(p) /\ Len(queue) > 1 /\ queue[2] = c
    <3>1. AtFront(p)
      BY <1>2, <1>5 DEF Front
    <3>2. 1 \in 1..Len(queue) /\ i \in 1..Len(queue) /\ i \in Nat /\ Len(queue) > 1
      OBVIOUS
    <3>3. i = 1
      BY <1>i, <3>1 DEF AtFront, NoDup
    <3> QED
      BY <1>i, <3>1, <3>3
  <2>2. /\ cstate' = [cstate EXCEPT ![p] = "RELEASING"]
        /\ rel' = [rel EXCEPT ![p] = "sent"]
        /\ rvk' = [rvk EXCEPT ![c] = "releasing"]
        /\ UNCHANGED <<queue, revoke_flag, waiting, pc, acq, rvkTo, retryTo>>
    BY <1>5 DEF RevokeHandler, GivesBack
  <2>3. rel[p] = "none" /\ acq[p] = "none" /\ rvk[p] = "none"
    BY <1>2, <1>5 DEF CallInv, ThreadInv, Pending
  <2>4. NoDup'
    BY <2>2 DEF NoDup
  <2>5. Members'
    BY <1>2, <2>2 DEF Members, Queued, TypeOK
  <2>6. Front'
    BY <2>1, <2>2 DEF Front, AtFront
  <2>7. OneBusy'
    BY <2>2 DEF OneBusy, Busy
  <2>8. ThreadInv'
    BY <1>5, <2>2 DEF ThreadInv, Busy
  <2>9. CallInv'
    BY <2>2, <2>3 DEF CallInv, TypeOK
  <2>10. Pending'
    BY <1>2, <2>2 DEF Pending
  <2>11. Sent'
    BY <1>4, <2>2 DEF Sent, TypeOK
  <2>12. Releasing'
    BY <1>2, <2>1, <2>2, <2>3 DEF Releasing, TypeOK
  <2>13. Done'
    BY <2>2, <2>3 DEF Done
  <2>14. OneRevoke'
    BY <1>4, <2>2 DEF OneRevoke
  <2>15. NotLast'
    BY <1>3, <2>2 DEF NotLast
  <2>16. OneRetry'
    BY <2>2 DEF OneRetry
  <2>17. RetryInv'
    BY <1>5, <2>2 DEF RetryInv, AtFront
  <2> QED
    BY <1>1, <2>4, <2>5, <2>6, <2>7, <2>8, <2>9, <2>10, <2>11, <2>12, <2>13, <2>14,
       <2>15, <2>16, <2>17
<1>6. CASE cstate[p] # "FREE"
  <2>1. /\ revoke_flag' = [revoke_flag EXCEPT ![p] = TRUE]
        /\ rvk' = [rvk EXCEPT ![c] = "retry"]
        /\ UNCHANGED <<queue, cstate, waiting, pc, acq, rel, rvkTo, retryTo>>
    BY <1>6 DEF RevokeHandler, GivesBack
  <2>2. NoDup'
    BY <2>1 DEF NoDup
  <2>3. Members'
    BY <2>1 DEF Members, Queued
  <2>4. Front'
    BY <2>1 DEF Front, AtFront
  <2>5. OneBusy'
    BY <2>1 DEF OneBusy, Busy
  <2>6. ThreadInv'
    BY <2>1 DEF ThreadInv, Busy
  <2>7. CallInv'
    BY <1>2, <1>6, <2>1 DEF CallInv, Queued
  <2>8. Pending'
    BY <1>2, <2>1 DEF Pending
  <2>9. Sent'
    BY <1>4, <2>1 DEF Sent, TypeOK
  <2>10. Releasing'
    BY <1>2, <2>1 DEF Releasing
  <2>11. Done'
    BY <2>1 DEF Done
  <2>12. OneRevoke'
    BY <2>1 DEF OneRevoke
  <2>13. NotLast'
    BY <1>3, <2>1 DEF NotLast
  <2>14. OneRetry'
    BY <2>1 DEF OneRetry
  <2>15. RetryInv'
    BY <2>1 DEF RetryInv, AtFront
  <2> QED
    BY <1>1, <2>2, <2>3, <2>4, <2>5, <2>6, <2>7, <2>8, <2>9, <2>10, <2>11, <2>12, <2>13,
       <2>14, <2>15
<1> QED
  BY <1>5, <1>6

LEMMA RevokeReleasedInv ==
  ASSUME Inv, NEW c \in Clients, RevokeReleased(c)
  PROVE  Inv'
<1> USE DEF Inv, QueueInv, ClientInv, RevokeInv
<1>1. TypeOK'
  <2>1. waiting' \in [Clients -> SUBSET Threads]
    BY SignalType DEF RevokeReleased, TypeOK
  <2> QED
    BY <2>1 DEF RevokeReleased, TypeOK, ClientStates, RevokePhases, ReleasePhases
<1>2. Members'
  BY DEF RevokeReleased, Members, Queued, Releasing
<1>3. ThreadInv'
  BY DEF RevokeReleased, ThreadInv, Busy, Releasing
<1>4. CallInv'
  BY DEF RevokeReleased, CallInv, TypeOK, Releasing
<1>5. Releasing'
  BY DEF RevokeReleased, Releasing, TypeOK, OneRevoke
<1>6. Done'
  BY DEF RevokeReleased, Done, Releasing
<1>7. RetryInv'
  BY DEF RevokeReleased, RetryInv, AtFront, Releasing
<1>8. NoDup' /\ Front' /\ OneBusy' /\ Pending' /\ Sent' /\ OneRevoke' /\ NotLast' /\
      OneRetry'
  BY DEF RevokeReleased, NoDup, Front, AtFront, OneBusy, Busy, Pending, Sent, OneRevoke,
     NotLast, OneRetry
<1> QED
  BY <1>1, <1>2, <1>3, <1>4, <1>5, <1>6, <1>7, <1>8

LEMMA RetryHandlerInv ==
  ASSUME Inv, NEW c \in Clients, RetryHandler(c)
  PROVE  Inv'
<1> USE DEF Inv, QueueInv, ClientInv, RevokeInv
<1> DEFINE f == retryTo[c]
<1>a. /\ f \in Clients /\ f # c /\ rel[c] = "retrying" /\ cstate[c] = "RELEASING"
      /\ AtFront(f) /\ cstate[f] = "ACQUIRING" /\ acq[f] \notin {"request", "ok"}
      /\ rel[f] = "none"
  BY DEF RetryHandler, RetryInv, CallInv, TypeOK
<1>b. /\ cstate' = [cstate EXCEPT ![f] = "LOCKED"]
      /\ Signal(f)
      /\ rel' = [rel EXCEPT ![c] = "replied"]
      /\ retryTo' = [retryTo EXCEPT ![c] = c]
      /\ UNCHANGED <<queue, revoke_flag, pc, acq, rvk, rvkTo>>
  BY <1>a DEF RetryHandler
<1>c. \A d \in Clients : rel[d] = "retrying" => d = c
  BY <1>a DEF OneRetry
<1>1. TypeOK'
  <2>1. waiting' \in [Clients -> SUBSET Threads]
    BY <1>b, SignalType DEF TypeOK
  <2> QED
    BY <1>b, <2>1 DEF TypeOK, ClientStates, ReleasePhases
<1>2. NoDup'
  BY <1>b DEF NoDup
<1>3. Members'
  BY <1>a, <1>b DEF Members, Queued
<1>4. Front'
  BY <1>a, <1>b DEF Front, AtFront
<1>5. OneBusy'
  BY <1>b DEF OneBusy, Busy
<1>6. ThreadInv'
  BY <1>a, <1>b DEF ThreadInv, Busy
<1>7. CallInv'
  BY <1>a, <1>b DEF CallInv
<1>8. Pending'
  BY <1>b DEF Pending
<1>9. Sent'
  BY <1>b DEF Sent
<1>10. Releasing'
  BY <1>a, <1>b DEF Releasing, TypeOK
<1>11. Done'
  BY <1>b DEF Done
<1>12. OneRevoke'
  BY <1>b DEF OneRevoke
<1>13. NotLast'
  BY <1>b DEF NotLast
<1>14. OneRetry'
  BY <1>b DEF OneRetry
<1>15. RetryInv'
  BY <1>b, <1>c DEF RetryInv, TypeOK
<1> QED
  BY <1>1, <1>2, <1>3, <1>4, <1>5, <1>6, <1>7, <1>8, <1>9, <1>10, <1>11, <1>12, <1>13,
     <1>14, <1>15

LEMMA ServerGrantsInv ==
  ASSUME Inv, NEW c \in Clients, ServerGrants(c)
  PROVE  Inv'
<1> USE DEF Inv, QueueInv, ClientInv, RevokeInv
<1>1. TypeOK'
  BY DEF ServerGrants, TypeOK, AcquirePhases
<1>2. Members'
  BY DEF ServerGrants, Members, Queued, TypeOK, CallInv
<1>3. NoDup' /\ Front' /\ OneBusy' /\ ThreadInv' /\ CallInv' /\ Pending' /\ Sent' /\
      Releasing' /\ Done' /\ OneRevoke' /\ NotLast' /\ OneRetry' /\ RetryInv'
  BY DEF ServerGrants, NoDup, Front, AtFront, OneBusy, Busy, ThreadInv, CallInv,
     Pending, Sent, Releasing, Done, OneRevoke, NotLast, OneRetry, RetryInv
<1> QED
  BY <1>1, <1>2, <1>3

LEMMA ServerRevokesInv ==
  ASSUME Inv, NEW c \in Clients, ServerRevokes(c)
  PROVE  Inv'
<1> USE DEF Inv, QueueInv, ClientInv, RevokeInv
<1> DEFINE p == queue[Len(queue)]
<1>a. /\ queue' \in Seq(Clients) /\ queue' # << >>
      /\ Len(queue) \in Nat \ {0} /\ Len(queue') = Len(queue) + 1
      /\ \A i \in 1..Len(queue) : queue[i] \in Clients /\ queue'[i] = queue[i]
      /\ queue'[Len(queue')] = c /\ queue'[1] = queue[1]
  <2>1. queue \in Seq(Clients) /\ queue # << >> /\ queue' = Append(queue, c)
    BY DEF ServerRevokes, TypeOK
  <2>2. Len(queue) \in Nat \ {0}
    BY <2>1
  <2> QED
    BY <2>1
<1>b. /\ acq[c] = "request" /\ queue # << >>
      /\ acq' = [acq EXCEPT ![c] = "revoking"]
      /\ rvk' = [rvk EXCEPT ![c] = "sent"]
      /\ rvkTo' = [rvkTo EXCEPT ![c] = p]
      /\ UNCHANGED <<cstate, revoke_flag, waiting, pc, rel, retryTo>>
  BY DEF ServerRevokes
<1>c. /\ cstate[c] = "ACQUIRING" /\ rvk[c] = "none" /\ ~Queued(c)
      /\ \A i \in 1..Len(queue) : queue[i] # c
  BY <1>b DEF CallInv, Pending, Members, Queued
<1>d. p \in Clients /\ p # c /\ cstate[p] # "RELEASING" /\ ~revoke_flag[p]
  BY <1>a, <1>c DEF NotLast
<1>e. \A d \in Clients : rvk[d] \in {"sent", "releasing"} => rvkTo[d] # p
  <2> SUFFICES ASSUME NEW d \in Clients, rvk[d] \in {"sent", "releasing"}, rvkTo[d] = p
               PROVE  FALSE
    OBVIOUS
  <2>1. CASE rvk[d] = "releasing"
    BY <2>1, <1>d DEF Releasing
  <2>2. CASE rvk[d] = "sent"
    <3>1. PICK i \in 1..Len(queue)-1 : queue[i] = p
      BY <2>2 DEF Sent
    <3> QED
      BY <3>1 DEF NoDup
  <2> QED
    BY <2>1, <2>2
<1>1. TypeOK'
  BY <1>a, <1>b DEF TypeOK, AcquirePhases, RevokePhases
<1>2. NoDup'
  BY <1>a, <1>c DEF NoDup
<1>3. Members'
  <2> SUFFICES ASSUME NEW d \in Clients
               PROVE  Queued(d)' <=> \E i \in 1..Len(queue') : queue'[i] = d
    BY DEF Members
  <2>1. CASE d = c
    BY <2>1, <1>a, <1>b, <1>c DEF Queued, TypeOK
  <2>2. CASE d # c
    <3>1. Queued(d)' <=> Queued(d)
      BY <2>2, <1>b DEF Queued
    <3>2. (\E i \in 1..Len(queue') : queue'[i] = d) <=> \E i \in 1..Len(queue) : queue[i] = d
      BY <2>2, <1>a
    <3> QED
      BY <3>1, <3>2 DEF Members
  <2> QED
    BY <2>1, <2>2
<1>4. Front'
  BY <1>a, <1>b DEF Front, AtFront
<1>5. OneBusy'
  BY <1>b DEF OneBusy, Busy
<1>6. ThreadInv'
  BY <1>b DEF ThreadInv, Busy
<1>7. CallInv'
  BY <1>b DEF CallInv
<1>8. Pending'
  BY <1>b DEF Pending, TypeOK
<1>9. Sent'
  <2> SUFFICES ASSUME NEW d \in Clients, rvk'[d] = "sent"
               PROVE  /\ \E i \in 1..Len(queue')-1 : queue'[i] = rvkTo'[d] /\ queue'[i+1] = d
                      /\ cstate[rvkTo'[d]] # "RELEASING" /\ ~revoke_flag[rvkTo'[d]]
    BY <1>b DEF Sent
  <2>1. CASE d = c
    <3>1. /\ Len(queue) \in 1..Len(queue')-1
          /\ queue'[Len(queue)] = p /\ queue'[Len(queue)+1] = c
      BY <1>a
    <3>2. rvkTo'[d] = p
      BY <2>1, <1>b DEF TypeOK
    <3> QED
      BY <2>1, <3>1, <3>2, <1>d
  <2>2. CASE d # c
    <3>1. rvk[d] = "sent" /\ rvkTo'[d] = rvkTo[d]
      BY <2>2, <1>b
    <3>2. PICK i \in 1..Len(queue)-1 : queue[i] = rvkTo[d] /\ queue[i+1] = d
      BY <3>1 DEF Sent
    <3>3. i \in 1..Len(queue')-1 /\ queue'[i] = rvkTo[d] /\ queue'[i+1] = d
      BY <3>2, <1>a
    <3> QED
      BY <3>1, <3>3 DEF Sent
  <2> QED
    BY <2>1, <2>2
<1>10. Releasing'
  <2>1. Len(queue) > 1 => Len(queue') > 1 /\ queue'[2] = queue[2]
    BY <1>a
  <2> QED
    BY <2>1, <1>b DEF Releasing, TypeOK
<1>11. Done'
  BY <1>b DEF Done
<1>12. OneRevoke'
  BY <1>b, <1>e DEF OneRevoke, TypeOK
<1>13. NotLast'
  BY <1>a, <1>b DEF NotLast, CallInv
<1>14. OneRetry'
  BY <1>b DEF OneRetry
<1>15. RetryInv'
  BY <1>a, <1>b DEF RetryInv, AtFront
<1> QED
  BY <1>1, <1>2, <1>3, <1>4, <1>5, <1>6, <1>7, <1>8, <1>9, <1>10, <1>11, <1>12, <1>13,
     <1>14, <1>15

LEMMA ServerAnswersInv ==
  ASSUME Inv, NEW c \in Clients, ServerAnswers(c)
  PROVE  Inv'
<1> USE DEF Inv, QueueInv, ClientInv, RevokeInv
<1>1. TypeOK'
  BY DEF ServerAnswers, RevokeReturned, TypeOK, AcquirePhases, RevokePhases
<1>2. Front'
  BY DEF ServerAnswers, Front, AtFront, Done
<1>3. Pending'
  BY DEF ServerAnswers, RevokeReturned, Pending, TypeOK
<1>4. Sent'
  BY DEF ServerAnswers, RevokeReturned, Sent
<1>5. RetryInv'
  BY DEF ServerAnswers, RevokeReturned, RetryInv, AtFront, Done
<1>6. NoDup' /\ Members' /\ OneBusy' /\ ThreadInv' /\ CallInv' /\ Releasing' /\ Done' /\
      OneRevoke' /\ NotLast' /\ OneRetry'
  BY DEF ServerAnswers, RevokeReturned, NoDup, Members, Queued, OneBusy, Busy,
     ThreadInv, CallInv, Releasing, Done, OneRevoke, NotLast, OneRetry
<1> QED
  BY <1>1, <1>2, <1>3, <1>4, <1>5, <1>6

LEMMA ServerReleasesInv ==
  ASSUME Inv, NEW c \in Clients, ServerReleases(c)
  PROVE  Inv'
<1> USE DEF Inv, QueueInv, ClientInv, RevokeInv
<1> DEFINE f == queue[2]
<1>a. /\ AtFront(c) /\ cstate[c] = "RELEASING" /\ rel[c] = "sent" /\ Queued(c)
      /\ queue \in Seq(Clients) /\ queue # << >>
  BY DEF ServerReleases, Front, CallInv, Queued, AtFront, TypeOK
<1>b. Len(queue) \in Nat /\ Len(queue) > 1
  BY <1>a DEF NotLast, AtFront
<1>c. /\ queue' \in Seq(Clients) /\ queue' # << >>
      /\ Len(queue') = Len(queue) - 1
      /\ \A i \in 1..Len(queue)-1 : queue'[i] = queue[i+1]
      /\ queue'[1] = f /\ queue'[Len(queue')] = queue[Len(queue)]
      /\ \A i \in 1..Len(queue) : queue[i] \in Clients
  <2>1. queue' = Tail(queue)
    BY DEF ServerReleases, Popped
  <2> QED
    <3>1. /\ queue' \in Seq(Clients) /\ Len(queue') = Len(queue) - 1
          /\ \A i \in 1..Len(queue)-1 : queue'[i] = queue[i+1]
          /\ \A i \in 1..Len(queue) : queue[i] \in Clients
      BY <1>a, <2>1
    <3>2. queue' # << >>
      BY <3>1, <1>b
    <3>3. 1 \in 1..Len(queue)-1 /\ Len(queue)-1 \in 1..Len(queue)-1
      BY <1>b
    <3> QED
      BY <3>1, <1>b
<1>d. /\ rel' = [rel EXCEPT ![c] = "retrying"]
      /\ retryTo' = [retryTo EXCEPT ![c] = f]
      /\ UNCHANGED <<cstate, revoke_flag, waiting, pc, acq, rvk, rvkTo>>
  BY <1>b DEF ServerReleases, NextFront
<1>e. /\ f \in Clients /\ f # c /\ Queued(f) /\ ~AtFront(f)
      /\ cstate[f] = "ACQUIRING" /\ acq[f] \notin {"request", "ok"}
  <2>1. f \in Clients /\ f # c /\ Queued(f) /\ ~AtFront(f)
    BY <1>a, <1>c DEF AtFront, NoDup, Members
  <2> QED
    BY <2>1 DEF Queued, Front
<1>g. \A d \in Clients : rel[d] # "retrying"
  BY <1>a DEF RetryInv, AtFront
<1>1. TypeOK'
  BY <1>c, <1>d DEF TypeOK, ReleasePhases
<1>2. NoDup'
  BY <1>c DEF NoDup
<1>3. Members'
  <2> SUFFICES ASSUME NEW d \in Clients
               PROVE  Queued(d)' <=> \E i \in 1..Len(queue') : queue'[i] = d
    BY DEF Members
  <2>1. CASE d = c
    <3>1. ~Queued(d)'
      BY <2>1, <1>a, <1>d DEF Queued, TypeOK
    <3>2. \A i \in 1..Len(queue') : queue'[i] # d
      BY <2>1, <1>a, <1>c DEF NoDup, AtFront
    <3> QED
      BY <3>1, <3>2
  <2>2. CASE d # c
    <3>1. Queued(d)' <=> Queued(d)
      BY <2>2, <1>d DEF Queued
    <3>2. (\E i \in 1..Len(queue') : queue'[i] = d) => \E i \in 1..Len(queue) : queue[i] = d
      BY <1>c
    <3>3. ASSUME NEW i \in 1..Len(queue), queue[i] = d
          PROVE  \E j \in 1..Len(queue') : queue'[j] = d
      <4>1. i-1 \in 1..Len(queue') /\ queue'[i-1] = d
        BY <3>3, <2>2, <1>a, <1>c DEF AtFront
      <4> QED
        BY <4>1
    <3> QED
      BY <3>1, <3>2, <3>3 DEF Members
  <2> QED
    BY <2>1, <2>2
<1>4. Front'
  <2>1. acq[c] = "none"
    BY <1>a DEF CallInv, ThreadInv
  <2>2. \A d \in Clients : AtFront(d) <=> d = c
    BY <1>a DEF AtFront
  <2> QED
    BY <1>a, <1>d, <2>1, <2>2 DEF Front, TypeOK
<1>5. OneBusy'
  BY <1>d DEF OneBusy, Busy
<1>6. ThreadInv'
  BY <1>d DEF ThreadInv, Busy
<1>7. CallInv'
  BY <1>a, <1>d DEF CallInv
<1>8. Pending'
  BY <1>d DEF Pending
<1>9. Sent'
  <2> SUFFICES ASSUME NEW d \in Clients, rvk[d] = "sent"
               PROVE  \E i \in 1..Len(queue')-1 : queue'[i] = rvkTo[d] /\ queue'[i+1] = d
    BY <1>d DEF Sent
  <2>1. PICK i \in 1..Len(queue)-1 : queue[i] = rvkTo[d] /\ queue[i+1] = d
    BY DEF Sent
  <2>2. i # 1
    BY <2>1, <1>a DEF Sent, AtFront
  <2>3. i-1 \in 1..Len(queue')-1 /\ queue'[i-1] = rvkTo[d] /\ queue'[i] = d
    BY <2>1, <2>2, <1>b, <1>c
  <2> QED
    BY <2>3
<1>10. Releasing'
  BY <1>a, <1>d DEF Releasing, TypeOK, Front, AtFront
<1>11. Done'
  BY <1>d DEF Done
<1>12. OneRevoke'
  BY <1>d DEF OneRevoke
<1>13. NotLast'
  BY <1>c, <1>d DEF NotLast
<1>14. OneRetry'
  BY <1>d, <1>g DEF OneRetry
<1>15. RetryInv'
  BY <1>c, <1>d, <1>e, <1>g DEF RetryInv, AtFront, TypeOK
<1> QED
  BY <1>1, <1>2, <1>3, <1>4, <1>5, <1>6, <1>7, <1>8, <1>9, <1>10, <1>11, <1>12, <1>13,
     <1>14, <1>15

LEMMA CallServerInv ==
  ASSUME Inv, NEW c \in Clients, NEW t \in Threads, cstate[c] = "NONE", ~Busy(c, t), CallServer(c, t),
         UNCHANGED <<queue, revoke_flag, rvk, rvkTo, rel, retryTo>>
  PROVE  Inv'
<1> USE DEF Inv, QueueInv, ClientInv, RevokeInv
<1>1. TypeOK'
  BY DEF CallServer, TypeOK, ClientStates, ThreadStates, AcquirePhases
<1>2. Members'
  BY DEF CallServer, Members, Queued, TypeOK
<1>3. OneBusy'
  BY DEF CallServer, OneBusy, Busy, ThreadInv
<1>4. ThreadInv'
  BY DEF CallServer, ThreadInv, Busy, TypeOK
<1>5. CallInv'
  BY DEF CallServer, CallInv, TypeOK
<1>6. Pending'
  BY DEF CallServer, Pending, ThreadInv, CallInv
<1>7. NoDup' /\ Front' /\ Sent' /\ Releasing' /\ Done' /\ OneRevoke' /\ NotLast' /\
      OneRetry' /\ RetryInv'
  BY DEF CallServer, NoDup, Front, AtFront, Sent, Releasing, Done, OneRevoke, NotLast,
     OneRetry, RetryInv
<1> QED
  BY <1>1, <1>2, <1>3, <1>4, <1>5, <1>6, <1>7

LEMMA GrantInv ==
  ASSUME Inv, NEW c \in Clients, NEW t \in Threads, Grant(c, t),
         \/ cstate[c] = "FREE" /\ ~Busy(c, t)
         \/ cstate[c] = "LOCKED" /\ pc[c][t] = "waitRetry",
         UNCHANGED <<queue, revoke_flag, rvk, rvkTo, rel, retryTo>>
  PROVE  Inv'
<1> USE DEF Inv, QueueInv, ClientInv, RevokeInv
<1>a. acq[c] = "none" /\ rvk[c] = "none"
  <2>1. acq[c] = "none"
    BY DEF OneBusy, ThreadInv, CallInv, Busy
  <2> QED
    BY <2>1 DEF Pending
<1>1. TypeOK'
  BY DEF Grant, TypeOK, ClientStates, ThreadStates
<1>2. NoDup'
  BY DEF NoDup
<1>3. Members'
  BY DEF Grant, Members, Queued
<1>4. Front'
  BY DEF Grant, Front, AtFront
<1>5. OneBusy'
  BY DEF Grant, OneBusy, Busy, ThreadInv
<1>6. ThreadInv'
  BY DEF Grant, ThreadInv, Busy, TypeOK
<1>7. CallInv'
  BY <1>a DEF Grant, CallInv
<1>8. Pending'
  BY DEF Grant, Pending
<1>9. Sent'
  BY DEF Grant, Sent
<1>10. Releasing'
  BY DEF Grant, Releasing
<1>11. Done'
  BY DEF Grant, Done
<1>12. OneRevoke'
  BY DEF OneRevoke
<1>13. NotLast'
  BY DEF Grant, NotLast
<1>14. OneRetry'
  BY DEF OneRetry
<1>15. RetryInv'
  BY DEF Grant, RetryInv, AtFront
<1> QED
  BY <1>1, <1>2, <1>3, <1>4, <1>5, <1>6, <1>7, <1>8, <1>9, <1>10, <1>11, <1>12, <1>13,
     <1>14, <1>15

LEMMA SleepInv ==
  ASSUME Inv, NEW c \in Clients, NEW t \in Threads, NEW loop \in {"waitFree", "waitRetry"},
         Sleep(c, t, loop),
         \/ loop = "waitFree" /\ ~Busy(c, t)
         \/ loop = "waitRetry" /\ pc[c][t] = "waitRetry",
         UNCHANGED <<queue, revoke_flag, rvk, rvkTo, rel, retryTo>>
  PROVE  Inv'
<1> USE DEF Inv, QueueInv, ClientInv, RevokeInv
<1>1. TypeOK'
  BY DEF Sleep, TypeOK, ThreadStates
<1>2. NoDup' /\ Members' /\ Front' /\ OneBusy' /\ ThreadInv' /\ CallInv' /\ Pending' /\
      Sent' /\ Releasing' /\ Done' /\ OneRevoke' /\ NotLast' /\ OneRetry' /\ RetryInv'
  BY DEF Sleep, NoDup, Members, Queued, Front, AtFront, OneBusy, Busy, ThreadInv,
     CallInv, Pending, Sent, Releasing, Done, OneRevoke, NotLast, OneRetry, RetryInv
<1> QED
  BY <1>1, <1>2

LEMMA TryLockInv ==
  ASSUME Inv, NEW c \in Clients, NEW t \in Threads, ~Busy(c, t), TryLock(c, t)
  PROVE  Inv'
<1>1. CASE cstate[c] = "NONE"
  BY <1>1, CallServerInv DEF TryLock
<1>2. CASE cstate[c] = "FREE"
  BY <1>2, GrantInv DEF TryLock
<1>3. CASE cstate[c] \notin {"NONE", "FREE"}
  BY <1>3, SleepInv DEF TryLock
<1> QED
  BY <1>1, <1>2, <1>3

LEMMA AwaitGrantInv ==
  ASSUME Inv, NEW c \in Clients, NEW t \in Threads, AwaitGrant(c, t)
  PROVE  Inv'
<1>1. pc[c][t] = "waitRetry" /\ cstate[c] \in {"ACQUIRING", "LOCKED"}
  BY DEF AwaitGrant, Inv, ClientInv, ThreadInv
<1>2. CASE cstate[c] = "LOCKED"
  BY <1>2, GrantInv DEF AwaitGrant
<1>3. CASE cstate[c] = "ACQUIRING"
  BY <1>3, SleepInv DEF AwaitGrant
<1> QED
  BY <1>1, <1>2, <1>3

-----------------------------------------------------------------------------
(* The theorems. *)

\* Inv holds in every reachable state: no schedule of callers, handlers and
\* calls in flight takes clients and server out of step.
THEOREM InvHolds == Spec => []Inv
<1>1. Inv /\ [Next]_vars => Inv'
  <2> SUFFICES ASSUME Inv, [Next]_vars
               PROVE  Inv'
    OBVIOUS
  <2>1. ASSUME NEW c \in Clients, NEW t \in Threads,
               Acquire(c, t) \/ ThreadStep(c, t) \/ SpuriousWake(c, t)
        PROVE  Inv'
    <3>1. CASE Acquire(c, t)
      BY <3>1, TryLockInv DEF Acquire, Busy
    <3>2. CASE WakeFree(c, t)
      BY <3>2, TryLockInv DEF WakeFree, Busy
    <3> QED
      BY <2>1, <3>1, <3>2, AcquireReturnsInv, AcquireRetriesInv, AwaitGrantInv,
         ReleaseToServerInv, ReleaseLocallyInv, ReleaseReturnsInv, SpuriousWakeInv DEF
         ThreadStep
  <2>2. ASSUME NEW c \in Clients, AcquireHandler(c) \/ RevokeCall(c) \/ ReleaseHandler(c)
        PROVE  Inv'
    BY <2>2, RevokeHandlerInv, RevokeReleasedInv, RetryHandlerInv, ServerGrantsInv,
       ServerRevokesInv, ServerAnswersInv, ServerReleasesInv DEF AcquireHandler,
       RevokeCall, ReleaseHandler
  <2>3. CASE UNCHANGED vars
    BY <2>3 DEF vars, Inv, TypeOK, QueueInv, NoDup, Members, Front, ClientInv, OneBusy,
       ThreadInv, CallInv, RevokeInv, Pending, Sent, Releasing, Done, OneRevoke,
       NotLast, OneRetry, RetryInv, Queued, AtFront, Busy
  <2> QED
    BY <2>1, <2>2, <2>3 DEF Next
<1> QED
  BY <1>1, InitInv, PTL DEF Spec

\* The variables keep their types.
THEOREM TypeCorrect == Spec => []TypeOK
BY InvHolds, PTL DEF Inv

\* acquire() never lets two threads in together, whether they belong to one
\* client or to two (lock_client_cache::acquire, lines 60 and 69).
THEOREM Exclusive == Spec => []MutualExclusion
<1>1. Inv => MutualExclusion
  <2> SUFFICES ASSUME Inv, NEW c \in Clients, NEW d \in Clients, NEW s \in Threads,
                      NEW t \in Threads, pc[c][s] = "locked", pc[d][t] = "locked"
               PROVE  c = d /\ s = t
    BY DEF MutualExclusion
  <2>1. c = d
    BY DEF Inv, QueueInv, ClientInv, ThreadInv, Front, AtFront
  <2> QED
    BY <2>1 DEF Inv, ClientInv, OneBusy, Busy
<1> QED
  BY <1>1, InvHolds, PTL

\* A client holds the lock only as the front of the server's queue, and only the
\* front calls release: the pop in lock_server_cache::release takes the caller.
THEOREM FrontHolds == Spec => []HolderIsFront
<1>1. Inv => HolderIsFront
  BY DEF Inv, QueueInv, Front, AtFront, HolderIsFront
<1> QED
  BY <1>1, InvHolds, PTL

\* retry_handler never drops a grant: the client it is called on is waiting.
THEOREM RetryTaken == Spec => []RetryIsTaken
<1>1. Inv => RetryIsTaken
  BY DEF Inv, RetryInv, AtFront, RetryIsTaken
<1> QED
  BY <1>1, InvHolds, PTL

-----------------------------------------------------------------------------
(* Revokes *)

\* The revoke calls on their way to client c
Askers(c) == {d \in Clients : rvk[d] = "sent" /\ rvkTo[d] = c}

\* Client c has been asked for the lock, or is being asked.
Asked(c) == revoke_flag[c] \/ cstate[c] = "RELEASING" \/ Askers(c) # {}

\* Nobody in the queue but its last is forgotten.
AllAsked == \A i \in 1..Len(queue)-1 : Asked(queue[i])

\* A step that leaves the queue alone may end a client's claim only when that
\* client is out of the queue.
LEMMA AskedKept ==
  ASSUME AllAsked, queue \in Seq(Clients), UNCHANGED queue,
         \A b \in Clients : (\E i \in 1..Len(queue)-1 : queue[i] = b) /\ Asked(b) => Asked(b)'
  PROVE  AllAsked'
BY DEF AllAsked

LEMMA ThreadAsked ==
  ASSUME Inv, Inv', AllAsked, NEW c \in Clients, NEW t \in Threads,
         Acquire(c, t) \/ ThreadStep(c, t) \/ SpuriousWake(c, t)
  PROVE  AllAsked'
<1>1. queue \in Seq(Clients) /\ UNCHANGED <<queue, rvk, rvkTo>>
  BY DEF Inv, TypeOK, Acquire, ThreadStep, WakeFree, TryLock, AcquireReturns, AcquireRetries,
         AwaitGrant, ReleaseToServer, ReleaseLocally, ReleaseReturns, SpuriousWake
<1>2. \A b \in Clients : Askers(b)' = Askers(b)
  BY <1>1 DEF Askers
<1>3. cstate \in [Clients -> ClientStates] /\ revoke_flag \in [Clients -> BOOLEAN]
  BY DEF Inv, TypeOK
<1>4. CASE Acquire(c, t) \/ WakeFree(c, t) \/ AwaitGrant(c, t) \/ AcquireReturns(c, t)
  <2>1. UNCHANGED revoke_flag
    BY <1>4 DEF Acquire, WakeFree, TryLock, AwaitGrant, AcquireReturns
  <2>2. \E s \in ClientStates : /\ cstate' = [cstate EXCEPT ![c] = s]
                                /\ cstate[c] = "RELEASING" => s = "RELEASING"
    <3>1. CASE AcquireReturns(c, t)
      BY <3>1 DEF AcquireReturns, ClientStates, Inv, ClientInv, ThreadInv
    <3>2. CASE UNCHANGED cstate
      BY <1>3, <3>2
    <3>3. CASE \E s \in {"ACQUIRING", "LOCKED"} :
                 cstate[c] # "RELEASING" /\ cstate' = [cstate EXCEPT ![c] = s]
      BY <3>3 DEF ClientStates
    <3>4. QED BY <1>4, <3>1, <3>2, <3>3
              DEF Acquire, WakeFree, TryLock, AwaitGrant, CallServer, Grant, Sleep
  <2>3. \A b \in Clients : cstate[b] = "RELEASING" => cstate'[b] = "RELEASING"
    BY <1>3, <2>2
  <2>4. QED BY <1>1, <1>2, <2>1, <2>3, AskedKept DEF Asked
<1>5. CASE AcquireRetries(c, t) \/ SpuriousWake(c, t)
  <2>1. UNCHANGED <<cstate, revoke_flag>>
    BY <1>5 DEF AcquireRetries, SpuriousWake
  <2>2. QED BY <1>1, <1>2, <2>1, AskedKept DEF Asked
<1>6. CASE ReleaseToServer(c, t) \/ ReleaseLocally(c, t)
  <2>1. UNCHANGED revoke_flag /\ cstate[c] = "LOCKED"
    BY <1>6 DEF ReleaseToServer, ReleaseLocally, Inv, ClientInv, ThreadInv
  <2>2. \A b \in Clients : b # c => cstate'[b] = cstate[b]
    BY <1>3, <1>6 DEF ReleaseToServer, ReleaseLocally
  <2>3. \A b \in Clients : cstate[b] = "RELEASING" => cstate'[b] = "RELEASING"
    BY <2>1, <2>2
  <2>4. QED BY <1>1, <1>2, <2>1, <2>3, AskedKept DEF Asked
<1>7. CASE ReleaseReturns(c, t)
  <2>1. cstate'[c] = "NONE" /\ \A b \in Clients : b # c =>
          cstate'[b] = cstate[b] /\ revoke_flag'[b] = revoke_flag[b]
    BY <1>3, <1>7 DEF ReleaseReturns, FlagCleared
  <2>2. ~ \E i \in 1..Len(queue) : queue[i] = c
    BY <1>1, <2>1 DEF Inv, QueueInv, Members, Queued
  <2>3. \A b \in Clients : (\E i \in 1..Len(queue)-1 : queue[i] = b) => b # c
    BY <1>1, <2>2
  <2>4. QED BY <1>1, <1>2, <2>1, <2>3, AskedKept DEF Asked
<1>8. QED BY <1>4, <1>5, <1>6, <1>7 DEF ThreadStep

LEMMA RevokeCallAsked ==
  ASSUME Inv, Inv', AllAsked, NEW d \in Clients, RevokeCall(d)
  PROVE  AllAsked'
<1> DEFINE c == rvkTo[d]
<1>1. /\ queue \in Seq(Clients) /\ UNCHANGED <<queue, rvkTo>> /\ c \in Clients
      /\ cstate \in [Clients -> ClientStates] /\ revoke_flag \in [Clients -> BOOLEAN]
      /\ rvk \in [Clients -> RevokePhases]
  BY DEF Inv, TypeOK, RevokeCall, RevokeHandler, RevokeReleased
<1>2. \A e \in Clients : e # d => rvk'[e] = rvk[e]
  BY <1>1 DEF RevokeCall, RevokeHandler, RevokeReleased
<1>3. \A b \in Clients : b # c /\ Askers(b) # {} => Askers(b)' # {}
  <2>1. SUFFICES ASSUME NEW b \in Clients, b # c, NEW e \in Clients, rvk[e] = "sent", rvkTo[e] = b
                 PROVE  rvk'[e] = "sent" /\ rvkTo'[e] = b
    BY DEF Askers
  <2>2. QED BY <1>1, <1>2, <2>1
<1>4. \A b \in Clients : b # c => cstate'[b] = cstate[b] /\ revoke_flag'[b] = revoke_flag[b]
  BY <1>1 DEF RevokeCall, RevokeHandler, RevokeReleased
<1>5. \A b \in Clients : b # c /\ Asked(b) => Asked(b)'
  BY <1>3, <1>4 DEF Asked
<1>6. CASE RevokeHandler(d)
  <2>1. revoke_flag'[c] \/ cstate'[c] = "RELEASING"
    BY <1>1, <1>6 DEF RevokeHandler
  <2>2. Asked(c)'
    BY <1>1, <2>1 DEF Asked
  <2>3. QED BY <1>1, <1>5, <2>2, AskedKept
<1>7. CASE RevokeReleased(d)
  <2>1. cstate'[c] = "NONE"
    BY <1>1, <1>7 DEF RevokeReleased
  <2>2. ~ \E i \in 1..Len(queue) : queue[i] = c
    BY <1>1, <2>1 DEF Inv, QueueInv, Members, Queued
  <2>3. \A b \in Clients : (\E i \in 1..Len(queue)-1 : queue[i] = b) => b # c
    BY <1>1, <2>2
  <2>4. QED BY <1>1, <1>5, <2>3, AskedKept
<1>8. QED BY <1>6, <1>7 DEF RevokeCall

LEMMA RetryAsked ==
  ASSUME Inv, AllAsked, NEW c \in Clients, RetryHandler(c)
  PROVE  AllAsked'
<1>1. queue \in Seq(Clients) /\ UNCHANGED <<queue, rvk, rvkTo, revoke_flag>>
  BY DEF Inv, TypeOK, RetryHandler
<1>2. \A b \in Clients : cstate[b] = "RELEASING" => cstate'[b] = "RELEASING"
  BY DEF Inv, TypeOK, RetryHandler
<1>3. QED BY <1>1, <1>2, AskedKept DEF Asked, Askers

LEMMA AnswersAsked ==
  ASSUME Inv, AllAsked, NEW d \in Clients, ServerAnswers(d)
  PROVE  AllAsked'
<1>1. queue \in Seq(Clients) /\ UNCHANGED <<queue, cstate, revoke_flag>> /\ rvk[d] # "sent"
  BY DEF Inv, TypeOK, ServerAnswers, RevokeReturned
<1>2. \A e \in Clients : e # d => rvk'[e] = rvk[e] /\ rvkTo'[e] = rvkTo[e]
  BY DEF Inv, TypeOK, ServerAnswers
<1>3. \A b \in Clients : Askers(b) # {} => Askers(b)' # {}
  BY <1>1, <1>2 DEF Askers
<1>4. QED BY <1>1, <1>3, AskedKept DEF Asked

LEMMA GrantsAsked ==
  ASSUME Inv, AllAsked, NEW d \in Clients, ServerGrants(d)
  PROVE  AllAsked'
<1>1. Len(queue') = 1
  BY DEF ServerGrants
<1>2. QED BY <1>1 DEF AllAsked

\* The client that was last is asked when another queues up behind it.
LEMMA RevokesAsked ==
  ASSUME Inv, AllAsked, NEW d \in Clients, ServerRevokes(d)
  PROVE  AllAsked'
<1>1. /\ queue \in Seq(Clients) /\ queue' = Append(queue, d) /\ queue # << >>
      /\ UNCHANGED <<cstate, revoke_flag>>
  BY DEF Inv, TypeOK, ServerRevokes
<1>2. rvk[d] = "none"
  BY DEF ServerRevokes, Inv, TypeOK, RevokeInv, Pending, RevokePhases
<1>3. /\ rvk'[d] = "sent" /\ rvkTo'[d] = queue[Len(queue)]
      /\ \A e \in Clients : e # d => rvk'[e] = rvk[e] /\ rvkTo'[e] = rvkTo[e]
  BY DEF Inv, TypeOK, ServerRevokes
<1>4. \A b \in Clients : Asked(b) => Asked(b)'
  <2>1. \A b \in Clients : Askers(b) # {} => Askers(b)' # {}
    BY <1>2, <1>3 DEF Askers
  <2>2. QED BY <1>1, <2>1 DEF Asked
<1>5. /\ Len(queue) \in Nat /\ Len(queue') = Len(queue) + 1
      /\ \A i \in 1..Len(queue) : queue[i] \in Clients /\ queue'[i] = queue[i]
  BY <1>1, AppendFacts
<1>6. SUFFICES ASSUME NEW i \in 1..Len(queue) PROVE Asked(queue[i])'
  BY <1>5 DEF AllAsked
<1>7. queue[i] \in Clients /\ queue'[i] = queue[i]
  BY <1>5, <1>6
<1>8. CASE i < Len(queue)
  <2>1. Asked(queue[i])
    BY <1>5, <1>8 DEF AllAsked
  <2>2. PICK b \in Clients : b = queue[i]
    BY <1>7
  <2>3. Asked(b)'
    BY <1>4, <2>1, <2>2
  <2>4. QED BY <1>7, <2>2, <2>3
<1>9. CASE i = Len(queue)
  <2>1. PICK b \in Clients : b = queue[i]
    BY <1>7
  <2>2. d \in Askers(b)'
    BY <1>3, <1>9, <2>1 DEF Askers
  <2>3. Asked(b)'
    BY <2>2 DEF Asked
  <2>4. QED BY <1>7, <2>1, <2>3
<1>10. QED BY <1>5, <1>8, <1>9

LEMMA ReleasesAsked ==
  ASSUME Inv, AllAsked, NEW c \in Clients, ServerReleases(c)
  PROVE  AllAsked'
<1>1. queue \in Seq(Clients) /\ queue' = Tail(queue) /\ queue # << >>
  BY DEF Inv, TypeOK, ServerReleases, Popped, QueueInv, Front, AtFront
<1>2. \A b \in Clients : Asked(b)' = Asked(b)
  BY DEF ServerReleases, Asked, Askers
<1>3. /\ Len(queue) \in Nat \ {0} /\ Len(queue') = Len(queue) - 1
      /\ \A i \in 1..Len(queue)-1 : queue'[i] = queue[i+1]
      /\ \A i \in 1..Len(queue) : queue[i] \in Clients
  BY <1>1, TailFacts
<1>4. SUFFICES ASSUME NEW i \in 1..Len(queue)-2 PROVE Asked(queue[i])'
  BY <1>3 DEF AllAsked
<1>5. i+1 \in 1..Len(queue)-1 /\ queue'[i] = queue[i+1] /\ queue[i+1] \in Clients
  BY <1>3, <1>4
<1>6. Asked(queue[i+1])
  BY <1>5 DEF AllAsked
<1>7. PICK b \in Clients : b = queue[i+1]
  BY <1>5
<1>8. Asked(b)'
  BY <1>2, <1>6, <1>7
<1>9. QED BY <1>5, <1>7, <1>8

LEMMA AllAskedStep == Inv /\ Inv' /\ AllAsked /\ [Next]_vars => AllAsked'
<1> SUFFICES ASSUME Inv, Inv', AllAsked, [Next]_vars PROVE AllAsked'
  OBVIOUS
<1>1. CASE Next
  BY <1>1, ThreadAsked, RevokeCallAsked, RetryAsked, AnswersAsked, GrantsAsked, RevokesAsked,
     ReleasesAsked DEF Next, AcquireHandler, ReleaseHandler
<1>2. CASE UNCHANGED vars
  BY <1>2 DEF vars, AllAsked, Asked, Askers
<1>3. QED BY <1>1, <1>2

\* How often a client has been asked, in terms of the parts of the invariant
LEMMA ClaimsCount ==
  ASSUME Inv, NEW c \in Clients
  PROVE  Claims(c) = IF Asked(c) THEN 1 ELSE 0
<1> DEFINE own == IF revoke_flag[c] \/ cstate[c] = "RELEASING" THEN 1 ELSE 0
<1>1. Claims(c) = Cardinality(Askers(c)) + own
  BY DEF Claims, Askers
<1>2. CASE Askers(c) = {}
  BY <1>1, <1>2, FS_EmptySet DEF Asked
<1>3. CASE Askers(c) # {}
  <2>1. PICK d \in Clients : rvk[d] = "sent" /\ rvkTo[d] = c
    BY <1>3 DEF Askers
  <2>2. Askers(c) = {d}
    BY <2>1 DEF Askers, Inv, RevokeInv, OneRevoke
  <2>3. Cardinality(Askers(c)) = 1
    BY <2>2, FS_Singleton
  <2>4. own = 0
    BY <2>1 DEF Inv, RevokeInv, Sent
  <2>5. QED BY <1>1, <1>3, <2>3, <2>4 DEF Asked
<1>4. QED BY <1>2, <1>3

\* lock_server_cache::acquire asks every client of the queue but the last for the
\* lock, once: whatever callers, handlers and calls in flight do, no revoke is lost,
\* doubled, or left over for a later tenure.
THEOREM RevokesRight == Spec => []RevokedOnce
<1>1. Init => AllAsked
  BY DEF Init, AllAsked
<1>2. ASSUME Inv, AllAsked PROVE RevokedOnce
  <2>1. \A i \in 1..Len(queue) : queue[i] \in Clients
    BY <1>2 DEF Inv, TypeOK
  <2>2. Len(queue) \in Nat /\ DOMAIN queue = 1..Len(queue)
    BY <1>2 DEF Inv, TypeOK
  <2>3. ASSUME NEW i \in 1..Len(queue), i < Len(queue) PROVE Claims(queue[i]) = 1
    <3>1. Asked(queue[i])
      BY <1>2, <2>2, <2>3 DEF AllAsked
    <3>2. QED BY <1>2, <2>1, <3>1, ClaimsCount
  <2>4. ASSUME NEW i \in 1..Len(queue), i = Len(queue) PROVE Claims(queue[i]) = 0
    <3>1. ~revoke_flag[queue[i]] /\ cstate[queue[i]] # "RELEASING"
      BY <1>2, <2>1, <2>4 DEF Inv, RevokeInv, NotLast
    <3>2. ASSUME NEW d \in Clients, rvk[d] = "sent", rvkTo[d] = queue[i] PROVE FALSE
      <4>1. PICK k \in 1..Len(queue)-1 : queue[k] = queue[i]
        BY <1>2, <3>2 DEF Inv, RevokeInv, Sent
      <4>2. QED BY <1>2, <2>2, <2>4, <4>1 DEF Inv, QueueInv, NoDup
    <3>3. ~Asked(queue[i])
      BY <3>1, <3>2 DEF Asked, Askers
    <3>4. QED BY <1>2, <2>1, <3>3, ClaimsCount
  <2>5. ASSUME NEW c \in Clients, c \notin {queue[i] : i \in DOMAIN queue}
        PROVE  Claims(c) = IF cstate[c] = "RELEASING" THEN 1 ELSE 0
    <3>1. \A i \in 1..Len(queue) : queue[i] # c
      BY <2>2, <2>5
    <3>2. ~Queued(c)
      BY <1>2, <3>1 DEF Inv, QueueInv, Members
    <3>3. cstate[c] # "RELEASING" => ~revoke_flag[c]
      BY <1>2, <3>2 DEF Inv, TypeOK, ClientStates, ClientInv, CallInv, Queued
    <3>4. Askers(c) = {}
      BY <1>2, <2>2, <3>1 DEF Askers, Inv, RevokeInv, Sent
    <3>5. Asked(c) <=> cstate[c] = "RELEASING"
      BY <3>3, <3>4 DEF Asked
    <3>6. QED BY <1>2, <3>5, ClaimsCount
  <2>6. ASSUME NEW i \in 1..Len(queue)
        PROVE  Claims(queue[i]) = IF i < Len(queue) THEN 1 ELSE 0
    <3>1. Len(queue) \in Int
      BY <2>2
    <3>2. i < Len(queue) \/ i = Len(queue)
      BY <3>1
    <3>3. QED BY <2>3, <2>4, <3>2
  <2>7. QED BY <2>5, <2>6 DEF RevokedOnce
<1>3. QED BY <1>1, <1>2, InvHolds, AllAskedStep, PTL DEF Spec

-----------------------------------------------------------------------------
(* The refinement. *)

\* Every step of the service is a step of LockService or leaves it unchanged.
LEMMA StepRefines ==
  ASSUME Inv, [Next]_vars
  PROVE  [Service!SNext]_(Service!svars)
<1> USE DEF Service!SNext, Service!svars
<1>1. ASSUME NEW c \in Clients, NEW t \in Threads, pc[c][t] # "locked",
             pc' = [pc EXCEPT ![c][t] = "locked"], UNCHANGED queue, AtFront(c),
             Inside = {}
      PROVE  Service!SNext
  <2>1. Inside' = {<<c, t>>}
    BY <1>1 DEF Inside, Inv, TypeOK
  <2>2. Service!Enter(c, t)
    BY <1>1, <2>1 DEF Service!Enter, AtFront
  <2> QED
    BY <2>2
<1>2. ASSUME NEW c \in Clients, NEW t \in Threads, NEW x \in ThreadStates, x # "locked",
             pc' = [pc EXCEPT ![c][t] = x], UNCHANGED queue
      PROVE  [Service!SNext]_(Service!svars)
  <2>1. Inside' = Inside \ {<<c, t>>}
    BY <1>2 DEF Inside, Inv, TypeOK
  <2>2. CASE <<c, t>> \in Inside
    <3>1. Service!Leave(c, t)
      BY <1>2, <2>1, <2>2 DEF Service!Leave
    <3> QED
      BY <3>1
  <2>3. CASE <<c, t>> \notin Inside
    BY <1>2, <2>1, <2>3
  <2> QED
    BY <2>2, <2>3
<1>3. ASSUME NEW c \in Clients, NEW t \in Threads, pc[c][t] # "locked",
             cstate[c] = "FREE" \/ pc[c][t] \in {"call", "waitRetry"},
             AtFront(c)
      PROVE  Inside = {}
  <2> SUFFICES ASSUME NEW d \in Clients, NEW s \in Threads, pc[d][s] = "locked"
               PROVE  FALSE
    BY DEF Inside
  <2>1. d = c
    BY <1>3 DEF Inv, ClientInv, ThreadInv, QueueInv, Front, AtFront
  <2> QED
    BY <1>3, <2>1 DEF Inv, ClientInv, ThreadInv, OneBusy, Busy
<1>4. ASSUME NEW c \in Clients, NEW t \in Threads, TryLock(c, t),
             pc[c][t] \in {"idle", "waitFree"}
      PROVE  [Service!SNext]_(Service!svars)
  <2>1. CASE cstate[c] = "NONE"
    BY <1>2, <1>4, <2>1 DEF TryLock, CallServer, ThreadStates
  <2>2. CASE cstate[c] = "FREE"
    <3>1. AtFront(c)
      BY <2>2 DEF Inv, QueueInv, Front
    <3> QED
      BY <1>1, <1>3, <1>4, <2>2, <3>1 DEF TryLock, Grant
  <2>3. CASE cstate[c] \notin {"NONE", "FREE"}
    BY <1>2, <1>4, <2>3 DEF TryLock, Sleep, ThreadStates
  <2> QED
    BY <2>1, <2>2, <2>3
<1>5. ASSUME NEW c \in Clients, NEW t \in Threads, AwaitGrant(c, t)
      PROVE  [Service!SNext]_(Service!svars)
  <2>1. pc[c][t] = "waitRetry" /\ cstate[c] \in {"ACQUIRING", "LOCKED"}
    BY <1>5 DEF AwaitGrant, Inv, ClientInv, ThreadInv
  <2>2. CASE cstate[c] = "LOCKED"
    <3>1. AtFront(c)
      BY <2>2 DEF Inv, QueueInv, Front
    <3> QED
      BY <1>1, <1>3, <1>5, <2>2, <3>1 DEF AwaitGrant, Grant
  <2>3. CASE cstate[c] = "ACQUIRING"
    BY <1>2, <1>5, <2>3 DEF AwaitGrant, Sleep, ThreadStates
  <2> QED
    BY <2>1, <2>2, <2>3
<1>6. ASSUME NEW c \in Clients, NEW t \in Threads,
             Acquire(c, t) \/ ThreadStep(c, t) \/ SpuriousWake(c, t)
      PROVE  [Service!SNext]_(Service!svars)
  <2>1. CASE Acquire(c, t) \/ WakeFree(c, t)
    BY <1>4, <2>1 DEF Acquire, WakeFree
  <2>2. CASE AcquireReturns(c, t)
    <3>1. AtFront(c) /\ pc[c][t] = "call"
      BY <2>2 DEF AcquireReturns, Inv, QueueInv, Front
    <3> QED
      BY <1>1, <1>3, <2>2, <3>1 DEF AcquireReturns
  <2>3. CASE AwaitGrant(c, t)
    BY <1>5, <2>3
  <2>4. CASE AcquireRetries(c, t)
    BY <1>2, <2>4 DEF AcquireRetries, ThreadStates
  <2>5. CASE ReleaseToServer(c, t)
    BY <1>2, <2>5 DEF ReleaseToServer, ThreadStates
  <2>6. CASE ReleaseLocally(c, t)
    BY <1>2, <2>6 DEF ReleaseLocally, ThreadStates
  <2>7. CASE ReleaseReturns(c, t)
    BY <1>2, <2>7 DEF ReleaseReturns, ThreadStates
  <2>8. CASE SpuriousWake(c, t)
    BY <2>8 DEF SpuriousWake, Inside
  <2> QED
    BY <1>6, <2>1, <2>2, <2>3, <2>4, <2>5, <2>6, <2>7, <2>8 DEF ThreadStep
<1>7. ASSUME NEW c \in Clients, ServerGrants(c) \/ ServerRevokes(c)
      PROVE  Service!SNext
  <2>1. queue' = Append(queue, c) /\ UNCHANGED pc /\ acq[c] = "request"
    BY <1>7 DEF ServerGrants, ServerRevokes
  <2>2. c \notin Service!Queued
    <3>1. \A i \in 1..Len(queue) : queue[i] # c
      BY <2>1 DEF Inv, ClientInv, CallInv, QueueInv, Members, Queued
    <3>2. DOMAIN queue = 1..Len(queue)
      OBVIOUS
    <3> QED
      BY <3>1 DEF Service!Queued
  <2>3. Service!Join(c)
    BY <2>1, <2>2 DEF Service!Join, Inside
  <2> QED
    BY <2>3
<1>8. ASSUME NEW c \in Clients, ServerReleases(c)
      PROVE  Service!SNext
  <2>1. /\ AtFront(c) /\ cstate[c] = "RELEASING" /\ queue \in Seq(Clients)
        /\ queue' = Tail(queue) /\ UNCHANGED pc
    BY <1>8 DEF ServerReleases, Popped, Inv, QueueInv, Front, ClientInv, CallInv, TypeOK
  <2>2. Len(queue) > 1
    BY <2>1 DEF Inv, RevokeInv, NotLast, AtFront
  <2>3. Inside = {}
    BY <2>1 DEF Inside, Inv, ClientInv, ThreadInv, QueueInv, Front, AtFront
  <2>4. Service!PassOn
    BY <2>1, <2>2, <2>3 DEF Service!PassOn, Inside
  <2> QED
    BY <2>4
<1>9. ASSUME NEW c \in Clients,
             RevokeHandler(c) \/ RevokeReleased(c) \/ RetryHandler(c) \/ ServerAnswers(c)
      PROVE  UNCHANGED Service!svars
  BY <1>9 DEF RevokeHandler, RevokeReleased, RetryHandler, ServerAnswers, Inside
<1>10. CASE UNCHANGED vars
  BY <1>10 DEF vars, Inside
<1> QED
  BY <1>6, <1>7, <1>8, <1>9, <1>10 DEF Next, AcquireHandler, RevokeCall, ReleaseHandler

\* lock_client_cache and lock_server_cache implement the lock service: clients
\* own the right in the order the server queued them, and only the owner's
\* threads enter, one at a time.
THEOREM Refinement == Spec => ServiceSpec
<1>1. Init => Service!SInit
  BY DEF Init, Service!SInit, Inside
<1>2. Inv /\ [Next]_vars => [Service!SNext]_(Service!svars)
  BY StepRefines
<1> QED
  BY <1>1, <1>2, InvHolds, PTL DEF Spec, ServiceSpec, Service!SSpec
=============================================================================
