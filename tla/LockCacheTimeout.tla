-------------------------- MODULE LockCacheTimeout --------------------------
(***************************************************************************)
(* LockCache when an acquire call may fail: rpcc::call gives up after      *)
(* 120 s and returns timeout_failure, which acquire() handles like every   *)
(* answer other than RETRY.  The server knows nothing of it: the request,  *)
(* its handler and its answer stay under way.                              *)
(***************************************************************************)
EXTENDS LockCache

VARIABLE late  \* the clients whose abandoned call is still under way

InitT == Init /\ late = {}

\* The call returns timeout_failure.
AcquireTimesOut(c, t) ==
  /\ pc[c][t] = "call" /\ c \notin late
  /\ cstate' = [cstate EXCEPT ![c] = "LOCKED"]
  /\ pc' = [pc EXCEPT ![c][t] = "locked"]
  /\ late' = late \union {c}
  /\ UNCHANGED <<queue, revoke_flag, waiting, acq, rvk, rvkTo, rel, retryTo>>

\* The answer of an abandoned call arrives and finds no caller.
LateAnswer(c) ==
  /\ c \in late /\ acq[c] \in {"ok", "retry"}
  /\ acq' = [acq EXCEPT ![c] = "none"]
  /\ late' = late \ {c}
  /\ UNCHANGED <<queue, cstate, revoke_flag, waiting, pc, rvk, rvkTo, rel, retryTo>>

\* Bound: a client makes no new acquire call before the answer to its abandoned
\* one is in.
OneCallPerClient == \A c \in late, t \in Threads : pc'[c][t] # "call"

NextT ==
  \/ Next /\ OneCallPerClient /\ UNCHANGED late
  \/ \E c \in Clients, t \in Threads : AcquireTimesOut(c, t)
  \/ \E c \in Clients : LateAnswer(c)

SpecT == InitT /\ [][NextT]_<<vars, late>>
=============================================================================
