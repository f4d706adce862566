---------------------------- MODULE RpcAtMostOnce ----------------------------
(***************************************************************************)
(* At-most-once calls between an rpcc and an rpcs (rpc/rpc.cc).            *)
(*                                                                         *)
(* One rpcc is enough: the server keeps a reply window per client nonce.   *)
(* The connections between the two are abstracted to what they may do: a   *)
(* request or a reply that was once sent may arrive late, in any order,    *)
(* more than once (retransmission after a dead connection, the duplicates  *)
(* of RPC_LOSSY) or never.  A client without at-most-once (nonce 0) is not *)
(* modelled.                                                               *)
(***************************************************************************)
EXTENDS Integers, FiniteSets

CONSTANTS MaxXid,       \* bound: calls made, the bind included
          MaxRestarts   \* bound: restarts of the server

ASSUME BoundAssumption == MaxXid \in Nat /\ MaxRestarts \in Nat

VARIABLES
  xid_,             \* client: the xid of the next call
  calls_,           \* client: the calls that have not returned
  ret,              \* client: what a call has been told, "none" before that
  xid_rep_window_,  \* client: the finished xids from the last of the first run on,
                    \* as a set: the list is sorted, and its copies change nothing
  bind_done_,       \* client
  srv_nonce_,       \* client: the server instance it is bound to, 0 before that
  request,          \* the header of every request sent: xid_rep and srv_nonce
  nonce_,           \* server: its instance
  reply_window_,    \* server: the xids it remembers
  cb_present,       \* server: those of them with a reply
  running,          \* server: the xids whose handler is at work
  replies,          \* the replies sent
  executed          \* history: how often a handler was started for each xid

client == <<xid_, calls_, ret, xid_rep_window_, bind_done_, srv_nonce_, request>>
server == <<nonce_, reply_window_, cb_present, running, replies, executed>>
vars == <<client, server>>

Xids == 1 .. MaxXid
Rets == {"none", "ok", "timeout_failure", "atmostonce_failure", "oldsrv_failure"}
NotSent == [rep |-> 0, srv |-> 0]

Init ==
  /\ xid_ = 1
  /\ calls_ = {}
  /\ ret = [x \in Xids |-> "none"]
  /\ xid_rep_window_ = {0}
  /\ bind_done_ = FALSE
  /\ srv_nonce_ = 0
  /\ request = [x \in Xids |-> NotSent]
  /\ nonce_ = 1
  /\ reply_window_ = {}
  /\ cb_present = {}
  /\ running = {}
  /\ replies = {}
  /\ executed = [x \in Xids |-> 0]

-----------------------------------------------------------------------------
(* The client: rpcc *)

\* The front of the sorted list
IsFront(n, w) == n \in w /\ \A v \in w : n <= v

\* Faulty variant: the front is dropped once.
CompressOnce(w) == {v \in w : IsFront(v, w) => v + 1 \notin w}

\* The loop after the label compress: the front is dropped as long as its
\* successor is in the list.
Compress(w) == {v \in w : \E n \in w : n <= v /\ n + 1 \notin w}

\* Faulty variant: the list does not remember what is missing.
LatestXid(w, xid) == IF \A v \in w : xid <= v THEN w ELSE {xid}

\* update_xid_rep()
UpdateXidRep(w, xid) ==
  IF \A v \in w : xid <= v THEN w ELSE Compress(w \union {xid})

\* call1() up to the first send.  The bind is the first call; nobody retries it.
Call ==
  /\ xid_ <= MaxXid  \* bound
  /\ bind_done_ \/ xid_ = 1
  /\ \E n \in xid_rep_window_ :
       /\ IsFront(n, xid_rep_window_)
       /\ request' = [request EXCEPT ![xid_] = [rep |-> n, srv |-> srv_nonce_]]
  /\ calls_' = calls_ \union {xid_}
  /\ xid_' = xid_ + 1
  /\ UNCHANGED <<ret, xid_rep_window_, bind_done_, srv_nonce_, server>>

\* got_pdu(): a reply arrives, and counts as one even if nobody waits for it.
GotPdu(m) ==
  /\ m \in replies
  /\ xid_rep_window_' = UpdateXidRep(xid_rep_window_, m.xid)
  /\ ret' = [ret EXCEPT ![m.xid] = IF m.xid \in calls_ /\ @ = "none" THEN m.ret ELSE @]
  /\ UNCHANGED <<xid_, calls_, bind_done_, srv_nonce_, request, server>>

\* The rest of call1(), once the reply is in; and of bind(), which keeps the nonce
\* that came with it.
Return(x) ==
  /\ x \in calls_ /\ ret[x] # "none"
  /\ calls_' = calls_ \ {x}
  /\ xid_rep_window_' = UpdateXidRep(xid_rep_window_, x)
  /\ IF request[x].srv = 0 /\ ret[x] = "ok"
     THEN /\ bind_done_' = TRUE
          /\ \E m \in replies : m.xid = x /\ m.ret = "ok" /\ srv_nonce_' = m.nonce
     ELSE UNCHANGED <<bind_done_, srv_nonce_>>
  /\ UNCHANGED <<xid_, ret, request, server>>

\* The rest of call1() at its final deadline: the xid counts as replied to.
TimesOut(x) ==
  /\ x \in calls_ /\ ret[x] = "none"
  /\ ret' = [ret EXCEPT ![x] = "timeout_failure"]
  /\ calls_' = calls_ \ {x}
  /\ xid_rep_window_' = UpdateXidRep(xid_rep_window_, x)
  /\ UNCHANGED <<xid_, bind_done_, srv_nonce_, request, server>>

-----------------------------------------------------------------------------
(* The server: rpcs *)

Send(x, r) == replies' = replies \union {[xid |-> x, ret |-> r, nonce |-> nonce_]}

\* The request is for this instance of the server; a bind is for any.
AnyServer(x) == x \in Xids  \* faulty variant
Addressed(x) == request[x].srv \in {0, nonce_}

\* dispatch() of a request for an earlier instance
OldServer(x) ==
  /\ x < xid_ /\ ~Addressed(x)
  /\ Send(x, "oldsrv_failure")
  /\ UNCHANGED <<client, nonce_, reply_window_, cb_present, running, executed>>

\* The answers of checkduplicate_and_update().
Done(x) == x \in cb_present
InProgress(x) == x \in reply_window_ \ cb_present
Forgotten(x) ==
  /\ x \notin reply_window_
  /\ reply_window_ # {} /\ \A y \in reply_window_ : x < y

\* Requests below xid_rep are deleted; the variant is what rpc.cc:653 says.
DeletedUpTo(S, xid_rep) == {y \in S : y <= xid_rep}  \* faulty variant
Deleted(S, xid_rep) == {y \in S : y < xid_rep}

\* dispatch() of a request that checkduplicate_and_update() has not seen: it is
\* remembered, the window is cleaned, and the handler is called.
DispatchNew(x) ==
  LET old == Deleted(reply_window_ \union {x}, request[x].rep) IN
  /\ x < xid_ /\ Addressed(x)
  /\ x \notin reply_window_ /\ ~Forgotten(x)
  /\ reply_window_' = (reply_window_ \union {x}) \ old
  /\ cb_present' = cb_present \ old
  /\ running' = running \union {x}
  /\ executed' = [executed EXCEPT ![x] = @ + 1]
  /\ UNCHANGED <<client, nonce_, replies>>

\* dispatch() of a duplicate whose reply is kept, or of an xid below the window.
\* A duplicate of a call in progress is dropped.
DispatchOld(x) ==
  /\ x < xid_ /\ Addressed(x)
  /\ \/ Done(x) /\ Send(x, "ok")
     \/ Forgotten(x) /\ Send(x, "atmostonce_failure")
     \/ InProgress(x) /\ UNCHANGED replies
  /\ UNCHANGED <<client, nonce_, reply_window_, cb_present, running, executed>>

\* add_reply() finds its entry unless it has been deleted.
RecordedAlways(x) == {x}  \* faulty variant
Recorded(x) == {x} \cap reply_window_

\* The handler returns, and its reply is recorded and sent.
Reply(x) ==
  /\ x \in running
  /\ running' = running \ {x}
  /\ cb_present' = cb_present \union Recorded(x)
  /\ Send(x, "ok")
  /\ UNCHANGED <<client, nonce_, reply_window_, executed>>

\* The server process dies and a new one, with a new nonce, takes its place.
Restart ==
  /\ nonce_ <= MaxRestarts  \* bound
  /\ nonce_' = nonce_ + 1
  /\ reply_window_' = {}
  /\ cb_present' = {}
  /\ running' = {}
  /\ UNCHANGED <<client, replies, executed>>

Next ==
  \/ Call
  \/ \E m \in replies : GotPdu(m)
  \/ \E x \in Xids : Return(x) \/ TimesOut(x)
  \/ \E x \in Xids : OldServer(x) \/ DispatchNew(x) \/ DispatchOld(x) \/ Reply(x)
  \/ Restart

Spec == Init /\ [][Next]_vars

-----------------------------------------------------------------------------
(* Properties *)

TypeOK ==
  /\ xid_ \in 1 .. MaxXid+1
  /\ calls_ \subseteq 1 .. xid_-1
  /\ ret \in [Xids -> Rets]
  /\ xid_rep_window_ \subseteq 0 .. xid_-1
  /\ bind_done_ \in BOOLEAN
  /\ srv_nonce_ \in 0 .. nonce_
  /\ request \in [Xids -> [rep : 0 .. MaxXid, srv : 0 .. nonce_]]
  /\ nonce_ \in 1 .. MaxRestarts+1
  /\ reply_window_ \subseteq 1 .. xid_-1
  /\ cb_present \subseteq reply_window_
  /\ running \subseteq 1 .. xid_-1
  /\ replies \subseteq [xid : 1 .. xid_-1, ret : Rets, nonce : 1 .. nonce_]
  /\ executed \in [Xids -> Nat]

\* rpc.cc:9, "at-most-once": no call is executed twice, whatever is retransmitted
\* and across restarts; only a bind may be.
AtMostOnce == \A x \in Xids : executed[x] > 1 => request[x].srv = 0

\* The reply of a call that has run is kept until the caller has it: a caller that
\* retransmits is answered, or its call is still running.
ReplyKept ==
  \A x \in calls_ :
    ret[x] = "none" /\ request[x].srv = nonce_ /\ executed[x] > 0
      => x \in running \union cb_present

Finished == {x \in Xids : ret[x] # "none"}

\* The front of the client's window is exact: it is the last xid of the first run
\* of finished calls, neither short of it (the server would never forget) nor
\* beyond it (the server would forget a reply that is needed).
XidRepExact ==
  /\ xid_rep_window_ # {}
  /\ \A n \in xid_rep_window_ : IsFront(n, xid_rep_window_) =>
       1..n \subseteq Finished /\ n+1 \notin Finished

\* rpc.h:273, "FORGOTTEN,  // duplicate of an old RPC whose reply we've forgotten":
\* a caller is refused only if its call was executed.
RefusedWasExecuted ==
  \A x \in Xids : ret[x] = "atmostonce_failure" => executed[x] > 0

\* While nobody gives up, that is true: the front of the window that a request
\* carries covers finished calls only.  (xid_rep in call1, and
\* checkduplicate_and_update)
PatientNotRefused ==
  (\A x \in Xids : ret[x] # "timeout_failure") => RefusedWasExecuted
=============================================================================
