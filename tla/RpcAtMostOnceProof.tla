------------------------- MODULE RpcAtMostOnceProof -------------------------
(***************************************************************************)
(* The at-most-once layer keeps its word, for every number of calls and of *)
(* restarts of the server.                                                 *)
(***************************************************************************)
EXTENDS RpcAtMostOnce, TLAPS, WellFoundedInduction

-----------------------------------------------------------------------------
(* The window of the client *)

\* Window w tells which of the calls in F are finished: all of them up to its
\* front, and beyond that those it holds.
WindowOf(w, F) ==
  \E n \in w : /\ IsFront(n, w) /\ 1..n \subseteq F /\ n+1 \notin w
               /\ w \subseteq F \union {n} /\ F \subseteq (1..n) \union w

LEMMA LeastElement ==
  ASSUME NEW T \in SUBSET Nat, T # {}
  PROVE  \E x \in T : \A y \in T : x <= y
<1>1. PICK x \in T : \A y \in T : ~ (<<y, x>> \in OpToRel(<, Nat))
  BY WFMin, NatLessThanWellFounded
<1>2. \A y \in T : ~ (y < x)
  BY <1>1 DEF OpToRel
<1>3. QED BY <1>2

\* The list stays what it should be when a call is finished.
LEMMA UpdateExact ==
  ASSUME NEW max \in Nat, NEW w \in SUBSET (0..max), NEW F \in SUBSET (1..max),
         WindowOf(w, F), NEW xid \in 1..max
  PROVE  /\ UpdateXidRep(w, xid) \in SUBSET (0..max)
         /\ WindowOf(UpdateXidRep(w, xid), F \union {xid})
<1> DEFINE W == w \union {xid}
           G == F \union {xid}
<1>1. PICK n \in w : /\ IsFront(n, w) /\ 1..n \subseteq F /\ n+1 \notin w
                     /\ w \subseteq F \union {n} /\ F \subseteq (1..n) \union w
  BY DEF WindowOf
<1>2. n \in Nat /\ \A v \in w : v \in Nat /\ n <= v
  BY <1>1 DEF IsFront
<1>3. CASE \A v \in w : xid <= v
  <2>1. xid \in 1..n
    BY <1>2, <1>3
  <2>2. F \union {xid} = F
    BY <1>1, <2>1
  <2>3. QED BY <1>3, <2>2 DEF UpdateXidRep
<1>4. CASE ~(\A v \in w : xid <= v)
  <2>1. UpdateXidRep(w, xid) = Compress(W)
    BY <1>4 DEF UpdateXidRep
  <2>2. n < xid
    BY <1>2, <1>4
  <2>3. Compress(W) \in SUBSET (0..max)
    <3>1. Compress(W) \subseteq W
      BY DEF Compress
    <3>2. W \subseteq 0..max
      OBVIOUS
    <3>3. QED BY <3>1, <3>2
  <2>4. CASE xid # n+1
    <3>1. n+1 \notin W
      BY <1>1, <2>4
    <3>2. \A v \in W : n <= v
      BY <1>2, <2>2
    <3>3. Compress(W) = W
      BY <3>1, <3>2, <1>1 DEF Compress
    <3>4. WindowOf(W, G)
      <4>1. IsFront(n, W) /\ 1..n \subseteq G
        BY <1>1, <3>2 DEF IsFront
      <4>2. W \subseteq G \union {n} /\ G \subseteq (1..n) \union W
        BY <1>1
      <4>3. QED BY <1>1, <3>1, <4>1, <4>2 DEF WindowOf
    <3>5. QED BY <2>1, <2>3, <3>3, <3>4
  <2>5. CASE xid = n+1
    <3> DEFINE T == {u \in Nat : xid <= u /\ u+1 \notin W}
    <3>1. T # {}
      <4>1. max \in T
        OBVIOUS
      <4>2. QED BY <4>1
    <3> HIDE DEF T
    <3>2. T \subseteq Nat /\ \A u \in T : xid <= u /\ u+1 \notin W
      BY DEF T
    <3>3. PICK f \in T : \A u \in T : f <= u
      BY <3>1, <3>2, LeastElement
    <3>4. f \in Nat /\ xid <= f /\ f+1 \notin W
      BY <3>2
    <3>5. \A k \in Nat : xid <= k /\ k < f => k+1 \in W
      BY <3>3, <3>4 DEF T
    <3>6. \A k \in xid..f : k \in W
      <4>1. SUFFICES ASSUME NEW k \in xid..f, k # xid  PROVE k \in W
        OBVIOUS
      <4>2. k-1 \in Nat /\ xid <= k-1 /\ k-1 < f
        BY <3>4, <4>1
      <4>3. k-1+1 \in W
        BY <3>5, <4>2
      <4>4. QED BY <4>3
    <3>7. f \in W
      BY <3>4, <3>6
    <3>8. Compress(W) = {v \in W : f <= v}
      <4>1. ASSUME NEW v \in W, f <= v
            PROVE  v \in Compress(W)
        BY <3>4, <3>7, <4>1 DEF Compress
      <4>2. ASSUME NEW v \in W, NEW u \in W, u <= v, u+1 \notin W
            PROVE  f <= v
        <5>1. u \in Nat /\ v \in Nat
          BY <1>2, <2>2
        <5>2. u # n
          BY <2>5, <4>2
        <5>3. xid <= u
          BY <1>2, <2>5, <5>1, <5>2
        <5>4. u \in T
          BY <4>2, <5>1, <5>3 DEF T
        <5>5. QED BY <3>3, <3>4, <4>2, <5>1, <5>4
      <4>3. QED BY <4>1, <4>2 DEF Compress
    <3> DEFINE V == {v \in W : f <= v}
    <3>9. f \in V /\ IsFront(f, V) /\ f+1 \notin V
      BY <3>4, <3>7 DEF IsFront
    <3>10. 1..f \subseteq G
      <4>1. SUFFICES ASSUME NEW k \in 1..f  PROVE k \in G
        OBVIOUS
      <4>2. CASE k <= n
        BY <1>1, <1>2, <4>2
      <4>3. CASE k > n
        <5>1. k \in xid..f
          BY <1>2, <2>5, <3>4, <4>3
        <5>2. k \in W
          BY <3>6, <5>1
        <5>3. QED BY <1>1, <1>2, <4>3, <5>2
      <4>4. QED BY <1>2, <4>2, <4>3
    <3>11. V \subseteq G \union {f}
      <4>1. n \notin V
        BY <1>2, <2>2, <3>4
      <4>2. QED BY <1>1, <4>1
    <3>12. G \subseteq (1..f) \union V
      <4>1. SUFFICES ASSUME NEW k \in G, k \notin V  PROVE k \in 1..f
        OBVIOUS
      <4>2. k \in 1..n \/ k \in W
        BY <1>1
      <4>3. k \in Nat /\ 1 <= k
        OBVIOUS
      <4>4. QED BY <1>2, <2>2, <3>4, <4>1, <4>2, <4>3
    <3>13. WindowOf(V, G)
      BY <3>9, <3>10, <3>11, <3>12 DEF WindowOf
    <3>14. QED BY <2>1, <2>3, <3>8, <3>13
  <2>6. QED BY <2>4, <2>5
<1>5. QED BY <1>3, <1>4

-----------------------------------------------------------------------------
(* The inductive invariant *)

\* A call that is not waiting any more has been told something, and nobody has
\* been told anything of a call to come.
Told ==
  /\ \A x \in Xids : x < xid_ /\ x \notin calls_ => ret[x] # "none"
  /\ \A x \in Xids : x >= xid_ => ret[x] = "none" /\ executed[x] = 0
  /\ \A m \in replies : m.ret # "none"

\* What a request says is finished is finished, and lies before it.
RequestsHonest ==
  \A x \in Xids : x < xid_ =>
    request[x].rep < x /\ 1..request[x].rep \subseteq Finished

\* A call that this instance of the server has executed is remembered, or is below
\* all that is remembered; and as long as its caller waits, it is remembered.
Remembered ==
  \A x \in Xids : request[x].srv = nonce_ /\ executed[x] > 0 =>
    /\ x \in reply_window_ \/ Forgotten(x)
    /\ ret[x] = "none" => x \in reply_window_

ExecutedOnce == \A x \in Xids : request[x].srv # 0 => executed[x] <= 1

Inv == /\ TypeOK /\ Told /\ RequestsHonest /\ Remembered /\ ExecutedOnce
       /\ WindowOf(xid_rep_window_, Finished)
       /\ reply_window_ \subseteq running \union cb_present

LEMMA InitInv == Init => Inv
<1> SUFFICES ASSUME Init PROVE Inv
  OBVIOUS
<1>1. TypeOK
  <2> USE BoundAssumption DEF Xids
  <2>1. /\ xid_ \in 1..MaxXid+1 /\ calls_ \subseteq 1..xid_-1
        /\ xid_rep_window_ \subseteq 0..xid_-1
        /\ bind_done_ \in BOOLEAN /\ nonce_ \in 1..MaxRestarts+1
        /\ srv_nonce_ \in 0..nonce_
    <3>1. xid_ \in 1..MaxXid+1 /\ nonce_ \in 1..MaxRestarts+1
      BY DEF Init
    <3>2. calls_ \subseteq 1..xid_-1 /\ xid_rep_window_ \subseteq 0..xid_-1
      BY DEF Init
    <3>3. bind_done_ \in BOOLEAN
      BY DEF Init
    <3>4. srv_nonce_ \in 0..nonce_
      BY DEF Init
    <3>5. QED BY <3>1, <3>2, <3>3, <3>4
  <2>2. ret \in [Xids -> Rets] /\ executed \in [Xids -> Nat]
    BY DEF Init, Rets
  <2>3. request \in [Xids -> [rep : 0..MaxXid, srv : 0..nonce_]]
    <3>1. NotSent \in [rep : 0..MaxXid, srv : 0..nonce_]
      BY DEF Init, NotSent
    <3>2. QED BY <3>1 DEF Init
  <2>4. /\ reply_window_ = {} /\ cb_present = {} /\ running = {} /\ replies = {}
    BY DEF Init
  <2>5. QED BY <2>1, <2>2, <2>3, <2>4 DEF TypeOK
<1>2. Told /\ RequestsHonest /\ Remembered /\ ExecutedOnce
  BY DEF Init, Told, RequestsHonest, Remembered, ExecutedOnce, Xids, NotSent
<1>3. WindowOf(xid_rep_window_, Finished)
  BY DEF Init, WindowOf, IsFront, Finished, Xids
<1>4. QED BY <1>1, <1>2, <1>3 DEF Init, Inv

\* The front of the window at the time of a call
LEMMA FrontFinished ==
  ASSUME NEW w, NEW F, WindowOf(w, F), NEW n \in w, w \subseteq Int, IsFront(n, w)
  PROVE  1..n \subseteq F /\ n+1 \notin F
<1>1. PICK k \in w : /\ IsFront(k, w) /\ 1..k \subseteq F /\ k+1 \notin w
                     /\ F \subseteq (1..k) \union w
  BY DEF WindowOf
<1>2. k = n
  BY <1>1 DEF IsFront
<1>3. QED BY <1>1, <1>2

LEMMA CallInv == ASSUME Inv, Call PROVE Inv'
<1>1. PICK n \in xid_rep_window_ :
        /\ IsFront(n, xid_rep_window_)
        /\ request' = [request EXCEPT ![xid_] = [rep |-> n, srv |-> srv_nonce_]]
  BY DEF Call
<1>2. xid_ \in Xids /\ n \in 0..xid_-1 /\ MaxXid \in Nat
  BY BoundAssumption DEF Inv, TypeOK, Call, Xids
<1>3. 1..n \subseteq Finished
  <2>1. xid_rep_window_ \subseteq Int /\ WindowOf(xid_rep_window_, Finished)
    BY BoundAssumption DEF Inv, TypeOK
  <2>2. QED BY <1>1, <2>1, FrontFinished
<1>4. TypeOK'
  <2>1. /\ xid_' = xid_ + 1 /\ calls_' = calls_ \union {xid_}
        /\ UNCHANGED <<ret, xid_rep_window_, bind_done_, srv_nonce_, server>>
    BY DEF Call
  <2>2. xid_' \in 1..MaxXid+1 /\ calls_' \subseteq 1..xid_'-1
    BY <1>2, <2>1 DEF Inv, TypeOK, Xids
  <2>3. request' \in [Xids -> [rep : 0..MaxXid, srv : 0..nonce_]]
    <3>1. [rep |-> n, srv |-> srv_nonce_] \in [rep : 0..MaxXid, srv : 0..nonce_]
      BY <1>2 DEF Inv, TypeOK, Xids
    <3>2. QED BY <1>1, <1>2, <3>1 DEF Inv, TypeOK
  <2>4. replies' \subseteq [xid : 1..xid_'-1, ret : Rets, nonce : 1..nonce_]
    BY <1>2, <2>1 DEF Inv, TypeOK, server, Xids
  <2>5. /\ xid_rep_window_' \subseteq 0..xid_'-1
        /\ reply_window_' \subseteq 1..xid_'-1 /\ running' \subseteq 1..xid_'-1
    <3>1. 1..xid_-1 \subseteq 1..xid_'-1 /\ 0..xid_-1 \subseteq 0..xid_'-1
      BY <1>2, <2>1 DEF Xids
    <3>2. QED BY <2>1, <3>1 DEF Inv, TypeOK, server
  <2>6. /\ ret' \in [Xids -> Rets] /\ bind_done_' \in BOOLEAN
        /\ srv_nonce_' \in 0..nonce_' /\ nonce_' = nonce_
        /\ nonce_' \in 1..MaxRestarts+1 /\ cb_present' \subseteq reply_window_'
        /\ executed' \in [Xids -> Nat]
    BY <2>1 DEF Inv, TypeOK, server
  <2>7. QED BY <2>2, <2>3, <2>4, <2>5, <2>6 DEF TypeOK
<1>5. Told'
  BY <1>2 DEF Inv, TypeOK, Told, Call, server, Xids
<1>6. Finished' = Finished
  BY DEF Finished, Call
<1>7. RequestsHonest'
  <2>1. SUFFICES ASSUME NEW x \in Xids, x < xid_'
                 PROVE  request'[x].rep < x /\ 1..request'[x].rep \subseteq Finished
    BY <1>6 DEF RequestsHonest
  <2>2. /\ xid_ \in 1..MaxXid+1 /\ xid_' = xid_ + 1
        /\ request \in [Xids -> [rep : 0..MaxXid, srv : 0..nonce_]]
    BY DEF Inv, TypeOK, Call
  <2>3. CASE x = xid_
    <3>1. request'[x] = [rep |-> n, srv |-> srv_nonce_]
      BY <1>1, <2>2, <2>3
    <3>2. request'[x].rep = n /\ n < x
      BY <1>2, <2>2, <2>3, <3>1
    <3>3. QED BY <1>3, <3>2
  <2>4. CASE x < xid_
    <3>1. request'[x] = request[x]
      BY <1>1, <1>2, <2>2, <2>4 DEF Xids
    <3>2. QED BY <2>4, <3>1 DEF Inv, RequestsHonest
  <2>5. QED BY <1>2, <2>1, <2>2, <2>3, <2>4 DEF Xids
<1>8. Remembered'
  BY SMTT(30), <1>1, <1>2 DEF Inv, TypeOK, Told, Remembered, Forgotten, Call, server, Xids
<1>9. ExecutedOnce'
  BY <1>1, <1>2 DEF Inv, TypeOK, Told, ExecutedOnce, Call, server, Xids
<1>10. WindowOf(xid_rep_window_, Finished)'
  BY <1>6 DEF Inv, Call, WindowOf, IsFront
<1>11. QED BY <1>4, <1>5, <1>7, <1>8, <1>9, <1>10 DEF Inv, Call, server

\* What is common to the steps that finish a call: GotPdu, Return and TimesOut
LEMMA FinishInv ==
  ASSUME Inv, NEW x \in Xids, NEW r \in Rets \ {"none"},
         x < xid_, calls_' \subseteq calls_,
         \A y \in calls_ : y # x => y \in calls_',
         xid_rep_window_' = UpdateXidRep(xid_rep_window_, x),
         ret' = IF x \in calls_ /\ ret[x] = "none"
                THEN [ret EXCEPT ![x] = r] ELSE ret,
         bind_done_' \in BOOLEAN, srv_nonce_' \in 0..nonce_,
         UNCHANGED <<xid_, request, server>>
  PROVE  Inv'
<1> USE BoundAssumption DEF Xids
<1>1. Finished' = Finished \union {x}
  BY DEF Inv, TypeOK, Told, Finished
<1>2. Finished \in SUBSET (1..xid_-1) /\ x \in 1..xid_-1 /\ xid_-1 \in Nat
  BY DEF Inv, TypeOK, Told, Finished
<1>3. /\ xid_rep_window_' \in SUBSET (0..xid_-1)
      /\ WindowOf(xid_rep_window_', Finished')
  BY <1>1, <1>2, UpdateExact DEF Inv, TypeOK
<1>4. TypeOK'
  BY <1>3 DEF Inv, TypeOK, server
<1>5. Told'
  BY DEF Inv, TypeOK, Told, server
<1>6. RequestsHonest'
  BY <1>1 DEF Inv, RequestsHonest
<1>7. Remembered'
  BY DEF Inv, TypeOK, Remembered, Forgotten, server
<1>8. ExecutedOnce' /\ (reply_window_ \subseteq running \union cb_present)'
  BY DEF Inv, ExecutedOnce, server
<1>9. WindowOf(xid_rep_window_, Finished)'
  BY <1>3 DEF WindowOf, IsFront
<1>10. QED BY <1>4, <1>5, <1>6, <1>7, <1>8, <1>9 DEF Inv

LEMMA GotPduInv == ASSUME Inv, NEW m \in replies, GotPdu(m) PROVE Inv'
<1>1. m.xid \in 1..xid_-1 /\ m.ret \in Rets \ {"none"} /\ xid_ \in 1..MaxXid+1
  BY DEF Inv, TypeOK, Told
<1>2. m.xid \in Xids /\ m.xid < xid_
  BY <1>1, BoundAssumption DEF Xids
<1>3. ret' = IF m.xid \in calls_ /\ ret[m.xid] = "none"
             THEN [ret EXCEPT ![m.xid] = m.ret] ELSE ret
  BY <1>2 DEF Inv, TypeOK, GotPdu
<1>4. bind_done_' \in BOOLEAN /\ srv_nonce_' \in 0..nonce_
  BY DEF Inv, TypeOK, GotPdu
<1>5. QED BY <1>1, <1>2, <1>3, <1>4, FinishInv DEF GotPdu

LEMMA ReturnInv == ASSUME Inv, NEW x \in Xids, Return(x) PROVE Inv'
<1>1. x < xid_ /\ ret[x] \in Rets \ {"none"}
  BY BoundAssumption DEF Inv, TypeOK, Return, Xids
<1>2. bind_done_' \in BOOLEAN /\ srv_nonce_' \in 0..nonce_
  <2>1. CASE request[x].srv = 0 /\ ret[x] = "ok"
    <3>1. PICK m \in replies : srv_nonce_' = m.nonce
      BY <2>1 DEF Return
    <3>2. m.nonce \in 1..nonce_ /\ nonce_ \in Int
      BY <3>1 DEF Inv, TypeOK
    <3>3. QED BY <2>1, <3>1, <3>2 DEF Return
  <2>2. CASE ~(request[x].srv = 0 /\ ret[x] = "ok")
    BY <2>2 DEF Inv, TypeOK, Return
  <2>3. QED BY <2>1, <2>2
<1>3. QED BY <1>1, <1>2, FinishInv DEF Return

LEMMA TimesOutInv == ASSUME Inv, NEW x \in Xids, TimesOut(x) PROVE Inv'
<1>1. x < xid_ /\ "timeout_failure" \in Rets \ {"none"}
  BY BoundAssumption DEF Inv, TypeOK, TimesOut, Xids, Rets
<1>2. bind_done_' \in BOOLEAN /\ srv_nonce_' \in 0..nonce_
  BY DEF Inv, TypeOK, TimesOut
<1>3. QED BY <1>1, <1>2, FinishInv DEF TimesOut

\* A reply that is sent
LEMMA SendTyped ==
  ASSUME Inv, NEW x \in Xids, x < xid_, NEW r \in Rets \ {"none"}, Send(x, r)
  PROVE  /\ replies' \subseteq [xid : 1..xid_-1, ret : Rets, nonce : 1..nonce_]
         /\ \A m \in replies' : m.ret # "none"
BY BoundAssumption DEF Inv, TypeOK, Told, Send, Xids

\* A step of the server that only sends
LEMMA SendInv ==
  ASSUME Inv, NEW x \in Xids, x < xid_,
         NEW r \in Rets \ {"none"}, Send(x, r) \/ UNCHANGED replies,
         UNCHANGED <<client, nonce_, reply_window_, cb_present, running, executed>>
  PROVE  Inv'
<1>1. /\ replies' \subseteq [xid : 1..xid_-1, ret : Rets, nonce : 1..nonce_]
      /\ \A m \in replies' : m.ret # "none"
  BY SendTyped DEF Inv, TypeOK, Told
<1>2. TypeOK' /\ Told'
  BY <1>1 DEF Inv, TypeOK, Told, client
<1>3. (RequestsHonest /\ Remembered /\ ExecutedOnce)'
  BY DEF Inv, RequestsHonest, Remembered, ExecutedOnce, Forgotten, Finished, client
<1>4. WindowOf(xid_rep_window_, Finished)'
  BY DEF Inv, WindowOf, IsFront, Finished, client
<1>5. QED BY <1>2, <1>3, <1>4 DEF Inv

LEMMA OldServerInv == ASSUME Inv, NEW x \in Xids, OldServer(x) PROVE Inv'
BY SendInv DEF OldServer, Rets

LEMMA DispatchOldInv == ASSUME Inv, NEW x \in Xids, DispatchOld(x) PROVE Inv'
<1>1. "ok" \in Rets \ {"none"} /\ "atmostonce_failure" \in Rets \ {"none"}
  BY DEF Rets
<1>2. QED BY <1>1, SendInv DEF DispatchOld

LEMMA DispatchNewInv == ASSUME Inv, NEW x \in Xids, DispatchNew(x) PROVE Inv'
<1> USE BoundAssumption DEF Xids
<1> DEFINE rep == request[x].rep
<1>1. /\ reply_window_' = {y \in reply_window_ \union {x} : y >= rep}
      /\ cb_present' = {y \in cb_present : y >= rep}
      /\ reply_window_ \subseteq 1..xid_-1 /\ cb_present \subseteq reply_window_
      /\ rep \in Int /\ x \in 1..xid_-1
  <2>1. /\ reply_window_ \subseteq 1..xid_-1 /\ cb_present \subseteq reply_window_
        /\ rep \in 0..MaxXid /\ x < xid_ /\ xid_ \in 1..MaxXid+1
    BY DEF Inv, TypeOK, DispatchNew
  <2>2. /\ x \in 1..xid_-1 /\ rep \in Int
        /\ \A y \in reply_window_ \union {x} : y \in Int
    BY <2>1
  <2>3. /\ reply_window_' = {y \in reply_window_ \union {x} : ~(y < rep)}
        /\ cb_present' = {y \in cb_present : ~(y < rep)}
    BY <2>1 DEF DispatchNew, Deleted
  <2>4. \A y \in reply_window_ \union {x} : ~(y < rep) <=> y >= rep
    BY <2>2
  <2>5. QED BY <2>1, <2>2, <2>3, <2>4
<1>2. rep < x /\ 1..rep \subseteq Finished
  BY DEF Inv, RequestsHonest, DispatchNew
<1>3. x \in reply_window_'
  BY <1>1, <1>2
<1>4. request[x].srv # 0 => executed[x] = 0
  BY DEF Inv, TypeOK, Remembered, DispatchNew, Addressed
<1>5. TypeOK'
  <2>1. UNCHANGED <<client, nonce_, replies>> /\ running' = running \union {x}
    BY DEF DispatchNew
  <2>2. reply_window_' \subseteq 1..xid_-1 /\ cb_present' \subseteq reply_window_'
    BY <1>1
  <2>3. running' \subseteq 1..xid_-1
    BY <1>1, <2>1 DEF Inv, TypeOK
  <2>4. executed' \in [Xids -> Nat]
    BY DEF Inv, TypeOK, DispatchNew
  <2>5. QED BY <2>1, <2>2, <2>3, <2>4 DEF Inv, TypeOK, client
<1>6. Told'
  BY <1>1 DEF Inv, TypeOK, Told, DispatchNew, client
<1>7. RequestsHonest'
  BY DEF Inv, RequestsHonest, DispatchNew, client, Finished
<1>8. ExecutedOnce'
  BY <1>4 DEF Inv, TypeOK, ExecutedOnce, DispatchNew, client
<1>9. Remembered'
  <2>1. SUFFICES ASSUME NEW z \in Xids, request[z].srv = nonce_, executed'[z] > 0
                 PROVE  /\ z \in reply_window_' \/ Forgotten(z)'
                        /\ ret[z] = "none" => z \in reply_window_'
    BY DEF Remembered, DispatchNew, client
  <2>2. CASE z = x
    BY <1>3, <2>2
  <2>3. CASE z # x
    <3>1. executed[z] > 0
      BY <2>1, <2>3 DEF Inv, TypeOK, DispatchNew
    <3>2. /\ z \in reply_window_ \/ Forgotten(z)
          /\ ret[z] = "none" => z \in reply_window_
      BY <2>1, <3>1 DEF Inv, Remembered
    <3>3. CASE z \in reply_window_
      <4>1. CASE z >= rep
        BY <1>1, <3>3, <4>1
      <4>2. CASE z < rep
        <5>1. ret[z] # "none"
          BY <1>1, <1>2, <4>2 DEF Finished
        <5>2. Forgotten(z)'
          BY <1>1, <1>3, <4>2 DEF Forgotten
        <5>3. QED BY <5>1, <5>2
      <4>3. QED BY <1>1, <4>1, <4>2
    <3>4. CASE Forgotten(z)
      <4>1. z < x
        BY <1>1, <3>4 DEF DispatchNew, Forgotten
      <4>2. Forgotten(z)'
        BY <1>1, <1>3, <3>4, <4>1 DEF Forgotten
      <4>3. ret[z] # "none"
        BY <3>2, <3>4 DEF Forgotten
      <4>4. QED BY <4>2, <4>3
    <3>5. QED BY <3>2, <3>3, <3>4
  <2>4. QED BY <2>2, <2>3
<1>10. WindowOf(xid_rep_window_, Finished)'
  BY DEF Inv, WindowOf, IsFront, Finished, DispatchNew, client
<1>11. (reply_window_ \subseteq running \union cb_present)'
  BY <1>1 DEF Inv, DispatchNew
<1>12. QED BY <1>5, <1>6, <1>7, <1>8, <1>9, <1>10, <1>11 DEF Inv

LEMMA ReplyInv == ASSUME Inv, NEW x \in Xids, Reply(x) PROVE Inv'
<1>1. x < xid_ /\ "ok" \in Rets \ {"none"}
  BY BoundAssumption DEF Inv, TypeOK, Reply, Rets, Xids
<1>2. /\ replies' \subseteq [xid : 1..xid_-1, ret : Rets, nonce : 1..nonce_]
      /\ \A m \in replies' : m.ret # "none"
  BY <1>1, SendTyped DEF Reply
<1>3. TypeOK' /\ Told'
  BY <1>2 DEF Inv, TypeOK, Told, Reply, Recorded, client
<1>4. (RequestsHonest /\ Remembered /\ ExecutedOnce)'
  BY DEF Inv, RequestsHonest, Remembered, ExecutedOnce, Forgotten, Finished, Reply, client
<1>5. WindowOf(xid_rep_window_, Finished)'
  BY DEF Inv, WindowOf, IsFront, Finished, Reply, client
<1>6. (reply_window_ \subseteq running \union cb_present)'
  BY DEF Inv, Reply, Recorded
<1>7. QED BY <1>3, <1>4, <1>5, <1>6 DEF Inv

LEMMA RestartInv == ASSUME Inv, Restart PROVE Inv'
<1>1. TypeOK' /\ Told'
  BY BoundAssumption DEF Inv, TypeOK, Told, Restart, client
<1>2. Remembered'
  BY BoundAssumption DEF Inv, TypeOK, Remembered, Restart, client
<1>3. (RequestsHonest /\ ExecutedOnce)'
  BY DEF Inv, RequestsHonest, ExecutedOnce, Finished, Restart, client
<1>4. WindowOf(xid_rep_window_, Finished)'
  BY DEF Inv, WindowOf, IsFront, Finished, Restart, client
<1>5. QED BY <1>1, <1>2, <1>3, <1>4 DEF Inv, Restart

LEMMA StepInv == Inv /\ [Next]_vars => Inv'
<1> SUFFICES ASSUME Inv, [Next]_vars PROVE Inv'
  OBVIOUS
<1>1. CASE Next
  BY <1>1, CallInv, GotPduInv, ReturnInv, TimesOutInv, OldServerInv, DispatchNewInv,
     DispatchOldInv, ReplyInv, RestartInv DEF Next
<1>2. CASE UNCHANGED vars
  BY <1>2 DEF Inv, TypeOK, Told, RequestsHonest, Remembered, ExecutedOnce, WindowOf,
              IsFront, Finished, Forgotten, vars, client, server
<1>3. QED BY <1>1, <1>2

-----------------------------------------------------------------------------
(* What the invariant says of the properties *)

LEMMA InvImplies == Inv => TypeOK /\ AtMostOnce /\ ReplyKept /\ XidRepExact
<1> SUFFICES ASSUME Inv PROVE AtMostOnce /\ ReplyKept /\ XidRepExact
  BY DEF Inv
<1>1. AtMostOnce
  BY DEF Inv, TypeOK, ExecutedOnce, AtMostOnce
<1>2. ReplyKept
  BY BoundAssumption DEF Inv, TypeOK, Remembered, ReplyKept, Xids
<1>3. XidRepExact
  <2>1. xid_rep_window_ # {} /\ xid_rep_window_ \subseteq Int
    BY DEF Inv, TypeOK, WindowOf
  <2>2. QED BY <2>1, FrontFinished DEF Inv, XidRepExact
<1>4. QED BY <1>1, <1>2, <1>3

LEMMA Invariance == Spec => []Inv
<1>1. QED BY InitInv, StepInv, PTL DEF Spec

-----------------------------------------------------------------------------
(* Nobody is refused whose call was not executed *)

\* rpcc binds once: the first call, and only that, is a bind, and all later calls
\* carry the nonce that came back with it.
BoundOnce ==
  /\ bind_done_ => srv_nonce_ > 0 /\ 1 \notin calls_ /\ xid_ > 1
  /\ ~bind_done_ => xid_ <= 2 /\ srv_nonce_ = 0
  /\ \A x \in Xids : x < xid_ => request[x].srv = IF x = 1 THEN 0 ELSE srv_nonce_

\* An instance of the server that has answered a bind remembers something.
AnsweredRemembers ==
  /\ running # {} => reply_window_ # {}
  /\ \A m \in replies : m.ret = "ok" /\ m.nonce = nonce_ => reply_window_ # {}
  /\ srv_nonce_ = nonce_ => reply_window_ # {}

\* What the server remembers, works at or has answered has been executed, and it
\* turns away only requests for an earlier instance.
AnsweredExecuted ==
  /\ \A y \in reply_window_ \union running : executed[y] > 0
  /\ \A m \in replies :
       /\ m.ret = "ok" => executed[m.xid] > 0
       /\ m.ret = "oldsrv_failure" => request[m.xid].srv \in 1 .. nonce_-1
       /\ m.ret # "timeout_failure"

\* What callers have been told is what the server has answered.
ToldAnswers ==
  \A x \in Xids :
    /\ ret[x] = "ok" => executed[x] > 0
    /\ ret[x] = "oldsrv_failure" => request[x].srv \in 1 .. nonce_-1

Patient == \A x \in Xids : ret[x] # "timeout_failure"

\* While nobody has given up, all calls up to the first one that is remembered are
\* executed, so that those that are refused are.
FrontExecuted ==
  /\ \A n \in reply_window_ : IsFront(n, reply_window_) =>
       \A y \in 1..n : executed[y] > 0
  /\ \A m \in replies : m.ret = "atmostonce_failure" => executed[m.xid] > 0
  /\ RefusedWasExecuted

AnswerInv ==
  /\ BoundOnce /\ AnsweredRemembers /\ AnsweredExecuted /\ ToldAnswers
  /\ Patient => FrontExecuted

LEMMA InitAnswer == Init => AnswerInv
BY BoundAssumption
   DEF Init, AnswerInv, BoundOnce, AnsweredRemembers, AnsweredExecuted, ToldAnswers,
       FrontExecuted, RefusedWasExecuted, Xids

LEMMA CallAnswer == ASSUME Inv, AnswerInv, Call PROVE AnswerInv'
<1>1. /\ UNCHANGED <<ret, bind_done_, srv_nonce_, nonce_, reply_window_, running,
                      replies, executed>>
      /\ calls_' = calls_ \union {xid_} /\ xid_' = xid_ + 1
      /\ xid_ \in Xids /\ (bind_done_ \/ xid_ = 1)
  BY DEF Call, server, Inv, TypeOK, Xids
<1>2. request'[xid_].srv = srv_nonce_ /\ \A x \in Xids : x # xid_ => request'[x] = request[x]
  <2>1. PICK n : request' = [request EXCEPT ![xid_] = [rep |-> n, srv |-> srv_nonce_]]
    BY DEF Call
  <2>2. request \in [Xids -> [rep : 0 .. MaxXid, srv : 0 .. nonce_]]
    BY DEF Inv, TypeOK
  <2>3. QED BY <1>1, <2>1, <2>2
<1>3. BoundOnce'
  BY <1>1, <1>2 DEF AnswerInv, BoundOnce, Xids
<1>4. \A m \in replies : m.xid \in Xids /\ m.xid # xid_
  <2>1. \A m \in replies : m.xid \in 1 .. xid_-1
    BY DEF Inv, TypeOK
  <2>2. QED BY <1>1, <2>1, BoundAssumption DEF Xids
<1>5. (AnsweredRemembers /\ AnsweredExecuted)'
  BY <1>1, <1>2, <1>4 DEF AnswerInv, AnsweredRemembers, AnsweredExecuted
<1>6. ret[xid_] = "none"
  <2>1. \A x \in Xids : x >= xid_ => ret[x] = "none"
    BY DEF Inv, Told
  <2>2. QED BY <1>1, <2>1 DEF Xids
<1>7. ToldAnswers'
  BY <1>1, <1>2, <1>6 DEF AnswerInv, ToldAnswers
<1>8. Patient' => FrontExecuted'
  BY <1>1 DEF AnswerInv, Patient, FrontExecuted, IsFront, RefusedWasExecuted
<1>9. QED BY <1>3, <1>5, <1>7, <1>8 DEF AnswerInv

LEMMA GotPduAnswer == ASSUME Inv, AnswerInv, NEW m \in replies, GotPdu(m) PROVE AnswerInv'
<1>1. UNCHANGED <<xid_, calls_, bind_done_, srv_nonce_, request, nonce_, reply_window_,
                  running, replies, executed>>
  BY DEF GotPdu, server
<1>2. \A x \in Xids : ret'[x] = IF x = m.xid /\ m.xid \in calls_ /\ ret[x] = "none"
                                THEN m.ret ELSE ret[x]
  BY DEF GotPdu, Inv, TypeOK
<1>3. (BoundOnce /\ AnsweredRemembers /\ AnsweredExecuted)'
  BY <1>1 DEF AnswerInv, BoundOnce, AnsweredRemembers, AnsweredExecuted
<1>4. ToldAnswers'
  BY <1>1, <1>2 DEF AnswerInv, AnsweredExecuted, ToldAnswers
<1>5. ASSUME Patient' PROVE FrontExecuted'
  <2>1. Patient
    BY <1>2, <1>5 DEF Patient
  <2>2. FrontExecuted
    BY <2>1 DEF AnswerInv
  <2>3. RefusedWasExecuted'
    BY <1>1, <1>2, <2>2 DEF FrontExecuted, RefusedWasExecuted
  <2>4. QED BY <1>1, <2>2, <2>3 DEF FrontExecuted, IsFront
<1>6. QED BY <1>3, <1>4, <1>5 DEF AnswerInv

LEMMA ReturnAnswer == ASSUME Inv, AnswerInv, NEW x \in Xids, Return(x) PROVE AnswerInv'
<1>1. /\ UNCHANGED <<xid_, ret, request, nonce_, reply_window_, running, replies, executed>>
      /\ calls_' = calls_ \ {x} /\ x \in calls_ /\ x \in 1 .. xid_-1
  BY DEF Return, server, Inv, TypeOK
<1>2. xid_ \in Int /\ 1 \in Xids
  BY BoundAssumption DEF Inv, TypeOK, Xids
<1>3. BoundOnce' /\ (srv_nonce_' = nonce_ => reply_window_ # {})
  <2>1. CASE request[x].srv = 0 /\ ret[x] = "ok"
    <3>1. PICK m \in replies : m.ret = "ok" /\ srv_nonce_' = m.nonce
      BY <2>1 DEF Return
    <3>2. bind_done_' = TRUE /\ m.nonce > 0
      BY <2>1, <3>1 DEF Return, Inv, TypeOK
    <3>3. x = 1 /\ ~bind_done_
      BY <1>1, <1>2, <2>1 DEF AnswerInv, BoundOnce
    <3>4. xid_ = 2
      BY <1>1, <1>2, <3>3 DEF AnswerInv, BoundOnce
    <3>5. \A y \in Xids : y < xid_ => y = 1
      BY <3>4 DEF Xids
    <3>6. BoundOnce'
      <4>1. srv_nonce_' > 0 /\ 1 \notin calls_' /\ xid_' > 1
        BY <1>1, <3>1, <3>2, <3>3, <3>4
      <4>2. request[1].srv = 0
        BY <1>2, <3>4 DEF AnswerInv, BoundOnce
      <4>3. \A y \in Xids : y < xid_' => y = 1 /\ request'[y].srv = 0
        BY <1>1, <3>5, <4>2
      <4>4. QED BY <3>2, <4>1, <4>3 DEF BoundOnce
    <3>7. QED BY <3>1, <3>6 DEF AnswerInv, AnsweredRemembers
  <2>2. CASE ~(request[x].srv = 0 /\ ret[x] = "ok")
    <3>1. UNCHANGED <<bind_done_, srv_nonce_>>
      BY <2>2 DEF Return
    <3>2. QED BY <1>1, <3>1 DEF AnswerInv, BoundOnce, AnsweredRemembers
  <2>3. QED BY <2>1, <2>2
<1>4. (AnsweredRemembers /\ AnsweredExecuted /\ ToldAnswers)'
  BY <1>1, <1>3 DEF AnswerInv, AnsweredRemembers, AnsweredExecuted, ToldAnswers
<1>5. Patient' => FrontExecuted'
  BY <1>1 DEF AnswerInv, Patient, FrontExecuted, IsFront, RefusedWasExecuted
<1>6. QED BY <1>3, <1>4, <1>5 DEF AnswerInv

LEMMA TimesOutAnswer == ASSUME Inv, AnswerInv, NEW x \in Xids, TimesOut(x) PROVE AnswerInv'
<1>1. /\ UNCHANGED <<xid_, bind_done_, srv_nonce_, request, nonce_, reply_window_,
                     running, replies, executed>>
      /\ calls_' \subseteq calls_
  BY DEF TimesOut, server
<1>2. \A y \in Xids : ret'[y] = IF y = x THEN "timeout_failure" ELSE ret[y]
  BY DEF TimesOut, Inv, TypeOK
<1>3. (BoundOnce /\ AnsweredRemembers /\ AnsweredExecuted)'
  BY <1>1 DEF AnswerInv, BoundOnce, AnsweredRemembers, AnsweredExecuted
<1>4. ToldAnswers'
  BY <1>1, <1>2 DEF AnswerInv, ToldAnswers
<1>5. ~Patient'
  BY <1>2 DEF Patient
<1>6. QED BY <1>3, <1>4, <1>5 DEF AnswerInv

\* A step of the server that sends an answer, and starts no handler
LEMMA SendAnswer ==
  ASSUME Inv, AnswerInv, NEW x \in Xids, NEW r \in Rets,
         Send(x, r) \/ UNCHANGED replies,
         r = "ok" => executed[x] > 0 /\ reply_window_ # {},
         r = "oldsrv_failure" => request[x].srv \in 1 .. nonce_-1,
         r = "atmostonce_failure" /\ Patient => executed[x] > 0,
         r # "timeout_failure", running' \subseteq running,
         UNCHANGED <<client, nonce_, reply_window_, executed>>
  PROVE  AnswerInv'
<1>1. \A m \in replies' : m \in replies \/ (m.xid = x /\ m.ret = r)
  <2>1. CASE Send(x, r)
    BY <2>1 DEF Send
  <2>2. CASE UNCHANGED replies
    BY <2>2
  <2>3. QED BY <2>1, <2>2
<1>2. UNCHANGED <<xid_, calls_, ret, bind_done_, srv_nonce_, request>>
  BY DEF client
<1>3. BoundOnce' /\ ToldAnswers'
  BY <1>2 DEF AnswerInv, BoundOnce, ToldAnswers
<1>4. AnsweredRemembers'
  BY <1>1, <1>2 DEF AnswerInv, AnsweredRemembers
<1>5. AnsweredExecuted'
  BY <1>1, <1>2 DEF AnswerInv, AnsweredExecuted
<1>6. ASSUME Patient' PROVE FrontExecuted'
  <2>1. Patient /\ FrontExecuted
    BY <1>2, <1>6 DEF Patient, AnswerInv
  <2>2. QED BY <1>1, <1>2, <2>1 DEF FrontExecuted, IsFront, RefusedWasExecuted
<1>7. QED BY <1>3, <1>4, <1>5, <1>6 DEF AnswerInv

LEMMA OldServerAnswer == ASSUME Inv, AnswerInv, NEW x \in Xids, OldServer(x) PROVE AnswerInv'
<1>1. request[x].srv \in 1 .. nonce_-1
  BY DEF Inv, TypeOK, OldServer, Addressed
<1>2. QED BY <1>1, SendAnswer DEF OldServer, Rets

LEMMA LeastRemembered ==
  ASSUME TypeOK, reply_window_ # {}
  PROVE  \E n \in reply_window_ : n \in Nat /\ n > 0 /\ IsFront(n, reply_window_)
<1>1. reply_window_ \in SUBSET Nat /\ \A n \in reply_window_ : n > 0
  BY DEF TypeOK
<1>2. QED BY <1>1, LeastElement DEF IsFront

LEMMA DispatchOldAnswer ==
  ASSUME Inv, AnswerInv, NEW x \in Xids, DispatchOld(x) PROVE AnswerInv'
<1>1. UNCHANGED <<client, nonce_, reply_window_, running, executed>>
  BY DEF DispatchOld
<1>2. CASE Done(x) /\ Send(x, "ok")
  <2>1. executed[x] > 0 /\ reply_window_ # {}
    BY <1>2 DEF Done, Inv, TypeOK, AnswerInv, AnsweredExecuted
  <2>2. QED BY <1>1, <1>2, <2>1, SendAnswer DEF Rets
<1>3. CASE Forgotten(x) /\ Send(x, "atmostonce_failure")
  <2>1. ASSUME Patient PROVE executed[x] > 0
    <3>1. PICK n \in reply_window_ : n \in Nat /\ IsFront(n, reply_window_)
      BY <1>3, LeastRemembered DEF Inv, Forgotten
    <3>2. x \in 1..n
      BY <1>3, <3>1 DEF Forgotten, Xids
    <3>3. QED BY <2>1, <3>1, <3>2 DEF AnswerInv, FrontExecuted
  <2>2. QED BY <1>1, <1>3, <2>1, SendAnswer DEF Rets
<1>4. CASE InProgress(x) /\ UNCHANGED replies
  BY <1>1, <1>4, SendAnswer DEF Rets, InProgress
<1>5. QED BY <1>2, <1>3, <1>4 DEF DispatchOld

LEMMA ReplyAnswer == ASSUME Inv, AnswerInv, NEW x \in Xids, Reply(x) PROVE AnswerInv'
<1>1. executed[x] > 0 /\ reply_window_ # {}
  BY DEF Reply, AnswerInv, AnsweredExecuted, AnsweredRemembers
<1>2. QED BY <1>1, SendAnswer DEF Reply, Rets

\* A request that this instance has not seen: what its xid_rep covers is executed.
LEMMA CoveredExecuted ==
  ASSUME Inv, AnswerInv, Patient, NEW x \in Xids, x < xid_, Addressed(x),
         NEW y \in 1..request[x].rep
  PROVE  y \in Xids /\ executed[y] > 0 /\ request[y].srv \in {0, nonce_}
<1>1. request[x].rep < x /\ request[x].rep \in Int /\ y \in Finished /\ xid_ \in Int
  BY DEF Inv, RequestsHonest, TypeOK
<1>2. y \in Xids /\ y < x /\ y < xid_ /\ x # 1 /\ x \in Int /\ y \in Int
  BY <1>1, BoundAssumption DEF Xids
<1>3. request[x].srv = srv_nonce_ /\ request[y].srv = IF y = 1 THEN 0 ELSE srv_nonce_
  BY <1>2 DEF AnswerInv, BoundOnce
<1>4. request[y].srv \in {0, nonce_} /\ nonce_ \in Int
  BY <1>3 DEF Addressed, Inv, TypeOK
<1>5. ret[y] \in {"ok", "atmostonce_failure", "oldsrv_failure"}
  BY <1>1, <1>2 DEF Finished, Patient, Inv, TypeOK, Rets
<1>6. ret[y] # "oldsrv_failure"
  BY <1>2, <1>4 DEF AnswerInv, ToldAnswers
<1>7. executed[y] > 0
  BY <1>2, <1>5, <1>6 DEF AnswerInv, ToldAnswers, FrontExecuted, RefusedWasExecuted
<1>8. QED BY <1>2, <1>4, <1>7

LEMMA DispatchNewAnswer ==
  ASSUME Inv, AnswerInv, NEW x \in Xids, DispatchNew(x) PROVE AnswerInv'
<1> DEFINE rep == request[x].rep
<1>1. /\ UNCHANGED <<xid_, calls_, ret, bind_done_, srv_nonce_, request, nonce_, replies>>
      /\ running' = running \union {x} /\ x < xid_ /\ Addressed(x)
      /\ x \notin reply_window_ /\ ~Forgotten(x)
  BY DEF DispatchNew, client
<1>2. \A y \in Xids : executed'[y] = IF y = x THEN executed[y] + 1 ELSE executed[y]
  BY DEF DispatchNew, Inv, TypeOK
<1>3. \A y \in Xids : executed[y] \in Nat
  BY DEF Inv, TypeOK
<1>4. executed'[x] > 0 /\ \A y \in Xids : executed[y] > 0 => executed'[y] > 0
  BY <1>2, <1>3
<1>5. /\ rep \in Nat /\ rep < x /\ x \in Nat /\ x > 0
      /\ reply_window_ \subseteq Nat /\ reply_window_ \subseteq Xids
  <2>1. rep \in 0 .. MaxXid /\ rep < x
    BY <1>1 DEF Inv, TypeOK, RequestsHonest
  <2>2. reply_window_ \subseteq 1 .. xid_-1 /\ xid_ \in 1 .. MaxXid+1
    BY DEF Inv, TypeOK
  <2>3. QED BY <2>1, <2>2, BoundAssumption DEF Xids
<1>6. \A y : y \in reply_window_' <=> y \in reply_window_ \union {x} /\ ~(y < rep)
  BY DEF DispatchNew, Deleted
<1>7. x \in reply_window_'
  BY <1>5, <1>6
<1>8. BoundOnce' /\ AnsweredRemembers'
  BY <1>1, <1>7 DEF AnswerInv, BoundOnce, AnsweredRemembers
<1>9. \A m \in replies : m.xid \in Xids
  BY BoundAssumption DEF Inv, TypeOK, Xids
<1>10. AnsweredExecuted'
  <2>1. running \subseteq Xids
    BY BoundAssumption DEF Inv, TypeOK, Xids
  <2>2. \A y \in reply_window_' \union running' : executed'[y] > 0
    BY <1>1, <1>4, <1>5, <1>6, <2>1 DEF AnswerInv, AnsweredExecuted
  <2>3. QED BY <1>1, <1>4, <1>9, <2>2 DEF AnswerInv, AnsweredExecuted
<1>11. ToldAnswers'
  BY <1>1, <1>4 DEF AnswerInv, ToldAnswers
<1>12. ASSUME Patient' PROVE FrontExecuted'
  <2>1. Patient /\ FrontExecuted
    BY <1>1, <1>12 DEF Patient, AnswerInv
  <2>2. ASSUME NEW n \in reply_window_', IsFront(n, reply_window_'), NEW y \in 1..n
        PROVE  executed'[y] > 0
    <3>1. n \in Nat /\ n <= x /\ rep <= n /\ n \in Xids
      <4>1. n \in reply_window_ \union {x} /\ ~(n < rep)
        BY <1>6, <2>2
      <4>2. n <= x
        BY <1>7, <2>2 DEF IsFront
      <4>3. n \in Nat /\ n \in Xids
        BY <1>5, <4>1
      <4>4. QED BY <1>5, <4>1, <4>2, <4>3
    <3>2. y \in Xids /\ y <= n
      BY <3>1, BoundAssumption DEF Xids
    <3>3. SUFFICES ASSUME y # x PROVE executed[y] > 0
      BY <1>4, <3>2
    <3>4. CASE y <= rep
      <4>1. y \in 1..rep
        BY <1>5, <3>4
      <4>2. QED BY <1>1, <2>1, <4>1, CoveredExecuted
    <3>5. CASE y > rep
      <4>1. n > rep /\ x > 1 /\ request[x].srv = srv_nonce_ /\ srv_nonce_ = nonce_
        <5>1. y \in Nat /\ y > 0 /\ y > rep /\ y <= n
          BY <3>2, <3>5 DEF Xids
        <5>2. n > rep /\ x > 1
          BY <1>5, <3>1, <3>3, <5>1
        <5>3. /\ request[x].srv = srv_nonce_ /\ xid_ > 2
              /\ request[x].srv \in {0, nonce_}
          BY <1>1, <1>5, <5>2 DEF AnswerInv, BoundOnce, Addressed, Inv, TypeOK
        <5>4. srv_nonce_ # 0
          BY <5>3 DEF AnswerInv, BoundOnce, Inv, TypeOK
        <5>5. QED BY <5>2, <5>3, <5>4
      <4>2. reply_window_ # {}
        BY <4>1 DEF AnswerInv, AnsweredRemembers
      <4>3. PICK f \in reply_window_ : f \in Nat /\ f > 0 /\ IsFront(f, reply_window_)
        BY <4>2, LeastRemembered DEF Inv
      <4>4. \A k \in 1..f : executed[k] > 0
        BY <2>1, <4>3 DEF FrontExecuted
      <4>5. CASE f >= rep
        <5>1. n <= f
          BY <1>5, <1>6, <2>2, <4>3, <4>5 DEF IsFront
        <5>2. QED BY <3>1, <3>2, <4>3, <4>4, <5>1 DEF Xids
      <4>6. CASE f < rep
        <5>1. rep > 1 /\ rep \in 1..rep
          BY <1>5, <4>3, <4>6
        <5>2. executed[rep] > 0 /\ rep \in Xids
          BY <1>1, <2>1, <5>1, CoveredExecuted
        <5>3. request[rep].srv = nonce_
          BY <1>1, <1>5, <4>1, <5>1, <5>2 DEF AnswerInv, BoundOnce, Inv, TypeOK
        <5>4. rep \in reply_window_
          BY <4>3, <4>6, <5>2, <5>3, <1>5 DEF Inv, Remembered, Forgotten
        <5>5. rep \in reply_window_'
          BY <1>5, <1>6, <5>4
        <5>6. QED BY <1>5, <2>2, <3>1, <4>1, <5>5 DEF IsFront
      <4>7. QED BY <1>5, <4>3, <4>5, <4>6
    <3>6. QED BY <1>5, <3>2, <3>4, <3>5 DEF Xids
  <2>3. QED BY <1>1, <1>4, <1>9, <2>1, <2>2 DEF FrontExecuted, RefusedWasExecuted
<1>13. QED BY <1>8, <1>10, <1>11, <1>12 DEF AnswerInv

LEMMA RestartAnswer == ASSUME Inv, AnswerInv, Restart PROVE AnswerInv'
<1>1. /\ UNCHANGED <<xid_, calls_, ret, bind_done_, srv_nonce_, request, replies, executed>>
      /\ nonce_' = nonce_ + 1 /\ reply_window_' = {} /\ running' = {}
  BY DEF Restart, client
<1>2. nonce_ \in Int /\ srv_nonce_ \in 0..nonce_ /\ \A m \in replies : m.nonce \in 1..nonce_
  BY DEF Inv, TypeOK
<1>3. (BoundOnce /\ AnsweredRemembers)'
  BY <1>1, <1>2 DEF AnswerInv, BoundOnce, AnsweredRemembers
<1>4. \A k : k \in 1 .. nonce_-1 => k \in 1 .. nonce_'-1
  BY <1>1, <1>2
<1>5. (AnsweredExecuted /\ ToldAnswers)'
  BY <1>1, <1>4 DEF AnswerInv, AnsweredExecuted, ToldAnswers
<1>6. Patient' => FrontExecuted'
  BY <1>1 DEF AnswerInv, Patient, FrontExecuted, RefusedWasExecuted
<1>7. QED BY <1>3, <1>5, <1>6 DEF AnswerInv

LEMMA AnswerStep == Inv /\ AnswerInv /\ [Next]_vars => AnswerInv'
<1> SUFFICES ASSUME Inv, AnswerInv, [Next]_vars PROVE AnswerInv'
  OBVIOUS
<1>1. CASE Next
  BY <1>1, CallAnswer, GotPduAnswer, ReturnAnswer, TimesOutAnswer, OldServerAnswer,
     DispatchNewAnswer, DispatchOldAnswer, ReplyAnswer, RestartAnswer DEF Next
<1>2. CASE UNCHANGED vars
  BY <1>2 DEF AnswerInv, BoundOnce, AnsweredRemembers, AnsweredExecuted, ToldAnswers,
              Patient, FrontExecuted, RefusedWasExecuted, IsFront, vars, client, server
<1>3. QED BY <1>1, <1>2

LEMMA AnswerInvariance == Spec => []AnswerInv
<1>1. QED BY InitAnswer, AnswerStep, Invariance, PTL DEF Spec

-----------------------------------------------------------------------------
(* The theorems *)

\* The state of rpcc and rpcs has its types.
THEOREM TypeCorrect == Spec => []TypeOK
<1>1. QED BY Invariance, InvImplies, PTL

\* rpc.cc:9: no call but a bind is executed twice, however often its request
\* arrives and in whatever order, and whatever the server's restarts.
THEOREM NeverTwice == Spec => []AtMostOnce
<1>1. QED BY Invariance, InvImplies, PTL

\* checkduplicate_and_update never deletes a reply that may be asked for again.
THEOREM RepliesKept == Spec => []ReplyKept
<1>1. QED BY Invariance, InvImplies, PTL

\* update_xid_rep: what a request says is finished is finished, and no less.
THEOREM WindowExact == Spec => []XidRepExact
<1>1. QED BY Invariance, InvImplies, PTL

\* checkduplicate_and_update refuses only what was executed, as long as no caller
\* gives up: the front of the window that a request carries covers finished calls
\* only, and the first call that is remembered lies at it or before it.
THEOREM PatientServed == Spec => []PatientNotRefused
<1>1. AnswerInv => PatientNotRefused
  BY DEF AnswerInv, FrontExecuted, Patient, PatientNotRefused
<1>2. QED BY <1>1, AnswerInvariance, PTL
=============================================================================
