--------------------------- MODULE ConnectionProof ---------------------------
(***************************************************************************)
(* A connection keeps its PDUs whole, tells its senders the truth, wakes   *)
(* them and is deleted when nobody uses it, for any number of senders, any *)
(* size of a PDU and any socket.                                           *)
(***************************************************************************)
EXTENDS Connection, TLAPS, FiniteSetTheorems, SequenceTheorems

-----------------------------------------------------------------------------
(* The inductive invariant *)

Places == {"idle", "ready", "turn", "complete", "failed",
           "removing", "removed", "closed", "sent", "done"}

PollPlaces == {"head", "wait", "select", "read", "reading", "write", "writing"}

\* The thread is between finding the connection dead, or killing it, and decref.
EndPlaces == {"failed", "removing", "removed", "closed"}
ClosePlaces == {"failed", "removing", "removed"}

TypeConn ==
  /\ dead \in BOOLEAN /\ rpdu \in 0..2
  /\ wpdu \in [buf : Senders \cup {Nobody}, sz : {0, PduSize}, solong : -1..PduSize]
TypePoll ==
  /\ watched \subseteq {"rd", "wr"} /\ callback \in BOOLEAN
  /\ pending_change \in BOOLEAN /\ pipe \in Nat
  /\ poll \in [at : PollPlaces, rd : BOOLEAN, wr : BOOLEAN]
TypeThreads ==
  /\ thread \in [Threads -> Places] /\ awake \subseteq Senders
  /\ result \in [Senders -> {"none", "sent", "failed"}]
TypeSocket ==
  /\ stream \in Seq(Senders \X (1..PduSize)) /\ taken \in 0..Len(stream)
  /\ incoming \in 0..arrived /\ arrived \in 0..MaxIncoming
  /\ shut \in BOOLEAN /\ gone \in BOOLEAN

\* The owner has its reference until decref, and it lets go of the connection, or
\* begins to close it, only when the connection is dead.
OwnerRole ==
  /\ thread[Owner] \in EndPlaces \cup {"idle", "done"}
  /\ thread[Owner] \in EndPlaces => owned
  /\ thread[Owner] = "done" => ~owned
  /\ ~owned \/ thread[Owner] # "idle" => dead

\* The buffer belongs to the one sender that is in the middle of send().
Holder ==
  /\ \A s \in Senders : thread[s] \in EndPlaces => dead /\ wpdu.buf = s
  /\ \A s \in Senders : thread[s] = "complete" => wpdu.buf = s
  /\ wpdu.buf # Nobody => thread[wpdu.buf] \in EndPlaces \cup {"complete"}

\* While the connection lives and a PDU is under way, the poll thread will go on
\* with it.
Alive ==
  ~dead => \/ wpdu = NoPdu
           \/ /\ wpdu.buf # Nobody /\ wpdu.sz = PduSize /\ wpdu.solong >= 0
              /\ "wr" \in watched /\ callback

\* A dead connection is still called back only while somebody is removing it.
Removing == dead /\ callback => \E t \in Threads : thread[t] \in ClosePlaces

Users == {s \in Senders : thread[s] \notin {"idle", "done"}}
Counted ==
  /\ deleted \in BOOLEAN /\ owned \in BOOLEAN
  /\ refno = Cardinality(Users) + (IF owned THEN 1 ELSE 0)
  /\ deleted <=> refno = 0

\* Every piece has its place in its PDU, and what is written of the last PDU is
\* what the buffer says as long as the connection lives.
InPlace(st) ==
  \A i \in 1..Len(st) :
    /\ ((i - 1) % PduSize) + 1 = st[i][2]
    /\ st[i][2] # 1 => st[i][1] = st[i - 1][1]
EndsWith(st, s, k) ==
  /\ Len(st) % PduSize = (IF k = PduSize THEN 0 ELSE k)
  /\ k > 0 => Len(st) > 0 /\ st[Len(st)] = <<s, k>>
Written == InPlace(stream) /\ (~dead => EndsWith(stream, wpdu.buf, wpdu.solong))

Types == TypeConn /\ TypePoll /\ TypeThreads /\ TypeSocket /\ aborted \in BOOLEAN
Roles == OwnerRole /\ Holder /\ Alive /\ Removing /\ Counted
Inv == Types /\ Roles /\ Written /\ SendTellsTheTruth /\ NobodyForgotten

\* Where the poll thread is while block_remove_fd waits for it: it watches nothing,
\* and once it has woken the thread it finds nothing ready.  Unless a wait returns
\* spuriously, the entry that the poll thread has tested is there when it calls.
Unready == poll.at \in {"head", "wait", "select"} /\ ~poll.rd /\ ~poll.wr
Away ==
  /\ spurious \in BOOLEAN
  /\ poll.at \in {"head", "wait"} => ~poll.rd /\ ~poll.wr
  /\ \A t \in Threads : thread[t] \in {"removing", "removed"} => watched = {}
  /\ ~spurious =>
       /\ \A t \in Threads : thread[t] = "removed" => Unready
       /\ poll.at \in {"reading", "writing"} => callback

-----------------------------------------------------------------------------
(* Arithmetic of the pieces *)

LEMMA ModUnique ==
  ASSUME NEW p \in Nat \ {0}, NEW q \in Int, NEW r \in 0..p-1
  PROVE  (p*q + r) % p = r
OBVIOUS

LEMMA ModQuotient ==
  ASSUME NEW p \in Nat \ {0}, NEW x \in Nat
  PROVE  x % p \in 0..p-1 /\ \E q \in Int : x = p*q + (x % p)
<1>1. x = p * (x \div p) + (x % p) /\ x \div p \in Int
  OBVIOUS
<1>2. x % p \in 0..p-1
  OBVIOUS
<1>3. QED BY <1>1, <1>2

LEMMA ModAdd ==
  ASSUME NEW p \in Nat \ {0}, NEW x \in Nat, NEW n \in Nat, (x % p) + n <= p
  PROVE  (x + n) % p = IF (x % p) + n = p THEN 0 ELSE (x % p) + n
<1>1. PICK q \in Int : x = p*q + (x % p)
  BY ModQuotient
<1> DEFINE m == x % p
<1> HIDE DEF m
<1>2. m \in 0..p-1 /\ p*q \in Int
  BY ModQuotient DEF m
<1>3. CASE m + n < p
  <2>1. x + n = p*q + (m + n) /\ m + n \in 0..p-1
    BY <1>1, <1>2, <1>3 DEF m
  <2>2. (p*q + (m + n)) % p = m + n
    BY <2>1, ModUnique
  <2>3. QED BY <1>3, <2>1, <2>2 DEF m
<1>4. CASE m + n = p
  <2>1. x + n = p*q + p
    BY <1>1, <1>2, <1>4 DEF m
  <2>2. p*q + p = p*(q+1) + 0
    OBVIOUS
  <2>3. (p*(q+1) + 0) % p = 0
    BY ModUnique
  <2>4. QED BY <1>4, <2>1, <2>2, <2>3 DEF m
<1>5. QED BY <1>2, <1>3, <1>4 DEF m

\* What a write() of the next n pieces does to the stream
LEMMA WriteOn ==
  ASSUME NEW st \in Seq(Senders \X (1..PduSize)), NEW s \in Senders,
         NEW k \in 0..PduSize, NEW n \in 0..(PduSize - k),
         InPlace(st), EndsWith(st, s, k)
  PROVE  LET new == st \o [i \in 1..n |-> <<s, k + i>>] IN
         /\ new \in Seq(Senders \X (1..PduSize)) /\ Len(new) = Len(st) + n
         /\ InPlace(new) /\ EndsWith(new, s, k + n)
         /\ \A i \in 1..Len(st) : new[i] = st[i]
<1> DEFINE more == [i \in 1..n |-> <<s, k + i>>]
           new == st \o more
<1>1. /\ more \in Seq(Senders \X (1..PduSize)) /\ Len(more) = n
      /\ \A i \in 1..n : more[i] = <<s, k + i>>
  <2>1. n \in Nat /\ \A i \in 1..n : k + i \in 1..PduSize
    BY SizeAssumption
  <2>2. \A i \in 1..n : more[i] = <<s, k + i>> /\ more[i] \in Senders \X (1..PduSize)
    BY <2>1
  <2>3. more \in [1..n -> Senders \X (1..PduSize)]
    BY <2>2
  <2> HIDE DEF more
  <2>4. more \in Seq(Senders \X (1..PduSize)) /\ Len(more) = n
    BY <2>1, <2>3, SeqDef, LenProperties
  <2>5. QED BY <2>2, <2>4
<1> HIDE DEF more
<1>2. /\ new \in Seq(Senders \X (1..PduSize)) /\ Len(new) = Len(st) + n
      /\ \A i \in 1 .. Len(st)+n : new[i] = IF i <= Len(st) THEN st[i] ELSE more[i - Len(st)]
  BY <1>1, ConcatProperties
<1> HIDE DEF new
<1>3. /\ Len(st) \in Nat /\ k \in Nat /\ n \in Nat /\ k + n <= PduSize
      /\ PduSize \in Nat \ {0}
  BY SizeAssumption
<1>4. \A i \in 1..Len(st) : new[i] = st[i]
  <2>1. \A i \in 1..Len(st) : i \in 1 .. Len(st)+n /\ i <= Len(st)
    BY <1>3
  <2>2. QED BY <1>2, <2>1
<1>5. \A i \in 1..n : new[Len(st) + i] = <<s, k + i>>
  <2>1. SUFFICES ASSUME NEW i \in 1..n PROVE new[Len(st) + i] = <<s, k + i>>
    OBVIOUS
  <2>2. Len(st) + i \in 1 .. Len(st)+n /\ ~(Len(st) + i <= Len(st)) /\ Len(st) + i - Len(st) = i
    BY <1>3
  <2>3. new[Len(st) + i] = more[Len(st) + i - Len(st)]
    BY <1>2, <2>2
  <2>4. QED BY <1>1, <2>2, <2>3
<1>6. n > 0 => Len(st) % PduSize = k /\ k < PduSize
  BY <1>3 DEF EndsWith
<1>7. ASSUME NEW j \in 0..n, n > 0
      PROVE  (Len(st) + j) % PduSize = IF k + j = PduSize THEN 0 ELSE k + j
  <2>1. j \in Nat /\ (Len(st) % PduSize) + j <= PduSize
    BY <1>3, <1>6, <1>7
  <2>2. (Len(st) + j) % PduSize = IF (Len(st) % PduSize) + j = PduSize THEN 0
                                  ELSE (Len(st) % PduSize) + j
    BY <1>3, <2>1, ModAdd
  <2>3. QED BY <1>6, <1>7, <2>2
<1>8. InPlace(new)
  <2>1. SUFFICES ASSUME NEW i \in 1 .. Len(st)+n
                 PROVE  /\ ((i - 1) % PduSize) + 1 = new[i][2]
                        /\ new[i][2] # 1 => new[i][1] = new[i - 1][1]
    BY <1>2 DEF InPlace
  <2>2. CASE i <= Len(st)
    <3>1. i \in 1..Len(st) /\ new[i] = st[i]
      BY <1>3, <1>4, <2>2
    <3>2. /\ ((i - 1) % PduSize) + 1 = st[i][2]
          /\ st[i][2] # 1 => st[i][1] = st[i - 1][1]
      BY <3>1 DEF InPlace
    <3>3. CASE i = 1
      <4>1. 0 % PduSize = 0
        BY SizeAssumption
      <4>2. QED BY <3>1, <3>2, <3>3, <4>1
    <3>4. CASE i # 1
      <4>1. new[i - 1] = st[i - 1]
        BY <1>3, <1>4, <3>1, <3>4
      <4>2. QED BY <3>1, <3>2, <4>1
    <3>5. QED BY <3>3, <3>4
  <2>3. CASE i > Len(st)
    <3> DEFINE j == i - Len(st)
    <3>1. j \in 1..n /\ i = Len(st) + j /\ n > 0 /\ j - 1 \in 0..n /\ k + (j - 1) < PduSize
      BY <1>3, <2>3
    <3> HIDE DEF j
    <3>2. new[i] = <<s, k + j>> /\ (Len(st) + (j - 1)) % PduSize = k + (j - 1)
      <4>1. k + (j - 1) # PduSize
        BY <3>1
      <4>2. QED BY <1>5, <1>7, <3>1, <4>1
    <3>3. i - 1 = Len(st) + (j - 1)
      BY <1>3, <3>1
    <3>4. ((i - 1) % PduSize) + 1 = k + j
      BY <1>3, <3>1, <3>2, <3>3
    <3>5. ASSUME k + j # 1 PROVE new[i - 1][1] = s
      <4>1. CASE j = 1
        <5>1. k > 0
          BY <1>3, <3>5, <4>1
        <5>2. Len(st) \in 1..Len(st) /\ st[Len(st)] = <<s, k>>
          BY <1>3, <5>1 DEF EndsWith
        <5>3. new[Len(st)] = st[Len(st)]
          BY <1>4, <5>2
        <5>4. i - 1 = Len(st)
          BY <1>3, <3>3, <4>1
        <5>5. QED BY <5>2, <5>3, <5>4
      <4>2. CASE j # 1
        <5>1. j - 1 \in 1..n
          BY <1>3, <3>1, <4>2
        <5>2. new[Len(st) + (j - 1)] = <<s, k + (j - 1)>>
          BY <1>5, <5>1
        <5>3. QED BY <3>3, <5>2
      <4>3. QED BY <4>1, <4>2
    <3>6. QED BY <3>2, <3>4, <3>5
  <2>4. QED BY <1>3, <2>2, <2>3
<1>9. EndsWith(new, s, k + n)
  <2>1. CASE n = 0
    <3>1. k > 0 => new[Len(st)] = st[Len(st)]
      BY <1>3, <1>4 DEF EndsWith
    <3>2. QED BY <1>2, <1>3, <2>1, <3>1 DEF EndsWith
  <2>2. CASE n > 0
    <3>1. (Len(st) + n) % PduSize = IF k + n = PduSize THEN 0 ELSE k + n
      BY <1>3, <1>7, <2>2
    <3>2. new[Len(st) + n] = <<s, k + n>>
      BY <1>3, <1>5, <2>2
    <3>3. QED BY <1>2, <1>3, <2>2, <3>1, <3>2 DEF EndsWith
  <2>3. QED BY <1>3, <2>1, <2>2
<1>10. QED BY <1>2, <1>4, <1>8, <1>9 DEF new, more

-----------------------------------------------------------------------------
(* Threads and references *)

LEMMA GotoMeaning ==
  ASSUME TypeThreads, NEW t \in Threads, NEW w \in Places, Goto(t, w)
  PROVE  /\ thread' \in [Threads -> Places] /\ thread'[t] = w
         /\ \A u \in Threads : u # t => thread'[u] = thread[u]
         /\ awake' \subseteq Senders /\ awake' = awake \ {t}
BY DEF TypeThreads, Goto

LEMMA Names ==
  /\ Owner \in Threads /\ Owner \notin Senders /\ Nobody \notin Senders
  /\ \A s \in Senders : s \in Threads /\ s # Owner
BY ThreadAssumption DEF Threads

LEMMA UsersCount ==
  ASSUME NEW U \in SUBSET Senders
  PROVE  /\ Cardinality(U) \in 0..Cardinality(Senders)
         /\ Cardinality(Senders) \in Nat
         /\ Cardinality(U) = 0 <=> U = {}
         /\ \A s \in U : Cardinality(U \ {s}) = Cardinality(U) - 1
         /\ \A s \in Senders \ U : Cardinality(U \cup {s}) = Cardinality(U) + 1
<1>1. IsFiniteSet(U) /\ IsFiniteSet(Senders)
  BY ThreadAssumption, FS_Subset
<1>2. Cardinality(U) \in Nat /\ Cardinality(Senders) \in Nat
  BY <1>1, FS_CardinalityType
<1>3. Cardinality(U) <= Cardinality(Senders)
  BY <1>1, FS_Subset
<1>4. Cardinality(U) = 0 <=> U = {}
  BY <1>1, FS_EmptySet
<1>5. \A s \in U : Cardinality(U \ {s}) = Cardinality(U) - 1
  BY <1>1, FS_RemoveElement
<1>6. \A s \in Senders \ U : Cardinality(U \cup {s}) = Cardinality(U) + 1
  BY <1>1, FS_AddElement
<1>7. QED BY <1>2, <1>3, <1>4, <1>5, <1>6

\* A step that changes no thread's standing as a user, and no reference
LEMMA CountKept ==
  ASSUME Counted, UNCHANGED refs,
         \A s \in Senders : thread'[s] \in {"idle", "done"} <=> thread[s] \in {"idle", "done"}
  PROVE  Counted'
<1>1. Users' = Users
  BY DEF Users
<1>2. QED BY <1>1 DEF Counted, refs

\* A step that writes nothing
LEMMA WrittenKept ==
  ASSUME Written, UNCHANGED stream,
         dead' \/ (~dead /\ wpdu'.buf = wpdu.buf /\ wpdu'.solong = wpdu.solong)
  PROVE  Written'
BY DEF Written

LEMMA TruthKept ==
  ASSUME SendTellsTheTruth, UNCHANGED <<stream, result>>, dead => dead'
  PROVE  SendTellsTheTruth'
BY DEF SendTellsTheTruth

-----------------------------------------------------------------------------
(* Every step preserves the invariant. *)

\* A step outside the conversation between threads and poll thread
LEMMA FrameInv ==
  ASSUME Inv, UNCHANGED <<dead, wpdu, refs, watched, callback, threads, stream>>,
         TypeConn', TypePoll', TypeSocket', aborted' \in BOOLEAN
  PROVE  Inv'
<1>1. UNCHANGED <<thread, awake, result>>
  BY DEF threads
<1>2. Types'
  BY <1>1 DEF Inv, Types, TypeThreads
<1>3. OwnerRole' /\ Holder' /\ Alive' /\ Removing'
  BY <1>1 DEF Inv, Roles, OwnerRole, Holder, Alive, Removing, refs
<1>4. Counted'
  BY <1>1, CountKept DEF Inv, Roles
<1>5. Written' /\ SendTellsTheTruth'
  BY <1>1, TruthKept DEF Inv, Written
<1>6. NobodyForgotten'
  BY <1>1 DEF Inv, NobodyForgotten
<1>7. QED BY <1>2, <1>3, <1>4, <1>5, <1>6 DEF Inv, Roles

LEMMA PeerInv == ASSUME Inv, PeerStep, UNCHANGED aborted PROVE Inv'
<1>1. UNCHANGED <<conn, refs, polling, threads, stream, shut>>
  BY DEF PeerStep
<1>2. TypeConn' /\ TypePoll' /\ aborted' \in BOOLEAN
  BY <1>1 DEF Inv, Types, TypeConn, TypePoll, conn, polling
<1>3. TypeSocket'
  <2>1. TypeSocket
    BY DEF Inv, Types
  <2>2. /\ taken' \in 0..Len(stream)
        /\ incoming' \in 0..arrived' /\ arrived' \in 0..MaxIncoming /\ gone' \in BOOLEAN
    <3>1. CASE PeerTakes
      BY <2>1, <3>1 DEF TypeSocket, PeerTakes
    <3>2. CASE PeerSends
      <4>1. arrived' = arrived + 1 /\ incoming' = incoming + 1 /\ arrived < MaxIncoming
        BY <3>2 DEF PeerSends
      <4>2. arrived' \in 0..MaxIncoming /\ incoming' \in 0..arrived'
        BY <2>1, <4>1, BoundAssumption DEF TypeSocket
      <4>3. QED BY <2>1, <3>2, <4>2 DEF TypeSocket, PeerSends
    <3>3. CASE PeerCloses
      BY <2>1, <3>3 DEF TypeSocket, PeerCloses
    <3>4. QED BY <3>1, <3>2, <3>3 DEF PeerStep
  <2>3. QED BY <1>1, <2>1, <2>2 DEF TypeSocket
<1>4. UNCHANGED <<dead, wpdu, watched, callback>>
  BY <1>1 DEF conn, polling
<1>5. QED BY <1>1, <1>2, <1>3, <1>4, FrameInv

\* A step of block_remove_fd: its thread stays on the way out.
LEMMA EndStepInv ==
  ASSUME Inv, NEW t \in Threads, NEW w \in EndPlaces, thread[t] \in EndPlaces, Goto(t, w),
         UNCHANGED <<conn, refs, result, socket, aborted>>, TypePoll',
         callback' => callback /\ w \in ClosePlaces
  PROVE  Inv'
<1>1. /\ thread' \in [Threads -> Places] /\ thread'[t] = w
      /\ \A u \in Threads : u # t => thread'[u] = thread[u]
      /\ awake' \subseteq Senders /\ awake' = awake \ {t}
  BY GotoMeaning DEF Inv, Types, EndPlaces, Places
<1>2. UNCHANGED <<dead, wpdu, rpdu, owned, stream, taken, incoming, arrived, shut, gone>>
  BY DEF conn, refs, socket, peer
<1>3. Types'
  BY <1>1, <1>2 DEF Inv, Types, TypeConn, TypeThreads, TypeSocket
<1>4. dead
  BY DEF Inv, Roles, OwnerRole, Holder, Threads, EndPlaces
<1>5. OwnerRole'
  BY <1>1, <1>2, Names DEF Inv, Roles, OwnerRole, EndPlaces
<1>6. Holder'
  <2>1. \A s \in Senders : thread'[s] \in EndPlaces => thread[s] \in EndPlaces
    BY <1>1, Names
  <2>2. \A s \in Senders : thread'[s] = "complete" => thread[s] = "complete"
    BY <1>1, Names DEF EndPlaces
  <2>3. wpdu.buf # Nobody => wpdu.buf \in Senders
    BY DEF Inv, Types, TypeConn
  <2>4. \A s \in Senders : thread[s] \in EndPlaces \cup {"complete"}
          => thread'[s] \in EndPlaces \cup {"complete"}
    BY <1>1, Names
  <2>5. QED BY <1>2, <2>1, <2>2, <2>3, <2>4 DEF Inv, Roles, Holder
<1>7. Alive'
  BY <1>2, <1>4 DEF Alive
<1>8. Removing'
  BY <1>1 DEF Removing
<1>9. Counted'
  <2>1. \A s \in Senders : thread'[s] \in {"idle", "done"} <=> thread[s] \in {"idle", "done"}
    BY <1>1, Names DEF EndPlaces
  <2>2. QED BY <2>1, CountKept DEF Inv, Roles
<1>10. Written' /\ SendTellsTheTruth'
  BY <1>2, <1>4, WrittenKept, TruthKept DEF Inv
<1>11. NobodyForgotten'
  <2>1. SUFFICES ASSUME NEW s \in Senders \ awake'
                 PROVE  /\ thread'[s] = "turn" => wpdu.buf \notin {Nobody, s}
                        /\ thread'[s] = "complete" => thread'[Owner] # "idle"
    BY <1>2 DEF NobodyForgotten
  <2>2. CASE s = t
    BY <1>1, <2>2 DEF EndPlaces
  <2>3. CASE s # t
    <3>1. s \in Senders \ awake /\ thread'[s] = thread[s]
      BY <1>1, <2>1, <2>3, Names
    <3>2. thread[Owner] # "idle" => thread'[Owner] # "idle"
      BY <1>1, Names DEF EndPlaces
    <3>3. QED BY <1>4, <3>1, <3>2 DEF Inv, NobodyForgotten
  <2>4. QED BY <2>2, <2>3
<1>12. QED BY <1>3, <1>5, <1>6, <1>7, <1>8, <1>9, <1>10, <1>11 DEF Inv, Roles

LEMMA BlockRemoveInv ==
  ASSUME Inv, NEW t \in Threads, BlockRemove(t), UNCHANGED aborted PROVE Inv'
<1>1. TypePoll'
  BY DEF Inv, Types, TypePoll, BlockRemove
<1>2. "removing" \in EndPlaces /\ "removing" \in ClosePlaces /\ "failed" \in EndPlaces
  BY DEF EndPlaces, ClosePlaces
<1>3. UNCHANGED <<conn, refs, result, socket, callback>> /\ Goto(t, "removing")
      /\ thread[t] = "failed"
  BY DEF BlockRemove
<1>4. QED BY <1>1, <1>2, <1>3, EndStepInv

LEMMA RemovedInv ==
  ASSUME Inv, NEW t \in Threads, Removed(t), UNCHANGED aborted PROVE Inv'
<1>1. TypePoll'
  BY DEF Inv, Types, TypePoll, Removed
<1>2. "closed" \in EndPlaces /\ "removed" \in EndPlaces
  BY DEF EndPlaces
<1>3. UNCHANGED <<conn, refs, result, socket>> /\ callback' = FALSE /\ Goto(t, "closed")
      /\ thread[t] = "removed"
  BY DEF Removed
<1>4. QED BY <1>1, <1>2, <1>3, EndStepInv

LEMMA SpuriousInv ==
  ASSUME Inv, NEW t \in Threads, SpuriousReturn(t), UNCHANGED aborted PROVE Inv'
<1>1. TypePoll'
  BY DEF Inv, Types, TypePoll, SpuriousReturn, polling
<1>2. "removed" \in EndPlaces /\ "removed" \in ClosePlaces /\ "removing" \in EndPlaces
  BY DEF EndPlaces, ClosePlaces
<1>3. UNCHANGED <<conn, refs, result, socket, callback>> /\ Goto(t, "removed")
      /\ thread[t] = "removing"
  BY DEF SpuriousReturn, polling
<1>4. QED BY <1>1, <1>2, <1>3, EndStepInv

\* A step in which a thread that does not hold the buffer goes elsewhere
LEMMA MoveInv ==
  ASSUME Inv, NEW t \in Threads, NEW w \in {"ready", "turn", "sent", "done"},
         Goto(t, w), thread[t] \notin ClosePlaces \cup {"complete"},
         t \in Senders => thread[t] \notin EndPlaces,
         w = "turn" => wpdu.buf \notin {Nobody, t},
         UNCHANGED <<conn, polling, socket, aborted>>,
         result' \in [Senders -> {"none", "sent", "failed"}],
         OwnerRole', Counted', SendTellsTheTruth'
  PROVE  Inv'
<1>1. /\ thread' \in [Threads -> Places] /\ thread'[t] = w
      /\ \A u \in Threads : u # t => thread'[u] = thread[u]
      /\ awake' \subseteq Senders /\ awake' = awake \ {t}
  BY GotoMeaning DEF Inv, Types, Places
<1>2. UNCHANGED <<dead, wpdu, rpdu, stream, taken, incoming, arrived, shut, gone,
                  watched, callback, pending_change, pipe, poll>>
  BY DEF conn, polling, socket, peer
<1>3. Types'
  BY <1>1, <1>2 DEF Inv, Types, TypeConn, TypeThreads, TypeSocket, TypePoll
<1>4. Holder'
  <2>1. \A s \in Senders : thread'[s] \in EndPlaces \cup {"complete"} =>
          thread'[s] = thread[s]
    BY <1>1, Names DEF EndPlaces
  <2>2. wpdu.buf # Nobody => wpdu.buf \in Senders
    BY DEF Inv, Types, TypeConn
  <2>3. \A s \in Senders : thread[s] \in EndPlaces \cup {"complete"} => thread'[s] = thread[s]
    BY <1>1, Names
  <2>4. QED BY <1>2, <2>1, <2>2, <2>3 DEF Inv, Roles, Holder
<1>5. Alive'
  BY <1>2 DEF Inv, Roles, Alive
<1>6. Removing'
  <2>1. \A u \in Threads : thread[u] \in ClosePlaces => thread'[u] = thread[u]
    BY <1>1
  <2>2. QED BY <1>2, <2>1 DEF Inv, Roles, Removing
<1>7. Written'
  BY <1>2 DEF Inv, Written
<1>8. NobodyForgotten'
  <2>1. SUFFICES ASSUME NEW s \in Senders \ awake'
                 PROVE  /\ thread'[s] = "turn" => wpdu.buf \notin {Nobody, s}
                        /\ thread'[s] = "complete" =>
                             \/ ~dead /\ "wr" \in watched /\ callback /\ wpdu.solong < wpdu.sz
                             \/ thread'[Owner] # "idle"
    BY <1>2 DEF NobodyForgotten
  <2>2. CASE s = t
    BY <1>1, <2>2
  <2>3. CASE s # t
    <3>1. s \in Senders \ awake /\ thread'[s] = thread[s]
      BY <1>1, <2>1, <2>3, Names
    <3>2. thread[Owner] # "idle" => thread'[Owner] # "idle"
      BY <1>1, Names
    <3>3. QED BY <3>1, <3>2 DEF Inv, NobodyForgotten
  <2>4. QED BY <2>2, <2>3
<1>9. QED BY <1>3, <1>4, <1>5, <1>6, <1>7, <1>8 DEF Inv, Roles

LEMMA TakeReferenceInv ==
  ASSUME Inv, NEW s \in Senders, TakeReference(s), UNCHANGED aborted PROVE Inv'
<1>1. /\ thread[s] = "idle" /\ owned /\ refno' = refno + 1 /\ Goto(s, "ready")
      /\ UNCHANGED <<conn, deleted, owned, polling, result, socket>>
  BY DEF TakeReference
<1>2. /\ thread'[s] = "ready"
      /\ \A u \in Threads : u # s => thread'[u] = thread[u]
  BY <1>1, GotoMeaning, Names DEF Inv, Types, Places
<1>3. OwnerRole'
  BY <1>1, <1>2, Names DEF Inv, Roles, OwnerRole, conn
<1>4. Counted'
  <2>1. Users' = Users \cup {s} /\ s \notin Users
    BY <1>1, <1>2, Names DEF Users
  <2>2. Users \in SUBSET Senders
    BY DEF Users
  <2>3. Cardinality(Users') = Cardinality(Users) + 1 /\ Cardinality(Users) \in Nat
    BY <2>1, <2>2, UsersCount
  <2>4. QED BY <1>1, <2>3 DEF Inv, Roles, Counted
<1>5. thread[s] \notin ClosePlaces \cup {"complete"} /\ thread[s] \notin EndPlaces
  BY <1>1 DEF ClosePlaces, EndPlaces
<1>6. SendTellsTheTruth' /\ result' \in [Senders -> {"none", "sent", "failed"}]
  BY <1>1, TruthKept DEF conn, socket, Inv, Types, TypeThreads
<1>7. QED BY <1>1, <1>3, <1>4, <1>5, <1>6, Names, MoveInv

\* What decref makes of a count that is right
LEMMA DecrefMeaning ==
  ASSUME NEW n \in Nat, n > 0, refno = n, deleted <=> refno = 0, n = 1 => dead,
         refno' = refno - 1, deleted' = (deleted \/ (refno = 1 /\ dead))
  PROVE  refno' = n - 1 /\ deleted' \in BOOLEAN /\ (deleted' <=> refno' = 0)
<1>1. ~deleted /\ refno' = n - 1 /\ (refno' = 0 <=> refno = 1)
  OBVIOUS
<1>2. deleted' = (refno = 1 /\ dead) /\ (refno = 1 => dead)
  BY <1>1, Zenon
<1>3. deleted' \in BOOLEAN /\ (deleted' <=> refno = 1)
  BY <1>2, Zenon
<1>4. QED BY <1>1, <1>3, Zenon

LEMMA DropReferenceInv ==
  ASSUME Inv, NEW s \in Senders, DropReference(s), UNCHANGED aborted PROVE Inv'
<1>1. /\ thread[s] = "sent" /\ Goto(s, "done")
      /\ refno' = refno - 1 /\ deleted' = (deleted \/ (refno = 1 /\ dead))
      /\ UNCHANGED <<conn, owned, polling, result, socket>>
  BY DEF DropReference, Decref
<1>2. /\ thread'[s] = "done"
      /\ \A u \in Threads : u # s => thread'[u] = thread[u]
  BY <1>1, GotoMeaning, Names DEF Inv, Types, Places
<1>3. OwnerRole'
  BY <1>1, <1>2, Names DEF Inv, Roles, OwnerRole, conn
<1>4. Counted'
  <2>1. Users' = Users \ {s} /\ s \in Users
    BY <1>1, <1>2, Names DEF Users
  <2>2. Users \in SUBSET Senders
    BY DEF Users
  <2>3. Cardinality(Users') = Cardinality(Users) - 1 /\ Cardinality(Users) \in Nat
    BY <2>1, <2>2, UsersCount
  <2>4. Users' \in SUBSET Senders
    BY <2>1, <2>2
  <2>5. Cardinality(Users') \in Nat
    BY <2>4, UsersCount
  <2>6. ~owned => dead
    BY DEF Inv, Roles, OwnerRole
  <2>7. /\ owned \in BOOLEAN /\ deleted \in BOOLEAN /\ (deleted <=> refno = 0)
        /\ refno = Cardinality(Users) + (IF owned THEN 1 ELSE 0)
    BY DEF Inv, Roles, Counted
  <2>8. refno \in Nat /\ refno > 0 /\ (refno = 1 => dead)
    BY <2>3, <2>5, <2>6, <2>7
  <2>9. deleted' \in BOOLEAN /\ (deleted' <=> refno' = 0)
    BY <1>1, <2>7, <2>8, DecrefMeaning
  <2>10. refno' = Cardinality(Users') + (IF owned' THEN 1 ELSE 0) /\ owned' \in BOOLEAN
    BY <1>1, <2>3, <2>5, <2>7
  <2>11. QED BY <2>9, <2>10 DEF Counted
<1>5. thread[s] \notin ClosePlaces \cup {"complete"} /\ thread[s] \notin EndPlaces
  BY <1>1 DEF ClosePlaces, EndPlaces
<1>6. SendTellsTheTruth' /\ result' \in [Senders -> {"none", "sent", "failed"}]
  BY <1>1, TruthKept DEF conn, socket, Inv, Types, TypeThreads
<1>7. QED BY <1>1, <1>3, <1>4, <1>5, <1>6, Names, MoveInv

\* The owner drops its reference, on whichever path.
LEMMA OwnerDrops ==
  ASSUME Inv, owned, dead, owned' = FALSE, Decref,
         \A s \in Senders : thread'[s] = thread[s]
  PROVE  Counted'
<1>1. Users' = Users /\ Users \in SUBSET Senders
  BY DEF Users
<1>2. Cardinality(Users) \in Nat
  BY <1>1, UsersCount
<1>3. /\ deleted \in BOOLEAN /\ (deleted <=> refno = 0)
      /\ refno = Cardinality(Users) + 1
  BY DEF Inv, Roles, Counted
<1>4. refno \in Nat /\ refno > 0 /\ refno' = Cardinality(Users')
  BY <1>1, <1>2, <1>3 DEF Decref
<1>5. deleted' \in BOOLEAN /\ (deleted' <=> refno' = 0)
  BY <1>3, <1>4, DecrefMeaning DEF Decref
<1>6. refno' = Cardinality(Users') + (IF owned' THEN 1 ELSE 0) /\ owned' \in BOOLEAN
  <2>1. refno' = Cardinality(Users) /\ refno' \in Nat
    BY <1>1, <1>2, <1>4
  <2>2. refno' = Cardinality(Users') /\ refno' + 0 = refno'
    BY <1>4, <2>1
  <2>3. QED BY <2>2
<1>7. QED BY <1>5, <1>6 DEF Counted

LEMMA OwnerLeavesInv == ASSUME Inv, OwnerLeaves, UNCHANGED aborted PROVE Inv'
<1>1. /\ thread[Owner] = "closed" /\ owned' = FALSE /\ Decref /\ Goto(Owner, "done")
      /\ UNCHANGED <<conn, polling, result, socket>>
  BY DEF OwnerLeaves
<1>2. /\ thread'[Owner] = "done"
      /\ \A u \in Threads : u # Owner => thread'[u] = thread[u]
  BY <1>1, GotoMeaning, Names DEF Inv, Types, Places
<1>3. owned /\ dead /\ dead'
  BY <1>1 DEF Inv, Roles, OwnerRole, conn, EndPlaces
<1>4. OwnerRole'
  BY <1>1, <1>2, <1>3 DEF OwnerRole, EndPlaces
<1>5. Counted'
  BY <1>1, <1>2, <1>3, Names, OwnerDrops
<1>6. thread[Owner] \notin ClosePlaces \cup {"complete"} /\ Owner \notin Senders
  BY <1>1, Names DEF ClosePlaces
<1>7. SendTellsTheTruth' /\ result' \in [Senders -> {"none", "sent", "failed"}]
  BY <1>1, TruthKept DEF conn, socket, Inv, Types, TypeThreads
<1>8. QED BY <1>1, <1>4, <1>5, <1>6, <1>7, Names, MoveInv

\* Steps that leave every thread where it is, and everything but the references
LEMMA ReplaceInv == ASSUME Inv, Replace, UNCHANGED aborted PROVE Inv'
<1>1. /\ owned /\ dead /\ thread[Owner] = "idle" /\ owned' = FALSE /\ Decref
      /\ UNCHANGED <<dead, wpdu, rpdu, watched, callback, pending_change, pipe, poll,
                     thread, awake, result, stream, taken, incoming, arrived, gone, shut>>
  BY DEF Replace, conn, polling, threads, socket, peer
<1>2. Counted'
  BY <1>1, OwnerDrops
<1>3. Types'
  BY <1>1 DEF Inv, Types, TypeConn, TypePoll, TypeThreads, TypeSocket
<1>4. OwnerRole' /\ Holder' /\ Alive' /\ Removing'
  BY <1>1 DEF Inv, Roles, OwnerRole, Holder, Alive, Removing, EndPlaces
<1>5. Written' /\ SendTellsTheTruth'
  BY <1>1, TruthKept DEF Inv, Written
<1>6. NobodyForgotten'
  BY <1>1 DEF Inv, NobodyForgotten
<1>7. QED BY <1>2, <1>3, <1>4, <1>5, <1>6 DEF Inv, Roles

LEMMA CloseConnInv == ASSUME Inv, CloseConn, UNCHANGED aborted PROVE Inv'
<1> DEFINE w == IF dead THEN "closed" ELSE "failed"
<1>1. /\ owned /\ thread[Owner] = "idle" /\ Goto(Owner, w) /\ dead' = TRUE
      /\ shut' = (shut \/ ~dead)
      /\ UNCHANGED <<wpdu, rpdu, refs, owned, polling, watched, callback, result, stream,
                     taken, incoming, arrived, gone>>
  BY DEF CloseConn, refs, polling, peer
<1>2. w \in EndPlaces /\ w \in Places /\ w # "idle" /\ w # "done"
  BY DEF EndPlaces, Places
<1>3. ~dead => w \in ClosePlaces
  BY DEF ClosePlaces
<1> HIDE DEF w
<1>4. /\ thread' \in [Threads -> Places] /\ thread'[Owner] = w
      /\ \A u \in Threads : u # Owner => thread'[u] = thread[u]
      /\ awake' \subseteq Senders /\ awake' = awake \ {Owner}
  BY <1>1, <1>2, GotoMeaning, Names DEF Inv, Types
<1>5. \A s \in Senders : thread'[s] = thread[s]
  BY <1>4, Names
<1>6. Types'
  <2>1. shut' \in BOOLEAN
    BY <1>1 DEF Inv, Types, TypeSocket
  <2>2. QED BY <1>1, <1>4, <2>1 DEF Inv, Types, TypeConn, TypePoll, TypeThreads, TypeSocket, polling
<1>7. OwnerRole'
  BY <1>1, <1>2, <1>4 DEF OwnerRole
<1>8. Holder'
  <2>1. wpdu.buf # Nobody => wpdu.buf \in Senders
    BY DEF Inv, Types, TypeConn
  <2>2. QED BY <1>1, <1>5, <2>1 DEF Inv, Roles, Holder
<1>9. Alive'
  BY <1>1 DEF Alive
<1>10. Removing'
  <2>1. CASE dead
    <3>1. callback => \E t \in Threads : thread[t] \in ClosePlaces
      BY <2>1 DEF Inv, Roles, Removing
    <3>2. thread[Owner] \notin ClosePlaces
      BY <1>1 DEF ClosePlaces
    <3>3. QED BY <1>1, <1>4, <3>1, <3>2 DEF Removing
  <2>2. CASE ~dead
    BY <1>3, <1>4, <2>2, Names DEF Removing
  <2>3. QED BY <2>1, <2>2
<1>11. Counted'
  BY <1>1, <1>5, CountKept DEF Inv, Roles
<1>12. Written' /\ SendTellsTheTruth'
  BY <1>1, WrittenKept, TruthKept DEF Inv
<1>13. NobodyForgotten'
  <2>1. \A s \in Senders \ awake' : s \in Senders \ awake /\ thread'[s] = thread[s]
    BY <1>4, <1>5, Names
  <2>2. QED BY <1>1, <1>2, <1>4, <2>1 DEF Inv, NobodyForgotten
<1>14. QED BY <1>6, <1>7, <1>8, <1>9, <1>10, <1>11, <1>12, <1>13 DEF Inv, Roles

LEMMA PollHeadInv == ASSUME Inv, PollHead, UNCHANGED aborted PROVE Inv'
<1>1. /\ UNCHANGED <<dead, wpdu, rpdu, refs, owned, watched, callback, pipe, awake, result,
                     stream, taken, incoming, arrived, gone, shut>>
      /\ pending_change' = FALSE /\ poll' = [poll EXCEPT !.at = "wait"]
      /\ \A t \in Threads :
           \/ thread'[t] = thread[t]
           \/ thread[t] = "removing" /\ thread'[t] = "removed"
      /\ thread' \in [Threads -> Places]
  <2>1. /\ UNCHANGED <<conn, refs, watched, callback, pipe, awake, result, socket>>
        /\ pending_change' = FALSE /\ poll' = [poll EXCEPT !.at = "wait"]
        /\ thread' = [t \in Threads |-> IF pending_change /\ thread[t] = "removing"
                                        THEN "removed" ELSE thread[t]]
    BY DEF PollHead
  <2>2. \A t \in Threads : /\ thread'[t] \in Places
                           /\ \/ thread'[t] = thread[t]
                              \/ thread[t] = "removing" /\ thread'[t] = "removed"
    BY <2>1 DEF Inv, Types, TypeThreads, Places
  <2>3. thread' \in [Threads -> Places]
    BY <2>1, <2>2
  <2>4. QED BY <2>1, <2>2, <2>3 DEF conn, refs, socket, peer
<1>2. \A t \in Threads :
        /\ thread'[t] \in EndPlaces <=> thread[t] \in EndPlaces
        /\ thread'[t] \in ClosePlaces <=> thread[t] \in ClosePlaces
        /\ \A w \in {"idle", "done", "turn", "complete"} : thread'[t] = w <=> thread[t] = w
  BY <1>1 DEF EndPlaces, ClosePlaces
<1>3. Types'
  BY <1>1 DEF Inv, Types, TypeConn, TypePoll, PollPlaces, TypeThreads, TypeSocket
<1>4. OwnerRole'
  BY <1>1, <1>2, Names DEF Inv, Roles, OwnerRole
<1>5. Holder'
  <2>1. wpdu.buf # Nobody => wpdu.buf \in Senders
    BY DEF Inv, Types, TypeConn
  <2>2. QED BY <1>1, <1>2, <2>1, Names DEF Inv, Roles, Holder
<1>6. Alive' /\ Removing'
  BY <1>1, <1>2 DEF Inv, Roles, Alive, Removing
<1>7. Counted'
  BY <1>1, <1>2, Names, CountKept DEF Inv, Roles
<1>8. Written' /\ SendTellsTheTruth'
  BY <1>1, TruthKept DEF Inv, Written
<1>9. NobodyForgotten'
  BY <1>1, <1>2, Names DEF Inv, NobodyForgotten
<1>10. QED BY <1>3, <1>4, <1>5, <1>6, <1>7, <1>8, <1>9 DEF Inv, Roles

\* The other steps of wait_loop
LEMMA PollWaitsInv ==
  ASSUME Inv, PollWait \/ PollReady \/ PollTests, UNCHANGED aborted PROVE Inv'
<1>1. /\ UNCHANGED <<dead, wpdu, rpdu, refs, watched, callback, pending_change, threads, stream,
                     taken, incoming, arrived, gone, shut>>
  BY DEF PollWait, PollReady, PollTests, PollGoes, conn, socket, peer
<1>2. pipe' \in Nat
  <2>1. pipe' = pipe \/ (pipe > 0 /\ pipe' = pipe - 1) \/ pipe' = 0
    BY DEF PollWait, PollReady, PollTests
  <2>2. QED BY <2>1 DEF Inv, Types, TypePoll
<1>3. poll' \in [at : PollPlaces, rd : BOOLEAN, wr : BOOLEAN]
  <2>1. CASE PollWait
    <3>1. ("rd" \in watched) \in BOOLEAN /\ ("wr" \in watched) \in BOOLEAN
      OBVIOUS
    <3>2. QED BY <2>1, <3>1 DEF PollWait, PollPlaces
  <2>2. CASE PollReady
    <3> DEFINE rd == poll.rd /\ Readable  wr == poll.wr /\ Writable
    <3>1. poll' = [at |-> Loops(rd, wr), rd |-> rd, wr |-> wr]
      BY <2>2 DEF PollReady
    <3>2. rd \in BOOLEAN /\ wr \in BOOLEAN
      BY DEF Inv, Types, TypePoll
    <3> HIDE DEF rd, wr
    <3>3. QED BY <3>1, <3>2 DEF Loops, PollPlaces
  <2>3. CASE PollTests
    <3>1. PICK w \in PollPlaces, wr \in {poll.wr, FALSE} :
            poll' = [at |-> w, rd |-> FALSE, wr |-> wr]
      BY <2>3 DEF PollTests, PollGoes, Loops, PollPlaces
    <3>2. poll.wr \in BOOLEAN
      BY DEF Inv, Types, TypePoll
    <3>3. QED BY <3>1, <3>2
  <2>4. QED BY <2>1, <2>2, <2>3
<1>4. TypeConn' /\ TypePoll' /\ TypeSocket' /\ aborted' \in BOOLEAN
  BY <1>1, <1>2, <1>3 DEF Inv, Types, TypeConn, TypePoll, TypeSocket
<1>5. QED BY <1>1, <1>4, FrameInv

LEMMA SendRefusedInv ==
  ASSUME Inv, NEW s \in Senders, thread[s] \in {"ready", "turn"}, SendRefused(s),
         UNCHANGED <<refs, peer, aborted>>
  PROVE  Inv'
<1>1. /\ dead /\ Goto(s, "sent") /\ result' = [result EXCEPT ![s] = "failed"]
      /\ UNCHANGED <<conn, dead, polling, socket, stream, owned>>
  BY DEF SendRefused, socket, conn, refs
<1>2. /\ thread'[s] = "sent"
      /\ \A u \in Threads : u # s => thread'[u] = thread[u]
  BY <1>1, GotoMeaning, Names DEF Inv, Types, Places
<1>3. OwnerRole'
  BY <1>1, <1>2, Names DEF Inv, Roles, OwnerRole
<1>4. Counted'
  <2>1. \A u \in Senders : thread'[u] \in {"idle", "done"} <=> thread[u] \in {"idle", "done"}
    BY <1>2, Names
  <2>2. QED BY <2>1, CountKept DEF Inv, Roles
<1>5. SendTellsTheTruth' /\ result' \in [Senders -> {"none", "sent", "failed"}]
  BY <1>1 DEF SendTellsTheTruth, Inv, Types, TypeThreads
<1>6. thread[s] \notin ClosePlaces \cup {"complete"} /\ thread[s] \notin EndPlaces
  BY DEF ClosePlaces, EndPlaces
<1>7. QED BY <1>1, <1>3, <1>4, <1>5, <1>6, Names, MoveInv

LEMMA SendWaitsInv ==
  ASSUME Inv, NEW s \in Senders, thread[s] \in {"ready", "turn"}, SendWaits(s),
         UNCHANGED <<refs, peer, aborted>>
  PROVE  Inv'
<1>1. /\ wpdu.buf # Nobody /\ Goto(s, "turn")
      /\ UNCHANGED <<conn, dead, polling, result, socket, stream, owned>>
  BY DEF SendWaits, socket, conn, refs
<1>2. /\ thread'[s] = "turn"
      /\ \A u \in Threads : u # s => thread'[u] = thread[u]
  BY <1>1, GotoMeaning, Names DEF Inv, Types, Places
<1>3. OwnerRole'
  BY <1>1, <1>2, Names DEF Inv, Roles, OwnerRole
<1>4. Counted'
  <2>1. \A u \in Senders : thread'[u] \in {"idle", "done"} <=> thread[u] \in {"idle", "done"}
    BY <1>2, Names
  <2>2. QED BY <2>1, CountKept DEF Inv, Roles
<1>5. SendTellsTheTruth' /\ result' \in [Senders -> {"none", "sent", "failed"}]
  BY <1>1, TruthKept DEF Inv, Types, TypeThreads
<1>6. thread[s] \notin ClosePlaces \cup {"complete"} /\ thread[s] \notin EndPlaces
  BY DEF ClosePlaces, EndPlaces
<1>7. wpdu.buf # s
  BY <1>1, <1>6 DEF Inv, Roles, Holder
<1>8. QED BY <1>1, <1>3, <1>4, <1>5, <1>6, <1>7, Names, MoveInv

\* send() returns and gives up the buffer, whether it began and ended with this
\* step or held the buffer before it.
LEMMA ReturnsInv ==
  ASSUME Inv, NEW s \in Senders, thread[s] \in {"ready", "turn", "complete", "closed"},
         wpdu.buf \in {s, Nobody}, NEW ret \in BOOLEAN, Returns(s, ret),
         UNCHANGED <<dead, rpdu, refs, polling, aborted>>,
         TypeSocket', Written', SendTellsTheTruth'
  PROVE  Inv'
<1>1. /\ wpdu' = NoPdu /\ thread' = [thread EXCEPT ![s] = "sent"]
      /\ awake' = (awake \ {s}) \cup Waiting("turn")
      /\ result' = [result EXCEPT ![s] = IF ret THEN "sent" ELSE "failed"]
      /\ UNCHANGED <<owned, watched, callback, pending_change, pipe, poll>>
  BY DEF Returns, refs, polling
<1>2. /\ thread' \in [Threads -> Places] /\ thread'[s] = "sent"
      /\ \A u \in Threads : u # s => thread'[u] = thread[u]
  BY <1>1, Names DEF Inv, Types, TypeThreads, Places
<1>3. thread[Owner] # "turn"
  BY DEF Inv, Roles, OwnerRole, EndPlaces
<1>4. Types'
  <2>1. wpdu' \in [buf : Senders \cup {Nobody}, sz : {0, PduSize}, solong : -1..PduSize]
    BY <1>1, SizeAssumption DEF NoPdu
  <2>2. awake' \subseteq Senders
    BY <1>1, <1>3 DEF Waiting, Threads, Inv, Types, TypeThreads
  <2>3. result' \in [Senders -> {"none", "sent", "failed"}]
    BY <1>1 DEF Inv, Types, TypeThreads
  <2>4. TypePoll' /\ dead' \in BOOLEAN /\ rpdu' \in 0..2
    BY <1>1 DEF Inv, Types, TypePoll, TypeConn
  <2>5. QED BY <1>2, <2>1, <2>2, <2>3, <2>4 DEF Inv, Types, TypeConn, TypeThreads
<1>5. OwnerRole'
  BY <1>1, <1>2, Names DEF Inv, Roles, OwnerRole
<1>6. Holder'
  <2>1. wpdu'.buf = Nobody
    BY <1>1 DEF NoPdu
  <2>2. \A u \in Senders : u # s => thread[u] \notin EndPlaces \cup {"complete"}
    BY Names DEF Inv, Roles, Holder
  <2>3. \A u \in Senders : thread'[u] \notin EndPlaces \cup {"complete"}
    BY <1>2, <2>2, Names DEF EndPlaces
  <2>4. QED BY <2>1, <2>3 DEF Holder
<1>7. Alive'
  BY <1>1 DEF Alive
<1>8. Removing'
  <2>1. thread[s] \notin ClosePlaces
    BY DEF ClosePlaces
  <2>2. \A u \in Threads : thread[u] \in ClosePlaces => thread'[u] \in ClosePlaces
    BY <1>2, <2>1
  <2>3. QED BY <1>1, <2>2 DEF Inv, Roles, Removing
<1>9. Counted'
  <2>1. \A u \in Senders : thread'[u] \in {"idle", "done"} <=> thread[u] \in {"idle", "done"}
    BY <1>2, Names
  <2>2. QED BY <2>1, CountKept DEF Inv, Roles
<1>10. NobodyForgotten'
  <2>1. SUFFICES ASSUME NEW u \in Senders \ awake'
                 PROVE  thread'[u] \notin {"turn", "complete"}
    BY DEF NobodyForgotten
  <2>2. CASE u = s
    BY <1>2, <2>2
  <2>3. CASE u # s
    <3>1. thread'[u] = thread[u] /\ u \in Threads
      BY <1>2, <2>3, Names
    <3>2. thread[u] # "turn"
      BY <1>1, <2>1, <3>1 DEF Waiting
    <3>3. thread[u] # "complete"
      BY <2>3, Names DEF Inv, Roles, Holder
    <3>4. QED BY <3>1, <3>2, <3>3
  <2>4. QED BY <2>2, <2>3
<1>11. QED BY <1>4, <1>5, <1>6, <1>7, <1>8, <1>9, <1>10 DEF Inv, Roles

LEMMA SendFailsInv ==
  ASSUME Inv, NEW s \in Senders, SendFails(s), UNCHANGED aborted PROVE Inv'
<1>1. /\ thread[s] = "closed" /\ Returns(s, ~dead /\ wpdu.solong = wpdu.sz)
      /\ UNCHANGED <<dead, rpdu, refs, polling, socket>>
  BY DEF SendFails
<1>2. dead /\ wpdu.buf = s
  BY <1>1 DEF Inv, Roles, Holder, EndPlaces
<1>3. Returns(s, FALSE)
  BY <1>1, <1>2
<1>4. TypeSocket' /\ Written'
  BY <1>1, <1>2, WrittenKept DEF Inv, Types, TypeSocket, socket, peer
<1>5. SendTellsTheTruth'
  BY <1>1, <1>2, <1>3 DEF Inv, Types, TypeThreads, SendTellsTheTruth, Returns, socket
<1>6. QED BY <1>1, <1>2, <1>3, <1>4, <1>5, ReturnsInv

LEMMA SendCompletesInv ==
  ASSUME Inv, NEW s \in Senders, SendCompletes(s), UNCHANGED aborted PROVE Inv'
<1>1. /\ thread[s] = "complete" /\ s \in awake
      /\ UNCHANGED <<dead, rpdu, refs, polling, socket>>
  BY DEF SendCompletes
<1>2. wpdu.buf = s /\ s # Nobody
  BY <1>1, Names DEF Inv, Roles, Holder
<1>3. ~dead => /\ wpdu.sz = PduSize /\ wpdu.solong >= 0 /\ wpdu.solong \in -1..PduSize
               /\ "wr" \in watched /\ callback
  BY <1>2 DEF Inv, Roles, Alive, NoPdu, Types, TypeConn
<1>4. CASE ~dead /\ wpdu.solong \in 0..(wpdu.sz - 1)
  <2>1. Goto(s, "complete") /\ UNCHANGED <<wpdu, result>>
    BY <1>4 DEF SendCompletes
  <2>2. thread' = thread /\ awake' = awake \ {s}
    BY <1>1, <2>1, Names DEF Goto, Inv, Types, TypeThreads
  <2>3. UNCHANGED <<wpdu, result, stream, taken, incoming, arrived, shut, gone, owned,
                    watched, callback, pending_change, pipe, poll>>
    BY <1>1, <2>1 DEF socket, peer, refs, polling
  <2>4. Types'
    BY <1>1, <2>2, <2>3 DEF Inv, Types, TypeConn, TypePoll, TypeThreads, TypeSocket
  <2>5. OwnerRole' /\ Holder' /\ Alive' /\ Removing'
    BY <1>1, <2>2, <2>3 DEF Inv, Roles, OwnerRole, Holder, Alive, Removing
  <2>6. Counted' /\ Written' /\ SendTellsTheTruth'
    BY <1>1, <2>2, <2>3, CountKept, TruthKept DEF Inv, Roles, Written
  <2>7. wpdu.solong < wpdu.sz
    BY <1>3, <1>4, SizeAssumption
  <2>8. NobodyForgotten'
    BY <1>1, <1>2, <1>3, <1>4, <2>2, <2>3, <2>7 DEF Inv, NobodyForgotten
  <2>9. QED BY <2>4, <2>5, <2>6, <2>8 DEF Inv, Roles
<1>5. CASE ~(~dead /\ wpdu.solong \in 0..(wpdu.sz - 1))
  <2> DEFINE ret == ~dead /\ wpdu.solong = wpdu.sz
  <2>1. Returns(s, ret) /\ ret \in BOOLEAN
    BY <1>5 DEF SendCompletes
  <2>2. ~dead => wpdu.solong = wpdu.sz
    BY <1>3, <1>5, SizeAssumption
  <2>3. ret <=> ~dead
    BY <2>2
  <2> HIDE DEF ret
  <2>4. TypeSocket' /\ UNCHANGED stream
    BY <1>1 DEF Inv, Types, TypeSocket, socket, peer
  <2>5. ~dead => EndsWith(stream, s, PduSize)
    BY <1>2, <1>3, <2>2 DEF Inv, Written
  <2>6. Written'
    <3>1. wpdu'.buf = Nobody /\ wpdu'.solong = 0
      BY <2>1 DEF Returns, NoPdu
    <3>2. ~dead => EndsWith(stream, Nobody, 0)
      BY <2>5, SizeAssumption DEF EndsWith
    <3>3. InPlace(stream)
      BY DEF Inv, Written
    <3>4. QED BY <1>1, <2>4, <3>1, <3>2, <3>3 DEF Written
  <2>7. SendTellsTheTruth'
    <3>1. \A u \in Senders : result'[u] = IF u = s THEN IF ret THEN "sent" ELSE "failed"
                                          ELSE result[u]
      BY <2>1 DEF Returns, Inv, Types, TypeThreads
    <3>2. ret => \E i \in 1..Len(stream) : stream[i] = <<s, PduSize>>
      <4>1. Len(stream) \in Nat
        BY DEF Inv, Types, TypeSocket
      <4>2. QED BY <2>3, <2>5, <4>1, SizeAssumption DEF EndsWith
    <3>3. QED BY <1>1, <2>3, <2>4, <3>1, <3>2 DEF Inv, SendTellsTheTruth
  <2>8. QED BY <1>1, <1>2, <2>1, <2>4, <2>6, <2>7, ReturnsInv
<1>6. QED BY <1>4, <1>5

\* A sender that finds the buffer free finds it as NoPdu, and the stream at the end
\* of a PDU.
LEMMA BufferFree ==
  ASSUME Inv, ~dead, wpdu.buf = Nobody, NEW s
  PROVE  /\ wpdu = NoPdu /\ InPlace(stream) /\ EndsWith(stream, s, 0)
         /\ \A u \in Senders : thread[u] \notin EndPlaces \cup {"complete"}
<1>1. wpdu = NoPdu /\ wpdu.solong = 0
  BY DEF Inv, Roles, Alive, NoPdu
<1>2. InPlace(stream) /\ EndsWith(stream, Nobody, 0)
  BY <1>1 DEF Inv, Written
<1>3. \A u \in Senders : thread[u] \notin EndPlaces \cup {"complete"}
  BY Names DEF Inv, Roles, Holder
<1>4. QED BY <1>1, <1>2, <1>3 DEF EndsWith

\* The first write of send() fails: the connection is dead, and its killer is on
\* its way to block_remove_fd.
LEMMA StartFailsInv ==
  ASSUME Inv, NEW s \in Senders, thread[s] \in {"ready", "turn"}, ~dead, wpdu.buf = Nobody,
         dead' = TRUE, wpdu' = [buf |-> s, sz |-> 0, solong |-> -1], Goto(s, "failed"),
         shut' \in BOOLEAN,
         UNCHANGED <<rpdu, refs, polling, result, stream, peer, aborted>>
  PROVE  Inv'
<1>1. /\ thread' \in [Threads -> Places] /\ thread'[s] = "failed"
      /\ \A u \in Threads : u # s => thread'[u] = thread[u]
      /\ awake' \subseteq Senders /\ awake' = awake \ {s}
  BY GotoMeaning, Names DEF Inv, Types, Places
<1>2. UNCHANGED <<owned, watched, callback, pending_change, pipe, poll, taken, incoming,
                  arrived, gone>>
  BY DEF refs, polling, peer
<1>3. \A u \in Senders : thread[u] \notin EndPlaces \cup {"complete"}
  BY BufferFree
<1>4. Types'
  <2>1. wpdu' \in [buf : Senders \cup {Nobody}, sz : {0, PduSize}, solong : -1..PduSize]
    BY SizeAssumption
  <2>2. QED BY <1>1, <1>2, <2>1 DEF Inv, Types, TypeConn, TypePoll, TypeThreads, TypeSocket
<1>5. OwnerRole'
  BY <1>1, <1>2, Names DEF Inv, Roles, OwnerRole
<1>6. Holder'
  <2>1. \A u \in Senders : u # s => thread'[u] \notin EndPlaces \cup {"complete"}
    BY <1>1, <1>3, Names
  <2>2. wpdu'.buf = s /\ thread'[s] \in EndPlaces
    BY <1>1 DEF EndPlaces
  <2>3. QED BY <2>1, <2>2 DEF Holder, EndPlaces
<1>7. Alive'
  BY DEF Alive
<1>8. Removing'
  BY <1>1, Names DEF Removing, ClosePlaces
<1>9. Counted'
  <2>1. \A u \in Senders : thread'[u] \in {"idle", "done"} <=> thread[u] \in {"idle", "done"}
    BY <1>1, Names
  <2>2. QED BY <2>1, CountKept DEF Inv, Roles
<1>10. Written' /\ SendTellsTheTruth'
  BY WrittenKept, TruthKept DEF Inv
<1>11. NobodyForgotten'
  <2>1. SUFFICES ASSUME NEW u \in Senders \ awake'
                 PROVE  thread'[u] \notin {"turn", "complete"}
    BY DEF NobodyForgotten
  <2>2. CASE u = s
    BY <1>1, <2>2
  <2>3. CASE u # s
    <3>1. u \in Senders \ awake /\ thread'[u] = thread[u]
      BY <1>1, <2>1, <2>3, Names
    <3>2. QED BY <1>3, <3>1 DEF Inv, NobodyForgotten
  <2>4. QED BY <2>2, <2>3
<1>12. QED BY <1>4, <1>5, <1>6, <1>7, <1>8, <1>9, <1>10, <1>11 DEF Inv, Roles

\* The first write of send() takes part of the PDU: the poll thread is to write on.
LEMMA StartWaitsInv ==
  ASSUME Inv, NEW s \in Senders, thread[s] \in {"ready", "turn"}, ~dead, wpdu.buf = Nobody,
         NEW n \in 0 .. PduSize-1, dead' = dead,
         wpdu' = [buf |-> s, sz |-> PduSize, solong |-> n],
         TypeSocket', InPlace(stream'), EndsWith(stream', s, n),
         \A i \in 1..Len(stream) : i \in 1..Len(stream') /\ stream'[i] = stream[i],
         AddWriteCallback, Goto(s, "complete"), result' = result,
         UNCHANGED <<rpdu, refs, pending_change, poll, aborted>>
  PROVE  Inv'
<1>1. /\ thread' \in [Threads -> Places] /\ thread'[s] = "complete"
      /\ \A u \in Threads : u # s => thread'[u] = thread[u]
      /\ awake' \subseteq Senders /\ awake' = awake \ {s}
  BY GotoMeaning, Names DEF Inv, Types, Places
<1>2. owned' = owned /\ watched' = watched \cup {"wr"} /\ callback' = TRUE /\ pipe' = pipe + 1
  BY DEF refs, AddWriteCallback
<1>3. \A u \in Senders : thread[u] \notin EndPlaces \cup {"complete"}
  BY BufferFree
<1>4. n \in Nat /\ n < PduSize
  BY SizeAssumption
<1>5. wpdu'.buf = s /\ wpdu'.sz = PduSize /\ wpdu'.solong = n
  OBVIOUS
<1>6. Types'
  <2>1. wpdu' \in [buf : Senders \cup {Nobody}, sz : {0, PduSize}, solong : -1..PduSize]
    BY SizeAssumption
  <2>2. TypePoll'
    BY <1>2 DEF Inv, Types, TypePoll
  <2>3. QED BY <1>1, <2>1, <2>2 DEF Inv, Types, TypeConn, TypeThreads
<1>7. OwnerRole'
  BY <1>1, <1>2, Names DEF Inv, Roles, OwnerRole
<1>8. Holder'
  <2>1. \A u \in Senders : u # s => thread'[u] \notin EndPlaces \cup {"complete"}
    BY <1>1, <1>3, Names
  <2>2. thread'[s] \notin EndPlaces
    BY <1>1 DEF EndPlaces
  <2>3. QED BY <1>1, <1>5, <2>1, <2>2 DEF Holder
<1>9. Alive'
  BY <1>2, <1>4, <1>5, Names DEF Alive
<1>10. Removing'
  BY DEF Removing
<1>11. Counted'
  <2>1. \A u \in Senders : thread'[u] \in {"idle", "done"} <=> thread[u] \in {"idle", "done"}
    BY <1>1, Names
  <2>2. QED BY <2>1, CountKept DEF Inv, Roles
<1>12. Written'
  BY <1>5 DEF Written
<1>13. SendTellsTheTruth'
  BY DEF Inv, SendTellsTheTruth
<1>14. NobodyForgotten'
  <2>1. SUFFICES ASSUME NEW u \in Senders \ awake'
                 PROVE  /\ thread'[u] # "turn"
                        /\ thread'[u] = "complete" => u = s
    BY <1>2, <1>4, <1>5 DEF NobodyForgotten
  <2>2. CASE u = s
    BY <1>1, <2>2
  <2>3. CASE u # s
    <3>1. u \in Senders \ awake /\ thread'[u] = thread[u]
      BY <1>1, <2>1, <2>3, Names
    <3>2. QED BY <1>3, <3>1 DEF Inv, NobodyForgotten
  <2>4. QED BY <2>2, <2>3
<1>15. QED BY <1>6, <1>7, <1>8, <1>9, <1>10, <1>11, <1>12, <1>13, <1>14 DEF Inv, Roles

LEMMA SendStartsInv ==
  ASSUME Inv, NEW s \in Senders, thread[s] \in {"ready", "turn"}, SendStarts(s),
         UNCHANGED <<refs, peer, aborted>>
  PROVE  Inv'
<1> DEFINE pdu == [buf |-> s, sz |-> PduSize, solong |-> 0]
<1>1. PICK off \in {shut, TRUE} :
        /\ ~dead /\ wpdu.buf = Nobody /\ shut' = off
        /\ UNCHANGED <<rpdu, pending_change, poll>>
        /\ \/ /\ dead' = TRUE /\ wpdu' = [pdu EXCEPT !.sz = 0, !.solong = -1]
              /\ Goto(s, "failed")
              /\ UNCHANGED <<result, stream, watched, callback, pipe>>
           \/ \E n \in 0..PduSize :
              /\ WriteTakes(off, pdu, n)
              /\ dead' = dead /\ stream' = stream \o Pieces(pdu, n)
              /\ IF n = PduSize
                 THEN Returns(s, TRUE) /\ UNCHANGED <<watched, callback, pipe>>
                 ELSE /\ wpdu' = [pdu EXCEPT !.solong = n]
                      /\ AddWriteCallback /\ Goto(s, "complete") /\ result' = result
  BY DEF SendStarts
<1>2. shut' \in BOOLEAN
  BY <1>1 DEF Inv, Types, TypeSocket
<1>3. CASE /\ dead' = TRUE /\ wpdu' = [pdu EXCEPT !.sz = 0, !.solong = -1]
           /\ Goto(s, "failed")
           /\ UNCHANGED <<result, stream, watched, callback, pipe>>
  <2>1. wpdu' = [buf |-> s, sz |-> 0, solong |-> -1]
    BY <1>3
  <2>2. UNCHANGED polling
    BY <1>1, <1>3 DEF polling
  <2>3. QED BY <1>1, <1>2, <1>3, <2>1, <2>2, StartFailsInv
<1>4. ASSUME NEW n \in 0..PduSize, dead' = dead, stream' = stream \o Pieces(pdu, n),
             IF n = PduSize
             THEN Returns(s, TRUE) /\ UNCHANGED <<watched, callback, pipe>>
             ELSE /\ wpdu' = [pdu EXCEPT !.solong = n]
                  /\ AddWriteCallback /\ Goto(s, "complete") /\ result' = result
      PROVE  Inv'
  <2>1. InPlace(stream) /\ EndsWith(stream, s, 0)
    BY <1>1, BufferFree
  <2>2. Pieces(pdu, n) = [i \in 1..n |-> <<s, 0 + i>>]
    BY DEF Pieces
  <2>3. 0 \in 0..PduSize /\ n \in 0..(PduSize - 0) /\ 0 + n = n
        /\ stream \in Seq(Senders \X (1..PduSize))
    BY SizeAssumption DEF Inv, Types, TypeSocket
  <2>4. /\ stream' \in Seq(Senders \X (1..PduSize)) /\ Len(stream') = Len(stream) + n
        /\ InPlace(stream') /\ EndsWith(stream', s, 0 + n)
        /\ \A i \in 1..Len(stream) : stream'[i] = stream[i]
    <3>1. stream' = stream \o [i \in 1..n |-> <<s, 0 + i>>]
      BY <1>4, <2>2
    <3>2. LET new == stream \o [i \in 1..n |-> <<s, 0 + i>>] IN
          /\ new \in Seq(Senders \X (1..PduSize)) /\ Len(new) = Len(stream) + n
          /\ InPlace(new) /\ EndsWith(new, s, 0 + n)
          /\ \A i \in 1..Len(stream) : new[i] = stream[i]
      BY <2>1, <2>3, WriteOn, Zenon
    <3>3. QED BY <3>1, <3>2, Zenon
  <2>5. EndsWith(stream', s, n)
    BY <2>3, <2>4
  <2>6. Len(stream) \in Nat /\ n \in Nat
    BY <2>3, SizeAssumption
  <2>7. TypeSocket'
    <3>1. taken' \in 0..Len(stream')
      BY <2>4, <2>6 DEF Inv, Types, TypeSocket, peer
    <3>2. QED BY <1>2, <2>4, <3>1 DEF Inv, Types, TypeSocket, peer
  <2>8. \A i \in 1..Len(stream) : i \in 1..Len(stream') /\ stream'[i] = stream[i]
    BY <2>4, <2>6
  <2>9. CASE n = PduSize
    <3>1. Returns(s, TRUE) /\ UNCHANGED polling
      BY <1>1, <1>4, <2>9 DEF polling
    <3>2. Written'
      <4>1. wpdu'.buf = Nobody /\ wpdu'.solong = 0
        BY <3>1 DEF Returns, NoPdu
      <4>2. EndsWith(stream', Nobody, 0)
        BY <2>5, <2>9, SizeAssumption DEF EndsWith
      <4>3. QED BY <2>4, <4>1, <4>2 DEF Written
    <3>3. SendTellsTheTruth'
      <4>1. \A u \in Senders : result'[u] = IF u = s THEN "sent" ELSE result[u]
        BY <3>1 DEF Returns, Inv, Types, TypeThreads
      <4>2. Len(stream') \in 1..Len(stream') /\ stream'[Len(stream')] = <<s, PduSize>>
        <5>1. n > 0 => Len(stream') > 0 /\ stream'[Len(stream')] = <<s, n>>
          BY <2>5 DEF EndsWith
        <5>2. n > 0 /\ Len(stream') \in Nat
          BY <2>4, <2>6, <2>9, SizeAssumption
        <5>3. QED BY <2>9, <5>1, <5>2
      <4>3. \A u \in Senders : result[u] = "sent" =>
              \E i \in 1..Len(stream') : stream'[i] = <<u, PduSize>>
        BY <2>8 DEF Inv, SendTellsTheTruth
      <4>4. ~dead' /\ \A u \in Senders : result[u] # "failed"
        BY <1>1, <1>4 DEF Inv, SendTellsTheTruth
      <4>5. QED BY <4>1, <4>2, <4>3, <4>4 DEF SendTellsTheTruth
    <3>4. QED BY <1>1, <1>4, <2>7, <3>1, <3>2, <3>3, ReturnsInv
  <2>10. CASE n # PduSize
    <3>1. wpdu' = [buf |-> s, sz |-> PduSize, solong |-> n] /\ n \in 0 .. PduSize-1
      BY <1>4, <2>10, SizeAssumption
    <3>2. AddWriteCallback /\ Goto(s, "complete") /\ result' = result
      BY <1>4, <2>10
    <3>3. QED BY <1>1, <1>4, <2>4, <2>5, <2>7, <2>8, <3>1, <3>2, StartWaitsInv
  <2>11. QED BY <2>9, <2>10
<1>5. QED BY <1>1, <1>3, <1>4

LEMMA SendHeadInv ==
  ASSUME Inv, NEW s \in Senders, SendHead(s), UNCHANGED aborted PROVE Inv'
<1>1. thread[s] \in {"ready", "turn"} /\ UNCHANGED <<refs, peer>>
  BY DEF SendHead
<1>2. QED BY <1>1, SendRefusedInv, SendWaitsInv, SendStartsInv DEF SendHead

-----------------------------------------------------------------------------
(* read_cb and write_cb *)

\* The poll thread finds the connection dead.
LEMMA PollDiesInv ==
  ASSUME Inv, ~dead, dead' = TRUE, wpdu'.buf = wpdu.buf, DelBothCallbacks, Signal,
         UNCHANGED <<refs, pending_change, stream>>,
         TypeConn', TypePoll', TypeSocket', aborted' \in BOOLEAN
  PROVE  Inv'
<1>1. /\ UNCHANGED <<thread, result, owned>> /\ callback' = FALSE
      /\ awake' = awake \cup Waiting("complete")
  BY DEF Signal, DelBothCallbacks, refs
<1>2. Types'
  <2>1. thread[Owner] # "complete"
    BY DEF Inv, Roles, OwnerRole, EndPlaces
  <2>2. awake' \subseteq Senders
    BY <1>1, <2>1 DEF Waiting, Threads, Inv, Types, TypeThreads
  <2>3. QED BY <1>1, <2>2 DEF Inv, Types, TypeThreads
<1>3. OwnerRole'
  BY <1>1 DEF Inv, Roles, OwnerRole
<1>4. Holder'
  BY <1>1 DEF Inv, Roles, Holder
<1>5. Alive' /\ Removing'
  BY <1>1 DEF Alive, Removing
<1>6. Counted'
  BY <1>1, CountKept DEF Inv, Roles
<1>7. Written' /\ SendTellsTheTruth'
  BY <1>1, WrittenKept, TruthKept DEF Inv
<1>8. NobodyForgotten'
  BY <1>1, Names DEF Inv, NobodyForgotten, Waiting
<1>9. QED BY <1>2, <1>3, <1>4, <1>5, <1>6, <1>7, <1>8 DEF Inv, Roles

\* A write() of n more pieces of the PDU that is under way
PollWrites(n) ==
  /\ n \in 0 .. PduSize - wpdu.solong
  /\ stream' = stream \o Pieces(wpdu, n)
  /\ wpdu' = [wpdu EXCEPT !.solong = @ + n]
  /\ IF wpdu'.solong < wpdu.sz THEN UNCHANGED threads ELSE Signal
  /\ UNCHANGED <<dead, rpdu, refs, watched, callback, pending_change, pipe, taken, incoming,
                 arrived, shut, gone>>

LEMMA PollType ==
  ASSUME NEW w \in PollPlaces, NEW wr \in BOOLEAN, PollGoes(w, wr)
  PROVE  poll' \in [at : PollPlaces, rd : BOOLEAN, wr : BOOLEAN] /\ UNCHANGED pending_change
BY DEF PollGoes

LEMMA DelBothType ==
  ASSUME TypePoll, DelBothCallbacks
  PROVE  watched' \subseteq {"rd", "wr"} /\ callback' \in BOOLEAN /\ pipe' \in Nat
<1>1. watched' = {} /\ callback' = FALSE /\ pipe' = pipe + 1 /\ pipe \in Nat
  BY DEF TypePoll, DelBothCallbacks
<1>2. pipe' \in Nat
  BY <1>1
<1>3. watched' \subseteq {"rd", "wr"} /\ callback' \in BOOLEAN
  BY <1>1, Zenon
<1>4. QED BY <1>2, <1>3

LEMMA PollReadInv == ASSUME Inv, PollRead, UNCHANGED aborted PROVE Inv'
<1>1. /\ UNCHANGED <<refs, stream, taken, arrived, shut, gone, pending_change>>
      /\ poll' \in [at : PollPlaces, rd : BOOLEAN, wr : BOOLEAN]
  <2>1. PollGoes(Loops(FALSE, poll.wr), poll.wr)
    BY DEF PollRead
  <2>2. Loops(FALSE, poll.wr) \in PollPlaces /\ poll.wr \in BOOLEAN
    BY DEF Loops, PollPlaces, Inv, Types, TypePoll
  <2>3. QED BY <2>1, <2>2, PollType DEF PollRead
<1>2. aborted' \in BOOLEAN
  BY DEF Inv, Types
<1>3. CASE UNCHANGED <<conn, watched, callback, pipe, threads, incoming>>
  <2>1. UNCHANGED <<dead, wpdu, rpdu>>
    BY <1>3 DEF conn
  <2>2. TypeConn' /\ TypePoll' /\ TypeSocket'
    BY <1>1, <1>3, <2>1 DEF Inv, Types, TypeConn, TypePoll, TypeSocket
  <2>3. QED BY <1>1, <1>2, <1>3, <2>1, <2>2, FrameInv
<1>4. ASSUME ~dead, wpdu' = wpdu, NEW r \in IF rpdu = 2 THEN {<<2, TRUE>>} ELSE ReadPdu,
             incoming' = IF r[2] THEN incoming - (r[1] - rpdu)
                         ELSE IF rpdu = 0 THEN 0 ELSE incoming,
             IF r[2] THEN UNCHANGED <<dead, watched, callback, pipe, threads>>
             ELSE ReadFails,
             rpdu' \in IF r[1] = 2 THEN {0, 2} ELSE {r[1]}
      PROVE  Inv'
  <2>1. /\ incoming \in Nat /\ arrived \in Nat /\ incoming <= arrived /\ rpdu \in 0..2
        /\ arrived \in 0..MaxIncoming
    BY BoundAssumption DEF Inv, Types, TypeConn, TypeSocket
  <2>2. /\ r[1] \in 0..2 /\ r[2] \in BOOLEAN
        /\ r[2] => r[1] - rpdu \in 0..incoming
    <3>1. CASE rpdu = 2
      <4>1. r = <<2, TRUE>>
        BY <1>4, <3>1
      <4>2. r[1] = 2 /\ r[2] = TRUE
        BY <4>1
      <4>3. r[1] \in 0..2 /\ r[1] - rpdu \in 0..incoming
        BY <2>1, <3>1, <4>2
      <4>4. QED BY <4>2, <4>3, Zenon
    <3>2. CASE rpdu # 2
      <4> DEFINE n == IF rpdu + incoming > 2 THEN 2 ELSE rpdu + incoming
      <4>1. n \in 0..2 /\ n - rpdu \in 0..incoming
        BY <2>1, <3>2
      <4>2. ReadPdu = IF n = 0 THEN {<<0, FALSE>>}
                      ELSE IF n = 1 /\ (gone \/ shut) THEN {<<0, FALSE>>, <<1, TRUE>>}
                      ELSE {<<n, TRUE>>}
        BY Zenon DEF ReadPdu
      <4>3. r \in ReadPdu
        BY <1>4, <3>2
      <4> HIDE DEF n
      <4>4. r = <<0, FALSE>> \/ r = <<n, TRUE>>
        BY <4>2, <4>3
      <4>5. CASE r = <<0, FALSE>>
        <5>1. r[1] = 0 /\ r[2] = FALSE
          BY <4>5
        <5>2. r[1] \in 0..2
          BY <5>1
        <5>3. QED BY <5>1, <5>2, Zenon
      <4>6. CASE r = <<n, TRUE>>
        <5>1. r[1] = n /\ r[2] = TRUE
          BY <4>6
        <5>2. r[1] \in 0..2 /\ r[1] - rpdu \in 0..incoming
          BY <4>1, <5>1
        <5>3. QED BY <5>1, <5>2, Zenon
      <4>7. QED BY <4>4, <4>5, <4>6
    <3>3. QED BY <3>1, <3>2
  <2>3. incoming' \in 0..arrived
    BY <1>4, <2>1, <2>2
  <2>4. TypeConn' /\ TypeSocket'
    <3>1. rpdu' \in 0..2
      BY <1>4, <2>2
    <3>2. dead' \in BOOLEAN
      BY <1>4 DEF Inv, Types, TypeConn, ReadFails
    <3>3. QED BY <1>1, <1>4, <2>3, <3>1, <3>2 DEF Inv, Types, TypeConn, TypeSocket
  <2>5. CASE r[2]
    <3>1. UNCHANGED <<dead, watched, callback, pipe, threads>>
      BY <1>4, <2>5
    <3>2. TypePoll'
      BY <1>1, <3>1 DEF Inv, Types, TypePoll
    <3>3. QED BY <1>1, <1>2, <1>4, <2>4, <3>1, <3>2, FrameInv
  <2>6. CASE ~r[2]
    <3>1. dead' = TRUE /\ DelBothCallbacks /\ Signal
      BY <1>4, <2>6 DEF ReadFails
    <3>2. TypePoll'
      BY <1>1, <3>1, DelBothType DEF Inv, Types, TypePoll
    <3>3. QED BY <1>1, <1>2, <1>4, <2>4, <3>1, <3>2, PollDiesInv
  <2>7. QED BY <2>2, <2>5, <2>6
<1>5. QED BY <1>3, <1>4 DEF PollRead, ReadCb, conn

\* write_cb with nothing to write: it is not called again.
LEMMA PollIdleInv ==
  ASSUME Inv, ~dead, wpdu.sz = 0, DelWriteCallback,
         UNCHANGED <<dead, wpdu, rpdu, refs, threads, stream, pending_change, taken, incoming,
                     arrived, shut, gone>>,
         TypePoll', aborted' \in BOOLEAN
  PROVE  Inv'
<1>1. UNCHANGED <<thread, awake, result, owned>>
  BY DEF threads, refs
<1>2. wpdu = NoPdu /\ wpdu.buf = Nobody
  BY SizeAssumption DEF Inv, Roles, Alive, NoPdu
<1>3. Types'
  BY <1>1 DEF Inv, Types, TypeConn, TypeThreads, TypeSocket
<1>4. OwnerRole' /\ Holder' /\ Alive' /\ Removing'
  BY <1>1, <1>2 DEF Inv, Roles, OwnerRole, Holder, Alive, Removing
<1>5. Counted' /\ Written' /\ SendTellsTheTruth'
  BY <1>1, CountKept, TruthKept DEF Inv, Roles, Written
<1>6. NobodyForgotten'
  <2>1. \A s \in Senders : thread[s] # "complete"
    BY <1>2, Names DEF Inv, Roles, Holder
  <2>2. QED BY <1>1, <2>1 DEF Inv, NobodyForgotten
<1>7. QED BY <1>3, <1>4, <1>5, <1>6 DEF Inv, Roles

LEMMA PollWritesInv ==
  ASSUME Inv, ~dead, wpdu.sz # 0, NEW n, PollWrites(n), TypePoll', aborted' \in BOOLEAN
  PROVE  Inv'
<1>1. /\ n \in 0 .. PduSize - wpdu.solong /\ stream' = stream \o Pieces(wpdu, n)
      /\ wpdu' = [wpdu EXCEPT !.solong = @ + n]
      /\ IF wpdu'.solong < wpdu.sz THEN UNCHANGED threads ELSE Signal
      /\ UNCHANGED <<dead, rpdu, refs, watched, callback, taken, incoming, arrived, shut, gone>>
  BY DEF PollWrites
<1> DEFINE s == wpdu.buf
           k == wpdu.solong
<1>2. /\ s \in Senders /\ wpdu.sz = PduSize /\ k \in 0..PduSize
      /\ "wr" \in watched /\ callback
      /\ wpdu \in [buf : Senders \cup {Nobody}, sz : {0, PduSize}, solong : -1..PduSize]
  BY SizeAssumption DEF Inv, Roles, Alive, NoPdu, Types, TypeConn
<1>3. k \in Nat /\ n \in Nat /\ k + n \in 0..PduSize /\ PduSize \in Nat \ {0}
  BY <1>1, <1>2, SizeAssumption
<1>4. wpdu' = [buf |-> s, sz |-> PduSize, solong |-> k + n]
  BY <1>1, <1>2
<1>5. /\ InPlace(stream) /\ EndsWith(stream, s, k)
      /\ stream \in Seq(Senders \X (1..PduSize))
      /\ stream' = stream \o [i \in 1..n |-> <<s, k + i>>]
  BY <1>1 DEF Inv, Written, Types, TypeSocket, Pieces
<1> HIDE DEF s, k
<1>6. /\ stream' \in Seq(Senders \X (1..PduSize)) /\ Len(stream') = Len(stream) + n
      /\ InPlace(stream') /\ EndsWith(stream', s, k + n)
      /\ \A i \in 1..Len(stream) : stream'[i] = stream[i]
  <2>1. LET new == stream \o [i \in 1..n |-> <<s, k + i>>] IN
        /\ new \in Seq(Senders \X (1..PduSize)) /\ Len(new) = Len(stream) + n
        /\ InPlace(new) /\ EndsWith(new, s, k + n)
        /\ \A i \in 1..Len(stream) : new[i] = stream[i]
    <3>1. s \in Senders /\ k \in 0..PduSize
      BY <1>2
    <3>2. QED BY <1>1, <1>5, <3>1, WriteOn DEF k
  <2>2. QED BY <1>5, <2>1, Zenon
<1>7. Len(stream) \in Nat
  BY <1>5
<1>8. /\ UNCHANGED <<thread, result, owned>>
      /\ \/ k + n < PduSize /\ awake' = awake
         \/ awake' = awake \cup Waiting("complete")
  BY <1>1, <1>2, <1>4 DEF threads, Signal, refs
<1>9. Types'
  <2>1. TypeConn'
    BY <1>1, <1>2, <1>3, <1>4 DEF Inv, Types, TypeConn
  <2>2. TypeSocket'
    <3>1. taken' \in 0..Len(stream')
      BY <1>1, <1>3, <1>6, <1>7 DEF Inv, Types, TypeSocket
    <3>2. QED BY <1>1, <1>6, <3>1 DEF Inv, Types, TypeSocket
  <2>3. TypeThreads'
    <3>1. thread[Owner] # "complete"
      BY DEF Inv, Roles, OwnerRole, EndPlaces
    <3>2. QED BY <1>8, <3>1 DEF Waiting, Threads, Inv, Types, TypeThreads
  <2>4. QED BY <2>1, <2>2, <2>3 DEF Types
<1>10. OwnerRole' /\ Removing'
  BY <1>1, <1>8 DEF Inv, Roles, OwnerRole, Removing
<1>11. Holder'
  <2>1. wpdu'.buf = wpdu.buf
    BY <1>4 DEF s
  <2>2. QED BY <1>1, <1>8, <2>1 DEF Inv, Roles, Holder
<1>12. Alive'
  BY <1>1, <1>2, <1>3, <1>4, Names DEF Alive
<1>13. Counted'
  BY <1>1, <1>8, CountKept DEF Inv, Roles
<1>14. Written'
  <2>1. wpdu'.buf = s /\ wpdu'.solong = k + n
    BY <1>4
  <2>2. QED BY <1>6, <2>1 DEF Written
<1>15. SendTellsTheTruth'
  <2>1. \A i \in 1..Len(stream) : i \in 1..Len(stream') /\ stream'[i] = stream[i]
    BY <1>3, <1>6, <1>7
  <2>2. QED BY <1>1, <1>8, <2>1 DEF Inv, SendTellsTheTruth
<1>16. NobodyForgotten'
  <2>1. SUFFICES ASSUME NEW u \in Senders \ awake'
                 PROVE  /\ thread[u] = "turn" => wpdu'.buf \notin {Nobody, u}
                        /\ thread[u] = "complete" => k + n < PduSize
    BY <1>1, <1>2, <1>4, <1>8 DEF NobodyForgotten
  <2>2. u \in Senders \ awake /\ u \in Threads
    BY <1>8, Names
  <2>3. thread[u] = "turn" => wpdu'.buf \notin {Nobody, u}
    BY <1>4, <2>2 DEF Inv, NobodyForgotten, s
  <2>4. thread[u] = "complete" => k + n < PduSize
    BY <1>8, <2>1, <2>2 DEF Waiting
  <2>5. QED BY <2>3, <2>4
<1>17. QED BY <1>9, <1>10, <1>11, <1>12, <1>13, <1>14, <1>15, <1>16 DEF Inv, Roles

LEMMA PollWriteInv == ASSUME Inv, PollWrite PROVE Inv'
<1>1. /\ UNCHANGED <<rpdu, refs, taken, incoming, arrived, shut, gone, pending_change>>
      /\ poll' \in [at : PollPlaces, rd : BOOLEAN, wr : BOOLEAN]
  <2>1. PollGoes("head", FALSE) /\ "head" \in PollPlaces
    BY DEF PollWrite, PollPlaces
  <2>2. QED BY <2>1, PollType DEF PollWrite
<1>2. aborted' \in BOOLEAN
  BY DEF PollWrite, Inv, Types, TypeConn
<1>3. CASE UNCHANGED <<dead, wpdu, watched, callback, pipe, threads, stream>>
  <2>1. TypeConn' /\ TypePoll' /\ TypeSocket'
    BY <1>1, <1>3 DEF Inv, Types, TypeConn, TypePoll, TypeSocket
  <2>2. QED BY <1>1, <1>2, <1>3, <2>1, FrameInv
<1>4. CASE ~dead /\ WriteCb
  <2>1. TypePoll'
    <3>1. watched' \subseteq {"rd", "wr"} /\ callback' \in BOOLEAN /\ pipe' \in Nat
      <4>1. CASE DelWriteCallback
        BY <4>1 DEF DelWriteCallback, Inv, Types, TypePoll
      <4>2. CASE DelBothCallbacks
        BY <4>2, DelBothType DEF Inv, Types
      <4>3. CASE UNCHANGED <<watched, callback, pipe>>
        BY <4>3 DEF Inv, Types, TypePoll
      <4>4. QED BY <1>4, <4>1, <4>2, <4>3 DEF WriteCb
    <3>2. QED BY <1>1, <3>1 DEF Inv, Types, TypePoll
  <2>2. CASE wpdu.sz = 0
    <3>1. DelWriteCallback /\ UNCHANGED <<dead, wpdu, threads, stream>>
      BY <1>4, <2>2 DEF WriteCb
    <3>2. QED BY <1>1, <1>2, <1>4, <2>1, <2>2, <3>1, PollIdleInv
  <2>3. ASSUME wpdu.sz # 0, dead' = TRUE, wpdu' = [wpdu EXCEPT !.sz = 0, !.solong = -1],
               DelBothCallbacks, Signal, stream' = stream
        PROVE  Inv'
    <3>1. wpdu'.buf = wpdu.buf
      BY <2>3 DEF Inv, Types, TypeConn
    <3>2. TypeConn'
      <4>1. wpdu' = [buf |-> wpdu.buf, sz |-> 0, solong |-> -1]
        BY <2>3 DEF Inv, Types, TypeConn
      <4>2. wpdu.buf \in Senders \cup {Nobody} /\ -1 \in -1..PduSize
        BY SizeAssumption DEF Inv, Types, TypeConn
      <4>3. wpdu' \in [buf : Senders \cup {Nobody}, sz : {0, PduSize}, solong : -1..PduSize]
        BY <4>1, <4>2
      <4>4. QED BY <1>1, <2>3, <4>3 DEF Inv, Types, TypeConn
    <3>3. TypeSocket'
      BY <1>1, <2>3 DEF Inv, Types, TypeSocket
    <3>4. QED BY <1>1, <1>2, <1>4, <2>1, <2>3, <3>1, <3>2, <3>3, PollDiesInv
  <2>4. ASSUME wpdu.sz # 0, NEW n \in 0..PduSize,
               WriteTakes(shut, wpdu, n) \/ (n = 0 /\ wpdu.solong = wpdu.sz),
               stream' = stream \o Pieces(wpdu, n),
               wpdu' = [wpdu EXCEPT !.solong = @ + n],
               IF wpdu'.solong < wpdu.sz THEN UNCHANGED threads ELSE Signal,
               UNCHANGED <<dead, watched, callback, pipe>>
        PROVE  Inv'
    <3>1. wpdu.sz = PduSize
      BY <2>4 DEF Inv, Types, TypeConn
    <3>2. n \in 0 .. PduSize - wpdu.solong
      BY <2>4, <3>1, SizeAssumption DEF WriteTakes
    <3>3. PollWrites(n)
      BY <1>1, <2>4, <3>2 DEF PollWrites
    <3>4. QED BY <1>2, <1>4, <2>1, <2>4, <3>3, PollWritesInv
  <2>5. QED BY <1>4, <2>2, <2>3, <2>4 DEF WriteCb
<1>5. QED BY <1>3, <1>4 DEF PollWrite

LEMMA PollCallsNobodyInv == ASSUME Inv, PollCallsNobody PROVE Inv'
<1>1. /\ aborted' = TRUE
      /\ UNCHANGED <<dead, wpdu, rpdu, refs, watched, callback, pending_change, pipe, poll,
                     threads, stream, taken, incoming, arrived, shut, gone>>
  BY DEF PollCallsNobody, conn, polling, socket, peer
<1>2. TypeConn' /\ TypePoll' /\ TypeSocket'
  BY <1>1 DEF Inv, Types, TypeConn, TypePoll, TypeSocket
<1>3. QED BY <1>1, <1>2, FrameInv

-----------------------------------------------------------------------------
(* The invariant holds, and what it implies *)

LEMMA InitInv == Init => Inv
<1> SUFFICES ASSUME Init PROVE Inv
  OBVIOUS
<1>1. Types
  <2>1. TypeConn
    <3>1. 0 \in -1..PduSize /\ 0 \in 0..2
      BY SizeAssumption
    <3>2. NoPdu \in [buf : Senders \cup {Nobody}, sz : {0, PduSize}, solong : -1..PduSize]
      BY <3>1 DEF NoPdu
    <3>3. QED BY <3>1, <3>2 DEF Init, TypeConn
  <2>2. TypePoll /\ TypeThreads
    BY DEF Init, TypePoll, PollPlaces, TypeThreads, Places
  <2>3. TypeSocket
    <3>1. 0 \in 0..MaxIncoming /\ 0 \in 0..0
      BY BoundAssumption
    <3>2. Len(<<>>) = 0 /\ <<>> \in Seq(Senders \X (1..PduSize))
      OBVIOUS
    <3>3. QED BY <3>1, <3>2 DEF Init, TypeSocket
  <2>4. QED BY <2>1, <2>2, <2>3 DEF Init, Types
<1>2. OwnerRole /\ Holder /\ Alive /\ Removing
  BY Names DEF Init, OwnerRole, Holder, Alive, Removing, EndPlaces, NoPdu
<1>3. Counted
  <2>1. Users = {}
    BY Names DEF Init, Users
  <2>2. Cardinality(Users) = 0
    BY <2>1, FS_EmptySet
  <2>3. refno = 1 /\ deleted = FALSE /\ owned = TRUE
    BY DEF Init
  <2>4. refno = Cardinality(Users) + (IF owned THEN 1 ELSE 0) /\ refno # 0
    BY <2>2, <2>3
  <2>5. QED BY <2>3, <2>4 DEF Counted
<1>4. Written
  <2>1. 0 % PduSize = 0
    BY SizeAssumption
  <2>2. stream = <<>> /\ Len(stream) = 0 /\ wpdu.solong = 0
    BY DEF Init, NoPdu
  <2>3. QED BY <2>1, <2>2, SizeAssumption DEF Written, InPlace, EndsWith
<1>5. SendTellsTheTruth /\ NobodyForgotten
  BY Names DEF Init, SendTellsTheTruth, NobodyForgotten
<1>6. QED BY <1>1, <1>2, <1>3, <1>4, <1>5 DEF Inv, Roles

LEMMA StepInv == Inv /\ [Next]_vars => Inv'
<1> SUFFICES ASSUME Inv, [Next]_vars PROVE Inv'
  OBVIOUS
<1>1. ASSUME NEW s \in Senders, TakeReference(s) \/ SenderStep(s), UNCHANGED aborted
      PROVE  Inv'
  BY <1>1, Names, TakeReferenceInv, SendHeadInv, SendCompletesInv, SendFailsInv,
     DropReferenceInv, BlockRemoveInv, RemovedInv DEF SenderStep
<1>2. ASSUME OwnerStep \/ Replace \/ CloseConn, UNCHANGED aborted PROVE Inv'
  BY <1>2, Names, BlockRemoveInv, RemovedInv, OwnerLeavesInv, ReplaceInv, CloseConnInv
     DEF OwnerStep
<1>3. ASSUME PollStep \/ PeerStep, UNCHANGED aborted PROVE Inv'
  BY <1>3, PollHeadInv, PollWaitsInv, PollReadInv, PeerInv DEF PollStep
<1>4. CASE UNCHANGED vars
  <2>1. UNCHANGED <<dead, wpdu, rpdu, refs, watched, callback, pending_change, pipe, poll,
                    threads, stream, taken, incoming, arrived, shut, gone, aborted>>
    BY <1>4 DEF vars, conn, polling, socket, peer
  <2>2. TypeConn' /\ TypePoll' /\ TypeSocket' /\ aborted' \in BOOLEAN
    BY <2>1 DEF Inv, Types, TypeConn, TypePoll, TypeSocket
  <2>3. QED BY <2>1, <2>2, FrameInv
<1>5. ASSUME NEW t \in Threads, SpuriousReturn(t), UNCHANGED aborted PROVE Inv'
  BY <1>5, SpuriousInv
<1>6. QED BY <1>1, <1>2, <1>3, <1>4, <1>5, PollWriteInv, PollCallsNobodyInv DEF Next, Others

-----------------------------------------------------------------------------
(* Where the poll thread is *)

LEMMA InitAway == Init => Away
<1> SUFFICES ASSUME Init PROVE Away
  OBVIOUS
<1>1. \A t \in Threads : thread[t] = "idle"
  BY DEF Init
<1>2. poll.at = "head" /\ poll.rd = FALSE /\ poll.wr = FALSE /\ spurious = FALSE
  BY DEF Init
<1>3. QED BY <1>1, <1>2 DEF Away

\* A step that leaves the poll thread where it is, and sends no thread to the places
\* of block_remove_fd
LEMMA AwayKept ==
  ASSUME Away, UNCHANGED <<poll, spurious>>,
         \A t \in Threads : thread'[t] \in {"removing", "removed"} => thread'[t] = thread[t],
         UNCHANGED <<watched, callback>>
  PROVE  Away'
BY DEF Away, Unready

\* Where the senders and the owner go
LEMMA GotoAway ==
  ASSUME TypeThreads, Away, NEW t \in Threads, NEW w, w \notin {"removing", "removed"},
         thread' = [thread EXCEPT ![t] = w], UNCHANGED <<poll, spurious, watched, callback>>
  PROVE  Away'
<1>1. \A u \in Threads : thread'[u] \in {"removing", "removed"} => thread'[u] = thread[u]
  BY DEF TypeThreads
<1>2. QED BY <1>1, AwayKept

\* Nobody is removing a connection that lives.
LEMMA LiveNobodyLeaves ==
  ASSUME Inv, ~dead PROVE \A t \in Threads : thread[t] \notin EndPlaces
BY DEF Inv, Roles, OwnerRole, Holder, Threads, EndPlaces

LEMMA SendHeadAway ==
  ASSUME Inv, Away, NEW s \in Senders, SendHead(s), UNCHANGED spurious PROVE Away'
<1>1. TypeThreads /\ s \in Threads
  BY Names DEF Inv, Types
<1>2. CASE SendRefused(s)
  BY <1>1, <1>2, GotoAway DEF SendRefused, Goto, polling
<1>3. CASE SendWaits(s)
  BY <1>1, <1>3, GotoAway DEF SendWaits, Goto, polling
<1>4. CASE SendStarts(s)
  <2>1. ~dead /\ UNCHANGED poll
    BY <1>4 DEF SendStarts
  <2>2. \E w \in {"failed", "sent", "complete"} : thread' = [thread EXCEPT ![s] = w]
    BY <1>4 DEF SendStarts, Goto, Returns
  <2>3. \A u \in Threads : thread'[u] \notin {"removing", "removed"}
    BY <1>1, <2>1, <2>2, LiveNobodyLeaves DEF EndPlaces, TypeThreads
  <2>4. callback' = callback \/ callback' = TRUE
    BY <1>4 DEF SendStarts, AddWriteCallback
  <2>5. QED BY <2>1, <2>3, <2>4 DEF Away
<1>5. QED BY <1>2, <1>3, <1>4 DEF SendHead

LEMMA RemoveAway ==
  ASSUME Inv, Away, NEW t \in Threads, BlockRemove(t) \/ Removed(t), UNCHANGED spurious
  PROVE  Away'
<1>1. TypeThreads
  BY DEF Inv, Types
<1>2. CASE BlockRemove(t)
  <2>1. /\ watched' = {} /\ UNCHANGED <<poll, callback>> /\ thread[t] = "failed"
        /\ thread' = [thread EXCEPT ![t] = "removing"]
    BY <1>2 DEF BlockRemove, Goto
  <2>2. \A u \in Threads : thread'[u] = "removed" => thread[u] = "removed"
    BY <1>1, <2>1 DEF TypeThreads
  <2>3. QED BY <2>1, <2>2 DEF Away, Unready
<1>3. CASE Removed(t)
  <2>1. /\ UNCHANGED <<poll, watched>> /\ thread[t] = "removed"
        /\ thread' = [thread EXCEPT ![t] = "closed"]
    BY <1>3 DEF Removed, Goto
  <2>2. \A u \in Threads : thread'[u] \in {"removing", "removed"} => thread'[u] = thread[u]
    BY <1>1, <2>1 DEF TypeThreads
  <2>3. ~spurious => poll.at \notin {"reading", "writing"}
    BY <2>1 DEF Away, Unready
  <2>4. QED BY <2>1, <2>2, <2>3 DEF Away, Unready
<1>4. QED BY <1>2, <1>3

LEMMA SpuriousAway ==
  ASSUME Inv, Away, NEW t \in Threads, SpuriousReturn(t) PROVE Away'
<1>1. /\ UNCHANGED <<poll, watched>> /\ thread[t] = "removing" /\ spurious' = TRUE
      /\ thread' = [thread EXCEPT ![t] = "removed"]
  BY DEF SpuriousReturn, Goto, polling
<1>2. \A u \in Threads : thread'[u] \in {"removing", "removed"} =>
                        thread[u] \in {"removing", "removed"}
  BY <1>1 DEF Inv, Types, TypeThreads
<1>3. QED BY <1>1, <1>2 DEF Away

LEMMA ThreadsAway ==
  ASSUME Inv, Away, UNCHANGED spurious,
         (\E s \in Senders : TakeReference(s) \/ SenderStep(s)) \/ OwnerStep \/ Replace \/ CloseConn
  PROVE  Away'
<1>1. TypeThreads /\ Owner \in Threads /\ \A s \in Senders : s \in Threads
  BY Names DEF Inv, Types
<1>2. ASSUME NEW s \in Senders, TakeReference(s) \/ DropReference(s) PROVE Away'
  BY <1>1, <1>2, GotoAway DEF TakeReference, DropReference, Goto, polling
<1>3. ASSUME NEW s \in Senders, SendCompletes(s) \/ SendFails(s) PROVE Away'
  BY <1>1, <1>3, GotoAway DEF SendCompletes, SendFails, Returns, Goto, polling
<1>4. CASE OwnerLeaves
  BY <1>1, <1>4, GotoAway DEF OwnerLeaves, Goto, polling
<1>5. CASE Replace
  BY <1>5, AwayKept DEF Replace, polling, threads
<1>6. CASE CloseConn
  <2>1. \E w \in {"closed", "failed"} : thread' = [thread EXCEPT ![Owner] = w]
    BY <1>6 DEF CloseConn, Goto
  <2>2. QED BY <1>1, <1>6, <2>1, GotoAway DEF CloseConn, polling
<1>7. QED BY <1>1, <1>2, <1>3, <1>4, <1>5, <1>6, SendHeadAway, RemoveAway
          DEF SenderStep, OwnerStep

LEMMA PollAway ==
  ASSUME Inv, Away, UNCHANGED spurious, PollStep \/ PollWrite PROVE Away'
<1>1. TypePoll
  BY DEF Inv, Types
<1>2. CASE PollHead
  <2>1. /\ UNCHANGED <<watched, callback>> /\ poll.at = "head"
        /\ poll' = [poll EXCEPT !.at = "wait"]
        /\ \A t \in Threads : thread'[t] \in {"removing", "removed"} =>
                               thread[t] \in {"removing", "removed"}
    BY <1>2 DEF PollHead
  <2>2. poll'.at = "wait" /\ ~poll'.rd /\ ~poll'.wr
    BY <1>1, <2>1 DEF TypePoll, Away
  <2>3. QED BY <2>1, <2>2 DEF Away, Unready
<1>3. CASE PollWait
  <2>1. /\ UNCHANGED <<watched, callback, thread>>
        /\ poll' = [at |-> "select", rd |-> "rd" \in watched, wr |-> "wr" \in watched]
    BY <1>3 DEF PollWait, threads
  <2>2. QED BY <2>1 DEF Away, Unready
<1>4. CASE PollReady
  <2>1. PICK rd \in BOOLEAN, wr \in BOOLEAN :
          /\ poll' = [at |-> Loops(rd, wr), rd |-> rd, wr |-> wr]
          /\ rd => poll.rd
          /\ wr => poll.wr
    <3> DEFINE rd == poll.rd /\ Readable  wr == poll.wr /\ Writable
    <3>1. poll' = [at |-> Loops(rd, wr), rd |-> rd, wr |-> wr] /\ rd \in BOOLEAN /\ wr \in BOOLEAN
      BY <1>4 DEF PollReady
    <3>2. (rd => poll.rd) /\ (wr => poll.wr)
      OBVIOUS
    <3> HIDE DEF rd, wr
    <3>3. QED BY <3>1, <3>2
  <2>2. UNCHANGED <<watched, callback, thread>>
    BY <1>4 DEF PollReady, threads
  <2>3. QED BY <2>1, <2>2 DEF Away, Unready, Loops
<1>5. CASE PollTests
  <2>1. /\ UNCHANGED <<watched, callback, thread>> /\ poll.at \in {"read", "write"}
        /\ poll'.rd = FALSE
        /\ poll'.at \in {"reading", "writing"} => callback
        /\ poll'.at \in {"head", "wait"} => ~poll'.wr
    BY <1>1, <1>5 DEF PollTests, PollGoes, Loops, threads, TypePoll
  <2>2. QED BY <2>1 DEF Away, Unready
<1>6. CASE PollRead
  <2>1. /\ poll.at = "reading" /\ UNCHANGED thread /\ watched' \in {watched, {}}
        /\ poll'.rd = FALSE /\ poll'.at \in {"head", "write"}
        /\ poll'.at \in {"head", "wait"} => ~poll'.wr
    <3>1. UNCHANGED thread /\ watched' \in {watched, {}}
      BY <1>6 DEF PollRead, ReadCb, ReadFails, DelBothCallbacks, Signal, threads
    <3>2. poll' = [at |-> Loops(FALSE, poll.wr), rd |-> FALSE, wr |-> poll.wr]
          /\ poll.at = "reading"
      BY <1>6 DEF PollRead, PollGoes
    <3>3. QED BY <1>1, <3>1, <3>2 DEF Loops, TypePoll
  <2>2. QED BY <2>1 DEF Away, Unready
<1>7. CASE PollWrite
  <2>1. /\ poll.at = "writing" /\ UNCHANGED thread /\ watched' \subseteq watched
        /\ poll'.rd = FALSE /\ poll'.wr = FALSE /\ poll'.at = "head"
    <3>1. UNCHANGED thread /\ watched' \subseteq watched
      BY <1>7 DEF PollWrite, WriteCb, DelWriteCallback, DelBothCallbacks, Signal, threads
    <3>2. QED BY <1>7, <3>1 DEF PollWrite, PollGoes
  <2>2. QED BY <2>1 DEF Away, Unready
<1>8. QED BY <1>2, <1>3, <1>4, <1>5, <1>6, <1>7 DEF PollStep

LEMMA StepAway == Inv /\ Away /\ [Next]_vars => Away'
<1> SUFFICES ASSUME Inv, Away, [Next]_vars PROVE Away'
  OBVIOUS
<1>1. CASE UNCHANGED vars
  BY <1>1, AwayKept DEF vars, polling, threads
<1>2. ASSUME PeerStep, UNCHANGED spurious PROVE Away'
  BY <1>2, AwayKept DEF PeerStep, polling, threads
<1>3. ASSUME PollCallsNobody, UNCHANGED spurious PROVE Away'
  BY <1>3, AwayKept DEF PollCallsNobody, polling, threads
<1>4. QED BY <1>1, <1>2, <1>3, ThreadsAway, PollAway, SpuriousAway DEF Next, Others

-----------------------------------------------------------------------------
(* The theorems *)

\* The type invariant of the runs
LEMMA InvTypes == Inv /\ Away => TypeOK
<1> SUFFICES ASSUME Inv, Away PROVE TypeOK
  OBVIOUS
<1>1. refno \in 0..(Cardinality(Senders) + 1)
  <2>1. Cardinality(Users) \in 0..Cardinality(Senders) /\ Cardinality(Senders) \in Nat
    BY UsersCount DEF Users
  <2>2. QED BY <2>1 DEF Inv, Roles, Counted
<1>2. incoming \in 0..MaxIncoming
  BY BoundAssumption DEF Inv, Types, TypeSocket
<1>3. deleted \in BOOLEAN /\ owned \in BOOLEAN
  BY DEF Inv, Roles, Counted
<1>4. QED BY <1>1, <1>2, <1>3
          DEF TypeOK, Inv, Types, TypeConn, TypePoll, TypeThreads, TypeSocket, Places,
              PollPlaces, Away

LEMMA InvWhole == Inv => PdusWhole
<1> SUFFICES ASSUME Inv PROVE PdusWhole
  OBVIOUS
<1>1. InPlace(stream)
  BY DEF Inv, Written
<1>2. ASSUME Len(stream) % PduSize # 0, ~dead PROVE wpdu.buf = stream[Len(stream)][1]
  <2>1. EndsWith(stream, wpdu.buf, wpdu.solong)
    BY <1>2 DEF Inv, Written
  <2>2. wpdu.solong >= 0 /\ wpdu.solong \in Int
    BY <1>2 DEF Inv, Roles, Alive, NoPdu, Types, TypeConn
  <2>3. wpdu.solong # 0
    BY <1>2, <2>1, SizeAssumption DEF EndsWith
  <2>4. stream[Len(stream)] = <<wpdu.buf, wpdu.solong>>
    BY <2>1, <2>2, <2>3 DEF EndsWith
  <2>5. QED BY <2>4
<1>3. QED BY <1>1, <1>2 DEF PdusWhole, InPlace

LEMMA InvDeleted == Inv /\ Away => DeletedUnused
<1> SUFFICES ASSUME Inv, Away PROVE DeletedUnused
  OBVIOUS
<1>1. /\ refno = Cardinality(Users) + (IF owned THEN 1 ELSE 0)
      /\ deleted <=> refno = 0
  BY DEF Inv, Roles, Counted
<1>2. ASSUME deleted PROVE dead /\ wpdu.buf = Nobody /\ ~callback
  <2>1. Cardinality(Users) \in Nat /\ (Cardinality(Users) = 0 <=> Users = {})
    BY UsersCount DEF Users
  <2>2. refno = 0
    BY <1>1, <1>2
  <2>3. Users = {} /\ ~owned
    BY <1>1, <2>1, <2>2
  <2>4. dead
    BY <2>3 DEF Inv, Roles, OwnerRole
  <2>5. \A s \in Senders : thread[s] \in {"idle", "done"}
    BY <2>3 DEF Users
  <2>6. wpdu.buf = Nobody
    BY <2>5 DEF Inv, Roles, Holder, Types, TypeConn, EndPlaces
  <2>7. \A t \in Threads : thread[t] \notin ClosePlaces
    BY <2>3, <2>5 DEF Inv, Roles, OwnerRole, Threads, ClosePlaces, EndPlaces
  <2>8. QED BY <2>4, <2>6, <2>7 DEF Inv, Roles, Removing
<1>3. ASSUME deleted, ~spurious PROVE poll.at \notin {"reading", "writing"}
  BY <1>2, <1>3 DEF Away
<1>4. QED BY <1>1, <1>2, <1>3 DEF DeletedUnused, Users

\* The inductive invariant of a connection: who holds the buffer, who is leaving,
\* what is written and who counts.
THEOREM InvHolds == Spec => []Inv
<1>1. QED BY InitInv, StepInv, PTL DEF Spec

\* Where the poll thread is between its test of callbacks_[fd] and its call, while
\* others remove the descriptor: the part of the inductive invariant that ends with
\* the first spurious return of block_remove_fd's wait.
THEOREM AwayHolds == Spec => []Away
<1>1. QED BY InitAway, StepAway, InvHolds, PTL DEF Spec

\* Every variable of rpc/connection.cc and rpc/pollmgr.cc keeps its type: refno_ stays
\* between zero and one for the owner and one for each sender.
THEOREM TypeCorrect == Spec => []TypeOK
<1>1. QED BY InvHolds, AwayHolds, InvTypes, PTL

\* However send(), write_cb and the deaths of the connection interleave, the PDUs
\* are on the stream whole and one after the other.
THEOREM PdusStayWhole == Spec => []PdusWhole
<1>1. QED BY InvHolds, InvWhole, PTL

\* A send() that returned TRUE has written its whole PDU, and one that returned FALSE
\* leaves a dead connection behind.
THEOREM TruthTold == Spec => []SendTellsTheTruth
<1>1. Inv => SendTellsTheTruth
  BY DEF Inv
<1>2. QED BY <1>1, InvHolds, PTL

\* The reference counts are right, and decref deletes a connection only when nobody
\* uses it; as long as no wait of block_remove_fd has returned spuriously, the poll
\* thread is then not between its test of callbacks_[fd] and the call either.
THEOREM DeletedRight == Spec => []DeletedUnused
<1>1. QED BY InvHolds, AwayHolds, InvDeleted, PTL

\* No wake-up of send_wait_ or send_complete_ is lost.
THEOREM NobodySleepsOn == Spec => []NobodyForgotten
<1>1. Inv => NobodyForgotten
  BY DEF Inv
<1>2. QED BY <1>1, InvHolds, PTL

=============================================================================
