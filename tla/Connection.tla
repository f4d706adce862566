----------------------------- MODULE Connection -----------------------------
(***************************************************************************)
(* One rpc/connection: the threads that send on it, the thread of PollMgr  *)
(* that calls back when its socket is ready, and the reference counts that *)
(* decide when it is deleted.                                              *)
(*                                                                         *)
(* A thread's step is what it does under connection::m_ or PollMgr::m_     *)
(* without letting go of it.  Senders and the owner (rpcc's chan_ or the   *)
(* map of tcpsconn) are the threads that may mark the connection dead and  *)
(* then wait in block_remove_fd for the poll thread to come round.  The    *)
(* poll thread tests callbacks_[fd] and calls through it without a lock:   *)
(* two steps.                                                              *)
(*                                                                         *)
(* A PDU is written in PduSize pieces into a socket that buffers Window of *)
(* them.  A PDU that comes in has two pieces, its size and its body.       *)
(***************************************************************************)
EXTENDS Integers, Sequences, FiniteSets

CONSTANTS Senders,     \* threads with one PDU to send each
          Owner,
          Nobody,
          PduSize,     \* pieces of a PDU going out
          Window,      \* pieces the socket buffers
          MaxIncoming  \* bound: pieces the peer sends

ASSUME SizeAssumption == PduSize \in Nat \ {0} /\ Window \in Nat \ {0}
ASSUME BoundAssumption == MaxIncoming \in Nat
ASSUME ThreadAssumption ==
  IsFiniteSet(Senders) /\ Owner \notin Senders /\ Nobody \notin Senders

VARIABLES
  \* connection
  dead, wpdu, rpdu, refno, deleted,
  \* PollMgr and SelectAIO, for this connection's fd
  watched, callback, pending_change, pipe,
  poll,      \* where wait_loop is, and what it found ready
  \* the threads
  thread,    \* where each is
  awake,     \* those that a condition variable has woken
  result,    \* what send returned
  owned,     \* the owner still counts among the references
  \* the socket
  stream,    \* the pieces written so far
  taken,     \* how many of them the peer has read
  incoming,  \* pieces from the peer waiting to be read
  arrived,   \* pieces the peer has sent
  shut,      \* shutdown(fd) on this side
  gone,      \* the peer is closed
  aborted,   \* the process is over: a VERIFY failed, or a callback was gone
  \* history
  spurious   \* a wait of block_remove_fd has returned with nobody's broadcast

conn == <<dead, wpdu, rpdu>>
refs == <<refno, deleted, owned>>
polling == <<watched, callback, pending_change, pipe, poll>>
threads == <<thread, awake, result>>
peer == <<taken, incoming, arrived, gone>>
socket == <<stream, shut, peer>>
vars == <<conn, refs, polling, threads, socket, aborted, spurious>>

Threads == Senders \cup {Owner}
NoPdu == [buf |-> Nobody, sz |-> 0, solong |-> 0]

Init ==
  /\ dead = FALSE /\ wpdu = NoPdu /\ rpdu = 0
  /\ refno = 1 /\ deleted = FALSE /\ owned = TRUE
  /\ watched = {"rd"} /\ callback = TRUE /\ pending_change = FALSE
  /\ pipe = 1 /\ poll = [at |-> "head", rd |-> FALSE, wr |-> FALSE]
  /\ thread = [t \in Threads |-> "idle"] /\ awake = {}
  /\ result = [s \in Senders |-> "none"]
  /\ stream = <<>> /\ taken = 0 /\ incoming = 0 /\ arrived = 0
  /\ shut = FALSE /\ gone = FALSE /\ aborted = FALSE /\ spurious = FALSE

Goto(t, where) ==
  /\ thread' = [thread EXCEPT ![t] = where]
  /\ awake' = awake \ {t}

-----------------------------------------------------------------------------
(* The socket *)

Room == Window - (Len(stream) - taken)
Readable == incoming > 0 \/ shut \/ gone
Writable == Room > 0 \/ shut \/ gone

\* write() refuses: any error but EAGAIN
WriteFails(off) == off \/ gone

\* faulty variants: a whole PDU is written on, and a PDU is begun afresh
WriteTakesMore(off, p, n) ==
  /\ ~off /\ n <= Room /\ (n = 0 => Room = 0 /\ ~gone)
PiecesAfresh(p, n) == [i \in 1..n |-> <<p.buf, i>>]

\* write() takes n more pieces of the PDU p.  None is EAGAIN: the buffer is
\* full, which for a peer that has closed ends in an error instead.
WriteTakes(off, p, n) ==
  /\ ~off
  /\ n \in 0..(p.sz - p.solong) /\ n <= Room /\ (n = 0 => Room = 0 /\ ~gone)

Pieces(p, n) == [i \in 1..n |-> <<p.buf, p.solong + i>>]

\* The network and the other end
PeerTakes == ~gone /\ taken < Len(stream) /\ taken' = taken + 1
             /\ UNCHANGED <<incoming, arrived, gone>>
PeerSends == ~gone /\ ~shut /\ arrived < MaxIncoming
             /\ arrived' = arrived + 1 /\ incoming' = incoming + 1
             /\ UNCHANGED <<taken, gone>>
PeerCloses == ~gone /\ gone' = TRUE /\ UNCHANGED <<taken, incoming, arrived>>
PeerStep == /\ PeerTakes \/ PeerSends \/ PeerCloses
            /\ UNCHANGED <<conn, refs, polling, threads, stream, shut>>

-----------------------------------------------------------------------------
(* PollMgr's calls *)

AddWriteCallback ==
  /\ watched' = watched \cup {"wr"} /\ callback' = TRUE /\ pipe' = pipe + 1

DelWriteCallback ==
  /\ watched' = watched \ {"wr"}
  /\ callback' = (callback /\ "rd" \in watched)
  /\ pipe' = pipe

DelBothCallbacks == watched' = {} /\ callback' = FALSE /\ pipe' = pipe + 1

\* block_remove_fd as far as its wait
BlockRemove(t) ==
  /\ thread[t] = "failed"
  /\ watched' = {} /\ pipe' = pipe + 1 /\ pending_change' = TRUE
  /\ Goto(t, "removing")
  /\ UNCHANGED <<conn, refs, callback, poll, result, socket>>

\* The wait is not in a loop: a spurious wake-up ends it, with the poll thread
\* anywhere.
SpuriousReturn(t) ==
  /\ thread[t] = "removing"
  /\ Goto(t, "removed") /\ spurious' = TRUE
  /\ UNCHANGED <<conn, refs, polling, result, socket>>

\* ... and after it
Removed(t) ==
  /\ thread[t] = "removed"
  /\ callback' = FALSE /\ Goto(t, "closed")
  /\ UNCHANGED <<conn, refs, watched, pending_change, pipe, poll, result, socket>>

-----------------------------------------------------------------------------
(* Senders *)

Waiting(where) == {t \in Threads : thread[t] = where}

\* get_refconn, and got_pdu for the thread that will answer: a reference to
\* a connection that is alive
TakeReference(s) ==
  /\ thread[s] = "idle" /\ owned /\ ~dead
  /\ refno' = refno + 1 /\ Goto(s, "ready")
  /\ UNCHANGED <<conn, deleted, owned, polling, result, socket>>

\* faulty variants
ReturnsSilently(s, ret) ==
  /\ wpdu' = NoPdu /\ Goto(s, "sent")
  /\ result' = [result EXCEPT ![s] = IF ret THEN "sent" ELSE "failed"]
ReturnsAnyway(s, ret) ==
  /\ wpdu' = NoPdu
  /\ thread' = [thread EXCEPT ![s] = "sent"]
  /\ awake' = (awake \ {s}) \cup Waiting("turn")
  /\ result' = [result EXCEPT ![s] = "sent"]

\* The end of send(): give up the buffer and wake those who wait for it.
Returns(s, ret) ==
  /\ wpdu' = NoPdu
  /\ thread' = [thread EXCEPT ![s] = "sent"]
  /\ awake' = (awake \ {s}) \cup Waiting("turn")
  /\ result' = [result EXCEPT ![s] = IF ret THEN "sent" ELSE "failed"]

\* The head of send(), where a sender comes back each time it is woken
SendRefused(s) ==
  /\ dead
  /\ Goto(s, "sent") /\ result' = [result EXCEPT ![s] = "failed"]
  /\ UNCHANGED <<conn, polling, stream, shut>>

SendWaits(s) ==
  /\ ~dead /\ wpdu.buf # Nobody
  /\ Goto(s, "turn")
  /\ UNCHANGED <<conn, result, polling, stream, shut>>

\* A lossy connection may shut its own socket before it writes.
SendStarts(s) == \E off \in {shut, TRUE} :
  LET pdu == [buf |-> s, sz |-> PduSize, solong |-> 0] IN
  /\ ~dead /\ wpdu.buf = Nobody
  /\ shut' = off
  /\ UNCHANGED <<rpdu, pending_change, poll>>
  /\ \/ /\ WriteFails(off)
        /\ dead' = TRUE /\ wpdu' = [pdu EXCEPT !.sz = 0, !.solong = -1]
        /\ Goto(s, "failed")
        /\ UNCHANGED <<result, stream, watched, callback, pipe>>
     \/ \E n \in 0..PduSize :
        /\ WriteTakes(off, pdu, n)
        /\ dead' = dead /\ stream' = stream \o Pieces(pdu, n)
        /\ IF n = PduSize
           THEN Returns(s, TRUE) /\ UNCHANGED <<watched, callback, pipe>>
           ELSE /\ wpdu' = [pdu EXCEPT !.solong = n]
                /\ AddWriteCallback /\ Goto(s, "complete") /\ result' = result

SendHead(s) ==
  /\ thread[s] = "ready" \/ (thread[s] = "turn" /\ s \in awake)
  /\ SendRefused(s) \/ SendWaits(s) \/ SendStarts(s)
  /\ UNCHANGED <<refs, peer>>

\* Woken while it waits for write_cb to write the rest
SendCompletes(s) ==
  /\ thread[s] = "complete" /\ s \in awake
  /\ IF ~dead /\ wpdu.solong \in 0..(wpdu.sz - 1)
     THEN Goto(s, "complete") /\ UNCHANGED <<wpdu, result>>
     ELSE Returns(s, ~dead /\ wpdu.solong = wpdu.sz)
  /\ UNCHANGED <<dead, rpdu, refs, polling, socket>>

\* The rest of send() after block_remove_fd
SendFails(s) ==
  /\ thread[s] = "closed"
  /\ Returns(s, ~dead /\ wpdu.solong = wpdu.sz)
  /\ UNCHANGED <<dead, rpdu, refs, polling, socket>>

\* faulty variant: the connection goes with its last user, dead or not
DecrefForgetsOwner == /\ refno' = refno - 1
                      /\ deleted' = (deleted \/ (refno <= 2 /\ dead))

\* decref
Decref == /\ refno' = refno - 1
          /\ deleted' = (deleted \/ (refno = 1 /\ dead))

DropReference(s) ==
  /\ thread[s] = "sent" /\ Decref /\ Goto(s, "done")
  /\ UNCHANGED <<conn, owned, polling, result, socket>>

-----------------------------------------------------------------------------
(* The owner *)

\* get_refconn and process_accept let go of a connection they find dead.
Replace ==
  /\ owned /\ dead /\ thread[Owner] = "idle"
  /\ owned' = FALSE /\ Decref
  /\ UNCHANGED <<conn, polling, threads, socket>>

\* ~rpcc and ~tcpsconn: closeconn(), which does not wait for a connection that is
\* dead already, ...
CloseConn ==
  /\ owned /\ thread[Owner] = "idle"
  /\ Goto(Owner, IF dead THEN "closed" ELSE "failed")
  /\ dead' = TRUE /\ shut' = (shut \/ ~dead)
  /\ UNCHANGED <<wpdu, rpdu, refs, polling, result, stream, peer>>

\* ... then decref()
OwnerLeaves ==
  /\ thread[Owner] = "closed"
  /\ owned' = FALSE /\ Decref /\ Goto(Owner, "done")
  /\ UNCHANGED <<conn, polling, result, socket>>

-----------------------------------------------------------------------------
(* The poll thread: wait_loop, read_cb and write_cb *)

PollHead ==
  /\ poll.at = "head"
  /\ poll' = [poll EXCEPT !.at = "wait"]
  /\ pending_change' = FALSE
  /\ thread' = [t \in Threads |-> IF pending_change /\ thread[t] = "removing"
                                  THEN "removed" ELSE thread[t]]
  /\ UNCHANGED <<conn, refs, watched, callback, pipe, awake, result, socket>>

\* The loops over readable and writable, those with something in them
Loops(rd, wr) == IF rd THEN "read" ELSE IF wr THEN "write" ELSE "head"

\* select() waits on a copy of the sets ...
PollWait ==
  /\ poll.at = "wait"
  /\ poll' = [at |-> "select", rd |-> "rd" \in watched, wr |-> "wr" \in watched]
  /\ UNCHANGED <<conn, refs, watched, callback, pending_change, pipe, threads, socket>>

\* ... and returns once something in it is ready, the pipe included.
PollReady ==
  LET rd == poll.rd /\ Readable  wr == poll.wr /\ Writable IN
  /\ poll.at = "select" /\ (rd \/ wr \/ pipe > 0)
  /\ pipe' = IF pipe > 0 THEN pipe - 1 ELSE 0
  /\ poll' = [at |-> Loops(rd, wr), rd |-> rd, wr |-> wr]
  /\ UNCHANGED <<conn, refs, watched, callback, pending_change, threads, socket>>

PollGoes(where, wr) ==
  poll' = [at |-> where, rd |-> FALSE, wr |-> wr] /\ UNCHANGED pending_change
Signal == awake' = awake \cup Waiting("complete") /\ UNCHANGED <<thread, result>>

\* faulty variant: an end of file is nothing
ReadPduIgnoresEof ==
  {<<IF rpdu + incoming > 2 THEN 2 ELSE rpdu + incoming, TRUE>>}

\* What readpdu may do: the pieces it holds then, and whether it succeeds.
\* When the peer closes inside a PDU, read() returns 0 and readpdu looks at
\* the errno of an earlier call, which may well be EAGAIN.
ReadPdu ==
  LET n == IF rpdu + incoming > 2 THEN 2 ELSE rpdu + incoming
      eof == gone \/ shut
  IN IF n = 0 THEN {<<0, FALSE>>}
     ELSE IF n = 1 /\ eof THEN {<<0, FALSE>>, <<1, TRUE>>}
     ELSE {<<n, TRUE>>}

\* faulty variant: nobody is told
ReadFailsSilently ==
  /\ dead' = TRUE /\ DelBothCallbacks /\ UNCHANGED threads

ReadFails ==
  /\ dead' = TRUE /\ DelBothCallbacks /\ Signal

ReadCb ==
  \/ /\ dead /\ UNCHANGED <<conn, watched, callback, pipe, threads, incoming>>
  \/ /\ ~dead /\ wpdu' = wpdu
     /\ \E r \in IF rpdu = 2 THEN {<<2, TRUE>>} ELSE ReadPdu :
        /\ incoming' = IF r[2] THEN incoming - (r[1] - rpdu)
                       ELSE IF rpdu = 0 THEN 0 ELSE incoming
        /\ IF r[2] THEN UNCHANGED <<dead, watched, callback, pipe, threads>>
           ELSE ReadFails
        \* got_pdu takes a whole PDU, or refuses it and it stays
        /\ rpdu' \in IF r[1] = 2 THEN {0, 2} ELSE {r[1]}

\* if (callbacks_[fd]), for the readable and for the writable
PollTests ==
  /\ \/ /\ poll.at = "read"
        /\ PollGoes(IF callback THEN "reading" ELSE Loops(FALSE, poll.wr), poll.wr)
     \/ /\ poll.at = "write"
        /\ PollGoes(IF callback THEN "writing" ELSE "head", FALSE)
  /\ UNCHANGED <<conn, refs, watched, callback, pipe, threads, socket>>

\* The call finds the connection, but perhaps not the entry of callbacks_, which
\* the test may have left in a register.
PollRead ==
  /\ poll.at = "reading" /\ ~deleted
  /\ PollGoes(Loops(FALSE, poll.wr), poll.wr) /\ ReadCb
  /\ UNCHANGED <<refs, stream, taken, arrived, shut, gone>>

WriteCb ==
  IF wpdu.sz = 0
  THEN DelWriteCallback /\ UNCHANGED <<dead, wpdu, threads, stream>>
  ELSE \/ /\ wpdu.solong < wpdu.sz /\ WriteFails(shut)
          /\ dead' = TRUE /\ wpdu' = [wpdu EXCEPT !.sz = 0, !.solong = -1]
          /\ DelBothCallbacks /\ Signal /\ stream' = stream
       \/ \E n \in 0..PduSize :
          /\ WriteTakes(shut, wpdu, n) \/ (n = 0 /\ wpdu.solong = wpdu.sz)
          /\ stream' = stream \o Pieces(wpdu, n)
          /\ wpdu' = [wpdu EXCEPT !.solong = @ + n]
          /\ IF wpdu'.solong < wpdu.sz THEN UNCHANGED threads ELSE Signal
          /\ UNCHANGED <<dead, watched, callback, pipe>>

PollWrite ==
  /\ poll.at = "writing" /\ ~deleted /\ PollGoes("head", FALSE)
  /\ IF dead THEN UNCHANGED <<dead, wpdu, watched, callback, pipe, threads, stream>>
     ELSE WriteCb
  \* write_cb begins with VERIFY(!dead_)
  /\ aborted' = dead
  /\ UNCHANGED <<rpdu, refs, taken, incoming, arrived, shut, gone>>

\* A call through an entry that is NULL by now, or of a connection that is
\* deleted: anything may follow, and the model ends there.
PollCallsNobody ==
  /\ poll.at \in {"reading", "writing"} /\ (deleted \/ ~callback)
  /\ aborted' = TRUE
  /\ UNCHANGED <<conn, refs, polling, threads, socket>>

-----------------------------------------------------------------------------
SenderStep(s) == \/ SendHead(s) \/ SendCompletes(s) \/ SendFails(s)
                 \/ DropReference(s) \/ BlockRemove(s) \/ Removed(s)
OwnerStep == BlockRemove(Owner) \/ Removed(Owner) \/ OwnerLeaves
PollStep == PollHead \/ PollWait \/ PollReady \/ PollTests \/ PollRead
Others == \/ \E s \in Senders : TakeReference(s) \/ SenderStep(s)
          \/ OwnerStep \/ Replace \/ CloseConn
          \/ PollStep \/ PeerStep

Next == /\ ~aborted
        /\ \/ Others /\ UNCHANGED <<aborted, spurious>>
           \/ \E t \in Threads : SpuriousReturn(t) /\ UNCHANGED aborted
           \/ (PollWrite \/ PollCallsNobody) /\ UNCHANGED spurious

\* Every thread runs on, and a peer that is there goes on reading.  Nobody may
\* count on a spurious wake-up.
Running(A) == ~aborted /\ A /\ UNCHANGED <<aborted, spurious>>
Fairness ==
  /\ \A s \in Senders : WF_vars(Running(SenderStep(s)))
  /\ WF_vars(Running(OwnerStep)) /\ WF_vars(Running(PollStep))
  /\ WF_vars(~aborted /\ (PollWrite \/ PollCallsNobody) /\ UNCHANGED spurious)
  /\ WF_vars(Running(PeerTakes /\ UNCHANGED <<conn, refs, polling, threads, stream, shut>>))

Spec == Init /\ [][Next]_vars /\ Fairness
-----------------------------------------------------------------------------
(* Properties *)

TypeOK ==
  /\ dead \in BOOLEAN /\ deleted \in BOOLEAN /\ owned \in BOOLEAN
  /\ wpdu \in [buf : Senders \cup {Nobody}, sz : {0, PduSize}, solong : -1..PduSize]
  /\ rpdu \in 0..2 /\ refno \in 0..(Cardinality(Senders) + 1)
  /\ watched \subseteq {"rd", "wr"} /\ callback \in BOOLEAN
  /\ pending_change \in BOOLEAN /\ pipe \in Nat
  /\ poll \in [at : {"head", "wait", "select", "read", "reading", "write", "writing"},
               rd : BOOLEAN, wr : BOOLEAN]
  /\ thread \in [Threads -> {"idle", "ready", "turn", "complete", "failed",
                             "removing", "removed", "closed", "sent", "done"}]
  /\ awake \subseteq Senders
  /\ result \in [Senders -> {"none", "sent", "failed"}]
  /\ stream \in Seq(Senders \X (1..PduSize)) /\ taken \in 0..Len(stream)
  /\ incoming \in 0..MaxIncoming /\ arrived \in 0..MaxIncoming
  /\ shut \in BOOLEAN /\ gone \in BOOLEAN /\ aborted \in BOOLEAN
  /\ spurious \in BOOLEAN

\* The peer can tell the PDUs apart: on the stream they follow each other
\* whole and in one piece, and only the last may be cut off, by a sender
\* that is at it still or by the death of the connection.
PdusWhole ==
  /\ \A i \in 1..Len(stream) :
       /\ ((i - 1) % PduSize) + 1 = stream[i][2]
       /\ stream[i][2] # 1 => stream[i][1] = stream[i - 1][1]
  /\ Len(stream) % PduSize # 0 =>
       dead \/ wpdu.buf = stream[Len(stream)][1]

\* What send() tells its caller: after TRUE the whole PDU is on its way,
\* and after FALSE the connection is dead, so the caller will get a new one.
SendTellsTheTruth == \A s \in Senders :
  /\ result[s] = "sent" => \E i \in 1..Len(stream) : stream[i] = <<s, PduSize>>
  /\ result[s] = "failed" => dead

\* A connection is deleted when the last of those who use it is done: no
\* sender holds it, no thread is inside its calls, and the poll thread is not
\* about to call it, unless a wait of block_remove_fd has returned spuriously.
\* (the VERIFYs of the destructor, decref, and what the comment above
\* block_remove_fd guarantees)
DeletedUnused ==
  /\ refno = Cardinality({s \in Senders : thread[s] \notin {"idle", "done"}})
             + (IF owned THEN 1 ELSE 0)
  /\ deleted <=> refno = 0
  /\ deleted => dead /\ wpdu.buf = Nobody /\ ~callback
  /\ deleted /\ ~spurious => poll.at \notin {"reading", "writing"}

\* No wake-up is lost: a sender sleeps for its turn only while another has
\* the buffer, and for its completion only while the poll thread will write.
NobodyForgotten == \A s \in Senders \ awake :
  /\ thread[s] = "turn" => wpdu.buf \notin {Nobody, s}
  /\ thread[s] = "complete" =>
       \/ ~dead /\ "wr" \in watched /\ callback /\ wpdu.solong < wpdu.sz
       \/ thread[Owner] # "idle"

\* While nobody closes the connection and no wait returns spuriously, write_cb
\* never meets a dead one.  (VERIFY(!dead_) in write_cb)
WriteCbAlive == aborted => spurious \/ thread[Owner] # "idle"

\* Every send() returns, unless the connection is closed over its head or
\* the process is over.
SendReturns == \A s \in Senders :
  thread[s] \in {"ready", "turn", "complete", "failed", "removing", "removed", "closed"}
    ~> (thread[s] \in {"sent", "done"} \/ thread[Owner] # "idle" \/ aborted)

\* A peer that closes between two PDUs is noticed: the connection dies.
CloseNoticed == (gone /\ incoming = 0 /\ rpdu = 0) ~> (dead \/ aborted)
=============================================================================
