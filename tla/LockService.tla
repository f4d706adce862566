---------------------------- MODULE LockService ----------------------------
(***************************************************************************)
(* What the caching lock service promises to the threads that use it.      *)
(*                                                                         *)
(* The right to use the lock is owned by one client process at a time, in  *)
(* the order in which the clients were queued: the owner is the head of    *)
(* `line`.  The owner keeps the right for as long as it likes and lets its *)
(* own threads enter one after the other; it leaves the head of the line   *)
(* only when none of its threads is inside.  LockCache is shown to         *)
(* implement this specification.                                           *)
(***************************************************************************)
EXTENDS Sequences, Naturals

CONSTANTS Clients, Threads

VARIABLES line,   \* the clients that own or wait for the right, head first
          inside  \* the threads that hold the lock, as <<client, thread>>

svars == <<line, inside>>

Queued == {line[i] : i \in DOMAIN line}

SInit == line = << >> /\ inside = {}

\* Client c asks for the right: at most one place in the line per client.
Join(c) ==
  /\ c \notin Queued
  /\ line' = Append(line, c)
  /\ UNCHANGED inside

\* A thread of the owner enters while no thread is inside.
Enter(c, t) ==
  /\ line # << >>
  /\ Head(line) = c
  /\ inside = {}
  /\ inside' = {<<c, t>>}
  /\ UNCHANGED line

\* The thread inside leaves; its client still owns the right.
Leave(c, t) ==
  /\ <<c, t>> \in inside
  /\ inside' = inside \ {<<c, t>>}
  /\ UNCHANGED line

\* The owner gives the right up to the next client in the line.
PassOn ==
  /\ Len(line) > 1
  /\ inside = {}
  /\ line' = Tail(line)
  /\ UNCHANGED inside

SNext ==
  \/ \E c \in Clients : Join(c)
  \/ \E c \in Clients, t \in Threads : Enter(c, t) \/ Leave(c, t)
  \/ PassOn

SSpec == SInit /\ [][SNext]_svars
=============================================================================
