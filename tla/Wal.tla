-------------------------------- MODULE Wal --------------------------------
(***************************************************************************)
(* The write-ahead log of handson1/wal-sys.py: transactions on accounts, a *)
(* log, and recovery after a crash, in redo or in undo mode.               *)
(*                                                                         *)
(* do_crash(), which a command or SIGINT calls, may come at any moment: a  *)
(* command that logs and then writes is two steps.  The dump of the        *)
(* database that do_crash() makes is all of the database that survives.    *)
(*                                                                         *)
(* A tid is for one transaction here, which the program does not check of  *)
(* begin.  Two transactions may work on one account, in any order, and     *)
(* after a restart an account may be created that is on disk: clashed says *)
(* of which accounts recovery then makes no promise.                       *)
(***************************************************************************)
EXTENDS Naturals, Sequences, FiniteSets, SequencesExt

CONSTANTS Accounts, Values,
          Absent,          \* no such account
          MaxTid,          \* bound: transactions
          MaxUpdates,      \* bound: updates
          MaxCheckpoints,  \* bound
          MaxCrashes       \* bound

ASSUME ValueAssumption == Absent \notin Values
ASSUME BoundAssumption == MaxTid \in Nat

VARIABLES
  mode, up,
  LOG, DB,          \* the files
  \* lost when the process ends
  tid_stat, current_db, on_disk_db, pending_writes,
  step,             \* the command that has logged or flushed and is not done
  \* history
  committed,        \* the accounts as the committed transactions left them
  clashed,          \* the accounts that were not used alone
  crashes,
  undumped          \* the process has ended without do_crash()

volatile == <<tid_stat, current_db, on_disk_db, pending_writes, step>>
history == <<committed, clashed, crashes, undumped>>
vars == <<mode, up, LOG, DB, volatile, history>>

Tids == 1..MaxTid
NoAccounts == [a \in Accounts |-> Absent]
NoStep == [at |-> "none"]

\* The lines of the log
START(t) == [type |-> "START", tid |-> t]
UPDATE(t, a, old, v) == [type |-> "UPDATE", tid |-> t, variable |-> a, undo |-> old, redo |-> v]
OUTCOME(t, s) == [type |-> "OUTCOME", tid |-> t, status |-> s]
END(t) == [type |-> "END", tid |-> t]
CHECKPOINT(pending, ending, done) ==
  [type |-> "CHECKPOINT", pending |-> pending, committed |-> ending, done |-> done]

\* The places of the updates of t in the log
UpdatesOf(t) == {i \in DOMAIN LOG : LOG[i].type = "UPDATE" /\ LOG[i].tid = t}

Forgotten ==
  /\ tid_stat' = [t \in Tids |-> "not initialized"]
  /\ current_db' = NoAccounts /\ pending_writes' = <<>> /\ step' = NoStep

Init ==
  /\ mode \in {"redo", "undo"} /\ up = TRUE
  /\ LOG = <<>> /\ DB = NoAccounts
  /\ tid_stat = [t \in Tids |-> "not initialized"]
  /\ current_db = NoAccounts /\ on_disk_db = NoAccounts
  /\ pending_writes = <<>> /\ step = NoStep
  /\ committed = NoAccounts /\ clashed = {} /\ crashes = 0 /\ undumped = FALSE

-----------------------------------------------------------------------------
(* Commands *)

Ready == up /\ step = NoStep
InLog(type) == {i \in DOMAIN LOG : LOG[i].type = type}

\* begin, with the next fresh tid
Begin(t) ==
  /\ Ready /\ t = Cardinality(InLog("START")) + 1
  /\ tid_stat' = [tid_stat EXCEPT ![t] = "COMMITING"]
  /\ LOG' = Append(LOG, START(t))
  /\ UNCHANGED <<mode, up, DB, current_db, on_disk_db, pending_writes, step, history>>

\* The transactions of this process whose updates may still be undone, or have
\* still to be flushed and might be redone
Unsettled == {t \in Tids : tid_stat[t] = "COMMITING"
                           \/ (mode = "redo" /\ tid_stat[t] = "ENDING")}
\* Nobody else is at work on the account, and in undo mode it is not created when it
\* is there: recover leaves current_db empty.  is_valid_command asks neither.
UsedAlone(t, a) ==
  /\ \A u \in Unsettled \ {t} : \A i \in UpdatesOf(u) : LOG[i].variable # a
  /\ mode = "undo" /\ current_db[a] = Absent => on_disk_db[a] = Absent

\* create_account of an account current_db does not have; write, debit_account
\* and credit_account of one it has: as far as the line of the log ...
LogUpdate(t, a, v) ==
  /\ Ready /\ tid_stat[t] = "COMMITING"
  /\ Cardinality(InLog("UPDATE")) < MaxUpdates
  /\ LOG' = Append(LOG, UPDATE(t, a, current_db[a], v))
  /\ step' = [at |-> "write", tid |-> t, variable |-> a, value |-> v]
  /\ clashed' = clashed \union IF UsedAlone(t, a) THEN {} ELSE {a}
  /\ UNCHANGED <<mode, up, DB, tid_stat, current_db, on_disk_db, pending_writes,
                 committed, crashes, undumped>>

\* ... and the write, at once in undo mode
WriteToDisk ==
  /\ up /\ step.at = "write"
  /\ current_db' = [current_db EXCEPT ![step.variable] = step.value]
  /\ IF mode = "undo"
     THEN /\ on_disk_db' = [on_disk_db EXCEPT ![step.variable] = step.value]
          /\ UNCHANGED pending_writes
     ELSE /\ pending_writes' = Append(pending_writes, <<step.tid, step.variable, step.value>>)
          /\ UNCHANGED on_disk_db
  /\ step' = NoStep
  /\ UNCHANGED <<mode, up, LOG, DB, tid_stat, history>>

\* What the updates at these places of the log, one after the other, make of db: an
\* account gets what the last of its updates gives it.
Replayed(db, log, places) ==
  [a \in Accounts |-> LET of == {i \in places : log[i].variable = a}
                       IN  IF of = {} THEN db[a] ELSE log[Max(of)].redo]

Commit(t) ==
  /\ Ready /\ tid_stat[t] = "COMMITING"
  /\ LOG' = Append(LOG, OUTCOME(t, "COMMITTED"))
  /\ tid_stat' = [tid_stat EXCEPT ![t] = "ENDING"]
  /\ committed' = Replayed(committed, LOG, UpdatesOf(t))
  /\ UNCHANGED <<mode, up, DB, current_db, on_disk_db, pending_writes, step,
                 clashed, crashes, undumped>>

\* end: flush_updates, write after write, then the line of the log
End(t) ==
  /\ Ready /\ tid_stat[t] = "ENDING"
  /\ step' = [at |-> "flush", tid |-> t, next |-> 1]
  /\ UNCHANGED <<mode, up, LOG, DB, tid_stat, current_db, on_disk_db, pending_writes, history>>

\* faulty variant: the loop starts at the second write
ToFlushFromSecond == {i \in DOMAIN pending_writes :
                      i > step.next /\ pending_writes[i][1] = step.tid}
ToFlush == {i \in DOMAIN pending_writes :
            i >= step.next /\ pending_writes[i][1] = step.tid}

FlushNext == \E i \in ToFlush :
  /\ \A j \in ToFlush : i <= j
  /\ on_disk_db' = [on_disk_db EXCEPT ![pending_writes[i][2]] = pending_writes[i][3]]
  /\ step' = [step EXCEPT !.next = i + 1]
  /\ UNCHANGED <<LOG, tid_stat>>

LogEnd ==
  /\ ToFlush = {}
  /\ LOG' = Append(LOG, END(step.tid))
  /\ tid_stat' = [tid_stat EXCEPT ![step.tid] = "DONE"]
  /\ step' = NoStep /\ UNCHANGED on_disk_db

Flush ==
  /\ up /\ step.at = "flush"
  /\ FlushNext \/ LogEnd
  /\ UNCHANGED <<mode, up, DB, current_db, pending_writes, history>>

WithStat(s) == {t \in Tids : tid_stat[t] = s}
Checkpoint ==
  /\ Ready /\ Cardinality(InLog("CHECKPOINT")) < MaxCheckpoints
  /\ LOG' = Append(LOG, CHECKPOINT(WithStat("COMMITING"), WithStat("ENDING"), WithStat("DONE")))
  /\ UNCHANGED <<mode, up, DB, volatile, history>>

-----------------------------------------------------------------------------
(* Crashes *)

Crash ==
  /\ up /\ crashes < MaxCrashes
  /\ up' = FALSE /\ DB' = on_disk_db
  /\ on_disk_db' = NoAccounts /\ Forgotten
  /\ crashes' = crashes + 1
  /\ UNCHANGED <<mode, LOG, committed, clashed, undumped>>

\* abort, which calls a function that does not exist, and the end of the input:
\* an exception ends the process, and the database is not dumped.
Dies ==
  /\ Ready /\ crashes < MaxCrashes
  /\ up' = FALSE /\ undumped' = TRUE
  /\ on_disk_db' = NoAccounts /\ Forgotten
  /\ crashes' = crashes + 1
  /\ UNCHANGED <<mode, LOG, DB, committed, clashed>>

-----------------------------------------------------------------------------
(* Recovery: recover, roll_back and forward_scan *)

\* Where roll_back has got to.  pw and pl are pending_winners and
\* pending_losers; over: it has stopped; died: an exception was raised.
Start(db) == [db |-> db, winners |-> [t \in Tids |-> "none"], losers |-> {}, done |-> {},
              pw |-> {}, pl |-> {}, done_cp |-> FALSE, over |-> FALSE, died |-> FALSE]

IsWinner(r, t) == r.winners[t] # "none"

\* undo_update; deleting what is not there raises KeyError
Undone(r, e) == [r EXCEPT !.db[e.variable] = e.undo,
                          !.died = @ \/ (e.undo = Absent /\ r.db[e.variable] = Absent)]

\* faulty variant: a pending transaction is lost even if it has committed since
AtCheckpointAll(r, e) ==
  LET lost == e.pending \ r.done
  IN [r EXCEPT !.losers = @ \cup lost, !.pl = @ \cup lost,
               !.died = @ \/ ~(e.committed \subseteq r.done),
               !.done = @ \cup e.done, !.done_cp = TRUE]

\* A line CHECKPOINT.  winners[...] = EMPTY names nothing: NameError
AtCheckpoint(r, e) ==
  LET lost == {t \in e.pending : ~IsWinner(r, t)} \ r.done
  IN [r EXCEPT !.losers = @ \cup lost, !.pl = @ \cup lost,
               !.died = @ \/ ~(e.committed \subseteq r.done),
               !.done = @ \cup e.done, !.done_cp = TRUE]

AtStart(r, t) == [r EXCEPT !.pw = @ \ {t}, !.pl = @ \ {t}]

\* A line older than the last checkpoint
BeforeCheckpoint(r, e) ==
  IF (mode = "redo" /\ r.pw = {}) \/ (mode = "undo" /\ r.pl = {})
  THEN [r EXCEPT !.over = TRUE]
  ELSE CASE e.type = "OUTCOME" /\ IsWinner(r, e.tid) -> [r EXCEPT !.winners[e.tid] = e.status]
         [] e.type = "START" -> AtStart(r, e.tid)
         [] e.type = "UPDATE" /\ e.tid \in r.losers /\ mode = "undo" -> Undone(r, e)
         [] OTHER -> r

\* A line after it, or of a log without one
AfterCheckpoint(r, e) ==
  LET t == e.tid
      ended == IF e.type = "END" THEN [r EXCEPT !.done = @ \cup {t}] ELSE r
      told == IF e.type = "OUTCOME" /\ t \notin ended.done \cup ended.losers
              THEN [ended EXCEPT !.winners[t] = e.status, !.pw = @ \cup {t}] ELSE ended
      loses == ~IsWinner(told, t) /\ t \notin told.done
      lost == IF loses /\ t \notin told.losers
              THEN [told EXCEPT !.losers = @ \cup {t}, !.pl = @ \cup {t}] ELSE told
  IN CASE e.type = "START" -> AtStart(lost, t)
       [] e.type = "UPDATE" /\ loses /\ mode = "undo" -> Undone(lost, e)
       [] OTHER -> lost

Line(r, e) ==
  IF r.over \/ r.died THEN r
  ELSE IF e.type = "CHECKPOINT" THEN AtCheckpoint(r, e)
  ELSE IF r.done_cp THEN BeforeCheckpoint(r, e)
  ELSE AfterCheckpoint(r, e)

\* The log is read backwards: scan[k] is where the lines from k on have led to.
Scan(log, db) ==
  LET scan[k \in 1..Len(log)+1] ==
        IF k = Len(log)+1 THEN Start(db) ELSE Line(scan[k+1], log[k])
  IN  scan
RollBack(log, db) == Scan(log, db)[1]

\* forward_scan
ForwardScan(log, r) ==
  Replayed(r.db, log, {i \in DOMAIN log : log[i].type = "UPDATE"
                                          /\ r.winners[log[i].tid] = "COMMITTED"})

\* One line for each tid, in the order of a Python dictionary or set
Ends(S) == LET tids == SetToSeq(S) IN [i \in 1..Cardinality(S) |-> END(tids[i])]
Aborts(S) == LET tids == SetToSeq(S) IN [i \in 1..Cardinality(S) |-> OUTCOME(tids[i], "ABORTED")]

\* faulty variant: nothing is noted of losers
ConclusionsForWinners(r) == Ends({t \in Tids : IsWinner(r, t)})

\* What recovery adds to the log: END for winners, ABORTED for losers
Conclusions(r) ==
  IF mode = "redo" THEN Ends({t \in Tids : IsWinner(r, t)})
  ELSE Aborts(r.losers)

Recovered(log, db) ==
  LET r == RollBack(log, db) IN
  [died |-> r.died, lines |-> Conclusions(r),
   db |-> IF mode = "redo" THEN ForwardScan(log, r) ELSE r.db]

\* The global current_db stays empty: recover assigns to a local of that name.
Recover ==
  LET r == Recovered(LOG, DB) IN
  /\ ~up /\ ~r.died
  /\ up' = TRUE
  /\ on_disk_db' = r.db /\ LOG' = LOG \o r.lines
  /\ UNCHANGED <<mode, DB, tid_stat, current_db, pending_writes, step, history>>

Next ==
  \/ \E t \in Tids : Begin(t) \/ Commit(t) \/ End(t)
                     \/ \E a \in Accounts, v \in Values : LogUpdate(t, a, v)
  \/ WriteToDisk \/ Flush \/ Checkpoint
  \/ Crash \/ Dies \/ Recover

Spec == Init /\ [][Next]_vars
-----------------------------------------------------------------------------
(* Properties *)

\* What a crash at this moment would leave to recovery
AfterCrash == Recovered(LOG, IF up THEN on_disk_db ELSE DB)

\* The point of the log: at whatever moment do_crash() is called, recovery
\* leaves in an account what the committed transactions wrote, all of it and nothing
\* else, if no two worked on it at a time: in redo mode until end, for forward_scan
\* writes what it finds committed and not ended over what a later one has flushed.
\* So does a second crash after it.  (recover)
Survivable ==
  ~undumped /\ ~AfterCrash.died =>
    \A a \in Accounts \ clashed : AfterCrash.db[a] = committed[a]

\* Recovery comes to its end, but for two cases: a checkpoint taken between a
\* commit and its end, and in undo mode a crash that finds create_account
\* logged and not written.
RecoveryEnds == ~undumped /\ AfterCrash.died =>
  \/ \E i \in InLog("CHECKPOINT") : LOG[i].committed # {}
  \/ mode = "undo" /\ \E i \in InLog("UPDATE") : LOG[i].undo = Absent
       /\ \A j \in DOMAIN LOG : j > i => LOG[j].type = "CHECKPOINT"

\* No transaction is told to have committed and to have aborted, by the log as
\* it is and as recovery would leave it.
OneOutcome ==
  LET log == IF undumped \/ AfterCrash.died THEN LOG ELSE LOG \o AfterCrash.lines
  IN \A i, j \in DOMAIN log :
       log[i].type = "OUTCOME" /\ log[j].type = "OUTCOME" /\ log[i].tid = log[j].tid
         => log[i].status = log[j].status

\* Nothing is promised of a database that was not dumped.
Dumped == ~undumped
=============================================================================
