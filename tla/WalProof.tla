------------------------------ MODULE WalProof ------------------------------
(***************************************************************************)
(* Whenever do_crash() is called, recovery leaves what the committed       *)
(* transactions wrote in every account that was used alone, comes to its   *)
(* end but for two cases, and gives no transaction two outcomes: for any   *)
(* accounts and values, and any number of transactions, updates,           *)
(* checkpoints and crashes.                                                *)
(*                                                                         *)
(* The first half is about roll_back, which reads a log backwards: for     *)
(* every line it says what the scan has found when it has read that line   *)
(* (After, for the lines after the last checkpoint, and Before, for those  *)
(* before it).  The second half is the invariant of the program: the log   *)
(* is well formed, tid_stat agrees with it, and the database together with *)
(* the updates to undo, or to do again, is what has been committed, where  *)
(* no two transactions were at work on an account.                         *)
(***************************************************************************)
EXTENDS Wal, FiniteSetTheorems, SequenceTheorems, NaturalsInduction, TLAPS

-----------------------------------------------------------------------------
(* Sets of numbers *)

\* A set of numbers has a least one.
LEMMA LeastNumber ==
  ASSUME NEW T, T \subseteq Nat, T # {}
  PROVE  \E n \in T : \A m \in T : n <= m
<1>1. PICK n \in T : \A m \in T : <<m, n>> \notin OpToRel(<, Nat)
  BY NatLessThanWellFounded, WFMin, Zenon
<1>2. \A m \in T : ~(m < n)
  BY <1>1, Zenon DEF OpToRel
<1>3. \A m \in T : n <= m
  <2>1. n \in Nat /\ \A m \in T : m \in Nat
    OBVIOUS
  <2> HIDE <1>1
  <2>2. QED BY <1>2, <2>1
<1>4. QED BY <1>3, Zenon

\* A property of all lines of the log, from the last one backwards
LEMMA Backwards ==
  ASSUME NEW N \in Nat, NEW T, N+1 \in T,
         \A k \in 1..N : k+1 \in T => k \in T
  PROVE  \A k \in 1..N+1 : k \in T
<1> DEFINE U == {n \in Nat : n <= N /\ N+1-n \notin T}
<1>1. U = {}
  <2> SUFFICES ASSUME U # {} PROVE FALSE
    OBVIOUS
  <2>1. PICK n \in U : \A m \in U : n <= m
    BY LeastNumber
  <2>2. n # 0
    BY <2>1
  <2>3. n-1 \in Nat /\ n-1 <= N /\ n-1 \notin U
    BY <2>1, <2>2
  <2>4. N+1-(n-1) \in T /\ N+1-(n-1) = (N+1-n)+1 /\ N+1-n \in 1..N
    BY <2>1, <2>2, <2>3
  <2>5. QED BY <2>1, <2>4
<1>2. ASSUME NEW k \in 1..N+1, k \notin T PROVE FALSE
  <2>1. k # N+1
    BY <1>2
  <2>2. N+1-k \in Nat /\ N+1-k <= N /\ N+1-(N+1-k) = k
    BY <2>1
  <2>3. N+1-(N+1-k) \notin T
    BY <1>2, <2>2
  <2>4. N+1-k \in U
    BY <2>2, <2>3
  <2>5. QED BY <1>1, <2>4
<1>3. QED BY <1>2

\* What Min and Max are
LEMMA MinGives ==
  ASSUME NEW S, S \subseteq Nat, S # {}
  PROVE  Min(S) \in S /\ \A y \in S : Min(S) <= y
<1>1. \E x \in S : \A y \in S : x <= y
  BY LeastNumber
<1>2. QED BY <1>1 DEF Min

LEMMA MaxGives ==
  ASSUME NEW N \in Nat, NEW S, S \subseteq 1..N, S # {}
  PROVE  Max(S) \in S /\ \A y \in S : y <= Max(S)
<1> DEFINE U == {n \in Nat : n <= N /\ N-n \in S}
<1>1. PICK s \in S : TRUE
  OBVIOUS
<1>2. N-s \in U
  BY <1>1
<1>3. PICK n \in U : \A m \in U : n <= m
  BY <1>2, LeastNumber
<1>4. N-n \in S
  BY <1>3
<1>5. ASSUME NEW y \in S PROVE y <= N-n
  <2>1. N-y \in U
    BY <1>5
  <2>2. n <= N-y
    BY <1>3, <2>1
  <2>3. QED BY <1>3, <2>2
<1>6. \E x \in S : \A y \in S : x >= y
  BY <1>4, <1>5
<1>7. QED BY <1>6 DEF Max

-----------------------------------------------------------------------------
(* Reading the log backwards *)

\* The lines from k on, read
Part(log, db, k, f) ==
  f = [j \in k..Len(log)+1 |-> IF j = Len(log)+1 THEN Start(db) ELSE Line(f[j+1], log[j])]

\* Scan is a function: it is defined from the last line to the first.
LEMMA PartExists ==
  ASSUME NEW log, NEW db, Len(log) \in Nat
  PROVE  \E f : Part(log, db, 1, f)
<1> DEFINE N == Len(log)
           T == {k \in 1..N+1 : \E f : Part(log, db, k, f)}
<1>1. N+1 \in T
  <2> DEFINE f == [j \in N+1..N+1 |-> Start(db)]
  <2>1. f = [j \in N+1..N+1 |-> IF j = N+1 THEN Start(db) ELSE Line(f[j+1], log[j])]
    OBVIOUS
  <2> HIDE DEF f
  <2>2. Part(log, db, N+1, f)
    BY <2>1 DEF Part
  <2>3. QED BY <2>2
<1>2. ASSUME NEW k \in 1..N, k+1 \in T PROVE k \in T
  <2>1. PICK f : Part(log, db, k+1, f)
    BY <1>2
  <2> DEFINE F(j) == IF j = N+1 THEN Start(db) ELSE Line(f[j+1], log[j])
             g == [j \in k..N+1 |-> IF j = k THEN Line(f[k+1], log[k]) ELSE f[j]]
  <2>2. \A j \in k+1..N+1 : f[j] = F(j)
    BY <2>1 DEF Part
  <2>3. \A j \in k+1..N+1 : g[j] = f[j]
    OBVIOUS
  <2>4. ASSUME NEW j \in k..N+1
        PROVE  g[j] = IF j = N+1 THEN Start(db) ELSE Line(g[j+1], log[j])
    <3>1. CASE j = k
      <4>1. g[k+1] = f[k+1] /\ g[k] = Line(f[k+1], log[k]) /\ k # N+1
        BY <2>3
      <4> HIDE DEF g
      <4>2. QED BY <3>1, <4>1
    <3>2. CASE j # k
      <4>1. j \in k+1..N+1
        BY <3>2
      <4>2. j # N+1 => j+1 \in k+1..N+1
        BY <4>1
      <4> HIDE DEF g
      <4>3. QED BY <2>2, <2>3, <4>1, <4>2
    <3>3. QED BY <3>1, <3>2
  <2>5. g = [j \in k..N+1 |-> g[j]]
    OBVIOUS
  <2> HIDE DEF g
  <2>6. g = [j \in k..N+1 |-> IF j = N+1 THEN Start(db) ELSE Line(g[j+1], log[j])]
    BY <2>4, <2>5
  <2>7. Part(log, db, k, g)
    BY <2>6 DEF Part
  <2>8. QED BY <2>7
<1> HIDE DEF T
<1>3. \A k \in 1..N+1 : k \in T
  BY <1>1, <1>2, Backwards
<1>4. QED BY <1>3 DEF T

\* Scan[k] is Line of Scan[k+1] and the line at k.
LEMMA ScanGives ==
  ASSUME NEW log, NEW db, Len(log) \in Nat
  PROVE  /\ Scan(log, db)[Len(log)+1] = Start(db)
         /\ \A k \in 1..Len(log) : Scan(log, db)[k] = Line(Scan(log, db)[k+1], log[k])
<1> DEFINE s == Scan(log, db)
<1>1. \E f : f = [j \in 1..Len(log)+1 |-> IF j = Len(log)+1 THEN Start(db)
                                          ELSE Line(f[j+1], log[j])]
  BY PartExists DEF Part
<1>2. s = [j \in 1..Len(log)+1 |-> IF j = Len(log)+1 THEN Start(db) ELSE Line(s[j+1], log[j])]
  BY <1>1, Zenon DEF Scan
<1> HIDE DEF s
<1>3. s[Len(log)+1] = Start(db) /\ \A k \in 1..Len(log) : s[k] = Line(s[k+1], log[k])
  BY <1>2
<1>4. QED BY <1>3 DEF s

\* The record of where roll_back has got to, from its fields
Rec(db, winners, losers, done, pw, pl, done_cp, over, died) ==
  [db |-> db, winners |-> winners, losers |-> losers, done |-> done,
   pw |-> pw, pl |-> pl, done_cp |-> done_cp, over |-> over, died |-> died]

IsRec(r) == r = Rec(r.db, r.winners, r.losers, r.done, r.pw, r.pl, r.done_cp, r.over, r.died)

SetDb(r, x) == [r EXCEPT !.db = x]
SetWinners(r, x) == [r EXCEPT !.winners = x]
SetLosers(r, x) == [r EXCEPT !.losers = x]
SetDone(r, x) == [r EXCEPT !.done = x]
SetPw(r, x) == [r EXCEPT !.pw = x]
SetPl(r, x) == [r EXCEPT !.pl = x]
SetDoneCp(r, x) == [r EXCEPT !.done_cp = x]
SetOver(r, x) == [r EXCEPT !.over = x]
SetDied(r, x) == [r EXCEPT !.died = x]

\* One field of a record of the scan, changed and read
LEMMA FieldPut ==
  ASSUME NEW a, NEW b, NEW c, NEW d, NEW e, NEW f, NEW g, NEW h, NEW i, NEW x
  PROVE  /\ SetDb(Rec(a, b, c, d, e, f, g, h, i), x) = Rec(x, b, c, d, e, f, g, h, i)
         /\ SetWinners(Rec(a, b, c, d, e, f, g, h, i), x) = Rec(a, x, c, d, e, f, g, h, i)
         /\ SetLosers(Rec(a, b, c, d, e, f, g, h, i), x) = Rec(a, b, x, d, e, f, g, h, i)
         /\ SetDone(Rec(a, b, c, d, e, f, g, h, i), x) = Rec(a, b, c, x, e, f, g, h, i)
         /\ SetPw(Rec(a, b, c, d, e, f, g, h, i), x) = Rec(a, b, c, d, x, f, g, h, i)
         /\ SetPl(Rec(a, b, c, d, e, f, g, h, i), x) = Rec(a, b, c, d, e, x, g, h, i)
         /\ SetDoneCp(Rec(a, b, c, d, e, f, g, h, i), x) = Rec(a, b, c, d, e, f, x, h, i)
         /\ SetOver(Rec(a, b, c, d, e, f, g, h, i), x) = Rec(a, b, c, d, e, f, g, x, i)
         /\ SetDied(Rec(a, b, c, d, e, f, g, h, i), x) = Rec(a, b, c, d, e, f, g, h, x)
BY DEF Rec, SetDb, SetWinners, SetLosers, SetDone, SetPw, SetPl, SetDoneCp, SetOver, SetDied

LEMMA FieldGet ==
  ASSUME NEW r, NEW a, NEW b, NEW c, NEW d, NEW e, NEW f, NEW g, NEW h, NEW i,
         r = Rec(a, b, c, d, e, f, g, h, i)
  PROVE  /\ r.db = a /\ r.winners = b /\ r.losers = c /\ r.done = d /\ r.pw = e /\ r.pl = f
         /\ r.done_cp = g /\ r.over = h /\ r.died = i
         /\ IsRec(r)
BY DEF Rec, IsRec

\* What undoing an update, a checkpoint and a START do to each field of the record
LEMMA UndoneIs ==
  ASSUME NEW r, NEW e, IsRec(r)
  PROVE  Undone(r, e) = Rec([r.db EXCEPT ![e.variable] = e.undo], r.winners, r.losers, r.done,
                            r.pw, r.pl, r.done_cp, r.over,
                            r.died \/ (e.undo = Absent /\ r.db[e.variable] = Absent))
<1> DEFINE D == [r.db EXCEPT ![e.variable] = e.undo]
           X == r.died \/ (e.undo = Absent /\ r.db[e.variable] = Absent)
<1>1. Undone(r, e) = [r EXCEPT !.db[e.variable] = e.undo, !.died = X]
  BY Zenon DEF Undone
<1>2. [r EXCEPT !.db[e.variable] = e.undo, !.died = X] = [r EXCEPT !.db = D, !.died = X]
  OBVIOUS
<1> HIDE DEF D, X
<1>3. Undone(r, e) = SetDied(SetDb(r, D), X)
  BY <1>1, <1>2, Zenon DEF SetDied, SetDb
<1>4. Undone(r, e) = Rec(D, r.winners, r.losers, r.done, r.pw, r.pl, r.done_cp, r.over, X)
  BY <1>3, FieldPut DEF IsRec
<1>5. QED BY <1>4, Zenon DEF D, X

LEMMA AtCheckpointIs ==
  ASSUME NEW r, NEW e, IsRec(r)
  PROVE  AtCheckpoint(r, e) =
           LET lost == {t \in e.pending : ~IsWinner(r, t)} \ r.done
           IN Rec(r.db, r.winners, r.losers \cup lost, r.done \cup e.done, r.pw, r.pl \cup lost,
                  TRUE, r.over, r.died \/ ~(e.committed \subseteq r.done))
<1> DEFINE lost == {t \in e.pending : ~IsWinner(r, t)} \ r.done
           X == r.died \/ ~(e.committed \subseteq r.done)
           D == r.done \cup e.done
           true == TRUE
<1>1. AtCheckpoint(r, e) = [r EXCEPT !.losers = r.losers \cup lost, !.pl = r.pl \cup lost,
                                     !.died = X, !.done = D, !.done_cp = true]
  BY Zenon DEF AtCheckpoint
<1> HIDE DEF X, D, lost, true
<1>2. AtCheckpoint(r, e) =
        SetDoneCp(SetDone(SetDied(SetPl(SetLosers(r, r.losers \cup lost), r.pl \cup lost), X), D), true)
  BY <1>1, Zenon DEF SetDoneCp, SetDone, SetDied, SetPl, SetLosers
<1>3. r = Rec(r.db, r.winners, r.losers, r.done, r.pw, r.pl, r.done_cp, r.over, r.died)
  BY Zenon DEF IsRec
<1>4. SetPl(SetLosers(r, r.losers \cup lost), r.pl \cup lost) =
        Rec(r.db, r.winners, r.losers \cup lost, r.done, r.pw, r.pl \cup lost, r.done_cp, r.over, r.died)
  BY <1>3, FieldPut
<1>5. SetDone(SetDied(SetPl(SetLosers(r, r.losers \cup lost), r.pl \cup lost), X), D) =
        Rec(r.db, r.winners, r.losers \cup lost, D, r.pw, r.pl \cup lost, r.done_cp, r.over, X)
  BY <1>4, FieldPut
<1>6. AtCheckpoint(r, e) = Rec(r.db, r.winners, r.losers \cup lost, D, r.pw, r.pl \cup lost,
                               true, r.over, X)
  BY <1>2, <1>5, FieldPut
<1>7. QED BY <1>6, Zenon DEF X, D, lost, true

LEMMA AtStartIs ==
  ASSUME NEW r, NEW t, IsRec(r)
  PROVE  AtStart(r, t) = Rec(r.db, r.winners, r.losers, r.done, r.pw \ {t}, r.pl \ {t},
                             r.done_cp, r.over, r.died)
<1> DEFINE A == r.pw \ {t}
           B == r.pl \ {t}
<1>1. AtStart(r, t) = [r EXCEPT !.pw = A, !.pl = B]
  BY Zenon DEF AtStart
<1> HIDE DEF A, B
<1>2. AtStart(r, t) = SetPl(SetPw(r, A), B)
  BY <1>1, Zenon DEF SetPl, SetPw
<1>3. AtStart(r, t) = Rec(r.db, r.winners, r.losers, r.done, A, B, r.done_cp, r.over, r.died)
  BY <1>2, FieldPut DEF IsRec
<1>4. QED BY <1>3, Zenon DEF A, B

\* A transaction that roll_back takes for a loser
Lost(r, t) == ~IsWinner(r, t) /\ t \notin r.done
With(S, t, b) == IF b THEN S \union {t} ELSE S

\* What AfterCheckpoint does to each field, for each type of line
LEMMA StartIs ==
  ASSUME NEW r, NEW e, IsRec(r), e.type = "START"
  PROVE  AfterCheckpoint(r, e) =
           Rec(r.db, r.winners, With(r.losers, e.tid, Lost(r, e.tid)), r.done, r.pw \ {e.tid},
               r.pl \ {e.tid}, r.done_cp, r.over, r.died)
<1> DEFINE t == e.tid
           lost == IF Lost(r, t) /\ t \notin r.losers
                   THEN [r EXCEPT !.losers = r.losers \cup {t}, !.pl = r.pl \cup {t}] ELSE r
           L == With(r.losers, t, Lost(r, t))
           P == r.pl \ {t}
<1>1. AfterCheckpoint(r, e) = AtStart(lost, t)
  BY Zenon DEF AfterCheckpoint, Lost
<1>2. CASE Lost(r, t) /\ t \notin r.losers
  <2> DEFINE A == r.losers \cup {t}
             B == r.pl \cup {t}
  <2>1. lost = [r EXCEPT !.losers = A, !.pl = B]
    BY <1>2, Zenon
  <2>2. L = A /\ P = B \ {t}
    BY <1>2 DEF With
  <2> HIDE DEF lost, A, B, L, P
  <2>3. lost = SetPl(SetLosers(r, A), B)
    BY <2>1, Zenon DEF SetPl, SetLosers
  <2>4. lost = Rec(r.db, r.winners, A, r.done, r.pw, B, r.done_cp, r.over, r.died)
    BY <2>3, FieldPut DEF IsRec
  <2>5. /\ lost.db = r.db /\ lost.winners = r.winners /\ lost.losers = A /\ lost.done = r.done
        /\ lost.pw = r.pw /\ lost.pl = B /\ lost.done_cp = r.done_cp /\ lost.over = r.over
        /\ lost.died = r.died /\ IsRec(lost)
    BY <2>4, FieldGet
  <2>6. AtStart(lost, t) = Rec(lost.db, lost.winners, lost.losers, lost.done, lost.pw \ {t},
                               lost.pl \ {t}, lost.done_cp, lost.over, lost.died)
    BY <2>5, AtStartIs
  <2>7. AtStart(lost, t) = Rec(r.db, r.winners, L, r.done, r.pw \ {t}, P, r.done_cp, r.over, r.died)
    BY <2>2, <2>5, <2>6
  <2>8. QED BY <1>1, <2>7, Zenon DEF L, P
<1>3. CASE ~(Lost(r, t) /\ t \notin r.losers)
  <2>1. L = r.losers /\ lost = r
    BY <1>3 DEF With
  <2> HIDE DEF L, lost
  <2>2. QED BY <1>1, <2>1, AtStartIs DEF L
<1>4. QED BY <1>2, <1>3

LEMMA UpdateIs ==
  ASSUME NEW r, NEW e, IsRec(r), e.type = "UPDATE"
  PROVE  AfterCheckpoint(r, e) =
           LET t == e.tid
               undone == Lost(r, t) /\ mode = "undo"
           IN Rec(IF undone THEN [r.db EXCEPT ![e.variable] = e.undo] ELSE r.db,
                  r.winners, With(r.losers, t, Lost(r, t)), r.done, r.pw,
                  With(r.pl, t, Lost(r, t) /\ t \notin r.losers), r.done_cp, r.over,
                  r.died \/ (undone /\ e.undo = Absent /\ r.db[e.variable] = Absent))
<1> DEFINE t == e.tid
           undone == Lost(r, t) /\ mode = "undo"
           lost == IF Lost(r, t) /\ t \notin r.losers
                   THEN [r EXCEPT !.losers = r.losers \cup {t}, !.pl = r.pl \cup {t}] ELSE r
           L == With(r.losers, t, Lost(r, t))
           P == With(r.pl, t, Lost(r, t) /\ t \notin r.losers)
           D == IF undone THEN [r.db EXCEPT ![e.variable] = e.undo] ELSE r.db
           X == r.died \/ (undone /\ e.undo = Absent /\ r.db[e.variable] = Absent)
<1>1. AfterCheckpoint(r, e) = IF undone THEN Undone(lost, e) ELSE lost
  BY Zenon DEF AfterCheckpoint, Lost
<1>2. lost = Rec(r.db, r.winners, L, r.done, r.pw, P, r.done_cp, r.over, r.died)
  <2>1. CASE Lost(r, t) /\ t \notin r.losers
    <3> DEFINE A == r.losers \cup {t}
               B == r.pl \cup {t}
    <3>1. lost = [r EXCEPT !.losers = A, !.pl = B]
      BY <2>1, Zenon
    <3>2. L = A /\ P = B
      BY <2>1 DEF With
    <3> HIDE DEF lost, A, B, L, P
    <3>3. lost = SetPl(SetLosers(r, A), B)
      BY <3>1, Zenon DEF SetPl, SetLosers
    <3>4. lost = Rec(r.db, r.winners, A, r.done, r.pw, B, r.done_cp, r.over, r.died)
      BY <3>3, FieldPut DEF IsRec
    <3>5. QED BY <3>2, <3>4
  <2>2. CASE ~(Lost(r, t) /\ t \notin r.losers)
    <3>1. L = r.losers /\ P = r.pl /\ lost = r
      BY <2>2 DEF With
    <3> HIDE DEF L, P, lost
    <3>2. QED BY <3>1 DEF IsRec
  <2>3. QED BY <2>1, <2>2
<1> HIDE DEF lost, L, P
<1>3. /\ lost.db = r.db /\ lost.winners = r.winners /\ lost.losers = L /\ lost.done = r.done
      /\ lost.pw = r.pw /\ lost.pl = P /\ lost.done_cp = r.done_cp /\ lost.over = r.over
      /\ lost.died = r.died /\ IsRec(lost)
  BY <1>2, FieldGet
<1>4. AfterCheckpoint(r, e) = Rec(D, r.winners, L, r.done, r.pw, P, r.done_cp, r.over, X)
  <2>1. CASE undone
    <3> DEFINE Y == r.died \/ (e.undo = Absent /\ r.db[e.variable] = Absent)
               E == [r.db EXCEPT ![e.variable] = e.undo]
               Z == lost.died \/ (e.undo = Absent /\ lost.db[e.variable] = Absent)
               F == [lost.db EXCEPT ![e.variable] = e.undo]
    <3>1. X <=> Y
      BY <2>1
    <3>2. D = E
      BY <2>1
    <3>3. Undone(lost, e) = Rec(F, lost.winners, lost.losers, lost.done,
                            lost.pw, lost.pl, lost.done_cp, lost.over, Z)
      BY <1>3, UndoneIs
    <3>4. (Z <=> Y) /\ E = F
      BY <1>3
    <3>5. AfterCheckpoint(r, e) = Undone(lost, e)
      BY <1>1, <2>1
    <3> HIDE DEF undone, X, Y, Z, D, E, F
    <3>6. QED BY <1>3, <3>1, <3>2, <3>3, <3>4, <3>5
  <2>2. CASE ~undone
    <3>1. D = r.db
      BY <2>2
    <3>2. X <=> r.died
      BY <2>2
    <3>3. AfterCheckpoint(r, e) = lost
      BY <1>1, <2>2
    <3> HIDE DEF undone, X, D
    <3>4. QED BY <1>2, <3>1, <3>2, <3>3
  <2>3. QED BY <2>1, <2>2
<1>5. QED BY <1>4, Zenon DEF D, X, L, P

LEMMA EndIs ==
  ASSUME NEW r, NEW e, IsRec(r), e.type = "END"
  PROVE  AfterCheckpoint(r, e) =
           Rec(r.db, r.winners, r.losers, r.done \union {e.tid}, r.pw, r.pl, r.done_cp, r.over,
               r.died)
<1> DEFINE t == e.tid
           D == r.done \union {t}
           ended == [r EXCEPT !.done = D]
<1> HIDE DEF D
<1>1. ended = SetDone(r, D)
  BY Zenon DEF SetDone
<1> HIDE DEF ended
<1>2. ended = Rec(r.db, r.winners, r.losers, D, r.pw, r.pl, r.done_cp, r.over, r.died)
  BY <1>1, FieldPut DEF IsRec
<1>3. t \in ended.done
  <2>1. ended.done = D
    BY <1>2, FieldGet
  <2>2. QED BY <2>1 DEF D
<1>4. AfterCheckpoint(r, e) =
        LET loses == ~IsWinner(ended, t) /\ t \notin ended.done
        IN IF loses /\ t \notin ended.losers
           THEN [ended EXCEPT !.losers = ended.losers \cup {t}, !.pl = ended.pl \cup {t}] ELSE ended
  <2>1. e.type # "OUTCOME" /\ e.type # "START" /\ e.type # "UPDATE"
    OBVIOUS
  <2>2. QED BY <2>1, Zenon DEF AfterCheckpoint, ended, D
<1>5. AfterCheckpoint(r, e) = ended
  BY <1>3, <1>4, Zenon
<1>6. QED BY <1>2, <1>5, Zenon DEF D

LEMMA OutcomeIs ==
  ASSUME NEW r, NEW e, IsRec(r), e.type = "OUTCOME",
         e.tid \in DOMAIN r.winners, e.status # "none"
  PROVE  AfterCheckpoint(r, e) =
           LET new == e.tid \notin r.done \union r.losers
           IN Rec(r.db, IF new THEN [r.winners EXCEPT ![e.tid] = e.status] ELSE r.winners,
                  r.losers, r.done, With(r.pw, e.tid, new), r.pl, r.done_cp, r.over, r.died)
<1> DEFINE t == e.tid
           new == t \notin r.done \union r.losers
           told == IF new THEN [r EXCEPT !.winners[t] = e.status, !.pw = r.pw \cup {t}] ELSE r
           W == IF new THEN [r.winners EXCEPT ![t] = e.status] ELSE r.winners
           P == With(r.pw, t, new)
<1>1. AfterCheckpoint(r, e) =
        LET loses == ~IsWinner(told, t) /\ t \notin told.done
        IN IF loses /\ t \notin told.losers
           THEN [told EXCEPT !.losers = told.losers \cup {t}, !.pl = told.pl \cup {t}] ELSE told
  <2>1. e.type # "END" /\ e.type # "START" /\ e.type # "UPDATE"
    OBVIOUS
  <2>2. QED BY <2>1, Zenon DEF AfterCheckpoint
<1>2. CASE new
  <2> DEFINE A == [r.winners EXCEPT ![t] = e.status]
             B == r.pw \cup {t}
  <2>1. told = [r EXCEPT !.winners[t] = e.status, !.pw = B]
    BY <1>2, Zenon
  <2>2. [r EXCEPT !.winners[t] = e.status, !.pw = B] = [r EXCEPT !.winners = A, !.pw = B]
    OBVIOUS
  <2>3. W = A /\ P = B /\ A[t] # "none"
    BY <1>2 DEF With
  <2> HIDE DEF new, told, A, B, W, P
  <2>4. told = SetPw(SetWinners(r, A), B)
    BY <2>1, <2>2, Zenon DEF SetPw, SetWinners
  <2>5. told = Rec(r.db, A, r.losers, r.done, B, r.pl, r.done_cp, r.over, r.died)
    BY <2>4, FieldPut DEF IsRec
  <2>6. told.winners = A
    BY <2>5, FieldGet
  <2>7. IsWinner(told, t)
    BY <2>3, <2>6 DEF IsWinner
  <2>8. AfterCheckpoint(r, e) = told
    BY <1>1, <2>7, Zenon
  <2>9. AfterCheckpoint(r, e) = Rec(r.db, W, r.losers, r.done, P, r.pl, r.done_cp, r.over, r.died)
    BY <2>3, <2>5, <2>8
  <2>10. QED BY <2>9, Zenon DEF W, P, new
<1>3. CASE ~new
  <2>1. W = r.winners /\ P = r.pw /\ told = r
    BY <1>3 DEF With
  <2>2. t \in r.done \/ t \in r.losers
    BY <1>3
  <2> HIDE DEF told
  <2>3. AfterCheckpoint(r, e) = told
    BY <1>1, <2>1, <2>2, Zenon
  <2> HIDE DEF W, P, new
  <2>4. AfterCheckpoint(r, e) = Rec(r.db, W, r.losers, r.done, P, r.pl, r.done_cp, r.over, r.died)
    BY <2>1, <2>3 DEF IsRec
  <2>5. QED BY <2>4, Zenon DEF W, P, new
<1>4. QED BY <1>2, <1>3

-----------------------------------------------------------------------------
(* What a log says *)

Stored == [Accounts -> Values \union {Absent}]
Statuses == {"COMMITTED", "ABORTED"}
Types == {"START", "UPDATE", "OUTCOME", "END", "CHECKPOINT"}

LineRight(e) ==
  /\ e.type \in Types
  /\ e.type # "CHECKPOINT" => e.tid \in Tids
  /\ e.type = "UPDATE" => e.variable \in Accounts /\ e.undo \in Values \union {Absent} /\ e.redo \in Values
  /\ e.type = "OUTCOME" => e.status \in Statuses
  /\ e.type = "CHECKPOINT" => e.pending \subseteq Tids /\ e.committed \subseteq Tids /\ e.done \subseteq Tids

LinesRight(log) == Len(log) \in Nat /\ \A i \in 1..Len(log) : LineRight(log[i])

\* Lines of a transaction, of one type and of all, and whether one is at k or later
At(log, type, t) == {i \in 1..Len(log) : log[i].type = type /\ log[i].tid = t}
Mentions(log, t) == {i \in 1..Len(log) : log[i].type # "CHECKPOINT" /\ log[i].tid = t}
Since(S, k) == \E i \in S : k <= i

Checkpoints(log) == {i \in 1..Len(log) : log[i].type = "CHECKPOINT"}
Open(log) == {t \in Tids : At(log, "START", t) # {} /\ At(log, "OUTCOME", t) = {}}
Owed(log) == {t \in Tids : At(log, "OUTCOME", t) # {} /\ At(log, "END", t) = {}}
Updates(log, S) == {i \in 1..Len(log) : log[i].type = "UPDATE" /\ log[i].tid \in S}

\* The lines of a transaction: START, its updates, one OUTCOME, END
Ordered(log, t) ==
  /\ \A i \in At(log, "START", t), j \in Mentions(log, t) : i <= j
  /\ \A j \in Mentions(log, t) : At(log, "START", t) # {}
  /\ \A i \in At(log, "UPDATE", t), j \in At(log, "OUTCOME", t) : i < j
  /\ \A i \in At(log, "END", t) : \E j \in At(log, "OUTCOME", t) : j < i
  /\ \A i, j \in At(log, "OUTCOME", t) : i = j
InOrder(log) == \A t \in Tids : Ordered(log, t)

\* Of the transactions that a checkpoint names, and in undo mode of those it does not
PendingRight(log) == \A c \in Checkpoints(log) : \A t \in log[c].pending :
  /\ \E i \in At(log, "START", t) : i < c
  /\ \A i \in At(log, "OUTCOME", t) : c < i
DoneRight(log) == \A c \in Checkpoints(log) : \A t \in log[c].done : At(log, "OUTCOME", t) # {}
OpenNamed(log) == \A c \in Checkpoints(log), t \in Open(log) :
  (\E i \in At(log, "START", t) : i < c) => t \in log[c].pending

\* The transactions begun so far are all older than one outcome of t.
OpenAfter(log, i) == \A u \in Open(log) : \A j \in At(log, "START", u) : i < j
PendingNamed(log) == \A k, c \in Checkpoints(log) : k < c => \A t \in log[k].pending :
  \/ t \in log[c].pending \union log[c].committed \union log[c].done
  \/ \E i \in At(log, "OUTCOME", t) : i < c /\ OpenAfter(log, i)

\* In redo mode
OwedNamed(log) == \A c \in Checkpoints(log), t \in Owed(log) :
  (\E i \in At(log, "OUTCOME", t) : i < c) => t \in log[c].committed
NoneAborted(log) == \A t \in Tids : \A i \in At(log, "OUTCOME", t) : log[i].status = "COMMITTED"

LogRight(log) == LinesRight(log) /\ InOrder(log) /\ PendingRight(log) /\ DoneRight(log)
UndoLog(log) == OpenNamed(log) /\ PendingNamed(log)
RedoLog(log) == OwedNamed(log) /\ NoneAborted(log)

\* The database with the updates from place k on of unfinished transactions undone
UndoneFrom(db, log, k) ==
  [a \in Accounts |->
     LET of == {i \in Updates(log, Open(log)) : k <= i /\ log[i].variable = a}
     IN  IF of = {} THEN db[a] ELSE log[Min(of)].undo]

\* One line more, reading backwards
LEMMA SinceStep ==
  ASSUME NEW log, Len(log) \in Nat, NEW k \in 1..Len(log)
  PROVE  /\ \A type, t : Since(At(log, type, t), k) <=>
                           (log[k].type = type /\ log[k].tid = t) \/ Since(At(log, type, t), k+1)
         /\ \A t : Since(Mentions(log, t), k) <=>
                     (log[k].type # "CHECKPOINT" /\ log[k].tid = t) \/ Since(Mentions(log, t), k+1)
<1>1. ASSUME NEW S, S \subseteq 1..Len(log)
      PROVE  Since(S, k) <=> k \in S \/ Since(S, k+1)
  BY <1>1 DEF Since
<1>2. \A type, t : Since(At(log, type, t), k) <=> k \in At(log, type, t) \/ Since(At(log, type, t), k+1)
  <2>1. \A type, t : At(log, type, t) \subseteq 1..Len(log)
    BY DEF At
  <2>2. QED BY <1>1, <2>1, Zenon
<1>3. \A t : Since(Mentions(log, t), k) <=> k \in Mentions(log, t) \/ Since(Mentions(log, t), k+1)
  <2>1. \A t : Mentions(log, t) \subseteq 1..Len(log)
    BY DEF Mentions
  <2>2. QED BY <1>1, <2>1, Zenon
<1>4. \A type, t : k \in At(log, type, t) <=> log[k].type = type /\ log[k].tid = t
  BY Zenon DEF At
<1>5. \A t : k \in Mentions(log, t) <=> log[k].type # "CHECKPOINT" /\ log[k].tid = t
  BY Zenon DEF Mentions
<1>6. QED BY <1>2, <1>3, <1>4, <1>5, Zenon

\* Undoing from k on is undoing from k+1 on and then the update at k.
LEMMA UndoneStep ==
  ASSUME NEW log, LinesRight(log), NEW db, NEW k \in 1..Len(log)
  PROVE  UndoneFrom(db, log, k) =
           IF k \in Updates(log, Open(log))
           THEN [UndoneFrom(db, log, k+1) EXCEPT ![log[k].variable] = log[k].undo]
           ELSE UndoneFrom(db, log, k+1)
<1> DEFINE U == Updates(log, Open(log))
           of(j, a) == {i \in U : j <= i /\ log[i].variable = a}
           u == UndoneFrom(db, log, k+1)
<1>1. U \subseteq 1..Len(log) /\ Len(log) \in Nat
  BY DEF Updates, LinesRight
<1>2. \A j : UndoneFrom(db, log, j) = [a \in Accounts |-> IF of(j, a) = {} THEN db[a] ELSE log[Min(of(j, a))].undo]
  BY Zenon DEF UndoneFrom
<1> HIDE DEF U
<1>3. ASSUME k \notin U PROVE UndoneFrom(db, log, k) = u
  <2>1. ASSUME NEW a PROVE of(k, a) = of(k+1, a)
    <3>1. \A i \in U : k <= i <=> k+1 <= i
      BY <1>1, <1>3
    <3>2. QED BY <3>1
  <2> HIDE DEF of
  <2>2. /\ UndoneFrom(db, log, k) = [a \in Accounts |-> IF of(k, a) = {} THEN db[a] ELSE log[Min(of(k, a))].undo]
        /\ u = [a \in Accounts |-> IF of(k+1, a) = {} THEN db[a] ELSE log[Min(of(k+1, a))].undo]
    BY <1>2, Zenon
  <2> HIDE DEF u
  <2>3. QED BY <2>1, <2>2
<1>4. ASSUME k \in U PROVE UndoneFrom(db, log, k) = [u EXCEPT ![log[k].variable] = log[k].undo]
  <2>1. ASSUME NEW a, a # log[k].variable PROVE of(k, a) = of(k+1, a)
    <3>1. \A i \in U : i # k => (k <= i <=> k+1 <= i)
      BY <1>1
    <3>2. QED BY <2>1, <3>1
  <2>2. ASSUME NEW a, a = log[k].variable PROVE of(k, a) # {} /\ Min(of(k, a)) = k
    <3>1. k \in of(k, a) /\ of(k, a) \subseteq Nat
      <4>1. k \in U /\ k <= k /\ \A i \in U : i \in Nat
        BY <1>1, <1>4
      <4>2. QED BY <2>2, <4>1
    <3>2. \A y \in of(k, a) : k <= y
      OBVIOUS
    <3> HIDE DEF of
    <3>3. Min(of(k, a)) \in of(k, a) /\ \A y \in of(k, a) : Min(of(k, a)) <= y
      BY <3>1, MinGives, Zenon
    <3>4. QED BY <3>1, <3>2, <3>3
  <2> DEFINE D(j, a) == IF of(j, a) = {} THEN db[a] ELSE log[Min(of(j, a))].undo
  <2>3. \A a : D(k, a) = IF a = log[k].variable THEN log[k].undo ELSE D(k+1, a)
    BY <2>1, <2>2
  <2>4. u = [a \in Accounts |-> D(k+1, a)]
    BY <1>2
  <2>5. UndoneFrom(db, log, k) = [a \in Accounts |-> D(k, a)]
    BY <1>2
  <2> HIDE DEF D, u
  <2>6. [a \in Accounts |-> D(k, a)] = [[a \in Accounts |-> D(k+1, a)] EXCEPT ![log[k].variable] = log[k].undo]
    BY <2>3
  <2>7. QED BY <2>4, <2>5, <2>6
<1>5. QED BY <1>3, <1>4 DEF U

\* Nothing has been undone before the first line is read.
LEMMA UndoneNone ==
  ASSUME NEW log, LinesRight(log), NEW db \in Stored
  PROVE  UndoneFrom(db, log, Len(log)+1) = db
<1>1. \A a : {i \in Updates(log, Open(log)) : Len(log)+1 <= i /\ log[i].variable = a} = {}
  BY DEF Updates, LinesRight
<1>2. UndoneFrom(db, log, Len(log)+1) = [a \in Accounts |-> db[a]]
  BY <1>1, Zenon DEF UndoneFrom
<1>3. QED BY <1>2 DEF Stored

-----------------------------------------------------------------------------
(* The lines after the last checkpoint *)

\* A winner's status is the one a line tells.
Told(log, r) == \A t \in Tids : r.winners[t] = "none" \/
                  \E i \in At(log, "OUTCOME", t) : r.winners[t] = log[i].status

DbAt(log, db, k) == IF mode = "undo" THEN UndoneFrom(db, log, k) ELSE db

After(log, db, k, r) ==
  /\ IsRec(r)
  /\ r.winners \in [Tids -> Statuses \union {"none"}]
  /\ Told(log, r)
  /\ r.done_cp = FALSE /\ r.over = FALSE
  /\ r.done = {t \in Tids : Since(At(log, "END", t), k)}
  /\ \A t \in Tids : IsWinner(r, t) <=> At(log, "END", t) = {} /\ Since(At(log, "OUTCOME", t), k)
  /\ r.losers = {t \in Open(log) : Since(Mentions(log, t), k)}
  /\ r.pl = {t \in Open(log) : Since(Mentions(log, t), k) /\ ~Since(At(log, "START", t), k)}
  /\ r.db = DbAt(log, db, k)

\* Reading line k of the log, the update of a loser, may fail.
Fails(log, db, k) ==
  /\ mode = "undo" /\ k \in Updates(log, Open(log))
  /\ log[k].undo = Absent /\ UndoneFrom(db, log, k+1)[log[k].variable] = Absent

\* Reading line k, an update, undoes it or not.
DbLine(log, db, k) == DbAt(log, db, k) =
  IF mode = "undo" /\ k \in Updates(log, Open(log))
  THEN [DbAt(log, db, k+1) EXCEPT ![log[k].variable] = log[k].undo] ELSE DbAt(log, db, k+1)

\* The lines after the last checkpoint, one lemma for each type
LEMMA DbStep ==
  ASSUME NEW log, LinesRight(log), NEW db, NEW k \in 1..Len(log)
  PROVE  DbLine(log, db, k)
BY UndoneStep DEF DbAt, DbLine

LEMMA LoserIs ==
  ASSUME NEW log, LogRight(log), NEW db, NEW k \in 1..Len(log), NEW r, After(log, db, k+1, r),
         NEW t, t = log[k].tid, log[k].type \in {"START", "UPDATE"}
  PROVE  /\ t \in Tids
         /\ Lost(r, t) <=> t \in Open(log)
         /\ log[k].type = "UPDATE" => ~Since(At(log, "START", t), k)
<1> DEFINE S == At(log, "START", t)
           O == At(log, "OUTCOME", t)
           E == At(log, "END", t)
           M == Mentions(log, t)
<1>1. t \in Tids /\ LineRight(log[k]) /\ Len(log) \in Nat
  BY DEF LogRight, LinesRight, LineRight
<1>2. Ordered(log, t)
  BY <1>1 DEF LogRight, InOrder
<1>3. /\ k \in M /\ O \subseteq M /\ E \subseteq M /\ M \subseteq 1..Len(log) /\ S \subseteq M
      /\ k \notin O /\ k \notin E
      /\ log[k].type = "START" => k \in S
      /\ log[k].type = "UPDATE" => k \in At(log, "UPDATE", t) /\ k \notin S
  BY DEF Mentions, At
<1>4. /\ \A i \in S, j \in M : i <= j
      /\ S # {}
      /\ log[k].type = "UPDATE" => \A j \in O : k < j
      /\ \A i \in E : \E j \in O : j < i
  BY <1>2, <1>3 DEF Ordered
<1>5. IsWinner(r, t) <=> E = {} /\ Since(O, k+1)
  BY <1>1, Zenon DEF After
<1>6. t \in r.done <=> Since(E, k+1)
  BY <1>1, Zenon DEF After
<1>7. t \in Open(log) <=> O = {}
  BY <1>1, <1>4, Zenon DEF Open
<1> HIDE DEF S, O, E, M
<1>8. \A j \in O : k + 1 <= j
  <2>1. \A j \in O : k <= j
    BY <1>1, <1>3, <1>4
  <2>2. QED BY <1>1, <1>3, <2>1
<1>9. \A j \in E : k + 1 <= j
  BY <1>1, <1>3, <1>4, <1>8
<1>10. Lost(r, t) <=> O = {}
  BY <1>4, <1>5, <1>6, <1>8, <1>9 DEF Since, Lost
<1>11. log[k].type = "UPDATE" => ~Since(S, k)
  BY <1>1, <1>3, <1>4 DEF Since
<1>12. QED BY <1>1, <1>7, <1>10, <1>11 DEF S

LEMMA AfterStart ==
  ASSUME NEW log, LogRight(log), NEW db, NEW k \in 1..Len(log), NEW r, After(log, db, k+1, r),
         log[k].type = "START", NEW s, s = AfterCheckpoint(r, log[k])
  PROVE  After(log, db, k, s) /\ (s.died <=> r.died)
<1> DEFINE t == log[k].tid
<1>1. t \in Tids /\ (Lost(r, t) <=> t \in Open(log)) /\ IsRec(r)
  <2>1. IsRec(r)
    BY Zenon DEF After
  <2>2. t \in Tids /\ (Lost(r, t) <=> t \in Open(log))
    BY LoserIs
  <2>3. QED BY <2>1, <2>2
<1>2. /\ s.db = r.db /\ s.winners = r.winners /\ s.losers = With(r.losers, t, Lost(r, t))
      /\ s.done = r.done /\ s.pl = r.pl \ {t} /\ s.done_cp = r.done_cp /\ s.over = r.over
      /\ s.died = r.died /\ IsRec(s)
  <2>1. s = Rec(r.db, r.winners, With(r.losers, t, Lost(r, t)), r.done, r.pw \ {t},
                r.pl \ {t}, r.done_cp, r.over, r.died)
    BY <1>1, StartIs
  <2>2. QED BY <2>1, FieldGet
<1>3. Len(log) \in Nat
  BY DEF LogRight, LinesRight
<1>4. /\ \A u : Since(At(log, "END", u), k) <=> Since(At(log, "END", u), k+1)
      /\ \A u : Since(At(log, "OUTCOME", u), k) <=> Since(At(log, "OUTCOME", u), k+1)
      /\ \A u : Since(At(log, "START", u), k) <=> u = t \/ Since(At(log, "START", u), k+1)
      /\ \A u : Since(Mentions(log, u), k) <=> u = t \/ Since(Mentions(log, u), k+1)
  BY <1>3, SinceStep
<1>5. s.winners \in [Tids -> Statuses \union {"none"}] /\ Told(log, s)
  BY <1>2 DEF After, Told
<1>6. s.done_cp = FALSE /\ s.over = FALSE
  BY <1>2 DEF After
<1>7. s.done = {u \in Tids : Since(At(log, "END", u), k)}
  BY <1>2, <1>4 DEF After
<1>8. \A u \in Tids : IsWinner(s, u) <=> At(log, "END", u) = {} /\ Since(At(log, "OUTCOME", u), k)
  BY <1>2, <1>4 DEF After, IsWinner
<1>9. s.losers = {u \in Open(log) : Since(Mentions(log, u), k)}
  <2>1. r.losers = {u \in Open(log) : Since(Mentions(log, u), k+1)}
    BY DEF After
  <2>2. QED BY <1>1, <1>2, <1>4, <2>1 DEF With
<1>10. s.pl = {u \in Open(log) : Since(Mentions(log, u), k) /\ ~Since(At(log, "START", u), k)}
  <2>1. r.pl = {u \in Open(log) : Since(Mentions(log, u), k+1) /\ ~Since(At(log, "START", u), k+1)}
    BY DEF After
  <2>2. QED BY <1>2, <1>4, <2>1
<1>11. s.db = DbAt(log, db, k)
  <2>1. k \notin Updates(log, Open(log)) /\ DbLine(log, db, k)
    BY DbStep DEF Updates, LogRight
  <2>2. QED BY <1>2, <2>1 DEF After, DbLine
<1>12. QED BY <1>2, <1>5, <1>6, <1>7, <1>8, <1>9, <1>10, <1>11, Zenon DEF After

LEMMA AfterUpdate ==
  ASSUME NEW log, LogRight(log), NEW db, NEW k \in 1..Len(log), NEW r, After(log, db, k+1, r),
         log[k].type = "UPDATE", NEW s, s = AfterCheckpoint(r, log[k])
  PROVE  After(log, db, k, s) /\ (s.died <=> r.died \/ Fails(log, db, k))
<1> DEFINE t == log[k].tid
           e == log[k]
           loses == Lost(r, t)
           undone == loses /\ mode = "undo"
           D == IF undone THEN [r.db EXCEPT ![e.variable] = e.undo] ELSE r.db
           X == r.died \/ (undone /\ e.undo = Absent /\ r.db[e.variable] = Absent)
<1>1. t \in Tids /\ (loses <=> t \in Open(log)) /\ IsRec(r) /\ ~Since(At(log, "START", t), k)
  <2>1. IsRec(r)
    BY Zenon DEF After
  <2>2. t \in Tids /\ (loses <=> t \in Open(log)) /\ ~Since(At(log, "START", t), k)
    BY LoserIs
  <2>3. QED BY <2>1, <2>2
<1>2. /\ s.db = D /\ s.winners = r.winners /\ s.losers = With(r.losers, t, loses)
      /\ s.done = r.done /\ s.pl = With(r.pl, t, loses /\ t \notin r.losers)
      /\ s.done_cp = r.done_cp /\ s.over = r.over
      /\ s.died = X /\ IsRec(s)
  <2>1. s = Rec(D, r.winners, With(r.losers, t, loses), r.done, r.pw,
                With(r.pl, t, loses /\ t \notin r.losers), r.done_cp, r.over, X)
    BY <1>1, UpdateIs
  <2> HIDE DEF D, X, loses
  <2>2. QED BY <2>1, FieldGet
<1>3. Len(log) \in Nat
  BY DEF LogRight, LinesRight
<1>4. /\ \A u : Since(At(log, "END", u), k) <=> Since(At(log, "END", u), k+1)
      /\ \A u : Since(At(log, "OUTCOME", u), k) <=> Since(At(log, "OUTCOME", u), k+1)
      /\ \A u : Since(At(log, "START", u), k) <=> Since(At(log, "START", u), k+1)
      /\ \A u : Since(Mentions(log, u), k) <=> u = t \/ Since(Mentions(log, u), k+1)
  BY <1>3, SinceStep
<1>5. s.winners \in [Tids -> Statuses \union {"none"}] /\ Told(log, s)
  BY <1>2 DEF After, Told
<1>6. s.done_cp = FALSE /\ s.over = FALSE
  BY <1>2 DEF After
<1>7. s.done = {u \in Tids : Since(At(log, "END", u), k)}
  BY <1>2, <1>4 DEF After
<1>8. \A u \in Tids : IsWinner(s, u) <=> At(log, "END", u) = {} /\ Since(At(log, "OUTCOME", u), k)
  BY <1>2, <1>4 DEF After, IsWinner
<1>9. r.losers = {u \in Open(log) : Since(Mentions(log, u), k+1)}
  BY DEF After
<1>10. s.losers = {u \in Open(log) : Since(Mentions(log, u), k)}
  BY <1>1, <1>2, <1>4, <1>9 DEF With
<1>11. s.pl = {u \in Open(log) : Since(Mentions(log, u), k) /\ ~Since(At(log, "START", u), k)}
  <2>1. r.pl = {u \in Open(log) : Since(Mentions(log, u), k+1) /\ ~Since(At(log, "START", u), k+1)}
    BY DEF After
  <2> HIDE DEF loses
  <2>2. QED BY <1>1, <1>2, <1>4, <1>9, <2>1 DEF With
<1>12. k \in Updates(log, Open(log)) <=> t \in Open(log)
  BY DEF Updates
<1>13. s.db = DbAt(log, db, k)
  <2>1. DbLine(log, db, k)
    BY DbStep DEF LogRight
  <2>2. r.db = DbAt(log, db, k+1)
    BY DEF After
  <2> HIDE DEF loses
  <2>3. QED BY <1>1, <1>2, <1>12, <2>1, <2>2 DEF DbLine
<1>14. s.died <=> r.died \/ Fails(log, db, k)
  <2>1. mode = "undo" => r.db = UndoneFrom(db, log, k+1)
    BY DEF After, DbAt
  <2>2. Fails(log, db, k) <=> undone /\ e.undo = Absent /\ r.db[e.variable] = Absent
    <3> HIDE DEF loses
    <3>1. QED BY <1>1, <1>12, <2>1 DEF Fails
  <2>3. QED BY <1>2, <2>2
<1>15. QED BY <1>2, <1>5, <1>6, <1>7, <1>8, <1>10, <1>11, <1>13, <1>14, Zenon DEF After

\* The line of an outcome: nobody's loser, and done if there is an END
LEMMA OutcomeLine ==
  ASSUME NEW log, LogRight(log), NEW k \in 1..Len(log), log[k].type = "OUTCOME", NEW t, t = log[k].tid
  PROVE  /\ t \in Tids /\ t \notin Open(log) /\ log[k].status \in Statuses
         /\ At(log, "OUTCOME", t) = {k}
         /\ \A i \in At(log, "END", t) : k+1 <= i
<1>1. t \in Tids /\ LineRight(log[k]) /\ Len(log) \in Nat
  BY DEF LogRight, LinesRight, LineRight
<1>2. log[k].status \in Statuses
  BY <1>1 DEF LineRight
<1>3. k \in At(log, "OUTCOME", t)
  BY DEF At
<1>4. Ordered(log, t)
  BY <1>1 DEF LogRight, InOrder
<1>5. /\ \A i, j \in At(log, "OUTCOME", t) : i = j
      /\ \A i \in At(log, "END", t) : \E j \in At(log, "OUTCOME", t) : j < i
  BY <1>4 DEF Ordered
<1>6. At(log, "OUTCOME", t) = {k}
  BY <1>3, <1>5
<1>7. \A i \in At(log, "END", t) : k < i /\ i \in 1..Len(log)
  BY <1>5, <1>6 DEF At
<1>8. \A i \in At(log, "END", t) : k+1 <= i
  BY <1>1, <1>7
<1>9. t \notin Open(log)
  BY <1>3 DEF Open
<1>10. QED BY <1>1, <1>2, <1>6, <1>8, <1>9

\* An outcome, and an END
LEMMA AfterOutcome ==
  ASSUME NEW log, LogRight(log), NEW db, NEW k \in 1..Len(log), NEW r, After(log, db, k+1, r),
         log[k].type = "OUTCOME", NEW s, s = AfterCheckpoint(r, log[k])
  PROVE  After(log, db, k, s) /\ (s.died <=> r.died)
<1> DEFINE t == log[k].tid
           e == log[k]
           new == t \notin r.done \union r.losers
           W == IF new THEN [r.winners EXCEPT ![t] = e.status] ELSE r.winners
<1>1. /\ t \in Tids /\ t \notin Open(log) /\ e.status \in Statuses
      /\ At(log, "OUTCOME", t) = {k}
      /\ \A i \in At(log, "END", t) : k+1 <= i
  BY OutcomeLine
<1>2. r.winners \in [Tids -> Statuses \union {"none"}] /\ IsRec(r)
  BY Zenon DEF After
<1>3. new <=> At(log, "END", t) = {}
  <2>1. t \in r.done <=> Since(At(log, "END", t), k+1)
    BY <1>1, Zenon DEF After
  <2>2. t \notin r.losers
    BY <1>1 DEF After
  <2>3. Since(At(log, "END", t), k+1) <=> At(log, "END", t) # {}
    BY <1>1 DEF Since
  <2>4. QED BY <2>1, <2>2, <2>3
<1>4. /\ s.db = r.db /\ s.winners = W /\ s.losers = r.losers
      /\ s.done = r.done /\ s.pl = r.pl /\ s.done_cp = r.done_cp /\ s.over = r.over
      /\ s.died = r.died /\ IsRec(s)
  <2>1. t \in DOMAIN r.winners /\ e.status # "none"
    BY <1>1, <1>2 DEF Statuses
  <2>2. s = Rec(r.db, W, r.losers, r.done, With(r.pw, t, new), r.pl, r.done_cp, r.over, r.died)
    BY <1>2, <2>1, OutcomeIs
  <2> HIDE DEF new, W
  <2>3. QED BY <2>2, FieldGet
<1>5. Len(log) \in Nat
  BY DEF LogRight, LinesRight
<1>6. /\ \A u : Since(At(log, "END", u), k) <=> Since(At(log, "END", u), k+1)
      /\ \A u : Since(At(log, "OUTCOME", u), k) <=> u = t \/ Since(At(log, "OUTCOME", u), k+1)
      /\ \A u : Since(At(log, "START", u), k) <=> Since(At(log, "START", u), k+1)
      /\ \A u : Since(Mentions(log, u), k) <=> u = t \/ Since(Mentions(log, u), k+1)
  BY <1>5, SinceStep
<1>7. s.winners \in [Tids -> Statuses \union {"none"}]
  <2> HIDE DEF new
  <2>1. QED BY <1>1, <1>2, <1>4
<1>8. Told(log, s)
  <2>1. Told(log, r)
    BY DEF After
  <2>2. ASSUME NEW u \in Tids, u # t \/ ~new PROVE s.winners[u] = r.winners[u]
    BY <1>2, <1>4, <2>2
  <2>3. new => s.winners[t] = e.status
    BY <1>1, <1>2, <1>4
  <2>4. k \in At(log, "OUTCOME", t)
    BY <1>1
  <2> HIDE DEF new, W, t
  <2>5. QED BY <2>1, <2>2, <2>3, <2>4 DEF Told
<1>9. s.done_cp = FALSE /\ s.over = FALSE
  BY <1>4 DEF After
<1>10. s.done = {u \in Tids : Since(At(log, "END", u), k)}
  BY <1>4, <1>6 DEF After
<1>11. ASSUME NEW u \in Tids
       PROVE  IsWinner(s, u) <=> At(log, "END", u) = {} /\ Since(At(log, "OUTCOME", u), k)
  <2>1. IsWinner(r, u) <=> At(log, "END", u) = {} /\ Since(At(log, "OUTCOME", u), k+1)
    BY DEF After
  <2>2. IsWinner(s, u) <=> (u = t /\ new) \/ IsWinner(r, u)
    BY <1>1, <1>2, <1>4 DEF IsWinner, Statuses
  <2> HIDE DEF new
  <2>3. CASE u = t
    <3>1. ~new => ~IsWinner(r, u)
      BY <1>3, <2>1, <2>3
    <3>2. Since(At(log, "OUTCOME", u), k)
      BY <1>6, <2>3
    <3>3. QED BY <1>3, <2>2, <2>3, <3>1, <3>2
  <2>4. CASE u # t
    BY <1>6, <2>1, <2>2, <2>4
  <2>5. QED BY <2>3, <2>4
<1>12. s.losers = {u \in Open(log) : Since(Mentions(log, u), k)}
  <2>1. r.losers = {u \in Open(log) : Since(Mentions(log, u), k+1)}
    BY DEF After
  <2>2. QED BY <1>1, <1>4, <1>6, <2>1
<1>13. s.pl = {u \in Open(log) : Since(Mentions(log, u), k) /\ ~Since(At(log, "START", u), k)}
  <2>1. r.pl = {u \in Open(log) : Since(Mentions(log, u), k+1) /\ ~Since(At(log, "START", u), k+1)}
    BY DEF After
  <2>2. QED BY <1>1, <1>4, <1>6, <2>1
<1>14. s.db = DbAt(log, db, k)
  <2>1. k \notin Updates(log, Open(log)) /\ DbLine(log, db, k)
    BY DbStep DEF Updates, LogRight
  <2>2. QED BY <1>4, <2>1 DEF After, DbLine
<1>15. QED BY <1>4, <1>7, <1>8, <1>9, <1>10, <1>11, <1>12, <1>13, <1>14, Zenon DEF After

LEMMA AfterEnd ==
  ASSUME NEW log, LogRight(log), NEW db, NEW k \in 1..Len(log), NEW r, After(log, db, k+1, r),
         log[k].type = "END", NEW s, s = AfterCheckpoint(r, log[k])
  PROVE  After(log, db, k, s) /\ (s.died <=> r.died)
<1> DEFINE t == log[k].tid
<1>1. t \in Tids /\ t \notin Open(log) /\ Len(log) \in Nat
  <2>1. t \in Tids /\ Len(log) \in Nat
    BY DEF LogRight, LinesRight, LineRight
  <2>2. k \in At(log, "END", t)
    BY DEF At
  <2>3. Ordered(log, t)
    BY <2>1 DEF LogRight, InOrder
  <2>4. At(log, "OUTCOME", t) # {}
    BY <2>2, <2>3 DEF Ordered
  <2>5. QED BY <2>1, <2>4 DEF Open
<1>2. IsRec(r)
  BY Zenon DEF After
<1>3. /\ s.db = r.db /\ s.winners = r.winners /\ s.losers = r.losers
      /\ s.done = r.done \union {t} /\ s.pl = r.pl /\ s.done_cp = r.done_cp /\ s.over = r.over
      /\ s.died = r.died /\ IsRec(s)
  <2>1. s = Rec(r.db, r.winners, r.losers, r.done \union {t}, r.pw, r.pl, r.done_cp, r.over, r.died)
    BY <1>2, EndIs
  <2>2. QED BY <2>1, FieldGet
<1>4. /\ \A u : Since(At(log, "END", u), k) <=> u = t \/ Since(At(log, "END", u), k+1)
      /\ \A u : Since(At(log, "OUTCOME", u), k) <=> Since(At(log, "OUTCOME", u), k+1)
      /\ \A u : Since(At(log, "START", u), k) <=> Since(At(log, "START", u), k+1)
      /\ \A u : Since(Mentions(log, u), k) <=> u = t \/ Since(Mentions(log, u), k+1)
  BY <1>1, SinceStep
<1>5. s.winners \in [Tids -> Statuses \union {"none"}] /\ Told(log, s)
  BY <1>3 DEF After, Told
<1>6. s.done_cp = FALSE /\ s.over = FALSE
  BY <1>3 DEF After
<1>7. s.done = {u \in Tids : Since(At(log, "END", u), k)}
  <2>1. r.done = {u \in Tids : Since(At(log, "END", u), k+1)}
    BY DEF After
  <2>2. QED BY <1>1, <1>3, <1>4, <2>1
<1>8. \A u \in Tids : IsWinner(s, u) <=> At(log, "END", u) = {} /\ Since(At(log, "OUTCOME", u), k)
  BY <1>3, <1>4 DEF After, IsWinner
<1>9. s.losers = {u \in Open(log) : Since(Mentions(log, u), k)}
  <2>1. r.losers = {u \in Open(log) : Since(Mentions(log, u), k+1)}
    BY DEF After
  <2>2. QED BY <1>1, <1>3, <1>4, <2>1
<1>10. s.pl = {u \in Open(log) : Since(Mentions(log, u), k) /\ ~Since(At(log, "START", u), k)}
  <2>1. r.pl = {u \in Open(log) : Since(Mentions(log, u), k+1) /\ ~Since(At(log, "START", u), k+1)}
    BY DEF After
  <2>2. QED BY <1>1, <1>3, <1>4, <2>1
<1>11. s.db = DbAt(log, db, k)
  <2>1. k \notin Updates(log, Open(log)) /\ DbLine(log, db, k)
    BY DbStep DEF Updates, LogRight
  <2>2. QED BY <1>3, <2>1 DEF After, DbLine
<1>12. QED BY <1>3, <1>5, <1>6, <1>7, <1>8, <1>9, <1>10, <1>11, Zenon DEF After

-----------------------------------------------------------------------------
(* The lines before the last checkpoint *)

\* In undo mode: the losers are known, those that began before line k are pending, and
\* whoever else an older checkpoint may name is a winner or done, or roll_back is over.
UndoBefore(log, db, c, k, r) ==
  /\ r.losers = Open(log)
  /\ r.pl = {t \in Open(log) : ~Since(At(log, "START", t), k)}
  /\ r.db = UndoneFrom(db, log, k)
  /\ \A t \in Tids : Since(At(log, "OUTCOME", t), c) => IsWinner(r, t) \/ t \in r.done
  /\ log[c].committed \union log[c].done \subseteq r.done
  /\ r.over => r.pl = {}
  /\ \A i \in k..c : log[i].type # "CHECKPOINT" /\ OpenAfter(log, i) => r.over

RedoBefore(log, db, r) == r.db = db /\ \A t \in Tids : IsWinner(r, t) <=> t \in Owed(log)

Before(log, db, c, k, r) ==
  /\ IsRec(r)
  /\ r.winners \in [Tids -> Statuses \union {"none"}]
  /\ Told(log, r)
  /\ r.done_cp = TRUE /\ r.over \in BOOLEAN
  /\ mode = "undo" => UndoBefore(log, db, c, k, r)
  /\ mode = "redo" => RedoBefore(log, db, r)

\* What the order of the lines of a transaction gives
LEMMA OrderFacts ==
  ASSUME NEW log, LogRight(log), NEW t \in Tids,
         NEW S, S = At(log, "START", t), NEW O, O = At(log, "OUTCOME", t),
         NEW E, E = At(log, "END", t), NEW M, M = Mentions(log, t)
  PROVE  /\ Len(log) \in Nat /\ M \subseteq 1..Len(log)
         /\ S \subseteq M /\ O \subseteq M /\ E \subseteq M
         /\ \A i, j \in S : i = j
         /\ \A i, j \in O : i = j
         /\ \A i \in S, j \in M : i <= j
         /\ M # {} => S # {}
         /\ \A i \in E : \E j \in O : j < i
<1>1. Ordered(log, t) /\ Len(log) \in Nat
  BY DEF LogRight, InOrder, LinesRight
<1>2. M \subseteq 1..Len(log) /\ S \subseteq M /\ O \subseteq M /\ E \subseteq M
  BY DEF Mentions, At
<1>3. /\ \A i, j \in O : i = j
      /\ \A i \in S, j \in M : i <= j
      /\ M # {} => S # {}
      /\ \A i \in E : \E j \in O : j < i
  BY <1>1 DEF Ordered
<1>4. ASSUME NEW i \in S, NEW j \in S PROVE i = j
  <2>1. i <= j /\ j <= i /\ i \in Nat /\ j \in Nat
    BY <1>1, <1>2, <1>3
  <2>2. QED BY <2>1
<1>5. QED BY <1>1, <1>2, <1>3, <1>4

\* A transaction whose outcome is at line k or later is a winner or done.
LEMMA OutcomeSeen ==
  ASSUME NEW log, LogRight(log), NEW db, NEW k \in Nat, NEW r, After(log, db, k, r),
         NEW t \in Tids, Since(At(log, "OUTCOME", t), k)
  PROVE  IsWinner(r, t) \/ t \in r.done
<1> DEFINE O == At(log, "OUTCOME", t)
           E == At(log, "END", t)
           M == Mentions(log, t)
<1>1. /\ (IsWinner(r, t) <=> E = {} /\ Since(O, k))
      /\ (t \in r.done <=> Since(E, k))
  BY Zenon DEF After
<1>2. /\ M \subseteq 1..Len(log) /\ Len(log) \in Nat /\ O \subseteq M /\ E \subseteq M
      /\ \A i, j \in O : i = j
      /\ \A i \in E : \E j \in O : j < i
  BY OrderFacts
<1> HIDE DEF O, E, M
<1>3. PICK i \in O : k <= i
  BY DEF Since, O
<1>4. ASSUME NEW j \in E PROVE k <= j
  <2>1. i < j
    BY <1>2, <1>3
  <2>2. i \in Nat /\ j \in Nat
    BY <1>2
  <2>3. QED BY <1>3, <2>1, <2>2
<1>5. QED BY <1>1, <1>3, <1>4 DEF Since, O

\* Whom a checkpoint takes for losers in undo mode
LEMMA PendingAt ==
  ASSUME NEW log, LogRight(log), OpenNamed(log), NEW db, NEW c \in Checkpoints(log),
         NEW r, After(log, db, c+1, r),
         NEW lost, lost = {t \in log[c].pending : ~IsWinner(r, t)} \ r.done
  PROVE  lost = {t \in Open(log) : ~Since(At(log, "START", t), c)}
<1>1. c \in 1..Len(log) /\ Len(log) \in Nat /\ log[c].type = "CHECKPOINT" /\ log[c].pending \subseteq Tids
  BY DEF Checkpoints, LogRight, LinesRight, LineRight
<1>2. ASSUME NEW t \in lost PROVE t \in Open(log) /\ ~Since(At(log, "START", t), c)
  <2>1. t \in Tids /\ t \in log[c].pending /\ ~IsWinner(r, t) /\ t \notin r.done
    BY <1>1
  <2>2. (\E i \in At(log, "START", t) : i < c) /\ (\A i \in At(log, "OUTCOME", t) : c < i)
    BY <2>1 DEF LogRight, PendingRight
  <2> DEFINE S == At(log, "START", t)
             O == At(log, "OUTCOME", t)
             M == Mentions(log, t)
  <2>3. M \subseteq 1..Len(log) /\ S \subseteq M /\ O \subseteq M /\ \A i, j \in S : i = j
    BY <2>1, OrderFacts
  <2>4. O = {}
    <3>1. SUFFICES ASSUME NEW i \in O PROVE FALSE
      OBVIOUS
    <3>2. c+1 <= i
      BY <1>1, <2>2, <2>3
    <3>3. Since(O, c+1)
      BY <3>2 DEF Since
    <3>4. c+1 \in Nat
      BY <1>1
    <3>5. QED BY <2>1, <3>3, <3>4, OutcomeSeen
  <2>5. t \in Open(log)
    BY <2>1, <2>2, <2>4 DEF Open
  <2>6. ~Since(S, c)
    <3>1. \A i \in S : i < c /\ i \in Nat
      BY <1>1, <2>2, <2>3
    <3>2. QED BY <1>1, <3>1 DEF Since
  <2>7. QED BY <2>5, <2>6
<1>3. ASSUME NEW t \in Open(log), ~Since(At(log, "START", t), c) PROVE t \in lost
  <2>1. t \in Tids /\ At(log, "START", t) # {} /\ At(log, "OUTCOME", t) = {}
    BY DEF Open
  <2>2. \E i \in At(log, "START", t) : i < c
    <3>1. PICK i \in At(log, "START", t) : TRUE
      BY <2>1
    <3>2. i \in Nat /\ ~(c <= i)
      BY <1>1, <1>3 DEF Since, At
    <3>3. QED BY <1>1, <3>2
  <2>3. t \in log[c].pending
    BY <2>2 DEF OpenNamed
  <2>4. At(log, "END", t) = {}
    <3>1. \A i \in At(log, "END", t) : \E j \in At(log, "OUTCOME", t) : j < i
      BY <2>1, OrderFacts
    <3>2. QED BY <2>1, <3>1
  <2>5. ~IsWinner(r, t)
    <3>1. IsWinner(r, t) => Since(At(log, "OUTCOME", t), c+1)
      BY <2>1, Zenon DEF After
    <3>2. QED BY <2>1, <3>1 DEF Since
  <2>6. t \notin r.done
    <3>1. t \in r.done => Since(At(log, "END", t), c+1)
      BY Zenon DEF After
    <3>2. QED BY <2>4, <3>1 DEF Since
  <2>7. QED BY <2>3, <2>5, <2>6
<1>4. QED BY <1>2, <1>3

\* The fields of a state of roll_back after a checkpoint
CheckpointRead(r, e, lost, s) ==
  /\ s.db = r.db /\ s.winners = r.winners /\ s.losers = r.losers \union lost
  /\ s.done = r.done \union e.done /\ s.pl = r.pl \union lost
  /\ s.done_cp = TRUE /\ s.over = r.over
  /\ (s.died <=> r.died \/ ~(e.committed \subseteq r.done))
  /\ IsRec(s)

LEMMA CheckpointFields ==
  ASSUME NEW r, NEW e, IsRec(r), NEW s, s = AtCheckpoint(r, e),
         NEW lost, lost = {t \in e.pending : ~IsWinner(r, t)} \ r.done
  PROVE  CheckpointRead(r, e, lost, s)
<1> DEFINE X == r.died \/ ~(e.committed \subseteq r.done)
           true == TRUE
<1>1. s = Rec(r.db, r.winners, r.losers \union lost, r.done \union e.done, r.pw, r.pl \union lost,
              true, r.over, X)
  BY AtCheckpointIs
<1> HIDE DEF X, true
<1>2. /\ s.db = r.db /\ s.winners = r.winners /\ s.losers = r.losers \union lost
      /\ s.done = r.done \union e.done /\ s.pl = r.pl \union lost
      /\ s.done_cp = true /\ s.over = r.over /\ s.died = X /\ IsRec(s)
  BY <1>1, FieldGet
<1>3. QED BY <1>2, Zenon DEF X, true, CheckpointRead

\* The last checkpoint: from the scan of the lines after it to that of those before it
LEMMA AtLast ==
  ASSUME NEW log, LogRight(log), mode = "undo" => UndoLog(log), mode = "redo" => RedoLog(log),
         NEW db, NEW c \in Checkpoints(log), NEW r, After(log, db, c+1, r),
         NEW s, s = AtCheckpoint(r, log[c])
  PROVE  /\ s.died <=> r.died \/ ~(log[c].committed \subseteq r.done)
         /\ ~s.died => Before(log, db, c, c, s)
<1> DEFINE e == log[c]
           lost == {t \in e.pending : ~IsWinner(r, t)} \ r.done
<1>1. c \in 1..Len(log) /\ Len(log) \in Nat /\ log[c].type = "CHECKPOINT"
  BY DEF Checkpoints, LogRight, LinesRight
<1>2. IsRec(r)
  BY Zenon DEF After
<1>3. CheckpointRead(r, e, lost, s)
  BY <1>2, CheckpointFields
<1>4. /\ s.db = r.db /\ s.winners = r.winners /\ s.losers = r.losers \union lost
      /\ s.done = r.done \union e.done /\ s.pl = r.pl \union lost
      /\ s.done_cp = TRUE /\ s.over = r.over
      /\ (s.died <=> r.died \/ ~(e.committed \subseteq r.done))
      /\ IsRec(s)
  BY <1>3, Zenon DEF CheckpointRead
<1>5. s.winners \in [Tids -> Statuses \union {"none"}] /\ Told(log, s)
  BY <1>4 DEF After, Told
<1>6. s.over = FALSE
  BY <1>4 DEF After
<1>7. /\ \A u : Since(At(log, "START", u), c) <=> Since(At(log, "START", u), c+1)
      /\ \A u : Since(At(log, "OUTCOME", u), c) <=> Since(At(log, "OUTCOME", u), c+1)
      /\ \A u : Since(Mentions(log, u), c) <=> Since(Mentions(log, u), c+1)
  BY <1>1, SinceStep
<1>8. ASSUME mode = "undo", ~s.died PROVE UndoBefore(log, db, c, c, s)
  <2>1. lost = {t \in Open(log) : ~Since(At(log, "START", t), c)}
    <3>1. OpenNamed(log)
      BY <1>8 DEF UndoLog
    <3>2. lost = {t \in log[c].pending : ~IsWinner(r, t)} \ r.done
      OBVIOUS
    <3> HIDE DEF lost
    <3>3. QED BY <3>1, <3>2, PendingAt
  <2> HIDE DEF lost
  <2>2. /\ r.losers = {t \in Open(log) : Since(Mentions(log, t), c+1)}
        /\ r.pl = {t \in Open(log) : Since(Mentions(log, t), c+1) /\ ~Since(At(log, "START", t), c+1)}
    BY DEF After
  <2>3. \A t : Since(At(log, "START", t), c) => Since(Mentions(log, t), c)
    BY DEF Since, At, Mentions
  <2>4. s.losers = Open(log)
    BY <1>4, <1>7, <2>1, <2>2, <2>3
  <2>5. s.pl = {t \in Open(log) : ~Since(At(log, "START", t), c)}
    BY <1>4, <1>7, <2>1, <2>2
  <2>6. s.db = UndoneFrom(db, log, c)
    <3>1. c \notin Updates(log, Open(log)) /\ DbLine(log, db, c)
      BY <1>1, DbStep DEF Updates, LogRight
    <3>2. QED BY <1>4, <1>8, <3>1 DEF After, DbLine, DbAt
  <2>7. ASSUME NEW t \in Tids, Since(At(log, "OUTCOME", t), c) PROVE IsWinner(s, t) \/ t \in s.done
    <3>1. IsWinner(r, t) \/ t \in r.done
      BY <1>1, <1>7, <2>7, OutcomeSeen
    <3>2. QED BY <1>4, <3>1 DEF IsWinner
  <2>8. e.committed \union e.done \subseteq s.done
    BY <1>4, <1>8
  <2>9. \A i \in c..c : ~(log[i].type # "CHECKPOINT")
    BY <1>1
  <2>10. QED BY <1>6, <2>4, <2>5, <2>6, <2>7, <2>8, <2>9, Zenon DEF UndoBefore
<1>9. ASSUME mode = "redo", ~s.died PROVE RedoBefore(log, db, s)
  <2>1. s.db = db
    BY <1>4, <1>9 DEF After, DbAt
  <2>2. ASSUME NEW t \in Tids PROVE IsWinner(s, t) <=> t \in Owed(log)
    <3>1. IsWinner(s, t) <=> At(log, "END", t) = {} /\ Since(At(log, "OUTCOME", t), c+1)
      BY <1>4 DEF After, IsWinner
    <3>2. t \in Owed(log) <=> At(log, "OUTCOME", t) # {} /\ At(log, "END", t) = {}
      BY DEF Owed
    <3>3. ASSUME t \in Owed(log) PROVE Since(At(log, "OUTCOME", t), c+1)
      <4>1. PICK i \in At(log, "OUTCOME", t) : TRUE
        BY <3>2, <3>3
      <4>2. i \in 1..Len(log) /\ i # c
        BY <1>1 DEF At
      <4>3. CASE i < c
        <5>1. t \in e.committed
          BY <1>9, <3>3, <4>3 DEF RedoLog, OwedNamed
        <5>2. t \in r.done
          BY <1>4, <1>9, <5>1
        <5>3. Since(At(log, "END", t), c+1)
          BY <5>2, Zenon DEF After
        <5>4. QED BY <3>2, <3>3, <5>3 DEF Since
      <4>4. CASE i > c
        <5>1. c+1 <= i
          BY <1>1, <4>2, <4>4
        <5>2. QED BY <5>1 DEF Since
      <4>5. QED BY <1>1, <4>2, <4>3, <4>4
    <3>4. QED BY <3>1, <3>2, <3>3 DEF Since
  <2>3. QED BY <2>1, <2>2, Zenon DEF RedoBefore
<1>10. QED BY <1>4, <1>5, <1>6, <1>8, <1>9, Zenon DEF Before

\* Older lines, as far as UndoBefore goes: what pl is
LEMMA PlIs ==
  ASSUME NEW log, LogRight(log), NEW k \in 1..Len(log),
         NEW pl, pl = {t \in Open(log) : ~Since(At(log, "START", t), k+1)}
  PROVE  /\ pl = {} <=> OpenAfter(log, k)
         /\ k \in Updates(log, Open(log)) => log[k].tid \in pl
<1>1. Len(log) \in Nat
  BY DEF LogRight, LinesRight
<1>2. ASSUME NEW t \in Open(log)
      PROVE  Since(At(log, "START", t), k+1) <=> \A j \in At(log, "START", t) : k < j
  <2> DEFINE S == At(log, "START", t)
             M == Mentions(log, t)
  <2>1. t \in Tids /\ S # {}
    BY DEF Open
  <2>2. \A i, j \in S : i = j
    BY <2>1, OrderFacts
  <2>3. S \subseteq Nat
    BY DEF At
  <2> HIDE DEF S
  <2>4. PICK i \in S : S = {i}
    BY <2>1, <2>2
  <2>5. i \in Nat
    BY <2>3
  <2>6. QED BY <2>4, <2>5 DEF Since, S
<1>3. ASSUME k \in Updates(log, Open(log)) PROVE log[k].tid \in pl
  <2> DEFINE t == log[k].tid
             S == At(log, "START", t)
             M == Mentions(log, t)
  <2>1. t \in Open(log) /\ t \in Tids /\ log[k].type = "UPDATE"
    BY <1>3 DEF Updates, Open
  <2>2. k \in M
    BY <2>1 DEF Mentions
  <2>3. \A i \in S, j \in M : i <= j
    BY <2>1, OrderFacts
  <2>4. \A i \in S : ~(k+1 <= i)
    <3>1. S \subseteq Nat
      BY DEF At
    <3>2. QED BY <2>2, <2>3, <3>1
  <2>5. QED BY <2>1, <2>4 DEF Since
<1>4. pl = {} <=> OpenAfter(log, k)
  BY <1>2 DEF OpenAfter
<1>5. QED BY <1>3, <1>4

LEMMA OverStays ==
  ASSUME NEW log, LogRight(log), NEW db, NEW c \in 1..Len(log), NEW k \in 1..c, k < c,
         NEW r, Before(log, db, c, k+1, r), r.over
  PROVE  Before(log, db, c, k, r)
<1>1. Len(log) \in Nat /\ k \in 1..Len(log)
  BY DEF LogRight, LinesRight
<1>2. ASSUME mode = "undo" PROVE UndoBefore(log, db, c, k, r)
  <2>1. UndoBefore(log, db, c, k+1, r)
    BY <1>2 DEF Before
  <2>2. /\ r.losers = Open(log)
        /\ r.pl = {t \in Open(log) : ~Since(At(log, "START", t), k+1)}
        /\ r.db = UndoneFrom(db, log, k+1)
        /\ \A t \in Tids : Since(At(log, "OUTCOME", t), c) => IsWinner(r, t) \/ t \in r.done
        /\ log[c].committed \union log[c].done \subseteq r.done
        /\ r.pl = {}
    BY <2>1 DEF UndoBefore
  <2>3. \A t : Since(At(log, "START", t), k+1) => Since(At(log, "START", t), k)
    BY <1>1, SinceStep
  <2>4. r.pl = {t \in Open(log) : ~Since(At(log, "START", t), k)}
    BY <2>2, <2>3
  <2>5. k \notin Updates(log, Open(log))
    BY <1>1, <2>2, PlIs
  <2>6. r.db = UndoneFrom(db, log, k)
    <3>1. DbLine(log, db, k)
      BY <1>1, DbStep DEF LogRight
    <3>2. QED BY <1>2, <2>2, <2>5, <3>1 DEF DbLine, DbAt
  <2>7. QED BY <2>2, <2>4, <2>6, Zenon DEF UndoBefore
<1>3. QED BY <1>2, Zenon DEF Before

\* An older checkpoint names nobody that roll_back does not know.
LEMMA EarlierPending ==
  ASSUME NEW log, LogRight(log), PendingNamed(log), NEW db, NEW c \in Checkpoints(log),
         NEW k \in Checkpoints(log), k < c,
         NEW r, UndoBefore(log, db, c, k+1, r), ~r.over,
         NEW t \in log[k].pending, ~IsWinner(r, t), t \notin r.done
  PROVE  t \in r.pl
<1> DEFINE S == At(log, "START", t)
           O == At(log, "OUTCOME", t)
           M == Mentions(log, t)
<1>1. k \in 1..Len(log) /\ c \in 1..Len(log) /\ Len(log) \in Nat /\ t \in Tids
  BY DEF Checkpoints, LogRight, LinesRight, LineRight
<1>2. (\E i \in S : i < k) /\ (\A i \in O : k < i)
  BY DEF LogRight, PendingRight
<1>3. S \subseteq Nat /\ O \subseteq 1..Len(log)
  BY DEF At
<1>4. \A i, j \in S : i = j
  BY <1>1, OrderFacts
<1>5. /\ \A u \in Tids : Since(At(log, "OUTCOME", u), c) => IsWinner(r, u) \/ u \in r.done
      /\ log[c].committed \union log[c].done \subseteq r.done
      /\ \A i \in k+1..c : log[i].type # "CHECKPOINT" /\ OpenAfter(log, i) => r.over
      /\ r.pl = {u \in Open(log) : ~Since(At(log, "START", u), k+1)}
  BY Zenon DEF UndoBefore
<1>6. O = {}
  <2>1. SUFFICES ASSUME O # {} PROVE FALSE
    OBVIOUS
  <2>2. CASE t \in log[c].pending
    <3>1. \A i \in O : c < i
      BY <2>2 DEF LogRight, PendingRight
    <3>2. Since(O, c)
      BY <1>1, <1>3, <2>1, <3>1 DEF Since
    <3>3. QED BY <1>1, <1>5, <3>2
  <2>3. CASE t \in log[c].committed \union log[c].done
    BY <1>5, <2>3
  <2>4. ASSUME NEW i \in O, i < c, OpenAfter(log, i) PROVE FALSE
    <3>1. i \in k+1..c
      BY <1>1, <1>2, <1>3, <2>4
    <3>2. log[i].type # "CHECKPOINT"
      BY DEF At
    <3>3. QED BY <1>5, <2>4, <3>1, <3>2
  <2>5. QED BY <2>2, <2>3, <2>4 DEF PendingNamed
<1>7. t \in Open(log)
  BY <1>1, <1>2, <1>6 DEF Open
<1>8. ~Since(S, k+1)
  <2> HIDE DEF S
  <2>1. QED BY <1>1, <1>2, <1>3, <1>4 DEF Since
<1>9. QED BY <1>5, <1>7, <1>8

\* An earlier checkpoint
LEMMA EarlierCheckpoint ==
  ASSUME NEW log, LogRight(log), mode = "undo" => UndoLog(log), mode = "redo" => RedoLog(log),
         NEW db, NEW c \in Checkpoints(log), NEW k \in Checkpoints(log), k < c,
         NEW r, Before(log, db, c, k+1, r), ~r.over,
         NEW s, s = AtCheckpoint(r, log[k])
  PROVE  /\ s.died => r.died \/ log[k].committed # {}
         /\ Before(log, db, c, k, s)
<1> DEFINE e == log[k]
           lost == {t \in e.pending : ~IsWinner(r, t)} \ r.done
<1>1. k \in 1..Len(log) /\ c \in 1..Len(log) /\ Len(log) \in Nat /\ log[k].type = "CHECKPOINT"
  BY DEF Checkpoints, LogRight, LinesRight
<1>2. IsRec(r)
  BY Zenon DEF Before
<1>3. CheckpointRead(r, e, lost, s)
  BY <1>2, CheckpointFields
<1>4. /\ s.db = r.db /\ s.winners = r.winners /\ s.losers = r.losers \union lost
      /\ s.done = r.done \union e.done /\ s.pl = r.pl \union lost
      /\ s.done_cp = TRUE /\ s.over = r.over
      /\ (s.died <=> r.died \/ ~(e.committed \subseteq r.done))
      /\ IsRec(s)
  BY <1>3, Zenon DEF CheckpointRead
<1>5. s.winners \in [Tids -> Statuses \union {"none"}] /\ Told(log, s)
  BY <1>4 DEF Before, Told
<1>6. s.over \in BOOLEAN
  BY <1>4 DEF Before
<1>7. ASSUME mode = "undo" PROVE UndoBefore(log, db, c, k, s)
  <2>1. UndoBefore(log, db, c, k+1, r)
    BY <1>7, Zenon DEF Before
  <2>2. /\ r.losers = Open(log)
        /\ r.pl = {t \in Open(log) : ~Since(At(log, "START", t), k+1)}
        /\ r.db = UndoneFrom(db, log, k+1)
        /\ \A t \in Tids : Since(At(log, "OUTCOME", t), c) => IsWinner(r, t) \/ t \in r.done
        /\ log[c].committed \union log[c].done \subseteq r.done
        /\ \A i \in k+1..c : log[i].type # "CHECKPOINT" /\ OpenAfter(log, i) => r.over
    BY <2>1, Zenon DEF UndoBefore
  <2>3. lost \subseteq r.pl
    <3>1. PendingNamed(log)
      BY <1>7 DEF UndoLog
    <3>2. ASSUME NEW t \in lost PROVE t \in r.pl
      BY <2>1, <3>1, EarlierPending
    <3>3. QED BY <3>2
  <2> HIDE DEF lost
  <2>4. s.losers = Open(log) /\ s.pl = r.pl
    BY <1>4, <2>2, <2>3
  <2>5. s.pl = {t \in Open(log) : ~Since(At(log, "START", t), k)}
    <3>1. \A t : Since(At(log, "START", t), k+1) <=> Since(At(log, "START", t), k)
      BY <1>1, SinceStep
    <3>2. QED BY <2>2, <2>4, <3>1
  <2>6. s.db = UndoneFrom(db, log, k)
    <3>1. k \notin Updates(log, Open(log)) /\ DbLine(log, db, k)
      BY <1>1, DbStep DEF Updates, LogRight
    <3>2. QED BY <1>4, <1>7, <2>2, <3>1 DEF DbLine, DbAt
  <2>7. \A t \in Tids : Since(At(log, "OUTCOME", t), c) => IsWinner(s, t) \/ t \in s.done
    BY <1>4, <2>2 DEF IsWinner
  <2>8. log[c].committed \union log[c].done \subseteq s.done
    BY <1>4, <2>2
  <2>9. s.over => s.pl = {}
    BY <1>4
  <2>10. \A i \in k..c : log[i].type # "CHECKPOINT" /\ OpenAfter(log, i) => s.over
    <3>1. \A i \in k..c : i = k \/ i \in k+1..c
      BY <1>1
    <3>2. QED BY <1>1, <1>4, <2>2, <3>1
  <2>11. QED BY <2>4, <2>5, <2>6, <2>7, <2>8, <2>9, <2>10, Zenon DEF UndoBefore
<1>8. ASSUME mode = "redo" PROVE RedoBefore(log, db, s)
  <2>1. RedoBefore(log, db, r)
    BY <1>8, Zenon DEF Before
  <2>2. QED BY <1>4, <2>1 DEF RedoBefore, IsWinner
<1>9. s.died => r.died \/ e.committed # {}
  BY <1>4
<1>10. QED BY <1>4, <1>5, <1>6, <1>7, <1>8, <1>9, Zenon DEF Before

\* A line that changes what it should and nothing else
LEMMA UndoLine ==
  ASSUME NEW log, LogRight(log), NEW db, NEW c \in 1..Len(log), NEW k \in 1..c, k < c,
         NEW r, UndoBefore(log, db, c, k+1, r), r.over = FALSE, r.pl # {}, log[k].type # "CHECKPOINT",
         NEW s, s.losers = r.losers, s.done = r.done, s.over = FALSE,
         \A t \in Tids : IsWinner(s, t) <=> IsWinner(r, t),
         s.pl = IF log[k].type = "START" THEN r.pl \ {log[k].tid} ELSE r.pl,
         s.db = IF k \in Updates(log, Open(log))
                THEN [r.db EXCEPT ![log[k].variable] = log[k].undo] ELSE r.db
  PROVE  UndoBefore(log, db, c, k, s)
<1>1. Len(log) \in Nat /\ k \in 1..Len(log)
  BY DEF LogRight, LinesRight
<1>2. /\ r.losers = Open(log)
      /\ r.pl = {t \in Open(log) : ~Since(At(log, "START", t), k+1)}
      /\ r.db = UndoneFrom(db, log, k+1)
      /\ \A t \in Tids : Since(At(log, "OUTCOME", t), c) => IsWinner(r, t) \/ t \in r.done
      /\ log[c].committed \union log[c].done \subseteq r.done
      /\ \A i \in k+1..c : log[i].type # "CHECKPOINT" /\ OpenAfter(log, i) => r.over
  BY Zenon DEF UndoBefore
<1>3. ~OpenAfter(log, k)
  BY <1>1, <1>2, PlIs
<1>4. \A i \in k..c : log[i].type # "CHECKPOINT" /\ OpenAfter(log, i) => s.over
  <2>1. \A i \in k..c : i = k \/ i \in k+1..c
    BY <1>1
  <2>2. QED BY <1>2, <1>3, <2>1
<1>5. s.pl = {t \in Open(log) : ~Since(At(log, "START", t), k)}
  <2>1. \A t : Since(At(log, "START", t), k) <=>
                 (log[k].type = "START" /\ t = log[k].tid) \/ Since(At(log, "START", t), k+1)
    BY <1>1, SinceStep
  <2>2. QED BY <1>2, <2>1
<1>6. s.db = UndoneFrom(db, log, k)
  <2>1. UndoneFrom(db, log, k) =
           IF k \in Updates(log, Open(log))
           THEN [UndoneFrom(db, log, k+1) EXCEPT ![log[k].variable] = log[k].undo]
           ELSE UndoneFrom(db, log, k+1)
    BY <1>1, UndoneStep DEF LogRight
  <2>2. QED BY <1>2, <2>1
<1>7. /\ s.losers = Open(log)
      /\ \A t \in Tids : Since(At(log, "OUTCOME", t), c) => IsWinner(s, t) \/ t \in s.done
      /\ log[c].committed \union log[c].done \subseteq s.done
      /\ s.over => s.pl = {}
  BY <1>2
<1>8. QED BY <1>4, <1>5, <1>6, <1>7, Zenon DEF UndoBefore

Stops(r) == (mode = "redo" /\ r.pw = {}) \/ (mode = "undo" /\ r.pl = {})

\* What a line changes of the fields
LineRead(r, e, s) ==
  /\ s.winners = IF e.type = "OUTCOME" /\ IsWinner(r, e.tid)
                 THEN [r.winners EXCEPT ![e.tid] = e.status] ELSE r.winners
  /\ s.pl = IF e.type = "START" THEN r.pl \ {e.tid} ELSE r.pl
  /\ s.db = IF e.type = "UPDATE" /\ e.tid \in r.losers /\ mode = "undo"
            THEN [r.db EXCEPT ![e.variable] = e.undo] ELSE r.db
  /\ s.died => r.died \/ (/\ e.type = "UPDATE" /\ e.tid \in r.losers /\ mode = "undo"
                          /\ e.undo = Absent /\ r.db[e.variable] = Absent)
  /\ s.losers = r.losers /\ s.done = r.done /\ s.done_cp = r.done_cp /\ s.over = r.over
  /\ IsRec(s)

LEMMA LineFields ==
  ASSUME NEW r, IsRec(r), NEW e, ~Stops(r), NEW s, s = BeforeCheckpoint(r, e)
  PROVE  LineRead(r, e, s)
<1>1. CASE e.type = "OUTCOME" /\ IsWinner(r, e.tid)
  <2> DEFINE W == [r.winners EXCEPT ![e.tid] = e.status]
  <2>1. s = [r EXCEPT !.winners[e.tid] = e.status]
    BY <1>1, Zenon DEF BeforeCheckpoint, Stops
  <2>2. [r EXCEPT !.winners[e.tid] = e.status] = [r EXCEPT !.winners = W]
    OBVIOUS
  <2>3. LineRead(r, e, s) <=>
          /\ s.winners = W /\ s.pl = r.pl /\ s.db = r.db /\ (s.died => r.died)
          /\ s.losers = r.losers /\ s.done = r.done /\ s.done_cp = r.done_cp /\ s.over = r.over
          /\ IsRec(s)
    <3>1. e.type # "START" /\ e.type # "UPDATE"
      BY <1>1
    <3>2. QED BY <1>1, <3>1 DEF LineRead
  <2> HIDE DEF W
  <2>4. s = SetWinners(r, W)
    BY <2>1, <2>2, Zenon DEF SetWinners
  <2>5. s = Rec(r.db, W, r.losers, r.done, r.pw, r.pl, r.done_cp, r.over, r.died)
    BY <2>4, FieldPut DEF IsRec
  <2>6. /\ s.winners = W /\ s.pl = r.pl /\ s.db = r.db /\ s.died = r.died
        /\ s.losers = r.losers /\ s.done = r.done /\ s.done_cp = r.done_cp /\ s.over = r.over
        /\ IsRec(s)
    BY <2>5, FieldGet
  <2>7. QED BY <2>3, <2>6
<1>2. CASE e.type = "START"
  <2>1. s = AtStart(r, e.tid)
    <3>1. e.type # "OUTCOME" /\ e.type # "UPDATE"
      BY <1>2
    <3>2. QED BY <1>2, <3>1, Zenon DEF BeforeCheckpoint, Stops
  <2>2. s = Rec(r.db, r.winners, r.losers, r.done, r.pw \ {e.tid}, r.pl \ {e.tid}, r.done_cp, r.over, r.died)
    BY <2>1, AtStartIs
  <2>3. /\ s.winners = r.winners /\ s.pl = r.pl \ {e.tid} /\ s.db = r.db /\ s.died = r.died
        /\ s.losers = r.losers /\ s.done = r.done /\ s.done_cp = r.done_cp /\ s.over = r.over
        /\ IsRec(s)
    BY <2>2, FieldGet
  <2>4. QED BY <1>2, <2>3 DEF LineRead
<1>3. CASE e.type = "UPDATE" /\ e.tid \in r.losers /\ mode = "undo"
  <2> DEFINE D == [r.db EXCEPT ![e.variable] = e.undo]
             X == r.died \/ (e.undo = Absent /\ r.db[e.variable] = Absent)
  <2>1. s = Undone(r, e)
    <3>1. e.type # "OUTCOME" /\ e.type # "START"
      BY <1>3
    <3>2. QED BY <1>3, <3>1, Zenon DEF BeforeCheckpoint, Stops
  <2>2. s = Rec(D, r.winners, r.losers, r.done, r.pw, r.pl, r.done_cp, r.over, X)
    BY <2>1, UndoneIs
  <2>3. LineRead(r, e, s) <=>
          /\ s.winners = r.winners /\ s.pl = r.pl /\ s.db = D /\ (s.died => X)
          /\ s.losers = r.losers /\ s.done = r.done /\ s.done_cp = r.done_cp /\ s.over = r.over
          /\ IsRec(s)
    <3>1. e.type # "START" /\ e.type # "OUTCOME"
      BY <1>3
    <3>2. QED BY <1>3, <3>1 DEF LineRead
  <2> HIDE DEF D, X
  <2>4. /\ s.winners = r.winners /\ s.pl = r.pl /\ s.db = D /\ s.died = X
        /\ s.losers = r.losers /\ s.done = r.done /\ s.done_cp = r.done_cp /\ s.over = r.over
        /\ IsRec(s)
    BY <2>2, FieldGet
  <2>5. QED BY <2>3, <2>4
<1>4. CASE /\ ~(e.type = "OUTCOME" /\ IsWinner(r, e.tid)) /\ e.type # "START"
           /\ ~(e.type = "UPDATE" /\ e.tid \in r.losers /\ mode = "undo")
  <2>1. s = r
    BY <1>4, Zenon DEF BeforeCheckpoint, Stops
  <2>2. QED BY <1>4, <2>1 DEF LineRead
<1>5. QED BY <1>1, <1>2, <1>3, <1>4, Zenon

\* An earlier line of a transaction
LEMMA EarlierLine ==
  ASSUME NEW log, LogRight(log), mode \in {"undo", "redo"}, NEW db,
         NEW c \in 1..Len(log), NEW k \in 1..c, k < c, log[k].type # "CHECKPOINT",
         NEW r, Before(log, db, c, k+1, r), ~r.over,
         NEW s, s = BeforeCheckpoint(r, log[k])
  PROVE  (s.died => r.died \/ Fails(log, db, k)) /\ Before(log, db, c, k, s)
<1> DEFINE e == log[k]
           t == e.tid
<1>1. /\ k \in 1..Len(log) /\ Len(log) \in Nat /\ t \in Tids
      /\ e.type = "OUTCOME" => e.status \in Statuses
      /\ e.type = "START" => e.type # "OUTCOME" /\ e.type # "UPDATE"
  BY DEF LogRight, LinesRight, LineRight
<1>2. /\ IsRec(r)
      /\ r.winners \in [Tids -> Statuses \union {"none"}]
      /\ Told(log, r)
      /\ r.done_cp = TRUE /\ r.over = FALSE
      /\ mode = "undo" => UndoBefore(log, db, c, k+1, r)
      /\ mode = "redo" => RedoBefore(log, db, r)
  BY Zenon DEF Before
<1>3. CASE Stops(r)
  <2> DEFINE true == TRUE
  <2>1. s = [r EXCEPT !.over = true]
    BY <1>3, Zenon DEF BeforeCheckpoint, Stops
  <2> HIDE DEF true
  <2>2. s = SetOver(r, true)
    BY <2>1, Zenon DEF SetOver
  <2>3. s = Rec(r.db, r.winners, r.losers, r.done, r.pw, r.pl, r.done_cp, true, r.died)
    BY <1>2, <2>2, FieldPut DEF IsRec
  <2>4. /\ s.db = r.db /\ s.winners = r.winners /\ s.losers = r.losers /\ s.done = r.done
        /\ s.pl = r.pl /\ s.done_cp = r.done_cp /\ s.over = true /\ s.died = r.died /\ IsRec(s)
    BY <2>3, FieldGet
  <2>5. s.over = TRUE
    BY <2>4, Zenon DEF true
  <2>6. Told(log, s)
    BY <1>2, <2>4 DEF Told
  <2>7. mode = "redo" => RedoBefore(log, db, s)
    BY <1>2, <2>4 DEF RedoBefore, IsWinner
  <2>8. ASSUME mode = "undo" PROVE UndoBefore(log, db, c, k+1, s)
    <3>1. r.pl = {}
      BY <1>3, <2>8 DEF Stops
    <3>2. \A u : IsWinner(s, u) <=> IsWinner(r, u)
      BY <2>4 DEF IsWinner
    <3>3. QED BY <1>2, <2>4, <2>5, <2>8, <3>1, <3>2 DEF UndoBefore
  <2>9. Before(log, db, c, k+1, s)
    BY <1>2, <2>4, <2>5, <2>6, <2>7, <2>8 DEF Before
  <2>10. Before(log, db, c, k, s)
    BY <2>5, <2>9, OverStays
  <2>11. QED BY <2>4, <2>10
<1>4. CASE ~Stops(r)
  <2>1. LineRead(r, e, s)
    BY <1>2, <1>4, LineFields
  <2>2. /\ s.winners = IF e.type = "OUTCOME" /\ IsWinner(r, e.tid)
                       THEN [r.winners EXCEPT ![e.tid] = e.status] ELSE r.winners
        /\ s.pl = IF e.type = "START" THEN r.pl \ {e.tid} ELSE r.pl
        /\ s.db = IF e.type = "UPDATE" /\ e.tid \in r.losers /\ mode = "undo"
                  THEN [r.db EXCEPT ![e.variable] = e.undo] ELSE r.db
        /\ s.died => r.died \/ (/\ e.type = "UPDATE" /\ e.tid \in r.losers /\ mode = "undo"
                                /\ e.undo = Absent /\ r.db[e.variable] = Absent)
        /\ s.losers = r.losers /\ s.done = r.done /\ s.done_cp = r.done_cp /\ s.over = r.over
        /\ IsRec(s)
    BY <2>1, Zenon DEF LineRead
  <2>3. \A u \in Tids : IsWinner(s, u) <=> IsWinner(r, u)
    <3>1. ASSUME NEW u \in Tids PROVE IsWinner(s, u) <=> IsWinner(r, u)
      <4>1. CASE e.type = "OUTCOME" /\ IsWinner(r, t) /\ u = t
        <5>1. s.winners[u] = e.status /\ e.status \in Statuses
          BY <1>1, <1>2, <2>2, <4>1
        <5>2. QED BY <4>1, <5>1 DEF IsWinner, Statuses
      <4>2. CASE ~(e.type = "OUTCOME" /\ IsWinner(r, t) /\ u = t)
        <5>1. s.winners[u] = r.winners[u]
          BY <1>2, <2>2, <4>2
        <5>2. QED BY <5>1 DEF IsWinner
      <4>3. QED BY <4>1, <4>2
    <3>2. QED BY <3>1
  <2>4. s.winners \in [Tids -> Statuses \union {"none"}]
    BY <1>1, <1>2, <2>2
  <2>5. Told(log, s)
    <3>1. ASSUME NEW u \in Tids
          PROVE  s.winners[u] = "none" \/ \E i \in At(log, "OUTCOME", u) : s.winners[u] = log[i].status
      <4>1. CASE e.type = "OUTCOME" /\ IsWinner(r, t) /\ u = t
        <5>1. s.winners[u] = e.status /\ k \in At(log, "OUTCOME", u)
          BY <1>1, <1>2, <2>2, <4>1 DEF At
        <5>2. QED BY <5>1
      <4>2. CASE ~(e.type = "OUTCOME" /\ IsWinner(r, t) /\ u = t)
        <5>1. s.winners[u] = r.winners[u]
          BY <1>2, <2>2, <4>2
        <5>2. QED BY <1>2, <5>1 DEF Told
      <4>3. QED BY <4>1, <4>2
    <3>2. QED BY <3>1 DEF Told
  <2>6. ASSUME mode = "undo" PROVE UndoBefore(log, db, c, k, s)
    <3>1. UndoBefore(log, db, c, k+1, r)
      BY <1>2, <2>6
    <3>2. r.pl # {}
      BY <1>4, <2>6 DEF Stops
    <3>3. s.db = IF k \in Updates(log, Open(log))
                 THEN [r.db EXCEPT ![log[k].variable] = log[k].undo] ELSE r.db
      <4>1. r.losers = Open(log)
        BY <3>1 DEF UndoBefore
      <4>2. k \in Updates(log, Open(log)) <=> e.type = "UPDATE" /\ t \in r.losers
        BY <1>1, <4>1 DEF Updates
      <4>3. QED BY <2>2, <2>6, <4>2
    <3>4. s.over = FALSE
      BY <1>2, <2>2
    <3>5. QED BY <1>2, <2>2, <2>3, <3>1, <3>2, <3>3, <3>4, UndoLine
  <2>7. ASSUME mode = "redo" PROVE RedoBefore(log, db, s)
    <3>1. s.db = r.db
      BY <2>2, <2>7
    <3>2. QED BY <1>2, <2>3, <2>7, <3>1 DEF RedoBefore
  <2>8. ASSUME s.died, ~r.died PROVE Fails(log, db, k)
    <3>1. /\ e.type = "UPDATE" /\ e.tid \in r.losers /\ mode = "undo"
          /\ e.undo = Absent /\ r.db[e.variable] = Absent
      BY <2>2, <2>8
    <3>2. r.losers = Open(log) /\ r.db = UndoneFrom(db, log, k+1)
      BY <1>2, <3>1 DEF UndoBefore
    <3>3. QED BY <1>1, <3>1, <3>2 DEF Fails, Updates
  <2>9. s.done_cp = TRUE /\ s.over \in BOOLEAN
    BY <1>2, <2>2
  <2>10. Before(log, db, c, k, s)
    BY <2>2, <2>4, <2>5, <2>6, <2>7, <2>9, Zenon DEF Before
  <2>11. QED BY <2>8, <2>10
<1>5. QED BY <1>3, <1>4

-----------------------------------------------------------------------------
(* The whole log *)

DiedFor(log, db) ==
  \/ \E c \in Checkpoints(log) : log[c].committed # {}
  \/ \E j \in 1..Len(log) : Fails(log, db, j)

Scanned(log, db, c, k, r) ==
  /\ r.died => DiedFor(log, db)
  /\ ~r.died => IF k > c THEN After(log, db, k, r) ELSE Before(log, db, c, k, r)

ReadyToScan(log) ==
  /\ mode \in {"undo", "redo"} /\ LogRight(log)
  /\ (mode = "undo" => UndoLog(log)) /\ (mode = "redo" => RedoLog(log))

\* The last checkpoint, or 0
LastMark(log, c) == /\ c \in Checkpoints(log) \union {0}
                /\ \A i \in Checkpoints(log) : i <= c

\* A log has a last checkpoint, or none.
LEMMA LastExists ==
  ASSUME NEW log, Len(log) \in Nat
  PROVE  \E c : LastMark(log, c)
<1>1. CASE Checkpoints(log) = {}
  BY <1>1 DEF LastMark
<1>2. CASE Checkpoints(log) # {}
  <2>1. Checkpoints(log) \subseteq 1..Len(log)
    BY DEF Checkpoints
  <2>2. Max(Checkpoints(log)) \in Checkpoints(log) /\ \A i \in Checkpoints(log) : i <= Max(Checkpoints(log))
    BY <1>2, <2>1, MaxGives
  <2>3. QED BY <2>2, Zenon DEF LastMark
<1>3. QED BY <1>1, <1>2

\* The scan of one line, wherever it is
LEMMA LineScanned ==
  ASSUME NEW log, ReadyToScan(log), NEW db, NEW c, LastMark(log, c), NEW k \in 1..Len(log),
         NEW r, Scanned(log, db, c, k+1, r), NEW s, s = Line(r, log[k])
  PROVE  Scanned(log, db, c, k, s)
<1>1. /\ Len(log) \in Nat /\ LineRight(log[k]) /\ LogRight(log) /\ mode \in {"undo", "redo"}
      /\ (mode = "undo" => UndoLog(log)) /\ (mode = "redo" => RedoLog(log))
  BY DEF ReadyToScan, LogRight, LinesRight
<1>2. c \in 0..Len(log) /\ (c # 0 => c \in Checkpoints(log)) /\ \A i \in Checkpoints(log) : i <= c
  BY <1>1 DEF LastMark, Checkpoints
<1>3. CASE r.died
  <2>1. s = r
    BY <1>3, Zenon DEF Line
  <2>2. QED BY <1>3, <2>1 DEF Scanned
<1>4. CASE ~r.died /\ k > c
  <2>1. After(log, db, k+1, r)
    <3>1. k+1 > c
      BY <1>2, <1>4
    <3>2. QED BY <1>4, <3>1 DEF Scanned
  <2>2. r.done_cp = FALSE /\ r.over = FALSE
    BY <2>1, Zenon DEF After
  <2>3. log[k].type # "CHECKPOINT"
    <3>1. k \notin Checkpoints(log)
      BY <1>2, <1>4
    <3>2. QED BY <3>1 DEF Checkpoints
  <2>4. s = AfterCheckpoint(r, log[k])
    BY <1>4, <2>2, <2>3, Zenon DEF Line
  <2>5. log[k].type \in {"START", "UPDATE", "OUTCOME", "END"}
    BY <1>1, <2>3 DEF LineRight, Types
  <2>6. After(log, db, k, s) /\ (s.died => Fails(log, db, k))
    <3>1. CASE log[k].type = "START"
      BY <1>1, <1>4, <2>1, <2>4, <3>1, AfterStart
    <3>2. CASE log[k].type = "UPDATE"
      BY <1>1, <1>4, <2>1, <2>4, <3>2, AfterUpdate
    <3>3. CASE log[k].type = "OUTCOME"
      BY <1>1, <1>4, <2>1, <2>4, <3>3, AfterOutcome
    <3>4. CASE log[k].type = "END"
      BY <1>1, <1>4, <2>1, <2>4, <3>4, AfterEnd
    <3>5. QED BY <2>5, <3>1, <3>2, <3>3, <3>4
  <2>7. QED BY <1>4, <2>6 DEF Scanned, DiedFor
<1>5. CASE ~r.died /\ k = c
  <2>1. After(log, db, k+1, r)
    <3>1. k+1 > c
      BY <1>2, <1>5
    <3>2. QED BY <1>5, <3>1 DEF Scanned
  <2>2. r.over = FALSE
    BY <2>1, Zenon DEF After
  <2>3. c \in Checkpoints(log) /\ log[c].type = "CHECKPOINT"
    BY <1>2, <1>5 DEF Checkpoints
  <2>4. s = AtCheckpoint(r, log[c])
    BY <1>5, <2>2, <2>3, Zenon DEF Line
  <2>5. /\ s.died <=> r.died \/ ~(log[c].committed \subseteq r.done)
        /\ ~s.died => Before(log, db, c, c, s)
    BY <1>1, <1>5, <2>1, <2>3, <2>4, AtLast
  <2>6. s.died => log[c].committed # {}
    BY <1>5, <2>5
  <2>7. ~(k > c)
    BY <1>2, <1>5
  <2>8. QED BY <1>5, <2>3, <2>5, <2>6, <2>7 DEF Scanned, DiedFor
<1>6. CASE ~r.died /\ k < c
  <2>1. Before(log, db, c, k+1, r) /\ k \in 1..c /\ c \in 1..Len(log) /\ c \in Checkpoints(log) /\ ~(k > c)
    <3>1. ~(k+1 > c) /\ k \in 1..c /\ c \in 1..Len(log) /\ c # 0 /\ ~(k > c)
      BY <1>1, <1>2, <1>6
    <3>2. QED BY <1>2, <1>6, <3>1 DEF Scanned
  <2>2. r.done_cp = TRUE
    BY <2>1, Zenon DEF Before
  <2>3. CASE r.over
    <3>1. s = r
      BY <2>3, Zenon DEF Line
    <3>2. Before(log, db, c, k, r)
      BY <1>1, <1>6, <2>1, <2>3, OverStays
    <3>3. QED BY <1>6, <2>1, <3>1, <3>2 DEF Scanned
  <2>4. CASE ~r.over /\ log[k].type = "CHECKPOINT"
    <3>1. s = AtCheckpoint(r, log[k])
      BY <1>6, <2>4, Zenon DEF Line
    <3>2. k \in Checkpoints(log)
      BY <2>4 DEF Checkpoints
    <3>3. /\ s.died => r.died \/ log[k].committed # {}
          /\ Before(log, db, c, k, s)
      BY <1>1, <1>6, <2>1, <2>4, <3>1, <3>2, EarlierCheckpoint
    <3>4. QED BY <1>6, <2>1, <3>2, <3>3 DEF Scanned, DiedFor
  <2>5. CASE ~r.over /\ log[k].type # "CHECKPOINT"
    <3>1. s = BeforeCheckpoint(r, log[k])
      BY <1>6, <2>2, <2>5, Zenon DEF Line
    <3>2. (s.died => r.died \/ Fails(log, db, k)) /\ Before(log, db, c, k, s)
      BY <1>1, <1>6, <2>1, <2>5, <3>1, EarlierLine
    <3>3. QED BY <1>6, <2>1, <3>2 DEF Scanned, DiedFor
  <2>6. QED BY <2>3, <2>4, <2>5
<1>7. QED BY <1>1, <1>2, <1>3, <1>4, <1>5, <1>6

\* Where roll_back gets to
Rolled(log, db, r) ==
  /\ r.died => DiedFor(log, db)
  /\ ~r.died /\ mode = "undo" => r.losers = Open(log) /\ r.db = UndoneFrom(db, log, 1)
  /\ ~r.died /\ mode = "redo" =>
       /\ r.db = db
       /\ \A t \in Tids : r.winners[t] = IF t \in Owed(log) THEN "COMMITTED" ELSE "none"

LEMMA StartScanned ==
  ASSUME NEW log, ReadyToScan(log), NEW db \in Stored, NEW c, LastMark(log, c)
  PROVE  Scanned(log, db, c, Len(log)+1, Start(db))
<1> DEFINE s == Start(db)
           none == [t \in Tids |-> "none"]
           false == FALSE
           empty == {}
<1>1. Len(log) \in Nat /\ LinesRight(log)
  BY DEF ReadyToScan, LogRight, LinesRight
<1>2. s = Rec(db, none, empty, empty, empty, empty, false, false, false)
  BY Zenon DEF Start, Rec
<1>3. none \in [Tids -> Statuses \union {"none"}] /\ \A t \in Tids : none[t] = "none"
  OBVIOUS
<1> HIDE DEF none, false, empty, s
<1>4. /\ s.db = db /\ s.winners = none /\ s.losers = {} /\ s.done = {} /\ s.pl = {}
      /\ s.done_cp = false /\ s.over = false /\ s.died = false /\ IsRec(s)
  <2>1. /\ s.db = db /\ s.winners = none /\ s.losers = empty /\ s.done = empty /\ s.pl = empty
        /\ s.done_cp = false /\ s.over = false /\ s.died = false /\ IsRec(s)
    BY <1>2, FieldGet
  <2>2. QED BY <2>1 DEF empty
<1>5. /\ \A type, t : ~Since(At(log, type, t), Len(log)+1)
      /\ \A t : ~Since(Mentions(log, t), Len(log)+1)
  BY <1>1 DEF Since, At, Mentions
<1>6. s.done_cp = FALSE /\ s.over = FALSE /\ ~s.died
  BY <1>4, Zenon DEF false
<1>7. Told(log, s) /\ \A t \in Tids : ~IsWinner(s, t)
  BY <1>3, <1>4 DEF Told, IsWinner
<1>8. s.db = DbAt(log, db, Len(log)+1)
  BY <1>1, <1>4, UndoneNone DEF DbAt
<1>9. After(log, db, Len(log)+1, s)
  <2>1. s.done = {t \in Tids : Since(At(log, "END", t), Len(log)+1)}
    BY <1>4, <1>5
  <2>2. s.losers = {t \in Open(log) : Since(Mentions(log, t), Len(log)+1)}
    BY <1>4, <1>5
  <2>3. s.pl = {t \in Open(log) : Since(Mentions(log, t), Len(log)+1) /\ ~Since(At(log, "START", t), Len(log)+1)}
    BY <1>4, <1>5
  <2>4. s.winners \in [Tids -> Statuses \union {"none"}]
    BY <1>3, <1>4
  <2>5. QED BY <1>4, <1>5, <1>6, <1>7, <1>8, <2>1, <2>2, <2>3, <2>4, Zenon DEF After
<1>10. Len(log)+1 > c
  BY <1>1 DEF LastMark, Checkpoints
<1>11. QED BY <1>6, <1>9, <1>10 DEF Scanned, s

\* What roll_back leaves: the losers are the open transactions, the winners the owed ones.
LEMMA RollBackGives ==
  ASSUME NEW log, ReadyToScan(log), NEW db \in Stored
  PROVE  Rolled(log, db, RollBack(log, db))
<1>1. Len(log) \in Nat
  BY DEF ReadyToScan, LogRight, LinesRight
<1>2. PICK c : LastMark(log, c)
  BY <1>1, LastExists
<1> DEFINE s == Scan(log, db)
           T == {k \in 1..Len(log)+1 : Scanned(log, db, c, k, s[k])}
<1>3. s[Len(log)+1] = Start(db) /\ \A k \in 1..Len(log) : s[k] = Line(s[k+1], log[k])
  BY <1>1, ScanGives
<1>4. RollBack(log, db) = s[1]
  BY DEF RollBack
<1> HIDE DEF s
<1>5. Len(log)+1 \in T
  BY <1>1, <1>2, <1>3, StartScanned
<1>6. ASSUME NEW k \in 1..Len(log), k+1 \in T PROVE k \in T
  <2>1. k \in 1..Len(log)+1 /\ s[k] = Line(s[k+1], log[k])
    BY <1>1, <1>3
  <2>2. QED BY <1>2, <1>6, <2>1, LineScanned
<1> HIDE DEF T
<1>7. \A k \in 1..Len(log)+1 : k \in T
  BY <1>1, <1>5, <1>6, Backwards
<1> DEFINE r == s[1]
<1>8. Scanned(log, db, c, 1, r)
  BY <1>1, <1>7 DEF T
<1> HIDE DEF r
<1>9. ASSUME ~r.died, 1 > c PROVE After(log, db, 1, r)
  BY <1>8, <1>9 DEF Scanned
<1>10. ASSUME ~r.died, ~(1 > c) PROVE Before(log, db, c, 1, r)
  BY <1>8, <1>10 DEF Scanned
<1>11. ASSUME ~r.died, mode = "undo" PROVE r.losers = Open(log) /\ r.db = UndoneFrom(db, log, 1)
  <2>1. CASE 1 > c
    <3>1. r.losers = {t \in Open(log) : Since(Mentions(log, t), 1)}
      BY <1>9, <1>11, <2>1, Zenon DEF After
    <3>2. \A t \in Open(log) : Since(Mentions(log, t), 1)
      BY DEF Open, Since, At, Mentions
    <3>3. QED BY <1>9, <1>11, <2>1, <3>1, <3>2 DEF After, DbAt
  <2>2. CASE ~(1 > c)
    BY <1>10, <1>11, <2>2 DEF Before, UndoBefore
  <2>3. QED BY <2>1, <2>2
<1>12. ASSUME ~r.died, mode = "redo"
       PROVE  /\ r.db = db
              /\ \A t \in Tids : r.winners[t] = IF t \in Owed(log) THEN "COMMITTED" ELSE "none"
  <2>1. /\ r.db = db /\ Told(log, r)
        /\ \A t \in Tids : IsWinner(r, t) <=> t \in Owed(log)
    <3>1. CASE 1 > c
      <4>1. \A t \in Tids : Since(At(log, "OUTCOME", t), 1) <=> At(log, "OUTCOME", t) # {}
        BY DEF Since, At
      <4>2. /\ r.db = DbAt(log, db, 1) /\ Told(log, r)
            /\ \A t \in Tids : IsWinner(r, t) <=> At(log, "END", t) = {} /\ Since(At(log, "OUTCOME", t), 1)
        BY <1>9, <1>12, <3>1, Zenon DEF After
      <4>3. QED BY <1>12, <4>1, <4>2 DEF DbAt, Owed
    <3>2. CASE ~(1 > c)
      BY <1>10, <1>12, <3>2 DEF Before, RedoBefore
    <3>3. QED BY <3>1, <3>2
  <2>2. NoneAborted(log)
    BY <1>12 DEF ReadyToScan, RedoLog
  <2>3. QED BY <2>1, <2>2 DEF Told, NoneAborted, IsWinner
<1>13. r.died => DiedFor(log, db)
  BY <1>8 DEF Scanned
<1>14. QED BY <1>4, <1>11, <1>12, <1>13 DEF Rolled, r

-----------------------------------------------------------------------------
(* A log that has grown *)

Grown(log, new) ==
  /\ Len(log) \in Nat /\ Len(new) \in Nat /\ Len(log) <= Len(new)
  /\ \A i \in 1..Len(log) : new[i] = log[i]

Extra(log, new) == Len(log)+1..Len(new)

\* By one line of this type for each of the transactions T
Adds(log, new, type, T) ==
  /\ Grown(log, new) /\ T \subseteq Tids /\ type # "CHECKPOINT"
  /\ \A p \in Extra(log, new) : LineRight(new[p]) /\ new[p].type = type /\ new[p].tid \in T
  /\ \A p, q \in Extra(log, new) : new[p].tid = new[q].tid => p = q
  /\ \A t \in T : \E p \in Extra(log, new) : new[p].tid = t

\* That may have one
Allowed(log, type, T) ==
  \/ type = "START" /\ \A t \in T : Mentions(log, t) = {}
  \/ type \in {"UPDATE", "OUTCOME"} /\ T \subseteq Open(log)
  \/ type = "END" /\ T \subseteq Owed(log)

\* What this makes of the lines of t
Added(log, new, type, T, t) ==
  /\ \A ty : ty # type \/ t \notin T => At(new, ty, t) = At(log, ty, t)
  /\ t \notin T => Mentions(new, t) = Mentions(log, t)
  /\ t \in T => \E p : /\ p > Len(log) /\ p \in Nat
                       /\ At(new, type, t) = At(log, type, t) \union {p}
                       /\ Mentions(new, t) = Mentions(log, t) \union {p}

\* What the new lines are to one transaction
LEMMA AddsGive ==
  ASSUME NEW log, NEW new, NEW type, NEW T, Adds(log, new, type, T), NEW t
  PROVE  Added(log, new, type, T, t)
<1>1. /\ Len(log) \in Nat /\ Len(new) \in Nat /\ Len(log) <= Len(new)
      /\ \A i \in 1..Len(log) : new[i] = log[i]
      /\ \A p \in Extra(log, new) : new[p].type = type /\ new[p].tid \in T
      /\ \A p, q \in Extra(log, new) : new[p].tid = new[q].tid => p = q
      /\ t \in T => \E p \in Extra(log, new) : new[p].tid = t
      /\ type # "CHECKPOINT"
  BY DEF Adds, Grown
<1>2. /\ \A p \in Extra(log, new) : p \notin 1..Len(log) /\ p > Len(log) /\ p \in Nat /\ p \in 1..Len(new)
      /\ \A i \in 1..Len(new) : i \in 1..Len(log) \/ i \in Extra(log, new)
      /\ 1..Len(log) \subseteq 1..Len(new)
  BY <1>1 DEF Extra
<1>3. \A ty : At(new, ty, t) = At(log, ty, t) \union {p \in Extra(log, new) : new[p].type = ty /\ new[p].tid = t}
  BY <1>1, <1>2 DEF At
<1>4. Mentions(new, t) = Mentions(log, t) \union {p \in Extra(log, new) : new[p].tid = t}
  BY <1>1, <1>2 DEF Mentions
<1>5. ASSUME NEW ty, ty # type \/ t \notin T PROVE At(new, ty, t) = At(log, ty, t)
  <2>1. {p \in Extra(log, new) : new[p].type = ty /\ new[p].tid = t} = {}
    BY <1>1, <1>5
  <2>2. QED BY <1>3, <2>1
<1>6. ASSUME t \notin T PROVE Mentions(new, t) = Mentions(log, t)
  <2>1. {p \in Extra(log, new) : new[p].tid = t} = {}
    BY <1>1, <1>6
  <2>2. QED BY <1>4, <2>1
<1>7. ASSUME t \in T
      PROVE  \E p : /\ p > Len(log) /\ p \in Nat
                    /\ At(new, type, t) = At(log, type, t) \union {p}
                    /\ Mentions(new, t) = Mentions(log, t) \union {p}
  <2>1. PICK p \in Extra(log, new) : new[p].tid = t
    BY <1>1, <1>7
  <2>2. {q \in Extra(log, new) : new[q].tid = t} = {p}
    BY <1>1, <2>1
  <2>3. {q \in Extra(log, new) : new[q].type = type /\ new[q].tid = t} = {p}
    BY <1>1, <2>1
  <2>4. QED BY <1>2, <1>3, <1>4, <2>2, <2>3
<1>8. QED BY <1>5, <1>6, <1>7 DEF Added

\* The lines of a transaction stay in order.
LEMMA OrderedStays ==
  ASSUME NEW log, LogRight(log), NEW new, NEW type, NEW T, Adds(log, new, type, T),
         Allowed(log, type, T), NEW t \in Tids
  PROVE  Ordered(new, t)
<1>1. Added(log, new, type, T, t) /\ Ordered(log, t) /\ Len(log) \in Nat
  BY AddsGive DEF LogRight, InOrder, LinesRight
<1>2. CASE t \notin T
  <2>1. /\ \A ty : At(new, ty, t) = At(log, ty, t)
        /\ Mentions(new, t) = Mentions(log, t)
    BY <1>1, <1>2 DEF Added
  <2>2. QED BY <1>1, <2>1 DEF Ordered
<1>3. CASE t \in T
  <2> DEFINE S == At(log, "START", t)
             U == At(log, "UPDATE", t)
             O == At(log, "OUTCOME", t)
             E == At(log, "END", t)
             M == Mentions(log, t)
  <2>1. PICK p : /\ p > Len(log) /\ p \in Nat
                 /\ At(new, type, t) = At(log, type, t) \union {p}
                 /\ Mentions(new, t) = M \union {p}
    BY <1>1, <1>3 DEF Added
  <2>2. \A ty : ty # type => At(new, ty, t) = At(log, ty, t)
    BY <1>1 DEF Added
  <2>3. /\ M \subseteq 1..Len(log) /\ S \subseteq M /\ O \subseteq M /\ E \subseteq M
        /\ \A i, j \in S : i = j
        /\ \A i, j \in O : i = j
        /\ \A i \in S, j \in M : i <= j
        /\ M # {} => S # {}
        /\ \A i \in E : \E j \in O : j < i
    BY OrderFacts
  <2>4. U \subseteq M
    BY DEF At, Mentions
  <2>5. \A i \in U, j \in O : i < j
    BY <1>1 DEF Ordered
  <2>6. /\ t \in Open(log) => S # {} /\ O = {}
        /\ t \in Owed(log) => O # {}
    BY DEF Open, Owed
  <2>7. \A i \in M : i < p /\ i \in Nat
    BY <1>1, <2>1, <2>3
  <2> DEFINE S1 == At(new, "START", t)
             U1 == At(new, "UPDATE", t)
             O1 == At(new, "OUTCOME", t)
             E1 == At(new, "END", t)
             M1 == Mentions(new, t)
  <2>8. /\ \A i \in S1, j \in M1 : i <= j
        /\ M1 # {} => S1 # {}
        /\ \A i \in U1, j \in O1 : i < j
        /\ \A i \in E1 : \E j \in O1 : j < i
        /\ \A i, j \in O1 : i = j
    <3>1. CASE type = "START" /\ M = {}
      <4>1. S1 = {p} /\ U1 = {} /\ O1 = {} /\ E1 = {} /\ M1 = {p}
        BY <2>1, <2>2, <2>3, <2>4, <3>1
      <4> HIDE DEF S1, U1, O1, E1, M1
      <4>2. QED BY <2>1, <4>1
    <3>2. CASE type = "UPDATE" /\ t \in Open(log)
      <4>1. S1 = S /\ U1 = U \union {p} /\ O1 = {} /\ E1 = E /\ E = {} /\ M1 = M \union {p} /\ S # {}
        BY <2>1, <2>2, <2>3, <2>6, <3>2
      <4> HIDE DEF S1, U1, O1, E1, M1, S, U, O, E, M
      <4>2. QED BY <2>1, <2>3, <2>7, <4>1
    <3>3. CASE type = "OUTCOME" /\ t \in Open(log)
      <4>1. S1 = S /\ U1 = U /\ O1 = {p} /\ E1 = E /\ E = {} /\ M1 = M \union {p} /\ S # {}
        BY <2>1, <2>2, <2>3, <2>6, <3>3
      <4> HIDE DEF S1, U1, O1, E1, M1, S, U, O, E, M
      <4>2. QED BY <2>1, <2>3, <2>4, <2>7, <4>1
    <3>4. CASE type = "END" /\ t \in Owed(log)
      <4>1. S1 = S /\ U1 = U /\ O1 = O /\ E1 = E \union {p} /\ M1 = M \union {p} /\ O # {}
        BY <2>1, <2>2, <2>6, <3>4
      <4> HIDE DEF S1, U1, O1, E1, M1, S, U, O, E, M
      <4>2. PICK j \in O : j < p
        BY <2>3, <2>7, <4>1
      <4>3. \A i \in E1 : \E l \in O1 : l < i
        BY <2>3, <4>1, <4>2
      <4>4. \A i \in S1, l \in M1 : i <= l
        BY <2>1, <2>3, <2>7, <4>1
      <4>5. QED BY <2>3, <2>5, <4>1, <4>3, <4>4
    <3>5. QED BY <1>3, <3>1, <3>2, <3>3, <3>4 DEF Allowed
  <2>9. QED BY <2>8 DEF Ordered
<1>4. QED BY <1>2, <1>3

\* Whose transaction is open and whose END is owed
OpenWith(log, type, T) ==
  IF type = "START" THEN Open(log) \union T ELSE IF type = "OUTCOME" THEN Open(log) \ T ELSE Open(log)
OwedWith(log, type, T) ==
  IF type = "OUTCOME" THEN Owed(log) \union T ELSE IF type = "END" THEN Owed(log) \ T ELSE Owed(log)

\* Whose transaction is open and whose END is owed then
LEMMA OpenIs ==
  ASSUME NEW log, LogRight(log), NEW new, NEW type, NEW T, Adds(log, new, type, T),
         Allowed(log, type, T)
  PROVE  Open(new) = OpenWith(log, type, T) /\ Owed(new) = OwedWith(log, type, T)
<1>1. T \subseteq Tids
  BY DEF Adds
<1>2. \A t \in Tids : Added(log, new, type, T, t)
  BY AddsGive
<1>3. ASSUME NEW t \in Tids
      PROVE  /\ At(log, "END", t) # {} => At(log, "OUTCOME", t) # {}
             /\ Mentions(log, t) = {} => At(log, "OUTCOME", t) = {} /\ At(log, "START", t) = {}
  <2>1. \A i \in At(log, "END", t) : \E j \in At(log, "OUTCOME", t) : j < i
    BY OrderFacts
  <2>2. At(log, "OUTCOME", t) \subseteq Mentions(log, t) /\ At(log, "START", t) \subseteq Mentions(log, t)
    BY DEF At, Mentions
  <2>3. QED BY <2>1, <2>2
<1>4. ASSUME NEW t \in Tids
      PROVE  /\ t \in Open(new) <=> t \in OpenWith(log, type, T)
             /\ t \in Owed(new) <=> t \in OwedWith(log, type, T)
  <2>1. \A ty : ty # type \/ t \notin T => At(new, ty, t) = At(log, ty, t)
    BY <1>2 DEF Added
  <2>2. t \in T => At(new, type, t) # {}
    <3>1. t \in T => \E p : At(new, type, t) = At(log, type, t) \union {p}
      BY <1>2 DEF Added
    <3>2. QED BY <3>1
  <2>3. /\ t \in Open(log) <=> At(log, "START", t) # {} /\ At(log, "OUTCOME", t) = {}
        /\ t \in Owed(log) <=> At(log, "OUTCOME", t) # {} /\ At(log, "END", t) = {}
        /\ t \in Open(new) <=> At(new, "START", t) # {} /\ At(new, "OUTCOME", t) = {}
        /\ t \in Owed(new) <=> At(new, "OUTCOME", t) # {} /\ At(new, "END", t) = {}
    BY DEF Open, Owed
  <2>4. CASE t \notin T
    <3>1. \A ty : At(new, ty, t) = At(log, ty, t)
      BY <2>1, <2>4
    <3>2. QED BY <2>3, <2>4, <3>1 DEF OpenWith, OwedWith
  <2>5. CASE t \in T
    <3>1. CASE type = "START" /\ Mentions(log, t) = {}
      BY <1>3, <2>1, <2>2, <2>3, <2>5, <3>1 DEF OpenWith, OwedWith
    <3>2. CASE type = "UPDATE" /\ t \in Open(log)
      BY <1>3, <2>1, <2>2, <2>3, <2>5, <3>2 DEF OpenWith, OwedWith
    <3>3. CASE type = "OUTCOME" /\ t \in Open(log)
      BY <1>3, <2>1, <2>2, <2>3, <2>5, <3>3 DEF OpenWith, OwedWith
    <3>4. CASE type = "END" /\ t \in Owed(log)
      BY <1>3, <2>1, <2>2, <2>3, <2>5, <3>4 DEF OpenWith, OwedWith
    <3>5. QED BY <2>5, <3>1, <3>2, <3>3, <3>4 DEF Allowed
  <2>6. QED BY <2>4, <2>5
<1>5. Open(new) \subseteq Tids /\ Owed(new) \subseteq Tids /\ Open(log) \subseteq Tids /\ Owed(log) \subseteq Tids
  BY DEF Open, Owed
<1>6. OpenWith(log, type, T) \subseteq Tids /\ OwedWith(log, type, T) \subseteq Tids
  BY <1>1, <1>5 DEF OpenWith, OwedWith
<1>7. QED BY <1>4, <1>5, <1>6

LEMMA SameBefore ==
  ASSUME NEW log, NEW new, Grown(log, new), NEW type, NEW t, NEW i \in 1..Len(log)
  PROVE  i \in At(new, type, t) <=> i \in At(log, type, t)
BY DEF Grown, At

\* No transaction gets a START before an old line.
LEMMA OpenAfterStays ==
  ASSUME NEW log, LogRight(log), NEW new, NEW type, NEW T, Adds(log, new, type, T),
         Allowed(log, type, T), NEW i \in 1..Len(log), OpenAfter(log, i)
  PROVE  OpenAfter(new, i)
<1>1. Grown(log, new) /\ Len(log) \in Nat
  BY DEF Adds, Grown
<1>2. Open(new) = OpenWith(log, type, T)
  BY OpenIs
<1>3. ASSUME NEW u \in Open(new), NEW j \in At(new, "START", u), ~(i < j) PROVE FALSE
  <2>1. j \in 1..Len(log) /\ j \in At(log, "START", u)
    <3>1. j \in Nat /\ j \in 1..Len(new)
      BY DEF At
    <3>2. j \in 1..Len(log)
      BY <1>1, <1>3, <3>1 DEF Grown
    <3>3. QED BY <1>1, <3>2, SameBefore
  <2>2. u \in Open(log)
    <3>1. CASE type = "START" /\ u \in T
      <4>1. Mentions(log, u) = {} /\ At(log, "START", u) \subseteq Mentions(log, u)
        BY <3>1 DEF Allowed, At, Mentions
      <4>2. QED BY <2>1, <4>1
    <3>2. CASE ~(type = "START" /\ u \in T)
      BY <1>2, <3>2 DEF OpenWith
    <3>3. QED BY <3>1, <3>2
  <2>3. QED BY <1>3, <2>1, <2>2 DEF OpenAfter
<1>4. QED BY <1>3 DEF OpenAfter

LEMMA CheckpointsSame ==
  ASSUME NEW log, NEW new, NEW type, NEW T, Adds(log, new, type, T)
  PROVE  Checkpoints(new) = Checkpoints(log) /\ \A c \in Checkpoints(log) : new[c] = log[c] /\ c \in 1..Len(log)
<1>1. /\ Len(log) \in Nat /\ Len(new) \in Nat /\ Len(log) <= Len(new)
      /\ \A i \in 1..Len(log) : new[i] = log[i]
      /\ \A p \in Extra(log, new) : new[p].type = type
      /\ type # "CHECKPOINT"
  BY DEF Adds, Grown
<1>2. /\ \A i \in 1..Len(new) : i \in 1..Len(log) \/ i \in Extra(log, new)
      /\ 1..Len(log) \subseteq 1..Len(new)
  BY <1>1 DEF Extra
<1>3. QED BY <1>1, <1>2 DEF Checkpoints

\* The log stays well formed, and so do the checkpoints of either mode.
LEMMA GrownRight ==
  ASSUME NEW log, LogRight(log), NEW new, NEW type, NEW T, Adds(log, new, type, T),
         Allowed(log, type, T)
  PROVE  LogRight(new)
<1>1. Grown(log, new) /\ Len(log) \in Nat /\ Len(new) \in Nat
  BY DEF Adds, Grown
<1>2. LinesRight(new)
  <2>1. \A i \in 1..Len(new) : i \in 1..Len(log) \/ i \in Extra(log, new)
    BY <1>1 DEF Extra
  <2>2. \A i \in 1..Len(log) : LineRight(log[i]) /\ new[i] = log[i]
    BY <1>1 DEF LogRight, LinesRight, Grown
  <2>3. QED BY <1>1, <2>1, <2>2 DEF LinesRight, Adds
<1>3. InOrder(new)
  BY OrderedStays DEF InOrder
<1>4. Checkpoints(new) = Checkpoints(log) /\ \A c \in Checkpoints(log) : new[c] = log[c] /\ c \in 1..Len(log)
  BY CheckpointsSame
<1>5. PendingRight(new)
  <2>1. SUFFICES ASSUME NEW c \in Checkpoints(log), NEW t \in log[c].pending
                 PROVE  /\ \E i \in At(new, "START", t) : i < c
                        /\ \A i \in At(new, "OUTCOME", t) : c < i
    BY <1>4 DEF PendingRight
  <2>2. (\E i \in At(log, "START", t) : i < c) /\ (\A i \in At(log, "OUTCOME", t) : c < i)
    BY DEF LogRight, PendingRight
  <2>3. \E i \in At(new, "START", t) : i < c
    <3>1. PICK i \in At(log, "START", t) : i < c
      BY <2>2
    <3>2. i \in 1..Len(log)
      BY DEF At
    <3>3. QED BY <1>1, <3>1, <3>2, SameBefore
  <2>4. ASSUME NEW i \in At(new, "OUTCOME", t) PROVE c < i
    <3>1. CASE i \in 1..Len(log)
      BY <1>1, <2>2, <3>1, SameBefore
    <3>2. CASE i \notin 1..Len(log)
      <4>1. i \in 1..Len(new) /\ c \in 1..Len(log)
        BY <1>4 DEF At
      <4>2. QED BY <1>1, <3>2, <4>1
    <3>3. QED BY <3>1, <3>2
  <2>5. QED BY <2>3, <2>4
<1>6. DoneRight(new)
  <2>1. SUFFICES ASSUME NEW c \in Checkpoints(log), NEW t \in log[c].done PROVE At(new, "OUTCOME", t) # {}
    BY <1>4 DEF DoneRight
  <2>2. PICK i \in At(log, "OUTCOME", t) : TRUE
    BY DEF LogRight, DoneRight
  <2>3. i \in 1..Len(log)
    BY DEF At
  <2>4. QED BY <1>1, <2>2, <2>3, SameBefore
<1>7. QED BY <1>2, <1>3, <1>5, <1>6 DEF LogRight

LEMMA GrownUndo ==
  ASSUME NEW log, LogRight(log), UndoLog(log), NEW new, NEW type, NEW T, Adds(log, new, type, T),
         Allowed(log, type, T)
  PROVE  UndoLog(new)
<1>1. Grown(log, new) /\ Len(log) \in Nat /\ Len(new) \in Nat
  BY DEF Adds, Grown
<1>2. Checkpoints(new) = Checkpoints(log) /\ \A c \in Checkpoints(log) : new[c] = log[c] /\ c \in 1..Len(log)
  BY CheckpointsSame
<1>3. OpenNamed(new)
  <2>1. SUFFICES ASSUME NEW c \in Checkpoints(log), NEW t \in Open(new),
                        NEW i \in At(new, "START", t), i < c
                 PROVE  t \in log[c].pending
    BY <1>2 DEF OpenNamed
  <2>2. i \in 1..Len(log)
    <3>1. i \in 1..Len(new) /\ c \in 1..Len(log)
      BY <1>2 DEF At
    <3>2. QED BY <1>1, <2>1, <3>1
  <2>3. i \in At(log, "START", t)
    BY <1>1, <2>2, SameBefore
  <2>4. t \in Open(log)
    <3>1. CASE type = "START" /\ t \in T
      <4>1. Mentions(log, t) = {} /\ At(log, "START", t) \subseteq Mentions(log, t)
        BY <3>1 DEF Allowed, At, Mentions
      <4>2. QED BY <2>3, <4>1
    <3>2. CASE ~(type = "START" /\ t \in T)
      BY <3>2, OpenIs DEF OpenWith
    <3>3. QED BY <3>1, <3>2
  <2>5. QED BY <2>1, <2>3, <2>4 DEF UndoLog, OpenNamed
<1>4. PendingNamed(new)
  <2>1. SUFFICES ASSUME NEW k \in Checkpoints(log), NEW c \in Checkpoints(log), k < c,
                        NEW t \in log[k].pending, t \notin log[c].pending \union log[c].committed \union log[c].done
                 PROVE  \E i \in At(new, "OUTCOME", t) : i < c /\ OpenAfter(new, i)
    BY <1>2 DEF PendingNamed
  <2>2. PICK i \in At(log, "OUTCOME", t) : i < c /\ OpenAfter(log, i)
    BY <2>1 DEF UndoLog, PendingNamed
  <2>3. i \in 1..Len(log)
    BY DEF At
  <2>4. i \in At(new, "OUTCOME", t)
    BY <1>1, <2>3, SameBefore
  <2>5. OpenAfter(new, i)
    BY <2>2, <2>3, OpenAfterStays
  <2>6. QED BY <2>2, <2>4, <2>5
<1>5. QED BY <1>3, <1>4 DEF UndoLog

LEMMA GrownRedo ==
  ASSUME NEW log, LogRight(log), RedoLog(log), NEW new, NEW type, NEW T, Adds(log, new, type, T),
         Allowed(log, type, T),
         type = "OUTCOME" => \A p \in Extra(log, new) : new[p].status = "COMMITTED"
  PROVE  RedoLog(new)
<1>1. Grown(log, new) /\ Len(log) \in Nat /\ Len(new) \in Nat
  BY DEF Adds, Grown
<1>2. Checkpoints(new) = Checkpoints(log) /\ \A c \in Checkpoints(log) : new[c] = log[c] /\ c \in 1..Len(log)
  BY CheckpointsSame
<1>3. OwedNamed(new)
  <2>1. SUFFICES ASSUME NEW c \in Checkpoints(log), NEW t \in Owed(new),
                        NEW i \in At(new, "OUTCOME", t), i < c
                 PROVE  t \in log[c].committed
    BY <1>2 DEF OwedNamed
  <2>2. i \in 1..Len(log)
    <3>1. i \in 1..Len(new) /\ c \in 1..Len(log)
      BY <1>2 DEF At
    <3>2. QED BY <1>1, <2>1, <3>1
  <2>3. i \in At(log, "OUTCOME", t)
    BY <1>1, <2>2, SameBefore
  <2>4. t \in Owed(log)
    <3>1. CASE type = "OUTCOME" /\ t \in T
      <4>1. At(log, "OUTCOME", t) = {}
        BY <3>1 DEF Allowed, Open
      <4>2. QED BY <2>3, <4>1
    <3>2. CASE ~(type = "OUTCOME" /\ t \in T)
      BY <3>2, OpenIs DEF OwedWith
    <3>3. QED BY <3>1, <3>2
  <2>5. QED BY <2>1, <2>3, <2>4 DEF RedoLog, OwedNamed
<1>4. NoneAborted(new)
  <2>1. SUFFICES ASSUME NEW t \in Tids, NEW i \in At(new, "OUTCOME", t) PROVE new[i].status = "COMMITTED"
    BY DEF NoneAborted
  <2>2. CASE i \in 1..Len(log)
    <3>1. i \in At(log, "OUTCOME", t) /\ new[i] = log[i]
      BY <1>1, <2>2, SameBefore DEF Grown
    <3>2. QED BY <3>1 DEF RedoLog, NoneAborted
  <2>3. CASE i \notin 1..Len(log)
    <3>1. i \in Extra(log, new) /\ new[i].type = "OUTCOME"
      BY <1>1, <2>3 DEF At, Extra
    <3>2. QED BY <3>1 DEF Adds
  <2>4. QED BY <2>2, <2>3
<1>5. QED BY <1>3, <1>4 DEF RedoLog

Lines ==
  [type : {"START", "END"}, tid : Tids]
  \union [type : {"UPDATE"}, tid : Tids, variable : Accounts, undo : Values \union {Absent}, redo : Values]
  \union [type : {"OUTCOME"}, tid : Tids, status : Statuses]
  \union [type : {"CHECKPOINT"}, pending : SUBSET Tids, committed : SUBSET Tids, done : SUBSET Tids]

LEMMA LineIs ==
  ASSUME NEW e \in Lines
  PROVE  LineRight(e)
<1>1. CASE e \in [type : {"START", "END"}, tid : Tids]
  <2>1. e.type \in {"START", "END"} /\ e.tid \in Tids
    BY <1>1
  <2>2. QED BY <2>1 DEF LineRight, Types
<1>2. CASE e \in [type : {"UPDATE"}, tid : Tids, variable : Accounts, undo : Values \union {Absent}, redo : Values]
  <2>1. /\ e.type = "UPDATE" /\ e.tid \in Tids /\ e.variable \in Accounts
        /\ e.undo \in Values \union {Absent} /\ e.redo \in Values
    BY <1>2
  <2>2. QED BY <2>1 DEF LineRight, Types
<1>3. CASE e \in [type : {"OUTCOME"}, tid : Tids, status : Statuses]
  <2>1. e.type = "OUTCOME" /\ e.tid \in Tids /\ e.status \in Statuses
    BY <1>3
  <2>2. QED BY <2>1 DEF LineRight, Types
<1>4. CASE e \in [type : {"CHECKPOINT"}, pending : SUBSET Tids, committed : SUBSET Tids, done : SUBSET Tids]
  <2>1. e.type = "CHECKPOINT" /\ e.pending \subseteq Tids /\ e.committed \subseteq Tids /\ e.done \subseteq Tids
    BY <1>4
  <2>2. QED BY <2>1 DEF LineRight, Types
<1>5. QED BY <1>1, <1>2, <1>3, <1>4 DEF Lines

\* The lines that the program writes
LEMMA LineTypes ==
  ASSUME NEW t \in Tids
  PROVE  /\ START(t) \in Lines /\ START(t).type = "START" /\ START(t).tid = t
         /\ END(t) \in Lines /\ END(t).type = "END" /\ END(t).tid = t
         /\ \A s \in Statuses : /\ OUTCOME(t, s) \in Lines /\ OUTCOME(t, s).type = "OUTCOME"
                                /\ OUTCOME(t, s).tid = t /\ OUTCOME(t, s).status = s
         /\ \A a \in Accounts, old \in Values \union {Absent}, v \in Values :
              /\ UPDATE(t, a, old, v) \in Lines /\ UPDATE(t, a, old, v).type = "UPDATE"
              /\ UPDATE(t, a, old, v).tid = t /\ UPDATE(t, a, old, v).variable = a
              /\ UPDATE(t, a, old, v).undo = old /\ UPDATE(t, a, old, v).redo = v
<1>1. START(t) \in Lines /\ START(t).type = "START" /\ START(t).tid = t
  BY DEF START, Lines
<1>2. END(t) \in Lines /\ END(t).type = "END" /\ END(t).tid = t
  BY DEF END, Lines
<1>3. ASSUME NEW s \in Statuses
      PROVE  /\ OUTCOME(t, s) \in Lines /\ OUTCOME(t, s).type = "OUTCOME"
             /\ OUTCOME(t, s).tid = t /\ OUTCOME(t, s).status = s
  BY DEF OUTCOME, Lines
<1>4. ASSUME NEW a \in Accounts, NEW old \in Values \union {Absent}, NEW v \in Values
      PROVE  /\ UPDATE(t, a, old, v) \in Lines /\ UPDATE(t, a, old, v).type = "UPDATE"
             /\ UPDATE(t, a, old, v).tid = t /\ UPDATE(t, a, old, v).variable = a
             /\ UPDATE(t, a, old, v).undo = old /\ UPDATE(t, a, old, v).redo = v
  BY DEF UPDATE, Lines
<1>5. QED BY <1>1, <1>2, <1>3, <1>4

LEMMA CheckpointLine ==
  ASSUME NEW P \in SUBSET Tids, NEW C \in SUBSET Tids, NEW D \in SUBSET Tids
  PROVE  /\ CHECKPOINT(P, C, D) \in Lines /\ CHECKPOINT(P, C, D).type = "CHECKPOINT"
         /\ CHECKPOINT(P, C, D).pending = P /\ CHECKPOINT(P, C, D).committed = C
         /\ CHECKPOINT(P, C, D).done = D
BY DEF CHECKPOINT, Lines

\* One line more
LEMMA AppendAdds ==
  ASSUME NEW log \in Seq(Lines), NEW e \in Lines, e.type # "CHECKPOINT", e.tid \in Tids,
         NEW new, new = Append(log, e)
  PROVE  /\ new \in Seq(Lines) /\ Len(new) = Len(log)+1 /\ new[Len(new)] = e
         /\ Adds(log, new, e.type, {e.tid})
<1>1. /\ new \in Seq(Lines) /\ Len(new) = Len(log)+1 /\ Len(log) \in Nat
      /\ \A i \in 1..Len(log) : new[i] = log[i]
      /\ new[Len(log)+1] = e
  BY AppendProperties
<1>2. \A p \in Extra(log, new) : p = Len(log)+1
  BY <1>1 DEF Extra
<1>3. Len(log)+1 \in Extra(log, new)
  BY <1>1 DEF Extra
<1>4. Grown(log, new)
  BY <1>1 DEF Grown
<1>5. LineRight(e)
  BY LineIs
<1>6. Adds(log, new, e.type, {e.tid})
  BY <1>1, <1>2, <1>3, <1>4, <1>5 DEF Adds
<1>7. QED BY <1>1, <1>6

\* A line for each of a set of transactions
NumberedBy(S, n, f) ==
  /\ n \in Nat
  /\ f \in [1..n -> S]
  /\ \A i, j \in 1..n : f[i] = f[j] => i = j
  /\ \A t \in S : \E i \in 1..n : f[i] = t
LinesOf(lines, n, f, type) ==
  /\ lines \in [1..n -> Lines]
  /\ \A i \in 1..n : lines[i].type = type /\ lines[i].tid = f[i]

\* SetToSeq names each element of a finite set once.
LEMMA Numbered ==
  ASSUME NEW S, IsFiniteSet(S), NEW n, n = Cardinality(S), NEW f, f = SetToSeq(S)
  PROVE  NumberedBy(S, n, f)
<1>1. n \in Nat /\ ExistsBijection(1..n, S)
  BY FS_CardinalityType
<1>2. \E g \in [1..n -> S] : IsInjective(g)
  BY <1>1 DEF ExistsBijection, Bijection, Injection, Surjection, IsInjective
<1>3. f \in [1..n -> S] /\ IsInjective(f)
  BY <1>2, Zenon DEF SetToSeq
<1>4. f \in Injection(1..n, S)
  BY <1>3 DEF Injection
<1>5. Cardinality(1..n) = n
  <2>1. 1 \in Int /\ n \in Int
    BY <1>1
  <2>2. Cardinality(1..n) = IF 1 > n THEN 0 ELSE n-1+1
    BY <2>1, FS_Interval, Zenon
  <2>3. QED BY <1>1, <2>2
<1>6. f \in Surjection(1..n, S)
  BY <1>4, <1>5, FS_Injection
<1>7. QED BY <1>1, <1>3, <1>6 DEF Surjection, IsInjective, NumberedBy

LEMMA SomeTids ==
  ASSUME NEW S \in SUBSET Tids
  PROVE  IsFiniteSet(S)
<1>1. 1 \in Int /\ MaxTid \in Int
  BY BoundAssumption
<1>2. IsFiniteSet(Tids)
  BY <1>1, FS_Interval, Zenon DEF Tids
<1>3. QED BY <1>2, FS_Subset

\* A line for each of S has been added, and then so have Ends(S) and Aborts(S).
LEMMA LinesAdd ==
  ASSUME NEW log \in Seq(Lines), NEW S \in SUBSET Tids, NEW n, n = Cardinality(S),
         NEW f, f = SetToSeq(S), NEW type, type # "CHECKPOINT",
         NEW lines, LinesOf(lines, n, f, type),
         NEW new, new = log \o lines
  PROVE  new \in Seq(Lines) /\ Adds(log, new, type, S)
<1>1. /\ n \in Nat
      /\ f \in [1..n -> S]
      /\ \A i, j \in 1..n : f[i] = f[j] => i = j
      /\ \A t \in S : \E i \in 1..n : f[i] = t
  <2>1. IsFiniteSet(S)
    BY SomeTids
  <2>2. NumberedBy(S, n, f)
    BY <2>1, Numbered, Zenon
  <2>3. QED BY <2>2, Zenon DEF NumberedBy
<1>2. lines \in Seq(Lines) /\ Len(lines) = n
  <2>1. lines \in [1..n -> Lines]
    BY DEF LinesOf
  <2>2. lines \in Seq(Lines)
    BY <1>1, <2>1, SeqDef
  <2>3. DOMAIN lines = 1..n
    BY <2>1
  <2>4. QED BY <1>1, <2>2, <2>3, LenProperties
<1>3. /\ new \in Seq(Lines) /\ Len(new) = Len(log) + n /\ Len(log) \in Nat
      /\ \A i \in 1..Len(log)+n : new[i] = IF i <= Len(log) THEN log[i] ELSE lines[i - Len(log)]
  <2>1. /\ new \in Seq(Lines) /\ Len(new) = Len(log) + Len(lines)
        /\ \A i \in 1..Len(log)+Len(lines) : new[i] = IF i <= Len(log) THEN log[i] ELSE lines[i - Len(log)]
    BY <1>2, ConcatProperties
  <2>2. Len(log) \in Nat
    BY LenProperties
  <2>3. QED BY <1>2, <2>1, <2>2
<1>4. Grown(log, new)
  BY <1>1, <1>3 DEF Grown
<1>5. \A p \in Extra(log, new) : p - Len(log) \in 1..n /\ new[p] = lines[p - Len(log)] /\ p \in Nat
  BY <1>1, <1>3 DEF Extra
<1>6. \A i \in 1..n : i + Len(log) \in Extra(log, new) /\ (i + Len(log)) - Len(log) = i
  BY <1>1, <1>3 DEF Extra
<1>7. \A p \in Extra(log, new) : LineRight(new[p]) /\ new[p].type = type /\ new[p].tid \in S
  <2>1. \A i \in 1..n : LineRight(lines[i]) /\ lines[i].type = type /\ lines[i].tid \in S
    <3>1. ASSUME NEW i \in 1..n PROVE LineRight(lines[i]) /\ lines[i].type = type /\ lines[i].tid \in S
      <4>1. lines[i] \in Lines /\ f[i] \in S /\ lines[i].type = type /\ lines[i].tid = f[i]
        BY <1>1 DEF LinesOf
      <4>2. QED BY <4>1, LineIs
    <3>2. QED BY <3>1
  <2>2. QED BY <1>5, <2>1
<1>8. ASSUME NEW p \in Extra(log, new), NEW q \in Extra(log, new), new[p].tid = new[q].tid PROVE p = q
  <2>1. f[p - Len(log)] = f[q - Len(log)]
    BY <1>5, <1>8 DEF LinesOf
  <2>2. p - Len(log) = q - Len(log)
    BY <1>1, <1>5, <2>1
  <2>3. QED BY <1>3, <1>5, <2>2
<1>9. ASSUME NEW t \in S PROVE \E p \in Extra(log, new) : new[p].tid = t
  <2>1. PICK i \in 1..n : f[i] = t
    BY <1>1
  <2>2. i + Len(log) \in Extra(log, new) /\ new[i + Len(log)] = lines[i]
    <3>1. i + Len(log) \in Extra(log, new) /\ (i + Len(log)) - Len(log) = i
      BY <1>6
    <3>2. QED BY <1>5, <3>1
  <2>3. lines[i].tid = f[i]
    BY DEF LinesOf
  <2>4. QED BY <2>1, <2>2, <2>3
<1>10. QED BY <1>3, <1>4, <1>5, <1>7, <1>8, <1>9 DEF Adds

LEMMA EndsAdd ==
  ASSUME NEW log \in Seq(Lines), NEW S \in SUBSET Tids, NEW new, new = log \o Ends(S)
  PROVE  new \in Seq(Lines) /\ Adds(log, new, "END", S)
<1> DEFINE n == Cardinality(S)
           f == SetToSeq(S)
           lines == [i \in 1..n |-> END(f[i])]
<1>1. Ends(S) = lines
  BY Zenon DEF Ends
<1>2. \A i \in 1..n : f[i] \in Tids
  <2>1. f \in [1..n -> S]
    BY SomeTids, Numbered DEF NumberedBy
  <2>2. QED BY <2>1
<1>3. \A i \in 1..n : lines[i] \in Lines /\ lines[i].type = "END" /\ lines[i].tid = f[i]
  BY <1>2, LineTypes
<1>4. LinesOf(lines, n, f, "END")
  BY <1>3 DEF LinesOf
<1>5. n = Cardinality(S) /\ f = SetToSeq(S)
  OBVIOUS
<1> HIDE DEF lines, n, f
<1>6. new = log \o lines
  BY <1>1
<1>7. QED BY <1>4, <1>5, <1>6, LinesAdd

LEMMA AbortsAdd ==
  ASSUME NEW log \in Seq(Lines), NEW S \in SUBSET Tids, NEW new, new = log \o Aborts(S)
  PROVE  new \in Seq(Lines) /\ Adds(log, new, "OUTCOME", S)
<1> DEFINE n == Cardinality(S)
           f == SetToSeq(S)
           lines == [i \in 1..n |-> OUTCOME(f[i], "ABORTED")]
<1>1. Aborts(S) = lines
  BY Zenon DEF Aborts
<1>2. \A i \in 1..n : f[i] \in Tids
  <2>1. f \in [1..n -> S]
    BY SomeTids, Numbered DEF NumberedBy
  <2>2. QED BY <2>1
<1>3. \A i \in 1..n : lines[i] \in Lines /\ lines[i].type = "OUTCOME" /\ lines[i].tid = f[i]
  <2>1. "ABORTED" \in Statuses
    BY DEF Statuses
  <2>2. QED BY <1>2, <2>1, LineTypes
<1>4. LinesOf(lines, n, f, "OUTCOME")
  BY <1>3 DEF LinesOf
<1>5. n = Cardinality(S) /\ f = SetToSeq(S)
  OBVIOUS
<1> HIDE DEF lines, n, f
<1>6. new = log \o lines
  BY <1>1
<1>7. QED BY <1>4, <1>5, <1>6, LinesAdd

-----------------------------------------------------------------------------
(* What recovery does *)

\* What recovery makes of a database is one.
LEMMA UndoneType ==
  ASSUME NEW log, LinesRight(log), NEW db \in Stored, NEW k
  PROVE  UndoneFrom(db, log, k) \in Stored
<1> DEFINE of(a) == {i \in Updates(log, Open(log)) : k <= i /\ log[i].variable = a}
<1>1. ASSUME NEW a \in Accounts
      PROVE  (IF of(a) = {} THEN db[a] ELSE log[Min(of(a))].undo) \in Values \union {Absent}
  <2>1. CASE of(a) = {}
    BY <2>1 DEF Stored
  <2>2. CASE of(a) # {}
    <3>1. of(a) \subseteq Nat
      BY DEF Updates
    <3>2. Min(of(a)) \in of(a)
      BY <2>2, <3>1, MinGives
    <3>3. Min(of(a)) \in 1..Len(log) /\ log[Min(of(a))].type = "UPDATE"
      BY <3>2 DEF Updates
    <3> HIDE DEF of
    <3>4. QED BY <2>2, <3>3 DEF LinesRight, LineRight
  <2>3. QED BY <2>1, <2>2
<1>2. UndoneFrom(db, log, k) = [a \in Accounts |-> IF of(a) = {} THEN db[a] ELSE log[Min(of(a))].undo]
  BY Zenon DEF UndoneFrom
<1> HIDE DEF of
<1>3. QED BY <1>1, <1>2 DEF Stored

LEMMA ReplayedType ==
  ASSUME NEW log, LinesRight(log), NEW db \in Stored, NEW P,
         \A i \in P : i \in 1..Len(log) /\ log[i].type = "UPDATE"
  PROVE  Replayed(db, log, P) \in Stored
<1> DEFINE of(a) == {i \in P : log[i].variable = a}
<1>1. ASSUME NEW a \in Accounts
      PROVE  (IF of(a) = {} THEN db[a] ELSE log[Max(of(a))].redo) \in Values \union {Absent}
  <2>1. CASE of(a) = {}
    BY <2>1 DEF Stored
  <2>2. CASE of(a) # {}
    <3>1. of(a) \subseteq 1..Len(log) /\ Len(log) \in Nat
      BY DEF LinesRight
    <3>2. Max(of(a)) \in of(a)
      BY <2>2, <3>1, MaxGives
    <3>3. Max(of(a)) \in 1..Len(log) /\ log[Max(of(a))].type = "UPDATE"
      BY <3>2
    <3> HIDE DEF of
    <3>4. QED BY <2>2, <3>3 DEF LinesRight, LineRight
  <2>3. QED BY <2>1, <2>2
<1>2. Replayed(db, log, P) = [a \in Accounts |-> IF of(a) = {} THEN db[a] ELSE log[Max(of(a))].redo]
  BY Zenon DEF Replayed
<1> HIDE DEF of
<1>3. QED BY <1>1, <1>2 DEF Stored

RecoversTo(log, db, r) ==
  /\ r.died => DiedFor(log, db)
  /\ ~r.died /\ mode = "undo" => r.lines = Aborts(Open(log)) /\ r.db = UndoneFrom(db, log, 1)
  /\ ~r.died /\ mode = "redo" =>
       r.lines = Ends(Owed(log)) /\ r.db = Replayed(db, log, Updates(log, Owed(log)))

\* Recovery undoes the open transactions, or does the owed ones again, unless it dies.
LEMMA RecoveredIs ==
  ASSUME NEW log, ReadyToScan(log), DOMAIN log = 1..Len(log), NEW db \in Stored
  PROVE  RecoversTo(log, db, Recovered(log, db))
<1> DEFINE r == RollBack(log, db)
           R == Recovered(log, db)
<1>1. Rolled(log, db, r)
  BY RollBackGives
<1>2. /\ R.died = r.died
      /\ R.lines = Conclusions(r)
      /\ R.db = IF mode = "redo" THEN ForwardScan(log, r) ELSE r.db
  BY DEF Recovered
<1> HIDE DEF r, R
<1>3. R.died => DiedFor(log, db)
  BY <1>1, <1>2 DEF Rolled
<1>4. ASSUME ~R.died, mode = "undo" PROVE R.lines = Aborts(Open(log)) /\ R.db = UndoneFrom(db, log, 1)
  <2>1. r.losers = Open(log) /\ r.db = UndoneFrom(db, log, 1)
    BY <1>1, <1>2, <1>4 DEF Rolled
  <2>2. QED BY <1>2, <1>4, <2>1 DEF Conclusions
<1>5. ASSUME ~R.died, mode = "redo"
      PROVE  R.lines = Ends(Owed(log)) /\ R.db = Replayed(db, log, Updates(log, Owed(log)))
  <2>1. /\ r.db = db
        /\ \A t \in Tids : r.winners[t] = IF t \in Owed(log) THEN "COMMITTED" ELSE "none"
    BY <1>1, <1>2, <1>5 DEF Rolled
  <2>2. {t \in Tids : IsWinner(r, t)} = Owed(log)
    BY <2>1 DEF IsWinner, Owed
  <2>3. R.lines = Ends(Owed(log))
    BY <1>2, <1>5, <2>2 DEF Conclusions
  <2>4. {i \in DOMAIN log : log[i].type = "UPDATE" /\ r.winners[log[i].tid] = "COMMITTED"}
          = Updates(log, Owed(log))
    <3>1. \A i \in 1..Len(log) : log[i].type = "UPDATE" => log[i].tid \in Tids
      BY DEF ReadyToScan, LogRight, LinesRight, LineRight
    <3>2. QED BY <2>1, <3>1 DEF Updates
  <2>5. QED BY <1>2, <1>5, <2>1, <2>3, <2>4 DEF ForwardScan
<1>6. QED BY <1>3, <1>4, <1>5 DEF RecoversTo, R

-----------------------------------------------------------------------------
(* The invariant *)

Stats == {"not initialized", "COMMITING", "ENDING", "DONE"}
Steps == {NoStep} \union [at : {"write"}, tid : Tids, variable : Accounts, value : Values]
                  \union [at : {"flush"}, tid : Tids, next : Nat]

TypeOK ==
  /\ mode \in {"redo", "undo"} /\ up \in BOOLEAN /\ undumped \in BOOLEAN
  /\ LOG \in Seq(Lines)
  /\ DB \in Stored /\ current_db \in Stored /\ on_disk_db \in Stored /\ committed \in Stored
  /\ tid_stat \in [Tids -> Stats]
  /\ pending_writes \in Seq(Tids \X Accounts \X Values)
  /\ step \in Steps

LogGood ==
  /\ LogRight(LOG)
  /\ mode = "undo" => UndoLog(LOG)
  /\ mode = "redo" => RedoLog(LOG)

\* tid_stat says of this process's transactions what the log says.
StatRight(log, stat) == \A t \in Tids :
  /\ stat[t] = "COMMITING" => t \in Open(log)
  /\ stat[t] = "ENDING" => t \in Owed(log)
  /\ stat[t] = "DONE" => At(log, "OUTCOME", t) # {}

\* While the process is up, unfinished transactions are its own.
OwnRight ==
  /\ mode = "undo" /\ up => \A t \in Open(LOG) : tid_stat[t] = "COMMITING"
  /\ mode = "redo" /\ up => \A t \in Owed(LOG) : tid_stat[t] = "ENDING"

Starts(log) == {i \in 1..Len(log) : log[i].type = "START"}
Numbers(log) == \A t \in Tids : Mentions(log, t) # {} => t <= Cardinality(Starts(log))

Down == ~up => /\ step = NoStep /\ current_db = NoAccounts /\ pending_writes = <<>>
               /\ \A t \in Tids : tid_stat[t] = "not initialized"

StepRight ==
  /\ step.at = "write" =>
       /\ tid_stat[step.tid] = "COMMITING" /\ Len(LOG) # 0
       /\ LOG[Len(LOG)].type = "UPDATE" /\ LOG[Len(LOG)].tid = step.tid
       /\ LOG[Len(LOG)].variable = step.variable /\ LOG[Len(LOG)].redo = step.value
  /\ step.at = "flush" => tid_stat[step.tid] = "ENDING"

StatusOK == StatRight(LOG, tid_stat) /\ OwnRight /\ Numbers(LOG) /\ Down /\ StepRight

\* In undo mode, the transactions of earlier processes ended before those of this one
\* began.
SettledIn(log, stat) ==
  \A t \in Tids : stat[t] = "not initialized" /\ At(log, "START", t) # {} =>
    \E i \in At(log, "OUTCOME", t) : OpenAfter(log, i)
Settled == mode = "undo" /\ up => SettledIn(LOG, tid_stat)

\* The accounts that recovery is right about: two transactions of S are not both at
\* work on one of them.
Kept == Accounts \ clashed
AloneIn(log, S, K) == \A t, u \in S : t # u =>
  \A i \in At(log, "UPDATE", t), j \in At(log, "UPDATE", u) :
    log[i].variable \in K => log[i].variable # log[j].variable
Alone == AloneIn(LOG, Unsettled, Kept)

\* What the invariant says of the log
LEMMA LogFacts ==
  ASSUME TypeOK, LogGood
  PROVE  /\ ReadyToScan(LOG) /\ LogRight(LOG) /\ LinesRight(LOG) /\ Len(LOG) \in Nat
         /\ DOMAIN LOG = 1..Len(LOG) /\ (\A i \in 1..Len(LOG) : LineRight(LOG[i]))
<1>1. Len(LOG) \in Nat /\ DOMAIN LOG = 1..Len(LOG)
  BY LenProperties DEF TypeOK
<1>2. LogRight(LOG) /\ LinesRight(LOG)
  BY DEF LogGood, LogRight
<1>3. ReadyToScan(LOG)
  BY DEF ReadyToScan, LogGood, TypeOK
<1>4. QED BY <1>1, <1>2, <1>3 DEF LinesRight

-----------------------------------------------------------------------------
(* How the actions change the log *)

GrowsBy(type, T) == LOG' \in Seq(Lines) /\ Adds(LOG, LOG', type, T) /\ Allowed(LOG, type, T)

Known == TypeOK /\ LogGood /\ StatusOK

LEMMA InLogStart ==
  ASSUME TypeOK
  PROVE  InLog("START") = Starts(LOG)
BY LenProperties DEF TypeOK, InLog, Starts

\* Each action adds the lines it may add.
LEMMA BeginGrows ==
  ASSUME Known, NEW t \in Tids, Begin(t)
  PROVE  GrowsBy("START", {t}) /\ Starts(LOG') = Starts(LOG) \union {Len(LOG)+1}
<1>1. /\ LOG \in Seq(Lines) /\ Len(LOG) \in Nat /\ Numbers(LOG)
      /\ t = Cardinality(Starts(LOG)) + 1 /\ LOG' = Append(LOG, START(t))
  BY LogFacts, InLogStart DEF Known, TypeOK, StatusOK, Begin
<1>2. START(t) \in Lines /\ START(t).type = "START" /\ START(t).tid = t
  BY LineTypes
<1>3. /\ LOG' \in Seq(Lines) /\ Len(LOG') = Len(LOG)+1 /\ LOG'[Len(LOG')] = START(t)
      /\ Adds(LOG, LOG', START(t).type, {START(t).tid})
  BY <1>1, <1>2, AppendAdds
<1>4. Mentions(LOG, t) = {}
  <2>1. Cardinality(Starts(LOG)) \in Nat
    <3>1. 1 \in Int /\ Len(LOG) \in Int
      BY <1>1
    <3>2. IsFiniteSet(1..Len(LOG))
      BY <3>1, FS_Interval, Zenon
    <3>3. IsFiniteSet(Starts(LOG))
      BY <3>2, FS_Subset DEF Starts
    <3>4. QED BY <3>3, FS_CardinalityType
  <2>2. ~(t <= Cardinality(Starts(LOG)))
    BY <1>1, <2>1
  <2>3. QED BY <1>1, <2>2 DEF Numbers
<1>5. Starts(LOG') = Starts(LOG) \union {Len(LOG)+1}
  <2>1. \A i \in 1..Len(LOG) : LOG'[i] = LOG[i]
    BY <1>3 DEF Adds, Grown
  <2>2. \A i \in 1..Len(LOG') : i \in 1..Len(LOG) \/ i = Len(LOG)+1
    BY <1>1, <1>3
  <2>3. LOG'[Len(LOG)+1].type = "START" /\ Len(LOG)+1 \in 1..Len(LOG') /\ 1..Len(LOG) \subseteq 1..Len(LOG')
    BY <1>1, <1>2, <1>3
  <2> HIDE <1>1, <1>3
  <2>4. QED BY <2>1, <2>2, <2>3 DEF Starts
<1>6. QED BY <1>2, <1>3, <1>4, <1>5 DEF GrowsBy, Allowed

\* The line of an update
UpdateLogged(t, a, v) ==
  /\ GrowsBy("UPDATE", {t}) /\ Len(LOG') = Len(LOG)+1
  /\ LOG'[Len(LOG')] = UPDATE(t, a, current_db[a], v)

LEMMA UpdateGrows ==
  ASSUME Known, NEW t \in Tids, NEW a \in Accounts, NEW v \in Values, LogUpdate(t, a, v)
  PROVE  UpdateLogged(t, a, v)
<1> DEFINE e == UPDATE(t, a, current_db[a], v)
<1>1. LOG \in Seq(Lines) /\ LOG' = Append(LOG, e) /\ tid_stat[t] = "COMMITING"
  BY DEF Known, TypeOK, LogUpdate
<1>2. e \in Lines /\ e.type = "UPDATE" /\ e.tid = t
  <2>1. current_db[a] \in Values \union {Absent}
    BY DEF Known, TypeOK, Stored
  <2>2. QED BY <2>1, LineTypes
<1>3. t \in Open(LOG)
  BY <1>1 DEF Known, StatusOK, StatRight
<1> HIDE DEF e
<1>4. /\ LOG' \in Seq(Lines) /\ Len(LOG') = Len(LOG)+1 /\ LOG'[Len(LOG')] = e
      /\ Adds(LOG, LOG', e.type, {e.tid})
  BY <1>1, <1>2, AppendAdds
<1>5. QED BY <1>2, <1>3, <1>4 DEF GrowsBy, Allowed, UpdateLogged, e

LEMMA CommitGrows ==
  ASSUME Known, NEW t \in Tids, Commit(t)
  PROVE  GrowsBy("OUTCOME", {t}) /\ \A p \in Extra(LOG, LOG') : LOG'[p].status = "COMMITTED"
<1> DEFINE e == OUTCOME(t, "COMMITTED")
<1>1. LOG \in Seq(Lines) /\ LOG' = Append(LOG, e) /\ tid_stat[t] = "COMMITING"
  BY DEF Known, TypeOK, Commit
<1>2. e \in Lines /\ e.type = "OUTCOME" /\ e.tid = t /\ e.status = "COMMITTED"
  <2>1. "COMMITTED" \in Statuses
    BY DEF Statuses
  <2>2. QED BY <2>1, LineTypes
<1>3. t \in Open(LOG)
  BY <1>1 DEF Known, StatusOK, StatRight
<1> HIDE DEF e
<1>4. /\ LOG' \in Seq(Lines) /\ Len(LOG') = Len(LOG)+1 /\ LOG'[Len(LOG')] = e
      /\ Adds(LOG, LOG', e.type, {e.tid})
  <2>1. LOG \in Seq(Lines) /\ e \in Lines /\ e.type # "CHECKPOINT" /\ e.tid \in Tids
    BY <1>1, <1>2
  <2>2. QED BY <1>1, <2>1, AppendAdds, Zenon
<1>5. \A p \in Extra(LOG, LOG') : LOG'[p].status = "COMMITTED"
  <2>1. Len(LOG) \in Nat
    BY LogFacts DEF Known
  <2>2. QED BY <1>2, <1>4, <2>1 DEF Extra
<1>6. QED BY <1>2, <1>3, <1>4, <1>5 DEF GrowsBy, Allowed

LEMMA EndGrows ==
  ASSUME Known, step.at = "flush", LogEnd
  PROVE  step.tid \in Tids /\ step.tid \in Owed(LOG) /\ GrowsBy("END", {step.tid})
<1> DEFINE t == step.tid
           e == END(t)
<1>1. LOG \in Seq(Lines) /\ LOG' = Append(LOG, e) /\ tid_stat[t] = "ENDING"
  BY DEF Known, TypeOK, LogEnd, StatusOK, StepRight
<1>2. t \in Tids
  BY DEF Known, TypeOK, Steps, NoStep
<1>3. e \in Lines /\ e.type = "END" /\ e.tid = t
  BY <1>2, LineTypes
<1>4. t \in Owed(LOG)
  BY <1>1, <1>2 DEF Known, StatusOK, StatRight
<1> HIDE DEF e
<1>5. /\ LOG' \in Seq(Lines) /\ Len(LOG') = Len(LOG)+1 /\ LOG'[Len(LOG')] = e
      /\ Adds(LOG, LOG', e.type, {e.tid})
  BY <1>1, <1>2, <1>3, AppendAdds
<1>6. QED BY <1>2, <1>3, <1>4, <1>5 DEF GrowsBy, Allowed

\* The log and the database after recovery
UndoRecovered == GrowsBy("OUTCOME", Open(LOG)) /\ on_disk_db' = UndoneFrom(DB, LOG, 1)
RedoRecovered == GrowsBy("END", Owed(LOG)) /\ on_disk_db' = Replayed(DB, LOG, Updates(LOG, Owed(LOG)))

\* Recovery ends the owed transactions, and aborts the open ones.
LEMMA RecoverGrows ==
  ASSUME Known, Recover
  PROVE  (mode = "undo" => UndoRecovered) /\ (mode = "redo" => RedoRecovered)
<1> DEFINE r == Recovered(LOG, DB)
<1>1. RecoversTo(LOG, DB, r) /\ LOG \in Seq(Lines)
  BY RecoveredIs, LogFacts DEF Known, TypeOK
<1>2. ~r.died /\ on_disk_db' = r.db /\ LOG' = LOG \o r.lines
  BY DEF Recover
<1> HIDE DEF r
<1>3. Open(LOG) \in SUBSET Tids /\ Owed(LOG) \in SUBSET Tids
  BY DEF Open, Owed
<1>4. ASSUME mode = "undo" PROVE UndoRecovered
  <2>1. LOG' = LOG \o Aborts(Open(LOG)) /\ on_disk_db' = UndoneFrom(DB, LOG, 1)
    BY <1>1, <1>2, <1>4 DEF RecoversTo
  <2>2. LOG' \in Seq(Lines) /\ Adds(LOG, LOG', "OUTCOME", Open(LOG))
    BY <1>1, <1>3, <2>1, AbortsAdd
  <2>3. QED BY <2>1, <2>2 DEF UndoRecovered, GrowsBy, Allowed
<1>5. ASSUME mode = "redo" PROVE RedoRecovered
  <2>1. LOG' = LOG \o Ends(Owed(LOG)) /\ on_disk_db' = Replayed(DB, LOG, Updates(LOG, Owed(LOG)))
    BY <1>1, <1>2, <1>5 DEF RecoversTo
  <2>2. LOG' \in Seq(Lines) /\ Adds(LOG, LOG', "END", Owed(LOG))
    BY <1>1, <1>3, <2>1, EndsAdd
  <2>3. QED BY <2>1, <2>2 DEF RedoRecovered, GrowsBy, Allowed
<1>6. QED BY <1>4, <1>5

\* A log that grows by lines of transactions stays good.
LEMMA GoodStays ==
  ASSUME Known, NEW type, NEW T, GrowsBy(type, T), mode' = mode,
         mode = "redo" /\ type = "OUTCOME" => \A p \in Extra(LOG, LOG') : LOG'[p].status = "COMMITTED"
  PROVE  LogGood'
<1>1. LogRight(LOG) /\ Adds(LOG, LOG', type, T) /\ Allowed(LOG, type, T)
  BY LogFacts DEF Known, GrowsBy
<1>2. LogRight(LOG')
  BY <1>1, GrownRight
<1>3. mode = "undo" => UndoLog(LOG')
  BY <1>1, GrownUndo DEF Known, LogGood
<1>4. mode = "redo" => RedoLog(LOG')
  BY <1>1, GrownRedo DEF Known, LogGood
<1>5. QED BY <1>2, <1>3, <1>4 DEF LogGood

\* Whose transaction is open and whose END is owed then
LEMMA OpenThen ==
  ASSUME Known, NEW type, NEW T, GrowsBy(type, T)
  PROVE  Open(LOG') = OpenWith(LOG, type, T) /\ Owed(LOG') = OwedWith(LOG, type, T)
<1>1. LogRight(LOG) /\ Adds(LOG, LOG', type, T) /\ Allowed(LOG, type, T)
  BY LogFacts DEF Known, GrowsBy
<1>2. QED BY <1>1, OpenIs

-----------------------------------------------------------------------------
(* A checkpoint *)

Marked(log, new, P, C, D) ==
  /\ Grown(log, new) /\ Len(new) = Len(log)+1 /\ LineRight(new[Len(new)])
  /\ new[Len(new)].type = "CHECKPOINT" /\ new[Len(new)].pending = P
  /\ new[Len(new)].committed = C /\ new[Len(new)].done = D

\* A checkpoint changes nothing of the transactions.
LEMMA MarkedSame ==
  ASSUME NEW log, LinesRight(log), NEW new, NEW P, NEW C, NEW D, Marked(log, new, P, C, D)
  PROVE  /\ \A ty, t : ty # "CHECKPOINT" => At(new, ty, t) = At(log, ty, t)
         /\ \A t : Mentions(new, t) = Mentions(log, t)
         /\ Open(new) = Open(log) /\ Owed(new) = Owed(log)
         /\ Checkpoints(new) = Checkpoints(log) \union {Len(log)+1}
         /\ Starts(new) = Starts(log)
         /\ LinesRight(new)
         /\ \A i : OpenAfter(new, i) <=> OpenAfter(log, i)
<1>1. /\ Len(log) \in Nat /\ \A i \in 1..Len(log) : new[i] = log[i] /\ LineRight(log[i])
      /\ LineRight(new[Len(log)+1]) /\ new[Len(log)+1].type = "CHECKPOINT" /\ Len(new) = Len(log)+1
  BY DEF Marked, Grown, LinesRight
<1>2. \A i : i \in 1..Len(new) <=> i \in 1..Len(log) \/ i = Len(log)+1
  BY <1>1
<1>3. ASSUME NEW ty, NEW t, ty # "CHECKPOINT" PROVE At(new, ty, t) = At(log, ty, t)
  BY <1>1, <1>2, <1>3 DEF At
<1>4. ASSUME NEW t PROVE Mentions(new, t) = Mentions(log, t)
  BY <1>1, <1>2 DEF Mentions
<1>5. /\ \A t : At(new, "START", t) = At(log, "START", t)
      /\ \A t : At(new, "OUTCOME", t) = At(log, "OUTCOME", t)
      /\ \A t : At(new, "END", t) = At(log, "END", t)
  BY <1>3
<1>6. Open(new) = Open(log) /\ Owed(new) = Owed(log)
  BY <1>5 DEF Open, Owed
<1>7. Checkpoints(new) = Checkpoints(log) \union {Len(log)+1}
  BY <1>1, <1>2 DEF Checkpoints
<1>8. Starts(new) = Starts(log)
  BY <1>1, <1>2 DEF Starts
<1>9. LinesRight(new)
  BY <1>1, <1>2 DEF LinesRight
<1>10. \A i : OpenAfter(new, i) <=> OpenAfter(log, i)
  BY <1>5, <1>6 DEF OpenAfter
<1>11. QED BY <1>3, <1>4, <1>6, <1>7, <1>8, <1>9, <1>10

LEMMA CheckpointMarks ==
  ASSUME Known, Checkpoint
  PROVE  /\ LOG' \in Seq(Lines)
         /\ Marked(LOG, LOG', WithStat("COMMITING"), WithStat("ENDING"), WithStat("DONE"))
<1> DEFINE P == WithStat("COMMITING")
           C == WithStat("ENDING")
           D == WithStat("DONE")
           e == CHECKPOINT(P, C, D)
<1>1. LOG \in Seq(Lines) /\ LOG' = Append(LOG, e)
  BY DEF Known, TypeOK, Checkpoint
<1>2. P \in SUBSET Tids /\ C \in SUBSET Tids /\ D \in SUBSET Tids
  BY DEF WithStat
<1> HIDE DEF P, C, D
<1>3. e \in Lines /\ e.type = "CHECKPOINT" /\ e.pending = P /\ e.committed = C /\ e.done = D
  BY <1>2, CheckpointLine
<1> HIDE DEF e
<1>4. /\ LOG' \in Seq(Lines) /\ Len(LOG') = Len(LOG)+1 /\ Len(LOG) \in Nat
      /\ \A i \in 1..Len(LOG) : LOG'[i] = LOG[i]
      /\ LOG'[Len(LOG)+1] = e
  BY <1>1, <1>3, AppendProperties
<1>5. LineRight(e)
  BY <1>3, LineIs
<1>6. Marked(LOG, LOG', P, C, D)
  BY <1>3, <1>4, <1>5 DEF Marked, Grown
<1>7. QED BY <1>4, <1>6 DEF P, C, D

\* A checkpoint names the transactions as the log has them, if tid_stat does.
LEMMA CheckpointGood ==
  ASSUME Known, Settled, Checkpoint
  PROVE  LogGood'
<1> DEFINE P == WithStat("COMMITING")
           C == WithStat("ENDING")
           D == WithStat("DONE")
           n == Len(LOG)+1
<1>1. /\ Len(LOG) \in Nat /\ LinesRight(LOG) /\ InOrder(LOG) /\ PendingRight(LOG) /\ DoneRight(LOG)
      /\ up /\ mode' = mode /\ StatRight(LOG, tid_stat) /\ OwnRight
      /\ tid_stat \in [Tids -> Stats] /\ LogRight(LOG)
  BY LogFacts DEF Known, LogRight, Checkpoint, Ready, StatusOK, TypeOK
<1>2. Marked(LOG, LOG', P, C, D)
  BY CheckpointMarks
<1>3. /\ \A ty, t : ty # "CHECKPOINT" => At(LOG', ty, t) = At(LOG, ty, t)
      /\ \A t : Mentions(LOG', t) = Mentions(LOG, t)
      /\ Open(LOG') = Open(LOG) /\ Owed(LOG') = Owed(LOG)
      /\ Checkpoints(LOG') = Checkpoints(LOG) \union {n}
      /\ LinesRight(LOG')
      /\ \A i : OpenAfter(LOG', i) <=> OpenAfter(LOG, i)
  BY <1>1, <1>2, MarkedSame
<1>4. /\ LOG'[n].pending = P /\ LOG'[n].committed = C /\ LOG'[n].done = D
      /\ \A i \in 1..Len(LOG) : LOG'[i] = LOG[i]
  BY <1>2 DEF Marked, Grown
<1>5. /\ \A t : t \in P <=> t \in Tids /\ tid_stat[t] = "COMMITING"
      /\ \A t : t \in C <=> t \in Tids /\ tid_stat[t] = "ENDING"
      /\ \A t : t \in D <=> t \in Tids /\ tid_stat[t] = "DONE"
  BY DEF WithStat
<1> HIDE DEF P, C, D
<1>6. \A ty, t : At(LOG, ty, t) \subseteq 1..Len(LOG) /\ \A i \in At(LOG, ty, t) : i < n /\ i \in Nat
  BY <1>1 DEF At
<1>7. \A c \in Checkpoints(LOG) : c \in 1..Len(LOG) /\ c < n
  BY <1>1 DEF Checkpoints
<1> HIDE DEF n
<1>8. InOrder(LOG')
  <2>1. ASSUME NEW t \in Tids PROVE Ordered(LOG', t)
    <3>1. Ordered(LOG, t)
      BY <1>1 DEF InOrder
    <3>2. /\ At(LOG', "START", t) = At(LOG, "START", t) /\ At(LOG', "OUTCOME", t) = At(LOG, "OUTCOME", t)
          /\ At(LOG', "UPDATE", t) = At(LOG, "UPDATE", t) /\ At(LOG', "END", t) = At(LOG, "END", t)
          /\ Mentions(LOG', t) = Mentions(LOG, t)
      BY <1>3
    <3>3. QED BY <3>1, <3>2 DEF Ordered
  <2>2. QED BY <2>1 DEF InOrder
<1>9. PendingRight(LOG')
  <2>1. ASSUME NEW c \in Checkpoints(LOG'), NEW t \in LOG'[c].pending
        PROVE  (\E i \in At(LOG, "START", t) : i < c) /\ (\A i \in At(LOG, "OUTCOME", t) : c < i)
    <3>1. CASE c \in Checkpoints(LOG)
      BY <1>1, <1>4, <1>7, <3>1 DEF PendingRight
    <3>2. CASE c = n
      <4>1. t \in Open(LOG)
        BY <1>1, <1>4, <1>5, <3>2 DEF StatRight
      <4>2. QED BY <1>6, <3>2, <4>1 DEF Open
    <3>3. QED BY <1>3, <3>1, <3>2
  <2>2. QED BY <1>3, <2>1 DEF PendingRight
<1>10. DoneRight(LOG')
  <2>1. ASSUME NEW c \in Checkpoints(LOG'), NEW t \in LOG'[c].done PROVE At(LOG, "OUTCOME", t) # {}
    <3>1. CASE c \in Checkpoints(LOG)
      BY <1>1, <1>4, <1>7, <3>1 DEF DoneRight
    <3>2. CASE c = n
      BY <1>1, <1>4, <1>5, <3>2 DEF StatRight
    <3>3. QED BY <1>3, <3>1, <3>2
  <2>2. QED BY <1>3, <2>1 DEF DoneRight
<1>11. ASSUME mode = "undo" PROVE UndoLog(LOG')
  <2>1. OpenNamed(LOG) /\ PendingNamed(LOG) /\ SettledIn(LOG, tid_stat)
    BY <1>1, <1>11 DEF Known, LogGood, UndoLog, Settled
  <2>2. OpenNamed(LOG')
    <3>1. ASSUME NEW c \in Checkpoints(LOG'), NEW t \in Open(LOG), \E i \in At(LOG, "START", t) : i < c
          PROVE  t \in LOG'[c].pending
      <4>1. CASE c \in Checkpoints(LOG)
        BY <1>4, <1>7, <2>1, <3>1, <4>1 DEF OpenNamed
      <4>2. CASE c = n
        BY <1>1, <1>4, <1>5, <1>11, <4>2 DEF OwnRight, Open
      <4>3. QED BY <1>3, <4>1, <4>2
    <3>2. QED BY <1>3, <3>1 DEF OpenNamed
  <2>3. PendingNamed(LOG')
    <3>1. ASSUME NEW k \in Checkpoints(LOG'), NEW c \in Checkpoints(LOG'), k < c, NEW t \in LOG'[k].pending
          PROVE  \/ t \in LOG'[c].pending \union LOG'[c].committed \union LOG'[c].done
                 \/ \E i \in At(LOG, "OUTCOME", t) : i < c /\ OpenAfter(LOG, i)
      <4>1. k \in Checkpoints(LOG) /\ LOG'[k] = LOG[k]
        <5>1. k # n
          BY <1>1, <1>3, <1>7, <3>1 DEF n
        <5>2. QED BY <1>3, <1>4, <1>7, <5>1
      <4>2. CASE c \in Checkpoints(LOG)
        <5>1. LOG'[c] = LOG[c]
          BY <1>4, <1>7, <4>2
        <5>2. QED BY <2>1, <3>1, <4>1, <4>2, <5>1 DEF PendingNamed
      <4>3. CASE c = n
        <5>1. t \in Tids /\ At(LOG, "START", t) # {}
          <6>1. t \in LOG[k].pending
            BY <3>1, <4>1
          <6>2. t \in Tids
            BY <1>1, <1>7, <4>1, <6>1 DEF LinesRight, LineRight, Checkpoints
          <6>3. QED BY <1>1, <4>1, <6>1, <6>2 DEF PendingRight
        <5>2. tid_stat[t] \in Stats
          BY <1>1, <5>1
        <5>3. CASE tid_stat[t] = "not initialized"
          <6>1. \E i \in At(LOG, "OUTCOME", t) : OpenAfter(LOG, i)
            BY <2>1, <5>1, <5>3 DEF SettledIn
          <6>2. QED BY <1>6, <4>3, <6>1
        <5>4. CASE tid_stat[t] # "not initialized"
          BY <1>4, <1>5, <4>3, <5>1, <5>2, <5>4 DEF Stats
        <5>5. QED BY <5>3, <5>4
      <4>4. QED BY <1>3, <4>2, <4>3
    <3>2. QED BY <1>3, <3>1 DEF PendingNamed
  <2>4. QED BY <2>2, <2>3 DEF UndoLog
<1>12. ASSUME mode = "redo" PROVE RedoLog(LOG')
  <2>1. OwedNamed(LOG) /\ NoneAborted(LOG)
    BY <1>12 DEF Known, LogGood, RedoLog
  <2>2. OwedNamed(LOG')
    <3>1. ASSUME NEW c \in Checkpoints(LOG'), NEW t \in Owed(LOG), \E i \in At(LOG, "OUTCOME", t) : i < c
          PROVE  t \in LOG'[c].committed
      <4>1. CASE c \in Checkpoints(LOG)
        BY <1>4, <1>7, <2>1, <3>1, <4>1 DEF OwedNamed
      <4>2. CASE c = n
        BY <1>1, <1>4, <1>5, <1>12, <4>2 DEF OwnRight, Owed
      <4>3. QED BY <1>3, <4>1, <4>2
    <3>2. QED BY <1>3, <3>1 DEF OwedNamed
  <2>3. NoneAborted(LOG')
    BY <1>3, <1>4, <1>6, <2>1 DEF NoneAborted
  <2>4. QED BY <2>2, <2>3 DEF RedoLog
<1>13. LogRight(LOG')
  BY <1>3, <1>8, <1>9, <1>10 DEF LogRight
<1>14. QED BY <1>1, <1>11, <1>12, <1>13 DEF LogGood

-----------------------------------------------------------------------------
(* The types *)

\* The types of the parts
LEMMA StepTypes ==
  ASSUME TypeOK
  PROVE  /\ step.at = "write" => /\ step.tid \in Tids /\ step.variable \in Accounts
                                 /\ step.value \in Values
         /\ step.at = "flush" => /\ step.tid \in Tids /\ step.next \in Nat
                                 /\ step = [at |-> "flush", tid |-> step.tid, next |-> step.next]
         /\ NoStep \in Steps
BY DEF TypeOK, Steps, NoStep

LEMMA StoredFacts ==
  /\ NoAccounts \in Stored
  /\ \A db \in Stored, a \in Accounts, v \in Values : [db EXCEPT ![a] = v] \in Stored
BY DEF NoAccounts, Stored

LEMMA UpdatesOfAre ==
  ASSUME TypeOK, NEW t
  PROVE  UpdatesOf(t) = At(LOG, "UPDATE", t)
BY LenProperties DEF TypeOK, UpdatesOf, At

LEMMA FlushedWrite ==
  ASSUME TypeOK, NEW i \in DOMAIN pending_writes
  PROVE  /\ i \in 1..Len(pending_writes) /\ i \in Nat /\ Len(pending_writes) \in Nat
         /\ pending_writes[i][1] \in Tids
         /\ pending_writes[i][2] \in Accounts /\ pending_writes[i][3] \in Values
<1>1. pending_writes \in Seq(Tids \X Accounts \X Values)
  BY DEF TypeOK
<1>2. Len(pending_writes) \in Nat /\ DOMAIN pending_writes = 1..Len(pending_writes)
  BY <1>1, LenProperties
<1>3. pending_writes[i] \in Tids \X Accounts \X Values
  BY <1>1, <1>2, ElementOfSeq
<1>4. QED BY <1>2, <1>3

\* Every step keeps the types.
LEMMA TypeStays ==
  ASSUME Known, [Next]_vars
  PROVE  TypeOK'
<1>1. /\ mode \in {"redo", "undo"} /\ up \in BOOLEAN /\ undumped \in BOOLEAN
      /\ LOG \in Seq(Lines)
      /\ DB \in Stored /\ current_db \in Stored /\ on_disk_db \in Stored /\ committed \in Stored
      /\ tid_stat \in [Tids -> Stats]
      /\ pending_writes \in Seq(Tids \X Accounts \X Values)
      /\ step \in Steps
  BY DEF Known, TypeOK
<1>2. TypeOK
  BY DEF Known
<1>3. LinesRight(LOG) /\ Len(LOG) \in Nat
  BY LogFacts DEF Known
<1>4. /\ "COMMITING" \in Stats /\ "ENDING" \in Stats /\ "DONE" \in Stats /\ "not initialized" \in Stats
  BY DEF Stats
<1>5. ASSUME NEW t \in Tids, Begin(t) PROVE TypeOK'
  <2>1. LOG' \in Seq(Lines)
    BY <1>5, BeginGrows DEF GrowsBy
  <2>2. tid_stat' \in [Tids -> Stats]
    BY <1>1, <1>4, <1>5 DEF Begin
  <2>3. QED BY <1>1, <1>5, <2>1, <2>2 DEF Begin, history, TypeOK
<1>6. ASSUME NEW t \in Tids, Commit(t) PROVE TypeOK'
  <2>1. LOG' \in Seq(Lines)
    BY <1>6, CommitGrows DEF GrowsBy
  <2>2. tid_stat' \in [Tids -> Stats]
    BY <1>1, <1>4, <1>6 DEF Commit
  <2>3. committed' \in Stored
    <3>1. committed' = Replayed(committed, LOG, At(LOG, "UPDATE", t))
      BY <1>2, <1>6, UpdatesOfAre DEF Commit
    <3>2. \A i \in At(LOG, "UPDATE", t) : i \in 1..Len(LOG) /\ LOG[i].type = "UPDATE"
      BY DEF At
    <3>3. QED BY <1>1, <1>3, <3>1, <3>2, ReplayedType
  <2>4. QED BY <1>1, <1>6, <2>1, <2>2, <2>3 DEF Commit, TypeOK
<1>7. ASSUME NEW t \in Tids, End(t) PROVE TypeOK'
  <2>1. step' \in Steps
    BY <1>7 DEF End, Steps
  <2>2. QED BY <1>1, <1>7, <2>1 DEF End, history, TypeOK
<1>8. ASSUME NEW t \in Tids, NEW a \in Accounts, NEW v \in Values, LogUpdate(t, a, v) PROVE TypeOK'
  <2>1. LOG' \in Seq(Lines)
    BY <1>8, UpdateGrows DEF UpdateLogged, GrowsBy
  <2>2. step' \in Steps
    BY <1>8 DEF LogUpdate, Steps
  <2>3. QED BY <1>1, <1>8, <2>1, <2>2 DEF LogUpdate, history, TypeOK
<1>9. ASSUME WriteToDisk PROVE TypeOK'
  <2>1. step.tid \in Tids /\ step.variable \in Accounts /\ step.value \in Values /\ NoStep \in Steps
    BY <1>2, <1>9, StepTypes DEF WriteToDisk
  <2>2. current_db' \in Stored /\ on_disk_db' \in Stored
    <3>1. /\ current_db' = [current_db EXCEPT ![step.variable] = step.value]
          /\ \/ on_disk_db' = [on_disk_db EXCEPT ![step.variable] = step.value]
             \/ on_disk_db' = on_disk_db
      BY <1>9 DEF WriteToDisk
    <3>2. /\ [current_db EXCEPT ![step.variable] = step.value] \in Stored
          /\ [on_disk_db EXCEPT ![step.variable] = step.value] \in Stored
      BY <1>1, <2>1, StoredFacts, Zenon
    <3>3. QED BY <1>1, <3>1, <3>2, Zenon
  <2>3. pending_writes' \in Seq(Tids \X Accounts \X Values)
    <3>1. <<step.tid, step.variable, step.value>> \in Tids \X Accounts \X Values
      BY <2>1
    <3>2. Append(pending_writes, <<step.tid, step.variable, step.value>>) \in Seq(Tids \X Accounts \X Values)
      BY <1>1, <3>1, AppendProperties
    <3>3. QED BY <1>1, <1>9, <3>2 DEF WriteToDisk
  <2>4. QED BY <1>1, <1>9, <2>1, <2>2, <2>3 DEF WriteToDisk, history, TypeOK
<1>10. ASSUME Flush PROVE TypeOK'
  <2>1. step.tid \in Tids /\ step.next \in Nat /\ NoStep \in Steps /\ step.at = "flush"
        /\ step = [at |-> "flush", tid |-> step.tid, next |-> step.next]
    BY <1>2, <1>10, StepTypes DEF Flush
  <2>2. CASE FlushNext
    <3>1. PICK i \in ToFlush :
            /\ on_disk_db' = [on_disk_db EXCEPT ![pending_writes[i][2]] = pending_writes[i][3]]
            /\ step' = [step EXCEPT !.next = i + 1]
            /\ UNCHANGED <<LOG, tid_stat>>
      BY <2>2 DEF FlushNext
    <3>2. i \in Nat /\ pending_writes[i][2] \in Accounts /\ pending_writes[i][3] \in Values
      BY <1>2, FlushedWrite DEF ToFlush
    <3>3. on_disk_db' \in Stored
      BY <1>1, <3>1, <3>2, StoredFacts
    <3>4. step' \in Steps
      <4>1. step' = [at |-> "flush", tid |-> step.tid, next |-> i+1] /\ i+1 \in Nat
        BY <2>1, <3>1, <3>2
      <4>2. QED BY <2>1, <4>1 DEF Steps
    <3>5. QED BY <1>1, <1>10, <3>1, <3>3, <3>4 DEF Flush, history, TypeOK
  <2>3. CASE LogEnd
    <3>1. LOG' \in Seq(Lines)
      BY <2>1, <2>3, EndGrows DEF GrowsBy
    <3>2. tid_stat' \in [Tids -> Stats]
      BY <1>1, <1>4, <2>1, <2>3 DEF LogEnd
    <3>3. QED BY <1>1, <1>10, <2>1, <2>3, <3>1, <3>2 DEF Flush, LogEnd, history, TypeOK
  <2>4. QED BY <1>10, <2>2, <2>3 DEF Flush
<1>11. ASSUME Checkpoint PROVE TypeOK'
  <2>1. LOG' \in Seq(Lines)
    BY <1>11, CheckpointMarks
  <2>2. QED BY <1>1, <1>11, <2>1 DEF Checkpoint, history, volatile, TypeOK
<1>12. ASSUME Crash \/ Dies PROVE TypeOK'
  <2>1. tid_stat' \in [Tids -> Stats] /\ current_db' \in Stored /\ on_disk_db' \in Stored
    BY <1>4, <1>12, StoredFacts DEF Crash, Dies, Forgotten
  <2>2. pending_writes' \in Seq(Tids \X Accounts \X Values) /\ step' \in Steps
    BY <1>2, <1>12, StepTypes, EmptySeq DEF Crash, Dies, Forgotten
  <2>3. up' \in BOOLEAN /\ undumped' \in BOOLEAN /\ DB' \in Stored
        /\ UNCHANGED <<mode, LOG, committed>>
    BY <1>1, <1>12 DEF Crash, Dies
  <2>4. QED BY <1>1, <2>1, <2>2, <2>3 DEF TypeOK
<1>13. ASSUME Recover PROVE TypeOK'
  <2>1. LOG' \in Seq(Lines) /\ on_disk_db' \in Stored
    <3>1. CASE mode = "undo"
      <4>1. GrowsBy("OUTCOME", Open(LOG)) /\ on_disk_db' = UndoneFrom(DB, LOG, 1)
        BY <1>13, <3>1, RecoverGrows DEF UndoRecovered
      <4>2. QED BY <1>1, <1>3, <4>1, UndoneType DEF GrowsBy
    <3>2. CASE mode = "redo"
      <4>1. GrowsBy("END", Owed(LOG)) /\ on_disk_db' = Replayed(DB, LOG, Updates(LOG, Owed(LOG)))
        BY <1>13, <3>2, RecoverGrows DEF RedoRecovered
      <4>2. \A i \in Updates(LOG, Owed(LOG)) : i \in 1..Len(LOG) /\ LOG[i].type = "UPDATE"
        BY DEF Updates
      <4>3. QED BY <1>1, <1>3, <4>1, <4>2, ReplayedType DEF GrowsBy
    <3>3. QED BY <1>1, <3>1, <3>2
  <2>2. QED BY <1>1, <1>13, <2>1 DEF Recover, history, TypeOK
<1>14. CASE UNCHANGED vars
  BY <1>1, <1>14 DEF vars, volatile, history, TypeOK
<1>15. QED BY <1>5, <1>6, <1>7, <1>8, <1>9, <1>10, <1>11, <1>12, <1>13, <1>14 DEF Next

-----------------------------------------------------------------------------
(* The log stays good. *)

\* Every step keeps the log well formed.
LEMMA GoodAlways ==
  ASSUME Known, Settled, [Next]_vars
  PROVE  LogGood'
<1>1. mode' = mode
  BY DEF Next, Begin, Commit, End, LogUpdate, WriteToDisk, Flush, Checkpoint, Crash, Dies, Recover, vars
<1>2. ASSUME LOG' = LOG PROVE LogGood'
  <2>1. LogRight(LOG') /\ (mode = "undo" => UndoLog(LOG')) /\ (mode = "redo" => RedoLog(LOG'))
    <3>1. LogRight(LOG) /\ (mode = "undo" => UndoLog(LOG)) /\ (mode = "redo" => RedoLog(LOG))
      BY DEF Known, LogGood
    <3>2. QED BY <1>2, <3>1
  <2>2. QED BY <1>1, <2>1 DEF LogGood
<1>3. ASSUME NEW t \in Tids, Begin(t) PROVE LogGood'
  BY <1>1, <1>3, BeginGrows, GoodStays
<1>4. ASSUME NEW t \in Tids, Commit(t) PROVE LogGood'
  BY <1>1, <1>4, CommitGrows, GoodStays
<1>5. ASSUME NEW t \in Tids, NEW a \in Accounts, NEW v \in Values, LogUpdate(t, a, v) PROVE LogGood'
  BY <1>1, <1>5, UpdateGrows, GoodStays DEF UpdateLogged
<1>6. ASSUME Flush PROVE LogGood'
  BY <1>1, <1>2, <1>6, EndGrows, GoodStays DEF Flush, FlushNext
<1>7. ASSUME Recover PROVE LogGood'
  <2>1. CASE mode = "undo"
    BY <1>1, <1>7, <2>1, RecoverGrows, GoodStays DEF UndoRecovered
  <2>2. CASE mode = "redo"
    BY <1>1, <1>7, <2>2, RecoverGrows, GoodStays DEF RedoRecovered
  <2>3. QED BY <2>1, <2>2 DEF Known, TypeOK
<1>8. CASE Checkpoint
  BY <1>8, CheckpointGood
<1>9. CASE (\E t \in Tids : End(t)) \/ WriteToDisk \/ Crash \/ Dies \/ UNCHANGED vars
  BY <1>2, <1>9 DEF End, WriteToDisk, Crash, Dies, vars
<1>10. QED BY <1>3, <1>4, <1>5, <1>6, <1>7, <1>8, <1>9 DEF Next

-----------------------------------------------------------------------------
(* What tid_stat says *)

\* A line has been added for each of T: what this leaves alone.
LEMMA LinesThen ==
  ASSUME Known, NEW type, NEW T, GrowsBy(type, T)
  PROVE  /\ \A t : Added(LOG, LOG', type, T, t)
         /\ \A t, ty : ty # type \/ t \notin T => At(LOG', ty, t) = At(LOG, ty, t)
         /\ type = "START" => Open(LOG') = Open(LOG) \union T /\ Owed(LOG') = Owed(LOG)
         /\ type = "OUTCOME" => Open(LOG') = Open(LOG) \ T /\ Owed(LOG') = Owed(LOG) \union T
         /\ type = "UPDATE" => Open(LOG') = Open(LOG) /\ Owed(LOG') = Owed(LOG)
         /\ type = "END" => Open(LOG') = Open(LOG) /\ Owed(LOG') = Owed(LOG) \ T
<1>1. \A t : Added(LOG, LOG', type, T, t)
  BY AddsGive DEF GrowsBy
<1>2. \A t, ty : ty # type \/ t \notin T => At(LOG', ty, t) = At(LOG, ty, t)
  BY <1>1, Zenon DEF Added
<1>3. Open(LOG') = OpenWith(LOG, type, T) /\ Owed(LOG') = OwedWith(LOG, type, T)
  BY OpenThen
<1>4. QED BY <1>1, <1>2, <1>3 DEF OpenWith, OwedWith

\* begin counts the STARTs: its tid is fresh.
LEMMA NumbersStay ==
  ASSUME Known, NEW type, NEW T, GrowsBy(type, T), type # "START"
  PROVE  Numbers(LOG')
<1>1. Numbers(LOG) /\ Adds(LOG, LOG', type, T) /\ Allowed(LOG, type, T)
  BY DEF Known, StatusOK, GrowsBy
<1>2. Starts(LOG') = Starts(LOG)
  <2>1. /\ Len(LOG) \in Nat /\ Len(LOG') \in Nat /\ Len(LOG) <= Len(LOG')
        /\ \A i \in 1..Len(LOG) : LOG'[i] = LOG[i]
        /\ \A p \in Extra(LOG, LOG') : LOG'[p].type = type
    BY <1>1 DEF Adds, Grown
  <2>2. /\ \A i \in 1..Len(LOG') : i \in 1..Len(LOG) \/ i \in Extra(LOG, LOG')
        /\ 1..Len(LOG) \subseteq 1..Len(LOG')
    BY <2>1 DEF Extra
  <2>3. QED BY <2>1, <2>2 DEF Starts
<1>3. ASSUME NEW t \in Tids, Mentions(LOG', t) # {} PROVE Mentions(LOG, t) # {}
  <2>1. CASE t \in T
    BY <1>1, <2>1 DEF Allowed, Open, Owed, At, Mentions
  <2>2. CASE t \notin T
    BY <1>3, <2>2, LinesThen DEF Added
  <2>3. QED BY <2>1, <2>2
<1>4. QED BY <1>1, <1>2, <1>3 DEF Numbers

LEMMA BeginNumbers ==
  ASSUME Known, NEW t \in Tids, Begin(t)
  PROVE  Numbers(LOG')
<1>1. Numbers(LOG) /\ Len(LOG) \in Nat /\ GrowsBy("START", {t})
      /\ Starts(LOG') = Starts(LOG) \union {Len(LOG)+1}
  BY BeginGrows, LogFacts DEF Known, StatusOK
<1>2. t = Cardinality(Starts(LOG)) + 1
  BY InLogStart DEF Known, Begin
<1>3. IsFiniteSet(Starts(LOG)) /\ Cardinality(Starts(LOG)) \in Nat
  <2>1. 1 \in Int /\ Len(LOG) \in Int
    BY <1>1
  <2>2. IsFiniteSet(1..Len(LOG))
    BY <2>1, FS_Interval, Zenon
  <2>3. IsFiniteSet(Starts(LOG))
    BY <2>2, FS_Subset DEF Starts
  <2>4. QED BY <2>3, FS_CardinalityType
<1>4. Len(LOG)+1 \notin Starts(LOG)
  BY <1>1 DEF Starts
<1>5. Cardinality(Starts(LOG')) = Cardinality(Starts(LOG)) + 1
  BY <1>1, <1>3, <1>4, FS_AddElement
<1>6. ASSUME NEW u \in Tids, Mentions(LOG', u) # {} PROVE u <= Cardinality(Starts(LOG'))
  <2>1. CASE u = t
    BY <1>2, <1>3, <1>5, <2>1
  <2>2. CASE u # t
    <3>1. Mentions(LOG', u) = Mentions(LOG, u)
      BY <1>1, <2>2, LinesThen DEF Added
    <3>2. u <= Cardinality(Starts(LOG)) /\ u \in Nat
      BY <1>1, <1>6, <3>1, BoundAssumption DEF Numbers, Tids
    <3>3. QED BY <1>3, <1>5, <3>2
  <2>3. QED BY <2>1, <2>2
<1>7. QED BY <1>6 DEF Numbers

\* Every step keeps tid_stat in agreement with the log.
LEMMA StatusStays ==
  ASSUME Known, [Next]_vars
  PROVE  StatusOK'
<1>1. /\ StatRight(LOG, tid_stat) /\ OwnRight /\ Numbers(LOG) /\ Down /\ StepRight
      /\ tid_stat \in [Tids -> Stats] /\ TypeOK /\ NoStep.at = "none"
  BY DEF Known, StatusOK, TypeOK, NoStep
<1>2. ASSUME NEW t \in Tids, Begin(t) PROVE StatusOK'
  <2>1. /\ GrowsBy("START", {t}) /\ tid_stat' = [tid_stat EXCEPT ![t] = "COMMITING"]
        /\ up' = up /\ mode' = mode /\ step' = NoStep /\ step = NoStep /\ up
    BY <1>2, BeginGrows DEF Begin, Ready
  <2>2. /\ Open(LOG') = Open(LOG) \union {t} /\ Owed(LOG') = Owed(LOG)
        /\ \A u : At(LOG', "OUTCOME", u) = At(LOG, "OUTCOME", u)
    BY <2>1, LinesThen
  <2>3. t \notin Owed(LOG)
    BY <2>1 DEF GrowsBy, Allowed, Owed, At, Mentions
  <2>4. \A u \in Tids : tid_stat'[u] = IF u = t THEN "COMMITING" ELSE tid_stat[u]
    BY <1>1, <2>1
  <2>5. StatRight(LOG', tid_stat')
    BY <1>1, <2>2, <2>4 DEF StatRight
  <2>6. OwnRight'
    <3>1. Open(LOG') \subseteq Tids /\ Owed(LOG') \subseteq Tids
      BY DEF Open, Owed
    <3>2. QED BY <1>1, <2>1, <2>2, <2>3, <2>4, <3>1 DEF OwnRight
  <2>7. Down'
    BY <2>1 DEF Down
  <2>8. StepRight'
    BY <1>1, <2>1 DEF StepRight
  <2>9. Numbers(LOG')
    BY <1>2, BeginNumbers
  <2>10. QED BY <2>5, <2>6, <2>7, <2>8, <2>9 DEF StatusOK
<1>3. ASSUME NEW t \in Tids, Commit(t) PROVE StatusOK'
  <2>1. /\ GrowsBy("OUTCOME", {t}) /\ tid_stat' = [tid_stat EXCEPT ![t] = "ENDING"]
        /\ up' = up /\ mode' = mode /\ step' = NoStep /\ step = NoStep /\ up
    BY <1>3, CommitGrows DEF Commit, Ready
  <2>2. /\ Open(LOG') = Open(LOG) \ {t} /\ Owed(LOG') = Owed(LOG) \union {t}
        /\ \A u : u # t => At(LOG', "OUTCOME", u) = At(LOG, "OUTCOME", u)
    BY <2>1, LinesThen
  <2>3. \A u \in Tids : tid_stat'[u] = IF u = t THEN "ENDING" ELSE tid_stat[u]
    BY <1>1, <2>1
  <2>4. StatRight(LOG', tid_stat')
    BY <1>1, <2>2, <2>3 DEF StatRight
  <2>5. OwnRight'
    <3>1. Open(LOG') \subseteq Tids /\ Owed(LOG') \subseteq Tids
      BY DEF Open, Owed
    <3>2. QED BY <1>1, <2>1, <2>2, <2>3, <3>1 DEF OwnRight
  <2>6. Down'
    BY <2>1 DEF Down
  <2>7. StepRight'
    BY <1>1, <2>1 DEF StepRight
  <2>8. Numbers(LOG')
    BY <2>1, NumbersStay
  <2>9. QED BY <2>4, <2>5, <2>6, <2>7, <2>8 DEF StatusOK
<1>4. ASSUME NEW t \in Tids, NEW a \in Accounts, NEW v \in Values, LogUpdate(t, a, v) PROVE StatusOK'
  <2>1. /\ GrowsBy("UPDATE", {t}) /\ tid_stat' = tid_stat /\ Len(LOG') = Len(LOG)+1
        /\ LOG'[Len(LOG')] = UPDATE(t, a, current_db[a], v)
        /\ up' = up /\ mode' = mode /\ up /\ tid_stat[t] = "COMMITING"
        /\ step' = [at |-> "write", tid |-> t, variable |-> a, value |-> v]
    BY <1>4, UpdateGrows DEF LogUpdate, UpdateLogged, Ready
  <2>2. /\ Open(LOG') = Open(LOG) /\ Owed(LOG') = Owed(LOG)
        /\ \A u : At(LOG', "OUTCOME", u) = At(LOG, "OUTCOME", u)
    BY <2>1, LinesThen
  <2>3. StatRight(LOG', tid_stat')
    BY <1>1, <2>1, <2>2 DEF StatRight
  <2>4. OwnRight'
    BY <1>1, <2>1, <2>2 DEF OwnRight
  <2>5. Down'
    BY <2>1 DEF Down
  <2>6. StepRight'
    <3>1. current_db[a] \in Values \union {Absent} /\ Len(LOG) \in Nat
      BY <1>1, LogFacts DEF Known, TypeOK, Stored
    <3>2. /\ UPDATE(t, a, current_db[a], v).type = "UPDATE" /\ UPDATE(t, a, current_db[a], v).tid = t
          /\ UPDATE(t, a, current_db[a], v).variable = a /\ UPDATE(t, a, current_db[a], v).redo = v
      BY <3>1, LineTypes
    <3>3. /\ step'.at = "write" /\ step'.tid = t /\ step'.variable = a /\ step'.value = v
          /\ Len(LOG') # 0
      BY <2>1, <3>1
    <3>4. QED BY <2>1, <3>2, <3>3 DEF StepRight
  <2>7. Numbers(LOG')
    BY <2>1, NumbersStay
  <2>8. QED BY <2>3, <2>4, <2>5, <2>6, <2>7 DEF StatusOK
<1>5. ASSUME Flush, LogEnd PROVE StatusOK'
  <2>1. /\ step.tid \in Tids /\ step.tid \in Owed(LOG) /\ GrowsBy("END", {step.tid})
        /\ tid_stat' = [tid_stat EXCEPT ![step.tid] = "DONE"]
        /\ up' = up /\ mode' = mode /\ step' = NoStep /\ up
    BY <1>5, EndGrows DEF Flush, LogEnd
  <2> DEFINE t == step.tid
  <2>2. /\ Open(LOG') = Open(LOG) /\ Owed(LOG') = Owed(LOG) \ {t}
        /\ \A u : At(LOG', "OUTCOME", u) = At(LOG, "OUTCOME", u)
    BY <2>1, LinesThen
  <2>3. \A u \in Tids : tid_stat'[u] = IF u = t THEN "DONE" ELSE tid_stat[u]
    BY <1>1, <2>1
  <2>4. At(LOG, "OUTCOME", t) # {} /\ t \notin Open(LOG)
    BY <2>1 DEF Owed, Open
  <2>5. StatRight(LOG', tid_stat')
    BY <1>1, <2>2, <2>3, <2>4 DEF StatRight
  <2>6. OwnRight'
    <3>1. Open(LOG') \subseteq Tids /\ Owed(LOG') \subseteq Tids
      BY DEF Open, Owed
    <3>2. QED BY <1>1, <2>1, <2>2, <2>3, <2>4, <3>1 DEF OwnRight
  <2>7. Down'
    BY <2>1 DEF Down
  <2>8. StepRight'
    BY <1>1, <2>1 DEF StepRight
  <2>9. Numbers(LOG')
    BY <2>1, NumbersStay
  <2>10. QED BY <2>5, <2>6, <2>7, <2>8, <2>9 DEF StatusOK
<1>6. ASSUME Recover PROVE StatusOK'
  <2>1. /\ ~up /\ up' = TRUE /\ mode' = mode /\ tid_stat' = tid_stat /\ step' = NoStep
        /\ \A u \in Tids : tid_stat[u] = "not initialized"
    BY <1>1, <1>6 DEF Recover, Down
  <2>2. /\ mode = "undo" => Open(LOG') = {}
        /\ mode = "redo" => Owed(LOG') = {}
        /\ Numbers(LOG')
    <3>1. CASE mode = "undo"
      <4>1. GrowsBy("OUTCOME", Open(LOG))
        BY <1>6, <3>1, RecoverGrows DEF UndoRecovered
      <4>2. QED BY <3>1, <4>1, LinesThen, NumbersStay
    <3>2. CASE mode = "redo"
      <4>1. GrowsBy("END", Owed(LOG))
        BY <1>6, <3>2, RecoverGrows DEF RedoRecovered
      <4>2. QED BY <3>2, <4>1, LinesThen, NumbersStay
    <3>3. QED BY <1>1, <3>1, <3>2 DEF TypeOK
  <2>3. StatRight(LOG', tid_stat')
    BY <2>1 DEF StatRight
  <2>4. OwnRight'
    BY <2>1, <2>2 DEF OwnRight
  <2>5. Down' /\ StepRight'
    BY <1>1, <2>1 DEF Down, StepRight
  <2>6. QED BY <2>2, <2>3, <2>4, <2>5 DEF StatusOK
<1>7. ASSUME Checkpoint PROVE StatusOK'
  <2>1. /\ up' = up /\ mode' = mode /\ tid_stat' = tid_stat /\ step' = NoStep /\ up
    BY <1>7 DEF Checkpoint, Ready, volatile
  <2>2. /\ Open(LOG') = Open(LOG) /\ Owed(LOG') = Owed(LOG) /\ Starts(LOG') = Starts(LOG)
        /\ \A u : At(LOG', "OUTCOME", u) = At(LOG, "OUTCOME", u)
        /\ \A u : Mentions(LOG', u) = Mentions(LOG, u)
    BY <1>7, CheckpointMarks, MarkedSame, LogFacts DEF Known
  <2>3. StatRight(LOG', tid_stat') /\ Numbers(LOG')
    BY <1>1, <2>1, <2>2 DEF StatRight, Numbers
  <2>4. OwnRight'
    BY <1>1, <2>1, <2>2 DEF OwnRight
  <2>5. Down' /\ StepRight'
    BY <1>1, <2>1 DEF Down, StepRight
  <2>6. QED BY <2>3, <2>4, <2>5 DEF StatusOK
<1>8. ASSUME LOG' = LOG, \/ \E t \in Tids : End(t)
                         \/ WriteToDisk
                         \/ Flush /\ FlushNext
                         \/ UNCHANGED vars
      PROVE  StatusOK'
  <2>1. tid_stat' = tid_stat /\ up' = up /\ mode' = mode
    BY <1>8 DEF End, WriteToDisk, Flush, FlushNext, vars, volatile
  <2>2. StatRight(LOG', tid_stat') /\ Numbers(LOG')
    BY <1>1, <1>8, <2>1
  <2>3. OwnRight'
    BY <1>1, <1>8, <2>1 DEF OwnRight
  <2>4. Down'
    BY <1>1, <1>8, <2>1 DEF Down, End, WriteToDisk, Flush, Ready, vars, volatile
  <2>5. StepRight'
    <3>1. CASE step' = step
      BY <1>1, <1>8, <2>1, <3>1 DEF StepRight
    <3>2. CASE step' = NoStep
      BY <1>1, <3>2 DEF StepRight
    <3>3. ASSUME NEW t \in Tids, End(t) PROVE StepRight'
      BY <2>1, <3>3 DEF End, StepRight
    <3>4. ASSUME Flush, FlushNext PROVE StepRight'
      <4>1. step'.at = "flush" /\ step'.tid = step.tid /\ step.at = "flush"
        <5>1. step.at = "flush" /\ step = [at |-> "flush", tid |-> step.tid, next |-> step.next]
          BY <1>1, <3>4, StepTypes DEF Flush
        <5>2. QED BY <3>4, <5>1 DEF FlushNext
      <4>2. QED BY <1>1, <2>1, <4>1 DEF StepRight
    <3>5. QED BY <1>8, <3>1, <3>2, <3>3, <3>4 DEF WriteToDisk, vars, volatile
  <2>6. QED BY <2>2, <2>3, <2>4, <2>5 DEF StatusOK
<1>9. ASSUME Crash \/ Dies PROVE StatusOK'
  <2>1. /\ up' = FALSE /\ LOG' = LOG /\ tid_stat' = [u \in Tids |-> "not initialized"]
        /\ current_db' = NoAccounts /\ pending_writes' = <<>> /\ step' = NoStep
    BY <1>9 DEF Crash, Dies, Forgotten
  <2>2. \A u \in Tids : tid_stat'[u] = "not initialized"
    BY <2>1
  <2>3. StatRight(LOG', tid_stat') /\ OwnRight' /\ Numbers(LOG')
    BY <1>1, <2>1, <2>2 DEF StatRight, OwnRight
  <2>4. Down' /\ StepRight'
    BY <1>1, <2>1, <2>2 DEF Down, StepRight
  <2>5. QED BY <2>3, <2>4 DEF StatusOK
<1>10. ASSUME NEW t \in Tids, End(t) PROVE StatusOK'
  <2>1. LOG' = LOG
    BY <1>10 DEF End
  <2>2. QED BY <1>8, <1>10, <2>1, Zenon
<1>11. CASE WriteToDisk
  <2>1. LOG' = LOG
    BY <1>11 DEF WriteToDisk
  <2>2. QED BY <1>8, <1>11, <2>1, Zenon
<1>12. CASE UNCHANGED vars
  <2>1. LOG' = LOG
    BY <1>12 DEF vars
  <2>2. QED BY <1>8, <1>12, <2>1, Zenon
<1>13. CASE Flush
  <2>1. FlushNext => LOG' = LOG
    BY DEF FlushNext
  <2>2. FlushNext \/ LogEnd
    BY <1>13 DEF Flush
  <2>3. QED BY <1>5, <1>8, <1>13, <2>1, <2>2, Zenon
<1>14. QED BY <1>2, <1>3, <1>4, <1>6, <1>7, <1>9, <1>10, <1>11, <1>12, <1>13 DEF Next

-----------------------------------------------------------------------------
(* Earlier processes and the accounts of a transaction *)

\* An old transaction stays settled when lines are added.
LEMMA SettledGrows ==
  ASSUME Known, Settled, up, mode' = mode, NEW type, NEW T, GrowsBy(type, T),
         \A t \in Tids : tid_stat'[t] = "not initialized" /\ At(LOG', "START", t) # {} =>
                         tid_stat[t] = "not initialized" /\ At(LOG, "START", t) # {}
  PROVE  Settled'
<1>1. LogRight(LOG) /\ Adds(LOG, LOG', type, T) /\ Allowed(LOG, type, T) /\ Grown(LOG, LOG')
  BY LogFacts DEF Known, GrowsBy, Adds
<1>2. ASSUME mode = "undo" PROVE SettledIn(LOG', tid_stat')
  <2>1. ASSUME NEW t \in Tids, tid_stat'[t] = "not initialized", At(LOG', "START", t) # {}
        PROVE  \E i \in At(LOG', "OUTCOME", t) : OpenAfter(LOG', i)
    <3>1. PICK i \in At(LOG, "OUTCOME", t) : OpenAfter(LOG, i)
      BY <1>2, <2>1 DEF Settled, SettledIn
    <3>2. i \in 1..Len(LOG)
      BY DEF At
    <3>3. OpenAfter(LOG', i)
      BY <1>1, <3>1, <3>2, OpenAfterStays
    <3>4. i \in At(LOG', "OUTCOME", t)
      BY <1>1, <3>2, SameBefore
    <3>5. QED BY <3>3, <3>4
  <2>2. QED BY <2>1 DEF SettledIn
<1>3. QED BY <1>2 DEF Settled

\* Every step keeps the order of the processes.
LEMMA SettledStays ==
  ASSUME Known, Settled, [Next]_vars
  PROVE  Settled'
<1>1. mode' = mode /\ tid_stat \in [Tids -> Stats]
  BY DEF Next, Begin, Commit, End, LogUpdate, WriteToDisk, Flush, Checkpoint, Crash, Dies, Recover, vars,
         Known, TypeOK
<1>2. ASSUME NEW t \in Tids, Begin(t) PROVE Settled'
  <2>1. GrowsBy("START", {t}) /\ up /\ tid_stat' = [tid_stat EXCEPT ![t] = "COMMITING"]
    BY <1>2, BeginGrows DEF Begin, Ready
  <2>2. \A u : u # t => At(LOG', "START", u) = At(LOG, "START", u)
    BY <2>1, LinesThen
  <2>3. \A u \in Tids : tid_stat'[u] = IF u = t THEN "COMMITING" ELSE tid_stat[u]
    BY <1>1, <2>1
  <2>4. QED BY <1>1, <2>1, <2>2, <2>3, SettledGrows
<1>3. ASSUME NEW t \in Tids, Commit(t) PROVE Settled'
  <2>1. GrowsBy("OUTCOME", {t}) /\ up /\ tid_stat' = [tid_stat EXCEPT ![t] = "ENDING"]
    BY <1>3, CommitGrows DEF Commit, Ready
  <2>2. \A u : At(LOG', "START", u) = At(LOG, "START", u)
    BY <2>1, LinesThen
  <2>3. \A u \in Tids : tid_stat'[u] = IF u = t THEN "ENDING" ELSE tid_stat[u]
    BY <1>1, <2>1
  <2>4. QED BY <1>1, <2>1, <2>2, <2>3, SettledGrows
<1>4. ASSUME NEW t \in Tids, NEW a \in Accounts, NEW v \in Values, LogUpdate(t, a, v) PROVE Settled'
  <2>1. GrowsBy("UPDATE", {t}) /\ up /\ tid_stat' = tid_stat
    BY <1>4, UpdateGrows DEF LogUpdate, UpdateLogged, Ready
  <2>2. \A u : At(LOG', "START", u) = At(LOG, "START", u)
    BY <2>1, LinesThen
  <2>3. QED BY <1>1, <2>1, <2>2, SettledGrows
<1>5. ASSUME Flush, LogEnd PROVE Settled'
  <2>1. /\ step.tid \in Tids /\ GrowsBy("END", {step.tid}) /\ up
        /\ tid_stat' = [tid_stat EXCEPT ![step.tid] = "DONE"]
    BY <1>5, EndGrows DEF Flush, LogEnd
  <2>2. \A u : At(LOG', "START", u) = At(LOG, "START", u)
    BY <2>1, LinesThen
  <2>3. \A u \in Tids : tid_stat'[u] = IF u = step.tid THEN "DONE" ELSE tid_stat[u]
    BY <1>1, <2>1
  <2>4. QED BY <1>1, <2>1, <2>2, <2>3, SettledGrows
<1>6. ASSUME Checkpoint PROVE Settled'
  <2>1. tid_stat' = tid_stat /\ up' = up
    BY <1>6 DEF Checkpoint, volatile
  <2>2. /\ \A u : At(LOG', "START", u) = At(LOG, "START", u)
        /\ \A u : At(LOG', "OUTCOME", u) = At(LOG, "OUTCOME", u)
        /\ \A i : OpenAfter(LOG', i) <=> OpenAfter(LOG, i)
    BY <1>6, CheckpointMarks, MarkedSame, LogFacts DEF Known
  <2>3. SettledIn(LOG, tid_stat) => SettledIn(LOG', tid_stat')
    BY <2>1, <2>2 DEF SettledIn
  <2>4. QED BY <1>1, <2>1, <2>3 DEF Settled
<1>7. ASSUME Recover PROVE Settled'
  <2>1. ASSUME mode = "undo" PROVE SettledIn(LOG', tid_stat')
    <3>1. GrowsBy("OUTCOME", Open(LOG))
      BY <1>7, <2>1, RecoverGrows DEF UndoRecovered
    <3>2. Open(LOG') = {}
      BY <3>1, LinesThen
    <3>3. QED BY <3>2 DEF SettledIn, OpenAfter, Open
  <2>2. QED BY <1>1, <2>1 DEF Settled
<1>8. ASSUME LOG' = LOG, tid_stat' = tid_stat, up' = up PROVE Settled'
  <2>1. SettledIn(LOG, tid_stat) => SettledIn(LOG', tid_stat')
    BY <1>8
  <2>2. QED BY <1>1, <1>8, <2>1 DEF Settled
<1>9. ASSUME NEW t \in Tids, End(t) PROVE Settled'
  BY <1>8, <1>9 DEF End
<1>10. CASE WriteToDisk
  BY <1>8, <1>10 DEF WriteToDisk
<1>11. CASE UNCHANGED vars
  BY <1>8, <1>11 DEF vars, volatile
<1>12. CASE Flush
  BY <1>5, <1>8, <1>12 DEF Flush, FlushNext
<1>13. CASE Crash \/ Dies
  BY <1>13 DEF Crash, Dies, Settled
<1>14. QED BY <1>2, <1>3, <1>4, <1>6, <1>7, <1>9, <1>10, <1>11, <1>12, <1>13 DEF Next

\* The updates of a transaction, when lines of another type are added
LEMMA AloneGrows ==
  ASSUME Known, Alone, NEW type, NEW T, GrowsBy(type, T), type # "UPDATE", clashed' = clashed,
         \A u \in Unsettled' : u \in Unsettled \/ At(LOG, "UPDATE", u) = {}
  PROVE  Alone'
<1>1. \A u : At(LOG', "UPDATE", u) = At(LOG, "UPDATE", u)
  BY LinesThen
<1>2. \A u : \A i \in At(LOG, "UPDATE", u) : LOG'[i] = LOG[i]
  BY DEF GrowsBy, Adds, Grown, At
<1>3. AloneIn(LOG, Unsettled, Kept)
  BY DEF Alone
<1>4. AloneIn(LOG', Unsettled', Kept')
  BY <1>1, <1>2, <1>3 DEF AloneIn, Kept
<1>5. QED BY <1>4 DEF Alone

\* An account that another transaction is at work on is kept no longer.
LEMMA AloneUpdates ==
  ASSUME Known, Alone, NEW t \in Tids, NEW a \in Accounts, NEW v \in Values, LogUpdate(t, a, v)
  PROVE  Alone'
<1>1. /\ GrowsBy("UPDATE", {t}) /\ Len(LOG') = Len(LOG)+1 /\ Len(LOG) \in Nat
      /\ LOG'[Len(LOG')] = UPDATE(t, a, current_db[a], v)
      /\ clashed' = clashed \union (IF UsedAlone(t, a) THEN {} ELSE {a})
      /\ tid_stat' = tid_stat /\ mode' = mode
  BY UpdateGrows, LogFacts DEF LogUpdate, UpdateLogged, Known
<1>2. LOG'[Len(LOG')].variable = a
  BY <1>1 DEF UPDATE
<1>3. Unsettled' = Unsettled
  BY <1>1 DEF Unsettled
<1>4. /\ \A u : u # t => At(LOG', "UPDATE", u) = At(LOG, "UPDATE", u)
      /\ \A i \in At(LOG', "UPDATE", t) : i \in At(LOG, "UPDATE", t) \/ i = Len(LOG')
  <2>1. \A u : u # t => At(LOG', "UPDATE", u) = At(LOG, "UPDATE", u)
    BY <1>1, LinesThen
  <2>2. \A i \in 1..Len(LOG) : LOG'[i] = LOG[i]
    BY <1>1 DEF GrowsBy, Adds, Grown
  <2>3. \A i \in 1..Len(LOG') : i \in 1..Len(LOG) \/ i = Len(LOG')
    BY <1>1
  <2>4. \A i \in At(LOG', "UPDATE", t) : i \in At(LOG, "UPDATE", t) \/ i = Len(LOG')
    BY <2>2, <2>3 DEF At
  <2>5. QED BY <2>1, <2>4
<1>5. \A u : \A i \in At(LOG, "UPDATE", u) : LOG'[i] = LOG[i]
  BY <1>1 DEF GrowsBy, Adds, Grown, At
<1>6. /\ Kept' \subseteq Kept
      /\ a \in Kept' => \A u \in Unsettled : u # t => \A i \in At(LOG, "UPDATE", u) : LOG[i].variable # a
  BY <1>1, UpdatesOfAre DEF UsedAlone, Known, Kept
<1>7. AloneIn(LOG, Unsettled, Kept)
  BY DEF Alone
<1>8. AloneIn(LOG', Unsettled, Kept')
  BY <1>2, <1>4, <1>5, <1>6, <1>7 DEF AloneIn
<1>9. QED BY <1>3, <1>8 DEF Alone

\* Every step keeps them apart.
LEMMA AloneStays ==
  ASSUME Known, Alone, [Next]_vars
  PROVE  Alone'
<1>1. mode' = mode /\ tid_stat \in [Tids -> Stats] /\ Down
  BY DEF Next, Begin, Commit, End, LogUpdate, WriteToDisk, Flush, Checkpoint, Crash, Dies, Recover, vars,
         Known, TypeOK, StatusOK
<1>2. ASSUME NEW t \in Tids, Begin(t) PROVE Alone'
  <2>1. GrowsBy("START", {t}) /\ tid_stat' = [tid_stat EXCEPT ![t] = "COMMITING"]
    BY <1>2, BeginGrows DEF Begin
  <2>2. At(LOG, "UPDATE", t) = {}
    BY <2>1 DEF GrowsBy, Allowed, At, Mentions
  <2>3. \A u \in Unsettled' : u \in Unsettled \/ u = t
    BY <1>1, <2>1 DEF Unsettled
  <2>4. QED BY <1>2, <2>1, <2>2, <2>3, AloneGrows DEF Begin, history
<1>3. ASSUME NEW t \in Tids, Commit(t) PROVE Alone'
  <2>1. GrowsBy("OUTCOME", {t}) /\ tid_stat' = [tid_stat EXCEPT ![t] = "ENDING"] /\ tid_stat[t] = "COMMITING"
    BY <1>3, CommitGrows DEF Commit
  <2>2. \A u \in Unsettled' : u \in Unsettled
    BY <1>1, <2>1 DEF Unsettled
  <2>3. QED BY <1>3, <2>1, <2>2, AloneGrows DEF Commit
<1>4. ASSUME Flush, LogEnd PROVE Alone'
  <2>1. GrowsBy("END", {step.tid}) /\ tid_stat' = [tid_stat EXCEPT ![step.tid] = "DONE"]
    BY <1>4, EndGrows DEF Flush, LogEnd
  <2>2. \A u \in Unsettled' : u \in Unsettled
    BY <1>1, <2>1 DEF Unsettled
  <2>3. QED BY <1>4, <2>1, <2>2, AloneGrows DEF Flush, history
<1>5. ASSUME Checkpoint PROVE Alone'
  <2>1. Unsettled' = Unsettled /\ Kept' = Kept
    BY <1>5 DEF Checkpoint, volatile, history, Unsettled, Kept
  <2>2. \A u : At(LOG', "UPDATE", u) = At(LOG, "UPDATE", u)
    BY <1>5, CheckpointMarks, MarkedSame, LogFacts DEF Known
  <2>3. \A u : \A i \in At(LOG, "UPDATE", u) : LOG'[i] = LOG[i]
    BY <1>5, CheckpointMarks DEF Marked, Grown, At
  <2>4. AloneIn(LOG, Unsettled, Kept) => AloneIn(LOG', Unsettled', Kept')
    BY <2>1, <2>2, <2>3 DEF AloneIn
  <2>5. QED BY <2>4 DEF Alone
<1>6. ASSUME Unsettled' = {} PROVE Alone'
  BY <1>6 DEF Alone, AloneIn
<1>7. CASE Recover
  BY <1>1, <1>6, <1>7 DEF Recover, Down, Unsettled
<1>8. CASE Crash \/ Dies
  BY <1>6, <1>8 DEF Crash, Dies, Forgotten, Unsettled
<1>9. ASSUME LOG' = LOG, tid_stat' = tid_stat, clashed' = clashed PROVE Alone'
  <2>1. Unsettled' = Unsettled /\ Kept' = Kept
    BY <1>1, <1>9 DEF Unsettled, Kept
  <2>2. AloneIn(LOG, Unsettled, Kept) => AloneIn(LOG', Unsettled', Kept')
    BY <1>9, <2>1
  <2>3. QED BY <2>2 DEF Alone
<1>10. ASSUME NEW t \in Tids, End(t) PROVE Alone'
  BY <1>9, <1>10 DEF End, history
<1>11. CASE WriteToDisk
  BY <1>9, <1>11 DEF WriteToDisk, history
<1>12. CASE UNCHANGED vars
  BY <1>9, <1>12 DEF vars, volatile, history
<1>13. CASE Flush
  BY <1>4, <1>9, <1>13 DEF Flush, FlushNext, history
<1>14. QED BY <1>2, <1>3, <1>5, <1>7, <1>8, <1>10, <1>11, <1>12, <1>13, AloneUpdates DEF Next

-----------------------------------------------------------------------------
(* The data in undo mode *)

\* The database that a crash would leave
Db == IF up THEN on_disk_db ELSE DB

\* The updates of an account that recovery would undo, and those after the one at k
Of(log, a) == {i \in Updates(log, Open(log)) : log[i].variable = a}
Later(log, k) == {i \in Of(log, log[k].variable) : k < i}

\* Undoing them leaves com in the accounts of K.
Leaves(log, db, com, K) == \A a \in K :
  com[a] = IF Of(log, a) = {} THEN db[a] ELSE log[Min(Of(log, a))].undo
\* The last update of an account of K is in the database, but for the one at n.
LastWritten(log, db, n, K) == \A k \in Updates(log, Open(log)) :
  log[k].variable \in K /\ Later(log, k) = {} /\ k # n => db[log[k].variable] = log[k].redo
\* An account that was updated, but for the update at n, is there.
Written(log, db, n) == \A k \in Updates(log, Open(log)) : k # n => db[log[k].variable] \in Values
\* Only the first may have found no account.
Overwrites(log) == \A k \in Updates(log, Open(log)) : \A i \in Later(log, k) : log[i].undo # Absent

\* The last line may be of an update that is not written yet.
InFlight == IF up => step.at = "write" THEN Len(LOG) ELSE 0

Shown(db, disk) == \A a \in Accounts : db[a] \in {Absent, disk[a]}
UndoData == mode = "undo" /\ ~undumped =>
  /\ Leaves(LOG, Db, committed, Kept) /\ LastWritten(LOG, Db, InFlight, Kept)
  /\ Overwrites(LOG) /\ Written(LOG, Db, InFlight) /\ pending_writes = <<>>
  /\ up => Shown(current_db, on_disk_db) /\ Written(LOG, current_db, InFlight)

\* Updates of an account, and the last of them
LEMMA OfFacts ==
  ASSUME NEW log, LinesRight(log), NEW a
  PROVE  /\ Of(log, a) \subseteq 1..Len(log) /\ Of(log, a) \subseteq Nat /\ Of(log, a) \subseteq Updates(log, Open(log))
         /\ \A i \in Of(log, a) : /\ log[i].variable = a /\ log[i].redo \in Values /\ log[i].tid \in Open(log)
                                  /\ log[i].type = "UPDATE" /\ i \in At(log, "UPDATE", log[i].tid)
         /\ Of(log, a) # {} => \E k \in Of(log, a) :
              Later(log, k) = {} /\ k = Max(Of(log, a)) /\ \A i \in Of(log, a) : i <= k
<1>1. Of(log, a) \subseteq 1..Len(log) /\ Len(log) \in Nat
  BY DEF Of, Updates, LinesRight
<1>2. \A i \in Of(log, a) : /\ log[i].variable = a /\ log[i].redo \in Values /\ log[i].tid \in Open(log)
                            /\ log[i].type = "UPDATE" /\ i \in At(log, "UPDATE", log[i].tid)
                            /\ i \in Updates(log, Open(log))
  BY DEF Of, Updates, LinesRight, LineRight, At
<1>3. ASSUME Of(log, a) # {}
      PROVE  \E k \in Of(log, a) : Later(log, k) = {} /\ k = Max(Of(log, a)) /\ \A i \in Of(log, a) : i <= k
  <2>1. Max(Of(log, a)) \in Of(log, a) /\ \A i \in Of(log, a) : i <= Max(Of(log, a))
    BY <1>1, <1>3, MaxGives
  <2> DEFINE k == Max(Of(log, a))
  <2>2. Later(log, k) = {}
    <3>1. log[k].variable = a /\ k \in Nat /\ \A i \in Of(log, a) : i \in Nat
      BY <1>1, <1>2, <2>1
    <3> HIDE DEF k
    <3>2. \A i \in Of(log, a) : ~(k < i)
      BY <2>1, <3>1 DEF k
    <3>3. QED BY <3>1, <3>2 DEF Later
  <2>3. QED BY <2>1, <2>2
<1>4. QED BY <1>1, <1>2, <1>3

\* Leaves is what UndoneFrom computes.
LEMMA UndoneIsLeft ==
  ASSUME NEW log, LinesRight(log), NEW db, NEW com, NEW K \in SUBSET Accounts
  PROVE  (\A a \in K : UndoneFrom(db, log, 1)[a] = com[a]) <=> Leaves(log, db, com, K)
<1> DEFINE of(a) == {i \in Updates(log, Open(log)) : 1 <= i /\ log[i].variable = a}
           F(a) == IF Of(log, a) = {} THEN db[a] ELSE log[Min(Of(log, a))].undo
<1>1. UndoneFrom(db, log, 1) = [a \in Accounts |-> IF of(a) = {} THEN db[a] ELSE log[Min(of(a))].undo]
  BY Zenon DEF UndoneFrom
<1>2. \A a : of(a) = Of(log, a)
  BY DEF Of, Updates, LinesRight
<1> HIDE DEF of
<1>3. UndoneFrom(db, log, 1) = [a \in Accounts |-> F(a)]
  BY <1>1, <1>2, Zenon
<1>4. Leaves(log, db, com, K) <=> \A a \in K : com[a] = F(a)
  BY Zenon DEF Leaves
<1> HIDE DEF F
<1>5. QED BY <1>3, <1>4

\* Logs with the same updates to undo
SameToUndo(log, new) ==
  /\ Updates(new, Open(new)) = Updates(log, Open(log))
  /\ \A i \in Updates(log, Open(log)) : new[i] = log[i]

\* The data stay right for another log with the same updates to undo.
LEMMA SameUndo ==
  ASSUME NEW log, NEW new, SameToUndo(log, new), LinesRight(log)
  PROVE  /\ \A db, com, K : Leaves(log, db, com, K) => Leaves(new, db, com, K)
         /\ \A db, n, K : LastWritten(log, db, n, K) => LastWritten(new, db, n, K)
         /\ \A db, n : Written(log, db, n) => Written(new, db, n)
         /\ Overwrites(log) => Overwrites(new)
<1>1. \A a : Of(new, a) = Of(log, a)
  BY DEF Of, SameToUndo
<1>2. \A k \in Updates(log, Open(log)) : Later(new, k) = Later(log, k)
  BY <1>1 DEF Later, SameToUndo
<1>3. ASSUME NEW db, NEW com, NEW K, Leaves(log, db, com, K) PROVE Leaves(new, db, com, K)
  <2>1. ASSUME NEW a \in K, Of(log, a) # {} PROVE new[Min(Of(log, a))] = log[Min(Of(log, a))]
    BY <2>1, OfFacts, MinGives DEF SameToUndo
  <2>2. QED BY <1>1, <1>3, <2>1, Zenon DEF Leaves
<1>4. ASSUME NEW db, NEW n, NEW K, LastWritten(log, db, n, K) PROVE LastWritten(new, db, n, K)
  BY <1>2, <1>4 DEF LastWritten, SameToUndo
<1>5. ASSUME Overwrites(log) PROVE Overwrites(new)
  <2>1. \A k \in Updates(log, Open(log)) : Later(log, k) \subseteq Updates(log, Open(log))
    BY DEF Later, Of
  <2>2. QED BY <1>2, <1>5, <2>1 DEF Overwrites, SameToUndo
<1>6. ASSUME NEW db, NEW n, Written(log, db, n) PROVE Written(new, db, n)
  BY <1>6 DEF Written, SameToUndo
<1>7. QED BY <1>3, <1>4, <1>5, <1>6

\* A new update, at the end of the log
UpdateAdded(log, new, t, a, old, v) ==
  /\ LinesRight(new) /\ Len(new) = Len(log)+1 /\ \A i \in 1..Len(log) : new[i] = log[i]
  /\ new[Len(new)].type = "UPDATE" /\ new[Len(new)].tid = t /\ new[Len(new)].variable = a
  /\ new[Len(new)].undo = old /\ new[Len(new)].redo = v
  /\ Open(new) = Open(log) /\ t \in Open(log)

\* It is the one that is not written yet.
LEMMA AddedWritten ==
  ASSUME NEW log, LinesRight(log), NEW new, NEW t, NEW a, NEW old, NEW v,
         UpdateAdded(log, new, t, a, old, v), NEW db, Written(log, db, 0)
  PROVE  Written(new, db, Len(new))
<1>1. ASSUME NEW k \in Updates(new, Open(new)), k # Len(new) PROVE db[new[k].variable] \in Values
  <2>1. k \in 1..Len(log) /\ k # 0
    BY <1>1 DEF UpdateAdded, Updates, LinesRight
  <2>2. new[k] = log[k] /\ Open(new) = Open(log)
    BY <2>1 DEF UpdateAdded
  <2>3. k \in Updates(log, Open(log))
    BY <2>1, <2>2 DEF Updates
  <2>4. QED BY <2>1, <2>2, <2>3 DEF Written
<1>2. QED BY <1>1 DEF Written

\* An update is logged: its undo value is what the database has, in an account of L.
LEMMA AddedUndo ==
  ASSUME NEW log, LinesRight(log), NEW new, NEW t, NEW a, NEW old, NEW v,
         UpdateAdded(log, new, t, a, old, v), NEW db, NEW com, NEW K, NEW L \in SUBSET K,
         Leaves(log, db, com, K), LastWritten(log, db, 0, K), Overwrites(log),
         a \in L => old = db[a],
         Of(log, a) # {} => old # Absent
  PROVE  Leaves(new, db, com, L) /\ LastWritten(new, db, Len(new), L) /\ Overwrites(new)
<1> DEFINE n == Len(log)+1
<1>1. /\ LinesRight(new) /\ Len(new) = n /\ Len(log) \in Nat
      /\ \A i \in 1..Len(log) : new[i] = log[i]
      /\ new[n].type = "UPDATE" /\ new[n].tid = t /\ new[n].variable = a
      /\ new[n].undo = old /\ new[n].redo = v
      /\ Open(new) = Open(log) /\ t \in Open(log)
  BY DEF UpdateAdded, LinesRight
<1>2. /\ \A i : i \in 1..Len(new) <=> i \in 1..Len(log) \/ i = n
      /\ \A i \in 1..Len(log) : i < n /\ i \in Nat /\ i # n
      /\ n \in Nat /\ n # 0
  BY <1>1
<1> HIDE DEF n
<1>3. /\ Updates(new, Open(new)) = Updates(log, Open(log)) \union {n}
      /\ Updates(log, Open(log)) \subseteq 1..Len(log)
  BY <1>1, <1>2 DEF Updates
<1>4. \A b : Of(new, b) = IF b = a THEN Of(log, b) \union {n} ELSE Of(log, b)
  <2>1. ASSUME NEW b, NEW i PROVE i \in Of(new, b) <=> i \in Of(log, b) \/ (b = a /\ i = n)
    BY <1>1, <1>2, <1>3 DEF Of
  <2>2. QED BY <2>1
<1>5. \A b : Of(log, b) \subseteq 1..Len(log) /\ Of(log, b) \subseteq Nat
  BY OfFacts
<1>6. Leaves(new, db, com, L)
  <2>1. ASSUME NEW b \in L
        PROVE  com[b] = IF Of(new, b) = {} THEN db[b] ELSE new[Min(Of(new, b))].undo
    <3>1. com[b] = IF Of(log, b) = {} THEN db[b] ELSE log[Min(Of(log, b))].undo
      BY DEF Leaves
    <3>2. ASSUME Of(log, b) # {} PROVE Of(new, b) # {} /\ Min(Of(new, b)) = Min(Of(log, b))
                                       /\ new[Min(Of(log, b))] = log[Min(Of(log, b))]
      <4>1. Min(Of(log, b)) \in Of(log, b) /\ \A y \in Of(log, b) : Min(Of(log, b)) <= y
        BY <1>5, <3>2, MinGives
      <4>2. Of(new, b) \subseteq Nat /\ Of(new, b) # {}
        BY <1>2, <1>4, <1>5, <3>2
      <4>3. Min(Of(new, b)) \in Of(new, b) /\ \A y \in Of(new, b) : Min(Of(new, b)) <= y
        BY <4>2, MinGives
      <4>4. Of(new, b) = Of(log, b) \/ Of(new, b) = Of(log, b) \union {n}
        BY <1>4
      <4>5. Min(Of(new, b)) = Min(Of(log, b))
        BY <1>2, <1>5, <4>1, <4>2, <4>3, <4>4
      <4>6. QED BY <1>1, <1>5, <4>1, <4>2, <4>5
    <3>3. CASE Of(log, b) # {}
      BY <3>1, <3>2, <3>3
    <3>4. CASE Of(log, b) = {} /\ b # a
      BY <1>4, <3>1, <3>4
    <3>5. CASE Of(log, b) = {} /\ b = a
      <4>1. Of(new, b) = {n}
        BY <1>4, <3>5
      <4>2. Min({n}) = n
        <5>1. {n} \subseteq Nat /\ {n} # {}
          BY <1>2
        <5>2. Min({n}) \in {n}
          BY <5>1, MinGives, Zenon
        <5>3. QED BY <5>2
      <4>3. QED BY <1>1, <3>1, <3>5, <4>1, <4>2
    <3>6. QED BY <3>3, <3>4, <3>5
  <2>2. QED BY <2>1 DEF Leaves
<1>7. \A k \in Updates(log, Open(log)) :
        Later(new, k) = IF log[k].variable = a THEN Later(log, k) \union {n} ELSE Later(log, k)
  <2>1. ASSUME NEW k \in Updates(log, Open(log)), NEW i
        PROVE  i \in Later(new, k) <=> i \in Later(log, k) \/ (log[k].variable = a /\ i = n)
    <3>1. new[k] = log[k] /\ k < n
      BY <1>1, <1>2, <1>3
    <3>2. QED BY <1>4, <3>1 DEF Later
  <2>2. QED BY <2>1
<1>8. LastWritten(new, db, Len(new), L)
  <2>1. ASSUME NEW k \in Updates(new, Open(new)), new[k].variable \in L, Later(new, k) = {}, k # Len(new)
        PROVE  db[new[k].variable] = new[k].redo
    <3>1. k \in Updates(log, Open(log)) /\ k # 0 /\ new[k] = log[k]
      BY <1>1, <1>2, <1>3, <2>1
    <3>2. Later(log, k) = {}
      BY <1>7, <2>1, <3>1
    <3>3. QED BY <2>1, <3>1, <3>2 DEF LastWritten
  <2>2. QED BY <2>1 DEF LastWritten
<1>9. Overwrites(new)
  <2>1. ASSUME NEW k \in Updates(new, Open(new)), NEW i \in Later(new, k) PROVE new[i].undo # Absent
    <3>1. i \in Updates(new, Open(new)) /\ k < i
      BY DEF Later, Of
    <3>2. k # n
      BY <1>2, <1>3, <3>1
    <3>3. k \in Updates(log, Open(log))
      BY <1>3, <3>2
    <3>4. CASE i \in Later(log, k)
      <4>1. i \in 1..Len(log)
        BY <1>3, <3>4 DEF Later, Of
      <4>2. QED BY <1>1, <3>3, <3>4, <4>1 DEF Overwrites
    <3>5. CASE i = n /\ log[k].variable = a
      <4>1. Of(log, a) # {}
        BY <3>3, <3>5 DEF Of
      <4>2. QED BY <1>1, <3>5, <4>1
    <3>6. QED BY <1>7, <3>3, <3>4, <3>5
  <2>2. QED BY <2>1 DEF Overwrites
<1>10. QED BY <1>6, <1>8, <1>9

\* It is written.
LEMMA WrittenThere ==
  ASSUME NEW log, LinesRight(log), NEW db \in Stored, Written(log, db, Len(log)),
         NEW a \in Accounts, log[Len(log)].variable = a,
         NEW v \in Values, NEW new, new = [db EXCEPT ![a] = v]
  PROVE  Written(log, new, 0)
<1>1. \A b \in Accounts : new[b] = IF b = a THEN v ELSE db[b]
  BY DEF Stored
<1>2. \A k \in Updates(log, Open(log)) : log[k].variable \in Accounts
  BY DEF Updates, LinesRight, LineRight
<1>3. QED BY <1>1, <1>2 DEF Written

LEMMA WrittenUndo ==
  ASSUME NEW log, LinesRight(log), NEW db \in Stored, NEW com, NEW K \in SUBSET Accounts,
         Leaves(log, db, com, K), LastWritten(log, db, Len(log), K),
         Len(log) \in Updates(log, Open(log)),
         NEW a \in Accounts, log[Len(log)].variable = a, NEW new, new = [db EXCEPT ![a] = log[Len(log)].redo]
  PROVE  Leaves(log, new, com, K) /\ LastWritten(log, new, 0, K)
<1> DEFINE n == Len(log)
<1>1. /\ \A b \in Accounts : new[b] = IF b = a THEN log[n].redo ELSE db[b]
      /\ Len(log) \in Nat
  BY DEF Stored, LinesRight
<1>2. n \in Of(log, a)
  BY DEF Of
<1>3. Leaves(log, new, com, K)
  BY <1>1, <1>2 DEF Leaves
<1>4. LastWritten(log, new, 0, K)
  <2>1. ASSUME NEW k \in Updates(log, Open(log)), log[k].variable \in K, Later(log, k) = {}
        PROVE  new[log[k].variable] = log[k].redo
    <3>1. k \in 1..Len(log) /\ log[k].variable \in Accounts
      BY DEF Updates, LinesRight, LineRight
    <3>2. CASE log[k].variable = a
      <4>1. ~(k < n)
        BY <1>2, <2>1, <3>2 DEF Later
      <4>2. k = n
        BY <1>1, <3>1, <4>1
      <4>3. QED BY <1>1, <3>2, <4>2
    <3>3. CASE log[k].variable # a
      <4>1. k # Len(log)
        BY <3>3
      <4>2. db[log[k].variable] = log[k].redo
        BY <2>1, <4>1 DEF LastWritten
      <4>3. QED BY <1>1, <3>1, <3>3, <4>2
    <3>4. QED BY <3>2, <3>3
  <2>2. QED BY <2>1 DEF LastWritten
<1>5. QED BY <1>3, <1>4

\* A transaction commits, and its updates are no longer there to be undone.
CommitAdded(log, new, t) ==
  /\ LinesRight(new) /\ \A i \in 1..Len(log) : new[i] = log[i]
  /\ Updates(new, Open(new)) = Updates(log, Open(log)) \ At(log, "UPDATE", t)
  /\ t \in Open(log)

\* What it committed is in the database.
LEMMA CommittedUndo ==
  ASSUME NEW log, LinesRight(log), NEW new, NEW t, CommitAdded(log, new, t), NEW K \in SUBSET Accounts, AloneIn(log, Open(log), K),
         NEW db, NEW com \in Stored,
         Leaves(log, db, com, K), LastWritten(log, db, 0, K), Overwrites(log)
  PROVE  /\ Leaves(new, db, Replayed(com, log, At(log, "UPDATE", t)), K)
         /\ LastWritten(new, db, 0, K) /\ Overwrites(new)
<1> DEFINE M == At(log, "UPDATE", t)
           Mine(a) == {i \in M : log[i].variable = a}
           U == Updates(log, Open(log))
           new_com == Replayed(com, log, M)
<1>1. /\ \A i \in 1..Len(log) : new[i] = log[i]
      /\ Updates(new, Open(new)) = U \ M /\ t \in Open(log) /\ U \subseteq 1..Len(log) /\ M \subseteq U
      /\ Len(log) \in Nat
  BY DEF CommitAdded, Updates, At, LinesRight
<1>2. \A i \in U : i \in M <=> log[i].tid = t
  BY DEF At, Updates
<1>3. ASSUME NEW a \in K, Mine(a) # {} PROVE Of(log, a) = Mine(a) /\ Of(new, a) = {}
  <2>1. ASSUME NEW i \in Of(log, a) PROVE i \in Mine(a)
    <3>1. log[i].variable = a /\ log[i].tid \in Open(log) /\ i \in At(log, "UPDATE", log[i].tid) /\ i \in U
      BY OfFacts
    <3>2. PICK j \in M : log[j].variable = a
      BY <1>3
    <3>3. log[i].tid = t
      BY <1>1, <3>1, <3>2 DEF AloneIn
    <3>4. QED BY <1>2, <3>1, <3>3
  <2>2. \A i \in Mine(a) : i \in Of(log, a)
    BY <1>1 DEF Of
  <2>3. Of(log, a) = Mine(a)
    BY <2>1, <2>2
  <2>4. Of(new, a) = {}
    BY <1>1, <2>3 DEF Of
  <2>5. QED BY <2>3, <2>4
<1>4. ASSUME NEW a, Mine(a) = {} PROVE Of(new, a) = Of(log, a)
  BY <1>1, <1>4 DEF Of
<1>5. \A a \in Accounts : new_com[a] = IF Mine(a) = {} THEN com[a] ELSE log[Max(Mine(a))].redo
  BY DEF Replayed
<1> HIDE DEF new_com, Mine, U
<1>6. Leaves(new, db, new_com, K)
  <2>1. ASSUME NEW a \in K
        PROVE  new_com[a] = IF Of(new, a) = {} THEN db[a] ELSE new[Min(Of(new, a))].undo
    <3>1. CASE Mine(a) = {}
      <4>1. new_com[a] = IF Of(log, a) = {} THEN db[a] ELSE log[Min(Of(log, a))].undo
        BY <1>5, <3>1 DEF Leaves
      <4>2. Of(log, a) # {} => new[Min(Of(log, a))] = log[Min(Of(log, a))]
        BY <1>1, OfFacts, MinGives
      <4>3. QED BY <1>4, <3>1, <4>1, <4>2
    <3>2. CASE Mine(a) # {}
      <4>1. Of(log, a) = Mine(a) /\ Of(new, a) = {}
        BY <1>3, <3>2
      <4>2. PICK k \in Of(log, a) : Later(log, k) = {} /\ k = Max(Of(log, a))
        BY <3>2, <4>1, OfFacts
      <4>3. k \in Updates(log, Open(log)) /\ k # 0 /\ log[k].variable = a
        BY <1>1, OfFacts DEF U
      <4>4. db[a] = log[k].redo
        BY <4>2, <4>3 DEF LastWritten
      <4>5. QED BY <1>5, <3>2, <4>1, <4>2, <4>4
    <3>3. QED BY <3>1, <3>2
  <2>2. QED BY <2>1 DEF Leaves
<1>7. ASSUME NEW k \in Updates(new, Open(new)), log[k].variable \in K
      PROVE  k \in U /\ k \in 1..Len(log) /\ new[k] = log[k] /\ Later(new, k) = Later(log, k)
  <2>1. k \in U /\ k \in 1..Len(log) /\ new[k] = log[k] /\ k \notin M
    BY <1>1
  <2>2. Mine(log[k].variable) = {}
    <3>1. SUFFICES ASSUME Mine(log[k].variable) # {} PROVE FALSE
      OBVIOUS
    <3>2. Of(log, log[k].variable) = Mine(log[k].variable)
      BY <1>3, <1>7, <3>1
    <3>3. k \in Of(log, log[k].variable)
      BY <2>1 DEF Of, U
    <3>4. QED BY <2>1, <3>2, <3>3 DEF Mine
  <2>3. QED BY <1>4, <2>1, <2>2 DEF Later
<1>8. LastWritten(new, db, 0, K)
  <2>1. \A k \in Updates(new, Open(new)) : new[k] = log[k]
    BY <1>1
  <2>2. QED BY <1>7, <2>1 DEF LastWritten, U
<1>9. Overwrites(new)
  <2>1. ASSUME NEW k \in Updates(new, Open(new)), NEW i \in Later(new, k) PROVE new[i].undo # Absent
    <3>1. k \in U /\ i \in Later(log, k)
      BY <1>1 DEF Later, Of, U
    <3>2. i \in 1..Len(log)
      BY <1>1, <3>1 DEF Later, Of, U
    <3>3. QED BY <1>1, <3>1, <3>2 DEF Overwrites, U
  <2>2. QED BY <2>1 DEF Overwrites
<1>10. QED BY <1>6, <1>8, <1>9 DEF new_com

Control == Known /\ Settled /\ Alone

\* Lines of the log that leave the updates to undo as they are
LEMMA SameThen ==
  ASSUME Known, \/ LOG' = LOG
                \/ \E type, T : GrowsBy(type, T) /\ type \in {"START", "END"}
                \/ Checkpoint
  PROVE  SameToUndo(LOG, LOG')
<1>1. Len(LOG) \in Nat /\ LinesRight(LOG)
  BY LogFacts DEF Known
<1>2. CASE LOG' = LOG
  BY <1>2 DEF SameToUndo
<1>3. ASSUME NEW type, NEW T, GrowsBy(type, T), type \in {"START", "END"} PROVE SameToUndo(LOG, LOG')
  <2>1. /\ \A t : At(LOG', "UPDATE", t) = At(LOG, "UPDATE", t)
        /\ Open(LOG') = IF type = "START" THEN Open(LOG) \union T ELSE Open(LOG)
    BY <1>3, LinesThen
  <2>2. type = "START" => \A t \in T : At(LOG, "UPDATE", t) = {}
    BY <1>3 DEF GrowsBy, Allowed, At, Mentions
  <2>3. \A log, S : \A i : i \in Updates(log, S) <=> \E t \in S : i \in At(log, "UPDATE", t)
    BY DEF Updates, At
  <2>4. Updates(LOG', Open(LOG')) = Updates(LOG, Open(LOG))
    <3>1. ASSUME NEW i PROVE i \in Updates(LOG', Open(LOG')) <=> i \in Updates(LOG, Open(LOG))
      BY <1>3, <2>1, <2>2, <2>3
    <3>2. QED BY <3>1
  <2>5. \A i \in 1..Len(LOG) : LOG'[i] = LOG[i]
    BY <1>3 DEF GrowsBy, Adds, Grown
  <2>6. QED BY <2>4, <2>5 DEF SameToUndo, Updates
<1>4. ASSUME Checkpoint PROVE SameToUndo(LOG, LOG')
  <2>1. /\ \A t : At(LOG', "UPDATE", t) = At(LOG, "UPDATE", t)
        /\ Open(LOG') = Open(LOG)
    BY <1>1, <1>4, CheckpointMarks, MarkedSame
  <2>2. \A log, S : \A i : i \in Updates(log, S) <=> \E t \in S : i \in At(log, "UPDATE", t)
    BY DEF Updates, At
  <2>3. Updates(LOG', Open(LOG')) = Updates(LOG, Open(LOG))
    <3>1. ASSUME NEW i PROVE i \in Updates(LOG', Open(LOG')) <=> i \in Updates(LOG, Open(LOG))
      BY <2>1, <2>2
    <3>2. QED BY <3>1
  <2>4. \A i \in 1..Len(LOG) : LOG'[i] = LOG[i]
    BY <1>4, CheckpointMarks DEF Marked, Grown
  <2>5. QED BY <2>3, <2>4 DEF SameToUndo, Updates
<1>5. QED BY <1>2, <1>3, <1>4

\* Steps that change neither the updates to undo nor a database
LEMMA UndoKept ==
  ASSUME Known, UndoData, SameToUndo(LOG, LOG'), mode' = mode, undumped' = undumped, up' = up, up,
         step.at # "write", clashed' = clashed,
         committed' = committed, current_db' = current_db, on_disk_db' = on_disk_db,
         mode = "undo" => pending_writes' = pending_writes
  PROVE  UndoData'
<1> SUFFICES ASSUME mode = "undo", ~undumped
             PROVE  UndoData'
  BY DEF UndoData
<1>1. /\ Leaves(LOG, Db, committed, Kept) /\ LastWritten(LOG, Db, InFlight, Kept)
      /\ Overwrites(LOG) /\ Written(LOG, Db, InFlight) /\ pending_writes = <<>>
      /\ Shown(current_db, on_disk_db) /\ Written(LOG, current_db, InFlight)
  BY DEF UndoData
<1>2. InFlight = 0 /\ Db' = Db /\ Db = on_disk_db /\ Kept' = Kept
  BY DEF InFlight, Db, Kept
<1>3. LinesRight(LOG)
  BY LogFacts DEF Known
<1>4. /\ Leaves(LOG', Db, committed, Kept) /\ LastWritten(LOG', Db, 0, Kept) /\ Overwrites(LOG')
      /\ Written(LOG', Db, 0) /\ Written(LOG', current_db, 0)
  BY <1>1, <1>2, <1>3, SameUndo
<1>5. /\ LastWritten(LOG', Db, InFlight', Kept)
      /\ Written(LOG', Db, InFlight') /\ Written(LOG', current_db, InFlight')
  <2>1. \A k \in Updates(LOG', Open(LOG')) : k # 0
    BY DEF Updates
  <2>2. QED BY <1>4, <2>1 DEF LastWritten, Written
<1>6. /\ Leaves(LOG', Db', committed', Kept') /\ LastWritten(LOG', Db', InFlight', Kept')
      /\ Written(LOG', Db', InFlight')
  BY <1>2, <1>4, <1>5
<1>7. Shown(current_db', on_disk_db') /\ Written(LOG', current_db', InFlight')
  BY <1>1, <1>5
<1>8. QED BY <1>1, <1>4, <1>6, <1>7 DEF UndoData

\* Each action keeps the data right.
LEMMA UndoUpdates ==
  ASSUME Known, UndoData, mode = "undo", ~undumped,
         NEW t \in Tids, NEW a \in Accounts, NEW v \in Values, LogUpdate(t, a, v)
  PROVE  UndoData'
<1>1. /\ Leaves(LOG, Db, committed, Kept) /\ LastWritten(LOG, Db, InFlight, Kept)
      /\ Overwrites(LOG) /\ Written(LOG, Db, InFlight) /\ pending_writes = <<>>
      /\ up => Shown(current_db, on_disk_db) /\ Written(LOG, current_db, InFlight)
  BY DEF UndoData
<1>2. /\ up /\ step = NoStep /\ tid_stat[t] = "COMMITING"
      /\ clashed' = clashed \union (IF UsedAlone(t, a) THEN {} ELSE {a})
      /\ step' = [at |-> "write", tid |-> t, variable |-> a, value |-> v]
      /\ UNCHANGED <<mode, up, DB, current_db, on_disk_db, pending_writes, committed, undumped>>
  BY DEF LogUpdate, Ready, history
<1>3. /\ GrowsBy("UPDATE", {t}) /\ Len(LOG') = Len(LOG)+1
      /\ LOG'[Len(LOG')] = UPDATE(t, a, current_db[a], v)
  BY UpdateGrows DEF UpdateLogged
<1>4. LinesRight(LOG) /\ LogRight(LOG) /\ Len(LOG) \in Nat
  BY LogFacts DEF Known
<1>5. LinesRight(LOG')
  BY <1>3, <1>4, GrownRight DEF GrowsBy, LogRight
<1>6. t \in Open(LOG) /\ Open(LOG') = Open(LOG)
  BY <1>2, <1>3, LinesThen DEF Known, StatusOK, StatRight
<1>7. current_db[a] \in Values \union {Absent}
  BY DEF Known, TypeOK, Stored
<1>8. UpdateAdded(LOG, LOG', t, a, current_db[a], v)
  <2>1. \A i \in 1..Len(LOG) : LOG'[i] = LOG[i]
    BY <1>3 DEF GrowsBy, Adds, Grown
  <2>2. /\ LOG'[Len(LOG')].type = "UPDATE" /\ LOG'[Len(LOG')].tid = t /\ LOG'[Len(LOG')].variable = a
        /\ LOG'[Len(LOG')].undo = current_db[a] /\ LOG'[Len(LOG')].redo = v
    BY <1>3, <1>7, LineTypes
  <2>3. QED BY <1>3, <1>5, <1>6, <2>1, <2>2 DEF UpdateAdded
<1>9. Db = on_disk_db /\ Db' = Db /\ InFlight = 0
  BY <1>2 DEF Db, InFlight, NoStep
<1>10. /\ Kept' \in SUBSET Kept
       /\ a \in Kept' => current_db[a] = Db[a]
  BY <1>1, <1>2, <1>9 DEF UsedAlone, Shown, Kept
<1>11. Of(LOG, a) # {} => current_db[a] # Absent
  <2>1. \A k \in Of(LOG, a) : k \in Updates(LOG, Open(LOG)) /\ k # 0 /\ LOG[k].variable = a
    BY <1>4, OfFacts DEF Updates
  <2>2. Written(LOG, current_db, 0)
    BY <1>1, <1>2, <1>9
  <2>3. QED BY <2>1, <2>2, ValueAssumption DEF Written
<1>12. /\ Leaves(LOG', Db, committed, Kept') /\ LastWritten(LOG', Db, Len(LOG'), Kept') /\ Overwrites(LOG')
       /\ Written(LOG', Db, Len(LOG')) /\ Written(LOG', current_db, Len(LOG'))
  <2>1. /\ Leaves(LOG, Db, committed, Kept) /\ LastWritten(LOG, Db, 0, Kept) /\ Overwrites(LOG)
        /\ Written(LOG, Db, 0) /\ Written(LOG, current_db, 0)
    BY <1>1, <1>2, <1>9
  <2>2. Leaves(LOG', Db, committed, Kept') /\ LastWritten(LOG', Db, Len(LOG'), Kept') /\ Overwrites(LOG')
    BY <1>4, <1>8, <1>10, <1>11, <2>1, AddedUndo
  <2>3. Written(LOG', Db, Len(LOG')) /\ Written(LOG', current_db, Len(LOG'))
    BY <1>4, <1>8, <2>1, AddedWritten
  <2>4. QED BY <2>2, <2>3
<1>13. InFlight' = Len(LOG')
  BY <1>2 DEF InFlight
<1>14. /\ Leaves(LOG', Db', committed', Kept') /\ LastWritten(LOG', Db', InFlight', Kept')
       /\ Written(LOG', Db', InFlight') /\ Written(LOG', current_db', InFlight')
  BY <1>2, <1>9, <1>12, <1>13
<1>15. Shown(current_db', on_disk_db')
  BY <1>1, <1>2
<1>16. QED BY <1>1, <1>2, <1>12, <1>14, <1>15 DEF UndoData

LEMMA UndoWrites ==
  ASSUME Known, UndoData, mode = "undo", ~undumped, WriteToDisk
  PROVE  UndoData'
<1> DEFINE a == step.variable
           v == step.value
           n == Len(LOG)
<1>1. /\ Leaves(LOG, Db, committed, Kept) /\ LastWritten(LOG, Db, InFlight, Kept)
      /\ Overwrites(LOG) /\ Written(LOG, Db, InFlight) /\ pending_writes = <<>>
      /\ up => Shown(current_db, on_disk_db) /\ Written(LOG, current_db, InFlight)
  BY DEF UndoData
<1>2. /\ up /\ step.at = "write" /\ step' = NoStep
      /\ current_db' = [current_db EXCEPT ![a] = v] /\ on_disk_db' = [on_disk_db EXCEPT ![a] = v]
      /\ UNCHANGED <<mode, up, LOG, committed, clashed, undumped, pending_writes>>
  BY DEF WriteToDisk, history
<1>3. step.tid \in Tids /\ a \in Accounts /\ v \in Values
  BY <1>2, StepTypes DEF Known
<1>4. /\ tid_stat[step.tid] = "COMMITING" /\ n # 0 /\ LOG[n].type = "UPDATE"
      /\ LOG[n].tid = step.tid /\ LOG[n].variable = a /\ LOG[n].redo = v
  BY <1>2 DEF Known, StatusOK, StepRight
<1>5. LinesRight(LOG) /\ n \in 1..n
  BY <1>4, LogFacts DEF Known
<1>6. n \in Updates(LOG, Open(LOG))
  BY <1>3, <1>4, <1>5 DEF Known, StatusOK, StatRight, Updates
<1>7. Db = on_disk_db /\ Db' = on_disk_db' /\ InFlight = n /\ InFlight' = 0
      /\ on_disk_db \in Stored /\ current_db \in Stored /\ Kept' = Kept /\ Kept \in SUBSET Accounts
  BY <1>2 DEF Db, InFlight, NoStep, Known, TypeOK, Kept
<1> HIDE DEF a, v, n
<1>8. /\ Leaves(LOG, Db', committed, Kept) /\ LastWritten(LOG, Db', 0, Kept)
      /\ Written(LOG, Db', 0) /\ Written(LOG, current_db', 0)
  <2>1. Leaves(LOG, Db', committed, Kept) /\ LastWritten(LOG, Db', 0, Kept)
    BY <1>1, <1>2, <1>3, <1>4, <1>5, <1>6, <1>7, WrittenUndo DEF n
  <2>2. Written(LOG, Db', 0) /\ Written(LOG, current_db', 0)
    BY <1>1, <1>2, <1>3, <1>4, <1>5, <1>7, WrittenThere DEF n
  <2>3. QED BY <2>1, <2>2
<1>9. /\ Leaves(LOG', Db', committed', Kept') /\ LastWritten(LOG', Db', InFlight', Kept')
      /\ Written(LOG', Db', InFlight') /\ Written(LOG', current_db', InFlight')
  BY <1>2, <1>7, <1>8
<1>10. Overwrites(LOG')
  BY <1>1, <1>2
<1>11. Shown(current_db', on_disk_db')
  <2>1. \A b \in Accounts : /\ current_db'[b] = IF b = a THEN v ELSE current_db[b]
                            /\ on_disk_db'[b] = IF b = a THEN v ELSE on_disk_db[b]
    BY <1>2, <1>3, <1>7 DEF Stored
  <2>2. QED BY <1>1, <1>2, <2>1 DEF Shown
<1>12. QED BY <1>1, <1>2, <1>9, <1>10, <1>11 DEF UndoData

LEMMA UndoCommits ==
  ASSUME Control, UndoData, mode = "undo", ~undumped, NEW t \in Tids, Commit(t)
  PROVE  UndoData'
<1>1. /\ Leaves(LOG, Db, committed, Kept) /\ LastWritten(LOG, Db, InFlight, Kept)
      /\ Overwrites(LOG) /\ Written(LOG, Db, InFlight) /\ pending_writes = <<>>
      /\ up => Shown(current_db, on_disk_db) /\ Written(LOG, current_db, InFlight)
  BY DEF UndoData
<1>2. /\ up /\ step = NoStep /\ tid_stat[t] = "COMMITING"
      /\ committed' = Replayed(committed, LOG, UpdatesOf(t))
      /\ UNCHANGED <<mode, up, DB, current_db, on_disk_db, pending_writes, step, clashed, undumped>>
  BY DEF Commit, Ready
<1>3. Known /\ Alone /\ LinesRight(LOG) /\ LogRight(LOG) /\ committed \in Stored
  BY LogFacts DEF Known, Control, TypeOK
<1>4. GrowsBy("OUTCOME", {t})
  BY <1>3, CommitGrows
<1>5. /\ \A u : At(LOG', "UPDATE", u) = At(LOG, "UPDATE", u)
      /\ Open(LOG') = Open(LOG) \ {t}
  BY <1>3, <1>4, LinesThen
<1>6. CommitAdded(LOG, LOG', t)
  <2>1. LinesRight(LOG') /\ \A i \in 1..Len(LOG) : LOG'[i] = LOG[i]
    BY <1>3, <1>4, GrownRight DEF GrowsBy, LogRight, Adds, Grown
  <2>2. t \in Open(LOG)
    BY <1>2, <1>3 DEF Known, StatusOK, StatRight
  <2>3. \A log, S : \A i : i \in Updates(log, S) <=> \E u \in S : i \in At(log, "UPDATE", u)
    BY DEF Updates, At
  <2>4. \A i, u : i \in At(LOG, "UPDATE", u) /\ i \in At(LOG, "UPDATE", t) => u = t
    BY DEF At
  <2>5. Updates(LOG', Open(LOG')) = Updates(LOG, Open(LOG)) \ At(LOG, "UPDATE", t)
    <3>1. ASSUME NEW i
          PROVE  i \in Updates(LOG', Open(LOG')) <=>
                   i \in Updates(LOG, Open(LOG)) /\ i \notin At(LOG, "UPDATE", t)
      BY <1>5, <2>3, <2>4
    <3>2. QED BY <3>1
  <2>6. QED BY <2>1, <2>2, <2>5 DEF CommitAdded
<1>7. AloneIn(LOG, Open(LOG), Kept)
  <2>1. \A u \in Open(LOG) : u \in Unsettled
    BY <1>2, <1>3 DEF Known, StatusOK, OwnRight, Unsettled, Open
  <2>2. QED BY <1>3, <2>1 DEF Alone, AloneIn
<1>8. committed' = Replayed(committed, LOG, At(LOG, "UPDATE", t))
  BY <1>2, <1>3, UpdatesOfAre DEF Known
<1>9. Db' = Db /\ InFlight = 0 /\ InFlight' = 0 /\ Kept' = Kept /\ Kept \in SUBSET Accounts
  BY <1>2 DEF Db, InFlight, NoStep, Kept
<1>10. /\ Leaves(LOG', Db, committed', Kept) /\ LastWritten(LOG', Db, 0, Kept) /\ Overwrites(LOG')
       /\ Written(LOG', Db, 0) /\ Written(LOG', current_db, 0)
  <2>1. /\ Leaves(LOG, Db, committed, Kept) /\ LastWritten(LOG, Db, 0, Kept)
        /\ Written(LOG, Db, 0) /\ Written(LOG, current_db, 0)
    BY <1>1, <1>2, <1>9
  <2>2. Leaves(LOG', Db, committed', Kept) /\ LastWritten(LOG', Db, 0, Kept) /\ Overwrites(LOG')
    BY <1>1, <1>3, <1>6, <1>7, <1>8, <1>9, <2>1, CommittedUndo
  <2>3. \A k \in Updates(LOG', Open(LOG')) : k \in Updates(LOG, Open(LOG)) /\ LOG'[k] = LOG[k]
    BY <1>6 DEF CommitAdded, Updates
  <2>4. QED BY <2>1, <2>2, <2>3 DEF Written
<1>11. /\ Leaves(LOG', Db', committed', Kept') /\ LastWritten(LOG', Db', InFlight', Kept')
       /\ Written(LOG', Db', InFlight') /\ Written(LOG', current_db', InFlight')
  BY <1>2, <1>9, <1>10
<1>12. Shown(current_db', on_disk_db')
  BY <1>1, <1>2
<1>13. QED BY <1>1, <1>2, <1>10, <1>11, <1>12 DEF UndoData

LEMMA UndoRecovers ==
  ASSUME Known, UndoData, mode = "undo", ~undumped, Recover
  PROVE  UndoData'
<1>1. Leaves(LOG, Db, committed, Kept) /\ pending_writes = <<>>
  BY DEF UndoData
<1>2. /\ ~up /\ up' = TRUE /\ current_db = NoAccounts
      /\ UNCHANGED <<mode, current_db, pending_writes, committed, clashed, undumped>>
  BY DEF Recover, history, Known, StatusOK, Down
<1>3. GrowsBy("OUTCOME", Open(LOG)) /\ on_disk_db' = UndoneFrom(DB, LOG, 1)
  BY RecoverGrows DEF UndoRecovered
<1>4. LinesRight(LOG) /\ Kept \in SUBSET Accounts
  BY LogFacts DEF Known, Kept
<1>5. Db = DB /\ Db' = on_disk_db' /\ Kept' = Kept
  BY <1>2 DEF Db, Kept
<1>6. \A a \in Kept : on_disk_db'[a] = committed[a]
  BY <1>1, <1>3, <1>4, <1>5, UndoneIsLeft
<1>7. Open(LOG') = {}
  BY <1>3, LinesThen
<1>8. Updates(LOG', Open(LOG')) = {} /\ \A a : Of(LOG', a) = {}
  BY <1>7 DEF Updates, Of
<1>9. Leaves(LOG', Db', committed', Kept')
  BY <1>2, <1>5, <1>6, <1>8 DEF Leaves
<1>10. /\ LastWritten(LOG', Db', InFlight', Kept') /\ Overwrites(LOG')
       /\ Written(LOG', Db', InFlight') /\ Written(LOG', current_db', InFlight')
  BY <1>8 DEF LastWritten, Overwrites, Written
<1>11. Shown(current_db', on_disk_db')
  BY <1>2 DEF Shown, NoAccounts
<1>12. QED BY <1>1, <1>2, <1>9, <1>10, <1>11 DEF UndoData

LEMMA UndoCrashes ==
  ASSUME UndoData, mode = "undo", ~undumped, Crash
  PROVE  UndoData'
<1>1. /\ Leaves(LOG, Db, committed, Kept) /\ LastWritten(LOG, Db, InFlight, Kept)
      /\ Overwrites(LOG) /\ Written(LOG, Db, InFlight)
  BY DEF UndoData
<1>2. /\ up /\ up' = FALSE /\ DB' = on_disk_db /\ pending_writes' = <<>> /\ step' = NoStep
      /\ UNCHANGED <<mode, LOG, committed, clashed, undumped>>
  BY DEF Crash, Forgotten
<1>3. Db' = Db /\ InFlight' = Len(LOG) /\ Kept' = Kept
  BY <1>2 DEF Db, InFlight, Kept
<1>4. LastWritten(LOG, Db, Len(LOG), Kept) /\ Written(LOG, Db, Len(LOG))
  <2>1. InFlight = Len(LOG) \/ InFlight = 0
    BY DEF InFlight
  <2>2. \A k \in Updates(LOG, Open(LOG)) : k # 0
    BY DEF Updates
  <2>3. QED BY <1>1, <2>1, <2>2 DEF LastWritten, Written
<1>5. /\ Leaves(LOG', Db', committed', Kept') /\ LastWritten(LOG', Db', InFlight', Kept')
      /\ Overwrites(LOG') /\ Written(LOG', Db', InFlight')
  BY <1>1, <1>2, <1>3, <1>4
<1>6. QED BY <1>2, <1>5 DEF UndoData

\* Every step keeps the data right.
LEMMA UndoDataStays ==
  ASSUME Control, UndoData, [Next]_vars
  PROVE  UndoData'
<1>1. mode' = mode /\ (undumped => undumped')
  BY DEF Next, Begin, Commit, End, LogUpdate, WriteToDisk, Flush, Checkpoint, Crash, Dies, Recover, vars,
         history
<1> SUFFICES ASSUME mode = "undo", ~undumped, ~undumped'
             PROVE  UndoData'
  BY <1>1 DEF UndoData
<1>2. Known /\ NoStep.at = "none"
  BY DEF Control, NoStep
<1>3. ASSUME NEW t \in Tids, Begin(t) PROVE UndoData'
  <2>1. SameToUndo(LOG, LOG')
    BY <1>2, <1>3, BeginGrows, SameThen
  <2>2. QED BY <1>2, <1>3, <2>1, UndoKept DEF Begin, Ready, history
<1>4. ASSUME NEW t \in Tids, End(t) PROVE UndoData'
  <2>1. SameToUndo(LOG, LOG')
    BY <1>2, <1>4, SameThen DEF End
  <2>2. QED BY <1>2, <1>4, <2>1, UndoKept DEF End, Ready, history
<1>5. CASE Checkpoint
  <2>1. SameToUndo(LOG, LOG')
    BY <1>2, <1>5, SameThen
  <2>2. QED BY <1>2, <1>5, <2>1, UndoKept DEF Checkpoint, Ready, history, volatile
<1>6. CASE Flush
  <2>1. pending_writes = <<>>
    BY DEF UndoData
  <2>2. ToFlush = {}
    BY <2>1 DEF ToFlush
  <2>3. LogEnd /\ step.at = "flush"
    BY <1>6, <2>2 DEF Flush, FlushNext
  <2>4. GrowsBy("END", {step.tid})
    BY <1>2, <2>3, EndGrows
  <2>5. SameToUndo(LOG, LOG')
    BY <1>2, <2>4, SameThen
  <2>6. QED BY <1>2, <1>6, <2>3, <2>5, UndoKept DEF Flush, LogEnd, history
<1>7. CASE Crash
  BY <1>7, UndoCrashes
<1>8. CASE Dies
  BY <1>8 DEF Dies
<1>9. CASE Recover
  BY <1>2, <1>9, UndoRecovers
<1>10. CASE WriteToDisk
  BY <1>2, <1>10, UndoWrites
<1>11. CASE UNCHANGED vars
  <2>1. UNCHANGED <<mode, undumped, LOG, committed, clashed, up, current_db, on_disk_db, DB, step, pending_writes>>
    BY <1>11 DEF vars, volatile, history
  <2>2. Db' = Db /\ InFlight' = InFlight /\ Kept' = Kept
    BY <2>1 DEF Db, InFlight, Kept
  <2>3. /\ Leaves(LOG', Db', committed', Kept') /\ LastWritten(LOG', Db', InFlight', Kept')
        /\ Overwrites(LOG') /\ Written(LOG', Db', InFlight')
        /\ up => Shown(current_db', on_disk_db') /\ Written(LOG', current_db', InFlight')
    BY <2>1, <2>2 DEF UndoData
  <2>4. QED BY <2>1, <2>3 DEF UndoData
<1>12. ASSUME NEW t \in Tids, Commit(t) PROVE UndoData'
  BY <1>12, UndoCommits
<1>13. ASSUME NEW t \in Tids, NEW a \in Accounts, NEW v \in Values, LogUpdate(t, a, v) PROVE UndoData'
  BY <1>2, <1>13, UndoUpdates
<1>14. QED BY <1>3, <1>4, <1>5, <1>6, <1>7, <1>8, <1>9, <1>10, <1>11, <1>12, <1>13 DEF Next

-----------------------------------------------------------------------------
(* The data in redo mode *)

\* The updates of an account that recovery would do again: this brings com to the
\* accounts of K.
Due(log, a) == {i \in Updates(log, Owed(log)) : log[i].variable = a}
Brings(log, db, com, K) == \A a \in K :
  com[a] = IF Due(log, a) = {} THEN db[a] ELSE log[Max(Due(log, a))].redo
RedoData == mode = "redo" /\ ~undumped => Brings(LOG, Db, committed, Kept)

\* The pending writes of an account by t, and the last of them
PendingOf(pw, t, a) == {p \in 1..Len(pw) : pw[p][1] = t /\ pw[p][2] = a}
LastOf(pw, t, a, p) == p \in PendingOf(pw, t, a) /\ \A q \in PendingOf(pw, t, a) : q <= p

\* They come from updates in the log.
AllLogged(log, pw) == \A p \in 1..Len(pw) :
  \E k \in At(log, "UPDATE", pw[p][1]) : log[k].variable = pw[p][2]

\* And the last update of an account by one of S is the last pending write, but for
\* the one at n.
Latest(log, t, k) ==
  k \in At(log, "UPDATE", t) /\ \A i \in At(log, "UPDATE", t) : log[i].variable = log[k].variable => i <= k
LatestPending(log, pw, S, n) == \A t \in S : \A k : Latest(log, t, k) /\ k # n =>
  \E p : LastOf(pw, t, log[k].variable, p) /\ pw[p][3] = log[k].redo
Unwritten == IF step.at = "write" THEN Len(LOG) ELSE 0
Pending == mode = "redo" => AllLogged(LOG, pending_writes)
                            /\ LatestPending(LOG, pending_writes, Unsettled, Unwritten)

\* Those before n are on the disk.
FlushedTo(pw, db, t, n) == \A a \in Accounts : \A p : LastOf(pw, t, a, p) /\ p < n => db[a] = pw[p][3]
Flushed == mode = "redo" /\ step.at = "flush" =>
           FlushedTo(pending_writes, on_disk_db, step.tid, step.next)

\* Updates of an account to do again, and the last of them
LEMMA DueFacts ==
  ASSUME NEW log, LinesRight(log), NEW a
  PROVE  /\ Due(log, a) \subseteq 1..Len(log) /\ Due(log, a) \subseteq Updates(log, Owed(log))
         /\ \A i \in Due(log, a) : /\ log[i].variable = a /\ log[i].tid \in Owed(log)
                                   /\ i \in At(log, "UPDATE", log[i].tid)
         /\ Due(log, a) # {} => /\ Max(Due(log, a)) \in Due(log, a)
                                /\ \A i \in Due(log, a) : i <= Max(Due(log, a))
<1>1. Due(log, a) \subseteq 1..Len(log) /\ Len(log) \in Nat /\ Due(log, a) \subseteq Updates(log, Owed(log))
  BY DEF Due, Updates, LinesRight
<1>2. \A i \in Due(log, a) : /\ log[i].variable = a /\ log[i].tid \in Owed(log)
                             /\ i \in At(log, "UPDATE", log[i].tid)
  BY DEF Due, Updates, At
<1>3. Due(log, a) # {} => /\ Max(Due(log, a)) \in Due(log, a)
                          /\ \A i \in Due(log, a) : i <= Max(Due(log, a))
  BY <1>1, MaxGives
<1>4. QED BY <1>1, <1>2, <1>3

\* Brings is what Replayed computes.
LEMMA ReplayedBrings ==
  ASSUME NEW log, NEW db, NEW com, NEW K \in SUBSET Accounts
  PROVE  (\A a \in K : Replayed(db, log, Updates(log, Owed(log)))[a] = com[a]) <=> Brings(log, db, com, K)
<1> DEFINE F(a) == IF Due(log, a) = {} THEN db[a] ELSE log[Max(Due(log, a))].redo
<1>1. Replayed(db, log, Updates(log, Owed(log))) = [a \in Accounts |-> F(a)]
  BY Zenon DEF Replayed, Due
<1>2. Brings(log, db, com, K) <=> \A a \in K : com[a] = F(a)
  BY Zenon DEF Brings
<1> HIDE DEF F
<1>3. QED BY <1>1, <1>2

\* Logs with the same updates to do again
SameToRedo(log, new) ==
  /\ Updates(new, Owed(new)) = Updates(log, Owed(log))
  /\ \A i \in Updates(log, Owed(log)) : new[i] = log[i]

\* The data stay right for another log with the same updates to do again.
LEMMA SameRedo ==
  ASSUME NEW log, NEW new, SameToRedo(log, new), LinesRight(log), NEW db, NEW com,
         NEW K, Brings(log, db, com, K)
  PROVE  Brings(new, db, com, K)
<1>1. \A a : Due(new, a) = Due(log, a)
  BY DEF Due, SameToRedo
<1>2. ASSUME NEW a \in K, Due(log, a) # {} PROVE new[Max(Due(log, a))] = log[Max(Due(log, a))]
  BY <1>2, DueFacts DEF SameToRedo
<1>3. QED BY <1>1, <1>2, Zenon DEF Brings

\* The updates of t are new among them, or no longer there.
DueWith(log, new, t) ==
  /\ \A i \in 1..Len(log) : new[i] = log[i]
  /\ Updates(new, Owed(new)) = Updates(log, Owed(log)) \union At(log, "UPDATE", t)
DueWithout(log, new, t) ==
  /\ \A i \in 1..Len(log) : new[i] = log[i]
  /\ Updates(new, Owed(new)) = Updates(log, Owed(log)) \ At(log, "UPDATE", t)

\* A transaction commits, and its updates are to be done again.
LEMMA CommittedRedo ==
  ASSUME NEW log, LinesRight(log), NEW new, NEW t, DueWith(log, new, t), t \notin Owed(log),
         NEW K \in SUBSET Accounts, AloneIn(log, Owed(log) \union {t}, K),
         NEW db, NEW com, Brings(log, db, com, K)
  PROVE  Brings(new, db, Replayed(com, log, At(log, "UPDATE", t)), K)
<1> DEFINE M == At(log, "UPDATE", t)
           Mine(a) == {i \in M : log[i].variable = a}
           new_com == Replayed(com, log, M)
<1>1. /\ \A i \in 1..Len(log) : new[i] = log[i]
      /\ Updates(new, Owed(new)) = Updates(log, Owed(log)) \union M
      /\ M \subseteq 1..Len(log) /\ Updates(log, Owed(log)) \subseteq 1..Len(log) /\ Len(log) \in Nat
  BY DEF DueWith, At, Updates, LinesRight
<1>2. \A a : Due(new, a) = Due(log, a) \union Mine(a)
  BY <1>1 DEF Due
<1>3. ASSUME NEW a \in K, Mine(a) # {} PROVE Due(log, a) = {}
  <2>1. PICK j \in M : log[j].variable = a
    BY <1>3
  <2>2. ASSUME NEW i \in Due(log, a) PROVE FALSE
    <3>1. log[i].variable = a /\ log[i].tid \in Owed(log) /\ i \in At(log, "UPDATE", log[i].tid)
      BY DueFacts
    <3>2. QED BY <2>1, <3>1 DEF AloneIn
  <2>3. QED BY <2>2
<1>4. \A a \in Accounts : new_com[a] = IF Mine(a) = {} THEN com[a] ELSE log[Max(Mine(a))].redo
  BY DEF Replayed
<1>5. \A a : Mine(a) \subseteq 1..Len(log)
  BY <1>1
<1> HIDE DEF new_com, Mine
<1>6. ASSUME NEW a \in K
      PROVE  new_com[a] = IF Due(new, a) = {} THEN db[a] ELSE new[Max(Due(new, a))].redo
  <2>1. CASE Mine(a) = {}
    <3>1. Due(new, a) = Due(log, a)
      BY <1>2, <2>1
    <3>2. Due(log, a) # {} => new[Max(Due(log, a))] = log[Max(Due(log, a))]
      BY <1>1, DueFacts
    <3>3. QED BY <1>4, <2>1, <3>1, <3>2 DEF Brings
  <2>2. CASE Mine(a) # {}
    <3>1. Due(new, a) = Mine(a)
      BY <1>2, <1>3, <2>2
    <3>2. Max(Mine(a)) \in Mine(a)
      BY <1>1, <1>5, <2>2, MaxGives
    <3>3. new[Max(Mine(a))] = log[Max(Mine(a))]
      BY <1>1, <1>5, <3>2
    <3>4. QED BY <1>4, <2>2, <3>1, <3>3
  <2>3. QED BY <2>1, <2>2
<1>7. QED BY <1>6 DEF Brings, new_com

\* It ends, when the last of them are on the disk.
LEMMA EndedRedo ==
  ASSUME NEW log, LinesRight(log), NEW new, NEW t \in Owed(log), DueWithout(log, new, t),
         NEW K, AloneIn(log, Owed(log), K), NEW db, NEW com, Brings(log, db, com, K),
         \A k : Latest(log, t, k) => db[log[k].variable] = log[k].redo
  PROVE  Brings(new, db, com, K)
<1> DEFINE M == At(log, "UPDATE", t)
           Mine(a) == {i \in M : log[i].variable = a}
<1>1. /\ \A i \in 1..Len(log) : new[i] = log[i]
      /\ Updates(new, Owed(new)) = Updates(log, Owed(log)) \ M
      /\ M \subseteq 1..Len(log) /\ Updates(log, Owed(log)) \subseteq 1..Len(log) /\ Len(log) \in Nat
      /\ M \subseteq Updates(log, Owed(log))
  BY DEF DueWithout, At, Updates, LinesRight
<1>2. \A a : Due(new, a) = Due(log, a) \ Mine(a)
  BY <1>1 DEF Due
<1>3. ASSUME NEW a \in K, Mine(a) # {} PROVE Due(log, a) = Mine(a)
  <2>1. PICK j \in M : log[j].variable = a
    BY <1>3
  <2>2. ASSUME NEW i \in Due(log, a) PROVE i \in Mine(a)
    <3>1. log[i].variable = a /\ log[i].tid \in Owed(log) /\ i \in At(log, "UPDATE", log[i].tid)
      BY DueFacts
    <3>2. log[i].tid = t
      BY <2>1, <3>1 DEF AloneIn
    <3>3. QED BY <3>1, <3>2
  <2>3. \A i \in Mine(a) : i \in Due(log, a)
    BY <1>1 DEF Due
  <2>4. QED BY <2>2, <2>3
<1>4. \A a, i : i \in Mine(a) <=> i \in M /\ log[i].variable = a
  OBVIOUS
<1> HIDE DEF Mine
<1>5. ASSUME NEW a \in K
      PROVE  com[a] = IF Due(new, a) = {} THEN db[a] ELSE new[Max(Due(new, a))].redo
  <2>1. CASE Mine(a) = {}
    <3>1. Due(new, a) = Due(log, a)
      BY <1>2, <2>1
    <3>2. Due(log, a) # {} => new[Max(Due(log, a))] = log[Max(Due(log, a))]
      BY <1>1, DueFacts
    <3>3. QED BY <3>1, <3>2 DEF Brings
  <2>2. CASE Mine(a) # {}
    <3> DEFINE k == Max(Due(log, a))
    <3>1. Due(log, a) = Mine(a) /\ Due(new, a) = {}
      BY <1>2, <1>3, <2>2
    <3>2. k \in Due(log, a) /\ \A i \in Due(log, a) : i <= k
      BY <2>2, <3>1, DueFacts
    <3>3. com[a] = log[k].redo
      BY <2>2, <3>1 DEF Brings
    <3> HIDE DEF k
    <3>4. Latest(log, t, k) /\ log[k].variable = a
      BY <1>4, <3>1, <3>2 DEF Latest
    <3>5. QED BY <3>1, <3>3, <3>4
  <2>3. QED BY <2>1, <2>2
<1>6. QED BY <1>5 DEF Brings

-----------------------------------------------------------------------------
(* The pending writes *)

\* Logs with the same updates
SameUpdates(log, new) ==
  /\ \A t : At(new, "UPDATE", t) = At(log, "UPDATE", t)
  /\ \A t : \A i \in At(log, "UPDATE", t) : new[i] = log[i]

\* The pending writes stay right for another log with the same updates.
LEMMA SameLatest ==
  ASSUME NEW log, NEW new, SameUpdates(log, new), NEW pw, NEW S, NEW T, NEW m,
         AllLogged(log, pw), LatestPending(log, pw, S, 0),
         \A u \in T : u \in S \/ At(log, "UPDATE", u) = {}
  PROVE  AllLogged(new, pw) /\ LatestPending(new, pw, T, m)
<1>1. AllLogged(new, pw)
  <2>1. ASSUME NEW p \in 1..Len(pw)
        PROVE  \E k \in At(new, "UPDATE", pw[p][1]) : new[k].variable = pw[p][2]
    <3>1. PICK k \in At(log, "UPDATE", pw[p][1]) : log[k].variable = pw[p][2]
      BY DEF AllLogged
    <3>2. k \in At(new, "UPDATE", pw[p][1]) /\ new[k] = log[k]
      BY DEF SameUpdates
    <3>3. QED BY <3>1, <3>2
  <2>2. QED BY <2>1 DEF AllLogged
<1>2. ASSUME NEW t \in T, NEW k, Latest(new, t, k)
      PROVE  \E p : LastOf(pw, t, new[k].variable, p) /\ pw[p][3] = new[k].redo
  <2>1. Latest(log, t, k) /\ new[k] = log[k] /\ t \in S
    BY <1>2 DEF Latest, SameUpdates
  <2>2. k # 0
    BY <2>1 DEF Latest, At
  <2>3. QED BY <2>1, <2>2 DEF LatestPending
<1>3. QED BY <1>1, <1>2 DEF LatestPending

\* A line that is no update, or none
LEMMA SameUpdatesThen ==
  ASSUME Known, \/ LOG' = LOG
                \/ \E type, T : GrowsBy(type, T) /\ type # "UPDATE"
                \/ Checkpoint
  PROVE  SameUpdates(LOG, LOG')
<1>1. CASE LOG' = LOG
  BY <1>1 DEF SameUpdates
<1>2. ASSUME NEW type, NEW T, GrowsBy(type, T), type # "UPDATE" PROVE SameUpdates(LOG, LOG')
  <2>1. \A t : At(LOG', "UPDATE", t) = At(LOG, "UPDATE", t)
    BY <1>2, LinesThen
  <2>2. \A i \in 1..Len(LOG) : LOG'[i] = LOG[i]
    BY <1>2 DEF GrowsBy, Adds, Grown
  <2>3. QED BY <2>1, <2>2 DEF SameUpdates, At
<1>3. CASE Checkpoint
  <2>1. \A t : At(LOG', "UPDATE", t) = At(LOG, "UPDATE", t)
    BY <1>3, CheckpointMarks, MarkedSame, LogFacts DEF Known
  <2>2. \A i \in 1..Len(LOG) : LOG'[i] = LOG[i]
    BY <1>3, CheckpointMarks DEF Marked, Grown
  <2>3. QED BY <2>1, <2>2 DEF SameUpdates, At
<1>4. QED BY <1>1, <1>2, <1>3

\* Steps that leave the updates and the pending writes alone
LEMMA PendingKept ==
  ASSUME Known, Pending, SameUpdates(LOG, LOG'), mode' = mode, pending_writes' = pending_writes,
         step.at # "write", \A u \in Unsettled' : u \in Unsettled \/ At(LOG, "UPDATE", u) = {}
  PROVE  Pending'
<1> SUFFICES ASSUME mode = "redo" PROVE Pending'
  BY DEF Pending
<1>1. AllLogged(LOG, pending_writes) /\ LatestPending(LOG, pending_writes, Unsettled, 0)
  BY DEF Pending, Unwritten
<1>2. AllLogged(LOG', pending_writes) /\ LatestPending(LOG', pending_writes, Unsettled', Unwritten')
  BY <1>1, SameLatest
<1>3. AllLogged(LOG', pending_writes') /\ LatestPending(LOG', pending_writes', Unsettled', Unwritten')
  BY <1>2
<1>4. QED BY <1>3 DEF Pending

\* An update is logged ...
LEMMA PendingUpdates ==
  ASSUME Known, Pending, NEW t \in Tids, NEW a \in Accounts, NEW v \in Values, LogUpdate(t, a, v)
  PROVE  Pending'
<1> DEFINE n == Len(LOG)+1
           pw == pending_writes
<1>1. /\ GrowsBy("UPDATE", {t}) /\ Len(LOG') = n /\ Len(LOG) \in Nat
      /\ step = NoStep /\ mode' = mode /\ pw' = pw /\ tid_stat' = tid_stat
      /\ step' = [at |-> "write", tid |-> t, variable |-> a, value |-> v]
  BY UpdateGrows, LogFacts DEF UpdateLogged, LogUpdate, Ready, Known
<1>2. Unsettled' = Unsettled /\ Unwritten = 0 /\ Unwritten' = n
  BY <1>1 DEF Unsettled, Unwritten, NoStep
<1>3. /\ \A i \in 1..Len(LOG) : LOG'[i] = LOG[i]
      /\ \A i : i \in 1..Len(LOG') <=> i \in 1..Len(LOG) \/ i = n
  BY <1>1 DEF GrowsBy, Adds, Grown
<1> SUFFICES ASSUME mode = "redo" PROVE Pending'
  BY <1>1 DEF Pending
<1>4. AllLogged(LOG, pw) /\ LatestPending(LOG, pw, Unsettled, 0)
  BY <1>2 DEF Pending
<1> HIDE DEF n, pw
<1>5. \A u, i : /\ i \in At(LOG, "UPDATE", u) => i \in At(LOG', "UPDATE", u) /\ LOG'[i] = LOG[i] /\ i # 0
                /\ i \in At(LOG', "UPDATE", u) /\ i # n => i \in At(LOG, "UPDATE", u)
  BY <1>3 DEF At
<1>6. AllLogged(LOG', pw)
  <2>1. ASSUME NEW p \in 1..Len(pw)
        PROVE  \E k \in At(LOG', "UPDATE", pw[p][1]) : LOG'[k].variable = pw[p][2]
    <3>1. PICK k \in At(LOG, "UPDATE", pw[p][1]) : LOG[k].variable = pw[p][2]
      BY <1>4 DEF AllLogged
    <3>2. QED BY <1>5, <3>1
  <2>2. QED BY <2>1 DEF AllLogged
<1>7. LatestPending(LOG', pw, Unsettled, n)
  <2>1. ASSUME NEW u \in Unsettled, NEW k, Latest(LOG', u, k), k # n
        PROVE  \E p : LastOf(pw, u, LOG'[k].variable, p) /\ pw[p][3] = LOG'[k].redo
    <3>1. k \in At(LOG, "UPDATE", u) /\ LOG'[k] = LOG[k] /\ k # 0
      BY <1>5, <2>1 DEF Latest
    <3>2. Latest(LOG, u, k)
      BY <1>5, <2>1, <3>1 DEF Latest
    <3>3. QED BY <1>4, <3>1, <3>2 DEF LatestPending
  <2>2. QED BY <2>1 DEF LatestPending
<1>8. AllLogged(LOG', pending_writes') /\ LatestPending(LOG', pending_writes', Unsettled', Unwritten')
  BY <1>1, <1>2, <1>6, <1>7 DEF pw
<1>9. QED BY <1>8 DEF Pending

\* ... and its write is pending.
LEMMA PendingWrites ==
  ASSUME Known, Pending, mode = "redo", WriteToDisk
  PROVE  Pending'
<1> DEFINE t == step.tid
           a == step.variable
           v == step.value
           n == Len(LOG)
           pw == pending_writes
           m == Len(pw)+1
           new == pw'
<1>1. /\ new = Append(pw, <<t, a, v>>) /\ step.at = "write" /\ step' = NoStep
      /\ UNCHANGED <<mode, LOG, tid_stat>>
  BY DEF WriteToDisk
<1>2. t \in Tids /\ a \in Accounts /\ v \in Values
  BY <1>1, StepTypes DEF Known
<1>3. /\ n # 0 /\ LOG[n].type = "UPDATE" /\ LOG[n].tid = t /\ LOG[n].variable = a /\ LOG[n].redo = v
      /\ n \in Nat
  BY <1>1, LogFacts DEF Known, StatusOK, StepRight
<1>4. n \in At(LOG, "UPDATE", t) /\ \A u : \A i \in At(LOG, "UPDATE", u) : i <= n /\ i \in Nat
  BY <1>3 DEF At
<1>5. Len(pw) \in Nat /\ Len(new) = m /\ new[m] = <<t, a, v>> /\ \A i \in 1..Len(pw) : new[i] = pw[i]
  <2>1. pw \in Seq(Tids \X Accounts \X Values) /\ <<t, a, v>> \in Tids \X Accounts \X Values
    BY <1>2 DEF Known, TypeOK
  <2>2. QED BY <1>1, <2>1, AppendProperties, LenProperties
<1>6. /\ \A i : i \in 1..Len(new) <=> i \in 1..Len(pw) \/ i = m
      /\ \A i \in 1..Len(pw) : i <= m /\ i # m
      /\ new[m][1] = t /\ new[m][2] = a /\ new[m][3] = v /\ m <= m
  BY <1>5
<1>7. AllLogged(LOG, pw) /\ LatestPending(LOG, pw, Unsettled, n)
  BY <1>1 DEF Pending, Unwritten
<1>8. Unsettled' = Unsettled /\ Unwritten' = 0
  BY <1>1 DEF Unsettled, Unwritten, NoStep
<1> HIDE DEF t, a, v, n, pw, m, new
<1>9. AllLogged(LOG, new)
  <2>1. ASSUME NEW p \in 1..Len(new)
        PROVE  \E k \in At(LOG, "UPDATE", new[p][1]) : LOG[k].variable = new[p][2]
    <3>1. CASE p = m
      BY <1>3, <1>4, <1>6, <3>1
    <3>2. CASE p \in 1..Len(pw)
      BY <1>5, <1>7, <3>2 DEF AllLogged
    <3>3. QED BY <1>6, <3>1, <3>2
  <2>2. QED BY <2>1 DEF AllLogged
<1>10. \A u, b : PendingOf(new, u, b) =
                   IF u = t /\ b = a THEN PendingOf(pw, u, b) \union {m} ELSE PendingOf(pw, u, b)
  <2>1. ASSUME NEW u, NEW b, NEW p
        PROVE  p \in PendingOf(new, u, b) <=> p \in PendingOf(pw, u, b) \/ (u = t /\ b = a /\ p = m)
    BY <1>5, <1>6 DEF PendingOf
  <2>2. QED BY <2>1
<1>11. LatestPending(LOG, new, Unsettled, 0)
  <2>1. ASSUME NEW u \in Unsettled, NEW k, Latest(LOG, u, k)
        PROVE  \E p : LastOf(new, u, LOG[k].variable, p) /\ new[p][3] = LOG[k].redo
    <3>1. k \in At(LOG, "UPDATE", u) /\ k <= n /\ k \in Nat
      BY <1>4, <2>1 DEF Latest
    <3>2. CASE u = t /\ LOG[k].variable = a
      <4>1. n <= k
        BY <1>3, <1>4, <2>1, <3>2 DEF Latest
      <4>2. k = n
        BY <1>3, <3>1, <4>1
      <4>3. LastOf(new, t, a, m)
        <5>1. m \in PendingOf(new, t, a)
          BY <1>10
        <5>2. \A q \in PendingOf(new, t, a) : q <= m
          BY <1>6 DEF PendingOf
        <5>3. QED BY <5>1, <5>2 DEF LastOf
      <4>4. QED BY <1>3, <1>6, <3>2, <4>2, <4>3
    <3>3. CASE ~(u = t /\ LOG[k].variable = a)
      <4>1. k # n
        BY <1>3, <3>1, <3>3 DEF At
      <4>2. PICK p : LastOf(pw, u, LOG[k].variable, p) /\ pw[p][3] = LOG[k].redo
        BY <1>7, <2>1, <4>1 DEF LatestPending
      <4>3. PendingOf(new, u, LOG[k].variable) = PendingOf(pw, u, LOG[k].variable)
        BY <1>10, <3>3
      <4>4. new[p] = pw[p]
        BY <1>5, <4>2 DEF LastOf, PendingOf
      <4>5. LastOf(new, u, LOG[k].variable, p)
        BY <4>2, <4>3 DEF LastOf
      <4>6. QED BY <4>2, <4>4, <4>5
    <3>4. QED BY <3>2, <3>3
  <2>2. QED BY <2>1 DEF LatestPending
<1>12. AllLogged(LOG', pending_writes') /\ LatestPending(LOG', pending_writes', Unsettled', Unwritten')
  BY <1>1, <1>8, <1>9, <1>11 DEF new, pw
<1>13. QED BY <1>12 DEF Pending

\* Every step keeps the pending writes right.
LEMMA PendingStays ==
  ASSUME Known, Pending, [Next]_vars
  PROVE  Pending'
<1>1. mode' = mode /\ tid_stat \in [Tids -> Stats] /\ Down /\ NoStep.at = "none"
  BY DEF Next, Begin, Commit, End, LogUpdate, WriteToDisk, Flush, Checkpoint, Crash, Dies, Recover, vars,
         Known, TypeOK, StatusOK, NoStep
<1>2. ASSUME NEW t \in Tids, Begin(t) PROVE Pending'
  <2>1. /\ GrowsBy("START", {t}) /\ tid_stat' = [tid_stat EXCEPT ![t] = "COMMITING"]
        /\ step = NoStep /\ pending_writes' = pending_writes
    BY <1>2, BeginGrows DEF Begin, Ready
  <2>2. At(LOG, "UPDATE", t) = {}
    BY <2>1 DEF GrowsBy, Allowed, At, Mentions
  <2>3. \A u \in Unsettled' : u \in Unsettled \/ u = t
    BY <1>1, <2>1 DEF Unsettled
  <2>4. SameUpdates(LOG, LOG')
    BY <2>1, SameUpdatesThen
  <2>5. QED BY <1>1, <2>1, <2>2, <2>3, <2>4, PendingKept
<1>3. ASSUME NEW t \in Tids, Commit(t) PROVE Pending'
  <2>1. /\ GrowsBy("OUTCOME", {t}) /\ tid_stat' = [tid_stat EXCEPT ![t] = "ENDING"] /\ tid_stat[t] = "COMMITING"
        /\ step = NoStep /\ pending_writes' = pending_writes
    BY <1>3, CommitGrows DEF Commit, Ready
  <2>2. \A u \in Unsettled' : u \in Unsettled
    BY <1>1, <2>1 DEF Unsettled
  <2>3. SameUpdates(LOG, LOG')
    BY <2>1, SameUpdatesThen
  <2>4. QED BY <1>1, <2>1, <2>2, <2>3, PendingKept
<1>4. ASSUME Flush, LogEnd PROVE Pending'
  <2>1. /\ GrowsBy("END", {step.tid}) /\ tid_stat' = [tid_stat EXCEPT ![step.tid] = "DONE"]
        /\ step.at = "flush" /\ pending_writes' = pending_writes
    BY <1>4, EndGrows DEF Flush, LogEnd
  <2>2. \A u \in Unsettled' : u \in Unsettled
    BY <1>1, <2>1 DEF Unsettled
  <2>3. SameUpdates(LOG, LOG')
    BY <2>1, SameUpdatesThen
  <2>4. QED BY <1>1, <2>1, <2>2, <2>3, PendingKept
<1>5. ASSUME NEW t \in Tids, NEW a \in Accounts, NEW v \in Values, LogUpdate(t, a, v) PROVE Pending'
  BY <1>5, PendingUpdates
<1>6. ASSUME Unsettled' = {}, pending_writes' = <<>> PROVE Pending'
  <2>1. AllLogged(LOG', pending_writes')
    BY <1>6 DEF AllLogged
  <2>2. LatestPending(LOG', pending_writes', Unsettled', Unwritten')
    BY <1>6 DEF LatestPending
  <2>3. QED BY <2>1, <2>2 DEF Pending
<1>7. CASE Recover
  BY <1>1, <1>6, <1>7 DEF Recover, Down, Unsettled
<1>8. CASE Crash \/ Dies
  BY <1>6, <1>8 DEF Crash, Dies, Forgotten, Unsettled
<1>9. ASSUME LOG' = LOG, tid_stat' = tid_stat, pending_writes' = pending_writes, step.at # "write" PROVE Pending'
  <2>1. Unsettled' = Unsettled
    BY <1>1, <1>9 DEF Unsettled
  <2>2. SameUpdates(LOG, LOG')
    BY <1>9, SameUpdatesThen
  <2>3. QED BY <1>1, <1>9, <2>1, <2>2, PendingKept
<1>10. CASE Checkpoint
  <2>1. Unsettled' = Unsettled /\ pending_writes' = pending_writes /\ step = NoStep
    BY <1>10 DEF Checkpoint, volatile, Unsettled, Ready
  <2>2. SameUpdates(LOG, LOG')
    BY <1>10, SameUpdatesThen
  <2>3. QED BY <1>1, <2>1, <2>2, PendingKept
<1>11. ASSUME NEW t \in Tids, End(t) PROVE Pending'
  BY <1>1, <1>9, <1>11 DEF End, Ready
<1>12. CASE WriteToDisk
  BY <1>1, <1>12, PendingWrites DEF Pending
<1>13. CASE UNCHANGED vars
  <2>1. UNCHANGED <<LOG, tid_stat, pending_writes, step, mode>>
    BY <1>13 DEF vars, volatile
  <2>2. Unsettled' = Unsettled /\ Unwritten' = Unwritten
    BY <2>1 DEF Unsettled, Unwritten
  <2>3. mode = "redo" => /\ AllLogged(LOG', pending_writes')
                         /\ LatestPending(LOG', pending_writes', Unsettled', Unwritten')
    BY <2>1, <2>2 DEF Pending
  <2>4. QED BY <1>1, <2>3 DEF Pending
<1>14. CASE Flush
  <2>1. CASE LogEnd
    BY <1>4, <1>14, <2>1
  <2>2. CASE FlushNext
    BY <1>9, <1>14, <2>2 DEF Flush, FlushNext
  <2>3. QED BY <1>14, <2>1, <2>2 DEF Flush
<1>15. QED BY <1>2, <1>3, <1>5, <1>7, <1>8, <1>10, <1>11, <1>12, <1>13, <1>14 DEF Next

\* The writes before step.next are on the disk.
LEMMA FlushedStays ==
  ASSUME Known, Flushed, [Next]_vars
  PROVE  Flushed'
<1>1. mode' = mode /\ NoStep.at = "none"
  BY DEF Next, Begin, Commit, End, LogUpdate, WriteToDisk, Flush, Checkpoint, Crash, Dies, Recover, vars,
         NoStep
<1>2. ASSUME step'.at # "flush" PROVE Flushed'
  BY <1>2 DEF Flushed
<1>3. ASSUME NEW t \in Tids, Begin(t) \/ Commit(t) PROVE Flushed'
  BY <1>1, <1>2, <1>3 DEF Begin, Commit, Ready
<1>4. ASSUME NEW t \in Tids, NEW a \in Accounts, NEW v \in Values, LogUpdate(t, a, v) PROVE Flushed'
  BY <1>2, <1>4 DEF LogUpdate
<1>5. ASSUME NEW t \in Tids, End(t) PROVE Flushed'
  <2>1. step' = [at |-> "flush", tid |-> t, next |-> 1]
    BY <1>5 DEF End
  <2>2. \A pw, db, u : FlushedTo(pw, db, u, 1)
    BY DEF FlushedTo, LastOf, PendingOf
  <2>3. step'.next = 1
    BY <2>1
  <2>4. FlushedTo(pending_writes', on_disk_db', step'.tid, step'.next)
    BY <2>2, <2>3, Zenon
  <2>5. QED BY <2>4 DEF Flushed
<1>6. CASE Flush
  <2>1. CASE LogEnd
    BY <1>1, <1>2, <2>1 DEF LogEnd
  <2>2. ASSUME FlushNext, mode = "redo" PROVE Flushed'
    <3> DEFINE t == step.tid
               n == step.next
               pw == pending_writes
    <3>1. PICK i \in ToFlush :
            /\ \A j \in ToFlush : i <= j
            /\ on_disk_db' = [on_disk_db EXCEPT ![pending_writes[i][2]] = pending_writes[i][3]]
            /\ step' = [step EXCEPT !.next = i + 1]
      BY <2>2 DEF FlushNext
    <3>2. /\ step.at = "flush" /\ t \in Tids /\ n \in Nat /\ pw' = pw
          /\ step = [at |-> "flush", tid |-> t, next |-> n]
      BY <1>6, StepTypes DEF Flush, Known
    <3>3. step'.tid = t /\ step'.next = i+1
      BY <3>1, <3>2
    <3>4. FlushedTo(pw, on_disk_db, t, n)
      BY <2>2, <3>2 DEF Flushed
    <3>5. /\ i \in 1..Len(pw) /\ i >= n /\ pw[i][1] = t /\ i \in Nat /\ Len(pw) \in Nat
          /\ DOMAIN pw = 1..Len(pw)
      BY FlushedWrite, LenProperties DEF ToFlush, Known, TypeOK
    <3>6. \A a \in Accounts : on_disk_db'[a] = IF a = pw[i][2] THEN pw[i][3] ELSE on_disk_db[a]
      BY <3>1 DEF Known, TypeOK, Stored
    <3>7. \A p \in 1..Len(pw) : pw[p][1] = t => p < n \/ i <= p
      BY <3>1, <3>2, <3>5 DEF ToFlush
    <3> HIDE DEF t, n, pw
    <3>8. FlushedTo(pw, on_disk_db', t, i+1)
      <4>1. ASSUME NEW a \in Accounts, NEW p, LastOf(pw, t, a, p), p < i+1 PROVE on_disk_db'[a] = pw[p][3]
        <5>1. p \in 1..Len(pw) /\ pw[p][1] = t /\ pw[p][2] = a /\ p \in Nat
          BY <3>5, <4>1 DEF LastOf, PendingOf
        <5>2. CASE p = i
          BY <3>6, <5>1, <5>2
        <5>3. CASE p # i
          <6>1. p < i
            BY <3>5, <4>1, <5>1, <5>3
          <6>2. p < n
            BY <3>5, <3>7, <5>1, <6>1
          <6>3. a # pw[i][2]
            <7>1. pw[i][2] = a => i <= p
              BY <3>5, <4>1 DEF LastOf, PendingOf
            <7>2. QED BY <3>5, <5>1, <6>1, <7>1
          <6>4. QED BY <3>4, <3>6, <4>1, <6>2, <6>3 DEF FlushedTo
        <5>4. QED BY <5>2, <5>3
      <4>2. QED BY <4>1 DEF FlushedTo
    <3>9. FlushedTo(pending_writes', on_disk_db', step'.tid, step'.next)
      BY <3>2, <3>3, <3>8 DEF pw
    <3>10. QED BY <3>9 DEF Flushed
  <2>3. QED BY <1>1, <1>6, <2>1, <2>2 DEF Flush, Flushed
<1>7. CASE WriteToDisk
  BY <1>1, <1>2, <1>7 DEF WriteToDisk
<1>8. CASE Checkpoint
  BY <1>1, <1>2, <1>8 DEF Checkpoint, Ready, volatile
<1>9. CASE Crash \/ Dies
  BY <1>1, <1>2, <1>9 DEF Crash, Dies, Forgotten
<1>10. CASE Recover
  BY <1>1, <1>2, <1>10 DEF Recover, Known, StatusOK, Down
<1>11. CASE UNCHANGED vars
  <2>1. UNCHANGED <<mode, step, pending_writes, on_disk_db>>
    BY <1>11 DEF vars, volatile
  <2>2. mode = "redo" /\ step.at = "flush" =>
          FlushedTo(pending_writes', on_disk_db', step'.tid, step'.next)
    BY <2>1 DEF Flushed
  <2>3. QED BY <2>1, <2>2 DEF Flushed
<1>12. QED BY <1>3, <1>4, <1>5, <1>6, <1>7, <1>8, <1>9, <1>10, <1>11 DEF Next

-----------------------------------------------------------------------------
(* The database in redo mode *)

\* Places of updates by transactions of S
LEMMA UpdatesAre ==
  \A log, S : \A i : i \in Updates(log, S) <=> \E u \in S : i \in At(log, "UPDATE", u)
BY DEF Updates, At

\* Steps that change neither the updates to do again nor the database
LEMMA RedoKept ==
  ASSUME Known, RedoData, mode' = mode, undumped' = undumped, committed' = committed, Db' = Db,
         clashed \subseteq clashed', SameToRedo(LOG, LOG')
  PROVE  RedoData'
<1> SUFFICES ASSUME mode = "redo", ~undumped
             PROVE  RedoData'
  BY DEF RedoData
<1>1. Brings(LOG, Db, committed, Kept) /\ LinesRight(LOG)
  BY LogFacts DEF RedoData, Known
<1>2. Brings(LOG', Db, committed, Kept)
  BY <1>1, SameRedo
<1>3. Brings(LOG', Db', committed', Kept')
  <2>1. Kept' \subseteq Kept
    BY DEF Kept
  <2>2. QED BY <1>2, <2>1 DEF Brings
<1>4. QED BY <1>3 DEF RedoData

\* Lines that leave the updates to do again as they are
LEMMA SameRedoThen ==
  ASSUME Known, \/ LOG' = LOG
                \/ SameUpdates(LOG, LOG') /\ Owed(LOG') = Owed(LOG)
  PROVE  SameToRedo(LOG, LOG')
<1>1. CASE LOG' = LOG
  BY <1>1 DEF SameToRedo
<1>2. CASE SameUpdates(LOG, LOG') /\ Owed(LOG') = Owed(LOG)
  <2>1. Updates(LOG', Owed(LOG')) = Updates(LOG, Owed(LOG))
    <3>1. ASSUME NEW i PROVE i \in Updates(LOG', Owed(LOG')) <=> i \in Updates(LOG, Owed(LOG))
      BY <1>2, UpdatesAre DEF SameUpdates
    <3>2. QED BY <3>1
  <2>2. QED BY <1>2, <2>1, UpdatesAre DEF SameUpdates, SameToRedo
<1>3. QED BY <1>1, <1>2

\* The owed transactions of a process that is up are at work on different kept accounts.
LEMMA OwedAlone ==
  ASSUME Control, mode = "redo", up
  PROVE  /\ AloneIn(LOG, Owed(LOG), Kept)
         /\ \A t \in Unsettled : AloneIn(LOG, Owed(LOG) \union {t}, Kept)
<1>1. \A u \in Owed(LOG) : u \in Unsettled
  BY DEF Control, Known, StatusOK, OwnRight, Unsettled, Owed
<1>2. AloneIn(LOG, Unsettled, Kept)
  BY DEF Control, Alone
<1>3. QED BY <1>1, <1>2 DEF AloneIn

\* Each action keeps the database right.
LEMMA RedoUpdates ==
  ASSUME Known, RedoData, NEW t \in Tids, NEW a \in Accounts, NEW v \in Values, LogUpdate(t, a, v)
  PROVE  RedoData'
<1>1. /\ GrowsBy("UPDATE", {t}) /\ tid_stat[t] = "COMMITING"
      /\ UNCHANGED <<mode, up, DB, on_disk_db, committed, undumped>> /\ clashed \subseteq clashed'
  BY UpdateGrows DEF UpdateLogged, LogUpdate
<1>2. /\ \A u : u # t => At(LOG', "UPDATE", u) = At(LOG, "UPDATE", u)
      /\ Owed(LOG') = Owed(LOG) /\ \A i \in 1..Len(LOG) : LOG'[i] = LOG[i]
  BY <1>1, LinesThen DEF GrowsBy, Adds, Grown
<1>3. t \notin Owed(LOG)
  BY <1>1 DEF Known, StatusOK, StatRight, Open, Owed
<1>4. Updates(LOG', Owed(LOG')) = Updates(LOG, Owed(LOG))
  <2>1. ASSUME NEW i PROVE i \in Updates(LOG', Owed(LOG')) <=> i \in Updates(LOG, Owed(LOG))
    <3>1. \A u \in Owed(LOG) : At(LOG', "UPDATE", u) = At(LOG, "UPDATE", u)
      BY <1>2, <1>3
    <3>2. QED BY <1>2, <3>1, UpdatesAre
  <2>2. QED BY <2>1
<1>5. SameToRedo(LOG, LOG')
  BY <1>2, <1>4 DEF SameToRedo, Updates
<1>6. Db' = Db
  BY <1>1 DEF Db
<1>7. QED BY <1>1, <1>5, <1>6, RedoKept

LEMMA RedoCommits ==
  ASSUME Control, RedoData, mode = "redo", ~undumped, NEW t \in Tids, Commit(t)
  PROVE  RedoData'
<1>1. /\ up /\ tid_stat[t] = "COMMITING"
      /\ committed' = Replayed(committed, LOG, UpdatesOf(t))
      /\ UNCHANGED <<mode, up, DB, on_disk_db, clashed, undumped>>
  BY DEF Commit, Ready
<1>2. Known /\ LinesRight(LOG)
  BY LogFacts DEF Known, Control
<1>3. GrowsBy("OUTCOME", {t})
  BY <1>2, CommitGrows
<1>4. /\ \A u : At(LOG', "UPDATE", u) = At(LOG, "UPDATE", u)
      /\ Owed(LOG') = Owed(LOG) \union {t} /\ \A i \in 1..Len(LOG) : LOG'[i] = LOG[i]
  BY <1>2, <1>3, LinesThen DEF GrowsBy, Adds, Grown
<1>5. t \notin Owed(LOG) /\ t \in Unsettled
  BY <1>1, <1>2 DEF Known, StatusOK, StatRight, Open, Owed, Unsettled
<1>6. DueWith(LOG, LOG', t)
  <2>1. ASSUME NEW i
        PROVE  i \in Updates(LOG', Owed(LOG')) <=> i \in Updates(LOG, Owed(LOG)) \union At(LOG, "UPDATE", t)
    BY <1>4, UpdatesAre
  <2>2. QED BY <1>4, <2>1 DEF DueWith
<1>7. AloneIn(LOG, Owed(LOG) \union {t}, Kept)
  BY <1>1, <1>5, OwedAlone
<1>8. committed' = Replayed(committed, LOG, At(LOG, "UPDATE", t))
  BY <1>1, <1>2, UpdatesOfAre DEF Known
<1>9. Brings(LOG', Db, committed', Kept)
  BY <1>2, <1>5, <1>6, <1>7, <1>8, CommittedRedo DEF RedoData, Kept
<1>10. Db' = Db /\ Kept' = Kept
  BY <1>1 DEF Db, Kept
<1>11. Brings(LOG', Db', committed', Kept')
  BY <1>9, <1>10
<1>12. QED BY <1>11 DEF RedoData

LEMMA RedoFlushes ==
  ASSUME Known, RedoData, Pending, mode = "redo", ~undumped, Flush, FlushNext
  PROVE  RedoData'
<1>1. PICK i \in ToFlush : on_disk_db' = [on_disk_db EXCEPT ![pending_writes[i][2]] = pending_writes[i][3]]
  BY DEF FlushNext
<1>2. /\ up /\ step.at = "flush" /\ LOG' = LOG /\ UNCHANGED <<mode, up, DB, committed, clashed, undumped>>
      /\ LinesRight(LOG)
  BY LogFacts DEF Flush, FlushNext, history, Known
<1>3. /\ i \in 1..Len(pending_writes) /\ pending_writes[i][1] = step.tid
      /\ pending_writes[i][2] \in Accounts
  BY FlushedWrite DEF ToFlush, Known
<1>4. step.tid \in Owed(LOG)
  BY <1>2, StepTypes DEF Known, StatusOK, StepRight, StatRight
<1>5. Due(LOG, pending_writes[i][2]) # {}
  <2>1. PICK k \in At(LOG, "UPDATE", step.tid) : LOG[k].variable = pending_writes[i][2]
    BY <1>3 DEF Pending, AllLogged
  <2>2. QED BY <1>4, <2>1, UpdatesAre DEF Due
<1>6. Db = on_disk_db /\ Db' = on_disk_db'
  BY <1>2 DEF Db
<1>7. \A a \in Accounts : a # pending_writes[i][2] => on_disk_db'[a] = on_disk_db[a]
  BY <1>1 DEF Known, TypeOK, Stored
<1>8. Brings(LOG, Db', committed, Kept)
  BY <1>5, <1>6, <1>7 DEF RedoData, Brings, Kept
<1>9. Brings(LOG', Db', committed', Kept')
  BY <1>2, <1>8 DEF Kept
<1>10. QED BY <1>9 DEF RedoData

LEMMA RedoEnds ==
  ASSUME Control, RedoData, Pending, Flushed, mode = "redo", ~undumped, Flush, LogEnd
  PROVE  RedoData'
<1> DEFINE t == step.tid
<1>1. /\ up /\ step.at = "flush" /\ ToFlush = {}
      /\ UNCHANGED <<mode, up, DB, on_disk_db, committed, clashed, undumped>>
  BY DEF Flush, LogEnd, history
<1>2. Known /\ LinesRight(LOG)
  BY LogFacts DEF Known, Control
<1>3. t \in Tids /\ t \in Owed(LOG) /\ GrowsBy("END", {t})
  BY <1>1, <1>2, EndGrows
<1>4. /\ \A u : At(LOG', "UPDATE", u) = At(LOG, "UPDATE", u)
      /\ Owed(LOG') = Owed(LOG) \ {t} /\ \A i \in 1..Len(LOG) : LOG'[i] = LOG[i]
  BY <1>2, <1>3, LinesThen DEF GrowsBy, Adds, Grown
<1>5. DueWithout(LOG, LOG', t)
  <2>1. \A i, u : i \in At(LOG, "UPDATE", u) /\ i \in At(LOG, "UPDATE", t) => u = t
    BY DEF At
  <2>2. ASSUME NEW i
        PROVE  i \in Updates(LOG', Owed(LOG')) <=> i \in Updates(LOG, Owed(LOG)) \ At(LOG, "UPDATE", t)
    BY <1>4, <2>1, UpdatesAre
  <2>3. QED BY <1>4, <2>2 DEF DueWithout
<1>6. AloneIn(LOG, Owed(LOG), Kept)
  BY <1>1, OwedAlone
<1>7. ASSUME NEW k, Latest(LOG, t, k) PROVE Db[LOG[k].variable] = LOG[k].redo
  <2>1. t \in Unsettled /\ Unwritten = 0
    BY <1>1, <1>2, <1>3 DEF Known, StatusOK, OwnRight, Unsettled, Unwritten
  <2>2. k # 0 /\ LOG[k].variable \in Accounts
    BY <1>2, <1>7 DEF Latest, At, LinesRight, LineRight
  <2>3. PICK p : LastOf(pending_writes, t, LOG[k].variable, p) /\ pending_writes[p][3] = LOG[k].redo
    BY <1>7, <2>1, <2>2 DEF Pending, LatestPending
  <2>4. p < step.next
    <3>1. p \in DOMAIN pending_writes /\ pending_writes[p][1] = t /\ p \in Nat /\ step.next \in Nat
      BY <1>1, <1>2, <2>3, LenProperties, StepTypes DEF LastOf, PendingOf, Known, TypeOK
    <3>2. p \notin ToFlush
      BY <1>1
    <3>3. QED BY <3>1, <3>2 DEF ToFlush
  <2>5. on_disk_db[LOG[k].variable] = pending_writes[p][3]
    BY <1>1, <2>2, <2>3, <2>4 DEF Flushed, FlushedTo
  <2>6. QED BY <1>1, <2>3, <2>5 DEF Db
<1> HIDE DEF t
<1>8. Brings(LOG', Db, committed, Kept)
  BY <1>2, <1>3, <1>5, <1>6, <1>7, EndedRedo DEF RedoData
<1>9. Db' = Db /\ Kept' = Kept
  BY <1>1 DEF Db, Kept
<1>10. Brings(LOG', Db', committed', Kept')
  BY <1>1, <1>8, <1>9
<1>11. QED BY <1>10 DEF RedoData

LEMMA RedoRecovers ==
  ASSUME Known, RedoData, mode = "redo", ~undumped, Recover
  PROVE  RedoData'
<1>1. ~up /\ up' = TRUE /\ UNCHANGED <<mode, committed, clashed, undumped>>
  BY DEF Recover, history
<1>2. GrowsBy("END", Owed(LOG)) /\ on_disk_db' = Replayed(DB, LOG, Updates(LOG, Owed(LOG)))
  BY RecoverGrows DEF RedoRecovered
<1>3. Db = DB /\ Db' = on_disk_db' /\ Kept' = Kept /\ Kept \in SUBSET Accounts
  BY <1>1 DEF Db, Kept
<1>4. \A a \in Kept : on_disk_db'[a] = committed[a]
  BY <1>2, <1>3, ReplayedBrings DEF RedoData
<1>5. Owed(LOG') = {}
  BY <1>2, LinesThen
<1>6. \A a : Due(LOG', a) = {}
  BY <1>5 DEF Due, Updates
<1>7. Brings(LOG', Db', committed', Kept')
  BY <1>1, <1>3, <1>4, <1>6 DEF Brings
<1>8. QED BY <1>7 DEF RedoData

\* Every step keeps it right.
LEMMA RedoDataStays ==
  ASSUME Control, RedoData, Pending, Flushed, [Next]_vars
  PROVE  RedoData'
<1>1. mode' = mode /\ (undumped => undumped')
  BY DEF Next, Begin, Commit, End, LogUpdate, WriteToDisk, Flush, Checkpoint, Crash, Dies, Recover, vars,
         history
<1> SUFFICES ASSUME mode = "redo", ~undumped, ~undumped'
             PROVE  RedoData'
  BY <1>1 DEF RedoData
<1>2. Known
  BY DEF Control
<1>3. ASSUME NEW t \in Tids, Begin(t) PROVE RedoData'
  <2>1. GrowsBy("START", {t})
    BY <1>2, <1>3, BeginGrows
  <2>2. SameToRedo(LOG, LOG')
    BY <1>2, <2>1, SameUpdatesThen, LinesThen, SameRedoThen
  <2>3. QED BY <1>2, <1>3, <2>2, RedoKept DEF Begin, history, Db
<1>4. ASSUME NEW t \in Tids, Commit(t) PROVE RedoData'
  BY <1>4, RedoCommits
<1>5. ASSUME NEW t \in Tids, End(t) PROVE RedoData'
  <2>1. SameToRedo(LOG, LOG')
    BY <1>2, <1>5, SameRedoThen DEF End
  <2>2. QED BY <1>2, <1>5, <2>1, RedoKept DEF End, history, Db
<1>6. ASSUME NEW t \in Tids, NEW a \in Accounts, NEW v \in Values, LogUpdate(t, a, v) PROVE RedoData'
  BY <1>2, <1>6, RedoUpdates
<1>7. CASE WriteToDisk
  <2>1. SameToRedo(LOG, LOG')
    BY <1>2, <1>7, SameRedoThen DEF WriteToDisk
  <2>2. QED BY <1>2, <1>7, <2>1, RedoKept DEF WriteToDisk, history, Db
<1>8. CASE Flush
  <2>1. CASE FlushNext
    BY <1>2, <1>8, <2>1, RedoFlushes
  <2>2. CASE LogEnd
    BY <1>8, <2>2, RedoEnds
  <2>3. QED BY <1>8, <2>1, <2>2 DEF Flush
<1>9. CASE Checkpoint
  <2>1. Owed(LOG') = Owed(LOG)
    BY <1>2, <1>9, CheckpointMarks, MarkedSame, LogFacts DEF Known
  <2>2. SameToRedo(LOG, LOG')
    BY <1>2, <1>9, <2>1, SameUpdatesThen, SameRedoThen
  <2>3. QED BY <1>2, <1>9, <2>2, RedoKept DEF Checkpoint, history, volatile, Db
<1>10. CASE Crash
  <2>1. SameToRedo(LOG, LOG')
    BY <1>2, <1>10, SameRedoThen DEF Crash
  <2>2. QED BY <1>2, <1>10, <2>1, RedoKept DEF Crash, Db
<1>11. CASE Dies
  BY <1>11 DEF Dies
<1>12. CASE Recover
  BY <1>2, <1>12, RedoRecovers
<1>13. CASE UNCHANGED vars
  <2>1. SameToRedo(LOG, LOG')
    BY <1>2, <1>13, SameRedoThen DEF vars
  <2>2. QED BY <1>2, <1>13, <2>1, RedoKept DEF vars, history, volatile, Db
<1>14. QED BY <1>3, <1>4, <1>5, <1>6, <1>7, <1>8, <1>9, <1>10, <1>11, <1>12, <1>13 DEF Next

-----------------------------------------------------------------------------
(* Theorems *)

Inv == Control /\ UndoData /\ Pending /\ Flushed /\ RedoData

\* The invariant holds at first, and every step keeps it.
LEMMA InitInv ==
  ASSUME Init
  PROVE  Inv
<1>1. /\ mode \in {"redo", "undo"} /\ up = TRUE /\ LOG = <<>> /\ DB = NoAccounts
      /\ tid_stat = [t \in Tids |-> "not initialized"]
      /\ current_db = NoAccounts /\ on_disk_db = NoAccounts
      /\ pending_writes = <<>> /\ step = NoStep /\ committed = NoAccounts /\ undumped = FALSE
  BY DEF Init
<1>2. Len(LOG) = 0 /\ LOG \in Seq(Lines) /\ pending_writes \in Seq(Tids \X Accounts \X Values)
  BY <1>1, EmptySeq
<1>3. TypeOK
  <2>1. NoAccounts \in Stored /\ NoStep \in Steps /\ tid_stat \in [Tids -> Stats]
    BY <1>1 DEF NoAccounts, Stored, Steps, Stats
  <2>2. QED BY <1>1, <1>2, <2>1 DEF TypeOK
<1>4. /\ \A type, t : At(LOG, type, t) = {}
      /\ \A t : Mentions(LOG, t) = {}
      /\ Checkpoints(LOG) = {}
  BY <1>2 DEF At, Mentions, Checkpoints
<1>5. Open(LOG) = {} /\ Owed(LOG) = {} /\ \A S : Updates(LOG, S) = {}
  BY <1>2, <1>4 DEF Open, Owed, Updates
<1>6. LogGood
  <2>1. LinesRight(LOG) /\ InOrder(LOG) /\ PendingRight(LOG) /\ DoneRight(LOG)
    BY <1>2, <1>4 DEF LinesRight, InOrder, Ordered, PendingRight, DoneRight
  <2>2. UndoLog(LOG) /\ RedoLog(LOG)
    BY <1>4 DEF UndoLog, RedoLog, OpenNamed, PendingNamed, OwedNamed, NoneAborted
  <2>3. QED BY <2>1, <2>2 DEF LogGood, LogRight
<1>7. \A t \in Tids : tid_stat[t] = "not initialized"
  BY <1>1
<1>8. StatusOK
  <2>1. StatRight(LOG, tid_stat) /\ OwnRight /\ Numbers(LOG) /\ Down
    BY <1>1, <1>4, <1>5, <1>7 DEF StatRight, OwnRight, Numbers, Down
  <2>2. StepRight
    BY <1>1 DEF StepRight, NoStep
  <2>3. QED BY <2>1, <2>2 DEF StatusOK
<1>9. Settled /\ Alone
  BY <1>4 DEF Settled, SettledIn, Alone, AloneIn
<1>10. Db = NoAccounts
  BY <1>1 DEF Db
<1>11. UndoData
  <2>1. \A a : Of(LOG, a) = {}
    BY <1>5 DEF Of
  <2>2. /\ Leaves(LOG, Db, committed, Kept) /\ LastWritten(LOG, Db, InFlight, Kept)
        /\ Overwrites(LOG) /\ Written(LOG, Db, InFlight) /\ Written(LOG, current_db, InFlight)
    BY <1>1, <1>5, <1>10, <2>1 DEF Leaves, LastWritten, Overwrites, Written
  <2>3. Shown(current_db, on_disk_db)
    BY <1>1 DEF Shown
  <2>4. QED BY <1>1, <2>2, <2>3 DEF UndoData
<1>12. Pending
  <2>1. AllLogged(LOG, pending_writes)
    <3>1. Len(pending_writes) = 0
      BY <1>1, EmptySeq
    <3>2. QED BY <3>1 DEF AllLogged
  <2>2. LatestPending(LOG, pending_writes, Unsettled, Unwritten)
    BY <1>4 DEF LatestPending, Latest
  <2>3. QED BY <2>1, <2>2 DEF Pending
<1>13. Flushed
  BY <1>1 DEF Flushed, NoStep
<1>14. RedoData
  BY <1>1, <1>5, <1>10 DEF RedoData, Brings, Due
<1>15. QED BY <1>3, <1>6, <1>8, <1>9, <1>11, <1>12, <1>13, <1>14 DEF Inv, Control, Known

LEMMA NextInv ==
  ASSUME Inv, [Next]_vars
  PROVE  Inv'
<1>1. Known /\ Settled /\ Alone /\ Control /\ UndoData /\ Pending /\ Flushed /\ RedoData
  BY DEF Inv, Control
<1>2. TypeOK' /\ LogGood' /\ StatusOK'
  BY <1>1, TypeStays, GoodAlways, StatusStays
<1>3. Settled' /\ Alone'
  BY <1>1, SettledStays, AloneStays
<1>4. UndoData' /\ Pending' /\ Flushed' /\ RedoData'
  BY <1>1, UndoDataStays, PendingStays, FlushedStays, RedoDataStays
<1>5. QED BY <1>2, <1>3, <1>4 DEF Inv, Control, Known

\* At every step of a command and after every crash tid_stat says of the transactions
\* what the log says; and from the log and the database recovery makes what was
\* committed, in every account that was used alone.
THEOREM Invariance == Spec => []Inv
<1>1. Init => Inv
  BY InitInv
<1>2. Inv /\ [Next]_vars => Inv'
  BY NextInv
<1>3. QED BY <1>1, <1>2, PTL DEF Spec

\* What recovery would do now
LEMMA AfterCrashIs ==
  ASSUME Inv
  PROVE  /\ RecoversTo(LOG, Db, AfterCrash) /\ LinesRight(LOG) /\ LogRight(LOG) /\ Db \in Stored /\ committed \in Stored
         /\ DOMAIN LOG = 1..Len(LOG) /\ Len(LOG) \in Nat /\ LOG \in Seq(Lines) /\ mode \in {"redo", "undo"}
<1>1. TypeOK /\ LogGood
  BY DEF Inv, Control, Known
<1>2. /\ ReadyToScan(LOG) /\ DOMAIN LOG = 1..Len(LOG) /\ LinesRight(LOG) /\ Len(LOG) \in Nat
      /\ LogRight(LOG)
  BY <1>1, LogFacts
<1>3. Db \in Stored /\ committed \in Stored
  BY <1>1 DEF Db, TypeOK
<1>4. RecoversTo(LOG, Db, Recovered(LOG, Db))
  BY <1>2, <1>3, RecoveredIs
<1>5. AfterCrash = Recovered(LOG, Db)
  BY Zenon DEF AfterCrash, Db
<1>6. QED BY <1>1, <1>2, <1>3, <1>4, <1>5 DEF TypeOK

\* Whenever do_crash() is called, recovery leaves what the committed transactions
\* wrote, in every account that was used alone.
THEOREM CommittedSurvive == Spec => []Survivable
<1>1. Inv => Survivable
  <2> SUFFICES ASSUME Inv, ~undumped, ~AfterCrash.died
               PROVE  \A a \in Kept : AfterCrash.db[a] = committed[a]
    BY DEF Survivable, Kept
  <2>1. /\ RecoversTo(LOG, Db, AfterCrash) /\ LinesRight(LOG) /\ mode \in {"redo", "undo"}
        /\ Kept \in SUBSET Accounts
    BY AfterCrashIs DEF Kept
  <2>2. CASE mode = "undo"
    <3>1. AfterCrash.db = UndoneFrom(Db, LOG, 1)
      BY <2>1, <2>2 DEF RecoversTo
    <3>2. Leaves(LOG, Db, committed, Kept)
      BY <2>2 DEF Inv, UndoData
    <3>3. QED BY <2>1, <3>1, <3>2, UndoneIsLeft
  <2>3. CASE mode = "redo"
    <3>1. AfterCrash.db = Replayed(Db, LOG, Updates(LOG, Owed(LOG)))
      BY <2>1, <2>3 DEF RecoversTo
    <3>2. Brings(LOG, Db, committed, Kept)
      BY <2>3 DEF Inv, RedoData
    <3>3. QED BY <2>1, <3>1, <3>2, ReplayedBrings
  <2>4. QED BY <2>1, <2>2, <2>3
<1>2. QED BY <1>1, Invariance, PTL

\* Undoing raises no exception but for an account that was to be created by the last line.
LEMMA FailsAtTheEnd ==
  ASSUME Inv, ~undumped, NEW j \in 1..Len(LOG), Fails(LOG, Db, j)
  PROVE  mode = "undo" /\ LOG[j].type = "UPDATE" /\ LOG[j].undo = Absent /\ j = Len(LOG)
<1> DEFINE a == LOG[j].variable
           of == {i \in Updates(LOG, Open(LOG)) : j+1 <= i /\ LOG[i].variable = a}
<1>1. /\ mode = "undo" /\ j \in Updates(LOG, Open(LOG)) /\ LOG[j].undo = Absent
      /\ UndoneFrom(Db, LOG, j+1)[a] = Absent
  BY DEF Fails
<1>2. LinesRight(LOG) /\ Len(LOG) \in Nat
  BY AfterCrashIs
<1>3. LOG[j].type = "UPDATE" /\ a \in Accounts /\ LOG[j].redo \in Values
  BY <1>1, <1>2 DEF Updates, LinesRight, LineRight
<1>4. Written(LOG, Db, InFlight) /\ Overwrites(LOG)
  BY <1>1 DEF Inv, UndoData
<1>5. UndoneFrom(Db, LOG, j+1)[a] = IF of = {} THEN Db[a] ELSE LOG[Min(of)].undo
  BY <1>3 DEF UndoneFrom
<1>6. of = Later(LOG, j)
  <2>1. \A i \in Updates(LOG, Open(LOG)) : i \in Nat
    BY DEF Updates
  <2>2. QED BY <2>1 DEF Later, Of
<1> HIDE DEF of
<1>7. CASE of = {}
  <2>1. Db[a] = Absent
    BY <1>1, <1>5, <1>7
  <2>2. j = InFlight
    BY <1>1, <1>3, <1>4, <1>6, <1>7, <2>1, ValueAssumption DEF Written
  <2>3. j = Len(LOG)
    BY <2>2 DEF InFlight
  <2>4. QED BY <1>1, <1>3, <2>3
<1>8. CASE of # {}
  <2>1. of \subseteq Nat
    BY <1>6 DEF Later, Of, Updates
  <2>2. Min(of) \in of
    BY <1>8, <2>1, MinGives
  <2>3. LOG[Min(of)].undo # Absent
    BY <1>1, <1>4, <1>6, <2>2 DEF Overwrites
  <2>4. QED BY <1>1, <1>5, <1>8, <2>3
<1>9. QED BY <1>7, <1>8

\* Recovery comes to its end, but for the two cases that RecoveryEnds names.
THEOREM RecoveryTerminates == Spec => []RecoveryEnds
<1>1. Inv => RecoveryEnds
  <2> SUFFICES ASSUME Inv, ~undumped, AfterCrash.died
               PROVE  \/ \E i \in InLog("CHECKPOINT") : LOG[i].committed # {}
                      \/ mode = "undo" /\ \E i \in InLog("UPDATE") : LOG[i].undo = Absent
                           /\ \A j \in DOMAIN LOG : j > i => LOG[j].type = "CHECKPOINT"
    BY DEF RecoveryEnds
  <2>1. DiedFor(LOG, Db) /\ DOMAIN LOG = 1..Len(LOG) /\ Len(LOG) \in Nat
    BY AfterCrashIs DEF RecoversTo
  <2>2. CASE \E c \in Checkpoints(LOG) : LOG[c].committed # {}
    BY <2>1, <2>2 DEF Checkpoints, InLog
  <2>3. ASSUME NEW j \in 1..Len(LOG), Fails(LOG, Db, j)
        PROVE  mode = "undo" /\ \E i \in InLog("UPDATE") : LOG[i].undo = Absent
                 /\ \A k \in DOMAIN LOG : k > i => LOG[k].type = "CHECKPOINT"
    <3>1. mode = "undo" /\ LOG[j].type = "UPDATE" /\ LOG[j].undo = Absent /\ j = Len(LOG)
      BY <2>3, FailsAtTheEnd
    <3>2. j \in InLog("UPDATE") /\ \A k \in DOMAIN LOG : ~(k > j)
      BY <2>1, <3>1 DEF InLog
    <3>3. QED BY <3>1, <3>2
  <2>4. QED BY <2>1, <2>2, <2>3 DEF DiedFor
<1>2. QED BY <1>1, Invariance, PTL

\* The log as recovery would leave it is well formed, too.
LEMMA RecoveredLogRight ==
  ASSUME Inv, ~AfterCrash.died
  PROVE  LogRight(LOG \o AfterCrash.lines) /\ LOG \o AfterCrash.lines \in Seq(Lines)
<1>1. /\ RecoversTo(LOG, Db, AfterCrash) /\ LogRight(LOG) /\ LOG \in Seq(Lines)
      /\ mode \in {"redo", "undo"}
  BY AfterCrashIs
<1>2. Open(LOG) \in SUBSET Tids /\ Owed(LOG) \in SUBSET Tids
  BY DEF Open, Owed
<1> DEFINE new == LOG \o AfterCrash.lines
<1>3. CASE mode = "undo"
  <2>1. new = LOG \o Aborts(Open(LOG))
    BY <1>1, <1>3 DEF RecoversTo
  <2> HIDE DEF new
  <2>2. new \in Seq(Lines) /\ Adds(LOG, new, "OUTCOME", Open(LOG))
    BY <1>1, <1>2, <2>1, AbortsAdd
  <2>3. Allowed(LOG, "OUTCOME", Open(LOG))
    BY DEF Allowed
  <2>4. QED BY <1>1, <2>2, <2>3, GrownRight DEF new
<1>4. CASE mode = "redo"
  <2>1. new = LOG \o Ends(Owed(LOG))
    BY <1>1, <1>4 DEF RecoversTo
  <2> HIDE DEF new
  <2>2. new \in Seq(Lines) /\ Adds(LOG, new, "END", Owed(LOG))
    BY <1>1, <1>2, <2>1, EndsAdd
  <2>3. Allowed(LOG, "END", Owed(LOG))
    BY DEF Allowed
  <2>4. QED BY <1>1, <2>2, <2>3, GrownRight DEF new
<1>5. QED BY <1>1, <1>3, <1>4

\* No transaction is told to have committed and to have aborted.
THEOREM OutcomesAgree == Spec => []OneOutcome
<1>1. Inv => OneOutcome
  <2> SUFFICES ASSUME Inv PROVE OneOutcome
    OBVIOUS
  <2> DEFINE log == IF undumped \/ AfterCrash.died THEN LOG ELSE LOG \o AfterCrash.lines
  <2>1. LogRight(log) /\ log \in Seq(Lines)
    BY AfterCrashIs, RecoveredLogRight
  <2> HIDE DEF log
  <2>2. ASSUME NEW i \in DOMAIN log, NEW j \in DOMAIN log,
               log[i].type = "OUTCOME", log[j].type = "OUTCOME", log[i].tid = log[j].tid
        PROVE  log[i].status = log[j].status
    <3>1. i \in 1..Len(log) /\ j \in 1..Len(log)
      BY <2>1, LenProperties
    <3>2. log[i].tid \in Tids
      BY <2>1, <2>2, <3>1 DEF LogRight, LinesRight, LineRight
    <3>3. i \in At(log, "OUTCOME", log[i].tid) /\ j \in At(log, "OUTCOME", log[i].tid)
      BY <2>2, <3>1 DEF At
    <3>4. i = j
      BY <2>1, <3>2, <3>3 DEF LogRight, InOrder, Ordered
    <3>5. QED BY <3>4
  <2>3. QED BY <2>2 DEF OneOutcome, log
<1>2. QED BY <1>1, Invariance, PTL
=============================================================================
