------------------------------ MODULE FileTree ------------------------------
(***************************************************************************)
(* What the file system promises about one directory: every name has a     *)
(* content of its own, or none, and an operation changes one name.  There  *)
(* are MaxFiles files at most: a create beyond them leaves no file behind. *)
(***************************************************************************)
EXTENDS Naturals, Sequences, FiniteSets

CONSTANTS Names, Values,
          Zero,     \* what a hole is filled with
          MaxSize,  \* chunks of the largest file
          MaxFiles, \* files there may be at a time
          Absent    \* what a name without a file has

VARIABLES tree,  \* the content of each name
          last   \* the operation done last, with its arguments

tvars == <<tree, last>>

\* The content s cut or extended to n chunks
Resized(s, n) == [k \in 1..n |-> IF k <= Len(s) THEN s[k] ELSE Zero]
Longer(a, b) == IF a < b THEN b ELSE a

TInit == tree = [n \in Names |-> Absent] /\ last = << >>

Files == {n \in Names : tree[n] # Absent}

TCreate(n) ==
  /\ last' = <<"create", n>>
  /\ tree[n] = Absent
  /\ tree' = IF Cardinality(Files) = MaxFiles THEN tree ELSE [tree EXCEPT ![n] = << >>]

TUnlink(n) ==
  /\ last' = <<"unlink", n>>
  /\ tree[n] # Absent
  /\ tree' = [tree EXCEPT ![n] = Absent]

\* Chunk k is written, and what lies between the old end and it is filled.
TWrite(n, k, v) ==
  /\ last' = <<"write", n, k, v>>
  /\ tree[n] # Absent
  /\ tree' = [tree EXCEPT ![n] = [Resized(@, Longer(Len(@), k)) EXCEPT ![k] = v]]

TResize(n, k) ==
  /\ last' = <<"setattr", n, k>>
  /\ tree[n] # Absent
  /\ tree' = [tree EXCEPT ![n] = Resized(@, k)]

TNext ==
  \E n \in Names :
    \/ TCreate(n) \/ TUnlink(n)
    \/ \E k \in 1..MaxSize, v \in Values : TWrite(n, k, v)
    \/ \E k \in 0..MaxSize : TResize(n, k)
=============================================================================
