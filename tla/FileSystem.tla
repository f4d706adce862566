----------------------------- MODULE FileSystem -----------------------------
(***************************************************************************)
(* One directory of yfs_client over the inode manager.                     *)
(*                                                                         *)
(* The directory is a file that lists names and inode numbers; an entry    *)
(* takes a chunk.  An operation is one step: it holds the lock of what it  *)
(* changes, and create() and mkdir() a lock of their own in addition.  A   *)
(* put reaches the server (ExtentCache is about those that do not yet).    *)
(* No name occurs within another one, nor in a number: unlink() finds a    *)
(* name by searching for its letters.                                      *)
(***************************************************************************)
EXTENDS InodeManager

CONSTANTS Names,
          Absent   \* what a name that is not listed has

ASSUME AbsentAssumption == \A k \in 0..MAXFILE : Absent \notin [1..k -> Values]

VARIABLES im,    \* the inode manager
          down,  \* the extent server has died
          last   \* history: the operation done last

vars == <<im, down, last>>

Root == 1

\* yfs_client::yfs_client() writes an empty root directory.
Init == im = WriteFile(Formatted, Root, << >>) /\ down = FALSE /\ last = << >>

\* readdir2()
Entries == ReadFile(im, Root)
Listed == {Entries[k].name : k \in DOMAIN Entries}
\* lookup2()
Position(n) == SelectInSeq(Entries, LAMBDA e : e.name = n)
Lookup(n) == Entries[Position(n)].inum
HasInode(n) == n \in Listed /\ Lookup(n) # 0

\* create(), mkdir() and mksym(): a new inode, and an entry in the directory.
\* Nobody looks whether there was an inode left: without one the entry says 0.
Create(n) ==
  LET i == AllocInode(im) IN
  /\ n \notin Listed /\ Len(Entries) < MAXFILE
  /\ im' = WriteFile(IF i = 0 THEN im ELSE PutInode(im, i), Root,
                     Append(Entries, [name |-> n, inum |-> i]))
  /\ last' = <<"create", n>> /\ UNCHANGED down

\* write(), setattr() and unlink() of a name with inode 0: get_inode(0) is NULL,
\* and write_file() and remove_file() follow it.
ServerDies(n) ==
  /\ n \in Listed /\ Lookup(n) = 0
  /\ down' = TRUE /\ UNCHANGED <<im, last>>

\* unlink(): the file is removed before the entry, the first one with the name.
Unlink(n) ==
  /\ HasInode(n)
  /\ im' = WriteFile(RemoveFile(im, Lookup(n)), Root, RemoveAt(Entries, Position(n)))
  /\ last' = <<"unlink", n>> /\ UNCHANGED down

\* buf.resize()
GrownOnly(s, k) ==  \* faulty variant
  [j \in 1..(IF k < Len(s) THEN Len(s) ELSE k) |-> IF j <= Len(s) THEN s[j] ELSE Zero]
Resized(s, k) == [j \in 1..k |-> IF j <= Len(s) THEN s[j] ELSE Zero]

\* write() of one chunk
Write(n, k, v) ==
  LET buf == ReadFile(im, Lookup(n))
      long == IF k > Len(buf) THEN Resized(buf, k) ELSE buf
  IN  /\ HasInode(n)
      /\ im' = WriteFile(im, Lookup(n), [long EXCEPT ![k] = v])
      /\ last' = <<"write", n, k, v>> /\ UNCHANGED down

\* setattr()
SetAttr(n, k) ==
  /\ HasInode(n)
  /\ im' = WriteFile(im, Lookup(n), Resized(ReadFile(im, Lookup(n)), k))
  /\ last' = <<"setattr", n, k>> /\ UNCHANGED down

\* What is written may take MAXFILE blocks, and a full disk is the end, as is the
\* death of the server.
Next ==
  /\ ~im.full /\ ~down
  /\ \E n \in Names :
       \/ Create(n) \/ Unlink(n) \/ ServerDies(n)
       \/ \E k \in 1..MAXFILE, v \in Values : Write(n, k, v)
       \/ \E k \in 0..MAXFILE : SetAttr(n, k)

Spec == Init /\ [][Next]_vars

-----------------------------------------------------------------------------
(* Properties *)

Live == ({Entries[k].inum : k \in DOMAIN Entries} \ {0}) \union {Root}

\* No inode is lost and none is shared: the allocated inodes are the root and those
\* listed, each under one name, whatever entries without an inode there are.
InodesListed ==
  ~im.full =>
    /\ im.inode_map = Live
    /\ \A k \in DOMAIN Entries : Entries[k].inum # Root
    /\ \A j, k \in DOMAIN Entries :
         Entries[j].inum = Entries[k].inum /\ Entries[j].inum # 0 => j = k

\* Every block in use belongs to one place of one file, or is an indirect block
\* that was left behind when its file was written anew or removed.  And the
\* bitmap says of every data block whether it is in use (inode_manager.cc:34 and
\* :57), though free_block() flips the bit and alloc_block() never looks at it.
BlocksOwned ==
  LET data(i) == ToSet(DataBlocks(im, i))
      owned(i) == (data(i) \union IndirectBlocks(im, i)) \ {0}
  IN  /\ im.bitmap \ {0} = im.using_blocks
      /\ ~im.full =>
           /\ im.using_blocks = im.lost \union UNION {owned(i) : i \in Live}
           /\ \A i \in Live : owned(i) \cap im.lost = {}
           /\ \A i, j \in Live : i # j => owned(i) \cap owned(j) = {}
           /\ \A i \in Live : 0 \notin data(i) =>
                /\ IsInjective(DataBlocks(im, i))
                /\ data(i) \cap IndirectBlocks(im, i) = {}

OneFileChanged ==
  Cardinality({i \in Live : i \in im'.inode_map /\ ReadFile(im', i) # ReadFile(im, i)}) <= 1

Tree == INSTANCE FileTree WITH
          MaxSize <- MAXFILE, MaxFiles <- INODE_NUM - 1,
          tree <- [n \in Names |-> IF HasInode(n) THEN ReadFile(im, Lookup(n)) ELSE Absent]

\* Until the disk is full, the blocks implement a tree of files: every name has its
\* own content, which no operation on another name touches, and create() makes a file
\* unless all inodes are in use.  The write that finds the disk full still changes
\* no more than one file or the directory.
TreeSpec ==
  Tree!TInit /\ [][IF im'.full THEN OneFileChanged ELSE [Tree!TNext]_Tree!tvars]_vars
=============================================================================
