---------------------------- MODULE InodeManager ----------------------------
(***************************************************************************)
(* inode_manager.cc: disk, block_manager and inode_manager, as operators   *)
(* on a record m of their state.                                           *)
(*                                                                         *)
(* A file is a sequence of chunks of BLOCK_SIZE bytes.  Blocks are numbered*)
(* from START_OF_DATA_BLOCK, here 1; block 0 is no data block, yet it is   *)
(* what alloc_block answers when there is none left, and what the inode of *)
(* a file never written points to.  Each handler of the extent server is   *)
(* taken to be alone in here: the classes have no mutex.                   *)
(***************************************************************************)
EXTENDS Integers, SequencesExt

CONSTANTS INODE_NUM,  \* inodes, numbered from 1; the first is the root directory
          BLOCK_NUM,  \* data blocks
          NDIRECT, NINDIRECT,
          Values,     \* chunks of data
          Zero        \* the chunk of '\0'

ASSUME SizeAssumption ==
  /\ INODE_NUM \in Nat \ {0} /\ BLOCK_NUM \in Nat
  /\ NDIRECT \in Nat \ {0} /\ NINDIRECT \in Nat
  /\ Zero \in Values

Inums == 1 .. INODE_NUM
Blocks == 1 .. BLOCK_NUM
MAXFILE == NDIRECT + NINDIRECT
Least(a, b) == IF a < b THEN a ELSE b

\* new inode(): no size, all blocks 0
NewInode == [size |-> 0, blocks |-> [k \in 1..NDIRECT+1 |-> 0]]

\* The state: inode_map, the inodes on disk, using_blocks, the blocks whose bit is
\* set in the bitmap, the content of the blocks, and two histories: whether an
\* allocation has failed, and the blocks nobody will ever free.
Formatted ==
  [inode_map |-> {1}, inode |-> [i \in Inums |-> NewInode],
   using_blocks |-> {}, bitmap |-> {}, disk |-> [b \in 0..BLOCK_NUM |-> Zero],
   full |-> FALSE, lost |-> {}]

-----------------------------------------------------------------------------
(* The blocks of a file *)

\* The loops over i and j visit one block even of an empty file.
Visited(size) == IF size = 0 THEN 1 ELSE Least(size, MAXFILE)
Indirect(size) == size > NDIRECT

\* The k-th data block of inode i, from the inode or from its indirect block
DataBlock(m, i, k) ==
  LET ino == m.inode[i] IN
  IF k <= NDIRECT THEN ino.blocks[k] ELSE m.disk[ino.blocks[NDIRECT+1]][k-NDIRECT]

DataBlocks(m, i) == [k \in 1..Visited(m.inode[i].size) |-> DataBlock(m, i, k)]
IndirectBlocks(m, i) ==
  IF Indirect(m.inode[i].size) THEN {m.inode[i].blocks[NDIRECT+1]} ELSE {}

\* read_file()
ReadFile(m, i) == [k \in 1..m.inode[i].size |-> m.disk[DataBlock(m, i, k)]]

-----------------------------------------------------------------------------
(* Allocating and freeing *)

\* free_block() of one block after the other: its bit is flipped, whatever it was.
NotWritten(bitmap, blocks) == bitmap  \* faulty variant
Times(blocks, b) == Cardinality({k \in DOMAIN blocks : blocks[k] = b})
Flipped(bitmap, blocks) ==
  {b \in bitmap \union ToSet(blocks) : b \in bitmap <=> Times(blocks, b) % 2 = 0}

\* Faulty variant: the blocks an indirect block lists are forgotten.
FreeDirectOnly(m, i) ==
  LET old == SubSeq(DataBlocks(m, i), 1, Least(NDIRECT, Len(DataBlocks(m, i)))) IN
  [m EXCEPT !.using_blocks = @ \ ToSet(old),
            !.bitmap = Flipped(@, old),
            !.lost = @ \union IndirectBlocks(m, i)]

\* The loop of write_file() and remove_file() that frees the blocks of a file.  It
\* does not free the indirect block itself.
FreeBlocks(m, i) ==
  [m EXCEPT !.using_blocks = @ \ ToSet(DataBlocks(m, i)),
            !.bitmap = Flipped(@, DataBlocks(m, i)),
            !.lost = @ \union IndirectBlocks(m, i)]

\* alloc_block() k times: the lowest blocks that are not in use, then 0
Alloc(m, k) ==
  LET free == Blocks \ m.using_blocks
      below(b) == Cardinality({c \in free : c < b})
  IN  [j \in 1..k |-> IF j <= Cardinality(free)
                       THEN CHOOSE b \in free : below(b) = j-1 ELSE 0]

\* using_blocks[i] = 1, and the bits
Marked(got) == ToSet(got) \ {0}

\* Blocks are written one after the other; the last write of a block stays.
WriteBlocks(disk, writes) ==
  [b \in DOMAIN disk |->
     LET k == SelectLastInSeq(writes, LAMBDA w : w[1] = b)
     IN  IF k = 0 THEN disk[b] ELSE writes[k][2]]

\* The part of write_file() that allocates and writes.  The indirect block is
\* allocated before the blocks it lists and written after them.
AllocAndWrite(m, i, content) ==
  LET size == Len(content)
      n == Visited(size)
      got == Alloc(m, IF Indirect(size) THEN n+1 ELSE n)
      data(k) == got[IF k <= NDIRECT THEN k ELSE k+1]
      table == [j \in 1..n-NDIRECT |-> data(NDIRECT+j)]
      writes == [k \in 1..n |-> <<data(k), IF k <= size THEN content[k] ELSE Zero>>]
  IN  [m EXCEPT
         !.using_blocks = @ \union Marked(got),
         !.bitmap = @ \union Marked(got),
         !.disk = WriteBlocks(@, IF Indirect(size)
                                 THEN Append(writes, <<got[NDIRECT+1], table>>) ELSE writes),
         !.inode[i] = [size |-> size,
                       blocks |-> [k \in 1..NDIRECT+1 |->
                                     IF k <= Len(got) THEN got[k] ELSE @.blocks[k]]],
         !.full = @ \/ 0 \in ToSet(got)]

\* write_file()
WriteFile(m, i, content) == AllocAndWrite(FreeBlocks(m, i), i, content)

\* alloc_inode(): the least number that is free, or 0
FreeInodes(m) == {i \in Inums : i \notin m.inode_map}
AllocInode(m) ==
  IF FreeInodes(m) = {} THEN 0
  ELSE CHOOSE i \in FreeInodes(m) : \A j \in FreeInodes(m) : i <= j
PutInode(m, i) ==
  [m EXCEPT !.inode_map = @ \union {i}, !.inode[i] = NewInode]

\* remove_file(), with free_inode()
RemoveBlocksOnly(m, i) == FreeBlocks(m, i)  \* faulty variant
RemoveFile(m, i) ==
  [FreeBlocks(m, i) EXCEPT !.inode_map = @ \ {i}]
=============================================================================
