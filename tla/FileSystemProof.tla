-------------------------- MODULE FileSystemProof --------------------------
(***************************************************************************)
(* The file system implements a tree of files, and loses no inode and no   *)
(* data block, for any number of blocks and inodes and any names and       *)
(* values.                                                                 *)
(*                                                                         *)
(* The invariant has two layers.  Of the blocks, Sound(m, S) says that the *)
(* files S of a state m of the inode manager share no block and that the   *)
(* accounts of the used blocks are exact; freeing the blocks of a file     *)
(* takes it out of S, and writing it adds it.  Of the directory, Filed     *)
(* says that it lists every allocated inode but its own, once, and that its *)
(* other entries have inode 0.  As many files as there are inodes for them *)
(* are then all the tree has.                                              *)
(***************************************************************************)
EXTENDS FileSystem, FiniteSetTheorems, FunctionTheorems, SequenceTheorems, NaturalsInduction,
        TLAPS

-----------------------------------------------------------------------------
(* The blocks *)

Inode == [size : 0..MAXFILE, blocks : [1..NDIRECT+1 -> 0..BLOCK_NUM]]

\* The record of the state, from its fields
State(map, inode, using, bitmap, disk, full, lost) ==
  [inode_map |-> map, inode |-> inode, using_blocks |-> using, bitmap |-> bitmap,
   disk |-> disk, full |-> full, lost |-> lost]

Typed(m) ==
  /\ m = State(m.inode_map, m.inode, m.using_blocks, m.bitmap, m.disk, m.full, m.lost)
  /\ m.inode_map \subseteq Inums
  /\ m.inode \in [Inums -> Inode]
  /\ m.using_blocks \subseteq Blocks
  /\ m.disk = [b \in 0..BLOCK_NUM |-> m.disk[b]]
  /\ m.full \in BOOLEAN

\* The bitmap says which data blocks are in use.
BitmapExact(m) == m.bitmap \ {0} = m.using_blocks

Ind(m, i) == m.inode[i].blocks[NDIRECT+1]
Owned(m, i) == (ToSet(DataBlocks(m, i)) \union IndirectBlocks(m, i)) \ {0}

\* A file that was never written
Fresh(m, i) == m.inode[i].size = 0 /\ m.inode[i].blocks[1] = 0

\* A file whose blocks are all there, each in one place
LaidOut(m, i) ==
  /\ 0 \notin ToSet(DataBlocks(m, i)) \union IndirectBlocks(m, i)
  /\ IsInjective(DataBlocks(m, i))
  /\ ToSet(DataBlocks(m, i)) \cap IndirectBlocks(m, i) = {}

Sound(m, S) ==
  /\ Typed(m)
  /\ BitmapExact(m)
  /\ S \subseteq Inums
  /\ \A i \in S : Fresh(m, i) \/ LaidOut(m, i)
  /\ m.using_blocks = m.lost \union UNION {Owned(m, i) : i \in S}
  /\ \A i \in S : Owned(m, i) \cap m.lost = {}
  /\ \A i, j \in S : i # j => Owned(m, i) \cap Owned(m, j) = {}

-----------------------------------------------------------------------------
(* The directory *)

Entry == [name : Names, inum : (Inums \union {0}) \ {Root}]

\* Two entries that no directory has: of one name, or of one inode
Clash(x, y) == x.name = y.name \/ (x.inum = y.inum /\ x.inum # 0)

Filed(m, entries) ==
  /\ entries \in Seq(Entry)
  /\ \A k, l \in DOMAIN entries :
       Clash(entries[k], entries[l]) => k = l
  /\ m.inode_map = ({entries[k].inum : k \in DOMAIN entries} \ {0}) \union {Root}
  /\ \A i \in m.inode_map \ {Root} : ReadFile(m, i) \in Seq(Values)

\* What holds until the disk is full
Good(m) == Sound(m, m.inode_map) /\ Filed(m, ReadFile(m, Root))

Inv == BitmapExact(im) /\ im.full \in BOOLEAN /\ (~im.full => Good(im))

-----------------------------------------------------------------------------
(* Sets of numbers *)

LEMMA LeastNumber ==
  ASSUME NEW T, T \subseteq Nat, T # {}
  PROVE  \E n \in T : \A m \in T : n <= m
<1>1. PICK n \in T : \A m \in T : <<m, n>> \notin OpToRel(<, Nat)
  BY NatLessThanWellFounded, WFMin, Zenon
<1>2. \A m \in T : ~(m < n)
  BY <1>1, Zenon DEF OpToRel
<1>3. \A m \in T : n <= m
  <2>1. n \in Nat /\ \A m \in T : m \in Nat
    OBVIOUS
  <2> HIDE <1>1
  <2>2. QED BY <1>2, <2>1
<1>4. QED BY <1>3, Zenon

\* The members of T below b
Below(T, b) == {c \in T : c < b}

\* A set of n numbers has a member of every rank below n.
LEMMA RankExists ==
  ASSUME NEW T, T \subseteq Nat, IsFiniteSet(T), NEW r \in Nat, r < Cardinality(T)
  PROVE  \E b \in T : Cardinality(Below(T, b)) = r
<1> DEFINE R == {q \in Nat : q < Cardinality(T) /\ \A b \in T : Cardinality(Below(T, b)) # q}
<1> SUFFICES ASSUME R # {} PROVE FALSE
  OBVIOUS
<1>1. PICK q \in R : \A p \in R : q <= p
  BY LeastNumber
<1>2. Cardinality(T) \in Nat /\ \A c \in T : c \in Nat
  BY FS_CardinalityType
<1>3. CASE q = 0
  <2>1. T # {}
    BY <1>1, <1>3, FS_EmptySet
  <2>2. PICK b \in T : \A c \in T : b <= c
    BY <2>1, LeastNumber
  <2>3. Below(T, b) = {}
    <3>1. ASSUME NEW c \in T PROVE ~(c < b)
      BY <1>2, <2>2
    <3>2. QED BY <3>1 DEF Below
  <2>4. QED BY <1>1, <1>3, <2>2, <2>3, FS_EmptySet
<1>4. CASE q # 0
  <2>1. q-1 \in Nat /\ q-1 < Cardinality(T) /\ q-1 \notin R
    BY <1>1, <1>2, <1>4
  <2>2. PICK b \in T : Cardinality(Below(T, b)) = q-1
    BY <2>1
  <2> DEFINE low == Below(T, b) \union {b}
  <2>3. low \in SUBSET T /\ IsFiniteSet(Below(T, b)) /\ b \notin Below(T, b)
    BY FS_Subset DEF Below
  <2>4. Cardinality(low) = q
    <3>1. Cardinality(low) = Cardinality(Below(T, b)) + 1
      BY <2>3, FS_AddElement
    <3>2. QED BY <1>2, <2>1, <2>2, <3>1
  <2>5. T \ low # {}
    BY <1>1, <2>3, <2>4
  <2>6. PICK c \in T \ low : \A d \in T \ low : c <= d
    BY <2>5, LeastNumber
  <2>7. Below(T, c) = low
    <3>1. ASSUME NEW d \in T PROVE d < c <=> d \in low
      BY <1>2, <2>6 DEF Below
    <3>2. QED BY <2>3, <3>1 DEF Below
  <2>8. QED BY <1>1, <2>4, <2>6, <2>7
<1>5. QED BY <1>3, <1>4

-----------------------------------------------------------------------------
(* Allocating *)

\* alloc_block() gives k different blocks that are free, or 0.
LEMMA AllocGives ==
  ASSUME NEW m, m.using_blocks \subseteq Blocks, NEW k \in Nat
  PROVE  /\ Alloc(m, k) \in [1..k -> 0..BLOCK_NUM]
         /\ \A j \in 1..k : Alloc(m, k)[j] # 0 => Alloc(m, k)[j] \in Blocks \ m.using_blocks
         /\ \A j, l \in 1..k : Alloc(m, k)[j] # 0 /\ Alloc(m, k)[j] = Alloc(m, k)[l] => j = l
<1> DEFINE free == Blocks \ m.using_blocks
           got == Alloc(m, k)
<1>1. free \subseteq Nat /\ IsFiniteSet(free) /\ Cardinality(free) \in Nat
  <2>1. IsFiniteSet(Blocks)
    BY SizeAssumption, FS_Interval DEF Blocks
  <2>2. free \in SUBSET Blocks /\ free \subseteq Nat
    BY SizeAssumption DEF Blocks
  <2>3. QED BY <2>1, <2>2, FS_Subset, FS_CardinalityType
<1>2. got = [j \in 1..k |-> IF j <= Cardinality(free)
                            THEN CHOOSE b \in free : Cardinality(Below(free, b)) = j-1 ELSE 0]
  BY DEF Alloc, Below
<1>3. ASSUME NEW j \in 1..k, j <= Cardinality(free)
      PROVE  got[j] \in free /\ Cardinality(Below(free, got[j])) = j-1
  <2>1. \E b \in free : Cardinality(Below(free, b)) = j-1
    <3>1. j-1 \in Nat /\ j-1 < Cardinality(free)
      BY <1>1, <1>3
    <3>2. QED BY <1>1, <3>1, RankExists
  <2>2. got[j] = CHOOSE b \in free : Cardinality(Below(free, b)) = j-1
    BY <1>2, <1>3
  <2> HIDE DEF free, got
  <2>3. QED BY <2>1, <2>2
<1>4. \A j \in 1..k : j \in Int /\ (~(j <= Cardinality(free)) => got[j] = 0)
  BY <1>2
<1> HIDE DEF got
<1>5. \A j \in 1..k : got[j] # 0 => got[j] \in free
  BY <1>3, <1>4
<1>6. \A j, l \in 1..k : got[j] # 0 /\ got[j] = got[l] => j = l
  <2> SUFFICES ASSUME NEW j \in 1..k, NEW l \in 1..k, got[j] # 0, got[j] = got[l]
               PROVE  j = l
    OBVIOUS
  <2>1. j-1 = l-1
    BY <1>3, <1>4, Zenon
  <2>2. QED BY <2>1
<1>7. got \in [1..k -> 0..BLOCK_NUM]
  <2>1. \A j \in 1..k : got[j] \in 0..BLOCK_NUM
    BY <1>5, SizeAssumption DEF Blocks
  <2>2. QED BY <1>2, <2>1 DEF got
<1>8. QED BY <1>5, <1>6, <1>7 DEF got

-----------------------------------------------------------------------------
(* The record of the state *)

\* One field after the other is set.
SetMap(m, x) == [m EXCEPT !.inode_map = x]
SetInode(m, x) == [m EXCEPT !.inode = x]
SetUsing(m, x) == [m EXCEPT !.using_blocks = x]
SetBitmap(m, x) == [m EXCEPT !.bitmap = x]
SetDisk(m, x) == [m EXCEPT !.disk = x]
SetFull(m, x) == [m EXCEPT !.full = x]
SetLost(m, x) == [m EXCEPT !.lost = x]

LEMMA FieldPut ==
  ASSUME NEW a, NEW b, NEW c, NEW d, NEW e, NEW f, NEW g, NEW x
  PROVE  /\ SetMap(State(a, b, c, d, e, f, g), x) = State(x, b, c, d, e, f, g)
         /\ SetInode(State(a, b, c, d, e, f, g), x) = State(a, x, c, d, e, f, g)
         /\ SetUsing(State(a, b, c, d, e, f, g), x) = State(a, b, x, d, e, f, g)
         /\ SetBitmap(State(a, b, c, d, e, f, g), x) = State(a, b, c, x, e, f, g)
         /\ SetDisk(State(a, b, c, d, e, f, g), x) = State(a, b, c, d, x, f, g)
         /\ SetFull(State(a, b, c, d, e, f, g), x) = State(a, b, c, d, e, x, g)
         /\ SetLost(State(a, b, c, d, e, f, g), x) = State(a, b, c, d, e, f, x)
BY DEF State, SetMap, SetInode, SetUsing, SetBitmap, SetDisk, SetFull, SetLost

LEMMA FieldGet ==
  ASSUME NEW n, NEW a, NEW b, NEW c, NEW d, NEW e, NEW f, NEW g,
         n = State(a, b, c, d, e, f, g)
  PROVE  /\ n.inode_map = a /\ n.inode = b /\ n.using_blocks = c /\ n.bitmap = d
         /\ n.disk = e /\ n.full = f /\ n.lost = g
         /\ n = State(n.inode_map, n.inode, n.using_blocks, n.bitmap, n.disk, n.full, n.lost)
BY DEF State

-----------------------------------------------------------------------------
(* The blocks of a file *)

LEMMA SizeFacts ==
  ASSUME NEW size \in 0..MAXFILE
  PROVE  /\ size \in Nat /\ Visited(size) \in Nat /\ NDIRECT \in Nat
         /\ 1 <= NDIRECT /\ NDIRECT+1 \in 1..NDIRECT+1
         /\ 1 <= Visited(size) /\ size <= Visited(size) /\ Visited(size) <= MAXFILE
         /\ Indirect(size) => NDIRECT < size /\ Visited(size) = size
         /\ ~Indirect(size) => Visited(size) <= NDIRECT
         /\ size = 0 => Visited(size) = 1 /\ ~Indirect(size)
BY SizeAssumption DEF Visited, Least, Indirect, MAXFILE

LEMMA InodeFacts ==
  ASSUME NEW m, Typed(m), NEW i \in Inums
  PROVE  /\ m.inode[i].size \in 0..MAXFILE
         /\ m.inode[i].blocks \in [1..NDIRECT+1 -> 0..BLOCK_NUM]
BY DEF Typed, Inode

\* The files that no change touches
Unchanged(m, n, i) ==
  /\ DataBlocks(n, i) = DataBlocks(m, i)
  /\ IndirectBlocks(n, i) = IndirectBlocks(m, i)
  /\ ReadFile(n, i) = ReadFile(m, i)
  /\ n.inode[i] = m.inode[i]

LEMMA SameDisk ==
  ASSUME NEW m, NEW n, m.inode = n.inode, m.disk = n.disk, NEW i
  PROVE  Unchanged(m, n, i)
BY DEF Unchanged, DataBlocks, DataBlock, IndirectBlocks, ReadFile

\* A file keeps its blocks when their content stays, and the tables that list them.
LEMMA SameBlocks ==
  ASSUME NEW m, Typed(m), NEW n, NEW i \in Inums, n.inode[i] = m.inode[i],
         Fresh(m, i) \/ \A b \in Owned(m, i) : n.disk[b] = m.disk[b],
         Fresh(m, i) \/ LaidOut(m, i)
  PROVE  Unchanged(m, n, i)
<1> DEFINE size == m.inode[i].size
<1>1. size \in 0..MAXFILE
  BY InodeFacts
<1>2. CASE Fresh(m, i)
  <2>1. size = 0 /\ ~Indirect(size) /\ Visited(size) = 1 /\ 1 <= NDIRECT
    BY <1>1, <1>2, SizeFacts DEF Fresh
  <2>2. DataBlocks(n, i) = DataBlocks(m, i)
    BY <2>1 DEF DataBlocks, DataBlock
  <2>3. ReadFile(n, i) = ReadFile(m, i)
    BY <2>1 DEF ReadFile
  <2>4. IndirectBlocks(n, i) = IndirectBlocks(m, i)
    BY DEF IndirectBlocks
  <2>5. QED BY <2>2, <2>3, <2>4 DEF Unchanged
<1>3. CASE ~Fresh(m, i)
  <2>1. \A b \in ToSet(DataBlocks(m, i)) \union IndirectBlocks(m, i) : n.disk[b] = m.disk[b]
    BY <1>3 DEF LaidOut, Owned
  <2>2. IndirectBlocks(n, i) = IndirectBlocks(m, i)
    BY DEF IndirectBlocks
  <2>3. ASSUME NEW k \in 1..Visited(size)
        PROVE  DataBlock(n, i, k) = DataBlock(m, i, k)
    <3>1. CASE k <= NDIRECT
      BY <3>1 DEF DataBlock
    <3>2. CASE ~(k <= NDIRECT)
      <4>1. Indirect(size)
        BY <1>1, <3>2, SizeFacts
      <4>2. n.disk[Ind(m, i)] = m.disk[Ind(m, i)]
        BY <2>1, <4>1 DEF IndirectBlocks, Ind
      <4>3. QED BY <3>2, <4>2 DEF DataBlock, Ind
    <3>3. QED BY <3>1, <3>2
  <2>4. DataBlocks(n, i) = DataBlocks(m, i)
    BY <2>3 DEF DataBlocks
  <2>5. ASSUME NEW k \in 1..size
        PROVE  n.disk[DataBlock(n, i, k)] = m.disk[DataBlock(m, i, k)]
    <3>1. k \in 1..Visited(size)
      BY <1>1, SizeFacts
    <3>2. DataBlock(m, i, k) \in ToSet(DataBlocks(m, i))
      BY <3>1 DEF ToSet, DataBlocks
    <3>3. QED BY <2>1, <2>3, <3>1, <3>2
  <2>6. ReadFile(n, i) = ReadFile(m, i)
    BY <2>5 DEF ReadFile
  <2>7. QED BY <2>2, <2>4, <2>6 DEF Unchanged
<1>4. QED BY <1>2, <1>3

-----------------------------------------------------------------------------
(* Freeing *)

LEMMA TimesOnce ==
  ASSUME NEW s, IsInjective(s), NEW b
  PROVE  Times(s, b) = IF b \in ToSet(s) THEN 1 ELSE 0
<1> DEFINE at == {k \in DOMAIN s : s[k] = b}
<1>1. CASE b \in ToSet(s)
  <2>1. PICK k \in DOMAIN s : s[k] = b
    BY <1>1 DEF ToSet
  <2>2. at = {k}
    BY <2>1 DEF IsInjective
  <2>3. QED BY <1>1, <2>2, FS_Singleton DEF Times
<1>2. CASE b \notin ToSet(s)
  <2>1. at = {}
    BY <1>2 DEF ToSet
  <2>2. QED BY <1>2, <2>1, FS_EmptySet DEF Times
<1>3. QED BY <1>1, <1>2

\* Bits flipped once
LEMMA FlippedOnce ==
  ASSUME NEW s, IsInjective(s), NEW bitmap
  PROVE  Flipped(bitmap, s) = (bitmap \ ToSet(s)) \union (ToSet(s) \ bitmap)
<1>1. ASSUME NEW b PROVE Times(s, b) % 2 = 0 <=> b \notin ToSet(s)
  BY TimesOnce
<1>2. QED BY <1>1, Zenon DEF Flipped

LEMMA FreeFields ==
  ASSUME NEW m, Typed(m), NEW i
  PROVE  LET n == FreeBlocks(m, i) IN
         /\ Typed(n)
         /\ n.inode_map = m.inode_map /\ n.inode = m.inode /\ n.disk = m.disk
         /\ n.full = m.full
         /\ n.using_blocks = m.using_blocks \ ToSet(DataBlocks(m, i))
         /\ n.bitmap = Flipped(m.bitmap, DataBlocks(m, i))
         /\ n.lost = m.lost \union IndirectBlocks(m, i)
<1> DEFINE n == FreeBlocks(m, i)
           U == m.using_blocks \ ToSet(DataBlocks(m, i))
           B == Flipped(m.bitmap, DataBlocks(m, i))
           L == m.lost \union IndirectBlocks(m, i)
<1>1. n = [m EXCEPT !.using_blocks = U, !.bitmap = B, !.lost = L]
  BY DEF FreeBlocks
<1>2. U \subseteq m.using_blocks
  OBVIOUS
<1> HIDE DEF n, U, B, L
<1>3. n = SetLost(SetBitmap(SetUsing(m, U), B), L)
  BY <1>1 DEF SetLost, SetBitmap, SetUsing
<1>4. m = State(m.inode_map, m.inode, m.using_blocks, m.bitmap, m.disk, m.full, m.lost)
  BY Zenon DEF Typed
<1>5. n = State(m.inode_map, m.inode, U, B, m.disk, m.full, L)
  BY <1>3, <1>4, FieldPut
<1>6. /\ n.inode_map = m.inode_map /\ n.inode = m.inode /\ n.using_blocks = U
      /\ n.bitmap = B /\ n.disk = m.disk /\ n.full = m.full /\ n.lost = L
      /\ n = State(n.inode_map, n.inode, n.using_blocks, n.bitmap, n.disk, n.full, n.lost)
  BY <1>5, FieldGet
<1>7. Typed(n)
  BY <1>2, <1>6, Zenon DEF Typed
<1>8. QED BY <1>6, <1>7, Zenon DEF n, U, B, L

\* The blocks of a sound file are different, and none is 0 but that of a new one.
LEMMA SoundFile ==
  ASSUME NEW m, NEW S, Sound(m, S), NEW i \in S
  PROVE  /\ i \in Inums
         /\ IsInjective(DataBlocks(m, i))
         /\ ToSet(DataBlocks(m, i)) \cap IndirectBlocks(m, i) = {}
         /\ 0 \notin IndirectBlocks(m, i)
<1>1. i \in Inums /\ Typed(m)
  BY DEF Sound
<1>2. CASE LaidOut(m, i)
  BY <1>1, <1>2 DEF LaidOut
<1>3. CASE Fresh(m, i)
  <2>1. m.inode[i].size \in 0..MAXFILE
    BY <1>1, InodeFacts
  <2>2. Visited(m.inode[i].size) = 1 /\ ~Indirect(m.inode[i].size)
    BY <1>3, <2>1, SizeFacts DEF Fresh
  <2>3. IsInjective(DataBlocks(m, i))
    BY <2>2 DEF DataBlocks, IsInjective
  <2>4. IndirectBlocks(m, i) = {}
    BY <2>2 DEF IndirectBlocks
  <2>5. QED BY <1>1, <2>3, <2>4
<1>4. QED BY <1>2, <1>3 DEF Sound

\* write_file() and remove_file() free the data blocks of a file, and lose its
\* indirect block; no other file notices.
LEMMA FreeSound ==
  ASSUME NEW m, NEW S, Sound(m, S), NEW i \in S
  PROVE  /\ Sound(FreeBlocks(m, i), S \ {i})
         /\ \A j : Unchanged(m, FreeBlocks(m, i), j)
<1> DEFINE n == FreeBlocks(m, i)
           data == ToSet(DataBlocks(m, i))
           ind == IndirectBlocks(m, i)
<1>1. /\ Typed(n)
      /\ n.inode_map = m.inode_map /\ n.inode = m.inode /\ n.disk = m.disk
      /\ n.using_blocks = m.using_blocks \ data
      /\ n.bitmap = Flipped(m.bitmap, DataBlocks(m, i))
      /\ n.lost = m.lost \union ind
  BY FreeFields DEF Sound
<1>2. IsInjective(DataBlocks(m, i)) /\ data \cap ind = {} /\ 0 \notin ind
  BY SoundFile
<1> HIDE DEF n
<1>3. \A j : Unchanged(m, n, j)
  BY <1>1, SameDisk
<1>4. Owned(m, i) = (data \union ind) \ {0}
  BY DEF Owned
<1>5. \A j : Owned(n, j) = Owned(m, j)
  BY <1>3 DEF Owned, Unchanged
<1>6. \A j : (Fresh(m, j) => Fresh(n, j)) /\ (LaidOut(m, j) => LaidOut(n, j))
  BY <1>3 DEF Fresh, LaidOut, Unchanged
<1>7. 0 \notin m.using_blocks
  BY DEF Sound, Typed, Blocks
<1>8. BitmapExact(n)
  <2>1. n.bitmap = (m.bitmap \ data) \union (data \ m.bitmap)
    BY <1>1, <1>2, FlippedOnce
  <2>2. data \ {0} \subseteq m.using_blocks
    BY <1>4 DEF Sound
  <2>3. m.bitmap \ {0} = m.using_blocks
    BY DEF Sound, BitmapExact
  <2> HIDE DEF data
  <2>4. n.bitmap \ {0} = m.using_blocks \ data
    BY <1>7, <2>1, <2>2, <2>3
  <2>5. QED BY <1>1, <2>4 DEF BitmapExact
<1> HIDE DEF data, ind
<1>9. n.using_blocks = n.lost \union UNION {Owned(n, j) : j \in S \ {i}}
  <2>1. m.using_blocks = m.lost \union UNION {Owned(m, j) : j \in S}
    BY DEF Sound
  <2>2. Owned(m, i) \cap m.lost = {}
    BY DEF Sound
  <2>3. \A j \in S \ {i} : Owned(m, i) \cap Owned(m, j) = {}
    BY DEF Sound
  <2>4. ASSUME NEW b \in n.using_blocks
        PROVE  b \in n.lost \/ \E j \in S \ {i} : b \in Owned(n, j)
    <3>1. b \in m.using_blocks /\ b \notin data /\ b # 0
      BY <1>1, <1>7
    <3>2. b \in m.lost \/ \E j \in S : b \in Owned(m, j)
      BY <2>1, <3>1
    <3>3. QED BY <1>1, <1>4, <1>5, <3>1, <3>2
  <2>5. ASSUME NEW b, b \in n.lost \/ \E j \in S \ {i} : b \in Owned(n, j)
        PROVE  b \in n.using_blocks
    <3>1. CASE b \in m.lost
      BY <1>1, <1>4, <1>7, <2>1, <2>2, <3>1
    <3>2. CASE b \in ind
      BY <1>1, <1>2, <1>4, <2>1, <3>2
    <3>3. CASE \E j \in S \ {i} : b \in Owned(n, j)
      <4>1. PICK j \in S \ {i} : b \in Owned(m, j)
        BY <1>5, <3>3
      <4>2. b \in m.using_blocks /\ b # 0 /\ b \notin Owned(m, i)
        BY <1>7, <2>1, <2>3, <4>1
      <4>3. QED BY <1>1, <1>4, <4>2
    <3>4. QED BY <1>1, <2>5, <3>1, <3>2, <3>3
  <2>6. QED BY <2>4, <2>5
<1>10. \A j \in S \ {i} : Owned(n, j) \cap n.lost = {}
  <2>1. \A j \in S \ {i} : Owned(m, j) \cap m.lost = {} /\ Owned(m, j) \cap Owned(m, i) = {}
    BY DEF Sound
  <2>2. QED BY <1>1, <1>2, <1>4, <1>5, <2>1
<1>11. \A j, k \in S \ {i} : j # k => Owned(n, j) \cap Owned(n, k) = {}
  BY <1>5 DEF Sound
<1>12. \A j \in S \ {i} : Fresh(n, j) \/ LaidOut(n, j)
  BY <1>6 DEF Sound
<1>13. Sound(n, S \ {i})
  BY <1>1, <1>8, <1>9, <1>10, <1>11, <1>12 DEF Sound
<1>14. QED BY <1>3, <1>13 DEF n

-----------------------------------------------------------------------------
(* Writing blocks *)

\* The last of the writes w that is of block b, or 0
LastWrite(w, b) == SelectLastInSeq(w, LAMBDA x : x[1] = b)

LEMMA WriteMissed ==
  ASSUME NEW w, NEW b, Len(w) \in Nat, \A k \in 1..Len(w) : w[k][1] # b
  PROVE  LastWrite(w, b) = 0
<1> DEFINE at == {k \in 1..Len(w) : w[k][1] = b}
<1>1. at = {}
  OBVIOUS
<1>2. LastWrite(w, b) = IF at # {} THEN Max(at) ELSE 0
  BY DEF LastWrite, SelectLastInSeq
<1>3. QED BY <1>1, <1>2

LEMMA WriteHit ==
  ASSUME NEW w, NEW b, Len(w) \in Nat, NEW k \in 1..Len(w), w[k][1] = b,
         \A l \in 1..Len(w) : w[l][1] = b => l = k
  PROVE  LastWrite(w, b) = k
<1> DEFINE at == {l \in 1..Len(w) : w[l][1] = b}
<1>1. at = {k}
  OBVIOUS
<1>2. LastWrite(w, b) = IF at # {} THEN Max(at) ELSE 0
  BY DEF LastWrite, SelectLastInSeq
<1>3. Max({k}) = k
  BY DEF Max
<1>4. QED BY <1>1, <1>2, <1>3

LEMMA WriteEffect ==
  ASSUME NEW disk, NEW w
  PROVE  WriteBlocks(disk, w) =
           [b \in DOMAIN disk |->
              IF LastWrite(w, b) = 0 THEN disk[b] ELSE w[LastWrite(w, b)][2]]
BY DEF WriteBlocks, LastWrite

\* What write_file() writes to the blocks it got: the data, then the table of the
\* indirect block
Needs(size) == IF Indirect(size) THEN Visited(size)+1 ELSE Visited(size)
Chunk(got, k) == got[IF k <= NDIRECT THEN k ELSE k+1]
Table(got, size) == [j \in 1..Visited(size)-NDIRECT |-> Chunk(got, NDIRECT+j)]
Data(got, content) ==
  [k \in 1..Visited(Len(content)) |->
     <<Chunk(got, k), IF k <= Len(content) THEN content[k] ELSE Zero>>]
Writes(got, content) ==
  IF Indirect(Len(content))
  THEN Append(Data(got, content), <<got[NDIRECT+1], Table(got, Len(content))>>)
  ELSE Data(got, content)
Written(m, i, got, size) ==
  [size |-> size,
   blocks |-> [k \in 1..NDIRECT+1 |->
                 IF k <= Len(got) THEN got[k] ELSE m.inode[i].blocks[k]]]

LEMMA WritesFacts ==
  ASSUME NEW got, NEW content, Len(content) \in 0..MAXFILE
  PROVE  LET w == Writes(got, content)
             n == Visited(Len(content))
         IN  /\ Len(w) = Needs(Len(content))
             /\ \A k \in 1..n :
                  w[k] = <<Chunk(got, k), IF k <= Len(content) THEN content[k] ELSE Zero>>
             /\ Indirect(Len(content)) =>
                  w[n+1] = <<got[NDIRECT+1], Table(got, Len(content))>>
<1> DEFINE n == Visited(Len(content))
           data == Data(got, content)
<1>1. n \in Nat
  BY SizeFacts
<1>2. data \in Seq({data[k] : k \in 1..n}) /\ Len(data) = n
  <2>1. data \in [1..n -> {data[k] : k \in 1..n}]
    BY DEF Data
  <2>2. data \in Seq({data[k] : k \in 1..n})
    BY <1>1, <2>1, SeqDef
  <2>3. DOMAIN data = 1..n
    BY DEF Data
  <2> HIDE DEF data, n
  <2>4. QED BY <1>1, <2>2, <2>3, LenProperties
<1>3. \A k \in 1..n :
        data[k] = <<Chunk(got, k), IF k <= Len(content) THEN content[k] ELSE Zero>>
  BY DEF Data
<1> HIDE DEF data
<1>4. CASE ~Indirect(Len(content))
  BY <1>2, <1>3, <1>4 DEF Writes, Needs, data
<1>5. CASE Indirect(Len(content))
  <2> DEFINE x == <<got[NDIRECT+1], Table(got, Len(content))>>
             V == {data[k] : k \in 1..n} \union {x}
             w == Append(data, x)
  <2>1. data \in Seq(V) /\ x \in V
    BY <1>2, SeqMonotonic
  <2> HIDE DEF x, V, n
  <2>2. Len(w) = n+1 /\ w[n+1] = x /\ \A k \in 1..n : w[k] = data[k]
    BY <1>1, <1>2, <2>1
  <2> HIDE DEF w
  <2>3. Writes(got, content) = w
    BY <1>5 DEF Writes, data, w, x
  <2>4. Needs(Len(content)) = n+1
    BY <1>5 DEF Needs, n
  <2>5. QED BY <1>3, <2>2, <2>3, <2>4 DEF n, x
<1>6. QED BY <1>4, <1>5

\* The fields of what AllocAndWrite returns
Wrote(m, i, content, n, got) ==
  /\ n.inode_map = m.inode_map
  /\ n.inode = [m.inode EXCEPT ![i] = Written(m, i, got, Len(content))]
  /\ n.using_blocks = m.using_blocks \union Marked(got)
  /\ n.bitmap = m.bitmap \union Marked(got)
  /\ n.disk = WriteBlocks(m.disk, Writes(got, content))
  /\ n.full = (m.full \/ 0 \in ToSet(got))
  /\ n.lost = m.lost
  /\ n = State(n.inode_map, n.inode, n.using_blocks, n.bitmap, n.disk, n.full, n.lost)

LEMMA AllocFields ==
  ASSUME NEW m, Typed(m), NEW i, NEW content,
         NEW n, n = AllocAndWrite(m, i, content),
         NEW got, got = Alloc(m, Needs(Len(content)))
  PROVE  Wrote(m, i, content, n, got)
<1> DEFINE U == m.using_blocks \union Marked(got)
           B == m.bitmap \union Marked(got)
           D == WriteBlocks(m.disk, Writes(got, content))
           N == Written(m, i, got, Len(content))
           F == m.full \/ 0 \in ToSet(got)
           I == [m.inode EXCEPT ![i] = N]
<1>1. n = [m EXCEPT !.using_blocks = U, !.bitmap = B, !.disk = D, !.inode[i] = N, !.full = F]
  BY DEF AllocAndWrite, Needs, Written, Writes, Data, Table, Chunk
<1> HIDE DEF U, B, D, N, F
<1>2. n = SetFull(SetInode(SetDisk(SetBitmap(SetUsing(m, U), B), D), I), F)
  BY <1>1 DEF SetFull, SetInode, SetDisk, SetBitmap, SetUsing
<1>3. m = State(m.inode_map, m.inode, m.using_blocks, m.bitmap, m.disk, m.full, m.lost)
  BY Zenon DEF Typed
<1> HIDE DEF I
<1>4. n = State(m.inode_map, I, U, B, D, F, m.lost)
  BY <1>2, <1>3, FieldPut
<1>5. /\ n.inode_map = m.inode_map /\ n.inode = I /\ n.using_blocks = U
      /\ n.bitmap = B /\ n.disk = D /\ n.full = F /\ n.lost = m.lost
      /\ n = State(n.inode_map, n.inode, n.using_blocks, n.bitmap, n.disk, n.full, n.lost)
  BY <1>4, FieldGet
<1>6. QED BY <1>5, Zenon DEF U, B, D, N, F, I, Wrote

\* The place of the k-th write among the blocks that were allocated
Place(size, k) ==
  IF k = Visited(size)+1 THEN NDIRECT+1 ELSE IF k <= NDIRECT THEN k ELSE k+1

LEMMA Places ==
  ASSUME NEW size \in 0..MAXFILE
  PROVE  /\ Needs(size) \in Nat
         /\ \A k \in 1..Needs(size) : Place(size, k) \in 1..Needs(size)
         /\ \A k, l \in 1..Needs(size) : Place(size, k) = Place(size, l) => k = l
         /\ \A k \in 1..Visited(size) : k \in 1..Needs(size)
         /\ Indirect(size) => /\ Visited(size)+1 \in 1..Needs(size)
                              /\ NDIRECT+1 \in 1..Needs(size)
         /\ \A j \in 1..NDIRECT+1 : j <= Needs(size) => j \in 1..Needs(size)
BY SizeFacts DEF Needs, Place

LEMMA WriteTargets ==
  ASSUME NEW got, NEW content, Len(content) \in 0..MAXFILE
  PROVE  LET w == Writes(got, content) IN
         \A k \in 1..Needs(Len(content)) : w[k][1] = got[Place(Len(content), k)]
<1> DEFINE w == Writes(got, content)
           size == Len(content)
<1> HIDE DEF w
<1> SUFFICES ASSUME NEW k \in 1..Needs(size) PROVE w[k][1] = got[Place(size, k)]
  BY DEF w
<1>1. CASE k \in 1..Visited(size)
  <2>1. w[k][1] = Chunk(got, k)
    BY <1>1, WritesFacts DEF w
  <2>2. k # Visited(size)+1
    BY <1>1, SizeFacts
  <2>3. QED BY <2>1, <2>2 DEF Chunk, Place
<1>2. CASE k \notin 1..Visited(size)
  <2>1. Indirect(size) /\ k = Visited(size)+1
    BY <1>2, SizeFacts DEF Needs
  <2>2. w[k][1] = got[NDIRECT+1]
    BY <2>1, WritesFacts DEF w
  <2>3. QED BY <2>1, <2>2 DEF Place
<1>3. QED BY <1>1, <1>2

\* The data and the table are on disk.
OnDisk(disk, got, content, size) ==
  /\ \A k \in 1..Visited(size) :
       disk[Chunk(got, k)] = IF k <= size THEN content[k] ELSE Zero
  /\ Indirect(size) => disk[got[NDIRECT+1]] = Table(got, size)

\* What is on disk afterwards
Overwritten(old, disk, got, content, size) ==
  /\ disk = [b \in 0..BLOCK_NUM |-> disk[b]]
  /\ \A b \in 0..BLOCK_NUM : b \notin ToSet(got) => disk[b] = old[b]
  /\ IsInjective(got) => OnDisk(disk, got, content, size)

LEMMA DiskEffect ==
  ASSUME NEW m, Typed(m), NEW content, NEW size \in 0..MAXFILE, Len(content) = size,
         NEW got \in [1..Needs(size) -> 0..BLOCK_NUM],
         NEW disk, disk = WriteBlocks(m.disk, Writes(got, content))
  PROVE  Overwritten(m.disk, disk, got, content, size)
<1> DEFINE w == Writes(got, content)
           K == Needs(size)
<1>1. Len(w) = K /\ K \in Nat
  BY WritesFacts, Places
<1>2. \A k \in 1..K : Place(size, k) \in 1..K /\ w[k][1] = got[Place(size, k)]
  BY WriteTargets, Places
<1>3. \A k, l \in 1..K : Place(size, k) = Place(size, l) => k = l
  BY Places
<1>4. disk = [b \in 0..BLOCK_NUM |->
                IF LastWrite(w, b) = 0 THEN m.disk[b] ELSE w[LastWrite(w, b)][2]]
  <2>1. DOMAIN m.disk = 0..BLOCK_NUM
    BY DEF Typed
  <2>2. disk = WriteBlocks(m.disk, w)
    OBVIOUS
  <2>3. QED BY <2>1, <2>2, WriteEffect
<1>5. /\ \A k \in 1..Visited(size) :
           /\ w[k] = <<Chunk(got, k), IF k <= size THEN content[k] ELSE Zero>>
           /\ k \in 1..K
      /\ Indirect(size) => /\ w[Visited(size)+1] = <<got[NDIRECT+1], Table(got, size)>>
                           /\ Visited(size)+1 \in 1..K
  BY WritesFacts, Places
<1> HIDE DEF w, K
<1>6. disk = [b \in 0..BLOCK_NUM |-> disk[b]]
  BY <1>4
<1>7. ASSUME NEW b \in 0..BLOCK_NUM, b \notin ToSet(got)
      PROVE  disk[b] = m.disk[b]
  <2>1. \A k \in 1..K : w[k][1] # b
    <3>1. DOMAIN got = 1..K
      BY DEF K
    <3>2. \A j \in 1..K : got[j] # b
      BY <1>7, <3>1 DEF ToSet
    <3>3. QED BY <1>2, <3>2
  <2>2. LastWrite(w, b) = 0
    BY <1>1, <2>1, WriteMissed
  <2>3. QED BY <1>4, <2>2
<1>8. ASSUME IsInjective(got), NEW k \in 1..K
      PROVE  disk[w[k][1]] = w[k][2]
  <2>1. DOMAIN got = 1..K /\ got \in [1..K -> 0..BLOCK_NUM]
    BY DEF K
  <2>2. w[k][1] \in 0..BLOCK_NUM
    BY <1>2, <2>1
  <2>3. ASSUME NEW l \in 1..K, w[l][1] = w[k][1] PROVE l = k
    <3>1. /\ Place(size, l) \in DOMAIN got /\ Place(size, k) \in DOMAIN got
          /\ got[Place(size, l)] = got[Place(size, k)]
      BY <1>2, <2>1, <2>3
    <3>2. Place(size, l) = Place(size, k)
      BY <1>8, <3>1, Zenon DEF IsInjective
    <3>3. QED BY <1>3, <3>2
  <2>4. LastWrite(w, w[k][1]) = k
    BY <1>1, <2>3, WriteHit
  <2>5. k # 0
    BY <1>1
  <2>6. QED BY <1>4, <2>2, <2>4, <2>5
<1>9. ASSUME IsInjective(got), NEW k \in 1..Visited(size)
      PROVE  disk[Chunk(got, k)] = IF k <= size THEN content[k] ELSE Zero
  <2>1. disk[w[k][1]] = w[k][2]
    BY <1>5, <1>8, <1>9
  <2>2. QED BY <1>5, <2>1
<1>10. ASSUME IsInjective(got), Indirect(size)
       PROVE  disk[got[NDIRECT+1]] = Table(got, size)
  <2>1. disk[w[Visited(size)+1][1]] = w[Visited(size)+1][2]
    BY <1>5, <1>8, <1>10
  <2>2. QED BY <1>5, <1>10, <2>1
<1>11. QED BY <1>6, <1>7, <1>9, <1>10 DEF OnDisk, Overwritten

LEMMA PlacesTaken ==
  ASSUME NEW size \in 0..MAXFILE, NEW p \in 1..Needs(size)
  PROVE  \/ Indirect(size) /\ p = NDIRECT+1
         \/ \E k \in 1..Visited(size) : p = IF k <= NDIRECT THEN k ELSE k+1
<1>1. /\ size \in Nat /\ Visited(size) \in Nat /\ NDIRECT \in Nat
      /\ 1 <= NDIRECT /\ 1 <= Visited(size)
      /\ Indirect(size) => NDIRECT < size /\ Visited(size) = size
      /\ ~Indirect(size) => Visited(size) <= NDIRECT
  BY SizeFacts
<1>2. CASE p <= NDIRECT
  <2>1. p \in 1..Visited(size)
    BY <1>1, <1>2 DEF Needs
  <2>2. QED BY <1>2, <2>1
<1>3. CASE p > NDIRECT+1
  <2>1. p-1 \in 1..Visited(size) /\ ~(p-1 <= NDIRECT) /\ p = (p-1)+1
    BY <1>1, <1>3 DEF Needs
  <2>2. QED BY <2>1
<1>4. CASE p = NDIRECT+1
  BY <1>1, <1>4 DEF Needs
<1>5. QED BY <1>1, <1>2, <1>3, <1>4

\* The inode of a file that got blocks
Lists(inode, got, size) ==
  /\ inode.size = size
  /\ \A k \in 1..NDIRECT+1 : k <= Needs(size) => inode.blocks[k] = got[k]

\* The file that was written, when it got all its blocks
LEMMA WrittenFile ==
  ASSUME NEW n, NEW i, NEW content, NEW size \in 0..MAXFILE,
         NEW got, DOMAIN got = 1..Needs(size),
         0 \notin ToSet(got), IsInjective(got),
         Lists(n.inode[i], got, size), OnDisk(n.disk, got, content, size)
  PROVE  /\ LaidOut(n, i)
         /\ Owned(n, i) = ToSet(got)
         /\ ReadFile(n, i) = [k \in 1..size |-> content[k]]
<1> DEFINE K == Needs(size)
<1>0. /\ n.inode[i].size = size
      /\ \A k \in 1..NDIRECT+1 : k <= K => n.inode[i].blocks[k] = got[k]
      /\ \A k \in 1..Visited(size) :
           n.disk[Chunk(got, k)] = IF k <= size THEN content[k] ELSE Zero
      /\ Indirect(size) => n.disk[got[NDIRECT+1]] = Table(got, size)
  BY DEF Lists, OnDisk
<1>1. /\ size \in Nat /\ Visited(size) \in Nat /\ NDIRECT \in Nat
      /\ 1 <= NDIRECT /\ NDIRECT+1 \in 1..NDIRECT+1
      /\ 1 <= Visited(size) /\ size <= Visited(size)
      /\ Indirect(size) => NDIRECT < size /\ Visited(size) = size
      /\ ~Indirect(size) => Visited(size) <= NDIRECT
  BY SizeFacts
<1>2. /\ K \in Nat
      /\ \A k \in 1..Visited(size) : k \in 1..K
      /\ Indirect(size) => NDIRECT+1 \in 1..K
  BY Places
<1> HIDE DEF K
<1>3. ASSUME NEW k \in 1..Visited(size)
      PROVE  DataBlock(n, i, k) = Chunk(got, k)
  <2>1. CASE k <= NDIRECT
    <3>1. k \in 1..NDIRECT+1 /\ k <= K
      BY <1>1, <1>2, <2>1
    <3>2. n.inode[i].blocks[k] = got[k]
      BY <1>0, <3>1
    <3>3. QED BY <2>1, <3>2 DEF DataBlock, Chunk
  <2>2. CASE ~(k <= NDIRECT)
    <3>1. Indirect(size) /\ k-NDIRECT \in 1..Visited(size)-NDIRECT /\ NDIRECT+(k-NDIRECT) = k
      BY <1>1, <2>2
    <3>2. NDIRECT+1 <= K
      BY <1>2, <3>1
    <3>3. n.inode[i].blocks[NDIRECT+1] = got[NDIRECT+1]
      BY <1>0, <1>1, <3>2
    <3>4. n.disk[got[NDIRECT+1]][k-NDIRECT] = Chunk(got, k)
      BY <1>0, <3>1 DEF Table
    <3>5. QED BY <2>2, <3>3, <3>4 DEF DataBlock
  <2>3. QED BY <2>1, <2>2
<1>4. DataBlocks(n, i) = [k \in 1..Visited(size) |-> Chunk(got, k)]
  BY <1>0, <1>3 DEF DataBlocks
<1>5. IndirectBlocks(n, i) = IF Indirect(size) THEN {got[NDIRECT+1]} ELSE {}
  <2>1. Indirect(size) => NDIRECT+1 <= K
    BY <1>2
  <2>2. Indirect(size) => n.inode[i].blocks[NDIRECT+1] = got[NDIRECT+1]
    BY <1>0, <1>1, <2>1
  <2>3. QED BY <1>0, <2>2 DEF IndirectBlocks
<1> DEFINE at(k) == IF k <= NDIRECT THEN k ELSE k+1
<1>6. /\ \A k \in 1..Visited(size) : at(k) \in 1..K /\ at(k) # NDIRECT+1
      /\ \A k, l \in 1..Visited(size) : at(k) = at(l) => k = l
  BY <1>1 DEF K, Needs
<1>7. \A k : Chunk(got, k) = got[at(k)]
  BY DEF Chunk
<1>8. \A p \in 1..K : \/ Indirect(size) /\ p = NDIRECT+1
                      \/ \E k \in 1..Visited(size) : p = at(k)
  BY PlacesTaken DEF K
<1>9. DOMAIN got = 1..K /\ \A p \in 1..K : got[p] # 0
  BY DEF K, ToSet
<1> HIDE DEF at
<1>10. ToSet(DataBlocks(n, i)) = {got[at(k)] : k \in 1..Visited(size)}
  BY <1>4, <1>7 DEF ToSet
<1>11. IsInjective(DataBlocks(n, i))
  <2>1. ASSUME NEW k \in 1..Visited(size), NEW l \in 1..Visited(size), got[at(k)] = got[at(l)]
        PROVE  k = l
    BY <1>6, <1>9, <2>1 DEF IsInjective
  <2>2. QED BY <1>4, <1>7, <2>1 DEF IsInjective
<1>12. ToSet(DataBlocks(n, i)) \cap IndirectBlocks(n, i) = {}
  <2>1. ASSUME NEW k \in 1..Visited(size), Indirect(size) PROVE got[at(k)] # got[NDIRECT+1]
    BY <1>2, <1>6, <1>9, <2>1 DEF IsInjective
  <2>2. QED BY <1>5, <1>10, <2>1
<1>13. ToSet(DataBlocks(n, i)) \union IndirectBlocks(n, i) = ToSet(got)
  <2>1. ASSUME NEW p \in 1..K
        PROVE  got[p] \in ToSet(DataBlocks(n, i)) \union IndirectBlocks(n, i)
    BY <1>5, <1>8, <1>10
  <2>2. ASSUME NEW b \in ToSet(DataBlocks(n, i)) \union IndirectBlocks(n, i)
        PROVE  \E p \in 1..K : b = got[p]
    BY <1>2, <1>5, <1>6, <1>10
  <2>3. ToSet(got) = {got[p] : p \in 1..K}
    BY <1>9 DEF ToSet
  <2>4. QED BY <2>1, <2>2, <2>3
<1>14. LaidOut(n, i) /\ Owned(n, i) = ToSet(got)
  BY <1>11, <1>12, <1>13 DEF LaidOut, Owned
<1>15. ReadFile(n, i) = [k \in 1..size |-> content[k]]
  <2>1. ASSUME NEW k \in 1..size PROVE n.disk[DataBlock(n, i, k)] = content[k]
    <3>1. k \in 1..Visited(size) /\ k <= size
      BY <1>1
    <3>2. n.disk[Chunk(got, k)] = content[k]
      BY <1>0, <3>1
    <3>3. QED BY <1>3, <3>1, <3>2
  <2>2. QED BY <1>0, <2>1 DEF ReadFile
<1>16. QED BY <1>14, <1>15

IsSequence(s) == s = [k \in 1..Len(s) |-> s[k]]

\* write_file() writes one file, and the others, T, keep their blocks and content,
\* even when the disk is full.  Until it is, the file has its own blocks and what was
\* written.
FileWritten(m, n, T, i, content) ==
  /\ BitmapExact(n) /\ n.full \in BOOLEAN
  /\ n.inode_map = m.inode_map
  /\ n.inode[i].size = Len(content)
  /\ \A j \in T : Unchanged(m, n, j)
  /\ ~n.full => Sound(n, T \union {i}) /\ ReadFile(n, i) = content

LEMMA AllocSound ==
  ASSUME NEW m, NEW S, Sound(m, S), NEW i \in Inums \ S,
         NEW content, Len(content) \in 0..MAXFILE, IsSequence(content)
  PROVE  FileWritten(m, AllocAndWrite(m, i, content), S, i, content)
<1> DEFINE n == AllocAndWrite(m, i, content)
           size == Len(content)
           K == Needs(size)
           got == Alloc(m, K)
<1>a. n = AllocAndWrite(m, i, content)
  OBVIOUS
<1>b. got = Alloc(m, K)
  OBVIOUS
<1>c. Len(content) = size
  OBVIOUS
<1>1. size \in 0..MAXFILE /\ K \in Nat /\ i \in Inums /\ i \notin S
  BY Places
<1>2. Typed(m) /\ m.using_blocks \subseteq Blocks
  BY DEF Sound, Typed
<1>3. /\ got \in [1..K -> 0..BLOCK_NUM]
      /\ \A j \in 1..K : got[j] # 0 => got[j] \in Blocks \ m.using_blocks
      /\ \A j, l \in 1..K : got[j] # 0 /\ got[j] = got[l] => j = l
  BY <1>1, <1>2, AllocGives
<1>4. Wrote(m, i, content, n, got)
  <2> HIDE DEF n, got, size
  <2>1. got = Alloc(m, Needs(Len(content)))
    BY <1>b, <1>c
  <2>2. QED BY <1>2, <1>a, <2>1, AllocFields
<1> HIDE DEF got, n, size
<1>d. /\ n.inode_map = m.inode_map
      /\ n.inode = [m.inode EXCEPT ![i] = Written(m, i, got, size)]
      /\ n.using_blocks = m.using_blocks \union Marked(got)
      /\ n.bitmap = m.bitmap \union Marked(got)
      /\ n.disk = WriteBlocks(m.disk, Writes(got, content))
      /\ n.full = (m.full \/ 0 \in ToSet(got))
      /\ n.lost = m.lost
      /\ n = State(n.inode_map, n.inode, n.using_blocks, n.bitmap, n.disk, n.full, n.lost)
  BY <1>4, <1>c, Zenon DEF Wrote
<1>5. DOMAIN got = 1..K /\ Len(got) = K
  <2> HIDE DEF K
  <2>1. got \in Seq(0..BLOCK_NUM)
    <3>1. K \in Nat /\ got \in [1..K -> 0..BLOCK_NUM]
      BY <1>1, <1>3
    <3>2. QED BY <3>1, SeqDef
  <2>2. DOMAIN got = 1..K
    BY <1>3
  <2>3. QED BY <1>1, <2>1, <2>2, LenProperties
<1>6. /\ n.disk = [b \in 0..BLOCK_NUM |-> n.disk[b]]
      /\ \A b \in 0..BLOCK_NUM : b \notin ToSet(got) => n.disk[b] = m.disk[b]
      /\ IsInjective(got) => OnDisk(n.disk, got, content, size)
  <2>1. size \in 0..MAXFILE /\ got \in [1..Needs(size) -> 0..BLOCK_NUM]
    BY <1>1, <1>3
  <2>2. n.disk = WriteBlocks(m.disk, Writes(got, content))
    BY <1>d
  <2>3. Overwritten(m.disk, n.disk, got, content, size)
    BY <1>2, <1>c, <2>1, <2>2, DiskEffect
  <2>4. QED BY <2>3, Zenon DEF Overwritten
<1>7. /\ n.inode[i].size = size
      /\ \A k \in 1..NDIRECT+1 : k <= K => n.inode[i].blocks[k] = got[k]
      /\ n.inode \in [Inums -> Inode]
      /\ \A j \in Inums \ {i} : n.inode[j] = m.inode[j]
  <2>1. m.inode \in [Inums -> Inode]
    BY <1>2 DEF Typed
  <2>2. Written(m, i, got, size) =
          [size |-> size, blocks |-> [k \in 1..NDIRECT+1 |->
                                        IF k <= K THEN got[k] ELSE m.inode[i].blocks[k]]]
    BY <1>5 DEF Written
  <2>3. ASSUME NEW k \in 1..NDIRECT+1
        PROVE  (IF k <= K THEN got[k] ELSE m.inode[i].blocks[k]) \in 0..BLOCK_NUM
    <3>1. k <= K => k \in 1..K
      BY <1>1, Places
    <3>2. m.inode[i].blocks[k] \in 0..BLOCK_NUM
      BY <1>1, <1>2, InodeFacts
    <3>3. QED BY <1>3, <3>1, <3>2
  <2>4. Written(m, i, got, size) \in Inode
    BY <1>1, <2>2, <2>3 DEF Inode
  <2>5. n.inode[i] = Written(m, i, got, size)
    BY <1>1, <1>d, <2>1
  <2>6. \A j \in Inums \ {i} : n.inode[j] = m.inode[j]
    BY <1>d, <2>1
  <2>7. n.inode \in [Inums -> Inode]
    BY <1>1, <1>d, <2>1, <2>4
  <2>8. QED BY <2>2, <2>5, <2>6, <2>7
<1>8. Marked(got) \subseteq Blocks \ m.using_blocks /\ 0 \notin Marked(got)
  BY <1>3, <1>5 DEF Marked, ToSet
<1>9. BitmapExact(n)
  BY <1>d, <1>8 DEF BitmapExact, Sound
<1>10. n.full \in BOOLEAN
  BY <1>2, <1>d DEF Typed
<1>11. Typed(n)
  <2>1. n.inode_map \subseteq Inums
    BY <1>2, <1>d DEF Typed
  <2>2. n.using_blocks \subseteq Blocks
    BY <1>2, <1>d, <1>8
  <2>3. QED BY <1>d, <1>6, <1>7, <1>10, <2>1, <2>2, Zenon DEF Typed
<1>12. ASSUME NEW j \in S PROVE Unchanged(m, n, j)
  <2>1. j \in Inums /\ n.inode[j] = m.inode[j]
    BY <1>1, <1>7 DEF Sound
  <2>2. ASSUME NEW b \in Owned(m, j) PROVE n.disk[b] = m.disk[b]
    <3>1. b \in m.using_blocks
      BY <2>2 DEF Sound
    <3>2. b \in 0..BLOCK_NUM /\ b # 0
      BY <1>2, <3>1, SizeAssumption DEF Blocks
    <3>3. b \notin ToSet(got)
      BY <1>8, <3>1, <3>2 DEF Marked
    <3>4. QED BY <1>6, <3>2, <3>3
  <2>3. Fresh(m, j) \/ LaidOut(m, j)
    BY DEF Sound
  <2>4. QED BY <1>2, <2>1, <2>2, <2>3, SameBlocks
<1>13. ASSUME ~n.full PROVE Sound(n, S \union {i}) /\ ReadFile(n, i) = content
  <2>1. 0 \notin ToSet(got)
    BY <1>d, <1>13
  <2>2. IsInjective(got)
    BY <1>3, <1>5, <2>1 DEF IsInjective, ToSet
  <2>3. /\ LaidOut(n, i)
        /\ Owned(n, i) = ToSet(got)
        /\ ReadFile(n, i) = [k \in 1..size |-> content[k]]
    <3>1. OnDisk(n.disk, got, content, size) /\ Lists(n.inode[i], got, size)
      BY <1>6, <1>7, <2>2, Zenon DEF Lists
    <3>2. DOMAIN got = 1..K
      BY <1>5
    <3>3. QED BY <1>1, <2>1, <2>2, <3>1, <3>2, WrittenFile
  <2>4. ReadFile(n, i) = content
    <3>1. content = [k \in 1..size |-> content[k]]
      BY <1>c DEF IsSequence
    <3>2. QED BY <2>3, <3>1, Zenon
  <2>5. \A j \in S : /\ Owned(n, j) = Owned(m, j)
                     /\ Fresh(m, j) => Fresh(n, j)
                     /\ LaidOut(m, j) => LaidOut(n, j)
    BY <1>12 DEF Unchanged, Owned, Fresh, LaidOut
  <2>6. Owned(n, i) = Marked(got)
    BY <2>1, <2>3 DEF Marked
  <2>7. \A j \in S \union {i} : Fresh(n, j) \/ LaidOut(n, j)
    BY <2>3, <2>5 DEF Sound
  <2>8. /\ m.using_blocks = m.lost \union UNION {Owned(m, j) : j \in S}
        /\ \A j \in S : Owned(m, j) \cap m.lost = {}
        /\ \A j, k \in S : j # k => Owned(m, j) \cap Owned(m, k) = {}
    BY DEF Sound
  <2>9. n.using_blocks = n.lost \union UNION {Owned(n, j) : j \in S \union {i}}
    <3>1. ASSUME NEW b
          PROVE  b \in n.using_blocks <=> b \in n.lost \/ \E j \in S \union {i} : b \in Owned(n, j)
      <4>1. b \in n.using_blocks <=> b \in m.using_blocks \/ b \in Owned(n, i)
        BY <1>d, <2>6
      <4>2. b \in m.using_blocks <=> b \in n.lost \/ \E j \in S : b \in Owned(n, j)
        <5>1. b \in m.using_blocks <=> b \in m.lost \/ \E j \in S : b \in Owned(m, j)
          BY <2>8
        <5>2. QED BY <1>d, <2>5, <5>1
      <4>3. QED BY <4>1, <4>2
    <3>2. QED BY <3>1
  <2>10. Owned(n, i) \cap m.using_blocks = {}
    BY <1>8, <2>6
  <2>11. \A j \in S \union {i} : Owned(n, j) \cap n.lost = {}
    BY <1>d, <2>5, <2>8, <2>10
  <2>12. \A j, k \in S \union {i} : j # k => Owned(n, j) \cap Owned(n, k) = {}
    BY <2>5, <2>8, <2>10
  <2>13. S \union {i} \subseteq Inums
    BY <1>1 DEF Sound
  <2>14. QED BY <1>9, <1>11, <2>4, <2>7, <2>9, <2>11, <2>12, <2>13 DEF Sound
<1>14. QED BY <1>d, <1>7, <1>9, <1>10, <1>12, <1>13, <1>a, <1>c DEF FileWritten

-----------------------------------------------------------------------------
(* The operations of the inode manager *)

\* write_file() on one of the files S
LEMMA WriteSound ==
  ASSUME NEW m, NEW S, Sound(m, S), NEW i \in S,
         NEW content, Len(content) \in 0..MAXFILE, IsSequence(content),
         NEW n, n = WriteFile(m, i, content)
  PROVE  FileWritten(m, n, S \ {i}, i, content)
<1> DEFINE f == FreeBlocks(m, i)
<1>1. Sound(f, S \ {i}) /\ \A j : Unchanged(m, f, j)
  BY FreeSound
<1>2. f.inode_map = m.inode_map
  BY FreeFields DEF Sound
<1>3. n = AllocAndWrite(f, i, content)
  BY DEF WriteFile
<1>4. i \in Inums \ (S \ {i})
  BY DEF Sound
<1> HIDE DEF f
<1>5. FileWritten(f, n, S \ {i}, i, content)
  BY <1>1, <1>3, <1>4, AllocSound
<1>6. ASSUME NEW j \in S \ {i} PROVE Unchanged(m, n, j)
  BY <1>1, <1>5 DEF Unchanged, FileWritten
<1>7. QED BY <1>2, <1>5, <1>6, Zenon DEF FileWritten

\* A file that has never been written has no block.
LEMMA FreshFile ==
  ASSUME NEW m, Typed(m), NEW i \in Inums, Fresh(m, i)
  PROVE  Owned(m, i) = {} /\ ReadFile(m, i) = << >>
<1>1. m.inode[i].size = 0 /\ m.inode[i].blocks[1] = 0
  BY DEF Fresh
<1>2. Visited(0) = 1 /\ ~Indirect(0) /\ 1 <= NDIRECT
  <2>1. 0 \in 0..MAXFILE
    BY <1>1, InodeFacts
  <2>2. QED BY <2>1, SizeFacts
<1>3. ToSet(DataBlocks(m, i)) = {0}
  <2>1. DataBlocks(m, i) = [k \in 1..1 |-> 0]
    BY <1>1, <1>2 DEF DataBlocks, DataBlock
  <2>2. QED BY <2>1 DEF ToSet
<1>4. IndirectBlocks(m, i) = {}
  BY <1>1, <1>2 DEF IndirectBlocks
<1>5. ReadFile(m, i) = << >>
  BY <1>1 DEF ReadFile
<1>6. QED BY <1>3, <1>4, <1>5 DEF Owned

LEMMA RootInum == Root \in Inums
BY SizeAssumption DEF Root, Inums

LEMMA NewInodeTyped == NewInode \in Inode /\ NewInode.size = 0 /\ NewInode.blocks[1] = 0
BY SizeAssumption DEF NewInode, Inode, MAXFILE

\* An empty disk
LEMMA FormatSound == Sound(Formatted, {Root}) /\ Formatted.inode_map = {Root}
<1> DEFINE m == Formatted
<1>1. /\ m.inode_map = {Root} /\ m.inode = [i \in Inums |-> NewInode]
      /\ m.using_blocks = {} /\ m.bitmap = {} /\ m.disk = [b \in 0..BLOCK_NUM |-> Zero]
      /\ m.full = FALSE /\ m.lost = {}
      /\ m = State(m.inode_map, m.inode, m.using_blocks, m.bitmap, m.disk, m.full, m.lost)
  BY DEF Formatted, State, Root
<1> HIDE DEF m
<1>2. Typed(m)
  <2>1. m.inode \in [Inums -> Inode]
    BY <1>1, NewInodeTyped
  <2>2. m.disk = [b \in 0..BLOCK_NUM |-> m.disk[b]]
    BY <1>1
  <2>3. m.inode_map \subseteq Inums /\ m.using_blocks \subseteq Blocks /\ m.full \in BOOLEAN
    BY <1>1, RootInum
  <2>4. QED BY <1>1, <2>1, <2>2, <2>3, Zenon DEF Typed
<1>3. Fresh(m, Root)
  BY <1>1, NewInodeTyped, RootInum DEF Fresh
<1>4. Owned(m, Root) = {}
  BY <1>2, <1>3, FreshFile, RootInum
<1>5. BitmapExact(m)
  BY <1>1 DEF BitmapExact
<1>6. QED BY <1>1, <1>2, <1>3, <1>4, <1>5, RootInum DEF Sound, m

\* alloc_inode() takes an inode that is free.
LEMMA AllocInodeGives ==
  ASSUME NEW m, NEW i, i = AllocInode(m), i # 0
  PROVE  i \in Inums \ m.inode_map
<1>1. FreeInodes(m) # {} /\ FreeInodes(m) \subseteq Nat
  BY SizeAssumption DEF AllocInode, FreeInodes, Inums
<1>2. PICK j \in FreeInodes(m) : \A k \in FreeInodes(m) : j <= k
  BY <1>1, LeastNumber
<1>3. i = CHOOSE j1 \in FreeInodes(m) : \A k \in FreeInodes(m) : j1 <= k
  BY <1>1 DEF AllocInode
<1>4. i \in FreeInodes(m)
  BY <1>2, <1>3
<1>5. QED BY <1>4 DEF FreeInodes

\* A new inode has no block, whatever its last file had.
InodePut(m, n, S, i) ==
  /\ Sound(n, S \union {i})
  /\ n.inode_map = m.inode_map \union {i} /\ n.full = m.full
  /\ \A j \in S : Unchanged(m, n, j)
  /\ ReadFile(n, i) = << >>

LEMMA PutSound ==
  ASSUME NEW m, NEW S, Sound(m, S), NEW i \in Inums \ S, NEW n, n = PutInode(m, i)
  PROVE  InodePut(m, n, S, i)
<1> DEFINE M == m.inode_map \union {i}
           I == [m.inode EXCEPT ![i] = NewInode]
<1>1. n = [m EXCEPT !.inode_map = M, !.inode[i] = NewInode]
  BY DEF PutInode
<1> HIDE DEF M
<1>2. n = SetInode(SetMap(m, M), I)
  BY <1>1 DEF SetInode, SetMap
<1>3. m = State(m.inode_map, m.inode, m.using_blocks, m.bitmap, m.disk, m.full, m.lost)
  BY Zenon DEF Sound, Typed
<1> HIDE DEF I
<1>4. n = State(M, I, m.using_blocks, m.bitmap, m.disk, m.full, m.lost)
  BY <1>2, <1>3, FieldPut
<1>5. /\ n.inode_map = M /\ n.inode = I /\ n.using_blocks = m.using_blocks
      /\ n.bitmap = m.bitmap /\ n.disk = m.disk /\ n.full = m.full /\ n.lost = m.lost
      /\ n = State(n.inode_map, n.inode, n.using_blocks, n.bitmap, n.disk, n.full, n.lost)
  BY <1>4, FieldGet
<1>6. Typed(m) /\ i \in Inums /\ m.inode \in [Inums -> Inode] /\ S \subseteq Inums
  BY DEF Sound, Typed
<1>7. /\ n.inode \in [Inums -> Inode]
      /\ n.inode[i] = NewInode
      /\ \A j \in S : n.inode[j] = m.inode[j]
  BY <1>5, <1>6, NewInodeTyped DEF I
<1>8. Typed(n)
  <2>1. n.inode_map \subseteq Inums
    BY <1>5, <1>6 DEF M, Typed
  <2>2. /\ n.using_blocks \subseteq Blocks /\ n.full \in BOOLEAN
        /\ n.disk = [b \in 0..BLOCK_NUM |-> n.disk[b]]
    BY <1>5, <1>6, Zenon DEF Typed
  <2>3. QED BY <1>5, <1>7, <2>1, <2>2, Zenon DEF Typed
<1>9. ASSUME NEW j \in S PROVE Unchanged(m, n, j)
  <2>1. Fresh(m, j) \/ LaidOut(m, j)
    BY DEF Sound
  <2>2. \A b \in Owned(m, j) : n.disk[b] = m.disk[b]
    BY <1>5
  <2>3. QED BY <1>6, <1>7, <2>1, <2>2, SameBlocks
<1>10. Fresh(n, i)
  BY <1>7, NewInodeTyped DEF Fresh
<1>11. Owned(n, i) = {} /\ ReadFile(n, i) = << >>
  BY <1>6, <1>8, <1>10, FreshFile
<1>12. \A j \in S : /\ Owned(n, j) = Owned(m, j)
                    /\ Fresh(m, j) => Fresh(n, j)
                    /\ LaidOut(m, j) => LaidOut(n, j)
  BY <1>9 DEF Unchanged, Owned, Fresh, LaidOut
<1>13. Sound(n, S \union {i})
  <2>1. BitmapExact(n)
    BY <1>5 DEF Sound, BitmapExact
  <2>2. \A j \in S \union {i} : Fresh(n, j) \/ LaidOut(n, j)
    BY <1>10, <1>12 DEF Sound
  <2>3. n.using_blocks = n.lost \union UNION {Owned(n, j) : j \in S \union {i}}
    <3>1. m.using_blocks = m.lost \union UNION {Owned(m, j) : j \in S}
      BY DEF Sound
    <3>2. UNION {Owned(n, j) : j \in S \union {i}} = UNION {Owned(m, j) : j \in S}
      BY <1>11, <1>12
    <3>3. QED BY <1>5, <3>1, <3>2
  <2>4. \A j \in S \union {i} : Owned(n, j) \cap n.lost = {}
    BY <1>5, <1>11, <1>12 DEF Sound
  <2>5. \A j, k \in S \union {i} : j # k => Owned(n, j) \cap Owned(n, k) = {}
    BY <1>11, <1>12 DEF Sound
  <2>6. QED BY <1>6, <1>8, <2>1, <2>2, <2>3, <2>4, <2>5 DEF Sound
<1>14. QED BY <1>5, <1>9, <1>11, <1>13 DEF M, InodePut

\* remove_file()
InodeGone(m, n, S, i) ==
  /\ Sound(n, S \ {i})
  /\ n.inode_map = m.inode_map \ {i} /\ n.full = m.full
  /\ \A j : Unchanged(m, n, j)

LEMMA RemoveSound ==
  ASSUME NEW m, NEW S, Sound(m, S), NEW i \in S, NEW n, n = RemoveFile(m, i)
  PROVE  InodeGone(m, n, S, i)
<1> DEFINE f == FreeBlocks(m, i)
           M == m.inode_map \ {i}
<1>1. Sound(f, S \ {i}) /\ (\A j : Unchanged(m, f, j)) /\ Typed(f)
  <2>1. Sound(f, S \ {i}) /\ (\A j : Unchanged(m, f, j))
    BY FreeSound
  <2>2. QED BY <2>1, Zenon DEF Sound
<1>2. f.inode_map = m.inode_map /\ f.full = m.full
  BY FreeFields DEF Sound
<1>3. n = SetMap(f, M)
  BY <1>2 DEF RemoveFile, SetMap
<1> HIDE DEF f, M
<1>4. f = State(f.inode_map, f.inode, f.using_blocks, f.bitmap, f.disk, f.full, f.lost)
  BY <1>1, Zenon DEF Typed
<1>5. n = State(M, f.inode, f.using_blocks, f.bitmap, f.disk, f.full, f.lost)
  BY <1>3, <1>4, FieldPut
<1>6. /\ n.inode_map = M /\ n.inode = f.inode /\ n.using_blocks = f.using_blocks
      /\ n.bitmap = f.bitmap /\ n.disk = f.disk /\ n.full = f.full /\ n.lost = f.lost
      /\ n = State(n.inode_map, n.inode, n.using_blocks, n.bitmap, n.disk, n.full, n.lost)
  BY <1>5, FieldGet
<1>7. \A j : Unchanged(f, n, j)
  BY <1>6, SameDisk
<1>8. Typed(n)
  <2>1. n.inode_map \subseteq Inums
    BY <1>1, <1>2, <1>6 DEF Typed, M
  <2>2. /\ n.inode \in [Inums -> Inode]
        /\ n.using_blocks \subseteq Blocks /\ n.full \in BOOLEAN
        /\ n.disk = [b \in 0..BLOCK_NUM |-> n.disk[b]]
    BY <1>1, <1>6, Zenon DEF Typed
  <2>3. QED BY <1>6, <2>1, <2>2, Zenon DEF Typed
<1>9. \A j : /\ Owned(n, j) = Owned(f, j)
             /\ Fresh(f, j) => Fresh(n, j)
             /\ LaidOut(f, j) => LaidOut(n, j)
  BY <1>7 DEF Unchanged, Owned, Fresh, LaidOut
<1>10. BitmapExact(n)
  BY <1>1, <1>6 DEF Sound, BitmapExact
<1>11. Sound(n, S \ {i})
  BY <1>1, <1>6, <1>8, <1>9, <1>10 DEF Sound
<1>12. \A j : Unchanged(m, n, j)
  BY <1>1, <1>7 DEF Unchanged
<1>13. QED BY <1>2, <1>6, <1>11, <1>12 DEF M, InodeGone

-----------------------------------------------------------------------------
(* The directory *)

NamesOf(e) == {e[k].name : k \in DOMAIN e}
PositionIn(e, name) == SelectInSeq(e, LAMBDA x : x.name = name)
FileOf(m, name) == ReadFile(m, Root)[PositionIn(ReadFile(m, Root), name)].inum

Has(m, name) == name \in NamesOf(ReadFile(m, Root)) /\ FileOf(m, name) # 0

\* The content of each name
TreeOf(m) ==
  [name \in Names |-> IF Has(m, name)
                      THEN ReadFile(m, FileOf(m, name)) ELSE Absent]

LEMMA SequenceFacts ==
  ASSUME NEW V, NEW s \in Seq(V)
  PROVE  /\ IsSequence(s) /\ Len(s) \in Nat /\ DOMAIN s = 1..Len(s)
         /\ \A k \in 1..Len(s) : s[k] \in V
BY LenProperties DEF IsSequence

\* What Filed says, entry by entry
LEMMA FiledFacts ==
  ASSUME NEW m, NEW e, Filed(m, e)
  PROVE  /\ IsSequence(e) /\ Len(e) \in Nat /\ DOMAIN e = 1..Len(e)
         /\ \A k \in 1..Len(e) : /\ e[k] \in Entry
                                 /\ e[k].name \in Names
                                 /\ e[k].inum \in (Inums \union {0}) \ {Root}
                                 /\ e[k].inum # 0 => e[k].inum \in m.inode_map \ {Root}
         /\ \A k, l \in 1..Len(e) : Clash(e[k], e[l]) => k = l
         /\ Root \in m.inode_map /\ 0 \notin m.inode_map
         /\ \A i \in m.inode_map \ {Root} : \E k \in 1..Len(e) : e[k].inum = i
<1>1. e \in Seq(Entry)
  BY DEF Filed
<1>2. /\ IsSequence(e) /\ Len(e) \in Nat /\ DOMAIN e = 1..Len(e)
      /\ \A k \in 1..Len(e) : e[k] \in Entry
  BY <1>1, SequenceFacts
<1>3. /\ \A k, l \in DOMAIN e : Clash(e[k], e[l]) => k = l
      /\ m.inode_map = ({e[k].inum : k \in DOMAIN e} \ {0}) \union {Root}
  BY DEF Filed
<1>4. \A k \in 1..Len(e) :
        e[k].name \in Names /\ e[k].inum \in (Inums \union {0}) \ {Root}
  BY <1>2 DEF Entry
<1>5. Root # 0
  BY DEF Root
<1>6. QED BY <1>2, <1>3, <1>4, <1>5

\* e is s with x after it.
Longer(s, x, e) ==
  /\ Len(e) = Len(s)+1 /\ e[Len(s)+1] = x
  /\ \A k \in 1..Len(s) : e[k] = s[k]

LEMMA AppendFacts ==
  ASSUME NEW V, NEW s, s \in Seq(V), NEW x, x \in V
  PROVE  Append(s, x) \in Seq(V) /\ Longer(s, x, Append(s, x))
BY DEF Longer

\* e is s without its place p.
Shorter(s, p, e) ==
  /\ Len(e) = Len(s)-1
  /\ \A k \in 1..Len(s)-1 : e[k] = IF k < p THEN s[k] ELSE s[k+1]

LEMMA RemoveFacts ==
  ASSUME NEW V, NEW s, s \in Seq(V), NEW p \in 1..Len(s)
  PROVE  RemoveAt(s, p) \in Seq(V) /\ Shorter(s, p, RemoveAt(s, p))
<1> DEFINE a == SubSeq(s, 1, p-1)
           b == SubSeq(s, p+1, Len(s))
<1>1. Len(s) \in Nat /\ \A k \in 1..Len(s) : s[k] \in V
  BY LenProperties
<1>2. a \in Seq(V) /\ Len(a) = p-1 /\ \A k \in 1..p-1 : a[k] = s[k]
  <2>1. \A k \in 1..p-1 : s[k] \in V
    BY <1>1
  <2>2. /\ a \in Seq(V) /\ Len(a) = IF 1 <= p-1 THEN (p-1)-1+1 ELSE 0
        /\ \A k \in 1..(p-1)-1+1 : a[k] = s[1+k-1]
    BY <2>1, SubSeqProperties
  <2>3. QED BY <2>2
<1>3. b \in Seq(V) /\ Len(b) = Len(s)-p /\ \A k \in 1..Len(s)-p : b[k] = s[p+k]
  <2>1. \A k \in p+1..Len(s) : s[k] \in V
    BY <1>1
  <2>2. /\ b \in Seq(V) /\ Len(b) = IF p+1 <= Len(s) THEN Len(s)-(p+1)+1 ELSE 0
        /\ \A k \in 1..Len(s)-(p+1)+1 : b[k] = s[(p+1)+k-1]
    BY <1>1, <2>1, SubSeqProperties
  <2>3. QED BY <1>1, <2>2
<1> HIDE DEF a, b
<1>4. /\ a \o b \in Seq(V) /\ Len(a \o b) = Len(a) + Len(b)
      /\ \A k \in 1..Len(a) + Len(b) : (a \o b)[k] = IF k <= Len(a) THEN a[k] ELSE b[k - Len(a)]
  BY <1>2, <1>3, ConcatProperties
<1>5. ASSUME NEW k \in 1..Len(s)-1
      PROVE  (a \o b)[k] = IF k < p THEN s[k] ELSE s[k+1]
  <2>1. k \in 1..Len(a) + Len(b)
    BY <1>1, <1>2, <1>3
  <2>2. CASE k < p
    <3>1. k \in 1..p-1 /\ k <= Len(a)
      BY <1>2, <2>2
    <3>2. QED BY <1>2, <1>4, <2>1, <2>2, <3>1
  <2>3. CASE ~(k < p)
    <3>1. k-(p-1) \in 1..Len(s)-p /\ ~(k <= Len(a)) /\ p+(k-(p-1)) = k+1
      BY <1>1, <1>2, <2>3
    <3>2. (a \o b)[k] = b[k-(p-1)]
      BY <1>2, <1>4, <2>1, <3>1
    <3>3. QED BY <1>3, <2>3, <3>1, <3>2
  <2>4. QED BY <2>2, <2>3
<1>6. RemoveAt(s, p) = a \o b
  BY DEF RemoveAt, a, b
<1>7. Len(a \o b) = Len(s)-1
  BY <1>1, <1>2, <1>3, <1>4
<1>8. QED BY <1>4, <1>5, <1>6, <1>7 DEF Shorter

LEMMA ReadSize ==
  ASSUME NEW m, Typed(m), NEW i \in Inums
  PROVE  /\ Len(ReadFile(m, i)) = m.inode[i].size /\ Len(ReadFile(m, i)) \in 0..MAXFILE
<1>1. m.inode[i].size \in 0..MAXFILE
  BY InodeFacts
<1>2. m.inode[i].size \in Nat
  BY <1>1, SizeFacts
<1>3. QED BY <1>1, <1>2 DEF ReadFile

\* A name that is listed has one place.
LEMMA PositionFacts ==
  ASSUME NEW m, NEW e, Filed(m, e), NEW k \in 1..Len(e)
  PROVE  PositionIn(e, e[k].name) = k
<1> DEFINE at == {l \in 1..Len(e) : e[l].name = e[k].name}
<1>1. at = {k}
  BY FiledFacts DEF Clash
<1>2. PositionIn(e, e[k].name) = IF at # {} THEN Min(at) ELSE 0
  BY DEF PositionIn, SelectInSeq
<1>3. Min({k}) = k
  BY DEF Min
<1>4. QED BY <1>1, <1>2, <1>3

\* The file of a listed name, and the other files
LEMMA FileFacts ==
  ASSUME NEW m, Good(m), NEW name \in NamesOf(ReadFile(m, Root))
  PROVE  LET e == ReadFile(m, Root)
             p == PositionIn(e, name)
         IN  /\ p \in 1..Len(e) /\ e[p].name = name /\ name \in Names
             /\ FileOf(m, name) = e[p].inum
             /\ FileOf(m, name) # 0 =>
                  /\ FileOf(m, name) \in m.inode_map \ {Root}
                  /\ ReadFile(m, FileOf(m, name)) \in Seq(Values)
                  /\ \A other \in NamesOf(e) :
                       FileOf(m, other) = FileOf(m, name) => other = name
<1> DEFINE e == ReadFile(m, Root)
<1>1. Filed(m, e)
  BY DEF Good
<1> HIDE DEF e
<1>2. DOMAIN e = 1..Len(e)
  BY <1>1, FiledFacts
<1>3. \A k \in 1..Len(e) : PositionIn(e, e[k].name) = k
  BY <1>1, PositionFacts
<1>4. \A other \in NamesOf(e) :
        /\ PositionIn(e, other) \in 1..Len(e)
        /\ e[PositionIn(e, other)].name = other
        /\ FileOf(m, other) = e[PositionIn(e, other)].inum
  BY <1>2, <1>3 DEF NamesOf, FileOf, e
<1>5. name \in NamesOf(e)
  BY DEF e
<1>6. /\ name \in Names
      /\ FileOf(m, name) # 0 =>
           /\ FileOf(m, name) \in m.inode_map \ {Root}
           /\ \A other \in NamesOf(e) : FileOf(m, other) = FileOf(m, name) => other = name
  <2>1. /\ \A k \in 1..Len(e) : /\ e[k].name \in Names
                                /\ e[k].inum # 0 => e[k].inum \in m.inode_map \ {Root}
        /\ \A k, l \in 1..Len(e) : Clash(e[k], e[l]) => k = l
    BY <1>1, FiledFacts
  <2>2. name \in Names /\ (FileOf(m, name) # 0 => FileOf(m, name) \in m.inode_map \ {Root})
    BY <1>4, <1>5, <2>1
  <2>3. ASSUME NEW other \in NamesOf(e), FileOf(m, name) # 0, FileOf(m, other) = FileOf(m, name)
        PROVE  other = name
    <3>1. Clash(e[PositionIn(e, other)], e[PositionIn(e, name)])
      BY <1>4, <1>5, <2>3 DEF Clash
    <3>2. PositionIn(e, other) = PositionIn(e, name)
      BY <1>4, <1>5, <2>1, <3>1
    <3>3. QED BY <1>4, <1>5, <3>2
  <2>4. QED BY <2>2, <2>3
<1>7. FileOf(m, name) # 0 => ReadFile(m, FileOf(m, name)) \in Seq(Values)
  BY <1>1, <1>6 DEF Filed
<1>8. QED BY <1>4, <1>5, <1>6, <1>7 DEF e

-----------------------------------------------------------------------------
(* The operations on the directory *)

IsContent(c) == c \in Seq(Values) /\ Len(c) <= MAXFILE

LEMMA ContentFacts ==
  ASSUME NEW c, IsContent(c)
  PROVE  IsSequence(c) /\ Len(c) \in 0..MAXFILE
BY SequenceFacts, SizeAssumption DEF IsContent, MAXFILE

\* Unless the disk is full, n is m with the content c of name.
Changed(m, n, name, c) ==
  ~n.full => Good(n) /\ TreeOf(n) = [TreeOf(m) EXCEPT ![name] = c]

\* write() and setattr() write one file.
LEMMA WriteStep ==
  ASSUME NEW m, Good(m), NEW name, Has(m, name), NEW c, IsContent(c),
         NEW n, n = WriteFile(m, FileOf(m, name), c)
  PROVE  /\ FileWritten(m, n, m.inode_map \ {FileOf(m, name)}, FileOf(m, name), c)
         /\ Changed(m, n, name, c)
<1> DEFINE i == FileOf(m, name)
           e == ReadFile(m, Root)
<1>1. i \in m.inode_map \ {Root} /\ name \in Names /\ Filed(m, e)
  BY FileFacts DEF Good, Has
<1>2. \A other : Has(m, other) => /\ FileOf(m, other) \in m.inode_map \ {Root}
                                  /\ FileOf(m, other) = i => other = name
  BY FileFacts DEF Has
<1>3. FileWritten(m, n, m.inode_map \ {i}, i, c)
  BY <1>1, ContentFacts, WriteSound DEF Good
<1> HIDE DEF i
<1>4. ASSUME ~n.full PROVE Good(n) /\ TreeOf(n) = [TreeOf(m) EXCEPT ![name] = c]
  <2>1. /\ n.inode_map = m.inode_map
        /\ \A j \in m.inode_map \ {i} : ReadFile(n, j) = ReadFile(m, j)
        /\ Sound(n, (m.inode_map \ {i}) \union {i}) /\ ReadFile(n, i) = c
    BY <1>3, <1>4 DEF FileWritten, Unchanged
  <2>2. (m.inode_map \ {i}) \union {i} = n.inode_map
    BY <1>1, <2>1
  <2>3. ReadFile(n, Root) = e
    BY <1>1, <2>1 DEF Filed
  <2>4. Filed(n, e)
    <3>1. \A j \in n.inode_map \ {Root} : ReadFile(n, j) \in Seq(Values)
      BY <1>1, <2>1 DEF Filed, IsContent
    <3>2. QED BY <1>1, <2>1, <3>1 DEF Filed
  <2>5. Good(n)
    BY <2>1, <2>2, <2>3, <2>4 DEF Good
  <2>6. \A other : FileOf(n, other) = FileOf(m, other) /\ (Has(n, other) <=> Has(m, other))
    BY <2>3 DEF FileOf, Has
  <2> HIDE DEF e
  <2>7. TreeOf(n) = [other \in Names |-> IF Has(m, other)
                                          THEN ReadFile(n, FileOf(m, other)) ELSE Absent]
    BY <2>6 DEF TreeOf
  <2>8. TreeOf(m) = [other \in Names |-> IF Has(m, other)
                                          THEN ReadFile(m, FileOf(m, other)) ELSE Absent]
    BY DEF TreeOf
  <2>9. \A other : Has(m, other) =>
          ReadFile(n, FileOf(m, other)) = IF other = name THEN c ELSE ReadFile(m, FileOf(m, other))
    <3>1. FileOf(m, name) = i
      BY DEF i
    <3>2. ASSUME NEW other, Has(m, other), other # name
          PROVE  ReadFile(n, FileOf(m, other)) = ReadFile(m, FileOf(m, other))
      <4>1. FileOf(m, other) \in m.inode_map \ {i}
        <5>1. Has(m, other) /\ other # name
          BY <3>2
        <5>2. FileOf(m, other) \in m.inode_map \ {Root} /\ FileOf(m, other) # i
          BY <1>2, <5>1
        <5>3. QED BY <5>2
      <4>2. QED BY <2>1, <4>1
    <3>3. QED BY <2>1, <3>1, <3>2
  <2>10. Has(m, name)
    OBVIOUS
  <2>11. QED BY <1>1, <2>5, <2>7, <2>8, <2>9, <2>10
<1>5. QED BY <1>3, <1>4 DEF i, Changed

\* create(), mkdir() and mksym() add a name, with an empty file if
\* there is an inode left for it.
NewFile(i) == IF i = 0 THEN Absent ELSE << >>
WithInode(m, i) == IF i = 0 THEN m ELSE PutInode(m, i)

Created(m, i, e, n, name) ==
  LET f == WithInode(m, i) IN
  /\ FileWritten(f, n, (m.inode_map \union ({i} \ {0})) \ {Root}, Root, e)
  /\ \A j \in m.inode_map : Unchanged(m, f, j)
  /\ Changed(m, n, name, NewFile(i))

LEMMA CreateStep ==
  ASSUME NEW m, Good(m), NEW name \in Names \ NamesOf(ReadFile(m, Root)),
         Len(ReadFile(m, Root)) < MAXFILE,
         NEW i, i = AllocInode(m),
         NEW e, e = Append(ReadFile(m, Root), [name |-> name, inum |-> i]),
         NEW n, n = WriteFile(WithInode(m, i), Root, e)
  PROVE  Created(m, i, e, n, name)
<1> DEFINE old == ReadFile(m, Root)
           f == WithInode(m, i)
           S == m.inode_map \union ({i} \ {0})
<1>1. Sound(m, m.inode_map) /\ Filed(m, old)
  BY DEF Good
<1>2. /\ i \in (Inums \union {0}) \ {Root} /\ i \notin m.inode_map /\ 0 \notin m.inode_map
      /\ i # 0 => i \in Inums
  BY <1>1, AllocInodeGives, FiledFacts DEF Root
<1>3. /\ Sound(f, S) /\ f.inode_map = S /\ (\A j \in m.inode_map : Unchanged(m, f, j))
      /\ i # 0 => ReadFile(f, i) = << >>
  <2>1. f = WithInode(m, i) /\ S = m.inode_map \union ({i} \ {0})
    OBVIOUS
  <2> HIDE DEF f, S
  <2>2. CASE i = 0
    <3>1. f = m /\ S = m.inode_map
      BY <2>1, <2>2 DEF WithInode
    <3>2. QED BY <1>1, <2>2, <3>1 DEF Unchanged
  <2>3. CASE i # 0
    <3>1. f = PutInode(m, i) /\ S = m.inode_map \union {i} /\ i \in Inums \ m.inode_map
      BY <1>2, <2>1, <2>3 DEF WithInode
    <3>2. InodePut(m, f, m.inode_map, i)
      BY <1>1, <3>1, PutSound
    <3>3. QED BY <3>1, <3>2, Zenon DEF InodePut
  <2>4. QED BY <2>2, <2>3
<1>4. /\ Len(old) \in Nat /\ DOMAIN old = 1..Len(old) /\ Root \in m.inode_map
      /\ \A k \in 1..Len(old) :
           /\ old[k].name # name /\ (i # 0 => old[k].inum # i)
           /\ old[k].inum # 0 => old[k].inum \in m.inode_map \ {Root}
      /\ \A k, l \in 1..Len(old) : Clash(old[k], old[l]) => k = l
      /\ \A j \in m.inode_map \ {Root} : \E k \in 1..Len(old) : old[k].inum = j
  <2>1. DOMAIN old = 1..Len(old)
    BY <1>1, FiledFacts
  <2>2. \A k \in 1..Len(old) : old[k].name # name
    BY <2>1 DEF NamesOf
  <2>3. QED BY <1>1, <1>2, <2>1, <2>2, FiledFacts
<1>5. /\ e \in Seq(Entry) /\ Len(e) = Len(old)+1 /\ e[Len(old)+1].name = name
      /\ e[Len(old)+1].inum = i /\ \A k \in 1..Len(old) : e[k] = old[k]
  <2> DEFINE x == [name |-> name, inum |-> i]
  <2>1. x \in Entry /\ x.name = name /\ x.inum = i
    BY <1>2, <1>4 DEF Entry
  <2>2. old \in Seq(Entry)
    BY <1>1 DEF Filed
  <2>3. e = Append(old, x)
    OBVIOUS
  <2> HIDE DEF x, old
  <2>4. Append(old, x) \in Seq(Entry) /\ Longer(old, x, Append(old, x))
    BY <2>1, <2>2, AppendFacts, Zenon
  <2>5. e \in Seq(Entry) /\ Longer(old, x, e)
    BY <2>3, <2>4, Zenon
  <2>6. QED BY <2>1, <2>5, Zenon DEF Longer
<1>6. IsSequence(e) /\ Len(e) \in 0..MAXFILE /\ DOMAIN e = 1..Len(old)+1
  <2>1. IsSequence(e) /\ DOMAIN e = 1..Len(e)
    BY <1>5, SequenceFacts
  <2>2. QED BY <1>4, <1>5, <2>1, SizeAssumption DEF MAXFILE
<1> HIDE DEF f, old
<1>7. FileWritten(f, n, S \ {Root}, Root, e)
  <2>1. n = WriteFile(f, Root, e)
    BY DEF f
  <2>2. QED BY <1>3, <1>4, <1>6, <2>1, WriteSound
<1>8. ASSUME ~n.full PROVE Good(n) /\ TreeOf(n) = [TreeOf(m) EXCEPT ![name] = NewFile(i)]
  <2>1. /\ n.inode_map = S /\ Sound(n, (S \ {Root}) \union {Root}) /\ ReadFile(n, Root) = e
        /\ \A j \in S \ {Root} : ReadFile(n, j) = ReadFile(f, j)
    BY <1>3, <1>7, <1>8 DEF FileWritten, Unchanged
  <2>2. (S \ {Root}) \union {Root} = S
    BY <1>4
  <2>3. i # Root
    BY <1>2, <1>4
  <2>4. /\ i # 0 => ReadFile(n, i) = << >>
        /\ \A j \in m.inode_map \ {Root} : ReadFile(n, j) = ReadFile(m, j)
    BY <1>3, <2>1, <2>3 DEF Unchanged
  <2>5. Filed(n, e)
    <3>1. \A k, l \in 1..Len(old)+1 : Clash(e[k], e[l]) => k = l
      BY <1>4, <1>5 DEF Clash
    <3>2. \A k \in 1..Len(old)+1 : e[k].inum # 0 => e[k].inum \in n.inode_map
      BY <1>4, <1>5, <2>1
    <3>3. \A j \in n.inode_map \ {Root} : \E k \in 1..Len(old)+1 : e[k].inum = j
      <4>1. ASSUME NEW j \in m.inode_map \ {Root} PROVE \E k \in 1..Len(old)+1 : e[k].inum = j
        BY <1>4, <1>5
      <4>2. \E k \in 1..Len(old)+1 : e[k].inum = i
        BY <1>4, <1>5
      <4>3. QED BY <2>1, <4>1, <4>2
    <3>4. \A j \in n.inode_map \ {Root} : ReadFile(n, j) \in Seq(Values)
      <4>1. \A j \in m.inode_map \ {Root} : ReadFile(m, j) \in Seq(Values)
        BY <1>1 DEF Filed
      <4>2. << >> \in Seq(Values)
        OBVIOUS
      <4>3. ASSUME NEW j \in n.inode_map, j # Root PROVE ReadFile(n, j) \in Seq(Values)
        <5>1. j = i \/ j \in m.inode_map \ {Root}
          BY <2>1, <4>3
        <5>2. CASE j = i
          <6>1. i # 0
            BY <1>2, <2>1, <4>3, <5>2
          <6>2. QED BY <2>4, <4>2, <5>2, <6>1, Zenon
        <5>3. CASE j \in m.inode_map \ {Root}
          <6>1. ReadFile(n, j) = ReadFile(m, j) /\ ReadFile(m, j) \in Seq(Values)
            BY <2>4, <4>1, <5>3
          <6>2. QED BY <6>1, Zenon
        <5>4. QED BY <5>1, <5>2, <5>3, Zenon
      <4>4. QED BY <4>3
    <3>5. Len(old)+1 \in Nat /\ Root \in n.inode_map /\ 0 \notin n.inode_map
      BY <1>2, <1>4, <2>1
    <3>6. n.inode_map = ({e[k].inum : k \in DOMAIN e} \ {0}) \union {Root}
      BY <1>6, <3>2, <3>3, <3>5
    <3>7. \A k, l \in DOMAIN e : Clash(e[k], e[l]) => k = l
      BY <1>6, <3>1
    <3>8. QED BY <1>5, <3>4, <3>6, <3>7, Zenon DEF Filed
  <2>6. Good(n)
    BY <2>1, <2>2, <2>5 DEF Good
  <2>7. NamesOf(e) = NamesOf(old) \union {name}
    BY <1>4, <1>5, <1>6 DEF NamesOf
  <2>8. \A k \in 1..Len(old) : FileOf(n, old[k].name) = old[k].inum /\ FileOf(m, old[k].name) = old[k].inum
    <3>1. ASSUME NEW k \in 1..Len(old)
          PROVE  PositionIn(e, old[k].name) = k /\ PositionIn(old, old[k].name) = k
      <4>1. k \in 1..Len(e) /\ e[k].name = old[k].name
        BY <1>4, <1>5
      <4>2. QED BY <1>1, <2>5, <4>1, PositionFacts DEF old
    <3>2. QED BY <1>5, <2>1, <3>1 DEF FileOf, old
  <2>9. FileOf(n, name) = i
    <3>1. Len(old)+1 \in 1..Len(e)
      BY <1>4, <1>5
    <3>2. PositionIn(e, name) = Len(old)+1
      BY <1>5, <2>5, <3>1, PositionFacts
    <3>3. QED BY <1>5, <2>1, <3>2 DEF FileOf
  <2>10. ASSUME NEW other \in NamesOf(old)
         PROVE  /\ other # name /\ FileOf(n, other) = FileOf(m, other)
                /\ FileOf(m, other) # 0 =>
                     ReadFile(n, FileOf(n, other)) = ReadFile(m, FileOf(m, other))
    BY <1>4, <2>4, <2>8 DEF NamesOf
  <2>11. TreeOf(n) = [other \in Names |-> IF other \in NamesOf(e) /\ FileOf(n, other) # 0
                                           THEN ReadFile(n, FileOf(n, other)) ELSE Absent]
    BY <2>1 DEF TreeOf, Has
  <2>12. TreeOf(m) = [other \in Names |-> IF other \in NamesOf(old) /\ FileOf(m, other) # 0
                                           THEN ReadFile(m, FileOf(m, other)) ELSE Absent]
    BY DEF TreeOf, Has, old
  <2>13. NewFile(i) = IF i # 0 THEN ReadFile(n, i) ELSE Absent
    BY <2>4 DEF NewFile
  <2>14. QED BY <2>6, <2>7, <2>9, <2>10, <2>11, <2>12, <2>13
<1>9. QED BY <1>3, <1>7, <1>8 DEF f, Created, Changed

\* unlink() takes a name away, with its file.
Unlinked(m, i, e, n, name) ==
  LET f == RemoveFile(m, i) IN
  /\ FileWritten(f, n, (m.inode_map \ {i}) \ {Root}, Root, e)
  /\ f.inode_map = m.inode_map \ {i}
  /\ \A j : Unchanged(m, f, j)
  /\ Changed(m, n, name, Absent)

LEMMA UnlinkStep ==
  ASSUME NEW m, Good(m), NEW name, Has(m, name), NEW i, i = FileOf(m, name),
         NEW e, e = RemoveAt(ReadFile(m, Root), PositionIn(ReadFile(m, Root), name)),
         NEW n, n = WriteFile(RemoveFile(m, i), Root, e)
  PROVE  Unlinked(m, i, e, n, name)
<1> DEFINE old == ReadFile(m, Root)
           f == RemoveFile(m, i)
           S == m.inode_map \ {i}
           p == PositionIn(old, name)
<1>1. Sound(m, m.inode_map) /\ Filed(m, old)
  BY DEF Good
<1>2. /\ p \in 1..Len(old) /\ old[p].name = name /\ name \in Names /\ i = old[p].inum
      /\ i \in m.inode_map \ {Root} /\ i # 0
  BY FileFacts DEF Has
<1>3. Sound(f, S) /\ f.inode_map = S /\ (\A j : Unchanged(m, f, j))
  <2>1. f = RemoveFile(m, i)
    OBVIOUS
  <2> HIDE DEF f
  <2>2. Sound(m, m.inode_map) /\ i \in m.inode_map
    BY <1>1, <1>2
  <2>3. InodeGone(m, f, m.inode_map, i)
    BY <2>1, <2>2, RemoveSound
  <2>4. QED BY <2>3, Zenon DEF InodeGone
<1>4. /\ Len(old) \in 0..MAXFILE /\ DOMAIN old = 1..Len(old) /\ Root \in S
      /\ 0 \notin S
      /\ \A k \in 1..Len(old) : old[k].inum # 0 => old[k].inum \in m.inode_map \ {Root}
      /\ \A k, l \in 1..Len(old) : Clash(old[k], old[l]) => k = l
      /\ \A j \in m.inode_map \ {Root} : \E k \in 1..Len(old) : old[k].inum = j
  <2>1. Len(old) \in 0..MAXFILE
    BY <1>1, RootInum, ReadSize DEF Sound
  <2>2. QED BY <1>1, <1>2, <2>1, FiledFacts
<1>5. /\ e \in Seq(Entry) /\ Len(e) = Len(old)-1
      /\ \A k \in 1..Len(old)-1 : e[k] = IF k < p THEN old[k] ELSE old[k+1]
  <2>1. old \in Seq(Entry) /\ e = RemoveAt(old, p)
    BY <1>1 DEF Filed
  <2> HIDE DEF old, p
  <2>2. RemoveAt(old, p) \in Seq(Entry) /\ Shorter(old, p, RemoveAt(old, p))
    BY <1>2, <2>1, RemoveFacts
  <2>3. e \in Seq(Entry) /\ Shorter(old, p, e)
    BY <2>1, <2>2, Zenon
  <2>4. QED BY <2>3, Zenon DEF Shorter
<1>6. IsSequence(e) /\ Len(e) \in 0..MAXFILE /\ DOMAIN e = 1..Len(old)-1
  <2>1. IsSequence(e) /\ DOMAIN e = 1..Len(e)
    BY <1>5, SequenceFacts
  <2>2. Len(old) \in Nat /\ Len(old) <= MAXFILE /\ MAXFILE \in Nat
    BY <1>4, SizeAssumption DEF MAXFILE
  <2>3. QED BY <1>2, <1>5, <2>1, <2>2
<1> HIDE DEF f, old, p
<1>7. FileWritten(f, n, S \ {Root}, Root, e)
  <2>1. n = WriteFile(f, Root, e)
    BY DEF f
  <2>2. QED BY <1>3, <1>4, <1>6, <2>1, WriteSound
\* Every other entry has a place in e, and every entry of e is another one.
<1>8. /\ \A k \in 1..Len(old) : k # p => \E l \in 1..Len(old)-1 : e[l] = old[k]
      /\ \A l \in 1..Len(old)-1 : \E k \in 1..Len(old) : k # p /\ e[l] = old[k]
      /\ \A k, l \in 1..Len(old)-1 : Clash(e[k], e[l]) => k = l
  <2>1. Len(old) \in Nat /\ p \in Nat
    BY <1>2, <1>4, SizeAssumption DEF MAXFILE
  <2>2. ASSUME NEW k \in 1..Len(old), k # p PROVE \E l \in 1..Len(old)-1 : e[l] = old[k]
    <3>1. CASE k < p
      <4>1. k \in 1..Len(old)-1
        BY <1>2, <2>1, <3>1
      <4>2. QED BY <1>5, <3>1, <4>1
    <3>2. CASE ~(k < p)
      <4>1. k-1 \in 1..Len(old)-1 /\ ~(k-1 < p) /\ (k-1)+1 = k
        BY <1>2, <2>1, <2>2, <3>2
      <4>2. QED BY <1>5, <4>1
    <3>3. QED BY <3>1, <3>2
  <2> DEFINE at(l) == IF l < p THEN l ELSE l+1
  <2>3. \A l \in 1..Len(old)-1 : at(l) \in 1..Len(old) /\ at(l) # p /\ e[l] = old[at(l)]
    BY <1>2, <1>5, <2>1
  <2>4. \A k, l \in 1..Len(old)-1 : at(k) = at(l) => k = l
    BY <2>1
  <2> HIDE DEF at
  <2>5. \A l \in 1..Len(old)-1 : \E k \in 1..Len(old) : k # p /\ e[l] = old[k]
    BY <2>3
  <2>6. ASSUME NEW k \in 1..Len(old)-1, NEW l \in 1..Len(old)-1,
               Clash(e[k], e[l])
        PROVE  k = l
    <3>1. at(k) = at(l)
      BY <1>4, <2>3, <2>6 DEF Clash
    <3>2. QED BY <2>4, <3>1
  <2>7. QED BY <2>2, <2>5, <2>6
<1>9. ASSUME ~n.full PROVE Good(n) /\ TreeOf(n) = [TreeOf(m) EXCEPT ![name] = Absent]
  <2>1. /\ n.inode_map = S /\ Sound(n, (S \ {Root}) \union {Root}) /\ ReadFile(n, Root) = e
        /\ \A j \in S \ {Root} : ReadFile(n, j) = ReadFile(m, j)
    BY <1>3, <1>7, <1>9 DEF FileWritten, Unchanged
  <2>2. (S \ {Root}) \union {Root} = S
    BY <1>4
  <2>3. Filed(n, e)
    <3>1. {e[k].inum : k \in DOMAIN e} \ {0} = S \ {Root}
      <4>1. ASSUME NEW l \in 1..Len(old)-1, e[l].inum # 0 PROVE e[l].inum \in S \ {Root}
        <5>1. PICK k \in 1..Len(old) : k # p /\ e[l] = old[k]
          BY <1>8
        <5>2. QED BY <1>2, <1>4, <4>1, <5>1 DEF Clash
      <4>2. ASSUME NEW j \in S \ {Root} PROVE \E l \in 1..Len(old)-1 : e[l].inum = j
        <5>1. PICK k \in 1..Len(old) : old[k].inum = j
          BY <1>4
        <5>2. k # p
          BY <1>2, <5>1
        <5>3. QED BY <1>8, <5>1, <5>2
      <4>3. QED BY <1>4, <1>6, <4>1, <4>2
    <3>2. n.inode_map = ({e[k].inum : k \in DOMAIN e} \ {0}) \union {Root}
      BY <2>1, <2>2, <3>1
    <3>3. \A j \in n.inode_map \ {Root} : ReadFile(n, j) \in Seq(Values)
      BY <1>1, <2>1 DEF Filed
    <3>4. \A k, l \in DOMAIN e : Clash(e[k], e[l]) => k = l
      BY <1>6, <1>8
    <3>5. QED BY <1>5, <3>2, <3>3, <3>4, Zenon DEF Filed
  <2>4. Good(n)
    BY <2>1, <2>2, <2>3 DEF Good
  <2>5. NamesOf(e) = NamesOf(old) \ {name}
    <3>1. ASSUME NEW l \in 1..Len(old)-1 PROVE e[l].name \in NamesOf(old) \ {name}
      <4>1. PICK k \in 1..Len(old) : k # p /\ e[l] = old[k]
        BY <1>8
      <4>2. QED BY <1>2, <1>4, <4>1 DEF NamesOf, Clash
    <3>2. ASSUME NEW other \in NamesOf(old), other # name
          PROVE  \E l \in 1..Len(old)-1 : e[l].name = other
      <4>1. PICK k \in 1..Len(old) : old[k].name = other
        BY <1>4 DEF NamesOf
      <4>2. k # p
        BY <1>2, <3>2, <4>1
      <4>3. QED BY <1>8, <4>1, <4>2
    <3>3. NamesOf(e) = {e[l].name : l \in 1..Len(old)-1}
      BY <1>6 DEF NamesOf
    <3>4. QED BY <3>1, <3>2, <3>3
  <2>6. ASSUME NEW other \in NamesOf(e)
        PROVE  /\ FileOf(n, other) = FileOf(m, other)
               /\ FileOf(m, other) # 0 =>
                    ReadFile(n, FileOf(n, other)) = ReadFile(m, FileOf(m, other))
    <3>1. PICK l \in 1..Len(e) : e[l].name = other
      BY <1>5, <1>6 DEF NamesOf
    <3>2. PICK k \in 1..Len(old) : k # p /\ e[l] = old[k]
      BY <1>5, <1>8
    <3>3. PositionIn(e, other) = l /\ PositionIn(old, other) = k
      BY <1>1, <2>3, <3>1, <3>2, PositionFacts
    <3>4. FileOf(n, other) = old[k].inum /\ FileOf(m, other) = old[k].inum
      BY <2>1, <3>2, <3>3 DEF FileOf, old
    <3>5. old[k].inum # 0 => old[k].inum \in S \ {Root}
      BY <1>2, <1>4, <3>2 DEF Clash
    <3>6. QED BY <2>1, <3>4, <3>5
  <2>7. TreeOf(n) = [other \in Names |-> IF other \in NamesOf(e) /\ FileOf(n, other) # 0
                                          THEN ReadFile(n, FileOf(n, other)) ELSE Absent]
    BY <2>1 DEF TreeOf, Has
  <2>8. TreeOf(m) = [other \in Names |-> IF other \in NamesOf(old) /\ FileOf(m, other) # 0
                                          THEN ReadFile(m, FileOf(m, other)) ELSE Absent]
    BY DEF TreeOf, Has, old
  <2>9. QED BY <1>2, <2>4, <2>5, <2>6, <2>7, <2>8
<1>10. QED BY <1>3, <1>7, <1>9 DEF f, Unlinked, Changed

-----------------------------------------------------------------------------
(* The specification *)

\* The names of FileSystem are those of the state im.
LEMMA DirectoryIs ==
  /\ Entries = ReadFile(im, Root) /\ Listed = NamesOf(ReadFile(im, Root))
  /\ \A name : /\ Position(name) = PositionIn(ReadFile(im, Root), name)
               /\ Lookup(name) = FileOf(im, name)
               /\ HasInode(name) <=> Has(im, name)
<1>1. Entries = ReadFile(im, Root) /\ Listed = NamesOf(ReadFile(im, Root))
  BY DEF Entries, Listed, NamesOf
<1>2. \A name : Position(name) = PositionIn(ReadFile(im, Root), name)
  BY <1>1 DEF Position, PositionIn, SelectInSeq
<1>3. QED BY <1>1, <1>2 DEF Lookup, FileOf, HasInode, Has

TheTree == [n \in Names |-> IF HasInode(n) THEN ReadFile(im, Lookup(n)) ELSE Absent]

LEMMA TreeIs == TheTree = TreeOf(im)
BY DirectoryIs DEF TheTree, TreeOf

LEMMA LiveInodes ==
  ASSUME Good(im)
  PROVE  Live = im.inode_map
BY DirectoryIs DEF Good, Filed, Live

\* A file has a content, which is not Absent.
LEMMA ContentPresent ==
  ASSUME NEW c, IsContent(c)
  PROVE  c # Absent
<1>1. IsSequence(c) /\ Len(c) \in 0..MAXFILE /\ c \in Seq(Values)
  BY ContentFacts DEF IsContent
<1>2. c \in [1..Len(c) -> Values]
  BY <1>1
<1>3. QED BY <1>1, <1>2, AbsentAssumption

LEMMA FileContent ==
  ASSUME Good(im), NEW name, HasInode(name)
  PROVE  /\ name \in Names /\ Lookup(name) \in im.inode_map \ {Root}
         /\ IsContent(ReadFile(im, Lookup(name)))
         /\ TheTree[name] = ReadFile(im, Lookup(name)) /\ TheTree[name] # Absent
<1>1. /\ name \in Names /\ Lookup(name) \in im.inode_map \ {Root}
      /\ ReadFile(im, Lookup(name)) \in Seq(Values)
  BY FileFacts, DirectoryIs DEF Has
<1>2. Typed(im) /\ Lookup(name) \in Inums
  BY <1>1 DEF Good, Sound
<1>3. Len(ReadFile(im, Lookup(name))) <= MAXFILE
  <2>1. Len(ReadFile(im, Lookup(name))) \in 0..MAXFILE
    BY <1>2, ReadSize
  <2>2. QED BY <2>1
<1>4. IsContent(ReadFile(im, Lookup(name)))
  BY <1>1, <1>3 DEF IsContent
<1>5. QED BY <1>1, <1>4, ContentPresent DEF TheTree

\* There is a file for every allocated inode but the root's, so there are as many as
\* there may be just when there is no free inode.
LEMMA FilesFull ==
  ASSUME Good(im)
  PROVE  Tree!Cardinality(Tree!Files) = INODE_NUM-1 <=> AllocInode(im) = 0
<1> DEFINE F == {n \in Names : TheTree[n] # Absent}
           all == Inums \ {Root}
           used == im.inode_map \ {Root}
           e == ReadFile(im, Root)
           G == [n \in F |-> Lookup(n)]
<1>1. Tree!Files = F
  BY DEF Tree!Files, TheTree
<1>2. F = {n \in Names : HasInode(n)}
  BY FileContent DEF TheTree
<1>3. Filed(im, e) /\ im.inode_map \subseteq Inums
  BY DEF Good, Sound
<1> HIDE DEF F
<1>4. ExistsBijection(used, F)
  <2>1. \A n \in F : G[n] \in used
    BY <1>2, FileContent
  <2>2. \A n, l \in F : G[n] = G[l] => n = l
    BY <1>2, FileFacts, DirectoryIs DEF Has
  <2>3. ASSUME NEW i \in used PROVE \E n \in F : G[n] = i
    <3>1. DOMAIN e = 1..Len(e)
      BY <1>3, FiledFacts
    <3>2. PICK k \in 1..Len(e) : e[k].inum = i
      BY <1>3, FiledFacts
    <3>3. e[k].name \in Names /\ i # 0
      BY <1>3, <3>2, FiledFacts
    <3>4. PositionIn(e, e[k].name) = k
      BY <1>3, PositionFacts
    <3>5. e[k].name \in NamesOf(e) /\ FileOf(im, e[k].name) = i
      BY <3>1, <3>2, <3>4 DEF NamesOf, FileOf
    <3>6. Has(im, e[k].name)
      BY <3>3, <3>5 DEF Has
    <3>7. e[k].name \in F /\ Lookup(e[k].name) = i
      BY <1>2, <3>3, <3>5, <3>6, DirectoryIs
    <3>8. QED BY <3>7
  <2>4. G \in Bijection(F, used)
    <3> HIDE DEF used
    <3>1. QED BY <2>1, <2>2, <2>3 DEF Bijection, Injection, Surjection, IsInjective
  <2>5. ExistsBijection(F, used)
    BY <2>4 DEF ExistsBijection
  <2>6. QED BY <2>5, Fun_ExistsBijSymmetric
<1>5. IsFiniteSet(all) /\ Cardinality(all) = INODE_NUM-1
  <2>1. INODE_NUM \in Int /\ 1 \in Int /\ ~(1 > INODE_NUM) /\ INODE_NUM-1+1 = INODE_NUM
    BY SizeAssumption
  <2>2. IsFiniteSet(Inums) /\ Cardinality(Inums) = INODE_NUM
    BY <2>1, FS_Interval DEF Inums
  <2>3. QED BY <2>2, RootInum, FS_RemoveElement
<1>6. used \in SUBSET all
  BY <1>3
<1>7. /\ IsFiniteSet(used)
      /\ Cardinality(used) = INODE_NUM-1 <=> used = all
  BY <1>5, <1>6, FS_Subset, Zenon
<1>8. Cardinality(F) = Cardinality(used)
  BY <1>4, <1>7, FS_Bijection
<1>9. AllocInode(im) = 0 <=> used = all
  <2>1. FreeInodes(im) = {} <=> used = all
    BY <1>3, FiledFacts DEF FreeInodes
  <2>2. FreeInodes(im) # {} => AllocInode(im) # 0
    <3>1. FreeInodes(im) \subseteq Nat \ {0}
      BY SizeAssumption DEF FreeInodes, Inums
    <3>2. FreeInodes(im) # {} => \E j \in FreeInodes(im) : \A k \in FreeInodes(im) : j <= k
      BY <3>1, LeastNumber
    <3>3. FreeInodes(im) # {} => AllocInode(im) \in FreeInodes(im)
      BY <3>2 DEF AllocInode
    <3>4. QED BY <3>1, <3>3
  <2>3. QED BY <2>1, <2>2 DEF AllocInode
<1>10. Tree!Cardinality(F) = Cardinality(F)
  BY DEF Cardinality, Tree!Cardinality
<1>11. QED BY <1>1, <1>7, <1>8, <1>9, <1>10

\* At most the file i is another one afterwards.
LEMMA OneChanged ==
  ASSUME Good(im), NEW i,
         \A j \in im.inode_map : j # i /\ j \in im'.inode_map => ReadFile(im', j) = ReadFile(im, j)
  PROVE  OneFileChanged
<1> DEFINE T == {j \in Live : j \in im'.inode_map /\ ReadFile(im', j) # ReadFile(im, j)}
<1>1. T \in SUBSET {i}
  BY LiveInodes
<1>2. IsFiniteSet({i}) /\ Cardinality({i}) = 1
  BY FS_Singleton
<1> HIDE DEF T
<1>3. Cardinality(T) <= 1
  BY <1>1, <1>2, FS_Subset
<1>4. QED BY <1>3 DEF OneFileChanged, T

LEMMA InitGood == Init => Inv /\ TheTree = [n \in Names |-> Absent] /\ last = << >>
<1> SUFFICES ASSUME Init PROVE Inv /\ TheTree = [n \in Names |-> Absent] /\ last = << >>
  OBVIOUS
<1> DEFINE e == << >>
           m == Formatted
<1>1. Sound(m, {Root}) /\ m.inode_map = {Root}
  BY FormatSound
<1>2. Len(e) = 0 /\ DOMAIN e = {} /\ e \in Seq(Entry) /\ IsSequence(e) /\ 0 \in 0..MAXFILE
  BY SizeAssumption DEF IsSequence, MAXFILE
<1>3. im = WriteFile(m, Root, e) /\ last = << >>
  BY DEF Init
<1> HIDE DEF m, e
<1>4. FileWritten(m, im, {Root} \ {Root}, Root, e)
  BY <1>1, <1>2, <1>3, WriteSound
<1>5. /\ BitmapExact(im) /\ im.full \in BOOLEAN /\ im.inode_map = {Root}
      /\ im.inode[Root].size = 0
      /\ ~im.full => Sound(im, {Root}) /\ ReadFile(im, Root) = e
  <2>1. ({Root} \ {Root}) \union {Root} = {Root}
    OBVIOUS
  <2>2. QED BY <1>1, <1>2, <1>4, <2>1 DEF FileWritten
<1>6. ~im.full => Good(im)
  BY <1>2, <1>5 DEF Good, Filed
<1>7. Listed = {}
  BY <1>5 DEF Listed, Entries, ReadFile
<1>8. TheTree = [n \in Names |-> Absent]
  BY <1>7 DEF TheTree, HasInode
<1>9. QED BY <1>3, <1>5, <1>6, <1>8 DEF Inv

\* An operation on name that leaves the content c there.
Moved(name, c) ==
  /\ Inv' /\ OneFileChanged
  /\ ~im'.full => TheTree' = [TheTree EXCEPT ![name] = c]

LEMMA ChangedMoves ==
  ASSUME NEW name, NEW c, BitmapExact(im'), im'.full \in BOOLEAN, OneFileChanged,
         Changed(im, im', name, c)
  PROVE  Moved(name, c)
<1>1. TheTree' = TreeOf(im')
  BY DEF TheTree, HasInode, TreeOf, Has, Listed, Lookup, Position, Entries, NamesOf, FileOf,
         PositionIn, SelectInSeq
<1>2. QED BY <1>1, TreeIs DEF Changed, Moved, Inv

LEMMA CreateMoves ==
  ASSUME Good(im), NEW name \in Names, Create(name)
  PROVE  Moved(name, NewFile(AllocInode(im))) /\ TheTree[name] = Absent
<1> DEFINE i == AllocInode(im)
           e == Append(Entries, [name |-> name, inum |-> i])
           f == WithInode(im, i)
<1>1. /\ name \in Names \ NamesOf(ReadFile(im, Root)) /\ Len(ReadFile(im, Root)) < MAXFILE
      /\ im' = WriteFile(WithInode(im, i), Root, e)
      /\ e = Append(ReadFile(im, Root), [name |-> name, inum |-> i])
  BY DirectoryIs DEF Create, WithInode
<1>2. i = AllocInode(im)
  OBVIOUS
<1> HIDE DEF i, e
<1>3. Created(im, i, e, im', name)
  BY <1>1, <1>2, CreateStep
<1>4. /\ FileWritten(f, im', (im.inode_map \union ({i} \ {0})) \ {Root}, Root, e)
      /\ \A j \in im.inode_map : Unchanged(im, f, j)
      /\ Changed(im, im', name, NewFile(i))
  BY <1>3, Zenon DEF Created
<1> HIDE DEF f
<1>5. OneFileChanged
  <2>1. \A j \in im.inode_map : j # Root => ReadFile(im', j) = ReadFile(im, j)
    BY <1>4 DEF FileWritten, Unchanged
  <2>2. QED BY <2>1, OneChanged
<1>6. Moved(name, NewFile(i))
  BY <1>4, <1>5, ChangedMoves DEF FileWritten
<1>7. QED BY <1>1, <1>2, <1>6, DirectoryIs DEF TheTree, Has

LEMMA UnlinkMoves ==
  ASSUME Good(im), NEW name \in Names, Unlink(name)
  PROVE  Moved(name, Absent)
<1> DEFINE i == Lookup(name)
           e == RemoveAt(Entries, Position(name))
           f == RemoveFile(im, i)
<1>1. /\ Has(im, name) /\ i = FileOf(im, name)
      /\ e = RemoveAt(ReadFile(im, Root), PositionIn(ReadFile(im, Root), name))
      /\ im' = WriteFile(RemoveFile(im, i), Root, e)
  BY DirectoryIs DEF Unlink
<1> HIDE DEF i, e
<1>2. Unlinked(im, i, e, im', name)
  BY <1>1, UnlinkStep
<1>3. /\ FileWritten(f, im', (im.inode_map \ {i}) \ {Root}, Root, e)
      /\ f.inode_map = im.inode_map \ {i}
      /\ \A j : Unchanged(im, f, j)
      /\ Changed(im, im', name, Absent)
  BY <1>2, Zenon DEF Unlinked
<1> HIDE DEF f
<1>4. OneFileChanged
  <2>1. im'.inode_map = im.inode_map \ {i}
    BY <1>3 DEF FileWritten
  <2>2. \A j \in im.inode_map : j # Root /\ j \in im'.inode_map => ReadFile(im', j) = ReadFile(im, j)
    BY <1>3, <2>1 DEF FileWritten, Unchanged
  <2>3. QED BY <2>2, OneChanged
<1>5. QED BY <1>3, <1>4, ChangedMoves DEF FileWritten

LEMMA WriteMoves ==
  ASSUME Good(im), NEW name, HasInode(name), NEW c, IsContent(c),
         im' = WriteFile(im, Lookup(name), c)
  PROVE  Moved(name, c)
<1> DEFINE i == Lookup(name)
<1>1. Has(im, name) /\ i = FileOf(im, name)
  BY DirectoryIs
<1>2. /\ FileWritten(im, im', im.inode_map \ {i}, i, c)
      /\ Changed(im, im', name, c)
  BY <1>1, WriteStep
<1> HIDE DEF i
<1>3. OneFileChanged
  <2>1. \A j \in im.inode_map : j # i => ReadFile(im', j) = ReadFile(im, j)
    BY <1>2 DEF FileWritten, Unchanged
  <2>2. QED BY <2>1, OneChanged
<1>4. QED BY <1>2, <1>3, ChangedMoves DEF FileWritten

\* buf.resize() keeps a content a content, and is what FileTree says it is.
LEMMA ResizedFacts ==
  ASSUME NEW s, IsContent(s), NEW k \in 0..MAXFILE
  PROVE  /\ IsContent(Resized(s, k)) /\ Len(Resized(s, k)) = k
         /\ Resized(s, k) = Tree!Resized(s, k)
<1>1. /\ Len(s) \in 0..MAXFILE /\ MAXFILE \in Nat /\ k \in Nat
      /\ \A j \in 1..Len(s) : s[j] \in Values
  BY ContentFacts, SequenceFacts, SizeAssumption DEF IsContent, MAXFILE
<1>2. \A j \in 1..k : (IF j <= Len(s) THEN s[j] ELSE Zero) \in Values
  BY <1>1, SizeAssumption
<1>3. Resized(s, k) \in [1..k -> Values] /\ Len(Resized(s, k)) = k
  BY <1>1, <1>2 DEF Resized
<1>4. Resized(s, k) \in Seq(Values)
  BY <1>1, <1>3
<1>5. QED BY <1>1, <1>3, <1>4 DEF IsContent, Resized, Tree!Resized

\* What write() writes
LEMMA BufferFacts ==
  ASSUME NEW s, IsContent(s), NEW k \in 1..MAXFILE, NEW v \in Values
  PROVE  LET long == IF k > Len(s) THEN Resized(s, k) ELSE s
         IN  /\ IsContent([long EXCEPT ![k] = v])
             /\ long = Tree!Resized(s, Tree!Longer(Len(s), k))
<1> DEFINE long == IF k > Len(s) THEN Resized(s, k) ELSE s
<1>1. /\ Len(s) \in 0..MAXFILE /\ MAXFILE \in Nat /\ k \in 0..MAXFILE /\ IsSequence(s)
  BY ContentFacts, SizeAssumption DEF MAXFILE
<1>2. /\ IsContent(long) /\ k \in 1..Len(long)
      /\ long = Tree!Resized(s, Tree!Longer(Len(s), k))
  <2>1. CASE k > Len(s)
    <3>1. IsContent(Resized(s, k)) /\ Len(Resized(s, k)) = k /\ Resized(s, k) = Tree!Resized(s, k)
      BY <1>1, ResizedFacts
    <3>2. Tree!Longer(Len(s), k) = k
      BY <1>1, <2>1 DEF Tree!Longer
    <3>3. QED BY <1>1, <2>1, <3>1, <3>2
  <2>2. CASE ~(k > Len(s))
    <3>1. Tree!Longer(Len(s), k) = Len(s) /\ k \in 1..Len(s)
      BY <1>1, <2>2 DEF Tree!Longer
    <3>2. Tree!Resized(s, Len(s)) = [j \in 1..Len(s) |-> s[j]]
      BY <1>1 DEF Tree!Resized
    <3>3. QED BY <1>1, <2>2, <3>1, <3>2 DEF IsSequence
  <2>3. QED BY <2>1, <2>2
<1> HIDE DEF long
<1>3. IsContent([long EXCEPT ![k] = v])
  <2>1. long \in Seq(Values) /\ Len(long) <= MAXFILE
    BY <1>2 DEF IsContent
  <2>2. [long EXCEPT ![k] = v] \in Seq(Values) /\ Len([long EXCEPT ![k] = v]) = Len(long)
    BY <1>2, <2>1
  <2>3. QED BY <2>1, <2>2 DEF IsContent
<1>4. QED BY <1>2, <1>3 DEF long

-----------------------------------------------------------------------------
(* Theorems *)

\* A step of the tree, or of something it does not show
TreeStep == [Tree!TNext]_Tree!tvars

\* One step keeps the invariant, and is a step of the tree or finds the disk full.
LEMMA NextStep ==
  Inv /\ [Next]_vars => Inv' /\ [IF im'.full THEN OneFileChanged ELSE TreeStep]_vars
<1> SUFFICES ASSUME Inv, Next, Good(im)
             PROVE  Inv' /\ (IF im'.full THEN OneFileChanged ELSE TreeStep)
  <2>1. CASE UNCHANGED vars
    BY <2>1 DEF vars, Inv
  <2>2. QED BY <2>1 DEF Next, Inv
<1> DEFINE Kept == Inv' /\ (IF im'.full THEN OneFileChanged ELSE TreeStep)
<1>1. ASSUME NEW name \in Names, Create(name) PROVE Kept
  <2>1. Moved(name, NewFile(AllocInode(im))) /\ TheTree[name] = Absent
    BY <1>1, CreateMoves
  <2>2. ASSUME ~im'.full PROVE Tree!TCreate(name)
    <3>1. TheTree' = [TheTree EXCEPT ![name] = NewFile(AllocInode(im))]
      BY <2>1, <2>2 DEF Moved
    <3>2. AllocInode(im) = 0 => TheTree' = TheTree
      BY <2>1, <3>1 DEF NewFile, TheTree
    <3>3. AllocInode(im) # 0 => TheTree' = [TheTree EXCEPT ![name] = << >>]
      BY <3>1 DEF NewFile
    <3>4. TheTree' = IF Tree!Cardinality(Tree!Files) = INODE_NUM-1
                     THEN TheTree ELSE [TheTree EXCEPT ![name] = << >>]
      BY <3>2, <3>3, FilesFull
    <3>5. last' = <<"create", name>>
      BY <1>1 DEF Create
    <3>6. QED BY <2>1, <3>4, <3>5 DEF Tree!TCreate, TheTree
  <2>3. QED BY <2>1, <2>2 DEF Moved, Tree!TNext, TreeStep
<1>2. ASSUME NEW name \in Names, Unlink(name) PROVE Kept
  <2>1. Moved(name, Absent)
    BY <1>2, UnlinkMoves
  <2>2. TheTree[name] # Absent
    BY <1>2, FileContent DEF Unlink
  <2>3. ASSUME ~im'.full PROVE Tree!TUnlink(name)
    <3>1. TheTree' = [TheTree EXCEPT ![name] = Absent]
      BY <2>1, <2>3 DEF Moved
    <3>2. QED BY <1>2, <2>2, <3>1 DEF Unlink, Tree!TUnlink, TheTree
  <2>4. QED BY <2>1, <2>3 DEF Moved, Tree!TNext, TreeStep
<1>3. ASSUME NEW name \in Names, NEW k \in 1..MAXFILE, NEW v \in Values, Write(name, k, v)
      PROVE  Kept
  <2> DEFINE buf == ReadFile(im, Lookup(name))
             long == IF k > Len(buf) THEN Resized(buf, k) ELSE buf
             c == [long EXCEPT ![k] = v]
  <2>1. HasInode(name) /\ im' = WriteFile(im, Lookup(name), c) /\ last' = <<"write", name, k, v>>
    BY <1>3 DEF Write
  <2>2. IsContent(buf) /\ TheTree[name] = buf /\ TheTree[name] # Absent
    BY <2>1, FileContent
  <2>3. IsContent(c) /\ long = Tree!Resized(buf, Tree!Longer(Len(buf), k))
    BY <2>2, BufferFacts
  <2> HIDE DEF buf
  <2>4. c = [Tree!Resized(buf, Tree!Longer(Len(buf), k)) EXCEPT ![k] = v]
    BY <2>3
  <2> HIDE DEF long, c
  <2>5. Moved(name, c)
    BY <2>1, <2>3, WriteMoves
  <2>6. ASSUME ~im'.full PROVE Tree!TWrite(name, k, v)
    <3>1. TheTree' = [TheTree EXCEPT ![name] = c]
      BY <2>5, <2>6 DEF Moved
    <3>2. QED BY <2>1, <2>2, <2>4, <3>1 DEF Tree!TWrite, TheTree
  <2>7. QED BY <2>5, <2>6 DEF Moved, Tree!TNext, TreeStep
<1>4. ASSUME NEW name \in Names, NEW k \in 0..MAXFILE, SetAttr(name, k) PROVE Kept
  <2> DEFINE buf == ReadFile(im, Lookup(name))
             c == Resized(buf, k)
  <2>1. HasInode(name) /\ im' = WriteFile(im, Lookup(name), c) /\ last' = <<"setattr", name, k>>
    BY <1>4 DEF SetAttr
  <2>2. IsContent(buf) /\ TheTree[name] = buf /\ TheTree[name] # Absent
    BY <2>1, FileContent
  <2> HIDE DEF buf
  <2>3. IsContent(c) /\ c = Tree!Resized(buf, k)
    BY <2>2, ResizedFacts
  <2> HIDE DEF c
  <2>4. Moved(name, c)
    BY <2>1, <2>3, WriteMoves
  <2>5. ASSUME ~im'.full PROVE Tree!TResize(name, k)
    <3>1. TheTree' = [TheTree EXCEPT ![name] = c]
      BY <2>4, <2>5 DEF Moved
    <3>2. QED BY <2>1, <2>2, <2>3, <3>1 DEF Tree!TResize, TheTree
  <2>6. QED BY <2>4, <2>5 DEF Moved, Tree!TNext, TreeStep
<1>5. ASSUME NEW name \in Names, ServerDies(name) PROVE Kept
  <2>1. im' = im /\ last' = last /\ ~im.full
    BY <1>5 DEF ServerDies, Next
  <2>2. Tree!tvars' = Tree!tvars
    BY <2>1 DEF Tree!tvars, HasInode, Listed, Lookup, Position, Entries, SelectInSeq
  <2>3. QED BY <2>1, <2>2 DEF Inv, TreeStep
<1>6. QED BY <1>1, <1>2, <1>3, <1>4, <1>5 DEF Next

\* The blocks of the allocated inodes are apart and accounted for, and the directory
\* lists these inodes, in every reachable state: no handler of yfs_client or of the
\* inode manager breaks what the next one relies on.
THEOREM Invariance == Spec => []Inv
<1>1. Init => Inv
  BY InitGood
<1>2. Inv /\ [Next]_vars => Inv'
  BY NextStep
<1>3. QED BY <1>1, <1>2, PTL DEF Spec

\* create() and unlink() keep the directory and the inode map in step: the allocated
\* inodes are the root's and those of the names, none has two names, and the names
\* without an inode, which create() lists when there is none left, stand for nothing.
THEOREM InodesListedOnce == Spec => []InodesListed
<1>1. Inv => InodesListed
  <2> SUFFICES ASSUME Good(im)
               PROVE  /\ im.inode_map = Live
                      /\ \A k \in DOMAIN Entries : Entries[k].inum # Root
                      /\ \A j, k \in DOMAIN Entries :
                           Entries[j].inum = Entries[k].inum /\ Entries[j].inum # 0 => j = k
    BY DEF Inv, InodesListed
  <2>1. Filed(im, Entries)
    BY DirectoryIs DEF Good
  <2>2. \A k \in DOMAIN Entries : Entries[k].inum # Root
    BY <2>1, FiledFacts
  <2>3. \A j, k \in DOMAIN Entries :
          Entries[j].inum = Entries[k].inum /\ Entries[j].inum # 0 => j = k
    BY <2>1, FiledFacts DEF Clash
  <2>4. QED BY <2>2, <2>3, LiveInodes
<1>2. QED BY <1>1, Invariance, PTL

\* write_file() and remove_file() free what the file had and write_file() takes what
\* is free: no block has two owners, none but indirect blocks is lost, and the bit of
\* a block, which free_block() flips, is right.
THEOREM BlocksOwnedOnce == Spec => []BlocksOwned
<1>1. Inv => BlocksOwned
  <2> SUFFICES ASSUME Inv PROVE BlocksOwned
    OBVIOUS
  <2>1. im.bitmap \ {0} = im.using_blocks
    BY DEF Inv, BitmapExact
  <2>2. ASSUME ~im.full
        PROVE  /\ im.using_blocks = im.lost \union UNION {Owned(im, i) : i \in Live}
               /\ \A i \in Live : Owned(im, i) \cap im.lost = {}
               /\ \A i, j \in Live : i # j => Owned(im, i) \cap Owned(im, j) = {}
               /\ \A i \in Live : Fresh(im, i) \/ LaidOut(im, i)
    <3>1. Good(im)
      BY <2>2 DEF Inv
    <3>2. Live = im.inode_map
      BY <3>1, LiveInodes
    <3>3. QED BY <3>1, <3>2 DEF Good, Sound
  <2>3. ASSUME NEW i, Fresh(im, i) PROVE 0 \in ToSet(DataBlocks(im, i))
    <3>1. DataBlocks(im, i) = [k \in 1..1 |-> 0]
      BY <2>3, SizeAssumption DEF DataBlocks, DataBlock, Fresh, Visited
    <3>2. QED BY <3>1 DEF ToSet
  <2>4. ASSUME NEW i, LaidOut(im, i)
        PROVE  /\ IsInjective(DataBlocks(im, i))
               /\ ToSet(DataBlocks(im, i)) \cap IndirectBlocks(im, i) = {}
    BY <2>4 DEF LaidOut
  <2>5. QED BY <2>1, <2>2, <2>3, <2>4 DEF BlocksOwned, Owned
<1>2. QED BY <1>1, Invariance, PTL

\* Until the disk is full, yfs_client over the inode manager is a tree of files: an
\* operation changes the content of its own name as it should, and no other; create()
\* makes a file unless there are INODE_NUM-1 of them; and the write that finds the
\* disk full changes one file.
THEOREM ImplementsFileTree == Spec => TreeSpec
<1>1. Init => Tree!TInit
  BY InitGood DEF TheTree, Tree!TInit
<1>2. Inv /\ [Next]_vars => [IF im'.full THEN OneFileChanged ELSE [Tree!TNext]_Tree!tvars]_vars
  BY NextStep DEF TreeStep
<1>3. QED BY <1>1, <1>2, Invariance, PTL DEF Spec, TreeSpec
=============================================================================
