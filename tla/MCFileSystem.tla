---------------------------- MODULE MCFileSystem ----------------------------
(* FileSystem for TLC. *)
EXTENDS FileSystem, TLC

Symmetry == Permutations(Names)

\* What f @@ f needs, TLC evaluates: it would keep what the view leaves out as an
\* unevaluated expression.
Evaluated(f) == DOMAIN (f @@ f)

\* Nobody reads a block that is not in use before it is written, nor an inode that
\* is not allocated: they are left out, and so is the history.
InUse ==
  <<down, im.inode_map, im.using_blocks, im.bitmap, im.full, im.lost,
    Evaluated(im.disk), Evaluated(im.inode),
    [i \in Inums |-> Evaluated(im.inode[i].blocks)],
    [i \in im.inode_map |->
       <<im.inode[i].size, DataBlocks(im, i), IndirectBlocks(im, i),
         IF im.full THEN << >> ELSE ReadFile(im, i)>>]>>
=============================================================================
