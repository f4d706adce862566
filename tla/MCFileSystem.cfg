SPECIFICATION Spec
CONSTANTS
  INODE_NUM = 3
  BLOCK_NUM = 8
  NDIRECT = 1
  NINDIRECT = 2
  Values = {zero, one}
  Zero = zero
  Names = {f, g, h}
  Absent = absent
SYMMETRY Symmetry
VIEW InUse
INVARIANTS InodesListed BlocksOwned
PROPERTY TreeSpec
CHECK_DEADLOCK FALSE
