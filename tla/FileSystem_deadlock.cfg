SPECIFICATION Spec
CONSTANTS
  Parts = {"names"}
  Users = {u1, u2}
  NoUser = NoUser
  NInodes = 3
  Elems = {"a", "b"}
  Requests <- MCRequests
  Writers = {w1, w2}
  Nobody = Nobody
  BSIZE = 2
  NDIRECT = 1
  NINDIRECT = 2
  NMeta = 1
  Disks <- MCDisks
  OpenFiles = {1, 2}
  MaxChunk = 2
  Sizes = {3}
  Images = {1}
SYMMETRY Symmetry
INVARIANTS NoCircularWait
CHECK_DEADLOCK FALSE
