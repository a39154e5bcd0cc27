\* Ifs with a result whose then arm ends unreachable, a lane stored.
SPECIFICATION Spec
CONSTANTS
  Results = 1
  MaxExprs = 4
  Exprs = {"const", "store_lane"}
  BlockSigs <- NoSigs
  LoopSigs <- NoSigs
  IfSigs <- MvpSigs
  Branches = {}
INVARIANTS
  StackAgrees
