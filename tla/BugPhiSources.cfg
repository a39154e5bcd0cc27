\* A loop with a parameter, a br_table to a label with a result.
SPECIFICATION Spec
CONSTANTS
  Results = 1
  MaxExprs = 4
  Exprs = {"const", "drop"}
  BlockSigs <- MvpSigs
  LoopSigs <- MultiLoopSigs
  IfSigs <- NoSigs
  Branches = {"br", "br_table"}
INVARIANTS
  PhiFromPreds
