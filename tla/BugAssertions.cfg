\* A loop left with fewer values than it has parameters, an opcode without a case.
SPECIFICATION Spec
CONSTANTS
  Results = 1
  MaxExprs = 4
  Exprs = {"const", "trunc_sat", "drop"}
  BlockSigs <- NoSigs
  LoopSigs <- MultiLoopSigs
  IfSigs <- NoSigs
  Branches = {}
INVARIANTS
  AssertionsHold
