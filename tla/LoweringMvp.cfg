\* Every supported expression, without loop parameters and ifs with results.
SPECIFICATION FairSpec
CONSTANTS
  Results = 1
  MaxExprs = 5
  Exprs <- SupportedExprs
  BlockSigs <- MultiBlockSigs
  LoopSigs <- MvpSigs
  IfSigs <- VoidSigs
  Branches = {"br", "br_if", "return"}
INVARIANTS
  PhiFromPreds
  StackAgrees
  NeverFails
PROPERTIES
  Translated
