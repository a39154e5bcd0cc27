\* Families of bodies, executed beside the IR they are translated to.
SPECIFICATION LkFairSpec
CONSTANTS
  Results = 1
  MaxExprs = 5
  Exprs = {"const", "global_set", "call_2_1", "local_set", "local_get"}
  BlockSigs <- ParamSigs
  LoopSigs <- ResultSigs
  IfSigs <- VoidSigs
  Branches = {"br", "br_if", "br_table", "return"}
CONSTRAINT InFamily
INVARIANTS
  SameEvents
PROPERTIES
  EventsMeet
