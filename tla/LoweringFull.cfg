\* Every construct, with multi-value signatures.
SPECIFICATION Spec
CONSTANTS
  Results = 1
  MaxExprs = 5
  Exprs = {"const", "drop"}
  BlockSigs <- MultiBlockSigs
  LoopSigs <- MultiLoopSigs
  IfSigs <- MultiIfSigs
  Branches = {"br", "br_if", "br_table", "return"}
INVARIANTS
  TypeOK
  OpenBlocks
  EdgesMatchTerminators
  EntryTracksInsert
  PhiArity
  OperandsDominate
  PhiOperandsDominate
  LabelsAgree
  NeverShort
  FailsOnlyAtKnownEnds
PROPERTIES
  BaseUntouched
