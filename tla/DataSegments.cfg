\* Two modules that share an LLVMContext, flattened or split.
SPECIFICATION DSpec
CONSTANTS
  Parses = 2
  MaxSegments = 3
  U32 = 4
  U64 = 8
  Limits <- TwoLimits
  Datas <- FewDatas
  OptionSets <- EachOption
CONSTRAINT InFamily
INVARIANTS
  IndependentUnlessEqualStart
  SplitIsRight
  OnlyHighSegmentsStop
PROPERTIES
  ImplementsImage
