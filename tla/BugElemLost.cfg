\* Two segments of one table.
SPECIFICATION MSpec
CONSTANTS
  MaxImports <- NoTable
  MaxDefs <- OneFunctionTwoTables
  MaxExports = 0
  MaxElems = 2
  FuncNames <- NoName
  GlobalNames <- NoName
  LinkNames <- OneLink
  ExportNames <- NoName
  TableSizes = {1, 2}
  Offsets = {0, 1}
  MaxSeg = 2
  OptionSets <- Plain
INVARIANTS
  SegmentsFilledIn
