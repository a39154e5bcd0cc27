\* An imported table and one of the module.
SPECIFICATION MSpec
CONSTANTS
  MaxImports <- OneTable
  MaxDefs <- OneTable
  MaxExports = 0
  MaxElems = 0
  FuncNames <- NoName
  GlobalNames <- NoName
  LinkNames <- OneLink
  ExportNames <- NoName
  TableSizes = {1, 2}
  Offsets = {0, 1}
  MaxSeg = 1
  OptionSets <- Plain
INVARIANTS
  TableIndexes
