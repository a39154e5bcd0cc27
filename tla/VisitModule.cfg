\* Every kind of entity, names and options, tables and segments.
SPECIFICATION MSpec
CONSTANTS
  MaxImports <- FewImports
  MaxDefs <- FewDefs
  MaxExports = 2
  MaxElems = 3
  FuncNames <- EntryOrMain
  GlobalNames <- NoneOrMain
  LinkNames <- TwoLinks
  ExportNames <- MainExports
  TableSizes = {1, 2}
  Offsets = {0, 1}
  MaxSeg = 2
  OptionSets <- AllOptions
CONSTRAINT InFamily
INVARIANTS
  IndexesAgree
  LinkageRight
  ImportKeepsName
  ForcedUnlessHeld
  NamesFixed
  EntryIsMain
  TablesRight
  LastSegmentIsIn
