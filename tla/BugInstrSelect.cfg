\* The opcodes that differ from WebAssembly's.
SPECIFICATION SSpec
CONSTANTS
  Opcodes <- Divergent
  Widths <- SmallWidths
  V128 = 16
  VOperands <- VSome
  VTypes = {"i8x16", "i128"}
  MemSize = 14
  Offset = 3
INVARIANTS
  MeansTheSame
CHECK_DEADLOCK FALSE
