\* All opcodes: small integers, every address, and vectors of two types.
SPECIFICATION SSpec
CONSTANTS
  Opcodes <- Ops
  Widths <- SmallWidths
  V128 = 16
  VOperands <- VSome
  VTypes = {"i8x16", "i128"}
  MemSize = 14
  Offset = 3
INVARIANTS
  ResultMatches
  
  TrapsStayOut
CHECK_DEADLOCK FALSE
