--------------------------- MODULE MCInstrSelect ----------------------------
(* Opcodes, widths and operands for the model checking of InstrSelect.     *)
EXTENDS InstrSelect, TLC

Opcode(visitor, op, ty, from, sx) ==
  [visitor |-> visitor, op |-> op, ty |-> ty, from |-> from, sx |-> sx,
   lane |-> 0]
Plain(visitor, ops, tys) ==
  { Opcode(visitor, op, ty, ty, "u") : op \in ops, ty \in tys }

(* The vector with lanes twice as wide.                                    *)
Wider == [i8x16 |-> "i16x8", i16x8 |-> "i32x4"]

Narrow == [i1 |-> 1, i8 |-> 1, i16 |-> 2, i32 |-> 3, i64 |-> 4]
InBytes == [i1 |-> 1, i8 |-> 1, i16 |-> 2, i32 |-> 4, i64 |-> 8]
InLanes == [i1 |-> 1, i8 |-> 2, i16 |-> 4, i32 |-> 8, i64 |-> 16]
(* Every operand of the scalar opcodes, every address of the memory, and    *)
(* several lanes of each kind.                                             *)
SmallWidths ==
  [v \in {"Binary", "Compare", "Unary", "Convert", "Select"} |-> Narrow]
  @@ [v \in {"Load", "Store", "Memory"} |-> InBytes]
  @@ [v \in {"SimdBinary", "SimdShift", "SimdCompare", "SimdUnary",
            "SimdWiden", "SimdLane", "Bitwise"} |-> InLanes]

IntOps ==
  Plain("Binary", DOMAIN IntBinary \cup DOMAIN Rotation, {"i32", "i64"})
  \cup Plain("Compare", DOMAIN IntCompare, {"i32", "i64"})
  \cup Plain("Unary", DOMAIN IntUnary, {"i32", "i64"})
  \cup Plain("Select", {"Select"}, {"i32"})
  \cup { Opcode("Unary", "ExtendS", "i32", f, "s") : f \in {"i8", "i16"} }
  \cup { Opcode("Unary", "ExtendS", "i64", f, "s") : f \in {"i8", "i16", "i32"} }
FloatOps ==
  Plain("Binary", DOMAIN FloatBinary, Floats)
  \cup Plain("Compare", DOMAIN FloatCompare, Floats)
  \cup Plain("Unary", DOMAIN FloatUnary, Floats)
ConvertOps ==
  { Opcode("Convert", "Eqz", "i32", f, "u") : f \in {"i32", "i64"} }
  \cup { Opcode("Convert", "Extend", "i64", "i32", s) : s \in {"s", "u"} }
  \cup { Opcode("Convert", "Wrap", "i32", "i64", "u"),
         Opcode("Convert", "Demote", "f32", "f64", "u"),
         Opcode("Convert", "Promote", "f64", "f32", "u"),
         Opcode("Convert", "Reinterpret", "i32", "f32", "u"),
         Opcode("Convert", "Reinterpret", "f64", "i64", "u") }
  \cup { Opcode("Convert", "Trunc", i, f, s) :
           i \in {"i32", "i64"}, f \in Floats, s \in {"s", "u"} }
  \cup { Opcode("Convert", "Convert", f, i, s) :
           i \in {"i32", "i64"}, f \in Floats, s \in {"s", "u"} }
Scalar == IntOps \cup FloatOps \cup ConvertOps

MemoryOps ==
  Plain("Load", {"Load"}, {"i32", "i64", "f32", "f64"})
  \cup { Opcode("Load", "Load", "i32", f, s) : f \in {"i8", "i16"}, s \in {"s", "u"} }
  \cup { Opcode("Load", "Load", "i64", f, s) :
           f \in {"i8", "i16", "i32"}, s \in {"s", "u"} }
  \cup Plain("Memory", {"Copy", "Fill"}, {"i32"})
  \cup Plain("Store", {"Store"}, {"i32", "i64", "f32", "f64"})
  \cup { Opcode("Store", "Store", "i32", f, "u") : f \in {"i8", "i16"} }
  \cup { Opcode("Store", "Store", "i64", f, "u") : f \in {"i8", "i16", "i32"} }

(* Operands whose lanes are zero, extreme, or different from each other.   *)
VSome == { 0, 1, 256, 6939, 27708, 32768, 43690, 58596, 61455, 65535 }
Symmetric == { "Add", "Mul", "AvgrU", "MinS", "MinU", "MaxS", "MaxU" }
Simd ==
  Plain("SimdBinary", Symmetric \cup {"Sub"}, {"i16x8"})
  \cup Plain("SimdBinary", (Symmetric \ {"AvgrU"}) \cup {"Sub"}, {"i32x4"})
  \cup Plain("SimdBinary", (Symmetric \ {"Mul"}) \cup {"Sub"}, {"i8x16"})
  \cup Plain("SimdBinary", {"AddSatU", "SubSatU", "AddSatS", "SubSatS"},
            {"i8x16", "i16x8"})
  \cup Plain("Bitwise", {"And", "Or", "Xor", "Andnot"}, {"i8x16"})
  \cup Plain("SimdShift", {"Shl", "ShrS", "ShrU"}, Vectors)
  \cup Plain("SimdCompare", {"Eq", "LtS"}, Vectors)
  \cup Plain("SimdUnary", {"Neg", "Abs", "AllTrue", "Bitmask", "Splat"}, Vectors)
  \cup Plain("SimdUnary", {"Popcnt", "Not"}, {"i8x16"})
  \cup { Opcode("SimdWiden", op, Wider[f], f, s) :
           op \in {"ExtendLow", "ExtmulLow", "ExtendHigh"},
           f \in DOMAIN Wider, s \in {"s", "u"} }
  \cup { Opcode("SimdWiden", "ExtaddPairwise", Wider[f], f, s) :
           f \in DOMAIN Wider, s \in {"s", "u"} }
  \cup { [Opcode("SimdLane", "ExtractLane", ty, ty, s) EXCEPT !.lane = 1] :
           ty \in Vectors, s \in {"s", "u"} }
  \cup { [Opcode("SimdLane", "ReplaceLane", ty, ty, "u") EXCEPT !.lane = 1] :
           ty \in Vectors }

Ops == Scalar \cup MemoryOps \cup Simd
(* The opcodes that differ, one for each way.                              *)
Divergent ==
  Plain("Compare", {"Ne"}, {"f32"})
  \cup Plain("Binary", {"Shl", "RemS"}, {"i32"})
  \cup Plain("Binary", {"Min"}, {"f32"})
  \cup Plain("Memory", {"Copy"}, {"i32"})
  \cup Plain("Load", {"Load"}, {"i32"})
  \cup Plain("Store", {"Store"}, {"i32"})
  \cup Plain("SimdBinary", {"Sub"}, {"i16x8"})
  \cup Plain("SimdCompare", {"LtS"}, {"i16x8"})
  \cup Plain("Bitwise", {"And"}, {"i8x16"})
  \cup { Opcode("SimdWiden", "ExtendHigh", "i16x8", "i8x16", "s"),
         Opcode("SimdWiden", "ExtaddPairwise", "i16x8", "i8x16", "u"),
         [Opcode("SimdLane", "ReplaceLane", "i8x16", "i8x16", "u") EXCEPT !.lane = 1] }
=============================================================================
