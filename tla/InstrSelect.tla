---------------------------- MODULE InstrSelect -----------------------------
(***************************************************************************)
(* Instruction selection (parser-instruction.cpp): the LLVM instructions   *)
(* that visitBinaryInst, visitCompareExpr, visitUnaryInst,                 *)
(* visitConvertExpr, visitLoadInst, visitStoreInst, visitSelectExpr and    *)
(* visitSimdLaneOp make of an opcode, and dispatchExprs of memory.copy and *)
(* memory.fill, evaluated and compared with what WebAssembly says of it.   *)
(*                                                                         *)
(* Integers are numbers below 2^width, with small widths.  A v128 is the   *)
(* number of its bits and has the LLVM type that its producer left it      *)
(* with.  A float is not a number, or a sign and a magnitude; arithmetic   *)
(* on floats is left uninterpreted, so that operands and their order still *)
(* count.  Vectors of floats and of i64 are left out.                      *)
(***************************************************************************)
EXTENDS Integers, Sequences, FiniteSetsExt, Bitwise

CONSTANTS
  Opcodes,    \* the opcodes checked
  Widths,     \* visitor -> bits of i1, i8, i16, i32, i64
  V128,       \* bits of v128
  VOperands,  \* the values of v128 that are tried
  VTypes,     \* the LLVM types that they come with
  MemSize,    \* bytes of the memory
  Offset      \* the offset in loads and stores

ASSUME WidthAssumption ==
  /\ \A v \in DOMAIN Widths :
       /\ Widths[v]["i1"] = 1
       /\ Widths[v]["i8"] < Widths[v]["i16"]
       /\ Widths[v]["i16"] < Widths[v]["i32"]
       /\ Widths[v]["i32"] < Widths[v]["i64"]
       /\ v \in {"Load", "Store", "Memory"} => MemSize <= 2 ^ Widths[v]["i32"]
  /\ VTypes \subseteq {"i8x16", "i16x8", "i32x4", "i64x2", "i128"}

VARIABLES
  opcode,    \* its visitor, its name and its types
  operands,  \* p1, p2, p3 in the order they are popped
  ir,        \* the instructions selected, a tree
  result     \* what they compute

svars == <<opcode, operands, ir, result>>

Width == Widths[opcode.visitor]

Floats == {"f32", "f64"}
Lane == [i8x16 |-> "i8", i16x8 |-> "i16", i32x4 |-> "i32"]
Vectors == DOMAIN Lane
V128Types == Vectors \cup {"i64x2", "i128"}
Wide == [i8 |-> "i16", i16 |-> "i32"]
Count(ty) == V128 \div Width[Lane[ty]]
LaneOf(v, ty, k) ==
  (v \div 2 ^ (k * Width[Lane[ty]])) % 2 ^ Width[Lane[ty]]
Packed(ty, f) ==
  MapThenSumSet(LAMBDA k : f[k] * 2 ^ (k * Width[Lane[ty]]),
                0 .. Count(ty) - 1)

Signed(n, a) == IF 2 * a < 2 ^ n THEN a ELSE a - 2 ^ n
AbsOf(i) == IF i < 0 THEN - i ELSE i
(* Division rounds towards zero.                                           *)
Quotient(x, y) ==
  IF (x < 0) = (y < 0) THEN AbsOf(x) \div AbsOf(y)
  ELSE - (AbsOf(x) \div AbsOf(y))
BitsSet(n, a) == { k \in 0 .. n - 1 : (a \div 2 ^ k) % 2 = 1 }
LeadingZeros(n, a) == Cardinality({ k \in 0 .. n - 1 : a < 2 ^ k })
TrailingZeros(n, a) == Cardinality({ k \in 1 .. n : a % 2 ^ k = 0 })
RotatedLeft(n, a, k) == ((a * 2 ^ k) % 2 ^ n) + (a \div 2 ^ (n - k))
AsBit(b) == IF b THEN 1 ELSE 0

NaN == [nan |-> TRUE, neg |-> FALSE, mag |-> 0]
FloatValues == { NaN } \cup [nan : {FALSE}, neg : BOOLEAN, mag : 0 .. 2]
App(f, args) == [app |-> f, args |-> args]
RealOf(x) == IF x.neg THEN - x.mag ELSE x.mag
FLess(x, y) == ~ x.nan /\ ~ y.nan /\ RealOf(x) < RealOf(y)
FEqual(x, y) == ~ x.nan /\ ~ y.nan /\ RealOf(x) = RealOf(y)

(* The memory is not written between the operands and the result: any      *)
(* contents will do that tell the addresses apart.                         *)
Bytes(ty) ==
  LET n == CASE ty = "f32" -> Width["i32"] [] ty = "f64" -> Width["i64"]
             [] OTHER -> Width[ty]
  IN  n \div Width["i8"]
Contents(addr, ty) ==
  LET byte(j) == ((j * j) \div 3) % 2 ^ Width["i8"]
      bits == MapThenSumSet(LAMBDA j : byte(addr + j) * 2 ^ (j * Width["i8"]),
                            0 .. Bytes(ty) - 1)
  IN  IF ty \in Floats THEN App("bits", <<bits>>) ELSE bits
InMemory(addr, ty) == addr + Bytes(ty) <= MemSize
Overlap(a, b, n) == a # b /\ a < b + n /\ b < a + n
Aligned(addr, ty) == addr % Bytes(ty) = 0

-----------------------------------------------------------------------------
(* LLVM.  A value has a type.  It is bad if it is poison, if its           *)
(* computation is undefined, or if an instruction is ill-typed.            *)

Val(ty, v) == [ty |-> ty, v |-> v, bad |-> FALSE]
BadIf(b, ty, v) == [ty |-> ty, v |-> v, bad |-> b]

IntPredicate(f, n, a, b) ==
  CASE f = "eq" -> a = b [] f = "ne" -> a # b
    [] f = "ult" -> a < b [] f = "ule" -> a <= b
    [] f = "ugt" -> a > b [] f = "uge" -> a >= b
    [] f = "slt" -> Signed(n, a) < Signed(n, b)
    [] f = "sle" -> Signed(n, a) <= Signed(n, b)
    [] f = "sgt" -> Signed(n, a) > Signed(n, b)
    [] f = "sge" -> Signed(n, a) >= Signed(n, b)
FloatPredicate(f, x, y) ==
  CASE f = "oeq" -> FEqual(x, y)
    [] f = "olt" -> FLess(x, y)
    [] f = "ole" -> FLess(x, y) \/ FEqual(x, y)
    [] f = "ogt" -> FLess(y, x)
    [] f = "oge" -> FLess(y, x) \/ FEqual(x, y)

Overflows(n, a, b) == a = 2 ^ (n - 1) /\ b = 2 ^ n - 1
Undefined(f, n, a, b) ==
  CASE f \in {"udiv", "urem"} -> b = 0
    [] f \in {"sdiv", "srem"} -> b = 0 \/ Overflows(n, a, b)
    [] f \in {"shl", "lshr", "ashr"} -> b >= n
    [] OTHER -> FALSE
IntBinaryOf(f, n, a, b) ==
  LET x == Signed(n, a)
      y == Signed(n, b)
  IN  CASE Undefined(f, n, a, b) -> 0
        [] f = "add" -> (a + b) % 2 ^ n [] f = "sub" -> (a - b) % 2 ^ n
        [] f = "mul" -> (a * b) % 2 ^ n
        [] f = "udiv" -> a \div b [] f = "urem" -> a % b
        [] f = "sdiv" -> Quotient(x, y) % 2 ^ n
        [] f = "srem" -> (x - y * Quotient(x, y)) % 2 ^ n
        [] f = "and" -> a & b [] f = "or" -> a | b [] f = "xor" -> a ^^ b
        [] f = "shl" -> (a * 2 ^ b) % 2 ^ n
        [] f = "lshr" -> a \div 2 ^ b
        [] f = "ashr" -> (x \div 2 ^ b) % 2 ^ n
IntBinaries == {"add", "sub", "mul", "udiv", "urem", "sdiv", "srem", "and",
                "or", "xor", "shl", "lshr", "ashr"}
IntPredicates == {"eq", "ne", "ult", "ule", "ugt", "uge", "slt", "sle",
                  "sgt", "sge"}
FloatPredicates == {"oeq", "olt", "ole", "ogt", "oge"}
SaturatedTo(n, x) ==
  IF x >= 2 ^ (n - 1) THEN 2 ^ (n - 1) - 1
  ELSE IF x < - (2 ^ (n - 1)) THEN - (2 ^ (n - 1)) ELSE x

(* minnum and maxnum give the other operand for a NaN.                     *)
MinNum(x, y) == IF x.nan THEN y ELSE IF y.nan THEN x
                ELSE IF FLess(y, x) \/ (FEqual(x, y) /\ y.neg) THEN y ELSE x
MaxNum(x, y) == IF x.nan THEN y ELSE IF y.nan THEN x
                ELSE IF FLess(x, y) \/ (FEqual(x, y) /\ ~ y.neg) THEN y ELSE x

BitsOf(ty) == IF ty \in V128Types THEN V128 ELSE Width[ty]

(* The instruction f, whose result has type ty, on values.                 *)
Applied(f, ty, vs) ==
  LET a == vs[1].v
      b == vs[2].v
      n == BitsOf(vs[1].ty)
      differ == vs[1].ty # vs[2].ty
  IN  CASE f \in IntBinaries ->
             BadIf(differ \/ Undefined(f, n, a, b), vs[1].ty,
                   IntBinaryOf(f, n, a, b))
        [] f \in IntPredicates ->
             BadIf(differ, "i1", AsBit(IntPredicate(f, n, a, b)))
        [] f \in FloatPredicates -> Val("i1", AsBit(FloatPredicate(f, a, b)))
        [] f = "not" -> Val(vs[1].ty, 2 ^ n - 1 - a)
        [] f = "fshl" -> Val(ty, RotatedLeft(n, a, vs[3].v % n))
        [] f = "fshr" -> Val(ty, RotatedLeft(n, a, (n - (vs[3].v % n)) % n))
        [] f = "sadd.sat" ->
             Val(ty, SaturatedTo(n, Signed(n, a) + Signed(n, b)) % 2 ^ n)
        [] f = "ssub.sat" ->
             Val(ty, SaturatedTo(n, Signed(n, a) - Signed(n, b)) % 2 ^ n)
        [] f = "minnum" -> Val(ty, MinNum(a, b))
        [] f = "maxnum" -> Val(ty, MaxNum(a, b))
        [] f = "copysign" -> Val(ty, [a EXCEPT !.neg = b.neg])
        [] f = "fneg" -> Val(ty, [a EXCEPT !.neg = ~ @])
        [] f = "fabs" -> Val(ty, [a EXCEPT !.neg = FALSE])
        [] f = "ctlz" -> Val(ty, LeadingZeros(n, a))
        [] f = "cttz" -> Val(ty, TrailingZeros(n, a))
        [] f = "ctpop" -> Val(ty, Cardinality(BitsSet(n, a)))
        [] f = "zext" -> BadIf(vs[1].ty \in V128Types, ty, a)
        [] f = "sext" -> BadIf(vs[1].ty \in V128Types \/ n > BitsOf(ty), ty,
                               Signed(n, a) % 2 ^ BitsOf(ty))
        [] f = "trunc" -> Val(ty, a % 2 ^ Width[ty])
        [] f = "select" ->
             LET chosen == IF a = 1 THEN vs[2] ELSE vs[3]
             IN  BadIf(vs[1].bad \/ chosen.bad, chosen.ty, chosen.v)
        [] f = "load" ->
             BadIf(~ InMemory(a, ty) \/ ~ Aligned(a, ty), ty, Contents(a, ty))
        [] f = "store" ->
             BadIf(~ InMemory(b, vs[1].ty) \/ ~ Aligned(b, vs[1].ty), "void",
                   [at |-> b, ty |-> vs[1].ty, v |-> a])
        [] f = "memcpy" ->
             BadIf(a + vs[3].v > MemSize \/ b + vs[3].v > MemSize
                     \/ Overlap(a, b, vs[3].v),
                   "void", [to |-> a, from |-> b, len |-> vs[3].v])
        [] f = "memset" -> BadIf(a + vs[3].v > MemSize, "void",
                                 [to |-> a, byte |-> b, len |-> vs[3].v])
        [] f = "bitmask" ->
             Val(ty, MapThenSumSet(LAMBDA k : LaneOf(a, vs[1].ty, k) * 2 ^ k,
                                   0 .. Count(vs[1].ty) - 1))
        [] f = "all" -> Val(ty, AsBit(\A k \in 0 .. Count(vs[1].ty) - 1 :
                                        LaneOf(a, vs[1].ty, k) = 1))
        [] f = "insert" ->
             LET vt == vs[1].ty
             IN  IF vt \notin Vectors \/ vs[2].ty # Lane[vt] THEN BadIf(TRUE, vt, a)
                 ELSE Val(vt, Packed(vt, [ k \in 0 .. Count(vt) - 1 |->
                        IF k = vs[3].v THEN b ELSE LaneOf(a, vt, k) ]))
        (* A call of an intrinsic declared for the type of vs[1].          *)
        [] f = "declared" -> BadIf(differ, ty, b)
        [] OTHER -> Val(ty, App(f, [k \in DOMAIN vs |-> vs[k].v]))

P(k) == [f |-> "p", ty |-> "", args |-> <<k>>]
Const(ty, c) == [f |-> "const", ty |-> ty, args |-> <<c>>]
I(f, ty, args) == [f |-> f, ty |-> ty, args |-> args]
(* Lane number at[k] of operand p, bitcast to ty, for lane k of a vector.  *)
LaneAt(p, ty, at) == [f |-> "lane", ty |-> ty, args |-> <<p, at>>]
(* The vector each lane of which is computed by the tree t.                *)
Lanes(ty, t) == I("lanes", ty, <<t>>)

RECURSIVE Eval(_, _, _)
(* Tree t on the operands ps, for lane k of a vector.                      *)
Eval(t, ps, k) ==
  CASE t.f = "p" -> ps[t.args[1]]
    [] t.f = "const" -> Val(t.ty, t.args[1])
    [] t.f = "lane" ->
         LET p == ps[t.args[1]]
         IN  BadIf(p.ty \notin V128Types, Lane[t.ty],
                   LaneOf(p.v, t.ty, t.args[2][k]))
    [] t.f = "lanes" ->
         LET at == 0 .. Count(t.ty) - 1
             ls == [ i \in at |-> Eval(t.args[1], ps, i) ]
         IN  BadIf(\E i \in at : ls[i].bad, t.ty,
                   Packed(t.ty, [ i \in at |-> ls[i].v ]))
    [] OTHER ->
         LET vs == [ i \in DOMAIN t.args |-> Eval(t.args[i], ps, k) ]
             r == Applied(t.f, t.ty, vs)
         IN  IF t.f # "select" /\ \E i \in DOMAIN vs : vs[i].bad
             THEN BadIf(TRUE, r.ty, r.v) ELSE r

-----------------------------------------------------------------------------
(* The scalar opcodes.  p1 is popped first: it is the right operand.       *)

P1 == P(1)
P2 == P(2)
P3 == P(3)

IntBinary ==
  [Add |-> "add", Sub |-> "sub", Mul |-> "mul", DivS |-> "sdiv",
   DivU |-> "udiv", RemS |-> "srem", RemU |-> "urem", And |-> "and",
   Or |-> "or", Xor |-> "xor", Shl |-> "shl", ShrS |-> "ashr",
   ShrU |-> "lshr"]
Rotation == [Rotl |-> "fshl", Rotr |-> "fshr"]
FloatBinary ==
  [Add |-> "fadd", Sub |-> "fsub", Mul |-> "fmul", Div |-> "fdiv",
   Min |-> "minnum", Max |-> "maxnum", Copysign |-> "copysign"]

(* Mutant: the operands as they are popped.                                *)
Ordered_AsPopped(f, ty) == I(f, ty, <<P1, P2>>)
Ordered(f, ty) == I(f, ty, <<P2, P1>>)
BinaryInst(o) ==
  IF o.ty \in Floats THEN Ordered(FloatBinary[o.op], o.ty)
  ELSE IF o.op \in DOMAIN Rotation THEN I(Rotation[o.op], o.ty, <<P2, P2, P1>>)
  ELSE Ordered(IntBinary[o.op], o.ty)

IntCompare ==
  [Eq |-> "eq", Ne |-> "ne", GeS |-> "sge", GeU |-> "uge", GtU |-> "ugt",
   GtS |-> "sgt", LeS |-> "sle", LeU |-> "ule", LtS |-> "slt", LtU |-> "ult"]
FloatCompare ==
  [Eq |-> "oeq", Ne |-> "oeq", Ge |-> "oge", Gt |-> "ogt", Le |-> "ole",
   Lt |-> "olt"]
CompareExpr(o) ==
  LET f == IF o.from \in Floats THEN FloatCompare[o.op] ELSE IntCompare[o.op]
  IN  I("zext", "i32", << Ordered(f, "i1") >>)

IntUnary == [Clz |-> "ctlz", Ctz |-> "cttz", Popcnt |-> "ctpop"]
FloatUnary ==
  [Neg |-> "fneg", Abs |-> "fabs", Ceil |-> "ceil", Floor |-> "floor",
   Nearest |-> "roundeven", Trunc |-> "trunc.float", Sqrt |-> "sqrt"]
UnaryInst(o) ==
  IF o.op = "ExtendS"
  THEN I("sext", o.ty, << I("trunc", o.from, <<P1>>) >>)
  ELSE IF o.ty \in Floats THEN I(FloatUnary[o.op], o.ty, <<P1>>)
  ELSE I(IntUnary[o.op], o.ty, <<P1>>)

(* Mutant: what is narrow is zero-extended in an i64.                      *)
Extension_Zero64(o) == IF o.sx = "s" /\ o.ty = "i32" THEN "sext" ELSE "zext"
Extension(o) == IF o.sx = "s" THEN "sext" ELSE "zext"
Signedness(o, s, u) == IF o.sx = "s" THEN s ELSE u
ConvertExpr(o) ==
  CASE o.op = "Eqz" ->
         I("zext", "i32", << I("eq", "i1", <<P1, Const(o.from, 0)>>) >>)
    [] o.op = "Extend" -> I(Extension(o), o.ty, <<P1>>)
    [] o.op = "Wrap" -> I("trunc", o.ty, <<P1>>)
    [] o.op = "Trunc" -> I(Signedness(o, "fptosi", "fptoui"), o.ty, <<P1>>)
    [] o.op = "Convert" -> I(Signedness(o, "sitofp", "uitofp"), o.ty, <<P1>>)
    [] o.op = "Demote" -> I("fptrunc", o.ty, <<P1>>)
    [] o.op = "Promote" -> I("fpext", o.ty, <<P1>>)
    [] o.op = "Reinterpret" -> I("bitcast", o.ty, <<P1>>)

SelectExpr(o) ==
  I("select", o.ty, << I("ne", "i1", <<P1, Const("i32", 0)>>), P3, P2 >>)

(* Mutant: the static offset is left out.                                  *)
StackAddr_NoOffset(p) == p
(* Loads and stores add the static offset to the address on the stack.     *)
StackAddr(p) == I("add", "i32", <<p, Const("i32", Offset)>>)
LoadInst(o) ==
  IF o.from = o.ty THEN I("load", o.ty, << StackAddr(P1) >>)
  ELSE I(Extension(o), o.ty, << I("load", o.from, << StackAddr(P1) >>) >>)
StoreInst(o) ==
  I("store", "void",
    << IF o.from = o.ty THEN P1 ELSE I("trunc", o.from, <<P1>>),
       StackAddr(P2) >>)

(* memory.copy and memory.fill (dispatchExprs) have no offset.             *)
MemoryInst(o) ==
  IF o.op = "Copy" THEN I("memcpy", "void", <<P3, P2, P1>>)
  ELSE I("memset", "void", << P3, I("trunc", "i8", <<P2>>), P1 >>)

-----------------------------------------------------------------------------
(* The opcodes on vectors of integers.                                     *)

Same(ty) == [ k \in 0 .. Count(ty) - 1 |-> k ]
AtEven(ty) == [ k \in 0 .. Count(ty) - 1 |-> 2 * k ]
AtOdd(ty) == [ k \in 0 .. Count(ty) - 1 |-> 2 * k + 1 ]

(* EMIT_SIMD_BINARY_OP calls p1 left and p2 right.                         *)
Left(o) == LaneAt(1, o.ty, Same(o.ty))
Right(o) == LaneAt(2, o.ty, Same(o.ty))
Lanewise(o, f) == Lanes(o.ty, I(f, Lane[o.ty], <<Left(o), Right(o)>>))

(* The intrinsic of a signed sum is declared for the type that p1 has.     *)
SignedSat(o) ==
  I("declared", o.ty,
    << P1, Lanewise(o, IF o.op = "AddSatS" THEN "sadd.sat" ELSE "ssub.sat") >>)
(* These two are written out, with the names the other way.                *)
AddSatU(o) ==
  LET e == Lane[o.ty]
      sum == I("add", e, <<Right(o), Left(o)>>)
  IN  Lanes(o.ty, I("select", e, << I("ugt", "i1", <<Right(o), sum>>),
                                    Const(e, 2 ^ Width[e] - 1), sum >>))
SubSatU(o) ==
  LET e == Lane[o.ty]
      larger == I("select", e, << I("ugt", "i1", <<Right(o), Left(o)>>),
                                  Right(o), Left(o) >>)
  IN  Lanes(o.ty, I("sub", e, << larger, Left(o) >>))
AvgrU(o) ==
  LET w == Wide[Lane[o.ty]]
      widened(x) == I("zext", w, <<x>>)
      sum == I("add", w, << widened(Left(o)), widened(Right(o)) >>)
      one == Const(w, 1)
  IN  Lanes(o.ty, I("trunc", Lane[o.ty],
                    << I("lshr", w, << I("add", w, <<sum, one>>), one >>) >>))
MinMax(o) ==
  LET less == I(IF o.op \in {"MinS", "MaxS"} THEN "slt" ELSE "ult", "i1",
                <<Left(o), Right(o)>>)
  IN  Lanes(o.ty, I("select", Lane[o.ty],
                    IF o.op \in {"MinS", "MinU"} THEN <<less, Left(o), Right(o)>>
                    ELSE <<less, Right(o), Left(o)>>))
SimdBinaryInst(o) ==
  CASE o.op \in {"Add", "Sub", "Mul"} -> Lanewise(o, IntBinary[o.op])
    [] o.op \in {"AddSatS", "SubSatS"} -> SignedSat(o)
    [] o.op = "AddSatU" -> AddSatU(o)
    [] o.op = "SubSatU" -> SubSatU(o)
    [] o.op = "AvgrU" -> AvgrU(o)
    [] OTHER -> MinMax(o)

(* The opcodes on all the bits take the operands with the types they have. *)
BitwiseInst(o) ==
  IF o.op = "Andnot" THEN I("and", "", << P2, I("not", "", <<P1>>) >>)
  ELSE Ordered(IntBinary[o.op], "")

(* EMIT_SIMD_SHIFT_OP.                                                     *)
(* Mutant: the count is cut to the lane, not masked.                       *)
ShiftCount_Unmasked(ty) == I("trunc", Lane[ty], <<P1>>)
ShiftCount(ty) ==
  I("trunc", Lane[ty],
    << I("and", "i32", << P1, Const("i32", Width[Lane[ty]] - 1) >>) >>)
SimdShiftInst(o) ==
  Lanes(o.ty, I(IntBinary[o.op], Lane[o.ty],
                << Right(o), ShiftCount(o.ty) >>))

(* The vector compared is a vector of i1, zero-extended to a scalar.       *)
SimdCompareExpr(o) ==
  I("sext", o.ty,
    << I("zext", "i32",
         << Lanes(o.ty, I(IntCompare[o.op], "i1", <<Left(o), Right(o)>>)) >>)
    >>)

(* The shuffle mask of createSIMDExtend: it is filled in from startIdx up  *)
(* to half of the lanes; the high half starts there and fills in nothing.  *)
Masks(o) ==
  LET half == Count(o.from) \div 2
  IN  IF o.op \in {"ExtendLow", "ExtmulLow"} THEN { [ k \in 0 .. half - 1 |-> k ] }
      ELSE [ 0 .. half - 1 -> 0 .. Count(o.from) - 1 ]
SimdExtended(o, p, mask) ==
  I(Extension(o), Lane[o.ty], << LaneAt(p, o.from, mask) >>)

ExtaddPairwise(o) ==
  Lanes(o.ty, I("add", Lane[o.ty],
                << SimdExtended(o, 1, AtEven(o.ty)),
                   SimdExtended(o, 1, AtOdd(o.ty)) >>))
(* The case of i8x16 without signs runs into the next one.                 *)
NextCase(o) ==
  IF o.op = "ExtaddPairwise" /\ o.from = "i8x16" /\ o.sx = "u"
  THEN [o EXCEPT !.ty = "i32x4", !.from = "i16x8", !.sx = "s"] ELSE o

SimdUnaryInst(o) ==
  LET e == Lane[o.ty]
      v == Left(o)
      negative == I("slt", "i1", << v, Const(e, 0) >>)
      negated == I("sub", e, << Const(e, 0), v >>)
  IN  CASE o.op = "Neg" -> Lanes(o.ty, negated)
        [] o.op = "Abs" -> Lanes(o.ty, I("select", e, <<negative, negated, v>>))
        [] o.op = "Popcnt" -> Lanes(o.ty, I("ctpop", e, <<v>>))
        [] o.op = "AllTrue" ->
             I("all", "i32", << Lanes(o.ty, I("ne", "i1", << v, Const(e, 0) >>)) >>)
        [] o.op = "Bitmask" -> I("bitmask", "i32", << Lanes(o.ty, negative) >>)
        [] o.op = "Splat" ->
             Lanes(o.ty, IF e = "i32" THEN P1 ELSE I("trunc", e, <<P1>>))
        [] o.op = "Not" -> I("not", "", <<P1>>)

SimdLaneOp(o) ==
  LET e == Lane[o.ty]
      x == IF e = "i32" THEN P1 ELSE I("trunc", e, <<P1>>)
      vec == Lanes(o.ty, Right(o))
  IN  IF o.op = "ExtractLane"
      THEN I(IF e = "i32" THEN "sext" ELSE Extension(o), "i32",
             << LaneAt(1, o.ty, [ k \in {0} |-> o.lane ]) >>)
      (* Where x is cut to the lane it takes the place of the vector.      *)
      ELSE I("insert", o.ty, << IF e = "i32" THEN vec ELSE x, P1,
                                Const("i32", o.lane) >>)

Selected(o) ==
  CASE o.visitor = "Binary" -> { BinaryInst(o) }
    [] o.visitor = "Compare" -> { CompareExpr(o) }
    [] o.visitor = "Unary" -> { UnaryInst(o) }
    [] o.visitor = "Convert" -> { ConvertExpr(o) }
    [] o.visitor = "Select" -> { SelectExpr(o) }
    [] o.visitor = "Load" -> { LoadInst(o) }
    [] o.visitor = "Store" -> { StoreInst(o) }
    [] o.visitor = "Memory" -> { MemoryInst(o) }
    [] o.visitor = "SimdBinary" -> { SimdBinaryInst(o) }
    [] o.visitor = "Bitwise" -> { BitwiseInst(o) }
    [] o.visitor = "SimdShift" -> { SimdShiftInst(o) }
    [] o.visitor = "SimdCompare" -> { SimdCompareExpr(o) }
    [] o.visitor = "SimdUnary" -> { SimdUnaryInst(o) }
    [] o.visitor = "SimdLane" -> { SimdLaneOp(o) }
    [] o.op = "ExtaddPairwise" -> { ExtaddPairwise(NextCase(o)) }
    [] o.op \in {"ExtendLow", "ExtendHigh"} ->
         { Lanes(o.ty, SimdExtended(o, 1, m)) : m \in Masks(o) }
    [] OTHER ->
         { Lanes(o.ty, I("mul", Lane[o.ty], << SimdExtended(o, 2, m[2]),
                                               SimdExtended(o, 1, m[1]) >>)) :
             m \in [ 1 .. 2 -> Masks(o) ] }

(* The types of the operands of an opcode, in the order they are popped.   *)
Popped(o) ==
  CASE o.visitor = "Binary" -> <<o.ty, o.ty>>
    [] o.visitor = "Compare" -> <<o.from, o.from>>
    [] o.visitor = "Unary" -> <<o.ty>>
    [] o.visitor = "Convert" -> <<o.from>>
    [] o.visitor = "Select" -> <<"i32", o.ty, o.ty>>
    [] o.visitor = "Load" -> <<"i32">>
    [] o.visitor = "Store" -> <<o.ty, "i32">>
    [] o.visitor = "Memory" -> <<"i32", "i32", "i32">>
    [] o.visitor = "SimdShift" -> <<"i32", "v128">>
    [] o.visitor = "SimdLane" /\ o.op = "ReplaceLane" -> <<"i32", "v128">>
    [] o.op = "Splat" -> <<"i32">>
    [] o.visitor \in {"SimdUnary", "SimdLane"} -> <<"v128">>
    [] o.op \in {"ExtaddPairwise", "ExtendLow", "ExtendHigh"} -> <<"v128">>
    [] OTHER -> <<"v128", "v128">>
OperandsOf(ty) ==
  IF ty = "v128" THEN { Val(t, v) : t \in VTypes, v \in VOperands }
  ELSE { Val(ty, v) : v \in IF ty \in Floats THEN FloatValues
                            ELSE 0 .. 2 ^ Width[ty] - 1 }
OperandLists(o) ==
  LET tys == Popped(o)
  IN  CASE Len(tys) = 1 -> { <<p>> : p \in OperandsOf(tys[1]) }
        [] Len(tys) = 2 -> OperandsOf(tys[1]) \X OperandsOf(tys[2])
        [] Len(tys) = 3 ->
             OperandsOf(tys[1]) \X OperandsOf(tys[2]) \X OperandsOf(tys[3])

NoTree == I("none", "", <<>>)
NoValue == Val("none", 0)

SInit ==
  /\ opcode \in Opcodes
  /\ operands \in OperandLists(opcode)
  /\ ir = NoTree
  /\ result = NoValue

(* The visitor of the opcode; then the execution of what it emitted.       *)
Visit ==
  /\ ir.f = "none"
  /\ ir' \in Selected(opcode)
  /\ UNCHANGED <<opcode, operands, result>>

Execute ==
  /\ ir.f # "none"
  /\ result.ty = "none"
  /\ result' = Eval(ir, operands, 0)
  /\ UNCHANGED <<opcode, operands, ir>>

SNext == Visit \/ Execute

SSpec == SInit /\ [][SNext]_svars

-----------------------------------------------------------------------------
(* WebAssembly: the outcome of an opcode on a, b, its operands in order.   *)

Trap == [trap |-> TRUE, v |-> 0]
Gives(v) == [trap |-> FALSE, v |-> v]

WasmIntBinary(op, n, a, b) ==
  LET x == Signed(n, a)
      y == Signed(n, b)
      k == b % n
  IN  CASE op = "Add" -> Gives((a + b) % 2 ^ n)
        [] op = "Sub" -> Gives((a - b) % 2 ^ n)
        [] op = "Mul" -> Gives((a * b) % 2 ^ n)
        [] op \in {"DivU", "DivS", "RemU", "RemS"} /\ b = 0 -> Trap
        [] op = "DivU" -> Gives(a \div b) [] op = "RemU" -> Gives(a % b)
        [] op = "DivS" -> IF Quotient(x, y) = 2 ^ (n - 1) THEN Trap
                          ELSE Gives(Quotient(x, y) % 2 ^ n)
        [] op = "RemS" -> Gives((x - y * Quotient(x, y)) % 2 ^ n)
        [] op = "And" -> Gives(a & b) [] op = "Or" -> Gives(a | b)
        [] op = "Xor" -> Gives(a ^^ b)
        [] op = "Shl" -> Gives((a * 2 ^ k) % 2 ^ n)
        [] op = "ShrU" -> Gives(a \div 2 ^ k)
        [] op = "ShrS" -> Gives((x \div 2 ^ k) % 2 ^ n)
        [] op = "Rotl" -> Gives(RotatedLeft(n, a, k))
        [] op = "Rotr" -> Gives(RotatedLeft(n, a, (n - k) % n))

WasmFloatBinary(op, x, y) ==
  CASE op \in {"Min", "Max"} /\ (x.nan \/ y.nan) -> NaN
    [] op = "Min" -> IF FLess(y, x) \/ (FEqual(x, y) /\ y.neg) THEN y ELSE x
    [] op = "Max" -> IF FLess(x, y) \/ (FEqual(x, y) /\ ~ y.neg) THEN y ELSE x
    [] op = "Copysign" -> [x EXCEPT !.neg = y.neg]
    [] OTHER -> App([Add |-> "fadd", Sub |-> "fsub", Mul |-> "fmul",
                     Div |-> "fdiv"][op], <<x, y>>)

WasmCompare(op, n, a, b) ==
  LET x == Signed(n, a)
      y == Signed(n, b)
  IN  CASE op = "Eq" -> a = b [] op = "Ne" -> a # b
        [] op = "LtU" -> a < b [] op = "LtS" -> x < y
        [] op = "GtU" -> a > b [] op = "GtS" -> x > y
        [] op = "LeU" -> a <= b [] op = "LeS" -> x <= y
        [] op = "GeU" -> a >= b [] op = "GeS" -> x >= y
WasmFloatCompare(op, x, y) ==
  CASE op = "Eq" -> FEqual(x, y) [] op = "Ne" -> ~ FEqual(x, y)
    [] op = "Lt" -> FLess(x, y) [] op = "Gt" -> FLess(y, x)
    [] op = "Le" -> FLess(x, y) \/ FEqual(x, y)
    [] op = "Ge" -> FLess(y, x) \/ FEqual(x, y)

Extended(sx, n, m, a) == IF sx = "s" THEN Signed(n, a) % 2 ^ m ELSE a
WasmUnary(o, a) ==
  LET n == Width[o.ty]
      low == Width[o.from]
  IN  CASE o.op = "ExtendS" -> Extended("s", low, n, a % 2 ^ low)
        [] o.op = "Clz" -> LeadingZeros(n, a)
        [] o.op = "Ctz" -> TrailingZeros(n, a)
        [] o.op = "Popcnt" -> Cardinality(BitsSet(n, a))
        [] o.op = "Neg" -> [a EXCEPT !.neg = ~ @]
        [] o.op = "Abs" -> [a EXCEPT !.neg = FALSE]
        [] OTHER ->
             App([Ceil |-> "ceil", Floor |-> "floor", Nearest |-> "roundeven",
                  Trunc |-> "trunc.float", Sqrt |-> "sqrt"][o.op], <<a>>)
WasmConvert(o, a) ==
  CASE o.op = "Eqz" -> AsBit(a = 0)
    [] o.op = "Extend" -> Extended(o.sx, Width["i32"], Width["i64"], a)
    [] o.op = "Wrap" -> a % 2 ^ Width["i32"]
    [] OTHER ->
         App([Trunc |-> [s |-> "fptosi", u |-> "fptoui"],
              Convert |-> [s |-> "sitofp", u |-> "uitofp"],
              Demote |-> [u |-> "fptrunc"], Promote |-> [u |-> "fpext"],
              Reinterpret |-> [u |-> "bitcast"]][o.op][o.sx], <<a>>)

WasmLoad(o, a) ==
  IF InMemory(a + Offset, o.from)
  THEN Gives(IF o.from = o.ty THEN Contents(a + Offset, o.ty)
             ELSE Extended(o.sx, Width[o.from], Width[o.ty],
                           Contents(a + Offset, o.from)))
  ELSE Trap
WasmStore(o, a, v) ==
  IF InMemory(a + Offset, o.from)
  THEN Gives([ at |-> a + Offset, ty |-> o.from,
               v |-> IF o.from = o.ty THEN v ELSE v % 2 ^ Width[o.from] ])
  ELSE Trap

WasmMemory(op, to, x, len) ==
  IF to + len > MemSize \/ (op = "Copy" /\ x + len > MemSize) THEN Trap
  ELSE Gives(IF op = "Copy" THEN [to |-> to, from |-> x, len |-> len]
             ELSE [to |-> to, byte |-> x % 2 ^ Width["i8"], len |-> len])

Clamped(lo, hi, x) == IF x < lo THEN lo ELSE IF x > hi THEN hi ELSE x
WasmLane(op, n, a, b) ==
  LET x == Signed(n, a)
      y == Signed(n, b)
      s(i) == Clamped(- (2 ^ (n - 1)), 2 ^ (n - 1) - 1, i) % 2 ^ n
      u(i) == Clamped(0, 2 ^ n - 1, i)
  IN  CASE op = "AddSatS" -> s(x + y) [] op = "SubSatS" -> s(x - y)
        [] op = "AddSatU" -> u(a + b) [] op = "SubSatU" -> u(a - b)
        [] op = "AvgrU" -> (a + b + 1) \div 2
        [] op = "MinS" -> IF x <= y THEN a ELSE b
        [] op = "MaxS" -> IF x <= y THEN b ELSE a
        [] op = "MinU" -> IF a <= b THEN a ELSE b
        [] op = "MaxU" -> IF a <= b THEN b ELSE a
        [] OTHER -> WasmIntBinary(op, n, a, b).v
WasmLaneUnary(op, n, a) ==
  CASE op = "Neg" -> (- a) % 2 ^ n
    [] op = "Abs" -> AbsOf(Signed(n, a))
    [] op = "Popcnt" -> Cardinality(BitsSet(n, a))

(* The vector whose lane k is f(k).                                        *)
WasmVector(ty, f(_)) == Packed(ty, [ k \in 0 .. Count(ty) - 1 |-> f(k) ])
WasmSimdUnary(o, a) ==
  LET n == Width[Lane[o.ty]]
      lane(k) == LaneOf(a, o.ty, k)
      at == 0 .. Count(o.ty) - 1
  IN  CASE o.op = "Not" -> 2 ^ V128 - 1 - a
        [] o.op = "AllTrue" -> AsBit(\A k \in at : lane(k) # 0)
        [] o.op = "Bitmask" ->
             MapThenSumSet(LAMBDA k : 2 ^ k, { k \in at : Signed(n, lane(k)) < 0 })
        [] o.op = "Splat" -> WasmVector(o.ty, LAMBDA k : a % 2 ^ n)
        [] OTHER -> WasmVector(o.ty, LAMBDA k : WasmLaneUnary(o.op, n, lane(k)))

(* The opcodes that widen lanes: from the low or the high half, or pairs.  *)
WasmWiden(o, a, b) ==
  LET m == Width[Lane[o.ty]]
      wide(v, k) == Extended(o.sx, Width[Lane[o.from]], m, LaneOf(v, o.from, k))
      high == Count(o.ty)
  IN  WasmVector(o.ty, LAMBDA k :
        CASE o.op = "ExtendLow" -> wide(a, k)
          [] o.op = "ExtendHigh" -> wide(a, high + k)
          [] o.op = "ExtmulLow" -> (wide(a, k) * wide(b, k)) % 2 ^ m
          [] o.op = "ExtmulHigh" -> (wide(a, high + k) * wide(b, high + k)) % 2 ^ m
          [] o.op = "ExtaddPairwise" ->
               (wide(a, 2 * k) + wide(a, 2 * k + 1)) % 2 ^ m)

WasmSimdLane(o, vec, x) ==
  LET e == Lane[o.ty]
      lane(k) == LaneOf(vec, o.ty, k)
  IN  IF o.op = "ExtractLane"
      THEN Extended(o.sx, Width[e], Width["i32"], lane(o.lane))
      ELSE WasmVector(o.ty, LAMBDA k : IF k = o.lane THEN x % 2 ^ Width[e]
                                       ELSE lane(k))

(* Operands p1, p2, p3 as popped: the last one of the opcode first.        *)
WasmOutcome(o, ps) ==
  LET p1 == ps[1].v
      p2 == ps[2].v
      p3 == ps[3].v
      float == o.ty \in Floats
      lanes(b) == WasmVector(o.ty, LAMBDA k :
                    WasmLane(o.op, Width[Lane[o.ty]], LaneOf(p2, o.ty, k), b[k]))
      at == 0 .. Count(o.ty) - 1
  IN  CASE o.visitor = "Binary" /\ float -> Gives(WasmFloatBinary(o.op, p2, p1))
        [] o.visitor = "Binary" /\ ~ float ->
             WasmIntBinary(o.op, Width[o.ty], p2, p1)
        [] o.visitor = "Compare" ->
             Gives(AsBit(IF o.from \in Floats THEN WasmFloatCompare(o.op, p2, p1)
                         ELSE WasmCompare(o.op, Width[o.from], p2, p1)))
        [] o.visitor = "Unary" -> Gives(WasmUnary(o, p1))
        [] o.visitor = "Convert" -> Gives(WasmConvert(o, p1))
        [] o.visitor = "Select" -> Gives(IF p1 # 0 THEN p3 ELSE p2)
        [] o.visitor = "Load" -> WasmLoad(o, p1)
        [] o.visitor = "Store" -> WasmStore(o, p2, p1)
        [] o.visitor = "Memory" -> WasmMemory(o.op, p3, p2, p1)
        [] o.visitor = "SimdBinary" ->
             Gives(lanes([ k \in at |-> LaneOf(p1, o.ty, k) ]))
        [] o.visitor = "SimdShift" -> Gives(lanes([ k \in at |-> p1 ]))
        [] o.visitor = "SimdCompare" ->
             Gives(WasmVector(o.ty, LAMBDA k :
               IF WasmCompare(o.op, Width[Lane[o.ty]], LaneOf(p2, o.ty, k),
                              LaneOf(p1, o.ty, k))
               THEN 2 ^ Width[Lane[o.ty]] - 1 ELSE 0))
        [] o.visitor = "Bitwise" ->
             Gives(IF o.op = "Andnot" THEN p2 & (2 ^ V128 - 1 - p1)
                   ELSE WasmIntBinary(o.op, V128, p2, p1).v)
        [] o.visitor = "SimdUnary" -> Gives(WasmSimdUnary(o, p1))
        [] o.visitor = "SimdLane" ->
             Gives(WasmSimdLane(o, IF o.op = "ExtractLane" THEN p1 ELSE p2, p1))
        [] o.visitor = "SimdWiden" ->
             Gives(WasmWiden(o, IF Len(ps) = 1 THEN p1 ELSE p2, p1))

(* The type of the result.                                                 *)
ResultType(o) ==
  CASE o.visitor = "Compare" -> {"i32"}
    [] o.visitor \in {"Store", "Memory"} -> {"void"}
    [] o.op \in {"AllTrue", "Bitmask", "ExtractLane"} -> {"i32"}
    [] o.ty \in Vectors -> V128Types
    [] OTHER -> {o.ty}

-----------------------------------------------------------------------------
(* Properties.                                                             *)

Executed == result.ty # "none"
Outcome == WasmOutcome(opcode, operands)
AsWasm ==
  /\ ~ result.bad
  /\ result.ty \in ResultType(opcode)
  /\ result.v = Outcome.v

(* The address on the stack, of a load or a store.                         *)
Address == operands[Len(operands)].v + Offset
(* What the IR takes for granted of an access: LLVM's default alignment    *)
(* and, for memcpy, that the ranges are apart.                             *)
AsAssumed ==
  /\ opcode.visitor \in {"Load", "Store"} => Aligned(Address, opcode.from)
  /\ opcode.op = "Copy" =>
       ~ Overlap(operands[3].v, operands[2].v, operands[1].v)

(* The operands at which the selected instructions are undefined, ill-typed *)
(* or plainly different.                                                   *)
KnownUndefined ==
  LET o == opcode
      p1 == operands[1]
      p2 == operands[2]
  IN  \/ ~ AsAssumed
      \/ o.visitor = "Binary" /\ o.op \in {"Shl", "ShrS", "ShrU"}
           /\ p1.v >= Width[o.ty]
      \/ o.op = "RemS" /\ Overflows(Width[o.ty], p2.v, p1.v)
      \/ o.visitor = "Bitwise" /\ p1.ty # p2.ty
      \/ o.op \in {"AddSatS", "SubSatS"} /\ p1.ty # o.ty
      \/ o.op = "ReplaceLane" /\ Lane[o.ty] # "i32"
      \/ o.visitor = "SimdCompare"
KnownWrong ==
  LET nan(i) == operands[i].v.nan
  IN  \/ opcode.op = "Ne" /\ opcode.from \in Floats
      \/ opcode.op \in {"Min", "Max"} /\ opcode.ty \in Floats /\ nan(1) # nan(2)
KnownSwapped == opcode.visitor = "SimdBinary" /\ opcode.op \in {"Sub", "SubSatS"}
(* Lanes come from wherever the mask says, or are summed in another width. *)
KnownElsewhere ==
  \/ opcode.op \in {"ExtendHigh", "ExtmulHigh"}
  \/ opcode.op = "ExtaddPairwise" /\ NextCase(opcode) # opcode

(* Where WebAssembly does not trap, the instructions selected for an       *)
(* opcode are well-typed and defined, and compute its result, or the store *)
(* it makes: the operands in their order, the lanes in their places, the   *)
(* extension and the width asked for.  The exceptions are exactly those    *)
(* named above.                                                            *)
ResultMatches ==
  Executed /\ ~ Outcome.trap
    /\ ~ (KnownUndefined \/ KnownWrong \/ KnownSwapped \/ KnownElsewhere)
    => AsWasm

(* Each lane is the extension of some lane of the operand.                 *)
ExtendsSomeLanes(v) ==
  LET o == opcode
      lane(j) == LaneOf(operands[1].v, o.from, j)
  IN  \A k \in 0 .. Count(o.ty) - 1 : \E j \in 0 .. Count(o.from) - 1 :
        LaneOf(v, o.ty, k)
          = Extended(o.sx, Width[Lane[o.from]], Width[Lane[o.ty]], lane(j))


(* A load or store that traps in WebAssembly is undefined in the IR too,   *)
(* and does not reach another place of the memory, unless the sum of the   *)
(* address and the offset wraps.                                           *)
TrapsStayOut ==
  Executed /\ opcode.visitor \in {"Load", "Store"} /\ Outcome.trap =>
    result.bad \/ Address >= 2 ^ Width["i32"]

(* The translation means what the opcode means: its result where there is  *)
(* one, and no access to the memory where it traps.                        *)
MeansTheSame ==
  Executed =>
    IF ~ Outcome.trap THEN AsWasm
    ELSE opcode.visitor \in {"Load", "Store"} => result.bad
=============================================================================
