---------------------------- MODULE StackEffects ----------------------------
(***************************************************************************)
(* What the handler of each plain (non-control) expression does to the     *)
(* operand stack of BlockContext (parser-instruction.cpp), beside what the *)
(* WebAssembly type of the expression says.  The instructions a handler    *)
(* emits are abstracted to the number of operands it takes and leaves.     *)
(*                                                                         *)
(* An effect is a record:                                                  *)
(*   need  the stack size the handler asserts (popStack, local.tee, drop);  *)
(*         memory.grow asserts nothing and would take from an empty vector *)
(*   pop   the operands it removes                                         *)
(*   push  the results it appends                                          *)
(***************************************************************************)
EXTENDS Naturals

Effect(n, m) == [need |-> n, pop |-> n, push |-> m]

VisitConstInst == Effect(0, 1)

VisitLocalGet == Effect(0, 1)
VisitLocalSet == Effect(1, 0)
(* Mutant: the stored value is popped.                                     *)
VisitLocalTee_Pops == Effect(1, 0)
(* The value is stored and stays where it is.                              *)
VisitLocalTee == [need |-> 1, pop |-> 0, push |-> 0]
VisitGlobalGet == Effect(0, 1)
VisitGlobalSet == Effect(1, 0)

(* Both take their address from the stack (convertStackAddr).              *)
VisitLoadInst == Effect(1, 1)
VisitStoreInst == Effect(2, 0)

VisitSelectExpr == Effect(3, 1)

(* The value switches: an opcode without a case prints an error and leaves *)
(* ret null, so the operands are gone and nothing is pushed.               *)
VisitConvertExpr(hasCase) == Effect(1, IF hasCase THEN 1 ELSE 0)
VisitUnaryInst(hasCase) == Effect(1, IF hasCase THEN 1 ELSE 0)
VisitBinaryInst(hasCase) == Effect(2, IF hasCase THEN 1 ELSE 0)
VisitCompareExpr == Effect(2, 1)

VisitCallInst(params, results) == Effect(params, results)
(* Mutant: the index is left on the stack.                                 *)
VisitCallIndirectInst_LeavesIndex(params, results) == Effect(params, results)
(* One operand more: the index into the table.                             *)
VisitCallIndirectInst(params, results) == Effect(params + 1, results)

MemoryGrow == Effect(1, 1)
MemorySize == Effect(0, 1)
MemoryCopy == Effect(3, 0)
MemoryFill == Effect(3, 0)
Drop == Effect(1, 0)
SimdShuffle == Effect(2, 1)

(* extract_lane takes the vector; replace_lane the scalar and the vector.  *)
VisitSimdLaneOp(replace) == Effect(IF replace THEN 2 ELSE 1, 1)
VisitSimdLoadLane == Effect(2, 1)
(* createStoreLane returns the store instruction, which is pushed like a   *)
(* result.                                                                 *)
VisitSimdStoreLane == Effect(2, 1)

(* The switch of dispatchExprs.  A class outside the domain ends the        *)
(* process: ternary (v128.bitselect) in the default case, std::abort, and  *)
(* trunc_sat_zero in visitUnaryInst, whose two cases                       *)
(* I32X4TruncSatF64X2SZero and UZero convert ret while it is still null.   *)
dispatchExprs ==
  [ nop |-> Effect(0, 0), const |-> VisitConstInst,
    local_get |-> VisitLocalGet, local_set |-> VisitLocalSet,
    local_tee |-> VisitLocalTee,
    global_get |-> VisitGlobalGet, global_set |-> VisitGlobalSet,
    load |-> VisitLoadInst, store |-> VisitStoreInst,
    select |-> VisitSelectExpr,
    convert |-> VisitConvertExpr(TRUE), trunc_sat |-> VisitConvertExpr(FALSE),
    unary |-> VisitUnaryInst(TRUE),
    binary |-> VisitBinaryInst(TRUE), swizzle |-> VisitBinaryInst(FALSE),
    compare |-> VisitCompareExpr,
    call_0_0 |-> VisitCallInst(0, 0), call_2_1 |-> VisitCallInst(2, 1),
    call_indirect_0_1 |-> VisitCallIndirectInst(0, 1),
    call_indirect_1_0 |-> VisitCallIndirectInst(1, 0),
    memory_size |-> MemorySize, memory_grow |-> MemoryGrow,
    memory_copy |-> MemoryCopy, memory_fill |-> MemoryFill,
    drop |-> Drop, shuffle |-> SimdShuffle,
    extract_lane |-> VisitSimdLaneOp(FALSE),
    replace_lane |-> VisitSimdLaneOp(TRUE),
    load_lane |-> VisitSimdLoadLane, store_lane |-> VisitSimdStoreLane ]

(***************************************************************************)
(* The types of the same expressions in the WebAssembly specification, as  *)
(* enforced by wabt's validator before translation starts.                 *)
(***************************************************************************)
Type(n, m) == [params |-> n, results |-> m]

wasmType ==
  [ nop |-> Type(0, 0), const |-> Type(0, 1),
    local_get |-> Type(0, 1), local_set |-> Type(1, 0),
    local_tee |-> Type(1, 1),
    global_get |-> Type(0, 1), global_set |-> Type(1, 0),
    load |-> Type(1, 1), store |-> Type(2, 0), select |-> Type(3, 1),
    convert |-> Type(1, 1), trunc_sat |-> Type(1, 1), unary |-> Type(1, 1),
    trunc_sat_zero |-> Type(1, 1),
    binary |-> Type(2, 1), swizzle |-> Type(2, 1), compare |-> Type(2, 1),
    call_0_0 |-> Type(0, 0), call_2_1 |-> Type(2, 1),
    call_indirect_0_1 |-> Type(1, 1), call_indirect_1_0 |-> Type(2, 0),
    memory_size |-> Type(0, 1), memory_grow |-> Type(1, 1),
    memory_copy |-> Type(3, 0), memory_fill |-> Type(3, 0),
    drop |-> Type(1, 0), shuffle |-> Type(2, 1),
    extract_lane |-> Type(1, 1), replace_lane |-> Type(2, 1),
    load_lane |-> Type(2, 1), store_lane |-> Type(2, 0),
    ternary |-> Type(3, 1) ]

PlainExprs == DOMAIN wasmType

(* The classes whose handler keeps the stack in step with the type: all but *)
(* the opcodes without a case, the pushed store and those that end the      *)
(* process.                                                                 *)
Supported == PlainExprs \ {"trunc_sat", "trunc_sat_zero", "swizzle",
                           "store_lane", "ternary"}
=============================================================================
