--------------------------- MODULE WasmValidator ----------------------------
(***************************************************************************)
(* wabt's ValidateModule, which parse_wat and parse_wasm run before any    *)
(* translation: the stack discipline of the WebAssembly specification, for *)
(* one function body, with operands counted and not typed.  External code, *)
(* modelled from the guarantee src/ relies on.                             *)
(*                                                                         *)
(* A control frame of the validator is the label's arity at a branch, the  *)
(* operand height under the block, and its parameters and results.  Code   *)
(* after an unconditional branch is not followed: whatever it is, the      *)
(* block ends with its results on the operands below.                      *)
(***************************************************************************)
EXTENDS Integers, Sequences

VARIABLES
  vdepth,       \* the operands on the validator's stack
  vctrl,        \* its control frames, innermost last
  varity        \* the arity every target of the current br_table must have

vvars == <<vdepth, vctrl, varity>>

VFrame == vctrl[Len(vctrl)]
(* The operands the innermost block may take.                              *)
VAvailable == vdepth - VFrame.height
(* What a branch to the l-th label takes.                                  *)
VArity(l) == vctrl[Len(vctrl) - l].arity
VDepths == 0 .. Len(vctrl) - 1

VInit(results) ==
  /\ vdepth = 0
  /\ vctrl = << [kind |-> "Func", arity |-> results, height |-> 0,
                 params |-> 0, results |-> results] >>
  /\ varity = 0

VPlain(params, results) ==
  /\ VAvailable >= params
  /\ vdepth' = vdepth - params + results
  /\ UNCHANGED <<vctrl, varity>>

(* block, loop and if; `operands' counts the condition of an if.           *)
VEnter(kind, np, nr, operands) ==
  /\ VAvailable >= np + operands
  /\ vdepth' = vdepth - operands
  /\ vctrl' = Append(vctrl, [kind |-> kind,
                             arity |-> IF kind = "Loop" THEN np ELSE nr,
                             height |-> vdepth - operands - np,
                             params |-> np, results |-> nr])
  /\ UNCHANGED varity

(* A reachable end has the results, and nothing else, above the height.    *)
VEndOk(reachable) == reachable => VAvailable = VFrame.results

VElse(reachable) ==
  /\ VFrame.kind = "If"
  /\ VEndOk(reachable)
  /\ vdepth' = VFrame.height + VFrame.params
  /\ vctrl' = [vctrl EXCEPT ![Len(vctrl)].kind = "Else"]
  /\ UNCHANGED varity

(* An if has both arms in wabt's IR; the else arm may be empty.            *)
VEnd(reachable) ==
  /\ VFrame.kind # "If"
  /\ VEndOk(reachable)
  /\ vdepth' = VFrame.height + VFrame.results
  /\ vctrl' = SubSeq(vctrl, 1, Len(vctrl) - 1)
  /\ UNCHANGED varity

(* br, return, br_if and br_table; `operands' counts a condition or index. *)
VBranch(l, operands) ==
  /\ VAvailable >= VArity(l) + operands
  /\ vdepth' = vdepth - operands
  /\ varity' = VArity(l)
  /\ UNCHANGED vctrl

VBranchTarget(l) == VArity(l) = varity /\ UNCHANGED vvars
=============================================================================
