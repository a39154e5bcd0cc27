------------------------------ MODULE Lowering ------------------------------
(***************************************************************************)
(* The translation of every valid function body: wabt's validator and      *)
(* BlockContext read the same expressions.  The program is not a parameter *)
(* but is chosen on the way, one expression at a time, among those the     *)
(* validator accepts; a body has at most MaxExprs expressions, plus        *)
(* `unreachable', which is always at hand so that any prefix is a prefix   *)
(* of a complete valid body.                                               *)
(***************************************************************************)
EXTENDS BlockContext, WasmValidator, FiniteSets

CONSTANTS
  MaxExprs,     \* bound on the expressions of a body
  Exprs,        \* the classes of plain expressions it may use
  BlockSigs,    \* signatures <<parameters, results>> of its blocks
  LoopSigs,     \* of its loops
  IfSigs,       \* of its ifs
  Branches      \* which of "br", "br_if", "br_table", "return" it may use

ASSUME MaxExprsAssumption == MaxExprs \in Nat
ASSUME ExprsAssumption == Exprs \subseteq PlainExprs
ASSUME SigsAssumption ==
  /\ BlockSigs \subseteq Nat \X Nat
  /\ LoopSigs \subseteq Nat \X Nat
  /\ IfSigs \subseteq Nat \X Nat

VARIABLE exprs  \* the number of expressions read

lvars == <<vars, vvars, exprs>>

LInit == Init /\ VInit(Results) /\ exprs = 0

Read == exprs < MaxExprs /\ exprs' = exprs + 1

(* Code in an unreachable place is not looked at by either.                *)
PlainExpr(e) == Read /\ Dispatch(e, exprs + 1)
                /\ VPlain(wasmType[e].params, wasmType[e].results)
Unreachable == VisitUnreachable /\ UNCHANGED <<vvars, exprs>>
Skipped == Read /\ SkipUnreachable /\ UNCHANGED vvars

BlockExpr(sig) == Read /\ EnterBlock(sig[1], sig[2])
                  /\ VEnter("Block", sig[1], sig[2], 0)
LoopExpr(sig) == Read /\ EnterLoop(sig[1], sig[2])
                 /\ VEnter("Loop", sig[1], sig[2], 0)
IfExpr(sig) == Read /\ EnterIf(sig[1], sig[2])
               /\ VEnter("If", sig[1], sig[2], 1)

ThenEnds == EndThen /\ VElse(ins # 0) /\ UNCHANGED exprs
BlockEnds == EndBlock /\ VEnd(ins # 0) /\ UNCHANGED exprs
LoopEnds == EndLoop /\ VEnd(ins # 0) /\ UNCHANGED exprs
FuncEnds == EndFunc /\ VEnd(ins # 0) /\ UNCHANGED exprs

BrExpr(l) == "br" \in Branches /\ Read /\ Br(l) /\ VBranch(l, 0)
ReturnExpr == "return" \in Branches /\ Read /\ Return
              /\ VBranch(Len(vctrl) - 1, 0)
BrIfExpr(l) == "br_if" \in Branches /\ Read /\ BrIf(l) /\ VBranch(l, 1)
BrTableExpr(l) == "br_table" \in Branches /\ Read /\ BrTable(l) /\ VBranch(l, 1)
BrTableTarget(l) == Read /\ BrTableCase(l) /\ VBranchTarget(l)
BrTableDone == BrTableEnd /\ UNCHANGED <<vvars, exprs>>

LNext ==
  \/ \E e \in Exprs : PlainExpr(e)
  \/ Unreachable
  \/ Skipped
  \/ \E sig \in BlockSigs : BlockExpr(sig)
  \/ \E sig \in LoopSigs : LoopExpr(sig)
  \/ \E sig \in IfSigs : IfExpr(sig)
  \/ ThenEnds
  \/ BlockEnds
  \/ LoopEnds
  \/ FuncEnds
  \/ \E l \in VDepths : BrExpr(l) \/ BrIfExpr(l) \/ BrTableExpr(l)
                          \/ BrTableTarget(l)
  \/ ReturnExpr
  \/ BrTableDone

(* The translation is over: it returned, or the process was aborted.       *)
Stopped == status # "visit" /\ UNCHANGED lvars

Spec == LInit /\ [][LNext \/ Stopped]_lvars
(* visitFunc is one call in one thread: it runs until it returns.          *)
FairSpec == Spec /\ WF_lvars(LNext)
-----------------------------------------------------------------------------
(* Types.                                                                  *)

Value == [blk : Nat, phi : Nat, nth : Nat]
Incoming == [val : Value, from : Nat]
FrameType == [lty : Labels, entry : Nat, exit : Nat, pos : Nat, results : Nat,
              saved : Seq(Value), else : Nat]

(* The type invariant: every variable of the translator has its type.      *)
TypeOK ==
  /\ preds \in Seq(Seq(Nat))
  /\ phis \in Seq(Seq(Seq(Incoming)))
  /\ term \in Seq(Terminators)
  /\ Len(preds) = Len(term)
  /\ Len(phis) = Len(term)
  /\ ins \in Nat
  /\ stack \in Seq(Value)
  /\ blockStack \in Seq([target : Nat, pos : Nat])
  /\ frames \in Seq(FrameType)
  /\ brt \in Nat
  /\ status \in {"visit", "done", "abort", "assert"}
  /\ exprs \in Nat

-----------------------------------------------------------------------------
(* Control flow.                                                           *)

(* The blocks a later step of the translation still has to fill.           *)
Pending ==
  ({ins} \cup { frames[i].exit : i \in { j \in DOMAIN frames :
                                            frames[j].lty # "Loop" } }
        \cup { frames[i].else : i \in { j \in DOMAIN frames :
                                            frames[j].lty = "If" } }) \ {0}

(* The blocks without a terminator are exactly those the translation will  *)
(* come back to: IRBuilder never appends behind a terminator, and nothing  *)
(* is left open when visitFunc returns.                                    *)
OpenBlocks ==
  /\ status = "visit" => { b \in Blocks : term[b] = "none" } = Pending
  /\ status = "done" => \A b \in Blocks : term[b] # "none"

(* The number of edges out of a block is what its terminator has: one for  *)
(* br, two for a conditional br, none for unreachable, ret or no           *)
(* terminator; a switch has one edge at least.                             *)
EdgesFrom(b) == { e \in UNION { {c} \X DOMAIN preds[c] : c \in Blocks } :
                    preds[e[1]][e[2]] = b }
EdgesMatchTerminators ==
  \A b \in Blocks :
    LET n == Cardinality(EdgesFrom(b))
    IN  CASE term[b] = "br" -> n = 1
          [] term[b] = "condbr" -> n = 2
          [] term[b] = "switch" -> n >= 1
          [] OTHER -> n = 0

(* visitControlInsts keeps its local `entry' at the insertion point: the   *)
(* next block-like visitBlock sets the insertion point back to it.         *)
EntryTracksInsert == Reachable => Frame.entry = ins

-----------------------------------------------------------------------------
(* SSA form.                                                               *)

(* Every PHI has one incoming pair per edge into its block.                *)
PhiArity ==
  \A b \in Blocks : \A k \in DOMAIN phis[b] : Len(phis[b][k]) = Len(preds[b])

(* ... and the pair names the block the edge comes from.                   *)
PhiFromPreds ==
  \A b \in Blocks : \A k \in DOMAIN phis[b] : \A i \in DOMAIN phis[b][k] :
    /\ i \in DOMAIN preds[b]
    /\ phis[b][k][i].from = preds[b][i]

(* The blocks reached from the entry on a path that avoids block d.        *)
ReachAvoiding(d) ==
  LET upto[n \in 0 .. Len(term)] ==
        IF n = 0 THEN {1} \ {d}
        ELSE LET before == upto[n - 1]
             IN  before \cup { b \in Blocks \ {d} :
                               \E i \in DOMAIN preds[b] : preds[b][i] \in before }
  IN  upto[Len(term)]
(* A block that is not reached is dominated by every block, as in LLVM.    *)
Dominates(d, b) == d = b \/ b \notin ReachAvoiding(d)

(* The operands the program may use at this point are defined on every     *)
(* path to it.                                                             *)
OperandsDominate ==
  Reachable => \A i \in Len(stack) - VAvailable + 1 .. Len(stack) :
                 Dominates(stack[i].blk, ins)

(* The value a PHI takes along an edge is defined on every path to the     *)
(* source of the edge.                                                     *)
PhiOperandsDominate ==
  \A b \in Blocks : \A k \in DOMAIN phis[b] :
    \A i \in DOMAIN phis[b][k] \cap DOMAIN preds[b] :
      Dominates(phis[b][k][i].val.blk, preds[b][i])

-----------------------------------------------------------------------------
(* The operand stack and the labels.                                       *)

(* A branch depth means the same label to the translator and the           *)
(* validator: as many labels are open, and each takes as many values.      *)
LabelsAgree ==
  status = "visit" =>
    /\ Len(blockStack) = Len(vctrl)
    /\ \A i \in DOMAIN vctrl :
         Len(phis[blockStack[i].target]) = vctrl[i].arity

(* Above the operands of the enclosing blocks lie at least the operands    *)
(* the validator counts: no handler runs out of values.                    *)
NeverShort ==
  Reachable => Len(stack) - Frame.pos >= VAvailable

(* The two heights are the same, and so are the heights under each block:   *)
(* every handler pushes what its type says, and every end of an arm, also   *)
(* an unreachable one, unwinds the stack to where the arm started.          *)
StackAgrees ==
  /\ Reachable => Len(stack) = vdepth
  /\ status = "visit" => \A i \in DOMAIN vctrl :
                           frames[i].pos = vctrl[i].height

(* A valid body is never refused.                                          *)
NeverFails == status \notin {"abort", "assert"}

(* The only valid bodies that are refused: at the reachable end of an else *)
(* arm that found the results of its then arm already on the stack, and at *)
(* the reachable end of a loop that is left with fewer values on the stack *)
(* than it has parameters.                                                 *)
FailsOnlyAtKnownEnds ==
  /\ status = "abort" =>
       /\ Frame.lty = "Else"
       /\ Frame.results > 0
       /\ ins # 0
       /\ Len(stack) = Frame.pos + 2 * Frame.results
  /\ status = "assert" =>
       /\ Frame.lty = "Loop"
       /\ ins # 0
       /\ Len(stack) < Len(phis[Top(blockStack).target])

(* No assertion of the code fails on a valid body.                         *)
AssertionsHold == status # "assert"

(* No step inside a block changes the operands under it.                   *)
BaseUntouched ==
  [][\A i \in DOMAIN frames \cap DOMAIN frames' :
       /\ frames[i].pos <= Len(stack')
       /\ \A j \in 1 .. frames[i].pos : stack'[j] = stack[j]]_lvars

(* Every valid body is translated: visitFunc returns, having neither been  *)
(* refused on the way nor come to a place from which it cannot go on.      *)
Translated == <>(status = "done")
=============================================================================
