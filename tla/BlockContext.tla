---------------------------- MODULE BlockContext ----------------------------
(***************************************************************************)
(* BlockContext (parser-block.h, parser-block.cpp): the translation of the *)
(* body of one WebAssembly function to LLVM basic blocks.  The recursive   *)
(* functions visitBlock and visitControlInsts decode the operand stack     *)
(* into SSA values, one call of visitBlock for every structured block.     *)
(*                                                                         *)
(* This module is the code alone: what it does with whatever expression    *)
(* comes next.  Which expressions may come is the business of wabt's       *)
(* validator (WasmValidator); Lowering puts the two together.              *)
(*                                                                         *)
(* Abstractions.  Values have no type, and of an instruction only the      *)
(* block that holds it and the expression it comes from are kept.  A basic *)
(* block is a number, in order of creation; 0 is the null pointer.  All    *)
(* the PHI nodes of a block belong to one label, so the deque `phis' of a  *)
(* BreakoutTarget is the list phis[target].                                *)
(***************************************************************************)
EXTENDS Integers, Sequences, StackEffects

CONSTANT Results      \* the number of results of the function

(* convertFuncType aborts on more than one result before any body is read. *)
ASSUME ResultsAssumption == Results \in {0, 1}

VARIABLES
  preds,        \* block -> the source of every CFG edge into it, oldest first
  phis,         \* block -> its PHI nodes, each the list of its incoming pairs
  term,         \* block -> its terminator, "none" while it has none
  ins,          \* irBuilder.GetInsertBlock(); 0 after ClearInsertionPoint
  stack,        \* the values of the wasm operand stack
  blockStack,   \* the BreakoutTargets, innermost last
  frames,       \* the C++ recursion: one record per active visitBlock
  brt,          \* the block of the SwitchInst whose cases are being added
  status        \* "visit", "done", "abort" (std::abort) or "assert"

cfg == <<preds, phis, term>>
vars == <<preds, phis, term, ins, stack, blockStack, frames, brt, status>>

Labels == {"Func", "Block", "Loop", "If", "Else"}
Terminators == {"none", "br", "condbr", "switch", "unreachable", "ret"}

Blocks == 1 .. Len(term)

(* A value: what the n-th expression computes, in block b, or a PHI of b.   *)
Inst(b, n) == [blk |-> b, phi |-> 0, nth |-> n]
Phi(b, k) == [blk |-> b, phi |-> k, nth |-> 0]
Phis(b) == [k \in 1 .. Len(phis[b]) |-> Phi(b, k)]

Top(s) == s[Len(s)]
Drop1(s) == SubSeq(s, 1, Len(s) - 1)
DropLast(s, n) == SubSeq(s, 1, Len(s) - n)
LastN(s, n) == SubSeq(s, Len(s) - n + 1, Len(s))

Frame == Top(frames)
(* BreakoutTarget of the br to the l-th enclosing label, 0 the innermost.  *)
Target(l) == blockStack[Len(blockStack) - l]

-----------------------------------------------------------------------------
(* LLVM IR construction (IRBuilder, BasicBlock, PHINode).                  *)

(* n fresh PHI nodes.                                                      *)
EmptyPhis(n) == [k \in 1 .. n |-> << >>]

(* Mutant: the loop over the PHIs stops one short of rend().               *)
AddIncoming_SkipsFirst(ps, vals, from) ==
  [k \in 1 .. Len(ps) |-> IF k = 1 THEN ps[k]
                          ELSE Append(ps[k], [val |-> vals[k], from |-> from])]

(* Every PHI of the list gets an incoming pair: vals[k] from block `from'. *)
AddIncoming(ps, vals, from) ==
  [k \in 1 .. Len(ps) |-> Append(ps[k], [val |-> vals[k], from |-> from])]

(* Mutant: the iterator starts at the bottom of the stack.                 *)
BranchArgs_FromBottom(s, b) == SubSeq(s, 1, Len(phis[b]))

(* The arguments of a branch to b: one value per PHI, from the stack top.   *)
BranchArgs(s, b) == LastN(s, Len(phis[b]))

(* Mutant: the insertion point is cleared before the incoming pairs.       *)
PhisWith_AfterClear(b, s, via) ==
  [phis EXCEPT ![b] = AddIncoming(@, BranchArgs(s, b), 0)]

(* A branch from block `from' to b that passes the top of the stack s; the *)
(* incoming pairs name block `via'.                                        *)
PredsWith(b, from) == [preds EXCEPT ![b] = Append(@, from)]
PhisWith(b, s, via) == [phis EXCEPT ![b] = AddIncoming(@, BranchArgs(s, b), via)]
Terminated(b, t) == [term EXCEPT ![b] = t]

Abort == status' = "abort" /\ UNCHANGED <<preds, phis, term, ins, stack,
                                          blockStack, frames, brt>>
AssertFails == status' = "assert" /\ UNCHANGED <<preds, phis, term, ins, stack,
                                                 blockStack, frames, brt>>

(* popStack's assertion, and those of the same form in the callers.        *)
Requires(n, A) == IF Len(stack) < n THEN AssertFails ELSE A

(* visitControlInsts is at an expression, and the place is reachable.      *)
Visiting == status = "visit" /\ brt = 0
Reachable == Visiting /\ ins # 0

-----------------------------------------------------------------------------
(* visitFunc: the allocator and return blocks, then visitBlock(Func).      *)
Init ==
  /\ preds = << << >>, << >> >>
  /\ phis = << << >>, EmptyPhis(Results) >>
  /\ term = <<"none", "none">>
  /\ ins = 1
  /\ stack = << >>
  /\ blockStack = << [target |-> 2, pos |-> 0] >>
  /\ frames = << [lty |-> "Func", entry |-> 1, exit |-> 2, pos |-> 0,
                  results |-> Results, saved |-> << >>, else |-> 0] >>
  /\ brt = 0
  /\ status = "visit"

(* dispatchExprs: a plain expression of class e, the n-th of the body.      *)
Dispatch(e, n) ==
  /\ Reachable
  /\ IF e \notin DOMAIN dispatchExprs
     THEN Abort
     ELSE LET eff == dispatchExprs[e]
          IN  Requires(eff.need,
                /\ stack' = DropLast(stack, eff.pop)
                              \o [i \in 1 .. eff.push |-> Inst(ins, n)]
                /\ UNCHANGED <<preds, phis, term, ins, blockStack, frames,
                               brt, status>>)

(* The Unreachable case of dispatchExprs.                                  *)
VisitUnreachable ==
  /\ Reachable
  /\ term' = [term EXCEPT ![ins] = "unreachable"]
  /\ ins' = 0
  /\ UNCHANGED <<preds, phis, stack, blockStack, frames, brt, status>>

(* The loop head of visitControlInsts without an insertion point: the      *)
(* expression, with everything nested in it, is skipped.                   *)
SkipUnreachable ==
  /\ Visiting
  /\ ins = 0
  /\ UNCHANGED vars
-----------------------------------------------------------------------------
(* Calls of visitBlock.                                                    *)

(* Mutant: the assignment to entry is forgotten.                           *)
SetEntry_Forgotten(b) == frames

(* The local `entry' of the innermost visitControlInsts is set to b.       *)
SetEntry(b) == [frames EXCEPT ![Len(frames)].entry = b]

(* A nested visitBlock gets a frame; the caller's `entry' is now b.        *)
Call(b, f) == Append(SetEntry(b), f)
(* It returns, and the caller continues in block b.                        *)
ReturnTo(b) == [Drop1(frames) EXCEPT ![Len(frames) - 1].entry = b]

(* Mutants: the parameters are not, or one too many is, subtracted.        *)
PosUnder_IgnoresParams(s, np) == Len(s)
PosUnder_CountsCondition(s, np) == Len(s) - np - 1

(* stack_pos: the height of stack s under the parameters of a block.       *)
PosUnder(s, np) == Len(s) - np

EnterBlock(np, nr) ==
  LET exit == Len(term) + 1
      pos == PosUnder(stack, np)
  IN  /\ Reachable
      /\ preds' = Append(preds, << >>)
      /\ phis' = Append(phis, EmptyPhis(nr))
      /\ term' = Append(term, "none")
      /\ ins' = Frame.entry
      /\ blockStack' = Append(blockStack, [target |-> exit, pos |-> pos])
      /\ frames' = Call(Frame.entry,
                        [lty |-> "Block", entry |-> Frame.entry, exit |-> exit,
                         pos |-> pos, results |-> nr, saved |-> << >>,
                         else |-> 0])
      /\ UNCHANGED <<stack, brt, status>>

(* The PHIs of the parameters name the loop's own block as the source of   *)
(* the entering edge.                                                      *)
EnterLoop(np, nr) ==
  LET loop == Len(term) + 1
      pos == PosUnder(stack, np)
      args == LastN(stack, np)
  IN  /\ Reachable
      /\ Requires(np,
           /\ preds' = Append(preds, <<ins>>)
           /\ phis' = Append(phis, AddIncoming(EmptyPhis(np), args, loop))
           /\ term' = Append(Terminated(ins, "br"), "none")
           /\ ins' = loop
           /\ stack' = DropLast(stack, np) \o [k \in 1 .. np |-> Phi(loop, k)]
           /\ blockStack' = Append(blockStack, [target |-> loop, pos |-> pos])
           /\ frames' = Call(loop,
                             [lty |-> "Loop", entry |-> loop,
                              exit |-> Frame.exit, pos |-> pos,
                              results |-> nr, saved |-> << >>, else |-> 0])
           /\ UNCHANGED <<brt, status>>)

EnterIf(np, nr) ==
  LET then == Len(term) + 1
      else == Len(term) + 2
      exit == Len(term) + 3
      pos == PosUnder(Drop1(stack), np)
  IN  /\ Reachable
      /\ Requires(np + 1,
           /\ preds' = preds \o << <<ins>>, <<ins>>, << >> >>
           /\ phis' = phis \o << << >>, << >>, EmptyPhis(nr) >>
           /\ term' = Terminated(ins, "condbr") \o <<"none", "none", "none">>
           /\ ins' = then
           /\ stack' = Drop1(stack)
           /\ blockStack' = Append(blockStack, [target |-> exit, pos |-> pos])
           /\ frames' = Call(then,
                             [lty |-> "If", entry |-> then, exit |-> exit,
                              pos |-> pos, results |-> nr,
                              saved |-> LastN(Drop1(stack), np),
                              else |-> else])
           /\ UNCHANGED <<brt, status>>)

-----------------------------------------------------------------------------
(* The end of visitBlock.                                                  *)

(* Mutant: the height is checked at an unreachable end, too.               *)
LeaveAborts_Everywhere == Len(stack) # Frame.pos + Frame.results

(* A reachable end aborts on a wrong stack height; an unreachable one when *)
(* it cannot unwind (a wrapped pos is larger than any height).             *)
LeaveAborts ==
  IF ins # 0 THEN Len(stack) # Frame.pos + Frame.results
             ELSE Frame.pos < 0 \/ Len(stack) < Frame.pos

(* Mutant: blockStack.pop_back() without its condition.                    *)
ClosedLabels_Always == Drop1(blockStack)

(* The label is closed, except that an else arm inherits that of its if.   *)
ClosedLabels == IF Frame.lty = "If" THEN blockStack ELSE Drop1(blockStack)

(* Mutants: the fall-through branch is forgotten or goes to the entry, or  *)
(* its CreateBr is forgotten.                                              *)
JoinExit_Forgotten == UNCHANGED <<preds, phis>>
JoinExit_ToEntry ==
  IF ins # 0 THEN /\ preds' = PredsWith(Frame.entry, ins)
                  /\ phis' = PhisWith(Frame.exit, stack, ins)
             ELSE UNCHANGED <<preds, phis>>
TermAtJoin_NoBr == term

(* The fall-through branch to the exit block of a block-like label.        *)
JoinExit ==
  IF ins # 0 THEN /\ preds' = PredsWith(Frame.exit, ins)
                  /\ phis' = PhisWith(Frame.exit, stack, ins)
             ELSE UNCHANGED <<preds, phis>>
TermAtJoin == IF ins # 0 THEN Terminated(ins, "br") ELSE term

(* Mutants: the stack is not unwound, or by one value too many.            *)
Unwound_Never == IF ins # 0 THEN DropLast(stack, Len(phis[Frame.exit])) ELSE stack
Unwound_TooFar == IF ins # 0 THEN DropLast(stack, Len(phis[Frame.exit]))
                  ELSE SubSeq(stack, 1, Frame.pos - 1)

(* The operands below the results: the stack cut back to the block's pos.  *)
Unwound == IF ins # 0 THEN DropLast(stack, Len(phis[Frame.exit]))
                      ELSE SubSeq(stack, 1, Frame.pos)

(* Mutants: the values stay instead of the PHIs; an unreachable end pushes *)
(* no results.                                                             *)
StackAtJoin_KeepsValues == IF ins # 0 THEN stack ELSE Unwound \o Phis(Frame.exit)
StackAtJoin_NoResults == IF ins # 0 /\ Frame.lty # "If"
                         THEN Unwound \o Phis(Frame.exit) ELSE Unwound

(* The operand stack visitBlock leaves: results replaced by the PHIs of    *)
(* the exit.  A reachable end of a then arm pushes none, an unreachable    *)
(* one does.                                                               *)
StackAtJoin == IF ins # 0 /\ Frame.lty = "If"
               THEN Unwound ELSE Unwound \o Phis(Frame.exit)

(* End of a block, or of an else arm: continue in the exit block.          *)
EndBlock ==
  /\ Visiting
  /\ Frame.lty \in {"Block", "Else"}
  /\ IF LeaveAborts
     THEN Abort
     ELSE /\ JoinExit
          /\ term' = TermAtJoin
          /\ stack' = StackAtJoin
          /\ ins' = Frame.exit
          /\ blockStack' = ClosedLabels
          /\ frames' = ReturnTo(Frame.exit)
          /\ UNCHANGED <<brt, status>>

(* End of a then arm: the saved parameters are pushed again and visitBlock *)
(* is called for the else arm, which keeps the BreakoutTarget.             *)
EndThen ==
  /\ Visiting
  /\ Frame.lty = "If"
  /\ IF LeaveAborts
     THEN Abort
     ELSE /\ JoinExit
          /\ term' = TermAtJoin
          /\ stack' = StackAtJoin \o Frame.saved
          /\ ins' = Frame.else
          /\ frames' = Append(ReturnTo(Frame.else),
                              [Frame EXCEPT !.lty = "Else", !.entry = Frame.else,
                                            !.saved = << >>, !.else = 0])
          /\ blockStack' = ClosedLabels
          /\ UNCHANGED <<brt, status>>

(* End of a loop: the results stay on the stack, and an unreachable end    *)
(* leaves the rest of the enclosing block unreachable.  The last assertion *)
(* compares the height with the number of parameters, a loop's PHIs.       *)
EndLoop ==
  /\ Visiting
  /\ Frame.lty = "Loop"
  /\ IF ins # 0 /\ LeaveAborts
     THEN Abort
     ELSE IF ins # 0 /\ Len(stack) < Len(phis[Top(blockStack).target])
     THEN AssertFails
     ELSE /\ frames' = ReturnTo(ins)
          /\ blockStack' = ClosedLabels
          /\ UNCHANGED <<preds, phis, term, ins, stack, brt, status>>

(* End of the function body: visitFunc adds the return.                    *)
EndFunc ==
  /\ Visiting
  /\ Frame.lty = "Func"
  /\ IF LeaveAborts
     THEN Abort
     ELSE /\ JoinExit
          /\ term' = [TermAtJoin EXCEPT ![Frame.exit] = "ret"]
          /\ stack' = DropLast(StackAtJoin, Results)
          /\ ins' = Frame.exit
          /\ blockStack' = ClosedLabels
          /\ frames' = Drop1(frames)
          /\ status' = "done"
          /\ UNCHANGED brt

-----------------------------------------------------------------------------
(* Branches: visitBr and its callers.  l is a label depth.                 *)

Br(l) ==
  LET b == Target(l).target
  IN  /\ Reachable
      /\ Requires(Len(phis[b]),
           /\ preds' = PredsWith(b, ins)
           /\ phis' = PhisWith(b, stack, ins)
           /\ term' = Terminated(ins, "br")
           /\ ins' = 0
           /\ UNCHANGED <<stack, blockStack, frames, brt, status>>)

Return == Br(Len(blockStack) - 1)

BrIf(l) ==
  LET b == Target(l).target
      next == Len(term) + 1
  IN  /\ Reachable
      /\ Requires(1 + Len(phis[b]),
           /\ preds' = Append(PredsWith(b, ins), <<ins>>)
           /\ phis' = Append(PhisWith(b, Drop1(stack), ins), << >>)
           /\ term' = Append(Terminated(ins, "condbr"), "none")
           /\ ins' = next
           /\ stack' = Drop1(stack)
           /\ frames' = SetEntry(next)
           /\ UNCHANGED <<blockStack, brt, status>>)

(* visitBr for the default target of br_table; the loop over the other     *)
(* targets runs after it has cleared the insertion point.                  *)
BrTable(l) ==
  LET b == Target(l).target
  IN  /\ Reachable
      /\ Requires(1 + Len(phis[b]),
           /\ preds' = PredsWith(b, ins)
           /\ phis' = PhisWith(b, Drop1(stack), ins)
           /\ term' = Terminated(ins, "switch")
           /\ ins' = 0
           /\ stack' = Drop1(stack)
           /\ brt' = ins
           /\ UNCHANGED <<blockStack, frames, status>>)

(* One iteration: a case of the switch, with incoming pairs that name the  *)
(* (null) insertion block.                                                 *)
BrTableCase(l) ==
  LET b == Target(l).target
  IN  /\ status = "visit"
      /\ brt # 0
      /\ IF Len(stack) < Len(phis[b])
         THEN Abort
         ELSE /\ preds' = PredsWith(b, brt)
              /\ phis' = PhisWith(b, stack, ins)
              /\ UNCHANGED <<term, ins, stack, blockStack, frames, brt, status>>

BrTableEnd ==
  /\ status = "visit"
  /\ brt # 0
  /\ brt' = 0
  /\ UNCHANGED <<preds, phis, term, ins, stack, blockStack, frames, status>>
=============================================================================
