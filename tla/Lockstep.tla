------------------------------ MODULE Lockstep ------------------------------
(***************************************************************************)
(* The translation preserves behaviour: a WebAssembly interpreter runs the *)
(* body that was translated, an LLVM interpreter the blocks it became, and *)
(* the two go through the same events.                                     *)
(*                                                                         *)
(* While BlockContext translates, four histories record the body (prog)    *)
(* and the part of the IR that the control flow graph does not hold: the   *)
(* instructions with their operands (instrs) and the conditions with their *)
(* ordered successors (sel).  Once visitFunc has returned both are run, on *)
(* every choice of the conditions.                                         *)
(*                                                                         *)
(* A run-time value is the number of the expression that computed it, 0    *)
(* being the initial value of the one local; what one expression computes  *)
(* in two iterations is not told apart.  Constants and locals are          *)
(* silent.  Any other operation is an event that shows its operands, so it *)
(* may return an uninterpreted value: its own number.  A condition shows   *)
(* its value and offers its outcomes, and each entry of a loop is an event *)
(* (its header), so that neither side can run forever without one.         *)
(***************************************************************************)
EXTENDS Lowering

(* memory.size and memory.grow are dummies that leave a constant.          *)
ASSUME LockstepAssumption == Exprs \cap {"memory_size", "memory_grow"} = {}

VARIABLES
  prog,     \* the body, token by token; what is unreachable is left out
  open,     \* the positions in prog of the structured tokens not yet closed
  instrs,   \* the instructions, in the order they were emitted
  sel,      \* the conditional branches and switches
  wasm,     \* the WebAssembly machine
  ir        \* the LLVM machine

history == <<prog, open, instrs, sel>>
lkvars == <<lvars, history, wasm, ir>>

Silent == {"const", "local_get", "local_set", "local_tee"}
Emitted == PlainExprs \ {"nop", "drop"}

-----------------------------------------------------------------------------
(* The histories.                                                          *)

(* Mutant: the operands in the order they are popped.                      *)
Operands_Reversed(n) == [i \in 1 .. n |-> stack[Len(stack) - i + 1]]

(* The n operands of an instruction, the last of them on top of the stack. *)
Operands(n) == LastN(stack, n)

Instr(b, op, n, args) == [blk |-> b, op |-> op, n |-> n, args |-> args]
Branch(n, cond, targets) == [blk |-> ins, n |-> n, cond |-> cond,
                             targets |-> targets]

(* Mutants: the successors of an if, or of a br_if, are swapped.           *)
IfTargets_Swapped(then, else) == <<else, then>>
BrIfTargets_Swapped(target, next) == <<next, target>>

(* The successors of the conditional branches, the one for TRUE first.     *)
IfTargets(then, else) == <<then, else>>
BrIfTargets(target, next) == <<target, next>>

Token(t) == prog' = Append(prog, t)
Opens(kind, sig) ==
  /\ Token([op |-> kind, n |-> exprs + 1, np |-> sig[1], nr |-> sig[2],
            else |-> 0, end |-> 0])
  /\ open' = Append(open, Len(prog) + 1)
(* An end or an else is written, and the token it belongs to told where.   *)
Closes ==
  LET o == Top(open)
      e == Len(prog) + 1
  IN  /\ prog' = Append([i \in DOMAIN prog |->
                           IF i \in {o, prog[o].else}
                           THEN [prog[i] EXCEPT !.end = e] ELSE prog[i]],
                        [op |-> "End"])
      /\ open' = Drop1(open)
Alternates ==
  /\ prog' = Append([prog EXCEPT ![Top(open)].else = Len(prog) + 1],
                    [op |-> "Else", end |-> 0])
  /\ UNCHANGED open

Resting == UNCHANGED <<wasm, ir>>

LkPlain(e) ==
  /\ PlainExpr(e)
  /\ Token([op |-> e, n |-> exprs + 1])
  /\ instrs' = IF e \in Emitted
               THEN Append(instrs, Instr(ins, e, exprs + 1,
                                         Operands(dispatchExprs[e].need)))
               ELSE instrs
  /\ UNCHANGED <<open, sel>> /\ Resting

LkUnreachable == Unreachable /\ Token([op |-> "unreachable"])
                 /\ UNCHANGED <<open, instrs, sel>> /\ Resting
LkSkipped == Skipped /\ UNCHANGED history /\ Resting

LkBlock(sig) == BlockExpr(sig) /\ Opens("Block", sig)
                /\ UNCHANGED <<instrs, sel>> /\ Resting
LkLoop(sig) == LoopExpr(sig) /\ Opens("Loop", sig)
               /\ instrs' = Append(instrs, Instr(Len(term) + 1, "Loop",
                                                 exprs + 1, << >>))
               /\ UNCHANGED sel /\ Resting
LkIf(sig) == IfExpr(sig) /\ Opens("If", sig)
             /\ sel' = Append(sel, Branch(exprs + 1, Top(stack),
                                IfTargets(Len(term) + 1, Len(term) + 2)))
             /\ UNCHANGED instrs /\ Resting

LkElse == ThenEnds /\ Alternates /\ UNCHANGED <<instrs, sel>> /\ Resting
LkEnd == (BlockEnds \/ LoopEnds) /\ Closes /\ UNCHANGED <<instrs, sel>>
         /\ Resting

LkBr(l) == BrExpr(l) /\ Token([op |-> "br", l |-> l])
           /\ UNCHANGED <<open, instrs, sel>> /\ Resting
LkReturn == ReturnExpr /\ Token([op |-> "br", l |-> Len(vctrl) - 1])
            /\ UNCHANGED <<open, instrs, sel>> /\ Resting
LkBrIf(l) == BrIfExpr(l) /\ Token([op |-> "br_if", n |-> exprs + 1, l |-> l])
             /\ sel' = Append(sel, Branch(exprs + 1, Top(stack),
                                BrIfTargets(Target(l).target, Len(term) + 1)))
             /\ UNCHANGED <<open, instrs>> /\ Resting

(* The default target comes first, then the cases in their order.          *)
LkBrTable(l) == BrTableExpr(l)
                /\ Token([op |-> "br_table", n |-> exprs + 1, ls |-> <<l>>])
                /\ sel' = Append(sel, Branch(exprs + 1, Top(stack),
                                             <<Target(l).target>>))
                /\ UNCHANGED <<open, instrs>> /\ Resting

(* Mutant: the case goes to the label next to the one it names.            *)
CaseTarget_OffByOne(l) == IF l = 0 THEN Target(l).target ELSE Target(l - 1).target

(* The block the case of a br_table to label l branches to.                *)
CaseTarget(l) == Target(l).target
LkBrTableTarget(l) ==
  /\ BrTableTarget(l)
  /\ prog' = [prog EXCEPT ![Len(prog)].ls = Append(@, l)]
  /\ sel' = [sel EXCEPT ![Len(sel)].targets = Append(@, CaseTarget(l))]
  /\ UNCHANGED <<open, instrs>> /\ Resting
LkBrTableDone == BrTableDone /\ UNCHANGED history /\ Resting
-----------------------------------------------------------------------------
(* The WebAssembly machine: an operand stack and a stack of labels.        *)

WInit == [pc |-> 1, st |-> << >>, lab |-> << >>, loc |-> 0]

WOver == wasm.pc > Len(prog)
WTok == prog[wasm.pc]

(* Where a branch to a label goes, what it takes and what is kept under it. *)
WLabel(pc, s) ==
  LET t == prog[pc]
      height == Len(s) - t.np
  IN  IF t.op = "Loop" THEN [cont |-> pc, arity |-> t.np, height |-> height]
      ELSE [cont |-> t.end + 1, arity |-> t.nr, height |-> height]

(* A branch to label l with operand stack s; the outermost is the function. *)
WBranch(l, s) ==
  IF l = Len(wasm.lab)
  THEN [wasm EXCEPT !.pc = Len(prog) + 1, !.st = LastN(s, Results), !.lab = << >>]
  ELSE LET lb == wasm.lab[Len(wasm.lab) - l]
       IN  [wasm EXCEPT !.pc = lb.cont,
                        !.st = SubSeq(s, 1, lb.height) \o LastN(s, lb.arity),
                        !.lab = DropLast(@, l + 1)]

(* What the machine is about to show, and the outcomes it can go on with.  *)
WEvent ==
  IF WOver THEN [op |-> "return", n |-> 0, vals |-> LastN(wasm.st, Results),
                 ways |-> 0]
  ELSE LET t == WTok
       IN  CASE t.op = "Loop" -> [op |-> "Loop", n |-> t.n, vals |-> << >>,
                                  ways |-> 1]
             [] t.op = "unreachable" -> [op |-> "trap", n |-> 0, vals |-> << >>,
                                         ways |-> 0]
             [] t.op \in {"If", "br_if"} ->
                  [op |-> "choose", n |-> t.n, vals |-> <<Top(wasm.st)>>,
                   ways |-> 2]
             [] t.op = "br_table" ->
                  [op |-> "choose", n |-> t.n, vals |-> <<Top(wasm.st)>>,
                   ways |-> Len(t.ls)]
             [] OTHER -> [op |-> t.op, n |-> t.n, ways |-> 1,
                          vals |-> LastN(wasm.st, wasmType[t.op].params)]

WSilentOps == Silent \cup {"nop", "drop", "Block", "Else", "End", "br"}
WAtEvent == IF WOver THEN TRUE ELSE WTok.op \notin WSilentOps

WSilentStep ==
  LET t == WTok
      s == wasm.st
      next == [wasm EXCEPT !.pc = @ + 1]
  IN  CASE t.op = "const" -> [next EXCEPT !.st = Append(s, t.n)]
        [] t.op = "local_get" -> [next EXCEPT !.st = Append(s, wasm.loc)]
        [] t.op = "local_set" -> [next EXCEPT !.st = Drop1(s), !.loc = Top(s)]
        [] t.op = "local_tee" -> [next EXCEPT !.loc = Top(s)]
        [] t.op = "drop" -> [next EXCEPT !.st = Drop1(s)]
        [] t.op = "Block" -> [next EXCEPT !.lab = Append(@, WLabel(wasm.pc, s))]
        [] t.op = "Else" -> [next EXCEPT !.pc = t.end]
        [] t.op = "End" -> [next EXCEPT !.lab = Drop1(@)]
        [] t.op = "br" -> WBranch(t.l, s)
        [] OTHER -> next

(* The machine after its event, with outcome c of those it offered.        *)
WEventStep(c) ==
  LET t == WTok
      s == wasm.st
      next == [wasm EXCEPT !.pc = @ + 1]
  IN  CASE t.op = "Loop" -> [next EXCEPT !.lab = Append(@, WLabel(wasm.pc, s))]
        [] t.op = "If" ->
             [wasm EXCEPT !.pc = IF c = 1 THEN @ + 1 ELSE t.else + 1,
                          !.st = Drop1(s),
                          !.lab = Append(@, WLabel(wasm.pc, Drop1(s)))]
        [] t.op = "br_if" -> IF c = 1 THEN WBranch(t.l, Drop1(s))
                             ELSE [next EXCEPT !.st = Drop1(s)]
        [] t.op = "br_table" -> WBranch(t.ls[c], Drop1(s))
        [] OTHER -> LET ty == wasmType[t.op]
                    IN  [next EXCEPT !.st = DropLast(s, ty.params)
                                      \o [i \in 1 .. ty.results |-> t.n]]

-----------------------------------------------------------------------------
(* The LLVM machine: a place in a block and the values computed so far.    *)

Undefined == -1
RInit == [blk |-> 1, pos |-> 1, env |-> << >>, loc |-> 0]

CodeOf(b) == SelectSeq(instrs, LAMBDA x : x.blk = b)
RCode == CodeOf(ir.blk)
RAtTerm == ir.pos > Len(RCode)
RInstr == RCode[ir.pos]
RTerm == term[ir.blk]
RSel == sel[CHOOSE i \in DOMAIN sel : sel[i].blk = ir.blk]

RVal(v) == IF v \in DOMAIN ir.env THEN ir.env[v] ELSE Undefined
RVals(vs) == [i \in DOMAIN vs |-> RVal(vs[i])]
RBind(v, x) == [u \in DOMAIN ir.env \cup {v} |-> IF u = v THEN x ELSE ir.env[u]]

(* visitFunc returns what the stack holds at the end: the PHI of the exit. *)
RetOperands == Phis(2)

REvent ==
  IF ~ RAtTerm
  THEN [op |-> RInstr.op, n |-> RInstr.n, vals |-> RVals(RInstr.args),
        ways |-> 1]
  ELSE CASE RTerm = "ret" -> [op |-> "return", n |-> 0,
                              vals |-> RVals(RetOperands), ways |-> 0]
         [] RTerm = "unreachable" -> [op |-> "trap", n |-> 0, vals |-> << >>,
                                      ways |-> 0]
         [] OTHER -> [op |-> "choose", n |-> RSel.n, vals |-> <<RVal(RSel.cond)>>,
                      ways |-> Len(RSel.targets)]

RAtEvent == IF RAtTerm THEN RTerm # "br" ELSE RInstr.op \notin Silent

(* Along an edge the PHIs of the block take, together, the values of their *)
(* incoming pairs for the block the edge comes from.                       *)
PhiValue(b, k) ==
  LET from == { i \in DOMAIN phis[b][k] : phis[b][k][i].from = ir.blk }
  IN  IF from = {} THEN Undefined
      ELSE RVal(phis[b][k][CHOOSE i \in from : TRUE].val)
RGoto(b) ==
  [ir EXCEPT !.blk = b, !.pos = 1,
             !.env = [v \in DOMAIN @ \cup { Phi(b, k) : k \in DOMAIN phis[b] } |->
                        IF v.blk = b /\ v.phi # 0 THEN PhiValue(b, v.phi)
                        ELSE @[v]]]

RSilentStep ==
  IF RAtTerm
  THEN RGoto(CHOOSE b \in Blocks : \E i \in DOMAIN preds[b] : preds[b][i] = ir.blk)
  ELSE LET next == [ir EXCEPT !.pos = @ + 1]
           v == Inst(ir.blk, RInstr.n)
           args == RVals(RInstr.args)
       IN  CASE RInstr.op = "const" -> [next EXCEPT !.env = RBind(v, RInstr.n)]
             [] RInstr.op = "local_get" -> [next EXCEPT !.env = RBind(v, ir.loc)]
             [] OTHER -> [next EXCEPT !.loc = args[1]]

REventStep(c) ==
  IF RAtTerm THEN RGoto(RSel.targets[c])
  ELSE [ir EXCEPT !.pos = @ + 1,
                  !.env = RBind(Inst(ir.blk, RInstr.n), RInstr.n)]

-----------------------------------------------------------------------------
(* The two machines together: silent steps first, then the event of both.  *)

LkFunc == FuncEnds /\ UNCHANGED history
          /\ wasm' = WInit /\ ir' = RInit

Running == status = "done"
WSilent == Running /\ ~ WAtEvent /\ wasm' = WSilentStep
           /\ UNCHANGED <<lvars, history, ir>>
RSilent == Running /\ WAtEvent /\ ~ RAtEvent /\ ir' = RSilentStep
           /\ UNCHANGED <<lvars, history, wasm>>
AtEvents == Running /\ WAtEvent /\ RAtEvent
Event(c) == AtEvents /\ c <= WEvent.ways
            /\ wasm' = WEventStep(c) /\ ir' = REventStep(c)
            /\ UNCHANGED <<lvars, history>>
(* Both have returned or trapped, or the translation was refused.          *)
LkOver ==
  /\ \/ status \in {"abort", "assert"}
     \/ AtEvents /\ WEvent.ways = 0
  /\ UNCHANGED lkvars

LkInit == LInit /\ prog = << >> /\ open = << >> /\ instrs = << >>
          /\ sel = << >> /\ wasm = WInit /\ ir = RInit

Ways == 1 .. MaxExprs + 1
LkNext ==
  \/ \E e \in Exprs : LkPlain(e)
  \/ LkUnreachable
  \/ LkSkipped
  \/ \E sig \in BlockSigs : LkBlock(sig)
  \/ \E sig \in LoopSigs : LkLoop(sig)
  \/ \E sig \in IfSigs : LkIf(sig)
  \/ LkElse
  \/ LkEnd
  \/ \E l \in VDepths : LkBr(l) \/ LkBrIf(l) \/ LkBrTable(l) \/ LkBrTableTarget(l)
  \/ LkReturn
  \/ LkBrTableDone
  \/ LkFunc
  \/ WSilent
  \/ RSilent
  \/ \E c \in Ways : Event(c)

LkSpec == LkInit /\ [][LkNext \/ LkOver]_lkvars
(* The machines are programs that run; a program runs until it ends.       *)
LkFairSpec == LkSpec /\ WF_lkvars(LkNext)

-----------------------------------------------------------------------------
(* Properties.                                                             *)

(* The translated function does what the body does: whenever the two       *)
(* machines have come to an event it is the same operation of the same     *)
(* expression, on the same operands, with the same outcomes.               *)
SameEvents == AtEvents => WEvent = REvent

(* ... and they always come to one: the IR never runs in a circle, or past *)
(* the place the body stops at, without showing anything.                  *)
EventsMeet == Running ~> AtEvents
=============================================================================
