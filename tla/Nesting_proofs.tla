--------------------------- MODULE Nesting_proofs ---------------------------
(***************************************************************************)
(* Proofs about what a step of Lowering does to the nesting of visitBlock: *)
(* that it leaves the operands of the enclosing blocks alone, and that the *)
(* two known ends of a block are the only places where a valid body is     *)
(* refused, for every signature set and every length of the body.          *)
(*                                                                         *)
(* Every action has one of seven shapes (StepShapes), which say all that   *)
(* these properties need; each property is then a matter of seven cases.   *)
(***************************************************************************)
EXTENDS Lowering_proofs

-----------------------------------------------------------------------------
(* The shapes of a step.                                                   *)

(* The n lowest operands stay where they are.                              *)
KeepsBelow(n) == /\ n <= Len(stack')
                 /\ \A j \in 1 .. n : stack'[j] = stack[j]

(* The n outermost calls of visitBlock stay as they are.                   *)
KeepsFrames(n) == \A i \in 1 .. n : /\ SameFrame(frames[i], frames'[i])
                                    /\ vctrl'[i] = vctrl[i]

(* Nothing but the count of the expressions changes.                       *)
Idles == UNCHANGED <<frames, vctrl, stack, blockStack, phis, ins, vdepth,
                     status, brt>>

(* The translator refuses the body, at the reachable end of a block where  *)
(* the validator finds the results and nothing else.                       *)
Refuses ==
  /\ status = "visit"
  /\ Reachable
  /\ VAvailable = VFrame.results
  /\ UNCHANGED <<frames, stack, blockStack, phis, ins>>
  /\ \/ /\ status' = "abort"
        /\ Len(stack) # Frame.pos + Frame.results
     \/ /\ status' = "assert"
        /\ Frame.lty = "Loop"
        /\ Len(stack) < Len(phis[Top(blockStack).target])

(* A step inside the innermost block: both stacks change by as much.       *)
Stays ==
  /\ status = "visit" /\ status' = "visit"
  /\ Len(frames') = Len(frames) /\ Len(vctrl') = Len(vctrl)
  /\ KeepsFrames(Len(frames))
  /\ KeepsBelow(Frame.pos)
  /\ Reachable' => /\ Reachable
                   /\ Len(stack') - VAvailable' = Len(stack) - VAvailable

(* A block is entered.                                                     *)
Opens ==
  LET n == Len(frames)
  IN  /\ status = "visit" /\ status' = "visit"
      /\ Reachable
      /\ Len(frames') = n + 1 /\ Len(vctrl') = n + 1
      /\ KeepsFrames(n)
      /\ frames'[n + 1].lty \in {"Block", "Loop", "If"}
      /\ frames'[n + 1].lty = "If" =>
           \E sig \in IfSigs : frames'[n + 1].results = sig[2]
      /\ frames'[n + 1].lty = "Loop" =>
           \E sig \in LoopSigs : vctrl'[n + 1].arity = sig[1]
      /\ frames'[n + 1].pos >= Frame.pos
      /\ frames'[n + 1].pos - vctrl'[n + 1].height = Len(stack) - vdepth
      /\ KeepsBelow(frames'[n + 1].pos)
      /\ Reachable' => Len(stack') - frames'[n + 1].pos = VAvailable'

(* A block is left: both find its results above its position.              *)
Closes ==
  LET n == Len(frames)
  IN  /\ status = "visit" /\ status' = "visit"
      /\ n > 1
      /\ Len(frames') = n - 1 /\ Len(vctrl') = n - 1
      /\ KeepsFrames(n - 1)
      /\ KeepsBelow(Frame.pos)
      /\ vdepth' = VFrame.height + VFrame.results
      /\ Reachable' => Len(stack') = Frame.pos + Frame.results

(* The then arm is left for the else arm.  Its unreachable end leaves the  *)
(* results of the if behind.                                               *)
Turns ==
  LET n == Len(frames)
  IN  /\ status = "visit" /\ status' = "visit"
      /\ Frame.lty = "If"
      /\ Len(frames') = n /\ Len(vctrl') = n
      /\ KeepsFrames(n - 1)
      /\ frames'[n].lty = "Else"
      /\ frames'[n].pos = Frame.pos
      /\ frames'[n].results = Frame.results
      /\ vctrl'[n].height = VFrame.height
      /\ vctrl'[n].arity = VFrame.arity
      /\ KeepsBelow(Frame.pos)
      /\ Len(stack') - Frame.pos - VAvailable' \in {0, Frame.results}

(* visitFunc returns.                                                      *)
Returns == status = "visit" /\ status' = "done" /\ Len(frames') = 0

(* One of the seven.                                                       *)
Shape == Idles \/ Refuses \/ Stays \/ Opens \/ Closes \/ Turns \/ Returns

-----------------------------------------------------------------------------
(* Steps inside a block.                                                   *)

(* What is left of the operands when a step takes n of the available ones. *)
LEMMA Takes ==
  ASSUME IInv, Reachable, NEW n \in Nat, n <= VAvailable
  PROVE  /\ Len(stack) \in Nat
         /\ n <= Len(stack)
         /\ Frame.pos \in Nat
         /\ Frame.pos <= Len(stack) - n
         /\ VAvailable \in Nat
BY ReachableFacts

(* The frames, the labels and the control stack, level with level.         *)
LEMMA FramesAndControl ==
  ASSUME IInv, status = "visit"
  PROVE  /\ Len(frames) \in Nat \ {0}
         /\ Len(vctrl) = Len(frames)
         /\ Len(blockStack) = Len(frames)
         /\ Frame = frames[Len(frames)]
         /\ VFrame = vctrl[Len(frames)]
         /\ Frame.results \in Nat
         /\ Frame.pos \in Nat
         /\ VFrame.results = Frame.results
         /\ VFrame.height \in Nat
         /\ vdepth \in Nat
         /\ VAvailable = vdepth - VFrame.height
BY FrameFacts, VFrameFacts DEF FrameOK, VFrame

(* A concatenation keeps what the first part keeps.                        *)
LEMMA KeptPrefix ==
  ASSUME NEW s \in Seq(Value), NEW t \in Seq(Value), NEW k \in Nat,
         NEW n \in Nat, k + n <= Len(s)
  PROVE  /\ Len(DropLast(s, n) \o t) = Len(s) - n + Len(t)
         /\ k <= Len(DropLast(s, n) \o t)
         /\ \A j \in 1 .. k : (DropLast(s, n) \o t)[j] = s[j]
<1> DEFINE d == DropLast(s, n)
<1>1. /\ Len(s) \in Nat
      /\ Len(t) \in Nat
      /\ n <= Len(s)
  OBVIOUS
<1>2. /\ d \in Seq(Value)
      /\ Len(d) = Len(s) - n
      /\ \A i \in 1 .. Len(s) - n : d[i] = s[i]
  BY <1>1, DropLastFacts
<1> HIDE DEF d
<1>3. /\ Len(d \o t) = Len(d) + Len(t)
      /\ \A i \in 1 .. Len(d) + Len(t) :
           (d \o t)[i] = IF i <= Len(d) THEN d[i] ELSE t[i - Len(d)]
  BY <1>2, ConcatProperties, ZenonT(30)
<1>4. \A i \in 1 .. Len(d) : (d \o t)[i] = d[i]
  BY <1>1, <1>2, <1>3
<1> QED
  BY <1>1, <1>2, <1>3, <1>4, SMTT(30) DEF d

(* A plain expression.                                                     *)
LEMMA PlainShape ==
  ASSUME IInv, NEW e \in Supported, PlainExpr(e)
  PROVE  Stays
<1> DEFINE eff == dispatchExprs[e]
           np == wasmType[e].params
           nr == wasmType[e].results
<1>1. /\ e \in DOMAIN dispatchExprs
      /\ eff.need \in Nat
      /\ eff.pop \in Nat
      /\ eff.push \in Nat
      /\ eff.pop <= eff.need
      /\ np \in Nat
      /\ nr \in Nat
      /\ eff.need = np
      /\ eff.push - eff.pop = nr - np
  BY SupportedKeepStep, EffectFacts
<1>2. /\ status = "visit"
      /\ Reachable
      /\ ins \in Nat
      /\ stack \in Seq(Value)
      /\ exprs + 1 \in Nat
  BY DEF PlainExpr, Read, Dispatch, Reachable, Visiting, IInv, TypeOK
<1>3. /\ VPlain(np, nr)
      /\ Dispatch(e, exprs + 1)
  BY DEF PlainExpr
<1> DEFINE pop == eff.pop
           push == eff.push
<1> HIDE DEF eff, np, nr
<1>4. /\ UNCHANGED vctrl
      /\ VAvailable >= np
      /\ VAvailable' = VAvailable - np + nr
  BY <1>1, <1>2, <1>3, VPlainFacts
<1>5. /\ Len(stack) \in Nat
      /\ np <= Len(stack)
      /\ Frame.pos \in Nat
      /\ Frame.pos <= Len(stack) - np
      /\ VAvailable \in Nat
  BY <1>1, <1>2, <1>4, Takes
<1> DEFINE new == [i \in 1 .. push |-> Inst(ins, exprs + 1)]
<1>6. /\ stack' = DropLast(stack, pop) \o new
      /\ UNCHANGED <<ins, frames, brt, status>>
  BY <1>1, <1>3, <1>5, SMTT(30) DEF Dispatch, Requires, eff
<1>7. new \in Seq(Value) /\ Len(new) = push
  BY <1>1, <1>2, ResultsFacts
<1> HIDE DEF new
<1>8. Frame.pos + pop <= Len(stack)
  BY <1>1, <1>5
<1> HIDE DEF pop, push
<1>9. pop \in Nat /\ push \in Nat /\ push - pop = nr - np
  BY <1>1 DEF pop, push
<1>10. /\ Len(stack') = Len(stack) - pop + push
       /\ KeepsBelow(Frame.pos)
  <2> DEFINE p == Frame.pos
  <2>1. /\ p \in Nat /\ pop \in Nat
        /\ p + pop <= Len(stack)
        /\ stack \in Seq(Value)
        /\ new \in Seq(Value)
    BY <1>2, <1>5, <1>7, <1>8, <1>9
  <2> HIDE DEF p
  <2>2. /\ Len(DropLast(stack, pop) \o new) = Len(stack) - pop + Len(new)
        /\ p <= Len(DropLast(stack, pop) \o new)
        /\ \A j \in 1 .. p : (DropLast(stack, pop) \o new)[j] = stack[j]
    BY <2>1, KeptPrefix
  <2> QED
    BY <1>6, <1>7, <2>2 DEF KeepsBelow, p
<1>11. Len(stack') - VAvailable' = Len(stack) - VAvailable
  BY <1>1, <1>4, <1>5, <1>9, <1>10
<1> QED
  BY <1>2, <1>4, <1>6, <1>10, <1>11, FramesAndControl
     DEF Stays, KeepsFrames, SameFrame

(* A step behind which no code is reached.                                 *)
LEMMA UnreachedShape ==
  ASSUME IInv, status = "visit", status' = status, ~ Reachable',
         UNCHANGED <<frames, vctrl>>,
         \/ stack' = stack
         \/ stack' = Drop1(stack) /\ Reachable /\ VAvailable >= 1
  PROVE  Stays
<1>1. /\ Frame.pos \in Nat
      /\ Frame.pos <= Len(stack)
      /\ stack \in Seq(Value)
  BY FrameFacts DEF IInv, TypeOK
<1>2. KeepsBelow(Frame.pos)
  <2>1. CASE stack' = stack
    BY <1>1, <2>1 DEF KeepsBelow
  <2>2. CASE stack' = Drop1(stack) /\ Reachable /\ VAvailable >= 1
    <3>1. Frame.pos <= Len(stack) - 1 /\ Len(stack) > 0 /\ Len(stack) \in Nat
      BY <1>1, <2>2, Takes
    <3>2. /\ Len(stack') = Len(stack) - 1
          /\ \A i \in 1 .. Len(stack) - 1 : stack'[i] = stack[i]
      BY <1>1, <2>2, <3>1, Drop1Facts
    <3> QED
      BY <1>1, <3>1, <3>2 DEF KeepsBelow
  <2> QED
    BY <2>1, <2>2
<1> QED
  BY <1>2 DEF Stays, KeepsFrames, SameFrame

(* br and return.                                                          *)
LEMMA BrShape ==
  ASSUME IInv, NEW l \in VDepths, Br(l), VBranch(l, 0)
  PROVE  Stays
<1> DEFINE b == Target(l).target
<1>1. Reachable /\ status = "visit"
  BY DEF Br, Reachable, Visiting
<1>2. /\ UNCHANGED vctrl
      /\ VAvailable >= VArity(l)
      /\ VArity(l) \in Nat
      /\ Len(phis[b]) = VArity(l)
  BY <1>1, VBranchFacts, TargetFacts
<1>3. Len(phis[b]) <= Len(stack) /\ Len(stack) \in Nat
  BY <1>1, <1>2, Takes
<1>4. ins' = 0 /\ UNCHANGED <<stack, frames, status>>
  BY <1>2, <1>3 DEF Br, Requires
<1> QED
  BY <1>1, <1>2, <1>4, UnreachedShape DEF Reachable

(* br_table.                                                               *)
LEMMA BrTableShape ==
  ASSUME IInv, NEW l \in VDepths, BrTable(l), VBranch(l, 1)
  PROVE  Stays
<1> DEFINE b == Target(l).target
<1>1. Reachable /\ status = "visit"
  BY DEF BrTable, Reachable, Visiting
<1>2. /\ UNCHANGED vctrl
      /\ VAvailable >= VArity(l) + 1
      /\ VArity(l) \in Nat
      /\ Len(phis[b]) = VArity(l)
  BY <1>1, VBranchFacts, TargetFacts
<1>3. /\ 1 + Len(phis[b]) <= Len(stack)
      /\ Len(stack) \in Nat
      /\ VAvailable >= 1
  <2>1. VAvailable \in Nat
    BY <1>1, ReachableFacts
  <2>2. VArity(l) + 1 \in Nat
    BY <1>2
  <2> QED
    BY <1>1, <1>2, <2>1, <2>2, Takes
<1>4. ins' = 0 /\ stack' = Drop1(stack) /\ UNCHANGED <<frames, status>>
  BY <1>2, <1>3 DEF BrTable, Requires
<1> QED
  BY <1>1, <1>2, <1>3, <1>4, UnreachedShape DEF Reachable

(* While a switch waits for its cases, so do the arguments of the default; *)
(* the validator takes only cases of the same arity.                       *)
TableWaits ==
  status = "visit" /\ brt # 0 => varity <= Len(stack)

(* A case of br_table.                                                     *)
LEMMA BrTableTargetShape ==
  ASSUME IInv, TableWaits, NEW l \in VDepths, BrTableTarget(l)
  PROVE  Stays /\ UNCHANGED <<stack, varity, brt>>
<1> DEFINE b == Target(l).target
<1>1. /\ status = "visit"
      /\ brt # 0
      /\ VArity(l) = varity
      /\ UNCHANGED <<vctrl, varity>>
      /\ BrTableCase(l)
  BY DEF BrTableTarget, BrTableCase, VBranchTarget, vvars
<1>2. Len(phis[b]) = VArity(l) /\ VArity(l) \in Nat
  BY <1>1, TargetFacts
<1>3. varity <= Len(stack) /\ Len(stack) \in Nat
  BY <1>1 DEF TableWaits, IInv, TypeOK
<1>4. UNCHANGED <<stack, frames, brt, status>>
  BY <1>1, <1>2, <1>3 DEF BrTableCase
<1>5. ~ Reachable'
  BY <1>1, <1>4 DEF Reachable, Visiting
<1> QED
  BY <1>1, <1>4, <1>5, UnreachedShape

(* br_if takes its condition and goes on in a fresh block.                 *)
LEMMA BrIfShape ==
  ASSUME IInv, NEW l \in VDepths, BrIf(l), VBranch(l, 1)
  PROVE  Stays
<1> DEFINE b == Target(l).target
<1>1. Reachable /\ status = "visit"
  BY DEF BrIf, Reachable, Visiting
<1>2. /\ UNCHANGED vctrl
      /\ VAvailable >= VArity(l) + 1
      /\ VAvailable' = VAvailable - 1
      /\ VArity(l) \in Nat
      /\ Len(phis[b]) = VArity(l)
  BY <1>1, VBranchFacts, TargetFacts
<1>3. /\ VAvailable \in Nat
      /\ stack \in Seq(Value)
      /\ Len(term) + 1 \in Nat
      /\ Len(frames) > 0
      /\ TypeOK
  BY <1>1, ReachableFacts, FrameFacts DEF IInv
<1>4. /\ 1 + Len(phis[b]) <= Len(stack)
      /\ Len(stack) \in Nat
      /\ Len(stack) > 0
      /\ Frame.pos \in Nat
      /\ Frame.pos <= Len(stack) - 1
  <2>1. VArity(l) + 1 \in Nat
    BY <1>2
  <2> QED
    BY <1>1, <1>2, <1>3, <2>1, Takes
<1>5. /\ stack' = Drop1(stack)
      /\ frames' = SetEntry(Len(term) + 1)
      /\ status' = status
  BY <1>2, <1>4 DEF BrIf, Requires
<1>6. KeepsBelow(Frame.pos) /\ Len(stack') = Len(stack) - 1
  BY <1>3, <1>4, <1>5, Drop1Facts DEF KeepsBelow
<1>7. /\ Len(frames') = Len(frames)
      /\ \A i \in 1 .. Len(frames) : SameFrame(frames[i], frames'[i])
  BY <1>3, <1>5, SetEntryFacts
<1>8. Len(stack') - VAvailable' = Len(stack) - VAvailable
  BY <1>2, <1>3, <1>4, <1>6
<1> QED
  BY <1>1, <1>2, <1>5, <1>6, <1>7, <1>8 DEF Stays, KeepsFrames

-----------------------------------------------------------------------------
(* Blocks, loops and ifs.                                                  *)

(* A call of visitBlock with frame f, and the validator's frame v.         *)
LEMMA CallShape ==
  ASSUME IInv, Reachable, status' = status, NEW b \in Nat,
         NEW f \in FrameType, NEW v \in VFrameType,
         frames' = Call(b, f), vctrl' = Append(vctrl, v),
         f.lty \in {"Block", "Loop", "If"},
         f.lty = "If" => \E sig \in IfSigs : f.results = sig[2],
         f.lty = "Loop" => \E sig \in LoopSigs : v.arity = sig[1],
         f.pos >= Frame.pos, f.pos - v.height = Len(stack) - vdepth,
         KeepsBelow(f.pos), Len(stack') - f.pos = VAvailable'
  PROVE  Opens
<1> DEFINE n == Len(frames)
<1>1. /\ status = "visit"
      /\ TypeOK
      /\ n \in Nat \ {0}
      /\ Len(frames) > 0
      /\ Len(vctrl) = n
      /\ vctrl \in Seq(VFrameType)
  BY ReachableFacts, FramesAndControl, VFrameFacts DEF IInv
<1>2. /\ Len(frames') = n + 1
      /\ frames'[n + 1] = f
      /\ \A i \in 1 .. n : SameFrame(frames[i], frames'[i])
  BY <1>1, CallFacts
<1> HIDE DEF n
<1>3. /\ Len(vctrl') = n + 1
      /\ vctrl'[n + 1] = v
      /\ \A i \in 1 .. n : vctrl'[i] = vctrl[i]
  BY <1>1, AppendProperties
<1> QED
  BY <1>1, <1>2, <1>3 DEF Opens, KeepsFrames, n

(* The operands a block is opened under.                                   *)
LEMMA OpenHeights ==
  ASSUME IInv, Reachable, NEW kind \in Labels, NEW np \in Nat, NEW nr \in Nat,
         NEW n \in {0, 1}, VEnter(kind, np, nr, n)
  PROVE  LET v == NewVFrame(kind, np, nr, n)
         IN  /\ v \in VFrameType
             /\ vctrl' = Append(vctrl, v)
             /\ v.arity = IF kind = "Loop" THEN np ELSE nr
             /\ v.height = vdepth - n - np
             /\ Len(stack) \in Nat
             /\ Len(stack) - n - np \in Nat
             /\ n + np <= Len(stack)
             /\ Len(stack) - n - np >= Frame.pos
             /\ Len(stack) - n - np - v.height = Len(stack) - vdepth
             /\ VAvailable' = np
<1> DEFINE v == NewVFrame(kind, np, nr, n)
<1>1. /\ v \in VFrameType
      /\ vctrl' = Append(vctrl, v)
      /\ VFrame.height <= v.height
      /\ v.height - VFrame.height <= Len(stack) - n - np - Frame.pos
      /\ Len(stack) \in Nat
      /\ Len(stack) - n - np \in Nat
      /\ VAvailable' = np
  BY EnterFacts
<1>2. /\ v.arity = IF kind = "Loop" THEN np ELSE nr
      /\ v.height = vdepth - n - np
  BY DEF NewVFrame
<1>3. /\ vdepth \in Nat
      /\ VFrame.height \in Nat
      /\ Frame.pos \in Nat
      /\ v.height \in Nat
  BY <1>1, ReachableFacts, FramesAndControl DEF VFrameType
<1> HIDE DEF v
<1>4. /\ Len(stack) - n - np >= Frame.pos
      /\ Len(stack) - n - np - v.height = Len(stack) - vdepth
      /\ n + np <= Len(stack)
  BY <1>1, <1>2, <1>3
<1> QED
  BY <1>1, <1>2, <1>4 DEF v

(* A block expression opens a block.                                       *)
LEMMA BlockShape ==
  ASSUME IInv, NEW np \in Nat, NEW nr \in Nat, EnterBlock(np, nr),
         VEnter("Block", np, nr, 0)
  PROVE  Opens
<1> DEFINE exit == Len(term) + 1
           pos == Len(stack) - np
           f == [lty |-> "Block", entry |-> Frame.entry, exit |-> exit,
                 pos |-> pos, results |-> nr, saved |-> << >>, else |-> 0]
           v == NewVFrame("Block", np, nr, 0)
<1>1. /\ Reachable
      /\ frames' = Call(Frame.entry, f)
      /\ stack' = stack
      /\ status' = status
  BY DEF EnterBlock, PosUnder
<1>2. /\ v \in VFrameType
      /\ vctrl' = Append(vctrl, v)
      /\ v.height = vdepth - 0 - np
      /\ Len(stack) \in Nat
      /\ pos \in Nat
      /\ np <= Len(stack)
      /\ pos >= Frame.pos
      /\ pos - v.height = Len(stack) - vdepth
      /\ VAvailable' = np
  BY <1>1, OpenHeights DEF Labels
<1>3. f \in FrameType /\ Frame.entry \in Nat
  <2>1. Frame.entry \in Nat /\ exit \in Nat
    BY <1>1, ReachableFacts
  <2> QED
    BY <1>2, <2>1 DEF FrameType, Labels
<1>4. f.lty = "Block" /\ f.pos = pos
  OBVIOUS
<1> HIDE DEF f, v, exit
<1>5. KeepsBelow(f.pos) /\ Len(stack') - f.pos = VAvailable'
  BY <1>1, <1>2, <1>4 DEF KeepsBelow
<1> QED
  BY <1>1, <1>2, <1>3, <1>4, <1>5, CallShape

(* A loop expression opens one, on the operands it takes as parameters.    *)
LEMMA LoopShape ==
  ASSUME IInv, NEW sig \in LoopSigs, EnterLoop(sig[1], sig[2]),
         VEnter("Loop", sig[1], sig[2], 0)
  PROVE  Opens
<1> DEFINE np == sig[1]
           nr == sig[2]
           loop == Len(term) + 1
           pos == Len(stack) - np
           f == [lty |-> "Loop", entry |-> loop, exit |-> Frame.exit,
                 pos |-> pos, results |-> nr, saved |-> << >>, else |-> 0]
           v == NewVFrame("Loop", np, nr, 0)
           new == [k \in 1 .. np |-> Phi(loop, k)]
<1>1. np \in Nat /\ nr \in Nat /\ Reachable
  BY SigsAssumption DEF EnterLoop
<1>2. /\ v \in VFrameType
      /\ vctrl' = Append(vctrl, v)
      /\ v.arity = np
      /\ Len(stack) \in Nat
      /\ pos \in Nat
      /\ np <= Len(stack)
      /\ pos >= Frame.pos
      /\ pos - v.height = Len(stack) - vdepth
      /\ VAvailable' = np
  BY <1>1, OpenHeights DEF Labels
<1>3. /\ frames' = Call(loop, f)
      /\ stack' = DropLast(stack, np) \o new
      /\ status' = status
  <2>1. ~ (Len(stack) < np)
    BY <1>1, <1>2
  <2> QED
    BY <2>1 DEF EnterLoop, Requires, PosUnder
<1>4. /\ f \in FrameType
      /\ loop \in Nat
      /\ new \in Seq(Value)
      /\ Len(new) = np
      /\ stack \in Seq(Value)
  <2>1. loop \in Nat /\ Frame.exit \in Nat /\ stack \in Seq(Value)
    BY <1>1, ReachableFacts, FrameFacts, SMTT(30) DEF Blocks
  <2>2. \A k \in 1 .. np : Phi(loop, k) \in Value
    BY <2>1 DEF Phi, Value
  <2>3. new \in Seq(Value) /\ Len(new) = np
    BY <1>1, <2>2
  <2> QED
    BY <1>1, <1>2, <2>1, <2>3 DEF FrameType, Labels
<1>5. f.lty = "Loop" /\ f.pos = pos
  OBVIOUS
<1>6. /\ f.lty = "Loop" => \E s \in LoopSigs : v.arity = s[1]
      /\ f.lty # "If"
  BY <1>2
<1> HIDE DEF f, v, loop, new, np, nr
<1>7. /\ pos \in Nat /\ np \in Nat /\ pos + np <= Len(stack)
      /\ stack \in Seq(Value) /\ new \in Seq(Value)
  BY <1>1, <1>2, <1>4
<1> HIDE DEF pos
<1>8. /\ Len(DropLast(stack, np) \o new) = Len(stack) - np + Len(new)
      /\ pos <= Len(DropLast(stack, np) \o new)
      /\ \A j \in 1 .. pos : (DropLast(stack, np) \o new)[j] = stack[j]
  BY <1>7, KeptPrefix, Zenon
<1>9. KeepsBelow(f.pos) /\ Len(stack') - f.pos = VAvailable'
  <2>1. Len(stack') - pos = np
    BY <1>1, <1>2, <1>3, <1>4, <1>8 DEF pos
  <2> QED
    BY <1>2, <1>3, <1>5, <1>8, <2>1 DEF KeepsBelow
<1> QED
  BY <1>1, <1>2, <1>3, <1>4, <1>5, <1>6, <1>9, CallShape

(* An if expression opens one, once its condition is popped.               *)
LEMMA IfShape ==
  ASSUME IInv, NEW sig \in IfSigs, EnterIf(sig[1], sig[2]),
         VEnter("If", sig[1], sig[2], 1)
  PROVE  Opens
<1> DEFINE np == sig[1]
           nr == sig[2]
           then == Len(term) + 1
           else == Len(term) + 2
           exit == Len(term) + 3
           d == Drop1(stack)
           pos == Len(d) - np
           f == [lty |-> "If", entry |-> then, exit |-> exit, pos |-> pos,
                 results |-> nr, saved |-> LastN(d, np), else |-> else]
           v == NewVFrame("If", np, nr, 1)
<1>1. np \in Nat /\ nr \in Nat /\ Reachable
  BY SigsAssumption DEF EnterIf
<1>2. /\ v \in VFrameType
      /\ vctrl' = Append(vctrl, v)
      /\ Len(stack) \in Nat
      /\ Len(stack) - 1 - np \in Nat
      /\ 1 + np <= Len(stack)
      /\ Len(stack) - 1 - np >= Frame.pos
      /\ Len(stack) - 1 - np - v.height = Len(stack) - vdepth
      /\ VAvailable' = np
  BY <1>1, OpenHeights DEF Labels
<1>3. /\ stack \in Seq(Value)
      /\ d \in Seq(Value)
      /\ Len(d) = Len(stack) - 1
      /\ \A i \in 1 .. Len(stack) - 1 : d[i] = stack[i]
  <2>1. stack \in Seq(Value) /\ Len(stack) > 0
    BY <1>1, <1>2, ReachableFacts
  <2> QED
    BY <2>1, Drop1Facts
<1>4. /\ frames' = Call(then, f)
      /\ stack' = d
      /\ status' = status
  <2>1. ~ (Len(stack) < np + 1)
    BY <1>1, <1>2
  <2> QED
    BY <2>1 DEF EnterIf, Requires, PosUnder
<1>5. /\ f \in FrameType
      /\ then \in Nat
  <2>1. Len(term) \in Nat
    BY <1>1, ReachableFacts
  <2>2. LastN(d, np) \in Seq(Value)
    BY <1>1, <1>2, <1>3, LastNFacts, SMTT(30)
  <2>3. pos \in Nat
    BY <1>1, <1>2, <1>3
  <2> QED
    BY <1>1, <2>1, <2>2, <2>3 DEF FrameType, Labels
<1>6. /\ f.lty = "If"
      /\ f.pos = pos
      /\ f.lty = "If" => \E s \in IfSigs : f.results = s[2]
      /\ f.lty # "Loop"
  OBVIOUS
<1> HIDE DEF f, v, then, d, np, nr
<1>7. /\ KeepsBelow(f.pos)
      /\ Len(stack') - f.pos = VAvailable'
      /\ f.pos >= Frame.pos
      /\ f.pos - v.height = Len(stack) - vdepth
  BY <1>1, <1>2, <1>3, <1>4, <1>6 DEF KeepsBelow
<1> QED
  BY <1>1, <1>2, <1>4, <1>5, <1>6, <1>7, CallShape

-----------------------------------------------------------------------------
(* The ends of visitBlock.                                                 *)

(* A reachable end with the wrong height.                                  *)
LEMMA AbortShape ==
  ASSUME IInv, Visiting, Abort, LeaveAborts, VEndOk(ins # 0)
  PROVE  Refuses
<1>1. /\ status = "visit"
      /\ Frame.pos \in Nat
      /\ Frame.pos <= Len(stack)
      /\ stack \in Seq(Value)
  BY FrameFacts DEF Visiting, IInv, TypeOK
<1>2. /\ ins # 0
      /\ Len(stack) # Frame.pos + Frame.results
  BY <1>1 DEF LeaveAborts
<1>3. VAvailable = VFrame.results /\ Reachable
  BY <1>2 DEF VEndOk, Reachable
<1> QED
  BY <1>1, <1>2, <1>3 DEF Refuses, Abort

(* The operands under a block survive its end.                             *)
LEMMA JoinKeeps ==
  ASSUME IInv, Leaving
  PROVE  /\ Frame.pos <= Len(StackAtJoin)
         /\ \A j \in 1 .. Frame.pos : StackAtJoin[j] = stack[j]
         /\ StackAtJoin \in Seq(Value)
         /\ Len(StackAtJoin) = IF ins # 0 /\ Frame.lty = "If"
                               THEN Frame.pos ELSE Frame.pos + Frame.results
<1>1. /\ Frame.pos \in Nat
      /\ Frame.results \in Nat
      /\ Frame.pos <= Len(stack)
      /\ Frame.exit \in Nat
  BY FrameFacts DEF Leaving, Blocks
<1>2. /\ Len(phis[Frame.exit]) = Frame.results
      /\ ins # 0 => Len(stack) = Frame.pos + Frame.results
      /\ stack \in Seq(Value)
      /\ phis[Frame.exit] \in Seq(Seq(Incoming))
  BY ExitFacts
<1>3. Phis(Frame.exit) \in Seq(Value) /\ Len(Phis(Frame.exit)) = Frame.results
  BY <1>1, <1>2, PhisFacts
<1> DEFINE p == Frame.pos
           r == Frame.results
           new == Phis(Frame.exit)
<1>4. /\ p \in Nat /\ r \in Nat /\ p <= Len(stack)
      /\ ins # 0 => Len(stack) = p + r
      /\ new \in Seq(Value) /\ Len(new) = r
      /\ Unwound = IF ins # 0 THEN DropLast(stack, r) ELSE SubSeq(stack, 1, p)
  BY <1>1, <1>2, <1>3 DEF Unwound
<1> HIDE DEF p, r, new
<1>5. /\ Unwound \in Seq(Value)
      /\ Len(Unwound) = p
      /\ \A j \in 1 .. p : Unwound[j] = stack[j]
  <2>1. CASE ins # 0
    <3>1. r <= Len(stack) /\ Len(stack) - r = p
      BY <1>4, <2>1
    <3> QED
      BY <1>2, <1>4, <2>1, <3>1, DropLastFacts
  <2>2. CASE ins = 0
    BY <1>2, <1>4, <2>2, PrefixFacts
  <2> QED
    BY <2>1, <2>2
<1>6. /\ Unwound \o new \in Seq(Value)
      /\ Len(Unwound \o new) = p + r
      /\ \A j \in 1 .. p : (Unwound \o new)[j] = stack[j]
  <2> DEFINE u == Unwound
  <2>1. u \in Seq(Value) /\ Len(u) = p /\ \A j \in 1 .. p : u[j] = stack[j]
    BY <1>5
  <2> HIDE DEF u
  <2>2. /\ u \o new \in Seq(Value)
        /\ Len(u \o new) = Len(u) + Len(new)
        /\ \A i \in 1 .. Len(u) + Len(new) :
             (u \o new)[i] = IF i <= Len(u) THEN u[i] ELSE new[i - Len(u)]
    BY <1>4, <2>1, ConcatProperties
  <2> QED
    BY <1>4, <2>1, <2>2, SMTT(30) DEF u
<1>7. StackAtJoin = IF ins # 0 /\ Frame.lty = "If" THEN Unwound ELSE Unwound \o new
  BY DEF StackAtJoin, new
<1> DEFINE goal(s, l) == /\ p <= Len(s)
                         /\ \A j \in 1 .. p : s[j] = stack[j]
                         /\ s \in Seq(Value)
                         /\ Len(s) = l
<1>8. goal(Unwound, p) /\ goal(Unwound \o new, p + r)
  BY <1>4, <1>5, <1>6
<1> QED
  BY <1>7, <1>8 DEF p, r

(* A label is left, by the validator too.                                  *)
LEMMA CloseShape ==
  ASSUME IInv, status = "visit", status' = status, VEnd(ins # 0),
         Frame.lty # "Func", NEW b \in Nat, frames' = ReturnTo(b),
         KeepsBelow(Frame.pos),
         Reachable' => Len(stack') = Frame.pos + Frame.results
  PROVE  Closes
<1> DEFINE n == Len(frames)
<1>1. /\ n \in Nat
      /\ n > 1
      /\ Len(vctrl) = n
      /\ vctrl \in Seq(VFrameType)
      /\ TypeOK
  <2>1. FrameOK(n) /\ Frame = frames[n] /\ n \in Nat \ {0}
    BY FrameFacts
  <2> QED
    BY <2>1, VFrameFacts DEF FrameOK, IInv
<1>2. /\ vctrl' = Drop1(vctrl)
      /\ vdepth' = VFrame.height + VFrame.results
  BY VEndFacts
<1>3. /\ Len(frames') = n - 1
      /\ \A i \in 1 .. n - 1 : SameFrame(frames[i], frames'[i])
  BY <1>1, ReturnToFacts
<1> HIDE DEF n
<1>4. /\ Len(vctrl') = n - 1
      /\ \A i \in 1 .. n - 1 : vctrl'[i] = vctrl[i]
  BY <1>1, <1>2, Drop1Facts
<1> QED
  BY <1>1, <1>2, <1>3, <1>4 DEF Closes, KeepsFrames, n

(* The end of a block or of an else arm refuses the body or closes it.     *)
LEMMA BlockEndsShape ==
  ASSUME IInv, BlockEnds
  PROVE  Refuses \/ Closes
<1>1. /\ status = "visit"
      /\ Visiting
      /\ Frame.lty \in {"Block", "Else"}
      /\ VEnd(ins # 0)
      /\ VEndOk(ins # 0)
  BY DEF BlockEnds, EndBlock, Visiting, VEnd
<1>2. CASE LeaveAborts
  <2>1. Abort
    BY <1>2 DEF BlockEnds, EndBlock
  <2> QED
    BY <1>1, <1>2, <2>1, AbortShape
<1>3. CASE ~ LeaveAborts
  <2>1. /\ Leaving
        /\ stack' = StackAtJoin
        /\ frames' = ReturnTo(Frame.exit)
        /\ status' = status
    BY <1>1, <1>3 DEF BlockEnds, EndBlock, Leaving
  <2>2. /\ KeepsBelow(Frame.pos)
        /\ Len(stack') = Frame.pos + Frame.results
    BY <1>1, <2>1, JoinKeeps DEF KeepsBelow
  <2>3. Frame.exit \in Nat /\ Frame.lty # "Func"
    BY <1>1, FrameFacts DEF Blocks
  <2> QED
    BY <1>1, <2>1, <2>2, <2>3, CloseShape
<1> QED
  BY <1>2, <1>3

(* The end of a loop refuses the body or closes it.                        *)
LEMMA LoopEndsShape ==
  ASSUME IInv, LoopEnds
  PROVE  Refuses \/ Closes
<1>1. /\ status = "visit"
      /\ Visiting
      /\ Frame.lty = "Loop"
      /\ VEnd(ins # 0)
      /\ VEndOk(ins # 0)
      /\ ins \in Nat
  BY DEF LoopEnds, EndLoop, Visiting, VEnd, IInv, TypeOK
<1>2. CASE ins # 0 /\ LeaveAborts
  <2>1. Abort
    BY <1>2 DEF LoopEnds, EndLoop
  <2> QED
    BY <1>1, <1>2, <2>1, AbortShape
<1>3. CASE /\ ~ (ins # 0 /\ LeaveAborts)
           /\ ins # 0 /\ Len(stack) < Len(phis[Top(blockStack).target])
  <2>1. AssertFails
    BY <1>3 DEF LoopEnds, EndLoop
  <2> QED
    BY <1>1, <1>3, <2>1 DEF Refuses, AssertFails, Reachable, VEndOk
<1>4. CASE /\ ~ (ins # 0 /\ LeaveAborts)
           /\ ~ (ins # 0 /\ Len(stack) < Len(phis[Top(blockStack).target]))
  <2>1. /\ frames' = ReturnTo(ins)
        /\ UNCHANGED <<ins, stack, status>>
    BY <1>4 DEF LoopEnds, EndLoop
  <2>2. Reachable' => Len(stack') = Frame.pos + Frame.results
    BY <1>4, <2>1 DEF Reachable, LeaveAborts
  <2>3. KeepsBelow(Frame.pos) /\ Frame.lty # "Func"
    BY <1>1, <2>1, FrameFacts DEF KeepsBelow
  <2> QED
    BY <1>1, <2>1, <2>2, <2>3, CloseShape
<1> QED
  BY <1>2, <1>3, <1>4

(* The end of the function refuses the body or returns.                    *)
LEMMA FuncEndsShape ==
  ASSUME IInv, FuncEnds
  PROVE  Refuses \/ Returns
<1>1. /\ status = "visit"
      /\ Visiting
      /\ Frame.lty = "Func"
      /\ VEnd(ins # 0)
      /\ VEndOk(ins # 0)
  BY DEF FuncEnds, EndFunc, Visiting, VEnd
<1>2. CASE LeaveAborts
  <2>1. Abort
    BY <1>2 DEF FuncEnds, EndFunc
  <2> QED
    BY <1>1, <1>2, <2>1, AbortShape
<1>3. CASE ~ LeaveAborts
  <2>1. frames' = Drop1(frames) /\ status' = "done"
    BY <1>3 DEF FuncEnds, EndFunc
  <2>2. Len(frames) = 1 /\ frames \in Seq(FrameType)
    BY <1>1, FrameFacts DEF FrameOK, IInv, TypeOK
  <2>3. Len(Drop1(frames)) = Len(frames) - 1
    BY <2>2, Drop1Facts, SMTT(30)
  <2>4. Len(frames') = 0
    BY <2>1, <2>2, <2>3
  <2> QED
    BY <1>1, <2>1, <2>4 DEF Returns
<1> QED
  BY <1>2, <1>3

(* The else arm is entered with the parameters the if was, above what the  *)
(* end of the then arm has left.                                           *)
LEMMA ThenEndsShape ==
  ASSUME IInv, ThenEnds
  PROVE  Refuses \/ Turns
<1> DEFINE n == Len(frames)
           r == ReturnTo(Frame.else)
           f == [Frame EXCEPT !.lty = "Else", !.entry = Frame.else,
                              !.saved = << >>, !.else = 0]
<1>1. /\ status = "visit"
      /\ Visiting
      /\ Frame.lty = "If"
      /\ VElse(ins # 0)
      /\ VEndOk(ins # 0)
  BY DEF ThenEnds, EndThen, Visiting, VElse
<1>2. CASE LeaveAborts
  <2>1. Abort
    BY <1>2 DEF ThenEnds, EndThen
  <2> QED
    BY <1>1, <1>2, <2>1, AbortShape
<1>3. CASE ~ LeaveAborts
  <2>1. /\ Leaving
        /\ stack' = StackAtJoin \o Frame.saved
        /\ frames' = Append(r, f)
        /\ status' = status
    BY <1>1, <1>3 DEF ThenEnds, EndThen, Leaving
  <2>2. /\ n \in Nat
        /\ n > 1
        /\ Len(vctrl) = n
        /\ vctrl \in Seq(VFrameType)
        /\ VFrame = vctrl[n]
        /\ VFrame \in VFrameType
        /\ TypeOK
        /\ Frame \in FrameType
        /\ Frame.pos \in Nat
        /\ Frame.results \in Nat
        /\ Frame.saved \in Seq(Value)
        /\ Len(Frame.saved) = VFrame.params
        /\ VFrame.params \in Nat
        /\ Frame.else \in Nat
    <3>1. FrameOK(n) /\ Frame = frames[n] /\ n \in Nat \ {0}
      BY <1>1, FrameFacts
    <3>2. Frame.else \in Nat
      BY <1>1, FrameFacts DEF Blocks
    <3> QED
      BY <1>1, <3>1, <3>2, FrameFacts, VFrameFacts, FramesAndControl
         DEF FrameOK, IInv
  <2>3. /\ r \in Seq(FrameType)
        /\ Len(r) = n - 1
        /\ \A i \in 1 .. n - 1 : SameFrame(frames[i], r[i])
    BY <2>2, ReturnToFacts
  <2>4. /\ f \in FrameType
        /\ f.lty = "Else"
        /\ f.pos = Frame.pos
        /\ f.results = Frame.results
    <3> DEFINE g == Frame
    <3>1. /\ g \in FrameType
          /\ Frame.else \in Nat
          /\ f = [g EXCEPT !.lty = "Else", !.entry = Frame.else,
                           !.saved = << >>, !.else = 0]
      BY <2>2
    <3> HIDE DEF f, g
    <3>2. "Else" \in Labels /\ << >> \in Seq(Value) /\ 0 \in Nat
      BY DEF Labels
    <3>3. f \in FrameType
      BY <3>1, <3>2 DEF FrameType
    <3>4. f.lty = "Else" /\ f.pos = g.pos /\ f.results = g.results
      BY <3>1 DEF FrameType
    <3> QED
      BY <3>3, <3>4 DEF g
  <2> HIDE DEF r, f, n
  <2>5. /\ Len(frames') = n
        /\ frames'[n] = f
        /\ \A i \in 1 .. n - 1 : SameFrame(frames[i], frames'[i])
    BY <2>1, <2>2, <2>3, <2>4
  <2>6. /\ vctrl' = [vctrl EXCEPT ![Len(vctrl)].kind = "Else"]
        /\ VAvailable' = VFrame.params
    BY <1>1, VElseFacts
  <2>7. /\ Len(vctrl') = n
        /\ vctrl'[n].height = VFrame.height
        /\ vctrl'[n].arity = VFrame.arity
        /\ \A i \in 1 .. n - 1 : vctrl'[i] = vctrl[i]
    BY <2>2, <2>6 DEF VFrameType
  <2>8. /\ KeepsBelow(Frame.pos)
        /\ Len(stack') = Len(StackAtJoin) + VFrame.params
    <3>1. /\ Frame.pos <= Len(StackAtJoin)
          /\ \A j \in 1 .. Frame.pos : StackAtJoin[j] = stack[j]
          /\ StackAtJoin \in Seq(Value)
      BY <2>1, JoinKeeps
    <3> DEFINE u == StackAtJoin
               t == Frame.saved
               p == Frame.pos
    <3>2. /\ u \in Seq(Value) /\ t \in Seq(Value)
          /\ p \in Nat /\ p <= Len(u)
          /\ \A j \in 1 .. p : u[j] = stack[j]
      BY <2>2, <3>1
    <3> HIDE DEF u, t, p
    <3>3. /\ Len(u \o t) = Len(u) + Len(t)
          /\ \A i \in 1 .. Len(u) + Len(t) :
               (u \o t)[i] = IF i <= Len(u) THEN u[i] ELSE t[i - Len(u)]
      BY <3>2, ConcatProperties
    <3>4. stack' = u \o t /\ Len(t) = VFrame.params
      BY <2>1, <2>2 DEF u, t
    <3>5. /\ p <= Len(u \o t)
          /\ \A j \in 1 .. p : (u \o t)[j] = stack[j]
      BY <3>2, <3>3
    <3> QED
      BY <3>3, <3>4, <3>5 DEF KeepsBelow, u, p
  <2>9. Len(StackAtJoin) \in {Frame.pos, Frame.pos + Frame.results}
    BY <2>1, JoinKeeps
  <2>10. Len(stack') - Frame.pos - VAvailable' \in {0, Frame.results}
    <3> DEFINE p == Frame.pos
               m == VFrame.params
               l == Len(StackAtJoin)
    <3>1. /\ p \in Nat /\ m \in Nat /\ Frame.results \in Nat
          /\ l \in {p, p + Frame.results}
          /\ Len(stack') = l + m
          /\ VAvailable' = m
      BY <2>2, <2>6, <2>8, <2>9
    <3> HIDE DEF l, m
    <3> QED
      BY <3>1
  <2> QED
    BY <1>1, <2>1, <2>4, <2>5, <2>7, <2>8, <2>10 DEF Turns, KeepsFrames, n
<1> QED
  BY <1>2, <1>3
-----------------------------------------------------------------------------
(* Every step has one of the shapes.                                       *)
LEMMA StepShapes ==
  ASSUME Exprs \subseteq Supported, IInv, TableWaits,
         [LNext \/ Stopped]_lvars
  PROVE  Shape
<1>1. CASE UNCHANGED lvars
  BY <1>1 DEF Shape, Idles, lvars, vars, vvars
<1>2. ASSUME NEW e \in Exprs, PlainExpr(e)
      PROVE  Shape
  BY <1>2, PlainShape DEF Shape
<1>3. CASE Unreachable
  <2>1. /\ status = "visit"
        /\ status' = status
        /\ ins' = 0
        /\ UNCHANGED <<frames, vctrl, stack>>
    BY <1>3 DEF Unreachable, VisitUnreachable, Reachable, Visiting, vvars
  <2> QED
    BY <2>1, UnreachedShape DEF Shape, Reachable
<1>4. CASE Skipped
  BY <1>4 DEF Skipped, SkipUnreachable, vars, vvars, Shape, Idles
<1>5. ASSUME NEW sig \in BlockSigs, BlockExpr(sig)
      PROVE  Shape
  <2>1. sig[1] \in Nat /\ sig[2] \in Nat
    BY SigsAssumption
  <2>2. EnterBlock(sig[1], sig[2]) /\ VEnter("Block", sig[1], sig[2], 0)
    BY <1>5 DEF BlockExpr
  <2> QED
    BY <2>1, <2>2, BlockShape DEF Shape
<1>6. ASSUME NEW sig \in LoopSigs, LoopExpr(sig)
      PROVE  Shape
  BY <1>6, LoopShape DEF LoopExpr, Shape
<1>7. ASSUME NEW sig \in IfSigs, IfExpr(sig)
      PROVE  Shape
  BY <1>7, IfShape DEF IfExpr, Shape
<1>8. CASE ThenEnds
  BY <1>8, ThenEndsShape DEF Shape
<1>9. CASE BlockEnds
  BY <1>9, BlockEndsShape DEF Shape
<1>10. CASE LoopEnds
  BY <1>10, LoopEndsShape DEF Shape
<1>11. CASE FuncEnds
  BY <1>11, FuncEndsShape DEF Shape
<1>12. ASSUME NEW l \in VDepths, BrExpr(l)
       PROVE  Shape
  BY <1>12, BrShape DEF BrExpr, Shape
<1>13. ASSUME NEW l \in VDepths, BrIfExpr(l)
       PROVE  Shape
  BY <1>13, BrIfShape DEF BrIfExpr, Shape
<1>14. ASSUME NEW l \in VDepths, BrTableExpr(l)
       PROVE  Shape
  BY <1>14, BrTableShape DEF BrTableExpr, Shape
<1>15. ASSUME NEW l \in VDepths, BrTableTarget(l)
       PROVE  Shape
  BY <1>15, BrTableTargetShape DEF Shape
<1>16. CASE ReturnExpr
  <2>1. status = "visit"
    BY <1>16 DEF ReturnExpr, Return, Br, Reachable, Visiting
  <2>2. /\ Len(blockStack) = Len(vctrl)
        /\ Len(vctrl) - 1 \in VDepths
    BY <2>1, FrameFacts, VFrameFacts DEF VDepths
  <2>3. Br(Len(vctrl) - 1) /\ VBranch(Len(vctrl) - 1, 0)
    BY <1>16, <2>2 DEF ReturnExpr, Return
  <2> QED
    BY <2>2, <2>3, BrShape DEF Shape
<1>17. CASE BrTableDone
  <2>1. /\ status = "visit"
        /\ status' = status
        /\ ins = 0
        /\ UNCHANGED <<frames, vctrl, stack, ins>>
    BY <1>17 DEF BrTableDone, BrTableEnd, vvars, IInv, BlocksOK
  <2> QED
    BY <2>1, UnreachedShape DEF Shape, Reachable
<1>18. CASE Stopped
  BY <1>1, <1>18 DEF Stopped
<1> QED
  BY <1>1, <1>2, <1>3, <1>4, <1>5, <1>6, <1>7, <1>8, <1>9, <1>10, <1>11,
     <1>12, <1>13, <1>14, <1>15, <1>16, <1>17, <1>18 DEF LNext

(* The default of a switch leaves its arguments on the stack, and a case   *)
(* takes none away.                                                        *)
LEMMA BrTableWaits ==
  ASSUME IInv, NEW l \in VDepths, BrTable(l), VBranch(l, 1)
  PROVE  TableWaits'
<1> DEFINE b == Target(l).target
<1>1. Reachable /\ status = "visit"
  BY DEF BrTable, Reachable, Visiting
<1>2. /\ varity' = VArity(l)
      /\ VAvailable >= VArity(l) + 1
      /\ VArity(l) + 1 \in Nat
      /\ VArity(l) \in Nat
      /\ Len(phis[b]) = VArity(l)
      /\ stack \in Seq(Value)
  BY <1>1, TargetFacts, ReachableFacts DEF VBranch
<1>3. /\ VArity(l) + 1 <= Len(stack)
      /\ Len(stack) \in Nat
  BY <1>1, <1>2, Takes
<1>4. stack' = Drop1(stack)
  BY <1>2, <1>3 DEF BrTable, Requires
<1>5. Len(stack') = Len(stack) - 1
  BY <1>2, <1>3, <1>4, Drop1Facts
<1> QED
  BY <1>2, <1>3, <1>5 DEF TableWaits

(* No other step can come between a br_table and its last target.          *)
LEMMA StepWaits ==
  ASSUME IInv, TableWaits, [LNext \/ Stopped]_lvars
  PROVE  TableWaits'
<1>1. CASE UNCHANGED lvars \/ Stopped
  BY <1>1 DEF lvars, vars, vvars, Stopped, TableWaits
<1>2. ASSUME NEW l \in VDepths, BrTableExpr(l)
      PROVE  TableWaits'
  BY <1>2, BrTableWaits DEF BrTableExpr
<1>3. ASSUME NEW l \in VDepths, BrTableTarget(l)
      PROVE  TableWaits'
  <2>1. UNCHANGED <<stack, varity, brt>> /\ status = "visit"
    BY <1>3, BrTableTargetShape DEF BrTableTarget, BrTableCase
  <2> QED
    BY <2>1 DEF TableWaits
<1>4. CASE BrTableDone
  BY <1>4 DEF BrTableDone, BrTableEnd, TableWaits
<1>5. ASSUME \/ \E e \in Exprs : PlainExpr(e)
             \/ Unreachable \/ Skipped
             \/ \E sig \in BlockSigs : BlockExpr(sig)
             \/ \E sig \in LoopSigs : LoopExpr(sig)
             \/ \E sig \in IfSigs : IfExpr(sig)
             \/ ThenEnds \/ BlockEnds \/ LoopEnds \/ FuncEnds
             \/ \E l \in VDepths : BrExpr(l) \/ BrIfExpr(l)
             \/ ReturnExpr
      PROVE  brt' = 0
  <2>1. ASSUME NEW e, PlainExpr(e)
        PROVE  brt' = 0
    BY <2>1 DEF PlainExpr, Dispatch, Requires, Abort, AssertFails, Reachable,
               Visiting
  <2>2. CASE Unreachable \/ Skipped
    BY <2>2 DEF Unreachable, VisitUnreachable, Skipped, SkipUnreachable, vars,
               Reachable, Visiting
  <2>3. ASSUME NEW sig, BlockExpr(sig) \/ LoopExpr(sig) \/ IfExpr(sig)
        PROVE  brt' = 0
    BY <2>3 DEF BlockExpr, EnterBlock, LoopExpr, EnterLoop, IfExpr, EnterIf,
               Requires, AssertFails, Reachable, Visiting
  <2>4. CASE ThenEnds \/ BlockEnds \/ LoopEnds \/ FuncEnds
    BY <2>4 DEF ThenEnds, EndThen, BlockEnds, EndBlock, LoopEnds, EndLoop,
               FuncEnds, EndFunc, Abort, AssertFails, Visiting
  <2>5. ASSUME NEW l, BrExpr(l) \/ BrIfExpr(l)
        PROVE  brt' = 0
    BY <2>5 DEF BrExpr, Br, BrIfExpr, BrIf, Requires, AssertFails, Reachable,
               Visiting
  <2>6. CASE ReturnExpr
    BY <2>6 DEF ReturnExpr, Return, Br, Requires, AssertFails, Reachable,
               Visiting
  <2> QED
    BY <1>5, <2>1, <2>2, <2>3, <2>4, <2>5, <2>6
<1> QED
  BY <1>1, <1>2, <1>3, <1>4, <1>5 DEF LNext, TableWaits
-----------------------------------------------------------------------------
(* The operands of the enclosing blocks.                                   *)

(* An inner block starts no lower than the ones around it.                 *)
PosGrow == \A i, j \in 1 .. Len(frames) :
             i <= j => frames[i].pos <= frames[j].pos

(* Positions are natural numbers.                                          *)
LEMMA PosTypes ==
  ASSUME IInv
  PROVE  /\ Len(frames) \in Nat
         /\ \A i \in 1 .. Len(frames) : frames[i].pos \in Nat
<1>1. frames \in Seq(FrameType)
  BY DEF IInv, TypeOK
<1>2. /\ Len(frames) \in Nat
      /\ \A i \in 1 .. Len(frames) : frames[i] \in FrameType
  BY <1>1
<1>3. \A f \in FrameType : f.pos \in Nat
  BY DEF FrameType
<1> QED
  BY <1>2, <1>3

(* ... and so they are after a step.                                       *)
LEMMA PosTypesNext ==
  ASSUME IInv'
  PROVE  /\ Len(frames') \in Nat
         /\ \A i \in 1 .. Len(frames') : frames'[i].pos \in Nat
<1>1. frames' \in Seq(FrameType)
  BY DEF IInv, TypeOK
<1>2. \A i \in 1 .. Len(frames') : frames'[i] \in FrameType
  BY <1>1
<1> QED
  BY <1>1, <1>2, SMTT(30) DEF FrameType

(* Positions grow inward after a step of any shape.                        *)
LEMMA StepPosGrow ==
  ASSUME IInv, IInv', PosGrow, Shape
  PROVE  PosGrow'
<1> DEFINE n == Len(frames)
<1>1. /\ n \in Nat
      /\ \A i \in 1 .. n : frames[i].pos \in Nat
      /\ Len(frames') \in Nat
      /\ \A i \in 1 .. Len(frames') : frames'[i].pos \in Nat
  BY PosTypes, PosTypesNext
<1>2. CASE Idles
  BY <1>2 DEF Idles, PosGrow
<1>3. CASE Refuses
  BY <1>3 DEF Refuses, PosGrow
<1>4. CASE Stays
  BY <1>1, <1>4 DEF Stays, KeepsFrames, SameFrame, PosGrow
<1>5. CASE Opens
  <2>1. /\ Len(frames') = n + 1
        /\ \A i \in 1 .. n : frames'[i].pos = frames[i].pos
        /\ frames'[n + 1].pos >= frames[n].pos
        /\ n \in 1 .. n
    BY <1>5, FramesAndControl DEF Opens, KeepsFrames, SameFrame
  <2>2. \A i \in 1 .. n : frames[i].pos <= frames[n].pos
    BY <2>1 DEF PosGrow
  <2>3. \A i \in 1 .. n : frames'[i].pos <= frames'[n + 1].pos
    BY <1>1, <2>1, <2>2
  <2> HIDE DEF n
  <2>4. \A i, j \in 1 .. n + 1 : i <= j => frames'[i].pos <= frames'[j].pos
    <3> TAKE i, j \in 1 .. n + 1
    <3> HAVE i <= j
    <3>1. CASE j = n + 1
      BY <1>1, <2>1, <2>3, <3>1
    <3>2. CASE j # n + 1
      <4>1. i \in 1 .. n /\ j \in 1 .. n
        BY <1>1, <3>2
      <4> QED
        BY <2>1, <4>1 DEF PosGrow, n
    <3> QED
      BY <3>1, <3>2
  <2> QED
    BY <2>1, <2>4 DEF PosGrow
<1>6. CASE Closes
  BY <1>1, <1>6 DEF Closes, KeepsFrames, SameFrame, PosGrow
<1>7. CASE Turns
  <2>1. /\ Len(frames') = n
        /\ n \in 1 .. n
        /\ \A i \in 1 .. n : frames'[i].pos = frames[i].pos
    BY <1>1, <1>7, FramesAndControl DEF Turns, KeepsFrames, SameFrame
  <2> QED
    BY <1>1, <2>1 DEF PosGrow
<1>8. CASE Returns
  BY <1>8 DEF Returns, PosGrow
<1> QED
  BY <1>2, <1>3, <1>4, <1>5, <1>6, <1>7, <1>8 DEF Shape

(* No step changes, or takes away, an operand under a block that is open   *)
(* before and after it.                                                    *)
LEMMA StepBase ==
  ASSUME IInv, IInv', PosGrow, Shape, status = "visit",
         NEW i \in 1 .. Len(frames), i \in 1 .. Len(frames')
  PROVE  KeepsBelow(frames[i].pos)
<1> DEFINE n == Len(frames)
           p == frames[i].pos
<1>1. /\ n \in Nat
      /\ n \in 1 .. n
      /\ \A k \in 1 .. n : frames[k].pos \in Nat
      /\ Len(stack) \in Nat
      /\ Len(stack') \in Nat
      /\ p <= frames[n].pos
      /\ Frame = frames[n]
  <2>1. stack \in Seq(Value) /\ stack' \in Seq(Value)
    BY DEF IInv, TypeOK
  <2>2. n \in Nat /\ n \in 1 .. n
    BY PosTypes
  <2> QED
    BY <2>1, <2>2, PosTypes DEF PosGrow, Frame, Top
<1>2. ASSUME KeepsBelow(Frame.pos)
      PROVE  KeepsBelow(p)
  BY <1>1, <1>2 DEF KeepsBelow
<1>3. CASE UNCHANGED stack
  <2>1. Frame.pos <= Len(stack)
    BY FrameFacts
  <2> QED
    BY <1>1, <1>2, <1>3, <2>1 DEF KeepsBelow
<1>4. CASE Refuses \/ Stays \/ Closes \/ Turns
  <2>1. UNCHANGED stack \/ KeepsBelow(Frame.pos)
    BY <1>4 DEF Refuses, Stays, Closes, Turns
  <2> QED
    BY <1>2, <1>3, <2>1
<1>5. CASE Opens
  <2> DEFINE q == frames'[n + 1].pos
  <2>1. KeepsBelow(q) /\ q >= Frame.pos /\ q \in Nat
    <3>1. /\ KeepsBelow(q)
          /\ q >= Frame.pos
          /\ n + 1 \in 1 .. Len(frames')
      BY <1>1, <1>5 DEF Opens
    <3> QED
      BY <3>1, PosTypesNext
  <2> HIDE DEF q
  <2>2. KeepsBelow(Frame.pos)
    BY <1>1, <2>1 DEF KeepsBelow
  <2> QED
    BY <1>2, <2>2
<1>6. CASE Idles
  BY <1>6, <1>3 DEF Idles
<1>7. CASE Returns
  BY <1>7 DEF Returns
<1> QED
  BY <1>4, <1>5, <1>6, <1>7 DEF Shape

(* Nothing is done once the translation is over.                           *)
LEMMA StepRuns == LNext => status = "visit"
BY DEF LNext, PlainExpr, Dispatch, Unreachable, VisitUnreachable, Skipped,
       SkipUnreachable, BlockExpr, EnterBlock, LoopExpr, EnterLoop, IfExpr,
       EnterIf, ThenEnds, EndThen, BlockEnds, EndBlock, LoopEnds, EndLoop,
       FuncEnds, EndFunc, BrExpr, Br, BrIfExpr, BrIf, BrTableExpr, BrTable,
       BrTableTarget, BrTableCase, ReturnExpr, Return, BrTableDone,
       BrTableEnd, Reachable, Visiting

(* What holds of the nesting in every state.                               *)
NestInv == IInv /\ TableWaits /\ PosGrow

(* The nesting is in order in every state of the translation of a body of  *)
(* supported expressions.                                                  *)
THEOREM NestInvariant ==
  ASSUME Exprs \subseteq Supported
  PROVE  Spec => []NestInv
<1>1. LInit => NestInv
  <2> SUFFICES ASSUME LInit PROVE NestInv
    OBVIOUS
  <2>1. IInv
    BY InitIInv
  <2>2. brt = 0 /\ frames = << frames[1] >> /\ frames[1].pos = 0
    BY DEF LInit, Init
  <2>3. TableWaits /\ PosGrow
    BY <2>2 DEF TableWaits, PosGrow
  <2> QED
    BY <2>1, <2>3 DEF NestInv
<1>2. NestInv /\ [LNext \/ Stopped]_lvars => NestInv'
  BY NextIInv, StepShapes, StepWaits, StepPosGrow DEF NestInv
<1> QED
  BY <1>1, <1>2, PTL DEF Spec

(* What the enclosing blocks have on the operand stack survives every step *)
(* within, every entry into and every exit from a block, whatever the      *)
(* handlers push and pop: visitBlock never unwinds below its own position. *)
THEOREM EnclosingOperandsKept ==
  ASSUME Exprs \subseteq Supported
  PROVE  Spec => BaseUntouched
<1>1. ASSUME NestInv, NestInv', [LNext \/ Stopped]_lvars
      PROVE  [\A i \in DOMAIN frames \cap DOMAIN frames' :
               /\ frames[i].pos <= Len(stack')
               /\ \A j \in 1 .. frames[i].pos : stack'[j] = stack[j]]_lvars
  <2>1. CASE UNCHANGED lvars
    BY <2>1
  <2>2. CASE Stopped
    BY <2>2 DEF Stopped
  <2>3. CASE LNext
    <3>1. Shape /\ status = "visit"
      BY <1>1, <2>3, StepShapes, StepRuns DEF NestInv
    <3>2. /\ DOMAIN frames = 1 .. Len(frames)
          /\ DOMAIN frames' = 1 .. Len(frames')
      <4>1. frames \in Seq(FrameType) /\ frames' \in Seq(FrameType)
        BY <1>1 DEF NestInv, IInv, TypeOK
      <4> QED
        BY <4>1
    <3>3. \A i \in DOMAIN frames \cap DOMAIN frames' : KeepsBelow(frames[i].pos)
      BY <1>1, <3>1, <3>2, StepBase DEF NestInv
    <3> QED
      BY <3>3 DEF KeepsBelow
  <2> QED
    BY <1>1, <2>1, <2>2, <2>3
<1> QED
  BY <1>1, NestInvariant, PTL DEF Spec, BaseUntouched

-----------------------------------------------------------------------------
(* Where the heights of the two stacks part.                               *)

(* What lies on the translator's stack beyond what the validator counts:   *)
(* in an else arm the results that the unreachable end of the then arm has *)
(* pushed, elsewhere nothing.                                              *)
Surplus(i) == IF frames[i].lty = "Else" THEN {0, frames[i].results} ELSE {0}

(* The surplus of an enclosing block is what was on the stack when the     *)
(* next one was entered.                                                   *)
LevelExact(i) ==
  (frames[i + 1].pos - frames[i].pos) - (vctrl[i + 1].height - vctrl[i].height)
    \in Surplus(i)

(* The surplus of the innermost block is what it has more than VAvailable. *)
TopExact ==
  Reachable => Len(stack) - Frame.pos - VAvailable \in Surplus(Len(frames))

(* On every level the two heights differ by a surplus.                     *)
ExactHeights ==
  status = "visit" => /\ \A i \in 1 .. Len(frames) - 1 : LevelExact(i)
                      /\ TopExact

(* A level that a step leaves alone.                                       *)
LEMMA LevelKept ==
  ASSUME NEW i, LevelExact(i),
         frames'[i].lty = frames[i].lty,
         frames'[i].results = frames[i].results,
         frames'[i].pos = frames[i].pos,
         frames'[i + 1].pos = frames[i + 1].pos,
         vctrl'[i].height = vctrl[i].height,
         vctrl'[i + 1].height = vctrl[i + 1].height
  PROVE  LevelExact(i)'
<1>1. Surplus(i)' = Surplus(i)
  BY DEF Surplus
<1> QED
  BY <1>1 DEF LevelExact

(* The two nestings, as numbers.                                           *)
LEMMA NestFacts ==
  ASSUME IInv, status = "visit"
  PROVE  /\ Len(frames) \in Nat \ {0}
         /\ Len(vctrl) = Len(frames)
         /\ Len(stack) \in Nat
         /\ vdepth \in Nat
         /\ \A i \in 1 .. Len(frames) : frames[i].pos \in Nat
         /\ \A i \in 1 .. Len(frames) : vctrl[i].height \in Nat
         /\ Frame = frames[Len(frames)]
         /\ VFrame = vctrl[Len(frames)]
         /\ VAvailable = vdepth - vctrl[Len(frames)].height
         /\ VAvailable \in Int
<1>1. \A i \in 1 .. Len(vctrl) : vctrl[i].height \in Nat
  <2>1. vctrl \in Seq(VFrameType)
    BY VFrameFacts
  <2>2. \A i \in 1 .. Len(vctrl) : vctrl[i] \in VFrameType
    BY <2>1
  <2> QED
    BY <2>2 DEF VFrameType
<1>2. stack \in Seq(Value)
  BY DEF IInv, TypeOK
<1>3. Len(stack) \in Nat
  BY <1>2
<1>4. /\ Len(frames) \in Nat \ {0}
      /\ Len(vctrl) = Len(frames)
      /\ vdepth \in Nat
      /\ Frame = frames[Len(frames)]
      /\ VFrame = vctrl[Len(frames)]
  BY FramesAndControl
<1>5. VAvailable = vdepth - vctrl[Len(frames)].height
  BY <1>4 DEF VAvailable
<1>6. Len(frames) \in 1 .. Len(frames)
  BY <1>4
<1>7. VAvailable \in Int
  BY <1>1, <1>4, <1>5, <1>6
<1> QED
  BY <1>1, <1>3, <1>4, <1>5, <1>7, PosTypes

(* ... and after a step.                                                   *)
LEMMA NestFactsNext ==
  ASSUME IInv', status' = "visit"
  PROVE  /\ Len(frames') \in Nat \ {0}
         /\ Len(vctrl') = Len(frames')
         /\ Len(stack') \in Nat
         /\ vdepth' \in Nat
         /\ \A i \in 1 .. Len(frames') : frames'[i].pos \in Nat
         /\ \A i \in 1 .. Len(frames') : vctrl'[i].height \in Nat
         /\ Frame' = frames'[Len(frames')]
         /\ VFrame' = vctrl'[Len(frames')]
         /\ VAvailable' = vdepth' - vctrl'[Len(frames')].height
         /\ VAvailable' \in Int
<1>1. /\ stack' \in Seq(Value)
      /\ vctrl' \in Seq(VFrameType)
      /\ vdepth' \in Nat
      /\ Len(frames') > 0
      /\ Len(vctrl') = Len(frames')
  BY DEF IInv, TypeOK, VTypeOK, FramesOK
<1>2. Len(frames') \in Nat \ {0} /\ Len(stack') \in Nat
  BY <1>1, PosTypesNext
<1>3. \A i \in 1 .. Len(frames') : vctrl'[i] \in VFrameType
  BY <1>1, <1>2
<1>4. \A v \in VFrameType : v.height \in Nat
  BY DEF VFrameType
<1>5. /\ Frame' = frames'[Len(frames')]
      /\ VFrame' = vctrl'[Len(frames')]
      /\ VAvailable' = vdepth' - vctrl'[Len(frames')].height
  BY <1>1 DEF Frame, Top, VFrame, VAvailable
<1>6. Len(frames') \in 1 .. Len(frames')
  BY <1>2
<1>7. VAvailable' \in Int
  BY <1>1, <1>3, <1>4, <1>5, <1>6
<1> QED
  BY <1>1, <1>2, <1>3, <1>4, <1>5, <1>7, PosTypesNext

(* A step within a block takes from both stacks alike.                     *)
LEMMA StaysExact ==
  ASSUME IInv, IInv', ExactHeights, Stays
  PROVE  ExactHeights'
<1> DEFINE n == Len(frames)
<1>1. /\ status = "visit"
      /\ status' = "visit"
      /\ Len(frames') = n
      /\ \A i \in 1 .. n : SameFrame(frames[i], frames'[i])
      /\ \A i \in 1 .. n : vctrl'[i] = vctrl[i]
      /\ Reachable' => /\ Reachable
                       /\ Len(stack') - VAvailable' = Len(stack) - VAvailable
  BY DEF Stays, KeepsFrames
<1>2. /\ n \in Nat
      /\ n \in 1 .. n
      /\ Frame = frames[n]
      /\ Frame' = frames'[n]
      /\ frames[n].pos \in Nat
      /\ VAvailable \in Int
      /\ VAvailable' \in Int
      /\ Len(stack) \in Nat
      /\ Len(stack') \in Nat
  BY <1>1, NestFacts, NestFactsNext
<1>3. \A i \in 1 .. n - 1 : LevelExact(i)'
  <2> TAKE i \in 1 .. n - 1
  <2>1. i \in 1 .. n /\ i + 1 \in 1 .. n
    BY <1>2
  <2>2. LevelExact(i)
    BY <1>1 DEF ExactHeights
  <2>3. /\ SameFrame(frames[i], frames'[i])
        /\ SameFrame(frames[i + 1], frames'[i + 1])
        /\ vctrl'[i] = vctrl[i]
        /\ vctrl'[i + 1] = vctrl[i + 1]
    BY <1>1, <2>1
  <2> QED
    BY <2>2, <2>3, LevelKept DEF SameFrame
<1>4. ASSUME Reachable'
      PROVE  Len(stack') - Frame'.pos - VAvailable' \in Surplus(n)'
  <2>1. SameFrame(frames[n], frames'[n])
    BY <1>1, <1>2
  <2>2. Frame'.pos = Frame.pos /\ Surplus(n)' = Surplus(n)
    BY <1>1, <1>2, <2>1 DEF SameFrame, Surplus
  <2>3. Len(stack) - Frame.pos - VAvailable \in Surplus(n)
    BY <1>1, <1>4 DEF ExactHeights, TopExact
  <2>4. Len(stack') - VAvailable' = Len(stack) - VAvailable
    BY <1>1, <1>4
  <2>5. Len(stack') - Frame.pos - VAvailable' = Len(stack) - Frame.pos - VAvailable
    BY <1>2, <2>4, SMTT(30)
  <2> QED
    BY <2>2, <2>3, <2>5
<1> QED
  BY <1>1, <1>3, <1>4 DEF ExactHeights, TopExact

(* An entered block starts without surplus.                                *)
LEMMA OpensExact ==
  ASSUME IInv, IInv', ExactHeights, Opens
  PROVE  ExactHeights'
<1> SUFFICES ASSUME NEW n, n = Len(frames)
             PROVE  ExactHeights'
  OBVIOUS
<1>1. /\ status = "visit"
      /\ status' = "visit"
      /\ Reachable
      /\ Len(frames') = n + 1
      /\ \A i \in 1 .. n : SameFrame(frames[i], frames'[i])
      /\ \A i \in 1 .. n : vctrl'[i] = vctrl[i]
      /\ frames'[n + 1].pos - vctrl'[n + 1].height = Len(stack) - vdepth
      /\ Reachable' => Len(stack') - frames'[n + 1].pos = VAvailable'
  BY DEF Opens, KeepsFrames
<1>2. /\ n \in Nat
      /\ n \in 1 .. n
      /\ Frame = frames[n]
      /\ Frame' = frames'[n + 1]
      /\ frames[n].pos \in Nat
      /\ vctrl[n].height \in Nat
      /\ VAvailable = vdepth - vctrl[n].height
      /\ VAvailable' \in Int
      /\ vdepth \in Nat
      /\ Len(stack) \in Nat
  BY <1>1, NestFacts, NestFactsNext
<1>3. /\ frames'[n + 1].pos \in Nat
      /\ vctrl'[n + 1].height \in Nat
      /\ Len(stack') \in Nat
  BY <1>1, <1>2, NestFactsNext
<1>4. \A i \in 1 .. n - 1 : LevelExact(i)'
  <2> TAKE i \in 1 .. n - 1
  <2>1. i \in 1 .. n /\ i + 1 \in 1 .. n
    BY <1>2
  <2>2. LevelExact(i)
    BY <1>1 DEF ExactHeights
  <2>3. /\ SameFrame(frames[i], frames'[i])
        /\ SameFrame(frames[i + 1], frames'[i + 1])
        /\ vctrl'[i] = vctrl[i]
        /\ vctrl'[i + 1] = vctrl[i + 1]
    BY <1>1, <2>1
  <2> QED
    BY <2>2, <2>3, LevelKept DEF SameFrame
<1>5. LevelExact(n)'
  <2>1. SameFrame(frames[n], frames'[n]) /\ vctrl'[n] = vctrl[n]
    BY <1>1, <1>2
  <2>2. Surplus(n)' = Surplus(n) /\ frames'[n].pos = frames[n].pos
    BY <2>1 DEF SameFrame, Surplus
  <2>3. Len(stack) - frames[n].pos - VAvailable \in Surplus(n)
    BY <1>1, <1>2 DEF ExactHeights, TopExact
  <2> DEFINE p == frames[n].pos
             q == frames'[n + 1].pos
             h == vctrl[n].height
             k == vctrl'[n + 1].height
             l == Len(stack)
  <2>4. /\ p \in Nat /\ q \in Nat /\ h \in Nat /\ k \in Nat /\ l \in Nat
        /\ q - k = l - vdepth
        /\ vdepth \in Nat
        /\ VAvailable = vdepth - h
    BY <1>1, <1>2, <1>3
  <2> HIDE DEF p, q, h, k, l
  <2>5. (q - p) - (k - h) = l - p - VAvailable
    BY <2>4
  <2> QED
    BY <2>1, <2>2, <2>3, <2>5 DEF LevelExact, p, q, h, k, l
<1>6. ASSUME Reachable'
      PROVE  Len(stack') - Frame'.pos - VAvailable' \in Surplus(n + 1)'
  <2>1. Len(stack') - Frame'.pos - VAvailable' = 0
    BY <1>1, <1>2, <1>3, <1>6
  <2> QED
    BY <2>1 DEF Surplus
<1>7. \A i \in 1 .. n : LevelExact(i)'
  <2> TAKE i \in 1 .. n
  <2>1. i = n \/ i \in 1 .. n - 1
    BY <1>2
  <2> QED
    BY <1>4, <1>5, <2>1
<1>8. Len(frames') - 1 = n
  BY <1>1, <1>2
<1> QED
  BY <1>1, <1>6, <1>7, <1>8 DEF ExactHeights, TopExact

(* A closed block leaves its results and no surplus of its own.            *)
LEMMA ClosesExact ==
  ASSUME IInv, IInv', ExactHeights, Closes
  PROVE  ExactHeights'
<1> SUFFICES ASSUME NEW m, m = Len(frames) - 1
             PROVE  ExactHeights'
  OBVIOUS
<1>1. /\ status = "visit"
      /\ status' = "visit"
      /\ Len(frames) > 1
      /\ Len(frames') = m
      /\ \A i \in 1 .. m : SameFrame(frames[i], frames'[i])
      /\ \A i \in 1 .. m : vctrl'[i] = vctrl[i]
      /\ vdepth' = VFrame.height + VFrame.results
      /\ Reachable' => Len(stack') = Frame.pos + Frame.results
  BY DEF Closes, KeepsFrames
<1>2. /\ m \in Nat
      /\ m \in 1 .. m
      /\ Frame = frames[m + 1]
      /\ VFrame = vctrl[m + 1]
      /\ Frame' = frames'[m]
      /\ VAvailable' = vdepth' - vctrl'[m].height
      /\ Len(frames) = m + 1
  BY <1>1, NestFacts, NestFactsNext
<1>3. /\ frames[m].pos \in Nat
      /\ frames[m + 1].pos \in Nat
      /\ vctrl[m].height \in Nat
      /\ vctrl[m + 1].height \in Nat
      /\ Frame.results \in Nat
      /\ VFrame.results = Frame.results
  BY <1>1, <1>2, NestFacts, FramesAndControl
<1>4. \A i \in 1 .. m - 1 : LevelExact(i)'
  <2> TAKE i \in 1 .. m - 1
  <2>1. i \in 1 .. m /\ i + 1 \in 1 .. m
    BY <1>2
  <2>2. LevelExact(i)
    BY <1>1, <2>1 DEF ExactHeights
  <2>3. /\ SameFrame(frames[i], frames'[i])
        /\ SameFrame(frames[i + 1], frames'[i + 1])
        /\ vctrl'[i] = vctrl[i]
        /\ vctrl'[i + 1] = vctrl[i + 1]
    BY <1>1, <2>1
  <2> QED
    BY <2>2, <2>3, LevelKept DEF SameFrame
<1>5. ASSUME Reachable'
      PROVE  Len(stack') - Frame'.pos - VAvailable' \in Surplus(m)'
  <2>1. SameFrame(frames[m], frames'[m]) /\ vctrl'[m] = vctrl[m]
    BY <1>1, <1>2
  <2>2. /\ Surplus(m)' = Surplus(m)
        /\ Frame'.pos = frames[m].pos
        /\ VAvailable' = vdepth' - vctrl[m].height
    BY <1>2, <2>1 DEF SameFrame, Surplus
  <2>3. (frames[m + 1].pos - frames[m].pos)
          - (vctrl[m + 1].height - vctrl[m].height) \in Surplus(m)
    BY <1>1, <1>2 DEF ExactHeights, LevelExact
  <2> DEFINE p == frames[m].pos
             q == frames[m + 1].pos
             h == vctrl[m].height
             k == vctrl[m + 1].height
             r == Frame.results
  <2>4. /\ p \in Nat /\ q \in Nat /\ h \in Nat /\ k \in Nat /\ r \in Nat
        /\ Len(stack') = q + r
        /\ vdepth' = k + r
    BY <1>1, <1>2, <1>3, <1>5
  <2> HIDE DEF p, q, h, k, r
  <2>5. Len(stack') - p - (vdepth' - h) = (q - p) - (k - h)
    BY <2>4
  <2> QED
    BY <2>2, <2>3, <2>5 DEF p, q, h, k
<1> QED
  BY <1>1, <1>4, <1>5 DEF ExactHeights, TopExact

(* An else arm starts with the surplus of its then arm, at most its        *)
(* results.                                                                *)
LEMMA TurnsExact ==
  ASSUME IInv, IInv', ExactHeights, Turns
  PROVE  ExactHeights'
<1> SUFFICES ASSUME NEW n, n = Len(frames)
             PROVE  ExactHeights'
  OBVIOUS
<1>1. /\ status = "visit"
      /\ status' = "visit"
      /\ Len(frames') = n
      /\ \A i \in 1 .. n - 1 : SameFrame(frames[i], frames'[i])
      /\ \A i \in 1 .. n - 1 : vctrl'[i] = vctrl[i]
      /\ frames'[n].lty = "Else"
      /\ frames'[n].pos = Frame.pos
      /\ frames'[n].results = Frame.results
      /\ vctrl'[n].height = VFrame.height
      /\ Len(stack') - Frame.pos - VAvailable' \in {0, Frame.results}
  BY DEF Turns, KeepsFrames
<1>2. /\ n \in Nat
      /\ n \in 1 .. n
      /\ Frame = frames[n]
      /\ VFrame = vctrl[n]
      /\ Frame' = frames'[n]
  BY <1>1, NestFacts, NestFactsNext
<1>3. \A i \in 1 .. n - 1 : LevelExact(i)'
  <2> TAKE i \in 1 .. n - 1
  <2>1. i + 1 \in 1 .. n - 1 \/ i + 1 = n
    BY <1>2
  <2>2. LevelExact(i)
    BY <1>1 DEF ExactHeights
  <2>3. /\ SameFrame(frames[i], frames'[i])
        /\ vctrl'[i] = vctrl[i]
    BY <1>1
  <2>4. /\ frames'[i + 1].pos = frames[i + 1].pos
        /\ vctrl'[i + 1].height = vctrl[i + 1].height
    BY <1>1, <1>2, <2>1 DEF SameFrame
  <2> QED
    BY <2>2, <2>3, <2>4, LevelKept DEF SameFrame
<1>4. Len(stack') - Frame'.pos - VAvailable' \in Surplus(n)'
  BY <1>1, <1>2 DEF Surplus
<1> QED
  BY <1>1, <1>3, <1>4 DEF ExactHeights, TopExact

(* The heights agree up to a surplus after a step of any shape.            *)
LEMMA StepExact ==
  ASSUME IInv, IInv', ExactHeights, Shape
  PROVE  ExactHeights'
<1>1. CASE Idles
  BY <1>1 DEF Idles, ExactHeights, LevelExact, TopExact, Surplus, Frame, Top,
             VAvailable, VFrame, Reachable, Visiting
<1>2. CASE Refuses \/ Returns
  BY <1>2 DEF Refuses, Returns, ExactHeights
<1> QED
  BY <1>1, <1>2, StaysExact, OpensExact, ClosesExact, TurnsExact DEF Shape

-----------------------------------------------------------------------------
(* Where valid bodies are refused.                                         *)

(* A refusal is at one of the two known ends.                              *)
LEMMA RefusesAtKnownEnd ==
  ASSUME IInv, ExactHeights, Refuses
  PROVE  FailsOnlyAtKnownEnds'
<1> SUFFICES ASSUME NEW n, n = Len(frames)
             PROVE  FailsOnlyAtKnownEnds'
  OBVIOUS
<1>1. /\ status = "visit"
      /\ Reachable
      /\ ins # 0
      /\ UNCHANGED <<frames, stack, blockStack, phis, ins>>
      /\ \/ /\ status' = "abort"
            /\ Len(stack) # Frame.pos + Frame.results
         \/ /\ status' = "assert"
            /\ Frame.lty = "Loop"
            /\ Len(stack) < Len(phis[Top(blockStack).target])
  BY DEF Refuses, Reachable
<1>2. /\ Frame = frames[n]
      /\ Len(stack) \in Nat
      /\ Frame.pos \in Nat
      /\ Frame.results \in Nat
      /\ VAvailable = Frame.results
  BY <1>1, NestFacts, FramesAndControl DEF Refuses
<1>3. Len(stack) - Frame.pos - Frame.results
        \in IF Frame.lty = "Else" THEN {0, Frame.results} ELSE {0}
  BY <1>1, <1>2 DEF ExactHeights, TopExact, Surplus
<1>4. ASSUME Len(stack) # Frame.pos + Frame.results
      PROVE  /\ Frame.lty = "Else"
             /\ Frame.results > 0
             /\ Len(stack) = Frame.pos + 2 * Frame.results
  <2> DEFINE l == Len(stack)
             p == Frame.pos
             r == Frame.results
  <2>1. l \in Nat /\ p \in Nat /\ r \in Nat /\ l # p + r
    BY <1>2, <1>4
  <2>2. /\ Frame.lty = "Else" => l - p - r \in {0, r}
        /\ Frame.lty # "Else" => l - p - r \in {0}
    BY <1>3
  <2> HIDE DEF l, p, r
  <2>3. l - p - r # 0
    BY <2>1
  <2>4. Frame.lty = "Else" /\ l - p - r = r
    BY <2>2, <2>3
  <2>5. r > 0 /\ l = p + 2 * r
    BY <2>1, <2>3, <2>4
  <2> QED
    BY <2>4, <2>5 DEF l, p, r
<1>5. Frame' = Frame
  BY <1>1 DEF Frame, Top
<1>6. CASE status' = "abort"
  BY <1>1, <1>4, <1>5, <1>6 DEF FailsOnlyAtKnownEnds
<1>7. CASE status' = "assert"
  BY <1>1, <1>5, <1>7 DEF FailsOnlyAtKnownEnds, Top
<1> QED
  BY <1>1, <1>6, <1>7

(* A step refuses the body at one of the known ends or not at all.         *)
LEMMA StepFailsKnown ==
  ASSUME IInv, ExactHeights, FailsOnlyAtKnownEnds, Shape
  PROVE  FailsOnlyAtKnownEnds'
<1>1. CASE Idles
  BY <1>1 DEF Idles, FailsOnlyAtKnownEnds, Frame, Top
<1>2. CASE status' \in {"visit", "done"}
  BY <1>2 DEF FailsOnlyAtKnownEnds
<1> QED
  BY <1>1, <1>2, RefusesAtKnownEnd
     DEF Shape, Stays, Opens, Closes, Turns, Returns

(* The heights, and with them the states of the refusals.                  *)
ExactInv == NestInv /\ ExactHeights /\ FailsOnlyAtKnownEnds

(* The function starts without surplus.                                    *)
LEMMA InitExact == LInit => ExactInv
<1> SUFFICES ASSUME LInit PROVE ExactInv
  OBVIOUS
<1>1. /\ Len(frames) = 1
      /\ frames[1].pos = 0
      /\ frames[1].lty = "Func"
      /\ Len(stack) = 0
      /\ vdepth = 0
      /\ vctrl[1].height = 0
      /\ Len(vctrl) = 1
      /\ brt = 0
      /\ status = "visit"
  BY DEF LInit, Init, VInit
<1>2. IInv
  BY InitIInv
<1>3. TableWaits /\ PosGrow
  BY <1>1 DEF TableWaits, PosGrow
<1>4. Frame.pos = 0 /\ VAvailable = 0
  BY <1>1 DEF Frame, Top, VAvailable, VFrame
<1>5. Surplus(1) = {0}
  BY <1>1 DEF Surplus
<1>6. ExactHeights
  BY <1>1, <1>4, <1>5 DEF ExactHeights, TopExact
<1> QED
  BY <1>1, <1>2, <1>3, <1>6 DEF ExactInv, NestInv, FailsOnlyAtKnownEnds

(* For every translator state the heights of the two stacks differ only by *)
(* what an unreachable end of a then arm has left to its else arm.         *)
THEOREM ExactInvariant ==
  ASSUME Exprs \subseteq Supported
  PROVE  Spec => []ExactInv
<1>1. ASSUME ExactInv, [LNext \/ Stopped]_lvars
      PROVE  ExactInv'
  <2>1. /\ IInv /\ TableWaits /\ PosGrow
        /\ ExactHeights
        /\ FailsOnlyAtKnownEnds
    BY <1>1 DEF ExactInv, NestInv
  <2>2. Shape
    BY <1>1, <2>1, StepShapes
  <2>3. IInv'
    BY <1>1, <2>1, NextIInv
  <2>4. TableWaits'
    BY <1>1, <2>1, StepWaits
  <2> QED
    BY <2>1, <2>2, <2>3, <2>4, StepPosGrow, StepExact, StepFailsKnown
       DEF ExactInv, NestInv
<1> QED
  BY <1>1, InitExact, PTL DEF Spec

(* The translator refuses no valid body but for two ends: that of an else  *)
(* arm which found the results of its then arm on the stack already, and   *)
(* that of a loop left with fewer operands than it has parameters.         *)
THEOREM OnlyKnownRefusals ==
  ASSUME Exprs \subseteq Supported
  PROVE  Spec => []FailsOnlyAtKnownEnds
<1>1. ExactInv => FailsOnlyAtKnownEnds
  BY DEF ExactInv
<1> QED
  BY <1>1, ExactInvariant, PTL

-----------------------------------------------------------------------------
(* The bodies that are never refused.                                      *)

(* The ifs have no results and the loops no parameters, as in WebAssembly  *)
(* 1.0 without values at the if.                                           *)
PlainControl == /\ \A sig \in LoopSigs : sig[1] = 0
                /\ \A sig \in IfSigs : sig[2] = 0

(* ... so the arms leave nothing behind, and the blocks lie equally high.  *)
LevelInv ==
  status = "visit" =>
    \A i \in 1 .. Len(frames) :
      /\ frames[i].lty \in {"If", "Else"} => frames[i].results = 0
      /\ frames[i].lty = "Loop" => vctrl[i].arity = 0
      /\ frames[i].pos = vctrl[i].height

(* The two stacks are equally high at a reached place.                     *)
LEMMA SurplusGone ==
  ASSUME IInv, ExactHeights, LevelInv, Reachable
  PROVE  Len(stack) = vdepth
<1> SUFFICES ASSUME NEW n, n = Len(frames)
             PROVE  Len(stack) = vdepth
  OBVIOUS
<1>1. status = "visit"
  BY DEF Reachable, Visiting
<1>2. /\ n \in 1 .. n
      /\ n \in Nat
      /\ frames[n].pos \in Nat
      /\ Frame = frames[n]
      /\ VAvailable = vdepth - vctrl[n].height
      /\ Len(stack) \in Nat
      /\ vdepth \in Nat
  BY <1>1, NestFacts
<1>3. /\ frames[n].lty = "Else" => frames[n].results = 0
      /\ frames[n].pos = vctrl[n].height
  BY <1>1, <1>2 DEF LevelInv
<1>4. Len(stack) - frames[n].pos - (vdepth - frames[n].pos) = 0
  BY <1>1, <1>2, <1>3 DEF ExactHeights, TopExact, Surplus
<1> QED
  BY <1>2, <1>4

(* The surplus stays nothing after a step of any shape.                    *)
LEMMA StepLevel ==
  ASSUME PlainControl, IInv, IInv', ExactHeights, LevelInv, Shape
  PROVE  LevelInv'
<1> SUFFICES ASSUME NEW n, n = Len(frames)
             PROVE  LevelInv'
  OBVIOUS
<1>1. CASE Idles
  BY <1>1 DEF Idles, LevelInv
<1>2. CASE Refuses \/ Returns
  BY <1>2 DEF Refuses, Returns, LevelInv
<1>3. CASE Stays
  BY <1>3 DEF Stays, KeepsFrames, SameFrame, LevelInv
<1>4. CASE Closes
  <2>1. /\ status = "visit"
        /\ Len(frames') = n - 1
        /\ n \in Nat
        /\ \A i \in 1 .. n - 1 : SameFrame(frames[i], frames'[i])
        /\ \A i \in 1 .. n - 1 : vctrl'[i] = vctrl[i]
    BY <1>4, NestFacts DEF Closes, KeepsFrames
  <2>2. \A i \in 1 .. n - 1 : i \in 1 .. n
    BY <2>1
  <2> QED
    BY <2>1, <2>2 DEF LevelInv, SameFrame
<1>5. CASE Turns
  <2>1. /\ status = "visit"
        /\ Len(frames') = n
        /\ n \in Nat
        /\ n \in 1 .. n
        /\ \A i \in 1 .. n - 1 : SameFrame(frames[i], frames'[i])
        /\ \A i \in 1 .. n - 1 : vctrl'[i] = vctrl[i]
        /\ frames[n].lty = "If"
        /\ frames'[n].lty = "Else"
        /\ frames'[n].pos = frames[n].pos
        /\ frames'[n].results = frames[n].results
        /\ vctrl'[n].height = vctrl[n].height
    BY <1>5, NestFacts DEF Turns, KeepsFrames
  <2>2. frames[n].results = 0 /\ frames[n].pos = vctrl[n].height
    BY <2>1 DEF LevelInv
  <2> QED
    BY <2>1, <2>2 DEF LevelInv, SameFrame
<1>6. CASE Opens
  <2>1. /\ status = "visit"
        /\ Reachable
        /\ Len(frames') = n + 1
        /\ \A i \in 1 .. n : SameFrame(frames[i], frames'[i])
        /\ \A i \in 1 .. n : vctrl'[i] = vctrl[i]
        /\ frames'[n + 1].lty \in {"Block", "Loop", "If"}
        /\ frames'[n + 1].lty = "If" =>
             \E sig \in IfSigs : frames'[n + 1].results = sig[2]
        /\ frames'[n + 1].lty = "Loop" =>
             \E sig \in LoopSigs : vctrl'[n + 1].arity = sig[1]
        /\ frames'[n + 1].pos - vctrl'[n + 1].height = Len(stack) - vdepth
    BY <1>6 DEF Opens, KeepsFrames
  <2>2. /\ n \in Nat
        /\ frames'[n + 1].pos \in Nat
        /\ vctrl'[n + 1].height \in Nat
        /\ Len(stack) = vdepth
        /\ vdepth \in Nat
    BY <1>6, <2>1, NestFacts, NestFactsNext, SurplusGone DEF Opens
  <2>3. frames'[n + 1].pos = vctrl'[n + 1].height
    BY <2>1, <2>2
  <2>4. /\ frames'[n + 1].lty \in {"If", "Else"} => frames'[n + 1].results = 0
        /\ frames'[n + 1].lty = "Loop" => vctrl'[n + 1].arity = 0
    BY <2>1 DEF PlainControl
  <2>5. ASSUME NEW i \in 1 .. n
        PROVE  /\ frames'[i].lty \in {"If", "Else"} => frames'[i].results = 0
               /\ frames'[i].lty = "Loop" => vctrl'[i].arity = 0
               /\ frames'[i].pos = vctrl'[i].height
    BY <2>1 DEF LevelInv, SameFrame
  <2>6. \A i \in 1 .. n + 1 : i = n + 1 \/ i \in 1 .. n
    BY <2>2
  <2> QED
    BY <2>1, <2>3, <2>4, <2>5, <2>6 DEF LevelInv
<1> QED
  BY <1>1, <1>2, <1>3, <1>4, <1>5, <1>6 DEF Shape

(* The invariant of these bodies.                                          *)
PlainInv == ExactInv /\ LevelInv /\ NeverFails

(* Without surplus no step refuses the body.                               *)
LEMMA PlainNeverRefused ==
  ASSUME IInv, ExactHeights, LevelInv, NeverFails, Shape
  PROVE  NeverFails'
<1>1. CASE Idles
  BY <1>1 DEF Idles, NeverFails
<1>2. CASE Refuses
  <2> SUFFICES ASSUME NEW n, n = Len(frames)
               PROVE  FALSE
    OBVIOUS
  <2>1. /\ status = "visit"
        /\ Reachable
        /\ VAvailable = Frame.results
        /\ Frame = frames[n]
        /\ VAvailable = vdepth - vctrl[n].height
        /\ n \in 1 .. n
        /\ Frame.pos \in Nat
        /\ Frame.results \in Nat
        /\ vdepth \in Nat
    BY <1>2, NestFacts, FramesAndControl DEF Refuses
  <2>2. Frame.pos = vctrl[n].height /\ Len(stack) = vdepth
    BY <2>1, SurplusGone DEF LevelInv
  <2>3. Len(stack) = Frame.pos + Frame.results
    BY <2>1, <2>2
  <2>4. /\ Frame.lty = "Loop"
        /\ Len(stack) < Len(phis[Top(blockStack).target])
    BY <1>2, <2>3 DEF Refuses
  <2>5. Len(phis[Top(blockStack).target]) = 0
    <3>1. /\ FrameOK(n)
          /\ Len(blockStack) = n
          /\ vctrl[n].arity = 0
      BY <2>1, <2>4, FramesAndControl DEF IInv, FramesOK, LevelInv
    <3> QED
      BY <3>1 DEF FrameOK, Top
  <2> QED
    BY <2>1, <2>3, <2>4, <2>5
<1> QED
  BY <1>1, <1>2 DEF Shape, Stays, Opens, Closes, Turns, Returns, NeverFails

(* In every state of the translation of a plain body the stacks are level  *)
(* and nothing has been refused.                                           *)
THEOREM PlainInvariant ==
  ASSUME Exprs \subseteq Supported, PlainControl
  PROVE  Spec => []PlainInv
<1>1. LInit => LevelInv /\ NeverFails
  <2> SUFFICES ASSUME LInit PROVE LevelInv /\ NeverFails
    OBVIOUS
  <2>1. /\ Len(frames) = 1
        /\ frames[1].pos = 0
        /\ frames[1].lty = "Func"
        /\ vctrl[1].height = 0
        /\ status = "visit"
    BY DEF LInit, Init, VInit
  <2> QED
    BY <2>1 DEF LevelInv, NeverFails
<1>2. ASSUME ExactInv, ExactInv', LevelInv, NeverFails, [LNext \/ Stopped]_lvars
      PROVE  LevelInv' /\ NeverFails'
  <2>1. IInv /\ IInv' /\ TableWaits /\ ExactHeights
    BY <1>2 DEF ExactInv, NestInv
  <2>2. Shape
    BY <1>2, <2>1, StepShapes
  <2> QED
    BY <1>2, <2>1, <2>2, StepLevel, PlainNeverRefused
<1> QED
  BY <1>1, <1>2, ExactInvariant, PTL DEF Spec, PlainInv

(* A valid body whose ifs have no results and whose loops no parameters is *)
(* never refused: no check at the end of a block and no assertion fails.   *)
THEOREM PlainBodiesTranslated ==
  ASSUME Exprs \subseteq Supported, PlainControl
  PROVE  Spec => []NeverFails
<1>1. PlainInv => NeverFails
  BY DEF PlainInv
<1> QED
  BY <1>1, PlainInvariant, PTL

(* ... and the translator's operand stack is as high as the validator's,   *)
(* at every reachable place and under every open block.                    *)
THEOREM PlainHeightsAgree ==
  ASSUME Exprs \subseteq Supported, PlainControl
  PROVE  Spec => []StackAgrees
<1>1. PlainInv => StackAgrees
  <2> SUFFICES ASSUME PlainInv PROVE StackAgrees
    OBVIOUS
  <2>1. IInv /\ ExactHeights /\ LevelInv
    BY DEF PlainInv, ExactInv, NestInv
  <2>2. Reachable => Len(stack) = vdepth
    BY <2>1, SurplusGone
  <2>3. status = "visit" => \A i \in DOMAIN vctrl : frames[i].pos = vctrl[i].height
    <3>1. status = "visit" => Len(vctrl) = Len(frames)
      BY <2>1, NestFacts
    <3>2. DOMAIN vctrl = 1 .. Len(vctrl)
      BY <2>1 DEF IInv, VTypeOK
    <3> QED
      BY <2>1, <3>1, <3>2 DEF LevelInv
  <2> QED
    BY <2>2, <2>3 DEF StackAgrees
<1> QED
  BY <1>1, PlainInvariant, PTL
=============================================================================
