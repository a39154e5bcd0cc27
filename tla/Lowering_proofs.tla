-------------------------- MODULE Lowering_proofs ---------------------------
(***************************************************************************)
(* Proofs about Lowering: for every signature set, every bound and every   *)
(* set of supported expressions, the translation of valid bodies keeps its *)
(* types, never runs out of operands, resolves labels as the validator     *)
(* does and gives every PHI one incoming pair per edge.                    *)
(***************************************************************************)
EXTENDS Lowering, TLAPS, SequenceTheorems

-----------------------------------------------------------------------------
(* Sequences.                                                              *)

(* All but the last n elements.                                            *)
LEMMA DropLastFacts ==
  ASSUME NEW S, NEW s \in Seq(S), NEW n \in Nat, n <= Len(s)
  PROVE  /\ DropLast(s, n) \in Seq(S)
         /\ Len(DropLast(s, n)) = Len(s) - n
         /\ \A i \in 1 .. Len(s) - n : DropLast(s, n)[i] = s[i]
<1>1. \A i \in 1 .. Len(s) - n : s[i] \in S
  OBVIOUS
<1> QED
  BY <1>1, SubSeqProperties DEF DropLast

(* All but the last element.                                               *)
LEMMA Drop1Facts ==
  ASSUME NEW S, NEW s \in Seq(S), Len(s) > 0
  PROVE  /\ Drop1(s) \in Seq(S)
         /\ Len(Drop1(s)) = Len(s) - 1
         /\ \A i \in 1 .. Len(s) - 1 : Drop1(s)[i] = s[i]
<1>1. Drop1(s) = DropLast(s, 1)
  BY DEF Drop1, DropLast
<1>2. 1 \in Nat /\ 1 <= Len(s)
  OBVIOUS
<1> QED
  BY <1>1, <1>2, DropLastFacts, SMTT(30)

(* The last n elements.                                                    *)
LEMMA LastNFacts ==
  ASSUME NEW S, NEW s \in Seq(S), NEW n \in Nat, n <= Len(s)
  PROVE  /\ LastN(s, n) \in Seq(S)
         /\ Len(LastN(s, n)) = n
         /\ \A i \in 1 .. n : LastN(s, n)[i] = s[Len(s) - n + i]
<1>1. \A i \in Len(s) - n + 1 .. Len(s) : s[i] \in S
  OBVIOUS
<1> QED
  BY <1>1, SubSeqProperties DEF LastN

(* A prefix.                                                               *)
LEMMA PrefixFacts ==
  ASSUME NEW S, NEW s \in Seq(S), NEW n \in Nat, n <= Len(s)
  PROVE  /\ SubSeq(s, 1, n) \in Seq(S)
         /\ Len(SubSeq(s, 1, n)) = n
         /\ \A i \in 1 .. n : SubSeq(s, 1, n)[i] = s[i]
<1>1. \A i \in 1 .. n : s[i] \in S
  OBVIOUS
<1> QED
  BY <1>1, SubSeqProperties

-----------------------------------------------------------------------------
(* Construction of the IR.                                                 *)

(* Fresh PHI lists.                                                        *)
LEMMA EmptyPhisFacts ==
  ASSUME NEW n \in Nat
  PROVE  /\ EmptyPhis(n) \in Seq(Seq(Incoming))
         /\ Len(EmptyPhis(n)) = n
         /\ \A k \in 1 .. n : EmptyPhis(n)[k] = << >>
  BY DEF EmptyPhis

(* One incoming pair more for every PHI of a list.                         *)
LEMMA AddIncomingFacts ==
  ASSUME NEW ps \in Seq(Seq(Incoming)), NEW vals \in Seq(Value),
         Len(vals) = Len(ps), NEW f \in Nat
  PROVE  /\ AddIncoming(ps, vals, f) \in Seq(Seq(Incoming))
         /\ Len(AddIncoming(ps, vals, f)) = Len(ps)
         /\ \A k \in 1 .. Len(ps) :
              Len(AddIncoming(ps, vals, f)[k]) = Len(ps[k]) + 1
  BY DEF AddIncoming, Incoming

(* The PHIs of a block as values.                                          *)
LEMMA PhisFacts ==
  ASSUME NEW b \in Nat, phis[b] \in Seq(Seq(Incoming))
  PROVE  Phis(b) \in Seq(Value) /\ Len(Phis(b)) = Len(phis[b])
  BY DEF Phis, Phi, Value

(* An edge into block b.                                                   *)
LEMMA PredsWithFacts ==
  ASSUME TypeOK, NEW b \in Blocks, NEW from \in Nat
  PROVE  /\ PredsWith(b, from) \in Seq(Seq(Nat))
         /\ Len(PredsWith(b, from)) = Len(term)
         /\ \A c \in Blocks :
              Len(PredsWith(b, from)[c]) = Len(preds[c]) + IF c = b THEN 1 ELSE 0
<1> DEFINE new == Append(preds[b], from)
<1>1. preds \in Seq(Seq(Nat)) /\ Len(preds) = Len(term) /\ b \in 1 .. Len(preds)
  BY DEF TypeOK, Blocks
<1>2. new \in Seq(Nat) /\ Len(new) = Len(preds[b]) + 1
  BY <1>1
<1>3. PredsWith(b, from) = [preds EXCEPT ![b] = new]
  BY DEF PredsWith
<1>4. \A c \in Blocks : Len(preds[c]) \in Nat
  BY <1>1 DEF Blocks
<1> HIDE DEF new
<1>5. /\ PredsWith(b, from) \in Seq(Seq(Nat))
      /\ Len(PredsWith(b, from)) = Len(term)
      /\ \A c \in Blocks : PredsWith(b, from)[c] = IF c = b THEN new ELSE preds[c]
  BY <1>1, <1>2, <1>3, ExceptSeq DEF Blocks
<1>6. ASSUME NEW c \in Blocks
      PROVE  Len(PredsWith(b, from)[c]) = Len(preds[c]) + IF c = b THEN 1 ELSE 0
  <2>1. CASE c = b
    BY <1>2, <1>5, <2>1
  <2>2. CASE c # b
    BY <1>4, <1>5, <2>2
  <2> QED
    BY <2>1, <2>2
<1> QED
  BY <1>5, <1>6

(* The incoming pairs of an edge into block b.                             *)
LEMMA PhisWithFacts ==
  ASSUME TypeOK, NEW b \in Blocks, NEW s \in Seq(Value), NEW via \in Nat,
         Len(phis[b]) <= Len(s)
  PROVE  /\ PhisWith(b, s, via) \in Seq(Seq(Seq(Incoming)))
         /\ Len(PhisWith(b, s, via)) = Len(term)
         /\ \A c \in Blocks :
              /\ Len(PhisWith(b, s, via)[c]) = Len(phis[c])
              /\ \A k \in 1 .. Len(phis[c]) :
                   Len(PhisWith(b, s, via)[c][k])
                     = Len(phis[c][k]) + IF c = b THEN 1 ELSE 0
<1> DEFINE new == AddIncoming(phis[b], BranchArgs(s, b), via)
<1>1. phis[b] \in Seq(Seq(Incoming)) /\ b \in 1 .. Len(phis)
  BY DEF TypeOK, Blocks
<1>2. BranchArgs(s, b) \in Seq(Value) /\ Len(BranchArgs(s, b)) = Len(phis[b])
  BY <1>1, LastNFacts DEF BranchArgs
<1>3. /\ new \in Seq(Seq(Incoming))
      /\ Len(new) = Len(phis[b])
      /\ \A k \in 1 .. Len(phis[b]) : Len(new[k]) = Len(phis[b][k]) + 1
  BY <1>1, <1>2, AddIncomingFacts
<1>4. PhisWith(b, s, via) = [phis EXCEPT ![b] = new]
  BY DEF PhisWith
<1>5. phis \in Seq(Seq(Seq(Incoming))) /\ Len(phis) = Len(term)
  BY DEF TypeOK
<1> HIDE DEF new
<1>6. \A c \in Blocks : phis[c] \in Seq(Seq(Incoming))
  BY <1>5 DEF Blocks
<1>7. \A c \in Blocks : \A k \in 1 .. Len(phis[c]) : Len(phis[c][k]) \in Nat
  BY <1>6
<1>8. /\ PhisWith(b, s, via) \in Seq(Seq(Seq(Incoming)))
      /\ Len(PhisWith(b, s, via)) = Len(term)
      /\ \A c \in Blocks : PhisWith(b, s, via)[c] = IF c = b THEN new ELSE phis[c]
  BY <1>1, <1>3, <1>4, <1>5, ExceptSeq DEF Blocks
<1>9. ASSUME NEW c \in Blocks
      PROVE  /\ Len(PhisWith(b, s, via)[c]) = Len(phis[c])
             /\ \A k \in 1 .. Len(phis[c]) :
                  Len(PhisWith(b, s, via)[c][k])
                    = Len(phis[c][k]) + IF c = b THEN 1 ELSE 0
  <2>1. CASE c = b
    BY <1>3, <1>8, <2>1
  <2>2. CASE c # b
    BY <1>7, <1>8, <2>2
  <2> QED
    BY <2>1, <2>2
<1> QED
  BY <1>8, <1>9

(* The part of it a step needs that only adds pairs.                       *)
LEMMA PhisWithLengths ==
  ASSUME TypeOK, NEW b \in Blocks, NEW s \in Seq(Value), NEW via \in Nat,
         Len(phis[b]) <= Len(s)
  PROVE  /\ PhisWith(b, s, via) \in Seq(Seq(Seq(Incoming)))
         /\ Len(PhisWith(b, s, via)) = Len(term)
         /\ \A c \in Blocks : Len(PhisWith(b, s, via)[c]) = Len(phis[c])
<1> DEFINE one(c) == IF c = b THEN 1 ELSE 0
<1>1. /\ PhisWith(b, s, via) \in Seq(Seq(Seq(Incoming)))
      /\ Len(PhisWith(b, s, via)) = Len(term)
      /\ \A c \in Blocks :
           /\ Len(PhisWith(b, s, via)[c]) = Len(phis[c])
           /\ \A k \in 1 .. Len(phis[c]) :
                Len(PhisWith(b, s, via)[c][k]) = Len(phis[c][k]) + one(c)
  BY PhisWithFacts, ZenonT(60)
<1> HIDE DEF one
<1> QED
  BY <1>1

(* A terminator for block b.                                               *)
LEMMA TerminatedFacts ==
  ASSUME TypeOK, NEW b \in Blocks, NEW t \in Terminators
  PROVE  /\ Terminated(b, t) \in Seq(Terminators)
         /\ Len(Terminated(b, t)) = Len(term)
  BY ExceptSeq DEF Terminated, TypeOK, Blocks

-----------------------------------------------------------------------------
(* Frames.                                                                 *)

(* Frame g is frame f, but for the entry.                                  *)
SameFrame(f, g) ==
  /\ g.lty = f.lty
  /\ g.exit = f.exit
  /\ g.pos = f.pos
  /\ g.results = f.results
  /\ g.saved = f.saved
  /\ g.else = f.else

(* Setting the innermost entry changes nothing else.                       *)
LEMMA SetEntryFacts ==
  ASSUME TypeOK, NEW b \in Nat, Len(frames) > 0
  PROVE  /\ SetEntry(b) \in Seq(FrameType)
         /\ Len(SetEntry(b)) = Len(frames)
         /\ \A i \in 1 .. Len(frames) : SameFrame(frames[i], SetEntry(b)[i])
         /\ SetEntry(b)[Len(frames)].entry = b
<1> DEFINE n == Len(frames)
           f == [frames[n] EXCEPT !.entry = b]
<1>1. frames \in Seq(FrameType) /\ n \in 1 .. Len(frames)
  BY DEF TypeOK
<1>2. \A i \in 1 .. n : frames[i] \in FrameType
  BY <1>1
<1>3. f \in FrameType
  BY <1>1, <1>2 DEF FrameType
<1>4. SetEntry(b) = [frames EXCEPT ![n] = f]
  BY DEF SetEntry
<1>5. SameFrame(frames[n], f) /\ f.entry = b
  BY <1>1, <1>2 DEF SameFrame, FrameType
<1> HIDE DEF f
<1>6. /\ SetEntry(b) \in Seq(FrameType)
      /\ Len(SetEntry(b)) = n
      /\ \A i \in 1 .. n : SetEntry(b)[i] = IF i = n THEN f ELSE frames[i]
  BY <1>1, <1>3, <1>4, ExceptSeq
<1>7. \A i \in 1 .. n : SameFrame(frames[i], SetEntry(b)[i])
  BY <1>5, <1>6 DEF SameFrame
<1> QED
  BY <1>1, <1>5, <1>6, <1>7

(* A nested visitBlock: one frame more, the callers' frames as they were   *)
(* but for an entry.                                                       *)
LEMMA CallFacts ==
  ASSUME TypeOK, NEW b \in Nat, NEW f \in FrameType, Len(frames) > 0
  PROVE  /\ Call(b, f) \in Seq(FrameType)
         /\ Len(Call(b, f)) = Len(frames) + 1
         /\ Call(b, f)[Len(frames) + 1] = f
         /\ \A i \in 1 .. Len(frames) : SameFrame(frames[i], Call(b, f)[i])
<1>1. Call(b, f) = Append(SetEntry(b), f)
  BY DEF Call
<1>2. /\ Call(b, f) \in Seq(FrameType)
      /\ Len(Call(b, f)) = Len(SetEntry(b)) + 1
      /\ Call(b, f)[Len(SetEntry(b)) + 1] = f
      /\ \A i \in 1 .. Len(SetEntry(b)) : Call(b, f)[i] = SetEntry(b)[i]
  BY <1>1, SetEntryFacts
<1> QED
  BY <1>2, SetEntryFacts

(* Its return: one frame less, the others as they were but for an entry.   *)
LEMMA ReturnToFacts ==
  ASSUME TypeOK, NEW b \in Nat, Len(frames) > 1
  PROVE  /\ ReturnTo(b) \in Seq(FrameType)
         /\ Len(ReturnTo(b)) = Len(frames) - 1
         /\ \A i \in 1 .. Len(frames) - 1 : SameFrame(frames[i], ReturnTo(b)[i])
         /\ ReturnTo(b)[Len(frames) - 1].entry = b
<1> DEFINE n == Len(frames) - 1
           f == [frames[n] EXCEPT !.entry = b]
           d == Drop1(frames)
<1>1. frames \in Seq(FrameType) /\ n \in 1 .. n
  BY DEF TypeOK
<1>2. \A i \in 1 .. n : frames[i] \in FrameType
  BY <1>1
<1>3. f \in FrameType
  BY <1>1, <1>2 DEF FrameType
<1>4. SameFrame(frames[n], f) /\ f.entry = b
  BY <1>1, <1>2 DEF SameFrame, FrameType
<1>5. /\ d \in Seq(FrameType)
      /\ Len(d) = n
      /\ \A i \in 1 .. n : d[i] = frames[i]
  BY <1>1, Drop1Facts
<1>6. ReturnTo(b) = [d EXCEPT ![n] = f]
  BY <1>1, <1>5 DEF ReturnTo
<1> HIDE DEF f, d
<1>7. /\ ReturnTo(b) \in Seq(FrameType)
      /\ Len(ReturnTo(b)) = n
      /\ \A i \in 1 .. n : ReturnTo(b)[i] = IF i = n THEN f ELSE d[i]
  BY <1>1, <1>3, <1>5, <1>6, ExceptSeq
<1>8. \A i \in 1 .. n : SameFrame(frames[i], ReturnTo(b)[i])
  BY <1>4, <1>5, <1>7 DEF SameFrame
<1> QED
  BY <1>1, <1>4, <1>7, <1>8

-----------------------------------------------------------------------------
(* Plain expressions.                                                      *)

(* Every handler pops no more than it asserts to be there.                 *)
LEMMA EffectFacts ==
  ASSUME NEW e \in DOMAIN dispatchExprs
  PROVE  /\ dispatchExprs[e] \in [need : Nat, pop : Nat, push : Nat]
         /\ dispatchExprs[e].pop <= dispatchExprs[e].need
BY DEF dispatchExprs, Effect, VisitConstInst, VisitLocalGet, VisitLocalSet,
       VisitLocalTee, VisitGlobalGet, VisitGlobalSet, VisitLoadInst,
       VisitStoreInst, VisitSelectExpr, VisitConvertExpr, VisitUnaryInst,
       VisitBinaryInst, VisitCompareExpr, VisitCallInst,
       VisitCallIndirectInst, MemoryGrow, MemorySize, MemoryCopy, MemoryFill,
       Drop, SimdShuffle, VisitSimdLaneOp, VisitSimdLoadLane,
       VisitSimdStoreLane

(* The handler of a supported class changes the height of the stack as the *)
(* type of the expression says.                                            *)
THEOREM SupportedKeepStep ==
  ASSUME NEW e \in Supported
  PROVE  /\ e \in DOMAIN dispatchExprs
         /\ wasmType[e].params \in Nat
         /\ wasmType[e].results \in Nat
         /\ dispatchExprs[e].need = wasmType[e].params
         /\ dispatchExprs[e].push - dispatchExprs[e].pop
              = wasmType[e].results - wasmType[e].params
BY SMTT(30) DEF Supported, PlainExprs, wasmType, Type, dispatchExprs, Effect,
       VisitConstInst, VisitLocalGet, VisitLocalSet, VisitLocalTee,
       VisitGlobalGet, VisitGlobalSet, VisitLoadInst, VisitStoreInst,
       VisitSelectExpr, VisitConvertExpr, VisitUnaryInst, VisitBinaryInst,
       VisitCompareExpr, VisitCallInst, VisitCallIndirectInst, MemoryGrow,
       MemorySize, MemoryCopy, MemoryFill, Drop, SimdShuffle,
       VisitSimdLaneOp, VisitSimdLoadLane, VisitSimdStoreLane

-----------------------------------------------------------------------------
(* The inductive invariant.                                                *)

VFrameType == [kind : Labels, arity : Nat, height : Nat, params : Nat,
               results : Nat]
VTypeOK == vdepth \in Nat /\ vctrl \in Seq(VFrameType) /\ varity \in Nat

(* Every block the translation refers to is a block of the function.       *)
BlocksOK ==
  /\ ins \in 0 .. Len(term)
  /\ brt \in 0 .. Len(term)
  /\ brt # 0 => ins = 0
  /\ \A i \in 1 .. Len(frames) :
       /\ frames[i].exit \in Blocks
       /\ frames[i].lty = "If" => frames[i].else \in Blocks
  /\ \A i \in 1 .. Len(blockStack) : blockStack[i].target \in Blocks

(* The C++ recursion, the label stack and the validator's control stack    *)
(* describe the same nesting.                                              *)
FrameOK(i) ==
  /\ (frames[i].lty = "Func") <=> (i = 1)
  /\ frames[i].lty = "Func" => frames[i].results = Results
  /\ vctrl[i].kind = frames[i].lty
  /\ vctrl[i].results = frames[i].results
  /\ vctrl[i].arity = Len(phis[blockStack[i].target])
  /\ frames[i].lty # "Loop" =>
       /\ blockStack[i].target = frames[i].exit
       /\ vctrl[i].arity = frames[i].results
  /\ frames[i].lty = "If" => Len(frames[i].saved) = vctrl[i].params

FramesOK ==
  status = "visit" =>
    /\ Len(frames) > 0
    /\ Len(blockStack) = Len(frames)
    /\ Len(vctrl) = Len(frames)
    /\ \A i \in 1 .. Len(frames) : FrameOK(i)

(* Each block of the translation lies at least as far above its caller as  *)
(* the validator's, and the stack holds what the validator counts, if not  *)
(* more.                                                                   *)
HeightsOK ==
  status = "visit" =>
    /\ \A i \in 1 .. Len(frames) - 1 :
         /\ vctrl[i].height <= vctrl[i + 1].height
         /\ vctrl[i + 1].height - vctrl[i].height
              <= frames[i + 1].pos - frames[i].pos
    /\ Frame.pos <= Len(stack)
    /\ Reachable => VAvailable >= 0 /\ Len(stack) - Frame.pos >= VAvailable

IInv == TypeOK /\ VTypeOK /\ BlocksOK /\ FramesOK /\ HeightsOK
        /\ EntryTracksInsert

(* A level of the nesting that a step leaves alone.                        *)
LEMMA FrameOKKept ==
  ASSUME NEW i, FrameOK(i), SameFrame(frames[i], frames'[i]),
         blockStack'[i] = blockStack[i], vctrl'[i] = vctrl[i],
         Len(phis'[blockStack[i].target]) = Len(phis[blockStack[i].target])
  PROVE  FrameOK(i)'
BY DEF FrameOK, SameFrame

(* It holds initially.                                                     *)
LEMMA InitIInv == LInit => IInv
<1> SUFFICES ASSUME LInit PROVE IInv
  OBVIOUS
<1> USE DEF LInit, Init, VInit, EmptyPhis
<1>0. Results \in Nat
  BY ResultsAssumption
<1>1. TypeOK
  BY <1>0 DEF TypeOK, FrameType, Labels, Terminators, Value
<1>2. VTypeOK
  BY <1>0 DEF VTypeOK, VFrameType, Labels
<1>3. BlocksOK
  BY DEF BlocksOK, Blocks
<1>4. FramesOK
  BY <1>0 DEF FramesOK, FrameOK
<1>5. HeightsOK
  BY <1>0 DEF HeightsOK, Frame, Top, VAvailable, VFrame
<1>6. EntryTracksInsert
  BY DEF EntryTracksInsert, Reachable, Visiting, Frame, Top
<1> QED
  BY <1>1, <1>2, <1>3, <1>4, <1>5, <1>6 DEF IInv

-----------------------------------------------------------------------------
(* The steps of the validator.                                             *)

(* What the invariant says of the validator while a body is translated.    *)
LEMMA VFrameFacts ==
  ASSUME IInv, status = "visit"
  PROVE  /\ Len(vctrl) \in Nat \ {0}
         /\ Len(vctrl) = Len(frames)
         /\ VFrame \in VFrameType
         /\ VFrame.height \in Nat
         /\ VFrame.params \in Nat
         /\ VFrame.results \in Nat
         /\ \A i \in 1 .. Len(vctrl) : vctrl[i].arity \in Nat
         /\ vctrl \in Seq(VFrameType)
         /\ vdepth \in Nat
         /\ VAvailable = vdepth - VFrame.height
<1>1. /\ Len(vctrl) \in Nat \ {0}
      /\ Len(vctrl) = Len(frames)
      /\ vctrl \in Seq(VFrameType)
      /\ vdepth \in Nat
  BY DEF IInv, FramesOK, VTypeOK
<1>2. \A i \in 1 .. Len(vctrl) : vctrl[i] \in VFrameType
  BY <1>1
<1>3. VFrame \in VFrameType
  BY <1>1, <1>2 DEF VFrame
<1> QED
  BY <1>1, <1>2, <1>3 DEF VFrameType, VAvailable

(* ... and of the innermost visitBlock.                                    *)
LEMMA FrameFacts ==
  ASSUME IInv, status = "visit"
  PROVE  /\ Len(frames) \in Nat \ {0}
         /\ Frame = frames[Len(frames)]
         /\ Frame \in FrameType
         /\ Frame.lty \in Labels
         /\ Frame.entry \in Nat
         /\ Frame.pos \in Nat
         /\ Frame.results \in Nat
         /\ Frame.saved \in Seq(Value)
         /\ Frame.exit \in Blocks
         /\ Frame.lty = "If" => Frame.else \in Blocks
         /\ FrameOK(Len(frames))
         /\ Frame.pos <= Len(stack)
         /\ Len(blockStack) = Len(frames)
<1>1. /\ Len(frames) \in Nat \ {0}
      /\ frames \in Seq(FrameType)
      /\ Frame = frames[Len(frames)]
  BY DEF IInv, TypeOK, FramesOK, Frame, Top
<1>2. \A i \in 1 .. Len(frames) : frames[i] \in FrameType
  BY <1>1
<1>3. Frame \in FrameType
  BY <1>1, <1>2
<1>4. /\ Frame.exit \in Blocks
      /\ Frame.lty = "If" => Frame.else \in Blocks
      /\ FrameOK(Len(frames))
      /\ Frame.pos <= Len(stack)
      /\ Len(blockStack) = Len(frames)
  BY <1>1 DEF IInv, BlocksOK, FramesOK, HeightsOK
<1> QED
  BY <1>1, <1>3, <1>4 DEF FrameType

(* Plain expressions and branches keep the types.                          *)
LEMMA VPlainFacts ==
  ASSUME IInv, status = "visit", NEW n \in Nat, NEW m \in Nat, VPlain(n, m)
  PROVE  /\ VTypeOK'
         /\ UNCHANGED vctrl
         /\ VAvailable >= n
         /\ VAvailable' = VAvailable - n + m
BY VFrameFacts, SMTT(30) DEF VPlain, VAvailable, VFrame, VFrameType, VTypeOK, IInv

LEMMA VBranchFacts ==
  ASSUME IInv, status = "visit", NEW l \in VDepths, NEW n \in Nat, VBranch(l, n)
  PROVE  /\ VTypeOK'
         /\ UNCHANGED vctrl
         /\ VArity(l) \in Nat
         /\ VAvailable >= VArity(l) + n
         /\ VAvailable' = VAvailable - n
<1>1. Len(vctrl) - l \in 1 .. Len(vctrl)
  BY VFrameFacts DEF VDepths
<1>2. VArity(l) \in Nat
  BY <1>1, VFrameFacts DEF VArity
<1> QED
  BY <1>2, VFrameFacts DEF VBranch, VAvailable, VFrame, VTypeOK, IInv

(* Opening a block.                                                        *)
LEMMA VEnterFacts ==
  ASSUME IInv, status = "visit", NEW kind \in Labels, NEW np \in Nat,
         NEW nr \in Nat, NEW n \in Nat, VEnter(kind, np, nr, n)
  PROVE  LET f == [kind |-> kind, arity |-> IF kind = "Loop" THEN np ELSE nr,
                   height |-> vdepth - n - np, params |-> np, results |-> nr]
         IN  /\ VTypeOK'
             /\ vctrl' = Append(vctrl, f)
             /\ VAvailable >= np + n
             /\ VAvailable' = np
             /\ VFrame.height <= f.height
<1>1. vdepth - n - np \in Nat
  BY VFrameFacts, SMTT(30) DEF VEnter
<1>2. [kind |-> kind, arity |-> IF kind = "Loop" THEN np ELSE nr,
       height |-> vdepth - n - np, params |-> np, results |-> nr] \in VFrameType
  BY <1>1 DEF VFrameType
<1> DEFINE f == [kind |-> kind, arity |-> IF kind = "Loop" THEN np ELSE nr,
                 height |-> vdepth - n - np, params |-> np, results |-> nr]
<1>3. /\ vctrl' = Append(vctrl, f)
      /\ vdepth' = vdepth - n
      /\ varity' = varity
      /\ VAvailable >= np + n
  BY DEF VEnter
<1>4. f \in VFrameType /\ f.height = vdepth - n - np
  BY <1>2
<1> HIDE DEF f
<1>5. VTypeOK'
  BY <1>1, <1>3, <1>4, VFrameFacts DEF VTypeOK, IInv
<1>6. VFrame' = f
  BY <1>3, <1>4, VFrameFacts DEF VFrame
<1>7. VAvailable' = np
  BY <1>3, <1>4, <1>6, VFrameFacts DEF VAvailable
<1>8. VFrame.height <= f.height
  BY <1>3, <1>4, VFrameFacts
<1> QED
  BY <1>3, <1>5, <1>7, <1>8 DEF f

(* The end of a then arm, and of any other block.                          *)
LEMMA VElseFacts ==
  ASSUME IInv, status = "visit", NEW r \in BOOLEAN, VElse(r)
  PROVE  /\ VTypeOK'
         /\ vctrl' = [vctrl EXCEPT ![Len(vctrl)].kind = "Else"]
         /\ VAvailable' = VFrame.params
         /\ r => VAvailable = VFrame.results
<1>1. [VFrame EXCEPT !.kind = "Else"] \in VFrameType
  BY VFrameFacts DEF VFrameType, Labels
<1>2. vctrl' = [vctrl EXCEPT ![Len(vctrl)] = [VFrame EXCEPT !.kind = "Else"]]
  BY DEF VElse, VFrame
<1>3. /\ vctrl' \in Seq(VFrameType)
      /\ Len(vctrl') = Len(vctrl)
      /\ vctrl'[Len(vctrl)] = [VFrame EXCEPT !.kind = "Else"]
  BY <1>1, <1>2, VFrameFacts, ExceptSeq
<1>4. /\ vdepth' = VFrame.height + VFrame.params
      /\ varity' = varity
      /\ r => VAvailable = VFrame.results
      /\ vctrl' = [vctrl EXCEPT ![Len(vctrl)].kind = "Else"]
  BY DEF VElse, VEndOk
<1>5. /\ VFrame \in VFrameType
      /\ VFrame' = [VFrame EXCEPT !.kind = "Else"]
      /\ VTypeOK
  BY <1>3, VFrameFacts DEF VFrame, IInv
<1>6. /\ VFrame.height \in Nat /\ VFrame.params \in Nat
      /\ VFrame'.height = VFrame.height
  BY <1>5 DEF VFrameType
<1>7. VAvailable' = VFrame.params
  BY <1>4, <1>6 DEF VAvailable
<1>8. VTypeOK'
  BY <1>3, <1>4, <1>5, <1>6 DEF VTypeOK
<1> QED
  BY <1>4, <1>7, <1>8

LEMMA VEndFacts ==
  ASSUME IInv, status = "visit", NEW r \in BOOLEAN, VEnd(r)
  PROVE  /\ VTypeOK'
         /\ vctrl' = Drop1(vctrl)
         /\ vdepth' = VFrame.height + VFrame.results
         /\ r => VAvailable = VFrame.results
<1>1. Drop1(vctrl) \in Seq(VFrameType)
  BY VFrameFacts, Drop1Facts
<1> QED
  BY <1>1, VFrameFacts, SMTT(30) DEF VEnd, VEndOk, VFrameType, VTypeOK, IInv, Drop1

-----------------------------------------------------------------------------
(* The steps of the translation.                                           *)

(* A step that stops the program changes no other variable of it.          *)
LEMMA StopStep ==
  ASSUME IInv, Abort \/ AssertFails, VTypeOK', exprs' \in Nat
  PROVE  IInv'
<1>1. TypeOK'
  BY DEF Abort, AssertFails, IInv, TypeOK
<1>2. BlocksOK'
  BY DEF Abort, AssertFails, IInv, BlocksOK, Blocks
<1>3. FramesOK' /\ HeightsOK' /\ EntryTracksInsert'
  BY DEF Abort, AssertFails, FramesOK, HeightsOK, EntryTracksInsert,
         Reachable, Visiting
<1> QED
  BY <1>1, <1>2, <1>3 DEF IInv

(* A step within the innermost block: the nesting stays as it is, and the  *)
(* stack is not taken below the block's position.                          *)
LEMMA BodyStep ==
  ASSUME IInv, status = "visit", status' = status, TypeOK', VTypeOK',
         NEW b \in Nat, frames' = frames \/ frames' = SetEntry(b),
         UNCHANGED <<blockStack, vctrl>>,
         Len(term) <= Len(term'),
         \A c \in Blocks : Len(phis'[c]) = Len(phis[c]),
         ins' \in 0 .. Len(term'), brt' \in 0 .. Len(term'),
         brt' # 0 => ins' = 0,
         Frame.pos <= Len(stack'),
         Reachable' => /\ VAvailable' >= 0
                       /\ Len(stack') - Frame.pos >= VAvailable'
                       /\ frames' = SetEntry(b) => b = ins'
                       /\ frames' = frames => ins' = Frame.entry
  PROVE  IInv'
<1>1. /\ Len(frames') = Len(frames)
      /\ \A i \in 1 .. Len(frames) : SameFrame(frames[i], frames'[i])
  <2>1. CASE frames' = frames
    BY <2>1 DEF SameFrame
  <2>2. CASE frames' = SetEntry(b)
    <3>1. TypeOK /\ Len(frames) > 0
      BY FrameFacts DEF IInv
    <3> QED
      BY <2>2, <3>1, SetEntryFacts
  <2> QED
    BY <2>1, <2>2
<1>2. /\ Len(frames) \in Nat \ {0}
      /\ Frame' = frames'[Len(frames)]
      /\ Frame = frames[Len(frames)]
      /\ Len(blockStack) = Len(frames)
      /\ SameFrame(Frame, Frame')
  BY <1>1, FrameFacts DEF Frame, Top
<1>3. Len(term) \in Nat /\ Len(term') \in Nat
  BY DEF IInv, TypeOK
<1>4. BlocksOK'
  <2>1. Blocks \subseteq Blocks'
    BY <1>3 DEF Blocks
  <2> QED
    BY <1>1, <2>1 DEF IInv, BlocksOK, SameFrame
<1>5. FramesOK'
  <2>1. \A i \in 1 .. Len(frames) : FrameOK(i)'
    <3> TAKE i \in 1 .. Len(frames)
    <3>1. FrameOK(i) /\ blockStack[i].target \in Blocks
      BY <1>2 DEF IInv, FramesOK, BlocksOK
    <3> QED
      BY <1>1, <3>1, FrameOKKept
  <2> QED
    BY <1>1, <2>1 DEF IInv, FramesOK
<1>6. HeightsOK'
  BY <1>1, <1>2 DEF IInv, HeightsOK, SameFrame
<1>7. EntryTracksInsert'
  <2>1. CASE frames' = frames
    BY <2>1, <1>2 DEF EntryTracksInsert
  <2>2. CASE frames' = SetEntry(b)
    BY <2>2, <1>2, SetEntryFacts DEF EntryTracksInsert, IInv
  <2> QED
    BY <2>1, <2>2
<1> QED
  BY <1>4, <1>5, <1>6, <1>7 DEF IInv

(* A step into a nested visitBlock with frame f, label l and validator     *)
(* frame v.                                                                *)
LEMMA OpenStep ==
  ASSUME IInv, status = "visit", status' = status, TypeOK', VTypeOK',
         NEW b \in Nat, NEW f \in FrameType, NEW t \in Nat, NEW v \in VFrameType,
         frames' = Call(b, f),
         blockStack' = Append(blockStack, [target |-> t, pos |-> f.pos]),
         vctrl' = Append(vctrl, v),
         Len(term) <= Len(term'),
         \A c \in Blocks : Len(phis'[c]) = Len(phis[c]),
         f.exit \in 1 .. Len(term'),
         f.lty = "If" => f.else \in 1 .. Len(term') /\ Len(f.saved) = v.params,
         t \in 1 .. Len(term'),
         ins' \in 0 .. Len(term'), ins' = f.entry, brt' = 0,
         f.lty # "Func", v.kind = f.lty, v.results = f.results,
         v.arity = Len(phis'[t]),
         f.lty # "Loop" => t = f.exit /\ v.arity = f.results,
         VFrame.height <= v.height,
         v.height - VFrame.height <= f.pos - Frame.pos,
         f.pos <= Len(stack'), VAvailable' >= 0,
         Len(stack') - f.pos >= VAvailable'
  PROVE  IInv'
<1> DEFINE n == Len(frames)
<1>1. /\ Len(frames') = n + 1
      /\ frames'[n + 1] = f
      /\ \A i \in 1 .. n : SameFrame(frames[i], frames'[i])
  <2>1. TypeOK /\ Len(frames) > 0
    BY FrameFacts DEF IInv
  <2>2. /\ Len(Call(b, f)) = Len(frames) + 1
        /\ Call(b, f)[Len(frames) + 1] = f
        /\ \A i \in 1 .. Len(frames) : SameFrame(frames[i], Call(b, f)[i])
    BY <2>1, CallFacts
  <2> QED
    BY <2>2
<1>2. /\ n \in Nat \ {0}
      /\ n = Len(frames)
      /\ Frame' = f
      /\ Frame = frames[n]
      /\ Len(blockStack) = n
      /\ Len(vctrl) = n
      /\ VFrame = vctrl[n]
      /\ blockStack \in Seq([target : Nat, pos : Nat])
      /\ vctrl \in Seq(VFrameType)
      /\ Len(term) \in Nat /\ Len(term') \in Nat
  <2>1. Frame' = f
    BY <1>1 DEF Frame, Top
  <2>2. /\ n \in Nat \ {0}
        /\ Frame = frames[n]
        /\ Len(blockStack) = n
    BY FrameFacts
  <2>3. /\ Len(vctrl) = n
        /\ VFrame = vctrl[n]
        /\ vctrl \in Seq(VFrameType)
    BY VFrameFacts DEF VFrame
  <2>4. /\ blockStack \in Seq([target : Nat, pos : Nat])
        /\ Len(term) \in Nat /\ Len(term') \in Nat
    BY DEF IInv, TypeOK
  <2> QED
    BY <2>1, <2>2, <2>3, <2>4
<1>3. /\ Len(blockStack') = n + 1
      /\ blockStack'[n + 1].target = t
      /\ \A i \in 1 .. n : blockStack'[i] = blockStack[i]
  BY <1>2, SMTT(30)
<1>4. /\ Len(vctrl') = n + 1
      /\ vctrl'[n + 1] = v
      /\ \A i \in 1 .. n : vctrl'[i] = vctrl[i]
  BY <1>2, SMTT(30)
<1>50. n \in Nat \ {0}
  BY <1>2
<1>5. /\ \A i \in 1 .. n + 1 : i \in 1 .. n \/ i = n + 1
      /\ \A i \in 1 .. n - 1 : i \in 1 .. n /\ i + 1 \in 1 .. n
  BY <1>50, SMTT(30)
<1> HIDE DEF n
<1>6. BlocksOK'
  <2>1. Blocks \subseteq Blocks' /\ Blocks' = 1 .. Len(term')
    BY <1>2 DEF Blocks
  <2> DEFINE Inside(i) == /\ frames'[i].exit \in Blocks'
                          /\ frames'[i].lty = "If" => frames'[i].else \in Blocks'
  <2>2. \A i \in 1 .. n : Inside(i)
    BY <1>1, <1>2, <2>1 DEF IInv, BlocksOK, SameFrame
  <2>6. \A i \in {n + 1} : Inside(i)
    BY <1>1, <2>1
  <2>3. \A i \in 1 .. n : blockStack'[i].target \in Blocks'
    BY <1>2, <1>3, <2>1 DEF IInv, BlocksOK
  <2>4. \A i \in 1 .. n + 1 : Inside(i)
    <3> HIDE DEF Inside
    <3> QED
      BY <1>5, <2>2, <2>6
  <2>5. \A i \in 1 .. n + 1 : blockStack'[i].target \in Blocks'
    <3> TAKE i \in 1 .. n + 1
    <3>1. CASE i \in 1 .. n
      BY <3>1, <2>3
    <3>2. CASE i = n + 1
      BY <3>2, <1>3, <2>1
    <3> QED
      BY <1>5, <3>1, <3>2
  <2> QED
    BY <1>1, <1>3, <2>4, <2>5, SMTT(30) DEF BlocksOK
<1>7. FramesOK'
  <2>1. \A i \in 1 .. n : FrameOK(i)'
    <3> TAKE i \in 1 .. n
    <3>1. FrameOK(i) /\ blockStack[i].target \in Blocks
      BY <1>2 DEF IInv, FramesOK, BlocksOK
    <3> QED
      BY <1>1, <1>3, <1>4, <3>1, FrameOKKept
  <2>2. ASSUME NEW i, i = n + 1
        PROVE  FrameOK(i)'
    <3>1. /\ frames'[i] = f
          /\ vctrl'[i] = v
          /\ blockStack'[i].target = t
      BY <1>1, <1>3, <1>4, <2>2
    <3>2. /\ frames'[i].lty # "Func"
          /\ i # 1
          /\ vctrl'[i].kind = frames'[i].lty
          /\ vctrl'[i].results = frames'[i].results
      BY <1>50, <2>2, <3>1
    <3>3. vctrl'[i].arity = Len(phis'[blockStack'[i].target])
      BY <3>1
    <3>4. frames'[i].lty # "Loop" =>
            /\ blockStack'[i].target = frames'[i].exit
            /\ vctrl'[i].arity = frames'[i].results
      BY <3>1
    <3>5. frames'[i].lty = "If" =>
            Len(frames'[i].saved) = vctrl'[i].params
      BY <3>1
    <3> QED
      BY <3>2, <3>3, <3>4, <3>5 DEF FrameOK
  <2>3. \A i \in 1 .. n + 1 : FrameOK(i)'
    BY <1>5, <2>1, <2>2
  <2>4. /\ Len(frames') > 0
        /\ Len(blockStack') = Len(frames')
        /\ Len(vctrl') = Len(frames')
    BY <1>1, <1>2, <1>3, <1>4
  <2> QED
    BY <1>1, <2>3, <2>4 DEF FramesOK
<1>8. HeightsOK'
  <2>1. \A i \in 1 .. n - 1 :
          /\ vctrl[i].height <= vctrl[i + 1].height
          /\ vctrl[i + 1].height - vctrl[i].height
               <= frames[i + 1].pos - frames[i].pos
    BY <1>2 DEF IInv, HeightsOK
  <2>2. \A i \in 1 .. n - 1 :
          /\ vctrl'[i].height <= vctrl'[i + 1].height
          /\ vctrl'[i + 1].height - vctrl'[i].height
               <= frames'[i + 1].pos - frames'[i].pos
    <3> TAKE i \in 1 .. n - 1
    <3>1. i \in 1 .. n /\ i + 1 \in 1 .. n
      BY <1>5
    <3>2. /\ vctrl'[i] = vctrl[i]
          /\ vctrl'[i + 1] = vctrl[i + 1]
          /\ frames'[i].pos = frames[i].pos
          /\ frames'[i + 1].pos = frames[i + 1].pos
      BY <1>1, <1>4, <3>1 DEF SameFrame
    <3> QED
      BY <2>1, <3>2
  <2>3. /\ vctrl'[n].height <= vctrl'[n + 1].height
        /\ vctrl'[n + 1].height - vctrl'[n].height
             <= frames'[n + 1].pos - frames'[n].pos
    BY <1>1, <1>2, <1>4, SMTT(30) DEF SameFrame
  <2>5. \A i \in 1 .. Len(frames') - 1 :
          /\ vctrl'[i].height <= vctrl'[i + 1].height
          /\ vctrl'[i + 1].height - vctrl'[i].height
               <= frames'[i + 1].pos - frames'[i].pos
    <3> TAKE i \in 1 .. Len(frames') - 1
    <3>0. Len(frames') - 1 = n
      BY <1>1, <1>50
    <3>1. i \in 1 .. n - 1 \/ i = n
      BY <3>0, <1>50
    <3>2. CASE i \in 1 .. n - 1
      BY <3>2, <2>2
    <3>3. CASE i = n
      BY <3>3, <2>3
    <3> QED
      BY <3>1, <3>2, <3>3
  <2>6. /\ Frame'.pos <= Len(stack')
        /\ VAvailable' >= 0
        /\ Len(stack') - Frame'.pos >= VAvailable'
    BY <1>2
  <2> QED
    BY <2>5, <2>6 DEF HeightsOK
<1>9. EntryTracksInsert'
  BY <1>2 DEF EntryTracksInsert
<1> QED
  BY <1>6, <1>7, <1>8, <1>9 DEF IInv

(* The results of a plain expression.                                      *)
LEMMA ResultsFacts ==
  ASSUME NEW n \in Nat, NEW b \in Nat, NEW m \in Nat
  PROVE  /\ [i \in 1 .. n |-> Inst(b, m)] \in Seq(Value)
         /\ Len([i \in 1 .. n |-> Inst(b, m)]) = n
BY DEF Inst, Value

LEMMA PlainStep ==
  ASSUME IInv, NEW e \in Supported, PlainExpr(e)
  PROVE  IInv'
<1> DEFINE eff == dispatchExprs[e]
<1>1. /\ e \in DOMAIN dispatchExprs
      /\ eff.need \in Nat
      /\ eff.pop \in Nat
      /\ eff.push \in Nat
      /\ eff.pop <= eff.need
      /\ wasmType[e].params \in Nat
      /\ wasmType[e].results \in Nat
      /\ eff.need = wasmType[e].params
      /\ eff.push - eff.pop = wasmType[e].results - wasmType[e].params
  BY SupportedKeepStep, EffectFacts
<1>2. /\ status = "visit"
      /\ Reachable
      /\ ins \in Nat
      /\ stack \in Seq(Value)
      /\ exprs + 1 \in Nat
      /\ exprs' \in Nat
  BY DEF PlainExpr, Read, Dispatch, Reachable, Visiting, IInv, TypeOK
<1>3. /\ VTypeOK'
      /\ UNCHANGED vctrl
      /\ VAvailable' = VAvailable - wasmType[e].params + wasmType[e].results
  BY <1>1, <1>2, VPlainFacts DEF PlainExpr
<1>4. CASE Len(stack) < eff.need
  <2>1. AssertFails
    BY <1>1, <1>4 DEF PlainExpr, Dispatch, Requires
  <2> QED
    BY <1>2, <1>3, <2>1, StopStep
<1>5. CASE ~ (Len(stack) < eff.need)
  <2> DEFINE new == [i \in 1 .. eff.push |-> Inst(ins, exprs + 1)]
  <2>1. /\ stack' = DropLast(stack, eff.pop) \o new
        /\ UNCHANGED <<preds, phis, term, ins, blockStack, frames, brt, status>>
    BY <1>1, <1>5 DEF PlainExpr, Dispatch, Requires
  <2>2. new \in Seq(Value) /\ Len(new) = eff.push
    BY <1>1, <1>2, ResultsFacts
  <2>3. /\ DropLast(stack, eff.pop) \in Seq(Value)
        /\ Len(DropLast(stack, eff.pop)) = Len(stack) - eff.pop
    BY <1>1, <1>2, <1>5, DropLastFacts, SMTT(30)
  <2> HIDE DEF new
  <2>41. /\ DropLast(stack, eff.pop) \o new \in Seq(Value)
        /\ Len(DropLast(stack, eff.pop) \o new)
             = Len(DropLast(stack, eff.pop)) + Len(new)
    BY <2>2, <2>3, ConcatProperties
  <2>42. stack' \in Seq(Value)
    BY <2>1, <2>41
  <2>4. Len(stack') = Len(stack) - eff.pop + eff.push
    BY <2>1, <2>2, <2>3, <2>41
  <2>5. TypeOK'
    BY <1>2, <2>1, <2>42 DEF IInv, TypeOK
  <2>6. BlocksOK' /\ FramesOK'
    BY <1>3, <2>1 DEF IInv, BlocksOK, Blocks, FramesOK, FrameOK
  <2>7. HeightsOK'
    <3>1. Frame' = Frame /\ Reachable' /\ vctrl' = vctrl /\ frames' = frames
      BY <1>2, <1>3, <2>1 DEF Frame, Top, Reachable, Visiting
    <3>2. /\ Frame.pos \in Nat
          /\ VAvailable \in Int
          /\ Len(stack) \in Nat
      BY <1>2, VFrameFacts, FrameFacts, SMTT(30)
    <3>4. VAvailable >= wasmType[e].params
      BY <1>1, <1>2, VPlainFacts DEF PlainExpr
    <3>5. Len(stack) - Frame.pos >= VAvailable
      BY <1>2 DEF IInv, HeightsOK
    <3>6. VAvailable' \in Nat
      BY <1>1, <1>3, <3>2, <3>4, SMTT(30)
    <3>7. Len(stack') = Len(stack) + (VAvailable' - VAvailable)
      <4> DEFINE np == wasmType[e].params
                 nr == wasmType[e].results
                 pop == eff.pop
                 push == eff.push
      <4>1. /\ np \in Nat /\ nr \in Nat /\ pop \in Nat /\ push \in Nat
            /\ push - pop = nr - np
            /\ Len(stack') = Len(stack) - pop + push
            /\ VAvailable' = VAvailable - np + nr
        BY <1>1, <1>3, <2>4
      <4> HIDE DEF np, nr, pop, push
      <4> QED
        BY <4>1, <3>2
    <3>3. /\ VAvailable' >= 0
          /\ Len(stack') - Frame.pos >= VAvailable'
          /\ Frame.pos <= Len(stack')
      BY <3>2, <3>5, <3>6, <3>7, SMTT(30)
    <3> QED
      BY <1>2, <2>1, <3>1, <3>3 DEF IInv, HeightsOK
  <2>8. EntryTracksInsert'
    BY <2>1 DEF IInv, EntryTracksInsert, Reachable, Visiting, Frame, Top
  <2> QED
    BY <1>3, <2>5, <2>6, <2>7, <2>8 DEF IInv
<1> QED
  BY <1>4, <1>5

-----------------------------------------------------------------------------
(* The ends of visitBlock.                                                 *)

(* The innermost label is a block-like one that is being left in order.    *)
Leaving == status = "visit" /\ Frame.lty # "Loop" /\ ~ LeaveAborts

(* Its exit block takes as many values as the block has results.           *)
LEMMA ExitFacts ==
  ASSUME IInv, Leaving
  PROVE  /\ Len(phis[Frame.exit]) = Frame.results
         /\ phis[Frame.exit] \in Seq(Seq(Incoming))
         /\ ins # 0 => ins \in Blocks /\ Len(stack) = Frame.pos + Frame.results
         /\ stack \in Seq(Value)
<1>1. /\ Frame.exit \in Blocks
      /\ FrameOK(Len(frames))
      /\ Frame = frames[Len(frames)]
      /\ Frame.lty # "Loop"
  BY FrameFacts DEF Leaving
<1>2. phis \in Seq(Seq(Seq(Incoming))) /\ Len(phis) = Len(term)
  BY DEF IInv, TypeOK
<1>3. phis[Frame.exit] \in Seq(Seq(Incoming))
  BY <1>1, <1>2 DEF Blocks
<1>4. Len(phis[Frame.exit]) = Frame.results
  BY <1>1 DEF FrameOK
<1>5. ins # 0 => ins \in Blocks /\ Len(stack) = Frame.pos + Frame.results
  BY DEF Leaving, LeaveAborts, IInv, BlocksOK, Blocks, TypeOK
<1>6. stack \in Seq(Value)
  BY DEF IInv, TypeOK
<1> QED
  BY <1>3, <1>4, <1>5, <1>6

(* The stack it leaves: never cut below its position.                      *)
LEMMA StackAtJoinFacts ==
  ASSUME IInv, Leaving
  PROVE  /\ StackAtJoin \in Seq(Value)
         /\ Len(StackAtJoin) \in Nat
         /\ Len(StackAtJoin) >= Frame.pos
         /\ Frame.lty # "If" => Len(StackAtJoin) = Frame.pos + Frame.results
<1>1. /\ Frame.exit \in Nat
      /\ Frame.pos \in Nat
      /\ Frame.results \in Nat
      /\ Frame.pos <= Len(stack)
  BY FrameFacts DEF Leaving, Blocks
<1>2. /\ Unwound \in Seq(Value)
      /\ Len(Unwound) = Frame.pos
  <2>1. CASE ins # 0
    <3>0. Len(stack) = Frame.pos + Frame.results
      BY <2>1, ExitFacts
    <3>1. Frame.results <= Len(stack) /\ Len(stack) - Frame.results = Frame.pos
      BY <1>1, <3>0
    <3>2. Unwound = DropLast(stack, Frame.results)
      BY <2>1, ExitFacts DEF Unwound
    <3>3. stack \in Seq(Value)
      BY ExitFacts
    <3>4. /\ DropLast(stack, Frame.results) \in Seq(Value)
          /\ Len(DropLast(stack, Frame.results)) = Len(stack) - Frame.results
      BY <1>1, <3>1, <3>3, DropLastFacts
    <3> QED
      BY <3>1, <3>2, <3>4
  <2>2. CASE ins = 0
    BY <1>1, <2>2, ExitFacts, PrefixFacts DEF Unwound
  <2> QED
    BY <2>1, <2>2
<1>3. /\ Phis(Frame.exit) \in Seq(Value)
      /\ Len(Phis(Frame.exit)) = Frame.results
  BY <1>1, ExitFacts, PhisFacts
<1>4. /\ Unwound \o Phis(Frame.exit) \in Seq(Value)
      /\ Len(Unwound \o Phis(Frame.exit)) = Frame.pos + Frame.results
  <2>1. /\ Unwound \o Phis(Frame.exit) \in Seq(Value)
        /\ Len(Unwound \o Phis(Frame.exit))
             = Len(Unwound) + Len(Phis(Frame.exit))
    BY <1>2, <1>3, ConcatProperties
  <2> QED
    BY <1>2, <1>3, <2>1
<1> QED
  BY <1>1, <1>2, <1>4 DEF StackAtJoin

(* The graph it leaves.                                                    *)
LEMMA JoinExitFacts ==
  ASSUME IInv, Leaving, JoinExit
  PROVE  /\ preds' \in Seq(Seq(Nat))
         /\ Len(preds') = Len(term)
         /\ phis' \in Seq(Seq(Seq(Incoming)))
         /\ Len(phis') = Len(term)
         /\ \A c \in Blocks : Len(phis'[c]) = Len(phis[c])
         /\ TermAtJoin \in Seq(Terminators)
         /\ Len(TermAtJoin) = Len(term)
<1>1. TypeOK
  BY DEF IInv
<1>2. CASE ins # 0
  <2>1. /\ Frame.exit \in Blocks
        /\ ins \in Blocks
        /\ ins \in Nat
        /\ stack \in Seq(Value)
        /\ Len(phis[Frame.exit]) <= Len(stack)
        /\ "br" \in Terminators
    BY <1>2, FrameFacts, ExitFacts, SMTT(30) DEF Leaving, Blocks, Terminators
  <2>2. /\ preds' = PredsWith(Frame.exit, ins)
        /\ phis' = PhisWith(Frame.exit, stack, ins)
        /\ TermAtJoin = Terminated(ins, "br")
    BY <1>2 DEF JoinExit, TermAtJoin
  <2>3. preds' \in Seq(Seq(Nat)) /\ Len(preds') = Len(term)
    BY <1>1, <2>1, <2>2, PredsWithFacts
  <2>4. /\ phis' \in Seq(Seq(Seq(Incoming)))
        /\ Len(phis') = Len(term)
        /\ \A c \in Blocks : Len(phis'[c]) = Len(phis[c])
    BY <1>1, <2>1, <2>2, PhisWithLengths
  <2>5. TermAtJoin \in Seq(Terminators) /\ Len(TermAtJoin) = Len(term)
    BY <1>1, <2>1, <2>2, TerminatedFacts
  <2> QED
    BY <2>3, <2>4, <2>5
<1>3. CASE ins = 0
  BY <1>1, <1>3 DEF JoinExit, TermAtJoin, TypeOK
<1> QED
  BY <1>2, <1>3

(* visitBlock returns: a level is removed from all three stacks.           *)
LEMMA CloseStep ==
  ASSUME IInv, status = "visit", status' = status, TypeOK', VTypeOK',
         Len(frames) > 1, NEW b \in Nat, frames' = ReturnTo(b),
         blockStack' = Drop1(blockStack), vctrl' = Drop1(vctrl),
         vdepth' = VFrame.height + VFrame.results,
         Len(term) <= Len(term'),
         \A c \in Blocks : Len(phis'[c]) = Len(phis[c]),
         ins' \in 0 .. Len(term'), ins' = b, brt' = 0,
         Len(stack') >= Frame.pos,
         ins' # 0 => Len(stack') >= Frame.pos + Frame.results
  PROVE  IInv'
<1> DEFINE n == Len(frames) - 1
<1>1. /\ n \in Nat \ {0}
      /\ n + 1 = Len(frames)
      /\ Len(frames') = n
      /\ \A i \in 1 .. n : SameFrame(frames[i], frames'[i])
      /\ frames'[n].entry = b
  <2>1. TypeOK /\ Len(frames) \in Nat
    BY FrameFacts DEF IInv
  <2>2. /\ Len(ReturnTo(b)) = Len(frames) - 1
        /\ \A i \in 1 .. Len(frames) - 1 : SameFrame(frames[i], ReturnTo(b)[i])
        /\ ReturnTo(b)[Len(frames) - 1].entry = b
    BY <2>1, ReturnToFacts
  <2> QED
    BY <2>1, <2>2
<1>2. /\ Len(blockStack') = n
      /\ \A i \in 1 .. n : blockStack'[i] = blockStack[i]
  <2>1. /\ Len(blockStack) = Len(frames)
        /\ blockStack \in Seq([target : Nat, pos : Nat])
        /\ Len(blockStack) > 0
    BY FrameFacts DEF IInv, TypeOK
  <2>2. /\ Len(Drop1(blockStack)) = Len(blockStack) - 1
        /\ \A i \in 1 .. Len(blockStack) - 1 :
             Drop1(blockStack)[i] = blockStack[i]
    BY <2>1, Drop1Facts
  <2> QED
    BY <2>1, <2>2
<1>3. /\ Len(vctrl') = n
      /\ \A i \in 1 .. n : vctrl'[i] = vctrl[i]
  <2>1. Len(vctrl) = Len(frames) /\ vctrl \in Seq(VFrameType)
    BY VFrameFacts
  <2>2. /\ Len(Drop1(vctrl)) = Len(vctrl) - 1
        /\ \A i \in 1 .. Len(vctrl) - 1 : Drop1(vctrl)[i] = vctrl[i]
    BY <2>1, Drop1Facts
  <2> QED
    BY <2>1, <2>2
<1>4. /\ Frame = frames[n + 1]
      /\ VFrame = vctrl[n + 1]
      /\ Len(term) \in Nat /\ Len(term') \in Nat
  BY <1>1, FrameFacts, VFrameFacts, SMTT(30) DEF VFrame, IInv, TypeOK
<1>5. /\ Frame' = frames'[n]
      /\ VFrame' = vctrl'[n]
  BY <1>1, <1>3 DEF Frame, Top, VFrame
<1>6. \A i \in 1 .. n : i \in 1 .. Len(frames)
  BY <1>1
<1> HIDE DEF n
<1>7. BlocksOK'
  <2>1. Blocks \subseteq Blocks'
    BY <1>4 DEF Blocks
  <2> DEFINE Inside(i) == /\ frames'[i].exit \in Blocks'
                          /\ frames'[i].lty = "If" => frames'[i].else \in Blocks'
  <2>2. \A i \in 1 .. n : Inside(i)
    <3> TAKE i \in 1 .. n
    <3>1. /\ frames[i].exit \in Blocks
          /\ frames[i].lty = "If" => frames[i].else \in Blocks
      BY <1>6 DEF IInv, BlocksOK
    <3>2. SameFrame(frames[i], frames'[i])
      BY <1>1
    <3> QED
      BY <2>1, <3>1, <3>2 DEF SameFrame
  <2>3. \A i \in 1 .. n : blockStack'[i].target \in Blocks'
    <3>1. \A i \in 1 .. n : i \in 1 .. Len(blockStack)
      BY <1>6, FrameFacts
    <3> QED
      BY <1>2, <3>1, <2>1 DEF IInv, BlocksOK
  <2> QED
    BY <1>1, <1>2, <2>2, <2>3 DEF BlocksOK
<1>8. FramesOK'
  <2>1. \A i \in 1 .. n : FrameOK(i)'
    <3> TAKE i \in 1 .. n
    <3>1. FrameOK(i) /\ blockStack[i].target \in Blocks
      BY <1>6, FrameFacts DEF IInv, FramesOK, BlocksOK
    <3> QED
      BY <1>1, <1>2, <1>3, <3>1, FrameOKKept
  <2> QED
    BY <1>1, <1>2, <1>3, <2>1 DEF FramesOK
<1>9. HeightsOK'
  <2>1. \A i \in 1 .. n :
          /\ vctrl[i].height <= vctrl[i + 1].height
          /\ vctrl[i + 1].height - vctrl[i].height
               <= frames[i + 1].pos - frames[i].pos
    <3>1. n = Len(frames) - 1
      BY <1>1
    <3> QED
      BY <3>1 DEF IInv, HeightsOK
  <2>2. \A i \in 1 .. Len(frames') - 1 :
          /\ vctrl'[i].height <= vctrl'[i + 1].height
          /\ vctrl'[i + 1].height - vctrl'[i].height
               <= frames'[i + 1].pos - frames'[i].pos
    <3> TAKE i \in 1 .. Len(frames') - 1
    <3>1. i \in 1 .. n /\ i + 1 \in 1 .. n
      BY <1>1
    <3>2. /\ vctrl'[i] = vctrl[i]
          /\ vctrl'[i + 1] = vctrl[i + 1]
          /\ frames'[i].pos = frames[i].pos
          /\ frames'[i + 1].pos = frames[i + 1].pos
      BY <1>1, <1>3, <3>1 DEF SameFrame
    <3> QED
      BY <2>1, <3>1, <3>2
  <2>3. /\ Frame'.pos = frames[n].pos
        /\ VFrame' = vctrl[n]
    BY <1>1, <1>3, <1>5 DEF SameFrame
  <2>4. /\ vctrl[n].height <= VFrame.height
        /\ VFrame.height - vctrl[n].height <= Frame.pos - frames[n].pos
    BY <1>1, <1>4, <2>1
  <2>5. /\ vctrl[n].height \in Nat
        /\ frames[n].pos \in Nat
        /\ VFrame.height \in Nat
        /\ VFrame.results \in Nat
        /\ Frame.pos \in Nat
        /\ Frame.results = VFrame.results
        /\ Len(stack') \in Nat
    <3>1. vctrl[n] \in VFrameType
      BY <1>1, VFrameFacts
    <3>2. frames[n] \in FrameType
      BY <1>1 DEF IInv, TypeOK
    <3>3. FrameOK(Len(frames)) /\ Frame = frames[Len(frames)]
      BY FrameFacts
    <3>4. Frame.results = VFrame.results
      BY <1>1, <1>4, <3>3 DEF FrameOK
    <3>5. Len(stack') \in Nat
      BY DEF TypeOK
    <3> QED
      BY <3>1, <3>2, <3>4, <3>5, FrameFacts, VFrameFacts
      DEF VFrameType, FrameType
  <2> DEFINE h == vctrl[n].height
             hh == VFrame.height
             p == frames[n].pos
             pp == Frame.pos
             r == VFrame.results
             len == Len(stack')
  <2>6. /\ h \in Nat /\ hh \in Nat /\ p \in Nat /\ pp \in Nat
        /\ r \in Nat /\ len \in Nat
        /\ h <= hh
        /\ hh - h <= pp - p
        /\ pp <= len
    BY <2>4, <2>5
  <2>7. VAvailable' = hh + r - h /\ Frame'.pos = p
    <3>1. VFrame'.height = h /\ vdepth' = hh + r /\ Frame'.pos = p
      BY <2>3
    <3> HIDE DEF h, hh, p, r
    <3>2. VAvailable' = hh + r - h
      BY <2>6, <3>1, SMTT(30) DEF VAvailable
    <3> QED
      BY <3>1, <3>2
  <2>8. Reachable' => pp + r <= len
    BY <2>5 DEF Reachable
  <2> HIDE DEF h, hh, p, pp, r, len
  <2>9. /\ p <= len
        /\ hh + r - h >= 0
        /\ pp + r <= len => len - p >= hh + r - h
    BY <2>6
  <2>10. /\ Frame'.pos <= len
         /\ Reachable' => VAvailable' >= 0 /\ len - Frame'.pos >= VAvailable'
    BY <2>7, <2>8, <2>9
  <2> QED
    BY <2>2, <2>10 DEF HeightsOK, len
<1>10. EntryTracksInsert'
  BY <1>1, <1>5 DEF EntryTracksInsert
<1> QED
  BY <1>7, <1>8, <1>9, <1>10 DEF IInv

(* The end of a block or of an else arm.                                   *)
LEMMA BlockEndsStep ==
  ASSUME IInv, BlockEnds
  PROVE  IInv'
<1>1. /\ status = "visit"
      /\ brt = 0
      /\ Frame.lty \in {"Block", "Else"}
      /\ VEnd(ins # 0)
      /\ exprs' \in Nat
  BY DEF BlockEnds, EndBlock, Visiting, IInv, TypeOK
<1>2. /\ VTypeOK'
      /\ vctrl' = Drop1(vctrl)
      /\ vdepth' = VFrame.height + VFrame.results
  BY <1>1, VEndFacts
<1>3. CASE LeaveAborts
  <2>1. Abort
    BY <1>3 DEF BlockEnds, EndBlock
  <2> QED
    BY <1>1, <1>2, <2>1, StopStep
<1>4. CASE ~ LeaveAborts
  <2>1. /\ JoinExit
        /\ term' = TermAtJoin
        /\ stack' = StackAtJoin
        /\ ins' = Frame.exit
        /\ blockStack' = Drop1(blockStack)
        /\ frames' = ReturnTo(Frame.exit)
        /\ brt' = 0
        /\ status' = status
    BY <1>1, <1>4 DEF BlockEnds, EndBlock, ClosedLabels
  <2>2. Leaving
    BY <1>1, <1>4 DEF Leaving
  <2>3. Len(frames) > 1 /\ Len(blockStack) > 0
    BY <1>1, FrameFacts DEF FrameOK
  <2>4. /\ Frame.exit \in Nat
        /\ Frame.exit \in 0 .. Len(term)
        /\ Frame.results \in Nat
        /\ Frame.pos \in Nat
    BY <1>1, FrameFacts DEF Blocks
  <2>5. /\ blockStack' \in Seq([target : Nat, pos : Nat])
        /\ frames' \in Seq(FrameType)
    <3>1. /\ TypeOK
          /\ blockStack \in Seq([target : Nat, pos : Nat])
      BY DEF IInv, TypeOK
    <3> QED
      BY <2>1, <2>3, <2>4, <3>1, Drop1Facts, ReturnToFacts
  <2>6. TypeOK'
    BY <1>1, <2>1, <2>2, <2>4, <2>5, StackAtJoinFacts, JoinExitFacts DEF TypeOK
  <2>7. /\ Len(term) <= Len(term')
        /\ \A c \in Blocks : Len(phis'[c]) = Len(phis[c])
        /\ ins' \in 0 .. Len(term')
    <3>1. Len(term) \in Nat
      BY DEF IInv, TypeOK
    <3> QED
      BY <2>1, <2>2, <2>4, <3>1, JoinExitFacts
  <2>8. /\ Len(stack') >= Frame.pos
        /\ Len(stack') >= Frame.pos + Frame.results
    <3>1. Len(stack') = Frame.pos + Frame.results
      BY <1>1, <2>1, <2>2, StackAtJoinFacts
    <3> QED
      BY <2>4, <3>1
  <2> QED
    BY <1>1, <1>2, <2>1, <2>3, <2>4, <2>6, <2>7, <2>8, CloseStep
<1> QED
  BY <1>3, <1>4

(* The end of a loop.                                                      *)
LEMMA LoopEndsStep ==
  ASSUME IInv, LoopEnds
  PROVE  IInv'
<1>1. /\ status = "visit"
      /\ brt = 0
      /\ Frame.lty = "Loop"
      /\ VEnd(ins # 0)
      /\ exprs' \in Nat
      /\ ins \in 0 .. Len(term)
      /\ ins \in Nat
  BY DEF LoopEnds, EndLoop, Visiting, IInv, TypeOK, BlocksOK
<1>2. /\ VTypeOK'
      /\ vctrl' = Drop1(vctrl)
      /\ vdepth' = VFrame.height + VFrame.results
  BY <1>1, VEndFacts
<1>3. CASE Abort \/ AssertFails
  BY <1>1, <1>2, <1>3, StopStep
<1>4. CASE ~ (Abort \/ AssertFails)
  <2>1. /\ ~ (ins # 0 /\ LeaveAborts)
        /\ frames' = ReturnTo(ins)
        /\ blockStack' = Drop1(blockStack)
        /\ UNCHANGED <<preds, phis, term, ins, stack, brt, status>>
    BY <1>1, <1>4 DEF LoopEnds, EndLoop, ClosedLabels
  <2>2. Len(frames) > 1 /\ Len(blockStack) > 0
    BY <1>1, FrameFacts DEF FrameOK
  <2>3. /\ blockStack' \in Seq([target : Nat, pos : Nat])
        /\ frames' \in Seq(FrameType)
    <3>1. /\ TypeOK
          /\ blockStack \in Seq([target : Nat, pos : Nat])
      BY DEF IInv, TypeOK
    <3> QED
      BY <1>1, <2>1, <2>2, <3>1, Drop1Facts, ReturnToFacts
  <2>4. TypeOK'
    BY <1>1, <2>1, <2>3 DEF IInv, TypeOK
  <2>5. /\ Frame.pos \in Nat
        /\ Frame.results \in Nat
        /\ Len(stack) \in Nat
        /\ Frame.pos <= Len(stack)
    BY <1>1, FrameFacts DEF IInv, TypeOK
  <2>6. ins' # 0 => Len(stack') >= Frame.pos + Frame.results
    BY <2>1, <2>5 DEF LeaveAborts
  <2>7. /\ Len(term) <= Len(term')
        /\ \A c \in Blocks : Len(phis'[c]) = Len(phis[c])
        /\ ins' \in 0 .. Len(term')
        /\ ins' = ins
        /\ brt' = 0
        /\ Len(stack') >= Frame.pos
    BY <1>1, <2>1, <2>5 DEF IInv, TypeOK
  <2> QED
    BY <1>1, <1>2, <2>1, <2>2, <2>4, <2>6, <2>7, CloseStep
<1> QED
  BY <1>3, <1>4

(* The end of the body.                                                    *)
LEMMA FuncEndsStep ==
  ASSUME IInv, FuncEnds
  PROVE  IInv'
<1>1. /\ status = "visit"
      /\ brt = 0
      /\ Frame.lty = "Func"
      /\ VEnd(ins # 0)
      /\ exprs' \in Nat
  BY DEF FuncEnds, EndFunc, Visiting, IInv, TypeOK
<1>2. VTypeOK'
  BY <1>1, VEndFacts
<1>3. CASE LeaveAborts
  <2>1. Abort
    BY <1>3 DEF FuncEnds, EndFunc
  <2> QED
    BY <1>1, <1>2, <2>1, StopStep
<1>4. CASE ~ LeaveAborts
  <2>1. /\ JoinExit
        /\ term' = [TermAtJoin EXCEPT ![Frame.exit] = "ret"]
        /\ stack' = DropLast(StackAtJoin, Results)
        /\ ins' = Frame.exit
        /\ blockStack' = Drop1(blockStack)
        /\ frames' = Drop1(frames)
        /\ brt' = 0
        /\ status' = "done"
    BY <1>1, <1>4 DEF FuncEnds, EndFunc, ClosedLabels
  <2>2. Leaving
    BY <1>1, <1>4 DEF Leaving
  <2>3. /\ Frame.exit \in Blocks
        /\ Frame.results = Results
        /\ Frame.pos \in Nat
        /\ Results \in Nat
        /\ Len(frames) > 0
        /\ Len(blockStack) > 0
    BY <1>1, FrameFacts, ResultsAssumption DEF FrameOK
  <2>4. /\ blockStack \in Seq([target : Nat, pos : Nat])
        /\ frames \in Seq(FrameType)
    BY DEF IInv, TypeOK
  <2>5. /\ blockStack' \in Seq([target : Nat, pos : Nat])
        /\ Len(blockStack') = Len(blockStack) - 1
        /\ \A i \in 1 .. Len(blockStack) - 1 : blockStack'[i] = blockStack[i]
    BY <2>1, <2>3, <2>4, Drop1Facts
  <2>6. /\ frames' \in Seq(FrameType)
        /\ Len(frames') = Len(frames) - 1
        /\ \A i \in 1 .. Len(frames) - 1 : frames'[i] = frames[i]
    BY <2>1, <2>3, <2>4, Drop1Facts
  <2>7. stack' \in Seq(Value)
    <3>1. /\ StackAtJoin \in Seq(Value)
          /\ Len(StackAtJoin) = Frame.pos + Results
      BY <1>1, <2>2, <2>3, StackAtJoinFacts
    <3>2. Results <= Len(StackAtJoin)
      BY <2>3, <3>1
    <3> QED
      BY <2>1, <2>3, <3>1, <3>2, DropLastFacts
  <2>8. /\ term' \in Seq(Terminators)
        /\ Len(term') = Len(term)
        /\ Len(preds') = Len(term')
        /\ Len(phis') = Len(term')
        /\ preds' \in Seq(Seq(Nat))
        /\ phis' \in Seq(Seq(Seq(Incoming)))
    <3>1. "ret" \in Terminators
      BY DEF Terminators
    <3>2. /\ TermAtJoin \in Seq(Terminators)
          /\ Len(TermAtJoin) = Len(term)
          /\ Frame.exit \in 1 .. Len(TermAtJoin)
      BY <2>1, <2>2, <2>3, JoinExitFacts DEF Blocks
    <3>3. /\ term' \in Seq(Terminators)
          /\ Len(term') = Len(term)
      BY <2>1, <3>1, <3>2, ExceptSeq
    <3> QED
      BY <2>1, <2>2, <3>3, JoinExitFacts
  <2>9. TypeOK'
    BY <1>1, <2>1, <2>3, <2>5, <2>6, <2>7, <2>8, SMTT(30) DEF TypeOK, Blocks
  <2>10. BlocksOK'
    <3>1. Blocks' = Blocks /\ Len(term') = Len(term)
      BY <2>8 DEF Blocks
    <3>2. ins' \in 0 .. Len(term') /\ brt' \in 0 .. Len(term')
      <4>1. Len(term) \in Nat
        BY DEF IInv, TypeOK
      <4> QED
        BY <2>1, <2>3, <3>1, <4>1 DEF Blocks
    <3>3. \A i \in 1 .. Len(frames') :
            /\ i \in 1 .. Len(frames)
            /\ frames'[i] = frames[i]
      BY <2>3, <2>6
    <3>4. \A i \in 1 .. Len(blockStack') :
            /\ i \in 1 .. Len(blockStack)
            /\ blockStack'[i] = blockStack[i]
      <4>1. Len(blockStack) \in Nat /\ Len(blockStack') = Len(blockStack) - 1
        BY <2>4, <2>5
      <4> QED
        BY <2>5, <4>1, SMTT(30)
    <3> DEFINE Inside(i) == /\ frames[i].exit \in Blocks
                            /\ frames[i].lty = "If" => frames[i].else \in Blocks
    <3>5. \A i \in 1 .. Len(frames') : Inside(i)'
      BY <3>1, <3>3 DEF IInv, BlocksOK
    <3>6. \A i \in 1 .. Len(blockStack') : blockStack'[i].target \in Blocks'
      BY <3>1, <3>4 DEF IInv, BlocksOK
    <3> QED
      BY <2>1, <3>2, <3>5, <3>6 DEF BlocksOK
  <2>11. FramesOK' /\ HeightsOK' /\ EntryTracksInsert'
    BY <2>1 DEF FramesOK, HeightsOK, EntryTracksInsert, Reachable, Visiting
  <2> QED
    BY <1>2, <2>9, <2>10, <2>11 DEF IInv
<1> QED
  BY <1>3, <1>4

(* The end of a then arm: its frame becomes the one of the else arm, which *)
(* starts on the values saved under the condition.                         *)
LEMMA ThenEndsStep ==
  ASSUME IInv, ThenEnds
  PROVE  IInv'
<1>1. /\ status = "visit"
      /\ brt = 0
      /\ Frame.lty = "If"
      /\ VElse(ins # 0)
      /\ exprs' \in Nat
  BY DEF ThenEnds, EndThen, Visiting, IInv, TypeOK
<1>2. /\ VTypeOK'
      /\ vctrl' = [vctrl EXCEPT ![Len(vctrl)].kind = "Else"]
      /\ VAvailable' = VFrame.params
  BY <1>1, VElseFacts
<1>3. CASE LeaveAborts
  <2>1. Abort
    BY <1>3 DEF ThenEnds, EndThen
  <2> QED
    BY <1>1, <1>2, <2>1, StopStep
<1>4. CASE ~ LeaveAborts
  <2> DEFINE n == Len(frames)
             f == [Frame EXCEPT !.lty = "Else", !.entry = Frame.else,
                                !.saved = << >>, !.else = 0]
             r == ReturnTo(Frame.else)
  <2>1. /\ JoinExit
        /\ term' = TermAtJoin
        /\ stack' = StackAtJoin \o Frame.saved
        /\ ins' = Frame.else
        /\ blockStack' = blockStack
        /\ frames' = Append(r, f)
        /\ brt' = 0
        /\ status' = status
    BY <1>1, <1>4 DEF ThenEnds, EndThen, ClosedLabels
  <2>2. Leaving
    BY <1>1, <1>4 DEF Leaving
  <2>3. /\ n > 1
        /\ n \in Nat
        /\ Frame = frames[n]
        /\ FrameOK(n)
        /\ Frame.else \in Blocks
        /\ Frame.else \in Nat
        /\ Frame.exit \in Blocks
        /\ Frame.saved \in Seq(Value)
        /\ Frame.pos \in Nat
        /\ Len(blockStack) = n
    BY <1>1, FrameFacts DEF FrameOK, Blocks
  <2>4. f \in FrameType
    <3>1. Frame \in FrameType
      BY <1>1, FrameFacts
    <3>2. /\ "Else" \in Labels
          /\ << >> \in Seq(Value)
          /\ 0 \in Nat
      BY DEF Labels
    <3> QED
      BY <2>3, <3>1, <3>2 DEF FrameType
  <2>5. /\ f.lty = "Else"
        /\ f.entry = Frame.else
        /\ f.exit = Frame.exit
        /\ f.pos = Frame.pos
        /\ f.results = Frame.results
    BY <1>1, FrameFacts DEF FrameType
  <2>6. /\ r \in Seq(FrameType)
        /\ Len(r) = n - 1
        /\ \A i \in 1 .. n - 1 : SameFrame(frames[i], r[i])
    BY <2>3, ReturnToFacts DEF IInv
  <2> HIDE DEF f, r
  <2>7. /\ frames' \in Seq(FrameType)
        /\ Len(frames') = n
        /\ frames'[n] = f
        /\ \A i \in 1 .. n - 1 : frames'[i] = r[i]
    BY <2>1, <2>3, <2>4, <2>6
  <2>8. \A i \in 1 .. n - 1 : SameFrame(frames[i], frames'[i])
    BY <2>6, <2>7
  <2>9. /\ Len(vctrl') = n
        /\ vctrl'[n] = [vctrl[n] EXCEPT !.kind = "Else"]
        /\ \A i \in 1 .. n - 1 : vctrl'[i] = vctrl[i]
    BY <1>1, <1>2, <2>3, VFrameFacts, SMTT(30)
  <2>10. vctrl[n] \in VFrameType /\ VFrame = vctrl[n]
    BY <1>1, <2>3, VFrameFacts DEF VFrame
  <2>11. /\ vctrl'[n].kind = "Else"
         /\ vctrl'[n].arity = vctrl[n].arity
         /\ vctrl'[n].height = vctrl[n].height
         /\ vctrl'[n].results = vctrl[n].results
    BY <2>9, <2>10 DEF VFrameType
  <2>12. /\ Len(term') = Len(term)
         /\ Len(term) \in Nat
         /\ Blocks' = Blocks
         /\ \A c \in Blocks : Len(phis'[c]) = Len(phis[c])
    BY <2>1, <2>2, JoinExitFacts DEF Blocks, IInv, TypeOK
  <2>13. /\ StackAtJoin \in Seq(Value)
         /\ stack' \in Seq(Value)
         /\ Len(stack') = Len(StackAtJoin) + Len(Frame.saved)
         /\ Len(StackAtJoin) >= Frame.pos
    BY <2>1, <2>2, <2>3, StackAtJoinFacts, ConcatProperties
  <2>14. Len(Frame.saved) = VFrame.params /\ VFrame.params \in Nat
    BY <1>1, <2>3, <2>10, VFrameFacts DEF FrameOK
  <2>15. \A i \in 1 .. n : i \in 1 .. n - 1 \/ i = n
    BY <2>3
  <2>16. TypeOK'
    <3>1. blockStack \in Seq([target : Nat, pos : Nat])
      BY DEF IInv, TypeOK
    <3> QED
      BY <1>1, <2>1, <2>2, <2>3, <2>7, <2>13, <3>1, JoinExitFacts DEF TypeOK
  <2>17. BlocksOK'
    <3> DEFINE Inside(i) == /\ frames'[i].exit \in Blocks'
                            /\ frames'[i].lty = "If" => frames'[i].else \in Blocks'
    <3>1. \A i \in 1 .. n - 1 : Inside(i)
      <4> TAKE i \in 1 .. n - 1
      <4>1. i \in 1 .. n
        BY <2>3
      <4>2. /\ frames[i].exit \in Blocks
            /\ frames[i].lty = "If" => frames[i].else \in Blocks
        BY <4>1 DEF IInv, BlocksOK
      <4> QED
        BY <2>8, <2>12, <4>2 DEF SameFrame
    <3>2. \A i \in {n} : Inside(i)
      BY <2>3, <2>5, <2>7, <2>12
    <3>3. \A i \in 1 .. n : Inside(i)
      <4> HIDE DEF Inside
      <4> QED
        BY <2>15, <3>1, <3>2
    <3>4. \A i \in 1 .. Len(blockStack') : blockStack'[i].target \in Blocks'
      BY <2>1, <2>12 DEF IInv, BlocksOK
    <3>5. ins' \in 0 .. Len(term') /\ brt' \in 0 .. Len(term')
      BY <2>1, <2>3, <2>12 DEF Blocks
    <3> QED
      BY <2>1, <2>7, <3>3, <3>4, <3>5 DEF BlocksOK
  <2>18. FramesOK'
    <3>1. ASSUME NEW i \in 1 .. n - 1
          PROVE  FrameOK(i)'
      <4>1. FrameOK(i) /\ blockStack[i].target \in Blocks
        BY <1>1, <2>3 DEF IInv, FramesOK, BlocksOK
      <4> QED
        BY <2>1, <2>8, <2>9, <2>12, <4>1, FrameOKKept
    <3>2. ASSUME NEW i, i = n
          PROVE  FrameOK(i)'
      <4>1. blockStack[n].target = Frame.exit
        BY <1>1, <2>3 DEF FrameOK
      <4> QED
        BY <1>1, <2>1, <2>3, <2>5, <2>7, <2>11, <2>12, <3>2, <4>1, SMTT(30) DEF FrameOK
    <3>3. \A i \in 1 .. n : FrameOK(i)'
      BY <2>15, <3>1, <3>2
    <3> QED
      BY <2>1, <2>3, <2>7, <2>9, <3>3 DEF FramesOK
  <2>19. HeightsOK'
    <3>1. /\ \A i \in 1 .. n : vctrl'[i].height = vctrl[i].height
          /\ \A i \in 1 .. n : frames'[i].pos = frames[i].pos
      BY <2>3, <2>5, <2>7, <2>8, <2>9, <2>11, <2>15 DEF SameFrame
    <3>2. \A i \in 1 .. n - 1 :
            /\ vctrl'[i].height <= vctrl'[i + 1].height
            /\ vctrl'[i + 1].height - vctrl'[i].height
                 <= frames'[i + 1].pos - frames'[i].pos
      <4> TAKE i \in 1 .. n - 1
      <4>1. i \in 1 .. n /\ i + 1 \in 1 .. n
        BY <2>3
      <4>2. /\ vctrl[i].height <= vctrl[i + 1].height
            /\ vctrl[i + 1].height - vctrl[i].height
                 <= frames[i + 1].pos - frames[i].pos
        BY <1>1 DEF IInv, HeightsOK
      <4> QED
        BY <3>1, <4>1, <4>2
    <3>3. Frame' = f
      BY <2>7 DEF Frame, Top
    <3>4. /\ Len(StackAtJoin) \in Nat
          /\ Len(stack') = Len(StackAtJoin) + VFrame.params
          /\ VAvailable' = VFrame.params
      BY <1>2, <2>13, <2>14
    <3>5. /\ f.pos <= Len(stack')
          /\ VAvailable' >= 0
          /\ Len(stack') - f.pos >= VAvailable'
      BY <2>3, <2>5, <2>13, <2>14, <3>4
    <3> QED
      BY <2>7, <3>2, <3>3, <3>5 DEF HeightsOK
  <2>20. EntryTracksInsert'
    <3>1. Frame' = f
      BY <2>7 DEF Frame, Top
    <3> QED
      BY <2>1, <2>5, <3>1 DEF EntryTracksInsert
  <2> QED
    BY <1>2, <2>16, <2>17, <2>18, <2>19, <2>20 DEF IInv
<1> QED
  BY <1>3, <1>4

-----------------------------------------------------------------------------
(* Branches.                                                               *)

(* The translator and the validator find the same label at a depth.        *)
LEMMA TargetFacts ==
  ASSUME IInv, status = "visit", NEW l \in VDepths
  PROVE  /\ Target(l).target \in Blocks
         /\ Target(l).target \in Nat
         /\ Len(phis[Target(l).target]) = VArity(l)
         /\ VArity(l) \in Nat
<1>1. /\ Len(blockStack) = Len(frames)
      /\ Len(vctrl) = Len(frames)
      /\ Len(frames) - l \in 1 .. Len(frames)
      /\ Len(frames) \in Nat
  BY FrameFacts, VFrameFacts DEF VDepths
<1>2. /\ FrameOK(Len(frames) - l)
      /\ blockStack[Len(frames) - l].target \in Blocks
  BY <1>1 DEF IInv, FramesOK, BlocksOK
<1>3. /\ Target(l) = blockStack[Len(frames) - l]
      /\ VArity(l) = vctrl[Len(frames) - l].arity
  BY <1>1 DEF Target, VArity
<1>4. VArity(l) \in Nat
  BY <1>1, <1>3, VFrameFacts
<1> QED
  BY <1>2, <1>3, <1>4 DEF FrameOK, Blocks

(* A reachable place.                                                      *)
LEMMA ReachableFacts ==
  ASSUME IInv, Reachable
  PROVE  /\ status = "visit"
         /\ brt = 0
         /\ ins \in Blocks
         /\ ins \in Nat
         /\ Len(term) \in Nat
         /\ Frame.entry = ins
         /\ Frame.pos \in Nat
         /\ VAvailable \in Nat
         /\ Len(stack) - Frame.pos >= VAvailable
         /\ stack \in Seq(Value)
<1>1. /\ status = "visit"
      /\ brt = 0
      /\ ins # 0
  BY DEF Reachable, Visiting
<1>2. /\ ins \in 0 .. Len(term)
      /\ Len(term) \in Nat
      /\ Frame.entry = ins
      /\ VAvailable >= 0
      /\ Len(stack) - Frame.pos >= VAvailable
      /\ stack \in Seq(Value)
  BY <1>1 DEF IInv, BlocksOK, TypeOK, EntryTracksInsert, HeightsOK
<1>3. VAvailable \in Nat
  BY <1>1, <1>2, VFrameFacts
<1> QED
  BY <1>1, <1>2, <1>3, FrameFacts DEF Blocks

(* br and return.                                                          *)
LEMMA BrStep ==
  ASSUME IInv, NEW l \in VDepths, Br(l), VBranch(l, 0), exprs' \in Nat
  PROVE  IInv'
<1> DEFINE b == Target(l).target
<1>1. Reachable
  BY DEF Br
<1>2. /\ VTypeOK'
      /\ UNCHANGED vctrl
      /\ b \in Blocks
      /\ b \in Nat
      /\ Len(phis[b]) \in Nat
  BY <1>1, ReachableFacts, VBranchFacts, TargetFacts
<1>3. CASE Len(stack) < Len(phis[b])
  <2>1. AssertFails
    BY <1>3 DEF Br, Requires
  <2> QED
    BY <1>1, <1>2, <2>1, StopStep, ReachableFacts
<1>4. CASE ~ (Len(stack) < Len(phis[b]))
  <2>1. /\ preds' = PredsWith(b, ins)
        /\ phis' = PhisWith(b, stack, ins)
        /\ term' = Terminated(ins, "br")
        /\ ins' = 0
        /\ UNCHANGED <<stack, blockStack, frames, brt, status>>
    BY <1>4 DEF Br, Requires
  <2>2. TypeOK /\ "br" \in Terminators /\ Len(phis[b]) <= Len(stack)
    BY <1>1, <1>2, <1>4, ReachableFacts DEF IInv, Terminators
  <2> HIDE DEF b
  <2>3. preds' \in Seq(Seq(Nat)) /\ Len(preds') = Len(term)
    BY <1>1, <1>2, <2>1, <2>2, PredsWithFacts, ReachableFacts
  <2>4. /\ phis' \in Seq(Seq(Seq(Incoming)))
        /\ Len(phis') = Len(term)
        /\ \A c \in Blocks : Len(phis'[c]) = Len(phis[c])
    <3>1. stack \in Seq(Value) /\ ins \in Nat /\ b \in Blocks
      BY <1>1, <1>2, ReachableFacts
    <3> QED
      BY <2>1, <2>2, <3>1, PhisWithLengths
  <2>5. term' \in Seq(Terminators) /\ Len(term') = Len(term)
    BY <1>1, <2>1, <2>2, TerminatedFacts, ReachableFacts
  <2>6. TypeOK'
    BY <2>1, <2>2, <2>3, <2>4, <2>5 DEF TypeOK
  <2>7. /\ status = "visit"
        /\ status' = status
        /\ Len(term) <= Len(term')
        /\ ins' \in 0 .. Len(term')
        /\ brt' \in 0 .. Len(term')
        /\ ins' = 0
        /\ Frame.pos <= Len(stack')
        /\ frames' = frames
        /\ UNCHANGED <<blockStack, vctrl>>
        /\ ~ Reachable'
    BY <1>1, <1>2, <2>1, <2>5, ReachableFacts, FrameFacts DEF Reachable
  <2> QED
    BY <1>1, <1>2, <2>4, <2>6, <2>7, BodyStep
<1> QED
  BY <1>3, <1>4

(* br_if: the other edge leads to a fresh block, where visitControlInsts   *)
(* continues.                                                              *)
LEMMA BrIfStep ==
  ASSUME IInv, NEW l \in VDepths, BrIf(l), VBranch(l, 1), exprs' \in Nat
  PROVE  IInv'
<1> DEFINE b == Target(l).target
           next == Len(term) + 1
<1>1. Reachable
  BY DEF BrIf
<1>2. /\ VTypeOK'
      /\ UNCHANGED vctrl
      /\ VAvailable' = VAvailable - 1
      /\ VAvailable >= VArity(l) + 1
      /\ VArity(l) \in Nat
      /\ Len(phis[b]) = VArity(l)
      /\ b \in Blocks
      /\ b \in Nat
  BY <1>1, ReachableFacts, VBranchFacts, TargetFacts
<1>3. CASE Len(stack) < 1 + Len(phis[b])
  <2>1. AssertFails
    BY <1>3 DEF BrIf, Requires
  <2> QED
    BY <1>1, <1>2, <2>1, StopStep, ReachableFacts
<1>4. CASE ~ (Len(stack) < 1 + Len(phis[b]))
  <2>1. /\ preds' = Append(PredsWith(b, ins), <<ins>>)
        /\ phis' = Append(PhisWith(b, Drop1(stack), ins), << >>)
        /\ term' = Append(Terminated(ins, "condbr"), "none")
        /\ ins' = next
        /\ stack' = Drop1(stack)
        /\ frames' = SetEntry(next)
        /\ UNCHANGED <<blockStack, brt, status>>
    BY <1>4 DEF BrIf, Requires
  <2>2. TypeOK /\ "condbr" \in Terminators /\ "none" \in Terminators
    BY DEF IInv, Terminators
  <2>3. /\ stack \in Seq(Value)
        /\ Len(stack) \in Nat
        /\ Len(stack) > 0
        /\ Len(phis[b]) <= Len(stack) - 1
    BY <1>1, <1>2, <1>4, ReachableFacts, SMTT(30)
  <2>4. /\ Drop1(stack) \in Seq(Value)
        /\ Len(Drop1(stack)) = Len(stack) - 1
    BY <2>3, Drop1Facts
  <2>5. /\ ins \in Nat /\ ins \in Blocks
        /\ next \in Nat
        /\ Len(term) \in Nat
        /\ Len(frames) > 0
    BY <1>1, ReachableFacts, FrameFacts
  <2> HIDE DEF b, next
  <2>6. /\ PredsWith(b, ins) \in Seq(Seq(Nat))
        /\ Len(PredsWith(b, ins)) = Len(term)
    BY <1>2, <2>2, <2>5, PredsWithFacts
  <2>7. /\ PhisWith(b, Drop1(stack), ins) \in Seq(Seq(Seq(Incoming)))
        /\ Len(PhisWith(b, Drop1(stack), ins)) = Len(term)
        /\ \A c \in Blocks : Len(PhisWith(b, Drop1(stack), ins)[c]) = Len(phis[c])
    <3> DEFINE d == Drop1(stack)
    <3>1. /\ d \in Seq(Value)
          /\ Len(phis[b]) <= Len(d)
          /\ b \in Blocks
          /\ ins \in Nat
          /\ TypeOK
      BY <1>2, <2>2, <2>3, <2>4, <2>5
    <3> HIDE DEF d
    <3>2. /\ PhisWith(b, d, ins) \in Seq(Seq(Seq(Incoming)))
          /\ Len(PhisWith(b, d, ins)) = Len(term)
          /\ \A c \in Blocks : Len(PhisWith(b, d, ins)[c]) = Len(phis[c])
      BY <3>1, PhisWithLengths
    <3> QED
      BY <3>2 DEF d
  <2>8. /\ Terminated(ins, "condbr") \in Seq(Terminators)
        /\ Len(Terminated(ins, "condbr")) = Len(term)
    BY <2>2, <2>5, TerminatedFacts
  <2>9. /\ preds' \in Seq(Seq(Nat))
        /\ Len(preds') = Len(term) + 1
    BY <2>1, <2>5, <2>6
  <2>10. /\ phis' \in Seq(Seq(Seq(Incoming)))
         /\ Len(phis') = Len(term) + 1
         /\ \A c \in Blocks : Len(phis'[c]) = Len(phis[c])
    <3> DEFINE ps == PhisWith(b, Drop1(stack), ins)
    <3>1. /\ ps \in Seq(Seq(Seq(Incoming)))
          /\ Len(ps) = Len(term)
          /\ \A c \in Blocks : Len(ps[c]) = Len(phis[c])
          /\ phis' = Append(ps, << >>)
      BY <2>1, <2>7
    <3>2. << >> \in Seq(Seq(Incoming))
      OBVIOUS
    <3> HIDE DEF ps
    <3>3. /\ phis' \in Seq(Seq(Seq(Incoming)))
          /\ Len(phis') = Len(term) + 1
          /\ \A c \in 1 .. Len(term) : phis'[c] = ps[c]
      BY <3>1, <3>2, AppendProperties
    <3> QED
      BY <3>1, <3>3 DEF Blocks
  <2>11. /\ term' \in Seq(Terminators)
         /\ Len(term') = Len(term) + 1
    BY <2>1, <2>2, <2>8
  <2>12. frames' \in Seq(FrameType)
    BY <2>1, <2>2, <2>5, SetEntryFacts
  <2>13. TypeOK'
    BY <2>1, <2>2, <2>4, <2>5, <2>9, <2>10, <2>11, <2>12 DEF TypeOK
  <2>14. /\ Frame.pos <= Len(stack')
         /\ VAvailable' >= 0
         /\ Len(stack') - Frame.pos >= VAvailable'
    <3> DEFINE len == Len(stack)
               pos == Frame.pos
               avail == VAvailable
    <3>1. /\ len \in Nat /\ pos \in Nat /\ avail \in Nat
          /\ avail >= 1
          /\ len - pos >= avail
          /\ Len(stack') = len - 1
          /\ VAvailable' = avail - 1
      BY <1>1, <1>2, <2>1, <2>3, <2>4, ReachableFacts, SMTT(30)
    <3> HIDE DEF len, avail
    <3> QED
      BY <3>1
  <2>15. /\ status = "visit"
         /\ status' = status
         /\ Len(term) <= Len(term')
         /\ ins' \in 0 .. Len(term')
         /\ brt' = 0
         /\ brt' \in 0 .. Len(term')
         /\ ins' = next
         /\ UNCHANGED <<blockStack, vctrl>>
    BY <1>1, <1>2, <2>1, <2>5, <2>11, ReachableFacts, SMTT(30) DEF next
  <2>16. frames' = frames => ins' = Frame.entry
    <3>1. SetEntry(next)[Len(frames)].entry = next
      BY <2>2, <2>5, SetEntryFacts
    <3> QED
      BY <2>1, <3>1 DEF Frame, Top
  <2> QED
    BY <1>2, <2>1, <2>5, <2>10, <2>13, <2>14, <2>15, <2>16, BodyStep
<1> QED
  BY <1>3, <1>4

(* br_table: the switch and its default.                                   *)
LEMMA BrTableStep ==
  ASSUME IInv, NEW l \in VDepths, BrTable(l), VBranch(l, 1), exprs' \in Nat
  PROVE  IInv'
<1> DEFINE b == Target(l).target
<1>1. Reachable
  BY DEF BrTable
<1>2. /\ VTypeOK'
      /\ UNCHANGED vctrl
      /\ VAvailable >= VArity(l) + 1
      /\ VArity(l) \in Nat
      /\ Len(phis[b]) = VArity(l)
      /\ b \in Blocks
      /\ b \in Nat
  BY <1>1, ReachableFacts, VBranchFacts, TargetFacts
<1>3. CASE Len(stack) < 1 + Len(phis[b])
  <2>1. AssertFails
    BY <1>3 DEF BrTable, Requires
  <2> QED
    BY <1>1, <1>2, <2>1, StopStep, ReachableFacts
<1>4. CASE ~ (Len(stack) < 1 + Len(phis[b]))
  <2>1. /\ preds' = PredsWith(b, ins)
        /\ phis' = PhisWith(b, Drop1(stack), ins)
        /\ term' = Terminated(ins, "switch")
        /\ ins' = 0
        /\ stack' = Drop1(stack)
        /\ brt' = ins
        /\ UNCHANGED <<blockStack, frames, status>>
    BY <1>4 DEF BrTable, Requires
  <2>2. TypeOK /\ "switch" \in Terminators
    BY DEF IInv, Terminators
  <2>3. /\ stack \in Seq(Value)
        /\ Len(stack) \in Nat
        /\ Len(stack) > 0
        /\ Len(phis[b]) <= Len(stack) - 1
    BY <1>1, <1>2, <1>4, ReachableFacts
  <2>4. /\ Drop1(stack) \in Seq(Value)
        /\ Len(Drop1(stack)) = Len(stack) - 1
    BY <2>3, Drop1Facts
  <2>5. /\ ins \in Nat /\ ins \in Blocks
        /\ Len(term) \in Nat
    BY <1>1, ReachableFacts
  <2> HIDE DEF b
  <2>6. preds' \in Seq(Seq(Nat)) /\ Len(preds') = Len(term)
    BY <1>2, <2>1, <2>2, <2>5, PredsWithFacts
  <2>7. /\ phis' \in Seq(Seq(Seq(Incoming)))
        /\ Len(phis') = Len(term)
        /\ \A c \in Blocks : Len(phis'[c]) = Len(phis[c])
    <3> DEFINE d == Drop1(stack)
    <3>1. /\ d \in Seq(Value)
          /\ Len(phis[b]) <= Len(d)
          /\ b \in Blocks
          /\ ins \in Nat
          /\ TypeOK
          /\ phis' = PhisWith(b, d, ins)
      BY <1>2, <2>1, <2>2, <2>3, <2>4, <2>5
    <3> HIDE DEF d
    <3> QED
      BY <3>1, PhisWithLengths
  <2>8. term' \in Seq(Terminators) /\ Len(term') = Len(term)
    BY <2>1, <2>2, <2>5, TerminatedFacts
  <2>9. TypeOK'
    BY <2>1, <2>2, <2>4, <2>5, <2>6, <2>7, <2>8 DEF TypeOK
  <2>10. Frame.pos <= Len(stack')
    <3> DEFINE len == Len(stack)
               pos == Frame.pos
               avail == VAvailable
    <3>1. /\ len \in Nat /\ pos \in Nat /\ avail \in Nat
          /\ avail >= 1
          /\ len - pos >= avail
          /\ Len(stack') = len - 1
      BY <1>1, <1>2, <2>1, <2>3, <2>4, ReachableFacts
    <3> HIDE DEF len, avail
    <3> QED
      BY <3>1
  <2>11. /\ status = "visit"
         /\ status' = status
         /\ Len(term) <= Len(term')
         /\ ins' \in 0 .. Len(term')
         /\ brt' \in 0 .. Len(term')
         /\ ins' = 0
         /\ frames' = frames
         /\ UNCHANGED <<blockStack, vctrl>>
         /\ ~ Reachable'
    BY <1>1, <1>2, <2>1, <2>5, <2>8, ReachableFacts DEF Reachable, Blocks
  <2> QED
    BY <1>2, <2>5, <2>7, <2>9, <2>10, <2>11, BodyStep
<1> QED
  BY <1>3, <1>4

(* ... its cases, and its end.                                             *)
LEMMA BrTableTargetStep ==
  ASSUME IInv, NEW l \in VDepths, BrTableTarget(l)
  PROVE  IInv'
<1> DEFINE b == Target(l).target
<1>1. /\ status = "visit"
      /\ brt # 0
      /\ ins = 0
      /\ exprs' \in Nat
      /\ VTypeOK'
      /\ UNCHANGED vctrl
  BY DEF BrTableTarget, BrTableCase, Read, VBranchTarget, vvars, VTypeOK,
         IInv, TypeOK, BlocksOK
<1>2. b \in Blocks /\ b \in Nat
  BY <1>1, TargetFacts
<1>3. CASE Len(stack) < Len(phis[b])
  <2>1. Abort
    BY <1>3 DEF BrTableTarget, BrTableCase
  <2> QED
    BY <1>1, <2>1, StopStep
<1>4. CASE ~ (Len(stack) < Len(phis[b]))
  <2>1. /\ preds' = PredsWith(b, brt)
        /\ phis' = PhisWith(b, stack, ins)
        /\ UNCHANGED <<term, ins, stack, blockStack, frames, brt, status>>
    BY <1>4 DEF BrTableTarget, BrTableCase
  <2>2. /\ TypeOK
        /\ stack \in Seq(Value)
        /\ ins \in Nat
        /\ brt \in Nat
        /\ brt \in 0 .. Len(term)
        /\ Len(term) \in Nat
        /\ phis[b] \in Seq(Seq(Incoming))
    BY <1>2, SMTT(30) DEF IInv, TypeOK, BlocksOK, Blocks
  <2>3. Len(phis[b]) <= Len(stack)
    BY <1>4, <2>2
  <2> HIDE DEF b
  <2>4. preds' \in Seq(Seq(Nat)) /\ Len(preds') = Len(term)
    BY <1>2, <2>1, <2>2, PredsWithFacts
  <2>5. /\ phis' \in Seq(Seq(Seq(Incoming)))
        /\ Len(phis') = Len(term)
        /\ \A c \in Blocks : Len(phis'[c]) = Len(phis[c])
    BY <1>2, <2>1, <2>2, <2>3, PhisWithLengths
  <2>6. TypeOK'
    BY <1>1, <2>1, <2>2, <2>4, <2>5 DEF TypeOK
  <2>7. /\ status' = status
        /\ Len(term) <= Len(term')
        /\ ins' \in 0 .. Len(term')
        /\ brt' \in 0 .. Len(term')
        /\ ins' = 0
        /\ frames' = frames
        /\ UNCHANGED <<blockStack, vctrl>>
        /\ Frame.pos <= Len(stack')
        /\ ~ Reachable'
    BY <1>1, <2>1, <2>2, FrameFacts DEF Reachable
  <2> QED
    BY <1>1, <2>2, <2>5, <2>6, <2>7, BodyStep
<1> QED
  BY <1>3, <1>4

LEMMA BrTableDoneStep ==
  ASSUME IInv, BrTableDone
  PROVE  IInv'
<1>1. /\ status = "visit"
      /\ ins = 0
      /\ brt' = 0
      /\ UNCHANGED <<preds, phis, term, ins, stack, blockStack, frames, status>>
      /\ UNCHANGED <<vdepth, vctrl, varity, exprs>>
  BY DEF BrTableDone, BrTableEnd, vvars, IInv, BlocksOK
<1>2. TypeOK' /\ VTypeOK'
  BY <1>1 DEF IInv, TypeOK, VTypeOK
<1>3. /\ ins \in Nat
      /\ Len(term) \in Nat
      /\ Frame.pos <= Len(stack)
      /\ ~ Reachable'
  BY <1>1, FrameFacts DEF IInv, TypeOK, Reachable
<1>4. /\ Len(term) <= Len(term')
      /\ \A c \in Blocks : Len(phis'[c]) = Len(phis[c])
      /\ ins' \in 0 .. Len(term')
      /\ brt' \in 0 .. Len(term')
      /\ Frame.pos <= Len(stack')
  BY <1>1, <1>3
<1> QED
  BY <1>1, <1>2, <1>3, <1>4, BodyStep

-----------------------------------------------------------------------------
(* Blocks, loops and ifs.                                                  *)

(* The control frame the validator opens, n operands below the top.        *)
NewVFrame(kind, np, nr, n) ==
  [kind |-> kind, arity |-> IF kind = "Loop" THEN np ELSE nr,
   height |-> vdepth - n - np, params |-> np, results |-> nr]

(* Both open their block under its parameters.                             *)
LEMMA EnterFacts ==
  ASSUME IInv, Reachable, NEW kind \in Labels, NEW np \in Nat, NEW nr \in Nat,
         NEW n \in Nat, VEnter(kind, np, nr, n)
  PROVE  /\ VTypeOK'
         /\ vctrl' = Append(vctrl, NewVFrame(kind, np, nr, n))
         /\ NewVFrame(kind, np, nr, n) \in VFrameType
         /\ VFrame.height <= NewVFrame(kind, np, nr, n).height
         /\ NewVFrame(kind, np, nr, n).height - VFrame.height
              <= Len(stack) - n - np - Frame.pos
         /\ Len(stack) \in Nat
         /\ Len(stack) - n - np \in Nat
         /\ VAvailable' = np
<1> DEFINE v == NewVFrame(kind, np, nr, n)
<1>1. /\ status = "visit"
      /\ Frame.pos \in Nat
      /\ Len(stack) \in Nat
      /\ Len(stack) - Frame.pos >= VAvailable
  BY ReachableFacts
<1>2. /\ VTypeOK'
      /\ vctrl' = Append(vctrl, v)
      /\ VAvailable >= np + n
      /\ VAvailable' = np
      /\ VFrame.height <= v.height
  BY <1>1, VEnterFacts DEF NewVFrame
<1>3. /\ vdepth \in Nat
      /\ VFrame.height \in Nat
      /\ VAvailable = vdepth - VFrame.height
      /\ v.height = vdepth - n - np
  BY <1>1, VFrameFacts DEF NewVFrame
<1>4. v \in VFrameType
  <2>1. vdepth - n - np \in Nat
    BY <1>2, <1>3
  <2> QED
    BY <2>1 DEF NewVFrame, VFrameType
<1> DEFINE len == Len(stack)
           pos == Frame.pos
           hh == VFrame.height
<1>5. /\ len \in Nat /\ pos \in Nat /\ hh \in Nat /\ vdepth \in Nat
      /\ len - pos >= vdepth - hh
      /\ vdepth - hh >= np + n
  BY <1>1, <1>2, <1>3
<1> HIDE DEF len, pos, hh
<1>6. /\ len - n - np \in Nat
      /\ vdepth - n - np - hh <= len - n - np - pos
  BY <1>5
<1> QED
  BY <1>1, <1>2, <1>3, <1>4, <1>6 DEF len, pos, hh

(* A block.                                                                *)
LEMMA BlockStep ==
  ASSUME IInv, NEW np \in Nat, NEW nr \in Nat, EnterBlock(np, nr),
         VEnter("Block", np, nr, 0), exprs' \in Nat
  PROVE  IInv'
<1> DEFINE exit == Len(term) + 1
           pos == Len(stack) - np
           f == [lty |-> "Block", entry |-> Frame.entry, exit |-> exit,
                 pos |-> pos, results |-> nr, saved |-> << >>, else |-> 0]
           v == NewVFrame("Block", np, nr, 0)
<1>1. /\ Reachable
      /\ preds' = Append(preds, << >>)
      /\ phis' = Append(phis, EmptyPhis(nr))
      /\ term' = Append(term, "none")
      /\ ins' = Frame.entry
      /\ blockStack' = Append(blockStack, [target |-> exit, pos |-> pos])
      /\ frames' = Call(Frame.entry, f)
      /\ UNCHANGED <<stack, brt, status>>
  BY DEF EnterBlock, PosUnder
<1>2. /\ status = "visit"
      /\ brt = 0
      /\ Frame.entry \in Nat
      /\ Frame.entry \in Blocks
      /\ Frame.pos \in Nat
      /\ Len(frames) > 0
      /\ Len(term) \in Nat
  BY <1>1, ReachableFacts, FrameFacts, SMTT(30)
<1>3. "Block" \in Labels /\ 0 \in Nat
  BY DEF Labels
<1>4. /\ VTypeOK'
      /\ vctrl' = Append(vctrl, v)
      /\ v \in VFrameType
      /\ VFrame.height <= v.height
      /\ v.height - VFrame.height <= Len(stack) - 0 - np - Frame.pos
      /\ Len(stack) \in Nat
      /\ Len(stack) - 0 - np \in Nat
      /\ VAvailable' = np
  BY <1>1, <1>3, EnterFacts
<1>5. /\ v.kind = "Block"
      /\ v.arity = nr
      /\ v.results = nr
  BY DEF NewVFrame
<1>6. pos \in Nat /\ v.height - VFrame.height <= pos - Frame.pos
  BY <1>4
<1>7. f \in FrameType
  BY <1>2, <1>3, <1>6 DEF FrameType
<1>8. /\ f.lty = "Block"
      /\ f.entry = Frame.entry
      /\ f.exit = exit
      /\ f.pos = pos
      /\ f.results = nr
  OBVIOUS
<1> HIDE DEF f, v
<1>9. /\ preds \in Seq(Seq(Nat))
      /\ phis \in Seq(Seq(Seq(Incoming)))
      /\ term \in Seq(Terminators)
      /\ Len(preds) = Len(term)
      /\ Len(phis) = Len(term)
      /\ blockStack \in Seq([target : Nat, pos : Nat])
      /\ stack \in Seq(Value)
      /\ TypeOK
  BY DEF IInv, TypeOK
<1>10. preds' \in Seq(Seq(Nat)) /\ Len(preds') = Len(term) + 1
  <2>1. << >> \in Seq(Nat)
    OBVIOUS
  <2> QED
    BY <1>1, <1>9, <2>1, AppendProperties, SMTT(30)
<1>11. /\ EmptyPhis(nr) \in Seq(Seq(Incoming))
       /\ Len(EmptyPhis(nr)) = nr
  BY EmptyPhisFacts
<1>12. /\ phis' \in Seq(Seq(Seq(Incoming)))
       /\ Len(phis') = Len(term) + 1
       /\ \A c \in Blocks : phis'[c] = phis[c]
       /\ phis'[Len(term) + 1] = EmptyPhis(nr)
  <2> DEFINE ps == EmptyPhis(nr)
  <2>1. /\ ps \in Seq(Seq(Incoming))
        /\ phis' = Append(phis, ps)
    BY <1>1, <1>11
  <2> HIDE DEF ps
  <2>2. /\ phis' \in Seq(Seq(Seq(Incoming)))
        /\ Len(phis') = Len(phis) + 1
        /\ \A c \in 1 .. Len(phis) : phis'[c] = phis[c]
        /\ phis'[Len(phis) + 1] = ps
    BY <1>9, <2>1, AppendProperties
  <2> QED
    BY <1>9, <2>2 DEF Blocks, ps
<1>13. term' \in Seq(Terminators) /\ Len(term') = Len(term) + 1
  BY <1>1, <1>9 DEF Terminators
<1>14. frames' \in Seq(FrameType)
  BY <1>1, <1>2, <1>7, <1>9, CallFacts
<1>15. blockStack' \in Seq([target : Nat, pos : Nat])
  BY <1>1, <1>2, <1>6, <1>9
<1>16. TypeOK'
  BY <1>1, <1>2, <1>9, <1>10, <1>12, <1>13, <1>14, <1>15 DEF TypeOK
<1>17. /\ Len(term) <= Len(term')
       /\ exit \in Nat
       /\ exit \in 1 .. Len(term')
       /\ ins' \in 0 .. Len(term')
       /\ brt' = 0
       /\ status' = status
       /\ \A c \in Blocks : Len(phis'[c]) = Len(phis[c])
       /\ v.arity = Len(phis'[exit])
  BY <1>1, <1>2, <1>5, <1>11, <1>12, <1>13, SMTT(30) DEF Blocks
<1>18. /\ pos <= Len(stack')
       /\ VAvailable' >= 0
       /\ Len(stack') - pos >= VAvailable'
  BY <1>1, <1>4
<1> HIDE DEF exit, pos
<1> QED
  BY <1>1, <1>2, <1>4, <1>5, <1>6, <1>7, <1>8, <1>16, <1>17, <1>18, OpenStep

(* A loop: the entering edge passes the parameters to its PHIs.            *)
LEMMA LoopStep ==
  ASSUME IInv, NEW np \in Nat, NEW nr \in Nat, EnterLoop(np, nr),
         VEnter("Loop", np, nr, 0), exprs' \in Nat
  PROVE  IInv'
<1> DEFINE loop == Len(term) + 1
           pos == Len(stack) - np
           args == LastN(stack, np)
           ps == AddIncoming(EmptyPhis(np), args, loop)
           ph == [k \in 1 .. np |-> Phi(loop, k)]
           d == DropLast(stack, np)
           f == [lty |-> "Loop", entry |-> loop, exit |-> Frame.exit,
                 pos |-> pos, results |-> nr, saved |-> << >>, else |-> 0]
           v == NewVFrame("Loop", np, nr, 0)
<1>1. "Loop" \in Labels /\ "br" \in Terminators /\ 0 \in Nat
  BY DEF Labels, Terminators
<1>2. Reachable
  BY DEF EnterLoop
<1>3. /\ VTypeOK'
      /\ vctrl' = Append(vctrl, v)
      /\ v \in VFrameType
      /\ VFrame.height <= v.height
      /\ v.height - VFrame.height <= Len(stack) - 0 - np - Frame.pos
      /\ Len(stack) \in Nat
      /\ Len(stack) - 0 - np \in Nat
      /\ VAvailable' = np
  BY <1>1, <1>2, EnterFacts
<1>4. /\ pos \in Nat
      /\ v.height - VFrame.height <= pos - Frame.pos
      /\ np <= Len(stack)
      /\ ~ (Len(stack) < np)
      /\ pos + np = Len(stack)
  BY <1>3
<1>5. /\ preds' = Append(preds, <<ins>>)
      /\ phis' = Append(phis, ps)
      /\ term' = Append(Terminated(ins, "br"), "none")
      /\ ins' = loop
      /\ stack' = d \o ph
      /\ blockStack' = Append(blockStack, [target |-> loop, pos |-> pos])
      /\ frames' = Call(loop, f)
      /\ UNCHANGED <<brt, status>>
  BY <1>4 DEF EnterLoop, PosUnder, Requires
<1>6. /\ status = "visit"
      /\ brt = 0
      /\ ins \in Nat
      /\ ins \in Blocks
      /\ Frame.pos \in Nat
      /\ Frame.exit \in Blocks
      /\ Frame.exit \in Nat
      /\ Len(frames) > 0
      /\ Len(term) \in Nat
      /\ stack \in Seq(Value)
  <2>1. /\ status = "visit"
        /\ brt = 0
        /\ ins \in Nat
        /\ ins \in Blocks
        /\ Len(term) \in Nat
        /\ stack \in Seq(Value)
    BY <1>2, ReachableFacts
  <2>2. /\ Frame.pos \in Nat
        /\ Frame.exit \in Blocks
        /\ Len(frames) > 0
    BY <2>1, FrameFacts
  <2>3. Frame.exit \in Nat
    BY <2>1, <2>2 DEF Blocks
  <2> QED
    BY <2>1, <2>2, <2>3
<1>7. /\ v.kind = "Loop"
      /\ v.arity = np
      /\ v.results = nr
  BY DEF NewVFrame
<1>8. f \in FrameType
  BY <1>1, <1>4, <1>6 DEF FrameType
<1>9. /\ f.lty = "Loop"
      /\ f.entry = loop
      /\ f.exit = Frame.exit
      /\ f.pos = pos
      /\ f.results = nr
  OBVIOUS
<1> HIDE DEF f, v
<1>10. /\ preds \in Seq(Seq(Nat))
       /\ phis \in Seq(Seq(Seq(Incoming)))
       /\ Len(preds) = Len(term)
       /\ Len(phis) = Len(term)
       /\ blockStack \in Seq([target : Nat, pos : Nat])
       /\ TypeOK
  BY DEF IInv, TypeOK
<1>11. loop \in Nat
  BY <1>6
<1>12. ps \in Seq(Seq(Incoming)) /\ Len(ps) = np
  <2>1. /\ EmptyPhis(np) \in Seq(Seq(Incoming))
        /\ Len(EmptyPhis(np)) = np
    BY EmptyPhisFacts
  <2>2. args \in Seq(Value) /\ Len(args) = np
    BY <1>4, <1>6, LastNFacts
  <2> HIDE DEF args, loop
  <2> QED
    BY <1>11, <2>1, <2>2, AddIncomingFacts
<1>13. d \in Seq(Value) /\ Len(d) = pos
  BY <1>4, <1>6, DropLastFacts, ZenonT(30)
<1>14. ph \in Seq(Value) /\ Len(ph) = np
  BY <1>11 DEF Phi, Value
<1> HIDE DEF ps, ph, d, args
<1>15. stack' \in Seq(Value) /\ Len(stack') = Len(stack)
  <2>1. stack' \in Seq(Value) /\ Len(stack') = Len(d) + Len(ph)
    BY <1>5, <1>13, <1>14, ConcatProperties
  <2> QED
    BY <1>4, <1>13, <1>14, <2>1
<1>16. preds' \in Seq(Seq(Nat)) /\ Len(preds') = Len(term) + 1
  <2> DEFINE e == <<ins>>
  <2>1. e \in Seq(Nat)
    BY <1>6
  <2>2. preds' = Append(preds, e) /\ preds \in Seq(Seq(Nat))
    BY <1>5, <1>10
  <2> HIDE DEF e
  <2>3. preds' \in Seq(Seq(Nat)) /\ Len(preds') = Len(preds) + 1
    BY <2>1, <2>2, AppendProperties
  <2> QED
    BY <1>10, <2>3
<1>17. /\ phis' \in Seq(Seq(Seq(Incoming)))
       /\ Len(phis') = Len(term) + 1
       /\ \A c \in Blocks : phis'[c] = phis[c]
       /\ phis'[loop] = ps
  <2>1. /\ phis' \in Seq(Seq(Seq(Incoming)))
        /\ Len(phis') = Len(phis) + 1
        /\ \A c \in 1 .. Len(phis) : phis'[c] = phis[c]
        /\ phis'[Len(phis) + 1] = ps
    <3>1. /\ phis' = Append(phis, ps)
          /\ phis \in Seq(Seq(Seq(Incoming)))
          /\ ps \in Seq(Seq(Incoming))
      BY <1>5, <1>10, <1>12
    <3> QED
      BY <3>1, AppendProperties
  <2> QED
    BY <1>10, <2>1 DEF Blocks
<1>18. term' \in Seq(Terminators) /\ Len(term') = Len(term) + 1
  <2> DEFINE t == Terminated(ins, "br")
  <2>1. t \in Seq(Terminators) /\ Len(t) = Len(term)
    BY <1>1, <1>6, <1>10, TerminatedFacts
  <2>2. "none" \in Terminators
    BY DEF Terminators
  <2> HIDE DEF t
  <2>3. term' = Append(t, "none")
    BY <1>5 DEF t
  <2> QED
    BY <2>1, <2>2, <2>3, AppendProperties
<1>19. frames' \in Seq(FrameType)
  BY <1>5, <1>6, <1>8, <1>10, <1>11, CallFacts
<1>20. blockStack' \in Seq([target : Nat, pos : Nat])
  BY <1>5, <1>4, <1>10, <1>11
<1>21. TypeOK'
  BY <1>5, <1>6, <1>10, <1>11, <1>15, <1>16, <1>17, <1>18, <1>19, <1>20
  DEF TypeOK
<1>22. /\ Len(term) <= Len(term')
       /\ loop \in 1 .. Len(term')
       /\ Frame.exit \in 1 .. Len(term')
       /\ ins' \in 0 .. Len(term')
       /\ brt' = 0
       /\ status' = status
       /\ \A c \in Blocks : Len(phis'[c]) = Len(phis[c])
       /\ v.arity = Len(phis'[loop])
  <2>1. v.arity = Len(phis'[loop])
    BY <1>7, <1>12, <1>17
  <2>2. \A c \in Blocks : Len(phis'[c]) = Len(phis[c])
    BY <1>17
  <2>3. ins' = loop /\ brt' = 0 /\ status' = status
    BY <1>5, <1>6
  <2> QED
    BY <1>6, <1>18, <2>1, <2>2, <2>3, SMTT(30) DEF Blocks
<1>23. /\ pos <= Len(stack')
       /\ VAvailable' >= 0
       /\ Len(stack') - pos >= VAvailable'
  BY <1>3, <1>4, <1>15
<1> HIDE DEF loop, pos
<1> QED
  BY <1>3, <1>4, <1>5, <1>6, <1>7, <1>8, <1>9, <1>11, <1>21, <1>22, <1>23,
     OpenStep

(* An if: the condition is popped, and the parameters are saved for the    *)
(* else arm.                                                               *)
LEMMA IfStep ==
  ASSUME IInv, NEW np \in Nat, NEW nr \in Nat, EnterIf(np, nr),
         VEnter("If", np, nr, 1), exprs' \in Nat
  PROVE  IInv'
<1> DEFINE then == Len(term) + 1
           else == Len(term) + 2
           exit == Len(term) + 3
           d == Drop1(stack)
           pos == Len(d) - np
           saved == LastN(d, np)
           f == [lty |-> "If", entry |-> then, exit |-> exit, pos |-> pos,
                 results |-> nr, saved |-> saved, else |-> else]
           v == NewVFrame("If", np, nr, 1)
<1>1. "If" \in Labels /\ "condbr" \in Terminators /\ 1 \in Nat
  BY DEF Labels, Terminators
<1>2. Reachable
  BY DEF EnterIf
<1>3. /\ VTypeOK'
      /\ vctrl' = Append(vctrl, v)
      /\ v \in VFrameType
      /\ VFrame.height <= v.height
      /\ v.height - VFrame.height <= Len(stack) - 1 - np - Frame.pos
      /\ Len(stack) \in Nat
      /\ Len(stack) - 1 - np \in Nat
      /\ VAvailable' = np
  BY <1>1, <1>2, EnterFacts
<1>4. /\ status = "visit"
      /\ brt = 0
      /\ ins \in Nat
      /\ ins \in Blocks
      /\ Frame.pos \in Nat
      /\ Len(frames) > 0
      /\ Len(term) \in Nat
      /\ stack \in Seq(Value)
  BY <1>2, ReachableFacts, FrameFacts DEF Blocks
<1>5. ~ (Len(stack) < np + 1) /\ Len(stack) > 0
  BY <1>3
<1>6. d \in Seq(Value) /\ Len(d) = Len(stack) - 1
  BY <1>4, <1>5, Drop1Facts
<1>7. /\ preds' = preds \o << <<ins>>, <<ins>>, << >> >>
      /\ phis' = phis \o << << >>, << >>, EmptyPhis(nr) >>
      /\ term' = Terminated(ins, "condbr") \o <<"none", "none", "none">>
      /\ ins' = then
      /\ stack' = d
      /\ blockStack' = Append(blockStack, [target |-> exit, pos |-> pos])
      /\ frames' = Call(then, f)
      /\ UNCHANGED <<brt, status>>
  BY <1>5 DEF EnterIf, PosUnder, Requires
<1> HIDE DEF d
<1>8. /\ pos \in Nat
      /\ v.height - VFrame.height <= pos - Frame.pos
      /\ np <= Len(d)
      /\ pos + np = Len(d)
      /\ Len(d) \in Nat
  BY <1>3, <1>6
<1>9. saved \in Seq(Value) /\ Len(saved) = np
  BY <1>6, <1>8, LastNFacts
<1> HIDE DEF saved
<1>10. /\ v.kind = "If"
       /\ v.arity = nr
       /\ v.results = nr
       /\ v.params = np
  BY DEF NewVFrame
<1>11. /\ then \in Nat
       /\ else \in Nat
       /\ exit \in Nat
  BY <1>4
<1>12. f \in FrameType
  <2> HIDE DEF then, else, exit, pos
  <2> QED
    BY <1>1, <1>8, <1>9, <1>11 DEF FrameType
<1>13. /\ f.lty = "If"
       /\ f.entry = then
       /\ f.exit = exit
       /\ f.else = else
       /\ f.pos = pos
       /\ f.saved = saved
       /\ f.results = nr
  OBVIOUS
<1> HIDE DEF f, v
<1>14. /\ preds \in Seq(Seq(Nat))
       /\ phis \in Seq(Seq(Seq(Incoming)))
       /\ Len(preds) = Len(term)
       /\ Len(phis) = Len(term)
       /\ blockStack \in Seq([target : Nat, pos : Nat])
       /\ TypeOK
  BY DEF IInv, TypeOK
<1>15. preds' \in Seq(Seq(Nat)) /\ Len(preds') = Len(term) + 3
  <2> DEFINE e == << <<ins>>, <<ins>>, << >> >>
  <2>1. e \in Seq(Seq(Nat)) /\ Len(e) = 3
    BY <1>4
  <2>2. preds' = preds \o e
    BY <1>7
  <2> HIDE DEF e
  <2>3. preds' \in Seq(Seq(Nat)) /\ Len(preds') = Len(preds) + Len(e)
    BY <1>14, <2>1, <2>2, ConcatProperties
  <2> QED
    BY <1>14, <2>1, <2>3
<1>16. /\ phis' \in Seq(Seq(Seq(Incoming)))
       /\ Len(phis') = Len(term) + 3
       /\ \A c \in Blocks : phis'[c] = phis[c]
       /\ Len(phis'[exit]) = nr
  <2> DEFINE ps == EmptyPhis(nr)
             e == << << >>, << >>, ps >>
  <2>1. ps \in Seq(Seq(Incoming)) /\ Len(ps) = nr
    BY EmptyPhisFacts
  <2> HIDE DEF ps
  <2>2. e \in Seq(Seq(Seq(Incoming))) /\ Len(e) = 3 /\ e[3] = ps
    BY <2>1
  <2>3. phis' = phis \o e
    BY <1>7 DEF ps
  <2> HIDE DEF e
  <2>4. /\ phis' \in Seq(Seq(Seq(Incoming)))
        /\ Len(phis') = Len(phis) + Len(e)
        /\ \A c \in 1 .. Len(phis) + Len(e) :
             phis'[c] = IF c <= Len(phis) THEN phis[c] ELSE e[c - Len(phis)]
    <3>1. /\ phis \in Seq(Seq(Seq(Incoming)))
          /\ e \in Seq(Seq(Seq(Incoming)))
      BY <1>14, <2>2
    <3> QED
      BY <2>3, <3>1, ConcatProperties
  <2>5. phis'[exit] = ps
    <3>1. /\ exit \in 1 .. Len(phis) + Len(e)
          /\ ~ (exit <= Len(phis))
          /\ exit - Len(phis) = 3
      BY <1>4, <1>14, <2>2
    <3> QED
      BY <2>2, <2>4, <3>1
  <2>6. \A c \in Blocks : phis'[c] = phis[c]
    <3> TAKE c \in Blocks
    <3>1. c \in 1 .. Len(phis) + Len(e) /\ c <= Len(phis)
      BY <1>4, <1>14, <2>2 DEF Blocks
    <3> QED
      BY <2>4, <3>1
  <2> QED
    BY <1>14, <2>1, <2>2, <2>4, <2>5, <2>6
<1>17. term' \in Seq(Terminators) /\ Len(term') = Len(term) + 3
  <2> DEFINE t == Terminated(ins, "condbr")
             e == <<"none", "none", "none">>
  <2>1. t \in Seq(Terminators) /\ Len(t) = Len(term)
    BY <1>1, <1>4, <1>14, TerminatedFacts
  <2>2. e \in Seq(Terminators) /\ Len(e) = 3
    BY DEF Terminators
  <2> HIDE DEF t, e
  <2>3. term' = t \o e
    BY <1>7 DEF t, e
  <2>4. term' \in Seq(Terminators) /\ Len(term') = Len(t) + Len(e)
    BY <2>1, <2>2, <2>3, ConcatProperties
  <2> QED
    BY <2>1, <2>2, <2>4
<1>18. frames' \in Seq(FrameType)
  BY <1>4, <1>7, <1>11, <1>12, <1>14, CallFacts
<1>19. blockStack' \in Seq([target : Nat, pos : Nat])
  BY <1>7, <1>8, <1>11, <1>14
<1>20. TypeOK'
  BY <1>4, <1>6, <1>7, <1>11, <1>14, <1>15, <1>16, <1>17, <1>18, <1>19
  DEF TypeOK
<1>21. /\ Len(term) <= Len(term')
       /\ exit \in 1 .. Len(term')
       /\ else \in 1 .. Len(term')
       /\ then \in 0 .. Len(term')
  BY <1>4, <1>17
<1>22. /\ ins' \in 0 .. Len(term')
       /\ brt' = 0
       /\ status' = status
       /\ \A c \in Blocks : Len(phis'[c]) = Len(phis[c])
       /\ v.arity = Len(phis'[exit])
  BY <1>4, <1>7, <1>10, <1>16, <1>21
<1>23. /\ pos <= Len(stack')
       /\ VAvailable' >= 0
       /\ Len(stack') - pos >= VAvailable'
  BY <1>3, <1>7, <1>8
<1> HIDE DEF then, else, exit, pos
<1> QED
  BY <1>3, <1>4, <1>7, <1>8, <1>9, <1>10, <1>11, <1>12, <1>13, <1>20, <1>21,
     <1>22, <1>23, OpenStep

-----------------------------------------------------------------------------
(* The theorems.                                                           *)

(* `unreachable' leaves the rest of the block to be skipped.               *)
LEMMA UnreachableStep ==
  ASSUME IInv, Unreachable
  PROVE  IInv'
<1>1. /\ Reachable
      /\ term' = Terminated(ins, "unreachable")
      /\ ins' = 0
      /\ UNCHANGED <<preds, phis, stack, blockStack, frames, brt, status>>
      /\ UNCHANGED <<vdepth, vctrl, varity, exprs>>
  BY DEF Unreachable, VisitUnreachable, Terminated, vvars
<1>2. TypeOK /\ "unreachable" \in Terminators /\ VTypeOK
  BY DEF IInv, Terminators
<1>3. /\ status = "visit"
      /\ brt = 0
      /\ ins \in Blocks
      /\ ins \in Nat
      /\ Len(term) \in Nat
      /\ Frame.pos <= Len(stack)
  BY <1>1, ReachableFacts, FrameFacts
<1>4. term' \in Seq(Terminators) /\ Len(term') = Len(term)
  BY <1>1, <1>2, <1>3, TerminatedFacts
<1>5. TypeOK' /\ VTypeOK'
  BY <1>1, <1>2, <1>4 DEF TypeOK, VTypeOK
<1>6. /\ Len(term) <= Len(term')
      /\ \A c \in Blocks : Len(phis'[c]) = Len(phis[c])
      /\ ins' \in 0 .. Len(term')
      /\ brt' \in 0 .. Len(term')
      /\ Frame.pos <= Len(stack')
      /\ ~ Reachable'
  BY <1>1, <1>3, <1>4 DEF Reachable
<1> QED
  BY <1>1, <1>3, <1>5, <1>6, BodyStep

(* Every step keeps the invariant, if only supported expressions are used. *)
LEMMA NextIInv ==
  ASSUME Exprs \subseteq Supported, IInv, [LNext \/ Stopped]_lvars
  PROVE  IInv'
<1>1. exprs \in Nat
  BY DEF IInv, TypeOK
<1>2. CASE UNCHANGED lvars
  <2>1. /\ UNCHANGED <<preds, phis, term, ins, stack, blockStack, frames, brt,
                       status>>
        /\ UNCHANGED <<vdepth, vctrl, varity, exprs>>
    BY <1>2 DEF lvars, vars, vvars
  <2>2. TypeOK' /\ VTypeOK'
    BY <2>1 DEF IInv, TypeOK, VTypeOK
  <2>3. BlocksOK'
    BY <2>1 DEF IInv, BlocksOK, Blocks
  <2>4. FramesOK'
    BY <2>1 DEF IInv, FramesOK, FrameOK
  <2>5. HeightsOK'
    BY <2>1 DEF IInv, HeightsOK, Frame, Top, VAvailable, VFrame, Reachable,
                Visiting
  <2>6. EntryTracksInsert'
    BY <2>1 DEF IInv, EntryTracksInsert, Frame, Top, Reachable, Visiting
  <2> QED
    BY <2>2, <2>3, <2>4, <2>5, <2>6 DEF IInv
<1>3. ASSUME NEW e \in Exprs, PlainExpr(e)
      PROVE  IInv'
  BY <1>3, PlainStep
<1>4. CASE Unreachable
  BY <1>4, UnreachableStep
<1>5. CASE Skipped
  <2>1. UNCHANGED <<preds, phis, term, ins, stack, blockStack, frames, brt,
                    status, vdepth, vctrl, varity>>
    BY <1>5 DEF Skipped, SkipUnreachable, vars, vvars
  <2>2. exprs' \in Nat /\ ~ Reachable'
    BY <1>1, <1>5 DEF Skipped, Read, SkipUnreachable, vars, Reachable
  <2>3. TypeOK' /\ VTypeOK'
    BY <2>1, <2>2 DEF IInv, TypeOK, VTypeOK
  <2>4. BlocksOK'
    BY <2>1 DEF IInv, BlocksOK, Blocks
  <2>5. FramesOK'
    BY <2>1 DEF IInv, FramesOK, FrameOK
  <2>6. HeightsOK'
    BY <2>1, <2>2 DEF IInv, HeightsOK, Frame, Top
  <2>7. EntryTracksInsert'
    BY <2>2 DEF EntryTracksInsert
  <2> QED
    BY <2>3, <2>4, <2>5, <2>6, <2>7 DEF IInv
<1>6. ASSUME NEW sig \in BlockSigs, BlockExpr(sig)
      PROVE  IInv'
  <2>1. sig[1] \in Nat /\ sig[2] \in Nat
    BY SigsAssumption
  <2>2. /\ EnterBlock(sig[1], sig[2])
        /\ VEnter("Block", sig[1], sig[2], 0)
        /\ exprs' \in Nat
    BY <1>1, <1>6 DEF BlockExpr, Read
  <2> QED
    BY <2>1, <2>2, BlockStep
<1>7. ASSUME NEW sig \in LoopSigs, LoopExpr(sig)
      PROVE  IInv'
  <2>1. sig[1] \in Nat /\ sig[2] \in Nat
    BY SigsAssumption
  <2>2. /\ EnterLoop(sig[1], sig[2])
        /\ VEnter("Loop", sig[1], sig[2], 0)
        /\ exprs' \in Nat
    BY <1>1, <1>7 DEF LoopExpr, Read
  <2> QED
    BY <2>1, <2>2, LoopStep
<1>8. ASSUME NEW sig \in IfSigs, IfExpr(sig)
      PROVE  IInv'
  <2>1. sig[1] \in Nat /\ sig[2] \in Nat
    BY SigsAssumption
  <2>2. /\ EnterIf(sig[1], sig[2])
        /\ VEnter("If", sig[1], sig[2], 1)
        /\ exprs' \in Nat
    BY <1>1, <1>8 DEF IfExpr, Read
  <2> QED
    BY <2>1, <2>2, IfStep
<1>9. CASE ThenEnds
  BY <1>9, ThenEndsStep
<1>10. CASE BlockEnds
  BY <1>10, BlockEndsStep
<1>11. CASE LoopEnds
  BY <1>11, LoopEndsStep
<1>12. CASE FuncEnds
  BY <1>12, FuncEndsStep
<1>13. ASSUME NEW l \in VDepths, BrExpr(l)
       PROVE  IInv'
  <2>1. Br(l) /\ VBranch(l, 0) /\ exprs' \in Nat
    BY <1>1, <1>13 DEF BrExpr, Read
  <2> QED
    BY <2>1, BrStep
<1>14. ASSUME NEW l \in VDepths, BrIfExpr(l)
       PROVE  IInv'
  <2>1. BrIf(l) /\ VBranch(l, 1) /\ exprs' \in Nat
    BY <1>1, <1>14 DEF BrIfExpr, Read
  <2> QED
    BY <2>1, BrIfStep
<1>15. ASSUME NEW l \in VDepths, BrTableExpr(l)
       PROVE  IInv'
  <2>1. BrTable(l) /\ VBranch(l, 1) /\ exprs' \in Nat
    BY <1>1, <1>15 DEF BrTableExpr, Read
  <2> QED
    BY <2>1, BrTableStep
<1>16. ASSUME NEW l \in VDepths, BrTableTarget(l)
       PROVE  IInv'
  BY <1>16, BrTableTargetStep
<1>17. CASE ReturnExpr
  <2>1. status = "visit"
    BY <1>17 DEF ReturnExpr, Return, Br, Reachable, Visiting
  <2>2. /\ Len(blockStack) = Len(vctrl)
        /\ Len(vctrl) - 1 \in VDepths
    BY <2>1, FrameFacts, VFrameFacts DEF VDepths
  <2>3. /\ Br(Len(vctrl) - 1)
        /\ VBranch(Len(vctrl) - 1, 0)
        /\ exprs' \in Nat
    BY <1>1, <1>17, <2>2 DEF ReturnExpr, Return, Read
  <2> QED
    BY <2>2, <2>3, BrStep
<1>18. CASE BrTableDone
  BY <1>18, BrTableDoneStep
<1>19. CASE Stopped
  BY <1>2, <1>19 DEF Stopped
<1> QED
  BY <1>2, <1>3, <1>4, <1>5, <1>6, <1>7, <1>8, <1>9, <1>10, <1>11, <1>12,
     <1>13, <1>14, <1>15, <1>16, <1>17, <1>18, <1>19 DEF LNext

(* The inductive invariant holds of every reachable state.                 *)
THEOREM Invariant ==
  ASSUME Exprs \subseteq Supported
  PROVE  Spec => []IInv
<1>1. IInv /\ [LNext \/ Stopped]_lvars => IInv'
  BY NextIInv
<1> QED
  BY <1>1, InitIInv, PTL DEF Spec

(* Type correctness: no vector is indexed, and no list shortened, beyond   *)
(* its bounds, for any set of signatures and any length of the body.       *)
THEOREM TypeCorrect ==
  ASSUME Exprs \subseteq Supported
  PROVE  Spec => []TypeOK
<1>1. IInv => TypeOK
  BY DEF IInv
<1> QED
  BY <1>1, Invariant, PTL

(* A branch depth means the same label to the translator and to the        *)
(* validator.                                                              *)
THEOREM LabelsAlwaysAgree ==
  ASSUME Exprs \subseteq Supported
  PROVE  Spec => []LabelsAgree
<1>1. IInv => LabelsAgree
  <2> SUFFICES ASSUME IInv PROVE LabelsAgree
    OBVIOUS
  <2>1. status = "visit" => /\ Len(blockStack) = Len(vctrl)
                            /\ \A i \in 1 .. Len(vctrl) : FrameOK(i)
    BY DEF IInv, FramesOK
  <2>2. DOMAIN vctrl = 1 .. Len(vctrl)
    BY DEF IInv, VTypeOK
  <2> QED
    BY <2>1, <2>2 DEF LabelsAgree, FrameOK
<1> QED
  BY <1>1, Invariant, PTL

(* No handler runs out of operands above its block's position.             *)
THEOREM OperandsSuffice ==
  ASSUME Exprs \subseteq Supported
  PROVE  Spec => []NeverShort
<1>1. IInv => NeverShort
  BY DEF IInv, HeightsOK, NeverShort, Reachable, Visiting
<1> QED
  BY <1>1, Invariant, PTL

(* The local `entry' never gets stale.                                     *)
THEOREM EntryNeverStale ==
  ASSUME Exprs \subseteq Supported
  PROVE  Spec => []EntryTracksInsert
<1>1. IInv => EntryTracksInsert
  BY DEF IInv
<1> QED
  BY <1>1, Invariant, PTL
=============================================================================
