----------------------------- MODULE SSA_proofs -----------------------------
(***************************************************************************)
(* Proofs about the PHI nodes of Lowering, for every signature set and     *)
(* every length of the body: each has exactly one incoming pair for every  *)
(* edge into its block, and in bodies without br_table and without loop    *)
(* parameters the pairs name the sources of these edges.                   *)
(*                                                                         *)
(* The argument is local: an edge is recorded in preds in the same step    *)
(* that adds a pair to each PHI of its target, and a fresh block starts    *)
(* with as many pairs per PHI as it has edges.  The inductive invariant of *)
(* Lowering_proofs supplies that the target is a block of the function and *)
(* that the stack holds a value for each of its PHIs.                      *)
(***************************************************************************)
EXTENDS Lowering_proofs

(* A list of PHIs has one pair per edge of a list of edges.                *)
Arity(ps, es) == \A k \in 1 .. Len(ps) : Len(ps[k]) = Len(es)

(* PhiArity, block by block.                                               *)
LEMMA PhiArityByBlock ==
  ASSUME TypeOK
  PROVE  PhiArity <=> \A b \in Blocks : Arity(phis[b], preds[b])
<1>1. \A b \in Blocks : phis[b] \in Seq(Seq(Incoming))
  BY DEF TypeOK, Blocks
<1>2. \A b \in Blocks : DOMAIN phis[b] = 1 .. Len(phis[b])
  BY <1>1
<1> QED
  BY <1>2 DEF PhiArity, Arity

(* A new edge into a block, with a pair for each of its PHIs.              *)
LEMMA EdgeArity ==
  ASSUME TypeOK, PhiArity, NEW b \in Blocks, NEW from \in Nat, NEW via \in Nat,
         NEW s \in Seq(Value), Len(phis[b]) <= Len(s)
  PROVE  \A c \in Blocks : Arity(PhisWith(b, s, via)[c], PredsWith(b, from)[c])
<1> TAKE c \in Blocks
<1>1. Arity(phis[c], preds[c])
  BY PhiArityByBlock
<1> DEFINE ph == PhisWith(b, s, via)
           pr == PredsWith(b, from)
           one == IF c = b THEN 1 ELSE 0
<1>2. /\ Len(ph[c]) = Len(phis[c])
      /\ \A k \in 1 .. Len(phis[c]) : Len(ph[c][k]) = Len(phis[c][k]) + one
  BY PhisWithFacts, ZenonT(60)
<1>3. Len(pr[c]) = Len(preds[c]) + one
  BY PredsWithFacts
<1> HIDE DEF ph, pr, one
<1> QED
  BY <1>1, <1>2, <1>3 DEF Arity, ph, pr

(* A step that adds no block.                                              *)
LEMMA SameBlocksArity ==
  ASSUME TypeOK', Len(term') = Len(term),
         \A c \in Blocks : Arity(phis'[c], preds'[c])
  PROVE  PhiArity'
<1>1. Blocks' = Blocks
  BY DEF Blocks
<1>2. \A c \in Blocks' : Arity(phis'[c], preds'[c])
  BY <1>1
<1>3. \A c \in Blocks' : phis'[c] \in Seq(Seq(Incoming))
  BY DEF TypeOK, Blocks
<1>4. \A c \in Blocks' : DOMAIN phis'[c] = 1 .. Len(phis'[c])
  BY <1>3
<1> QED
  BY <1>2, <1>4 DEF PhiArity, Arity

(* A step that leaves the graph alone.                                     *)
LEMMA SameGraphArity ==
  ASSUME TypeOK, PhiArity, UNCHANGED <<preds, phis>>, Len(term') = Len(term)
  PROVE  PhiArity'
BY DEF PhiArity, Blocks

(* A branch: one edge and its pairs.                                       *)
LEMMA BranchArity ==
  ASSUME TypeOK, TypeOK', PhiArity, NEW b \in Blocks, NEW from \in Nat,
         NEW via \in Nat, NEW s \in Seq(Value), Len(phis[b]) <= Len(s),
         preds' = PredsWith(b, from), phis' = PhisWith(b, s, via),
         Len(term') = Len(term)
  PROVE  PhiArity'
<1>1. \A c \in Blocks : Arity(phis'[c], preds'[c])
  BY EdgeArity
<1> QED
  BY <1>1, SameBlocksArity

(* Steps that append blocks: those that were there keep their arity, and   *)
(* the new ones have theirs.                                               *)
LEMMA NewBlocksArity ==
  ASSUME TypeOK', Len(term) \in Nat, NEW n \in Nat, Len(term') = Len(term) + n,
         \A c \in Blocks : Arity(phis'[c], preds'[c]),
         \A i \in 1 .. n : Arity(phis'[Len(term) + i], preds'[Len(term) + i])
  PROVE  PhiArity'
<1>1. ASSUME NEW c \in Blocks'
      PROVE  Arity(phis'[c], preds'[c])
  <2>1. c \in 1 .. Len(term) + n
    BY DEF Blocks
  <2>2. CASE c <= Len(term)
    BY <2>1, <2>2 DEF Blocks
  <2>3. CASE ~ (c <= Len(term))
    <3>1. c - Len(term) \in 1 .. n /\ Len(term) + (c - Len(term)) = c
      BY <2>1, <2>3
    <3> QED
      BY <3>1
  <2> QED
    BY <2>2, <2>3
<1>2. \A c \in Blocks' : phis'[c] \in Seq(Seq(Incoming))
  BY DEF TypeOK, Blocks
<1>3. \A c \in Blocks' : DOMAIN phis'[c] = 1 .. Len(phis'[c])
  BY <1>2
<1> QED
  BY <1>1, <1>3 DEF PhiArity, Arity

-----------------------------------------------------------------------------
(* The steps.                                                              *)

(* A step that stops the program.                                          *)
LEMMA StopArity ==
  ASSUME TypeOK, PhiArity, Abort \/ AssertFails
  PROVE  PhiArity'
BY SameGraphArity DEF Abort, AssertFails

(* A plain expression adds no edge.                                        *)
LEMMA PlainArity ==
  ASSUME IInv, PhiArity, NEW e \in Supported, PlainExpr(e)
  PROVE  PhiArity'
<1>1. UNCHANGED <<preds, phis, term>>
  <2>1. e \in DOMAIN dispatchExprs
    BY SupportedKeepStep
  <2> QED
    BY <2>1 DEF PlainExpr, Dispatch, Requires, AssertFails
<1> QED
  BY <1>1, SameGraphArity DEF IInv

(* br adds an edge to its target, and a pair to each PHI there.            *)
LEMMA BrArity ==
  ASSUME IInv, IInv', PhiArity, NEW l \in VDepths, Br(l)
  PROVE  PhiArity'
<1> DEFINE b == Target(l).target
<1>1. Reachable /\ TypeOK /\ TypeOK'
  BY DEF Br, IInv
<1>2. /\ b \in Blocks
      /\ ins \in Blocks
      /\ ins \in Nat
      /\ stack \in Seq(Value)
      /\ Len(phis[b]) \in Nat
  BY <1>1, ReachableFacts, TargetFacts
<1>3. CASE Len(stack) < Len(phis[b])
  <2>1. AssertFails
    BY <1>3 DEF Br, Requires
  <2> QED
    BY <1>1, <2>1, StopArity
<1>4. CASE ~ (Len(stack) < Len(phis[b]))
  <2>1. /\ preds' = PredsWith(b, ins)
        /\ phis' = PhisWith(b, stack, ins)
        /\ term' = Terminated(ins, "br")
    BY <1>4 DEF Br, Requires
  <2>2. Len(term') = Len(term)
    BY <1>1, <1>2, <2>1, TerminatedFacts DEF Terminators
  <2>3. Len(phis[b]) <= Len(stack)
    BY <1>2, <1>4
  <2> HIDE DEF b
  <2> QED
    BY <1>1, <1>2, <2>1, <2>2, <2>3, BranchArity
<1> QED
  BY <1>3, <1>4

(* br_table does so for its default target.                                *)
LEMMA BrTableArity ==
  ASSUME IInv, IInv', PhiArity, NEW l \in VDepths, BrTable(l)
  PROVE  PhiArity'
<1> DEFINE b == Target(l).target
           d == Drop1(stack)
<1>1. Reachable /\ TypeOK /\ TypeOK'
  BY DEF BrTable, IInv
<1>2. /\ b \in Blocks
      /\ ins \in Blocks
      /\ ins \in Nat
      /\ stack \in Seq(Value)
      /\ Len(phis[b]) \in Nat
  BY <1>1, ReachableFacts, TargetFacts
<1>3. CASE Len(stack) < 1 + Len(phis[b])
  <2>1. AssertFails
    BY <1>3 DEF BrTable, Requires
  <2> QED
    BY <1>1, <2>1, StopArity
<1>4. CASE ~ (Len(stack) < 1 + Len(phis[b]))
  <2>1. /\ preds' = PredsWith(b, ins)
        /\ phis' = PhisWith(b, d, ins)
        /\ term' = Terminated(ins, "switch")
    BY <1>4 DEF BrTable, Requires
  <2>2. Len(term') = Len(term)
    BY <1>1, <1>2, <2>1, TerminatedFacts DEF Terminators
  <2>3. Len(stack) \in Nat /\ Len(stack) > 0 /\ Len(phis[b]) <= Len(stack) - 1
    BY <1>2, <1>4
  <2>4. d \in Seq(Value) /\ Len(d) = Len(stack) - 1
    BY <1>2, <2>3, Drop1Facts
  <2> HIDE DEF b, d
  <2> QED
    BY <1>1, <1>2, <2>1, <2>2, <2>3, <2>4, BranchArity
<1> QED
  BY <1>3, <1>4

(* A case of br_table does so for its target.                              *)
LEMMA BrTableTargetArity ==
  ASSUME IInv, IInv', PhiArity, NEW l \in VDepths, BrTableTarget(l)
  PROVE  PhiArity'
<1> DEFINE b == Target(l).target
<1>1. TypeOK /\ TypeOK' /\ status = "visit"
  BY DEF BrTableTarget, BrTableCase, IInv
<1>2. /\ b \in Blocks
      /\ ins \in Nat
      /\ brt \in Nat
      /\ stack \in Seq(Value)
      /\ Len(phis[b]) \in Nat
  BY <1>1, TargetFacts DEF TypeOK
<1>3. CASE Len(stack) < Len(phis[b])
  <2>1. Abort
    BY <1>3 DEF BrTableTarget, BrTableCase
  <2> QED
    BY <1>1, <2>1, StopArity
<1>4. CASE ~ (Len(stack) < Len(phis[b]))
  <2>1. /\ preds' = PredsWith(b, brt)
        /\ phis' = PhisWith(b, stack, ins)
        /\ term' = term
    BY <1>4 DEF BrTableTarget, BrTableCase
  <2>2. Len(phis[b]) <= Len(stack)
    BY <1>2, <1>4
  <2> HIDE DEF b
  <2> QED
    BY <1>1, <1>2, <2>1, <2>2, BranchArity
<1> QED
  BY <1>3, <1>4

(* br_if: the fresh block has one edge and no PHI.                         *)
LEMMA BrIfArity ==
  ASSUME IInv, IInv', PhiArity, NEW l \in VDepths, BrIf(l)
  PROVE  PhiArity'
<1> DEFINE b == Target(l).target
           d == Drop1(stack)
<1>1. Reachable /\ TypeOK /\ TypeOK'
  BY DEF BrIf, IInv
<1>2. /\ b \in Blocks
      /\ ins \in Blocks
      /\ ins \in Nat
      /\ stack \in Seq(Value)
      /\ Len(phis[b]) \in Nat
      /\ Len(term) \in Nat
  BY <1>1, ReachableFacts, TargetFacts
<1>3. CASE Len(stack) < 1 + Len(phis[b])
  <2>1. AssertFails
    BY <1>3 DEF BrIf, Requires
  <2> QED
    BY <1>1, <2>1, StopArity
<1>4. CASE ~ (Len(stack) < 1 + Len(phis[b]))
  <2> DEFINE pr == PredsWith(b, ins)
             ph == PhisWith(b, d, ins)
             t == Terminated(ins, "condbr")
  <2>1. /\ preds' = Append(pr, <<ins>>)
        /\ phis' = Append(ph, << >>)
        /\ term' = Append(t, "none")
    BY <1>4 DEF BrIf, Requires
  <2>2. t \in Seq(Terminators) /\ Len(t) = Len(term)
    BY <1>1, <1>2, TerminatedFacts DEF Terminators
  <2>3. Len(stack) \in Nat /\ Len(stack) > 0 /\ Len(phis[b]) <= Len(stack) - 1
    BY <1>2, <1>4
  <2>4. d \in Seq(Value) /\ Len(d) = Len(stack) - 1
    BY <1>2, <2>3, Drop1Facts
  <2> HIDE DEF b, d
  <2>5. Len(phis[b]) <= Len(d)
    BY <2>3, <2>4
  <2>6. \A c \in Blocks : Arity(ph[c], pr[c])
    BY <1>1, <1>2, <2>4, <2>5, EdgeArity
  <2>7. pr \in Seq(Seq(Nat)) /\ Len(pr) = Len(term)
    BY <1>1, <1>2, PredsWithFacts
  <2>8. ph \in Seq(Seq(Seq(Incoming))) /\ Len(ph) = Len(term)
    BY <1>1, <1>2, <2>4, <2>5, PhisWithFacts
  <2> HIDE DEF pr, ph, t
  <2>9. /\ \A c \in 1 .. Len(term) : preds'[c] = pr[c]
        /\ preds'[Len(term) + 1] = <<ins>>
    BY <2>1, <2>7
  <2>10. /\ \A c \in 1 .. Len(term) : phis'[c] = ph[c]
         /\ phis'[Len(term) + 1] = << >>
    BY <2>1, <2>8
  <2>11. Len(term') = Len(term) + 1
    BY <2>1, <2>2
  <2>12. \A c \in Blocks : Arity(phis'[c], preds'[c])
    BY <2>6, <2>9, <2>10 DEF Blocks
  <2>13. \A i \in 1 .. 1 : Arity(phis'[Len(term) + i], preds'[Len(term) + i])
    BY <1>2, <2>10 DEF Arity
  <2> QED
    BY <1>1, <1>2, <2>11, <2>12, <2>13, NewBlocksArity
<1> QED
  BY <1>3, <1>4

-----------------------------------------------------------------------------
(* Blocks are opened with as many pairs as edges.                          *)

(* The exit of a block starts without edges and without pairs.             *)
LEMMA BlockArity ==
  ASSUME IInv, IInv', PhiArity, NEW np \in Nat, NEW nr \in Nat,
         EnterBlock(np, nr)
  PROVE  PhiArity'
<1> DEFINE ps == EmptyPhis(nr)
<1>1. /\ preds' = Append(preds, << >>)
      /\ phis' = Append(phis, ps)
      /\ term' = Append(term, "none")
  BY DEF EnterBlock
<1>2. /\ preds \in Seq(Seq(Nat)) /\ Len(preds) = Len(term)
      /\ phis \in Seq(Seq(Seq(Incoming))) /\ Len(phis) = Len(term)
      /\ term \in Seq(Terminators)
      /\ Len(term) \in Nat
      /\ TypeOK /\ TypeOK'
  BY DEF IInv, TypeOK
<1>3. \A k \in 1 .. Len(ps) : Len(ps[k]) = 0
  BY EmptyPhisFacts
<1> HIDE DEF ps
<1>4. /\ \A c \in 1 .. Len(term) : preds'[c] = preds[c]
      /\ preds'[Len(term) + 1] = << >>
  BY <1>1, <1>2
<1>5. /\ \A c \in 1 .. Len(term) : phis'[c] = phis[c]
      /\ phis'[Len(term) + 1] = ps
  BY <1>1, <1>2
<1>6. Len(term') = Len(term) + 1
  BY <1>1, <1>2
<1>7. \A c \in Blocks : Arity(phis'[c], preds'[c])
  BY <1>2, <1>4, <1>5, PhiArityByBlock DEF Blocks
<1>8. \A i \in 1 .. 1 : Arity(phis'[Len(term) + i], preds'[Len(term) + i])
  BY <1>2, <1>3, <1>4, <1>5 DEF Arity
<1> QED
  BY <1>2, <1>6, <1>7, <1>8, NewBlocksArity

(* The header of a loop starts with one edge and one pair per PHI.         *)
LEMMA LoopArity ==
  ASSUME IInv, IInv', PhiArity, NEW np \in Nat, NEW nr \in Nat,
         EnterLoop(np, nr)
  PROVE  PhiArity'
<1> DEFINE loop == Len(term) + 1
           args == LastN(stack, np)
           ps == AddIncoming(EmptyPhis(np), args, loop)
           t == Terminated(ins, "br")
<1>1. Reachable
  BY DEF EnterLoop
<1>2. /\ preds \in Seq(Seq(Nat)) /\ Len(preds) = Len(term)
      /\ phis \in Seq(Seq(Seq(Incoming))) /\ Len(phis) = Len(term)
      /\ Len(term) \in Nat
      /\ stack \in Seq(Value)
      /\ TypeOK /\ TypeOK'
  BY DEF IInv, TypeOK
<1>3. CASE Len(stack) < np
  <2>1. AssertFails
    BY <1>3 DEF EnterLoop, Requires
  <2> QED
    BY <1>2, <2>1, StopArity
<1>4. CASE ~ (Len(stack) < np)
  <2>1. /\ preds' = Append(preds, <<ins>>)
        /\ phis' = Append(phis, ps)
        /\ term' = Append(t, "none")
    BY <1>4 DEF EnterLoop, Requires
  <2>2. /\ EmptyPhis(np) \in Seq(Seq(Incoming))
        /\ Len(EmptyPhis(np)) = np
        /\ \A k \in 1 .. np : Len(EmptyPhis(np)[k]) = 0
    BY EmptyPhisFacts
  <2>3. args \in Seq(Value) /\ Len(args) = np
    BY <1>2, <1>4, LastNFacts
  <2>4. loop \in Nat
    BY <1>2
  <2>5. /\ Len(ps) = np
        /\ \A k \in 1 .. np : Len(ps[k]) = 1
    <3> DEFINE fresh == EmptyPhis(np)
    <3>1. /\ fresh \in Seq(Seq(Incoming))
          /\ Len(fresh) = np
          /\ Len(args) = Len(fresh)
          /\ \A k \in 1 .. np : Len(fresh[k]) = 0
          /\ ps = AddIncoming(fresh, args, loop)
      BY <2>2, <2>3
    <3> HIDE DEF args, loop, fresh, ps
    <3>2. /\ Len(AddIncoming(fresh, args, loop)) = Len(fresh)
          /\ \A k \in 1 .. Len(fresh) :
               Len(AddIncoming(fresh, args, loop)[k]) = Len(fresh[k]) + 1
      BY <2>3, <2>4, <3>1, AddIncomingFacts
    <3>3. /\ Len(ps) = np
          /\ \A k \in 1 .. np : Len(ps[k]) = Len(fresh[k]) + 1
      BY <3>1, <3>2
    <3>4. ASSUME NEW k \in 1 .. np
          PROVE  Len(ps[k]) = 1
      <4>1. Len(fresh[k]) = 0 /\ Len(ps[k]) = Len(fresh[k]) + 1
        BY <3>1, <3>3
      <4> QED
        BY <4>1
    <3> QED
      BY <3>3, <3>4
  <2>6. t \in Seq(Terminators) /\ Len(t) = Len(term)
    BY <1>1, <1>2, ReachableFacts, TerminatedFacts DEF Terminators
  <2> HIDE DEF ps, args, loop, t
  <2>7. /\ \A c \in 1 .. Len(term) : preds'[c] = preds[c]
        /\ preds'[Len(term) + 1] = <<ins>>
    BY <1>2, <2>1
  <2>8. /\ \A c \in 1 .. Len(term) : phis'[c] = phis[c]
        /\ phis'[Len(term) + 1] = ps
    BY <1>2, <2>1
  <2>9. Len(term') = Len(term) + 1
    BY <2>1, <2>6
  <2>10. \A c \in Blocks : Arity(phis'[c], preds'[c])
    BY <1>2, <2>7, <2>8, PhiArityByBlock DEF Blocks
  <2>11. \A i \in 1 .. 1 : Arity(phis'[Len(term) + i], preds'[Len(term) + i])
    <3>1. Arity(ps, <<ins>>)
      BY <2>5 DEF Arity
    <3>2. Arity(phis'[Len(term) + 1], preds'[Len(term) + 1])
      BY <2>7, <2>8, <3>1
    <3> QED
      BY <3>2
  <2> QED
    BY <1>2, <2>9, <2>10, <2>11, NewBlocksArity
<1> QED
  BY <1>3, <1>4

(* The arms of an if have an edge each and no PHIs.                        *)
LEMMA IfArity ==
  ASSUME IInv, IInv', PhiArity, NEW np \in Nat, NEW nr \in Nat, EnterIf(np, nr)
  PROVE  PhiArity'
<1> DEFINE ps == EmptyPhis(nr)
           t == Terminated(ins, "condbr")
           new == << <<ins>>, <<ins>>, << >> >>
           fresh == << << >>, << >>, ps >>
           n == Len(term)
<1>1. Reachable
  BY DEF EnterIf
<1>2. /\ preds \in Seq(Seq(Nat)) /\ Len(preds) = n
      /\ phis \in Seq(Seq(Seq(Incoming))) /\ Len(phis) = n
      /\ n \in Nat
      /\ n = Len(term)
      /\ TypeOK /\ TypeOK'
  BY DEF IInv, TypeOK
<1>3. CASE Len(stack) < np + 1
  <2>1. AssertFails
    BY <1>3 DEF EnterIf, Requires
  <2> QED
    BY <1>2, <2>1, StopArity
<1>4. CASE ~ (Len(stack) < np + 1)
  <2>1. /\ preds' = preds \o new
        /\ phis' = phis \o fresh
        /\ term' = t \o <<"none", "none", "none">>
    BY <1>4 DEF EnterIf, Requires
  <2>2. /\ ps \in Seq(Seq(Incoming))
        /\ \A k \in 1 .. Len(ps) : Len(ps[k]) = 0
    BY EmptyPhisFacts
  <2>3. t \in Seq(Terminators) /\ Len(t) = n
    BY <1>1, <1>2, ReachableFacts, TerminatedFacts DEF Terminators
  <2>4. /\ new \in Seq(Seq(Nat))
        /\ Len(new) = 3
        /\ new[3] = << >>
    BY <1>1, ReachableFacts
  <2> HIDE DEF ps
  <2>5. /\ fresh \in Seq(Seq(Seq(Incoming)))
        /\ Len(fresh) = 3
        /\ fresh[1] = << >>
        /\ fresh[2] = << >>
        /\ fresh[3] = ps
    BY <2>2
  <2>6. Len(term') = n + 3
    <3>1. <<"none", "none", "none">> \in Seq(Terminators)
      BY DEF Terminators
    <3> HIDE DEF t
    <3> QED
      BY <2>1, <2>3, <3>1, ConcatProperties, SMTT(30)
  <2> HIDE DEF t, new, fresh, n
  <2>7. \A i \in 1 .. 3 : Arity(fresh[i], new[i])
    <3>1. Arity(fresh[1], new[1]) /\ Arity(fresh[2], new[2])
      BY <2>5 DEF Arity
    <3>2. Arity(fresh[3], new[3])
      BY <2>2, <2>4, <2>5 DEF Arity
    <3> QED
      BY <3>1, <3>2
  <2>8. /\ \A c \in 1 .. n : preds'[c] = preds[c]
        /\ \A i \in 1 .. 3 : preds'[n + i] = new[i]
    <3>1. /\ preds \in Seq(Seq(Nat))
          /\ new \in Seq(Seq(Nat))
          /\ preds' = preds \o new
          /\ Len(preds) = n /\ Len(new) = 3
      BY <1>2, <2>1, <2>4
    <3>2. \A c \in 1 .. Len(preds) + Len(new) :
            preds'[c] = IF c <= Len(preds) THEN preds[c] ELSE new[c - Len(preds)]
      BY <3>1, ConcatProperties
    <3>3. ASSUME NEW c \in 1 .. n
          PROVE  preds'[c] = preds[c]
      <4>1. c \in 1 .. n + 3 /\ c <= n
        BY <1>2
      <4> QED
        BY <3>1, <3>2, <4>1
    <3>4. ASSUME NEW i \in 1 .. 3
          PROVE  preds'[n + i] = new[i]
      <4>1. n + i \in 1 .. n + 3 /\ ~ (n + i <= n) /\ (n + i) - n = i
        BY <1>2
      <4> QED
        BY <3>1, <3>2, <4>1
    <3> QED
      BY <3>3, <3>4
  <2>9. /\ \A c \in 1 .. n : phis'[c] = phis[c]
        /\ \A i \in 1 .. 3 : phis'[n + i] = fresh[i]
    <3>1. /\ phis \in Seq(Seq(Seq(Incoming)))
          /\ fresh \in Seq(Seq(Seq(Incoming)))
          /\ phis' = phis \o fresh
          /\ Len(phis) = n /\ Len(fresh) = 3
      BY <1>2, <2>1, <2>5
    <3>2. \A c \in 1 .. Len(phis) + Len(fresh) :
            phis'[c] = IF c <= Len(phis) THEN phis[c] ELSE fresh[c - Len(phis)]
      BY <3>1, ConcatProperties
    <3>3. ASSUME NEW c \in 1 .. n
          PROVE  phis'[c] = phis[c]
      <4>1. c \in 1 .. n + 3 /\ c <= n
        BY <1>2
      <4> QED
        BY <3>1, <3>2, <4>1
    <3>4. ASSUME NEW i \in 1 .. 3
          PROVE  phis'[n + i] = fresh[i]
      <4>1. n + i \in 1 .. n + 3 /\ ~ (n + i <= n) /\ (n + i) - n = i
        BY <1>2
      <4> QED
        BY <3>1, <3>2, <4>1
    <3> QED
      BY <3>3, <3>4
  <2>10. \A c \in Blocks : Arity(phis'[c], preds'[c])
    BY <1>2, <2>8, <2>9, PhiArityByBlock DEF Blocks
  <2>11. \A i \in 1 .. 3 : Arity(phis'[n + i], preds'[n + i])
    BY <2>7, <2>8, <2>9
  <2>12. /\ Len(term') = Len(term) + 3
         /\ Len(term) \in Nat
         /\ 3 \in Nat
         /\ \A i \in 1 .. 3 : Arity(phis'[Len(term) + i], preds'[Len(term) + i])
    BY <1>2, <2>6, <2>11
  <2> QED
    BY <1>2, <2>10, <2>12, NewBlocksArity
<1> QED
  BY <1>3, <1>4

-----------------------------------------------------------------------------
(* The ends of visitBlock.                                                 *)

(* The fall-through branch to the exit.                                    *)
LEMMA JoinArity ==
  ASSUME IInv, TypeOK', PhiArity, Leaving, JoinExit, Len(term') = Len(term)
  PROVE  PhiArity'
<1>1. TypeOK
  BY DEF IInv
<1>2. CASE ins # 0
  <2>1. /\ Frame.exit \in Blocks
        /\ ins \in Nat
        /\ stack \in Seq(Value)
        /\ Len(phis[Frame.exit]) <= Len(stack)
    BY <1>2, FrameFacts, ExitFacts, SMTT(30) DEF Leaving, Blocks
  <2>2. /\ preds' = PredsWith(Frame.exit, ins)
        /\ phis' = PhisWith(Frame.exit, stack, ins)
    BY <1>2 DEF JoinExit
  <2> QED
    BY <1>1, <2>1, <2>2, BranchArity
<1>3. CASE ins = 0
  BY <1>1, <1>3, SameGraphArity DEF JoinExit
<1> QED
  BY <1>2, <1>3

(* The end of a block adds an edge and its pairs to the exit, or neither.  *)
LEMMA EndArity ==
  ASSUME IInv, IInv', PhiArity,
         ThenEnds \/ BlockEnds \/ LoopEnds \/ FuncEnds
  PROVE  PhiArity'
<1>1. TypeOK /\ TypeOK' /\ status = "visit"
  BY DEF IInv, ThenEnds, BlockEnds, LoopEnds, FuncEnds, EndThen, EndBlock,
         EndLoop, EndFunc, Visiting
<1>2. CASE Abort \/ AssertFails
  BY <1>1, <1>2, StopArity
<1>3. CASE LoopEnds /\ ~ (Abort \/ AssertFails)
  <2>1. UNCHANGED <<preds, phis, term>>
    BY <1>3 DEF LoopEnds, EndLoop
  <2> QED
    BY <1>1, <2>1, SameGraphArity
<1>4. CASE ~ LoopEnds /\ ~ (Abort \/ AssertFails)
  <2>1. /\ Leaving
        /\ JoinExit
        /\ \/ term' = TermAtJoin
           \/ term' = [TermAtJoin EXCEPT ![Frame.exit] = "ret"]
    BY <1>1, <1>4 DEF Leaving, ThenEnds, BlockEnds, FuncEnds, EndThen,
                      EndBlock, EndFunc
  <2>2. TermAtJoin \in Seq(Terminators) /\ Len(TermAtJoin) = Len(term)
    BY <2>1, JoinExitFacts
  <2>3. Len(term') = Len(term)
    BY <2>1, <2>2
  <2> QED
    BY <1>1, <2>1, <2>3, JoinArity
<1> QED
  BY <1>2, <1>3, <1>4

-----------------------------------------------------------------------------
(* The theorem.                                                            *)

(* The function starts without edges and pairs.                            *)
LEMMA InitArity == LInit => PhiArity
<1> SUFFICES ASSUME LInit PROVE PhiArity
  OBVIOUS
<1>1. Results \in Nat
  BY ResultsAssumption
<1>2. \A k \in 1 .. Results : EmptyPhis(Results)[k] = << >>
  BY <1>1, EmptyPhisFacts
<1>3. /\ preds = << << >>, << >> >>
      /\ phis = << << >>, EmptyPhis(Results) >>
      /\ Blocks = 1 .. 2
  BY DEF LInit, Init, Blocks
<1>4. Len(EmptyPhis(Results)) = Results /\ DOMAIN EmptyPhis(Results) = 1 .. Results
  BY <1>1, EmptyPhisFacts
<1> QED
  BY <1>2, <1>3, <1>4 DEF PhiArity

(* Every step keeps edges and pairs in number.                             *)
LEMMA NextArity ==
  ASSUME Exprs \subseteq Supported, IInv, IInv', PhiArity,
         [LNext \/ Stopped]_lvars
  PROVE  PhiArity'
<1>1. TypeOK
  BY DEF IInv
<1>2. CASE UNCHANGED lvars
  BY <1>1, <1>2, SameGraphArity DEF lvars, vars
<1>3. ASSUME NEW e \in Exprs, PlainExpr(e)
      PROVE  PhiArity'
  BY <1>3, PlainArity
<1>4. CASE Unreachable
  <2>1. /\ Reachable
        /\ UNCHANGED <<preds, phis>>
        /\ term' = Terminated(ins, "unreachable")
    BY <1>4 DEF Unreachable, VisitUnreachable, Terminated
  <2>2. Len(term') = Len(term)
    BY <1>1, <2>1, ReachableFacts, TerminatedFacts DEF Terminators
  <2> QED
    BY <1>1, <2>1, <2>2, SameGraphArity
<1>5. CASE Skipped
  BY <1>1, <1>5, SameGraphArity DEF Skipped, SkipUnreachable, vars
<1>6. ASSUME NEW sig \in BlockSigs, BlockExpr(sig)
      PROVE  PhiArity'
  <2>1. sig[1] \in Nat /\ sig[2] \in Nat /\ EnterBlock(sig[1], sig[2])
    BY <1>6, SigsAssumption DEF BlockExpr
  <2> QED
    BY <2>1, BlockArity
<1>7. ASSUME NEW sig \in LoopSigs, LoopExpr(sig)
      PROVE  PhiArity'
  <2>1. sig[1] \in Nat /\ sig[2] \in Nat /\ EnterLoop(sig[1], sig[2])
    BY <1>7, SigsAssumption DEF LoopExpr
  <2> QED
    BY <2>1, LoopArity
<1>8. ASSUME NEW sig \in IfSigs, IfExpr(sig)
      PROVE  PhiArity'
  <2>1. sig[1] \in Nat /\ sig[2] \in Nat /\ EnterIf(sig[1], sig[2])
    BY <1>8, SigsAssumption DEF IfExpr
  <2> QED
    BY <2>1, IfArity
<1>9. CASE ThenEnds \/ BlockEnds \/ LoopEnds \/ FuncEnds
  BY <1>9, EndArity
<1>10. ASSUME NEW l \in VDepths,
              BrExpr(l) \/ BrIfExpr(l) \/ BrTableExpr(l) \/ BrTableTarget(l)
       PROVE  PhiArity'
  <2>1. CASE BrExpr(l)
    BY <2>1, BrArity DEF BrExpr
  <2>2. CASE BrIfExpr(l)
    BY <2>2, BrIfArity DEF BrIfExpr
  <2>3. CASE BrTableExpr(l)
    BY <2>3, BrTableArity DEF BrTableExpr
  <2>4. CASE BrTableTarget(l)
    BY <2>4, BrTableTargetArity
  <2> QED
    BY <1>10, <2>1, <2>2, <2>3, <2>4
<1>11. CASE ReturnExpr
  <2>1. status = "visit" /\ Br(Len(blockStack) - 1)
    BY <1>11 DEF ReturnExpr, Return, Br, Reachable, Visiting
  <2>2. Len(blockStack) - 1 \in VDepths
    BY <2>1, FrameFacts, VFrameFacts DEF VDepths
  <2> QED
    BY <2>1, <2>2, BrArity
<1>12. CASE BrTableDone
  BY <1>1, <1>12, SameGraphArity DEF BrTableDone, BrTableEnd
<1>13. CASE Stopped
  BY <1>2, <1>13 DEF Stopped
<1> QED
  BY <1>2, <1>3, <1>4, <1>5, <1>6, <1>7, <1>8, <1>9, <1>10, <1>11, <1>12,
     <1>13 DEF LNext

(* Every PHI of every block has one incoming pair per edge into the block, *)
(* at every moment of the translation of any valid body that uses          *)
(* supported expressions.                                                  *)
THEOREM PhisMatchEdges ==
  ASSUME Exprs \subseteq Supported
  PROVE  Spec => []PhiArity
<1>1. IInv /\ IInv' /\ PhiArity /\ [LNext \/ Stopped]_lvars => PhiArity'
  BY NextArity
<1>2. Spec => []IInv
  BY Invariant
<1> QED
  BY <1>1, <1>2, InitArity, PTL DEF Spec

-----------------------------------------------------------------------------
(* The sources of the pairs.  A case of a br_table and the entry of a loop *)
(* with parameters name another block than the one the edge comes from;    *)
(* without them the pairs of a PHI name the sources of the edges in order. *)

(* The pairs of a list of PHIs name the sources es of the edges.           *)
Named(ps, es) ==
  \A k \in 1 .. Len(ps) : /\ Len(ps[k]) = Len(es)
                          /\ \A i \in 1 .. Len(es) : ps[k][i].from = es[i]

(* The pairs of every block name the sources of its edges.                 *)
AllNamed == \A b \in Blocks : Named(phis[b], preds[b])

(* Bodies without br_table and without parameters of loops.                *)
PlainSources == /\ "br_table" \notin Branches
                /\ \A sig \in LoopSigs : sig[1] = 0

(* An edge more, and a pair more that names its source.                    *)
LEMMA EdgeNamed ==
  ASSUME NEW ps \in Seq(Seq(Incoming)), NEW es \in Seq(Nat), NEW vals,
         NEW f \in Nat, Named(ps, es)
  PROVE  Named(AddIncoming(ps, vals, f), Append(es, f))
<1> DEFINE qs == AddIncoming(ps, vals, f)
           fs == Append(es, f)
           pair(k) == [val |-> vals[k], from |-> f]
<1>1. Len(qs) = Len(ps) /\ \A k \in 1 .. Len(ps) : qs[k] = Append(ps[k], pair(k))
  BY DEF AddIncoming
<1>2. /\ Len(es) \in Nat
      /\ Len(fs) = Len(es) + 1
      /\ fs[Len(es) + 1] = f
      /\ \A i \in 1 .. Len(es) : fs[i] = es[i]
  OBVIOUS
<1>3. \A k : pair(k).from = f
  OBVIOUS
<1> HIDE DEF qs, fs, pair
<1>4. ASSUME NEW k \in 1 .. Len(qs)
      PROVE  /\ Len(qs[k]) = Len(fs)
             /\ \A i \in 1 .. Len(fs) : qs[k][i].from = fs[i]
  <2>1. /\ ps[k] \in Seq(Incoming)
        /\ Len(ps[k]) = Len(es)
        /\ \A i \in 1 .. Len(es) : ps[k][i].from = es[i]
    BY <1>1 DEF Named
  <2>2. /\ Len(qs[k]) = Len(es) + 1
        /\ qs[k][Len(es) + 1] = pair(k)
        /\ \A i \in 1 .. Len(es) : qs[k][i] = ps[k][i]
    <3> DEFINE q == qs[k]
               p == ps[k]
               e == pair(k)
               n == Len(es)
    <3>1. /\ q = Append(p, e)
          /\ p \in Seq(Incoming)
          /\ Len(p) = n
          /\ n \in Nat
      BY <1>1, <1>2, <2>1
    <3> HIDE DEF q, p, e, n
    <3>2. /\ Len(q) = n + 1
          /\ q[n + 1] = e
          /\ \A i \in 1 .. n : q[i] = p[i]
      BY <3>1
    <3> QED
      BY <3>2 DEF q, p, e, n
  <2>3. \A i \in 1 .. Len(fs) : i \in 1 .. Len(es) \/ i = Len(es) + 1
    BY <1>2
  <2>4. ASSUME NEW i \in 1 .. Len(fs)
        PROVE  qs[k][i].from = fs[i]
    <3>1. CASE i \in 1 .. Len(es)
      BY <1>2, <2>1, <2>2, <3>1
    <3>2. CASE i = Len(es) + 1
      BY <1>2, <1>3, <2>2, <3>2
    <3> QED
      BY <2>3, <3>1, <3>2
  <2> QED
    BY <1>2, <2>2, <2>4
<1>5. Named(qs, fs)
  BY <1>4 DEF Named
<1> QED
  BY <1>5 DEF qs, fs

(* A branch from block `from' to block b.                                  *)
LEMMA BranchNamed ==
  ASSUME TypeOK, AllNamed, NEW b \in Blocks, NEW from \in Nat, NEW s
  PROVE  \A c \in Blocks : Named(PhisWith(b, s, from)[c], PredsWith(b, from)[c])
<1> TAKE c \in Blocks
<1>1. /\ preds \in Seq(Seq(Nat)) /\ Len(preds) = Len(term)
      /\ phis \in Seq(Seq(Seq(Incoming))) /\ Len(phis) = Len(term)
      /\ b \in 1 .. Len(term)
      /\ c \in 1 .. Len(term)
  BY DEF TypeOK, Blocks
<1>2. Named(phis[c], preds[c]) /\ Named(phis[b], preds[b])
  BY DEF AllNamed
<1>3. phis[b] \in Seq(Seq(Incoming)) /\ preds[b] \in Seq(Nat)
  BY <1>1
<1>4. PhisWith(b, s, from)[c] = IF c = b THEN AddIncoming(phis[b], BranchArgs(s, b), from)
                                ELSE phis[c]
  BY <1>1 DEF PhisWith
<1>5. PredsWith(b, from)[c] = IF c = b THEN Append(preds[b], from) ELSE preds[c]
  BY <1>1 DEF PredsWith
<1>6. Named(AddIncoming(phis[b], BranchArgs(s, b), from), Append(preds[b], from))
  BY <1>2, <1>3, EdgeNamed
<1> QED
  BY <1>2, <1>4, <1>5, <1>6

(* Steps that append n blocks.                                             *)
LEMMA NewBlocksNamed ==
  ASSUME Len(term) \in Nat, NEW n \in Nat, Len(term') = Len(term) + n,
         \A c \in Blocks : Named(phis'[c], preds'[c]),
         \A i \in 1 .. n : Named(phis'[Len(term) + i], preds'[Len(term) + i])
  PROVE  AllNamed'
<1>1. ASSUME NEW c \in Blocks'
      PROVE  Named(phis'[c], preds'[c])
  <2>1. c \in 1 .. Len(term) + n
    BY DEF Blocks
  <2>2. CASE c <= Len(term)
    BY <2>1, <2>2 DEF Blocks
  <2>3. CASE ~ (c <= Len(term))
    <3>1. c - Len(term) \in 1 .. n /\ Len(term) + (c - Len(term)) = c
      BY <2>1, <2>3
    <3> QED
      BY <3>1
  <2> QED
    BY <2>2, <2>3
<1> QED
  BY <1>1 DEF AllNamed, Named

(* A list without PHIs names any sources, and so does one with empty PHIs  *)
(* of no edges.                                                            *)
LEMMA NoneNamed ==
  ASSUME NEW ps, NEW es, \/ Len(ps) = 0
                         \/ Len(es) = 0 /\ \A k \in 1 .. Len(ps) : Len(ps[k]) = 0
  PROVE  Named(ps, es)
BY DEF Named

(* A step that leaves edges and pairs alone.                               *)
LEMMA SameGraphNamed ==
  ASSUME AllNamed, UNCHANGED <<preds, phis>>, Len(term') = Len(term)
  PROVE  AllNamed'
BY DEF AllNamed, Blocks

(* A step that adds an edge and its pairs, and no block.                   *)
LEMMA EdgeKeepsNamed ==
  ASSUME TypeOK, AllNamed, NEW b \in Blocks, NEW from \in Nat, NEW s,
         preds' = PredsWith(b, from), phis' = PhisWith(b, s, from),
         Len(term') = Len(term)
  PROVE  AllNamed'
<1>1. \A c \in Blocks : Named(phis'[c], preds'[c])
  BY BranchNamed
<1>2. Blocks' = Blocks
  BY DEF Blocks
<1> QED
  BY <1>1, <1>2 DEF AllNamed, Named

(* br names the block it leaves.                                           *)
LEMMA BrNamed ==
  ASSUME IInv, AllNamed, NEW l \in VDepths, Br(l)
  PROVE  AllNamed'
<1> DEFINE b == Target(l).target
<1>1. Reachable /\ TypeOK
  BY DEF Br, IInv
<1>2. b \in Blocks /\ ins \in Blocks /\ ins \in Nat
  BY <1>1, ReachableFacts, TargetFacts
<1>3. CASE AssertFails
  BY <1>3, SameGraphNamed DEF AssertFails
<1>4. CASE ~ AssertFails
  <2>1. /\ preds' = PredsWith(b, ins)
        /\ phis' = PhisWith(b, stack, ins)
        /\ term' = Terminated(ins, "br")
    BY <1>4 DEF Br, Requires
  <2>2. Len(term') = Len(term)
    BY <1>1, <1>2, <2>1, TerminatedFacts DEF Terminators
  <2> HIDE DEF b
  <2> QED
    BY <1>1, <1>2, <2>1, <2>2, EdgeKeepsNamed
<1> QED
  BY <1>3, <1>4

(* br_if names the block it leaves.                                        *)
LEMMA BrIfNamed ==
  ASSUME IInv, AllNamed, NEW l \in VDepths, BrIf(l)
  PROVE  AllNamed'
<1> DEFINE b == Target(l).target
           d == Drop1(stack)
           pr == PredsWith(b, ins)
           ph == PhisWith(b, d, ins)
           t == Terminated(ins, "condbr")
<1>1. Reachable /\ TypeOK
  BY DEF BrIf, IInv
<1>2. /\ b \in Blocks
      /\ ins \in Blocks
      /\ ins \in Nat
      /\ stack \in Seq(Value)
      /\ Len(phis[b]) \in Nat
      /\ Len(term) \in Nat
  BY <1>1, ReachableFacts, TargetFacts
<1>3. CASE Len(stack) < 1 + Len(phis[b])
  BY <1>3, SameGraphNamed DEF BrIf, Requires, AssertFails
<1>4. CASE ~ (Len(stack) < 1 + Len(phis[b]))
  <2>1. /\ preds' = Append(pr, <<ins>>)
        /\ phis' = Append(ph, << >>)
        /\ term' = Append(t, "none")
    BY <1>4 DEF BrIf, Requires
  <2>2. t \in Seq(Terminators) /\ Len(t) = Len(term)
    BY <1>1, <1>2, TerminatedFacts DEF Terminators
  <2>3. Len(stack) \in Nat /\ Len(stack) > 0 /\ Len(phis[b]) <= Len(stack) - 1
    BY <1>2, <1>4
  <2>4. d \in Seq(Value) /\ Len(d) = Len(stack) - 1
    BY <1>2, <2>3, Drop1Facts
  <2> HIDE DEF b, d
  <2>5. Len(phis[b]) <= Len(d)
    BY <2>3, <2>4
  <2>6. \A c \in Blocks : Named(ph[c], pr[c])
    BY <1>1, <1>2, BranchNamed
  <2>7. pr \in Seq(Seq(Nat)) /\ Len(pr) = Len(term)
    BY <1>1, <1>2, PredsWithFacts
  <2>8. ph \in Seq(Seq(Seq(Incoming))) /\ Len(ph) = Len(term)
    BY <1>1, <1>2, <2>4, <2>5, PhisWithFacts
  <2> HIDE DEF pr, ph, t
  <2>9. \A c \in 1 .. Len(term) : preds'[c] = pr[c]
    BY <2>1, <2>7
  <2>10. /\ \A c \in 1 .. Len(term) : phis'[c] = ph[c]
         /\ phis'[Len(term) + 1] = << >>
    BY <2>1, <2>8
  <2>11. Len(term') = Len(term) + 1
    BY <2>1, <2>2
  <2>12. \A c \in Blocks : Named(phis'[c], preds'[c])
    BY <2>6, <2>9, <2>10 DEF Blocks
  <2>13. \A i \in 1 .. 1 : Named(phis'[Len(term) + i], preds'[Len(term) + i])
    BY <1>2, <2>10 DEF Named
  <2> QED
    BY <1>2, <2>11, <2>12, <2>13, NewBlocksNamed
<1> QED
  BY <1>3, <1>4

(* The exit of a block starts without pairs.                               *)
LEMMA BlockNamed ==
  ASSUME IInv, AllNamed, NEW np \in Nat, NEW nr \in Nat, EnterBlock(np, nr)
  PROVE  AllNamed'
<1> DEFINE ps == EmptyPhis(nr)
<1>1. /\ preds' = Append(preds, << >>)
      /\ phis' = Append(phis, ps)
      /\ term' = Append(term, "none")
  BY DEF EnterBlock
<1>2. /\ preds \in Seq(Seq(Nat)) /\ Len(preds) = Len(term)
      /\ phis \in Seq(Seq(Seq(Incoming))) /\ Len(phis) = Len(term)
      /\ term \in Seq(Terminators)
      /\ Len(term) \in Nat
  BY DEF IInv, TypeOK
<1>3. \A k \in 1 .. Len(ps) : Len(ps[k]) = 0
  BY EmptyPhisFacts
<1> HIDE DEF ps
<1>4. /\ \A c \in 1 .. Len(term) : preds'[c] = preds[c]
      /\ preds'[Len(term) + 1] = << >>
  BY <1>1, <1>2
<1>5. /\ \A c \in 1 .. Len(term) : phis'[c] = phis[c]
      /\ phis'[Len(term) + 1] = ps
  BY <1>1, <1>2
<1>6. Len(term') = Len(term) + 1
  BY <1>1, <1>2
<1>7. \A c \in Blocks : Named(phis'[c], preds'[c])
  BY <1>4, <1>5 DEF AllNamed, Blocks
<1>8. \A i \in 1 .. 1 : Named(phis'[Len(term) + i], preds'[Len(term) + i])
  <2>1. Named(ps, << >>)
    BY <1>3, NoneNamed
  <2> QED
    BY <1>2, <1>4, <1>5, <2>1
<1> QED
  BY <1>2, <1>6, <1>7, <1>8, NewBlocksNamed

(* A loop without parameters has no PHIs, so its pairs name no block.      *)
LEMMA LoopNamed ==
  ASSUME IInv, AllNamed, NEW nr \in Nat, EnterLoop(0, nr)
  PROVE  AllNamed'
<1> DEFINE loop == Len(term) + 1
           ps == AddIncoming(EmptyPhis(0), LastN(stack, 0), loop)
           t == Terminated(ins, "br")
<1>1. Reachable
  BY DEF EnterLoop
<1>2. /\ preds \in Seq(Seq(Nat)) /\ Len(preds) = Len(term)
      /\ phis \in Seq(Seq(Seq(Incoming))) /\ Len(phis) = Len(term)
      /\ Len(term) \in Nat
      /\ stack \in Seq(Value)
      /\ TypeOK
  BY DEF IInv, TypeOK
<1>3. /\ preds' = Append(preds, <<ins>>)
      /\ phis' = Append(phis, ps)
      /\ term' = Append(t, "none")
  <2>1. ~ (Len(stack) < 0)
    BY <1>2
  <2> QED
    BY <2>1 DEF EnterLoop, Requires
<1>4. Len(ps) = 0
  BY DEF AddIncoming, EmptyPhis
<1>5. t \in Seq(Terminators) /\ Len(t) = Len(term)
  BY <1>1, <1>2, ReachableFacts, TerminatedFacts DEF Terminators
<1> HIDE DEF ps, t
<1>6. \A c \in 1 .. Len(term) : preds'[c] = preds[c]
  BY <1>2, <1>3
<1>7. /\ \A c \in 1 .. Len(term) : phis'[c] = phis[c]
      /\ phis'[Len(term) + 1] = ps
  BY <1>2, <1>3
<1>8. Len(term') = Len(term) + 1
  BY <1>3, <1>5
<1>9. \A c \in Blocks : Named(phis'[c], preds'[c])
  BY <1>6, <1>7 DEF AllNamed, Blocks
<1>10. \A i \in 1 .. 1 : Named(phis'[Len(term) + i], preds'[Len(term) + i])
  <2>1. \A es : Named(ps, es)
    BY <1>4, NoneNamed
  <2> QED
    BY <1>2, <1>7, <2>1
<1> QED
  BY <1>2, <1>8, <1>9, <1>10, NewBlocksNamed

(* Only the exit of an if has PHIs, and no edges yet.                      *)
LEMMA IfNamed ==
  ASSUME IInv, AllNamed, NEW np \in Nat, NEW nr \in Nat, EnterIf(np, nr)
  PROVE  AllNamed'
<1> DEFINE ps == EmptyPhis(nr)
           t == Terminated(ins, "condbr")
           new == << <<ins>>, <<ins>>, << >> >>
           fresh == << << >>, << >>, ps >>
<1> SUFFICES ASSUME NEW n, n = Len(term)
             PROVE  AllNamed'
  OBVIOUS
<1>1. Reachable
  BY DEF EnterIf
<1>2. /\ preds \in Seq(Seq(Nat)) /\ Len(preds) = n
      /\ phis \in Seq(Seq(Seq(Incoming))) /\ Len(phis) = n
      /\ n \in Nat
      /\ TypeOK
  BY DEF IInv, TypeOK
<1>3. CASE Len(stack) < np + 1
  BY <1>3, SameGraphNamed DEF EnterIf, Requires, AssertFails
<1>4. CASE ~ (Len(stack) < np + 1)
  <2>1. /\ preds' = preds \o new
        /\ phis' = phis \o fresh
        /\ term' = t \o <<"none", "none", "none">>
    BY <1>4 DEF EnterIf, Requires
  <2>2. /\ ps \in Seq(Seq(Incoming))
        /\ \A k \in 1 .. Len(ps) : Len(ps[k]) = 0
    BY EmptyPhisFacts
  <2>3. t \in Seq(Terminators) /\ Len(t) = n
    BY <1>1, <1>2, ReachableFacts, TerminatedFacts DEF Terminators
  <2>4. /\ new \in Seq(Seq(Nat))
        /\ Len(new) = 3
        /\ new[3] = << >>
    BY <1>1, ReachableFacts
  <2> HIDE DEF ps
  <2>5. /\ fresh \in Seq(Seq(Seq(Incoming)))
        /\ Len(fresh) = 3
        /\ fresh[1] = << >>
        /\ fresh[2] = << >>
        /\ fresh[3] = ps
    BY <2>2
  <2>6. Len(term') = n + 3
    <3>1. <<"none", "none", "none">> \in Seq(Terminators)
      BY DEF Terminators
    <3> HIDE DEF t
    <3> QED
      BY <2>1, <2>3, <3>1, ConcatProperties, SMTT(30)
  <2> HIDE DEF t, new, fresh
  <2>7. \A i \in 1 .. 3 : Named(fresh[i], new[i])
    <3>1. Named(fresh[1], new[1]) /\ Named(fresh[2], new[2])
      BY <2>5 DEF Named
    <3>2. Named(fresh[3], new[3])
      BY <2>2, <2>4, <2>5 DEF Named
    <3> QED
      BY <3>1, <3>2
  <2>8. /\ \A c \in 1 .. n : preds'[c] = preds[c]
        /\ \A i \in 1 .. 3 : preds'[n + i] = new[i]
    <3>0. /\ preds \in Seq(Seq(Nat))
          /\ new \in Seq(Seq(Nat))
          /\ preds' = preds \o new
      BY <1>2, <2>1, <2>4
    <3>1. Len(preds) = n /\ Len(new) = 3
      BY <1>2, <2>4
    <3>2. \A c \in 1 .. Len(preds) + Len(new) :
            preds'[c] = IF c <= Len(preds) THEN preds[c] ELSE new[c - Len(preds)]
      BY <3>0, ConcatProperties
    <3>3. ASSUME NEW c \in 1 .. n
          PROVE  preds'[c] = preds[c]
      <4>1. c \in 1 .. n + 3 /\ c <= n
        BY <1>2
      <4> QED
        BY <3>1, <3>2, <4>1
    <3>4. ASSUME NEW i \in 1 .. 3
          PROVE  preds'[n + i] = new[i]
      <4>1. n + i \in 1 .. n + 3 /\ ~ (n + i <= n) /\ (n + i) - n = i
        BY <1>2
      <4> QED
        BY <3>1, <3>2, <4>1
    <3> QED
      BY <3>3, <3>4
  <2>9. /\ \A c \in 1 .. n : phis'[c] = phis[c]
        /\ \A i \in 1 .. 3 : phis'[n + i] = fresh[i]
    <3>0. /\ phis \in Seq(Seq(Seq(Incoming)))
          /\ fresh \in Seq(Seq(Seq(Incoming)))
          /\ phis' = phis \o fresh
      BY <1>2, <2>1, <2>5
    <3>1. Len(phis) = n /\ Len(fresh) = 3
      BY <1>2, <2>5
    <3>2. \A c \in 1 .. Len(phis) + Len(fresh) :
            phis'[c] = IF c <= Len(phis) THEN phis[c] ELSE fresh[c - Len(phis)]
      BY <3>0, ConcatProperties
    <3>3. ASSUME NEW c \in 1 .. n
          PROVE  phis'[c] = phis[c]
      <4>1. c \in 1 .. n + 3 /\ c <= n
        BY <1>2
      <4> QED
        BY <3>1, <3>2, <4>1
    <3>4. ASSUME NEW i \in 1 .. 3
          PROVE  phis'[n + i] = fresh[i]
      <4>1. n + i \in 1 .. n + 3 /\ ~ (n + i <= n) /\ (n + i) - n = i
        BY <1>2
      <4> QED
        BY <3>1, <3>2, <4>1
    <3> QED
      BY <3>3, <3>4
  <2>10. \A c \in Blocks : Named(phis'[c], preds'[c])
    BY <2>8, <2>9 DEF AllNamed, Blocks
  <2>11. \A i \in 1 .. 3 : Named(phis'[n + i], preds'[n + i])
    BY <2>7, <2>8, <2>9
  <2> QED
    BY <1>2, <2>6, <2>10, <2>11, NewBlocksNamed
<1> QED
  BY <1>3, <1>4

(* The fall-through branch to the exit.                                    *)
LEMMA EndNamed ==
  ASSUME IInv, AllNamed, ThenEnds \/ BlockEnds \/ LoopEnds \/ FuncEnds
  PROVE  AllNamed'
<1>1. TypeOK /\ status = "visit"
  BY DEF IInv, ThenEnds, BlockEnds, LoopEnds, FuncEnds, EndThen, EndBlock,
         EndLoop, EndFunc, Visiting
<1>2. CASE Abort \/ AssertFails
  BY <1>2, SameGraphNamed DEF Abort, AssertFails
<1>3. CASE LoopEnds /\ ~ (Abort \/ AssertFails)
  BY <1>3, SameGraphNamed DEF LoopEnds, EndLoop
<1>4. CASE ~ LoopEnds /\ ~ (Abort \/ AssertFails)
  <2>1. /\ Leaving
        /\ JoinExit
        /\ \/ term' = TermAtJoin
           \/ term' = [TermAtJoin EXCEPT ![Frame.exit] = "ret"]
    BY <1>1, <1>4 DEF Leaving, ThenEnds, BlockEnds, FuncEnds, EndThen,
                      EndBlock, EndFunc
  <2>2. TermAtJoin \in Seq(Terminators) /\ Len(TermAtJoin) = Len(term)
    BY <2>1, JoinExitFacts
  <2>3. Len(term') = Len(term)
    BY <2>1, <2>2
  <2>4. CASE ins # 0
    <3>1. Frame.exit \in Blocks /\ ins \in Nat
      BY <1>1, FrameFacts DEF TypeOK
    <3>2. /\ preds' = PredsWith(Frame.exit, ins)
          /\ phis' = PhisWith(Frame.exit, stack, ins)
      BY <2>1, <2>4 DEF JoinExit
    <3> QED
      BY <1>1, <2>3, <3>1, <3>2, EdgeKeepsNamed
  <2>5. CASE ins = 0
    BY <2>1, <2>3, <2>5, SameGraphNamed DEF JoinExit
  <2> QED
    BY <2>4, <2>5
<1> QED
  BY <1>2, <1>3, <1>4

(* Every step keeps the sources, and no br_table is being translated.      *)
LEMMA NextNamed ==
  ASSUME PlainSources, Exprs \subseteq Supported, IInv, AllNamed, brt = 0,
         [LNext \/ Stopped]_lvars
  PROVE  AllNamed' /\ brt' = 0
<1>1. TypeOK
  BY DEF IInv
<1>2. CASE UNCHANGED lvars
  BY <1>2, SameGraphNamed DEF lvars, vars
<1>3. ASSUME NEW e \in Exprs, PlainExpr(e)
      PROVE  AllNamed' /\ brt' = 0
  <2>1. UNCHANGED <<preds, phis, term, brt>>
    BY <1>3 DEF PlainExpr, Dispatch, Requires, AssertFails, Abort
  <2> QED
    BY <2>1, SameGraphNamed
<1>4. CASE Unreachable
  <2>1. /\ Reachable
        /\ UNCHANGED <<preds, phis, brt>>
        /\ term' = Terminated(ins, "unreachable")
    BY <1>4 DEF Unreachable, VisitUnreachable, Terminated
  <2>2. Len(term') = Len(term)
    BY <1>1, <2>1, ReachableFacts, TerminatedFacts DEF Terminators
  <2> QED
    BY <2>1, <2>2, SameGraphNamed
<1>5. CASE Skipped
  BY <1>5, SameGraphNamed DEF Skipped, SkipUnreachable, vars
<1>6. ASSUME NEW sig \in BlockSigs, BlockExpr(sig)
      PROVE  AllNamed' /\ brt' = 0
  <2>1. sig[1] \in Nat /\ sig[2] \in Nat /\ EnterBlock(sig[1], sig[2])
    BY <1>6, SigsAssumption DEF BlockExpr
  <2> QED
    BY <2>1, BlockNamed DEF EnterBlock
<1>7. ASSUME NEW sig \in LoopSigs, LoopExpr(sig)
      PROVE  AllNamed' /\ brt' = 0
  <2>1. sig[1] = 0 /\ sig[2] \in Nat /\ EnterLoop(sig[1], sig[2])
    BY <1>7, SigsAssumption DEF LoopExpr, PlainSources
  <2>2. AllNamed'
    BY <2>1, LoopNamed
  <2>3. brt' = 0
    BY <2>1 DEF EnterLoop, Requires, AssertFails
  <2> QED
    BY <2>2, <2>3
<1>8. ASSUME NEW sig \in IfSigs, IfExpr(sig)
      PROVE  AllNamed' /\ brt' = 0
  <2>1. sig[1] \in Nat /\ sig[2] \in Nat /\ EnterIf(sig[1], sig[2])
    BY <1>8, SigsAssumption DEF IfExpr
  <2>2. brt' = 0
    BY <2>1 DEF EnterIf, Requires, AssertFails
  <2> QED
    BY <2>1, <2>2, IfNamed
<1>9. CASE ThenEnds \/ BlockEnds \/ LoopEnds \/ FuncEnds
  <2>1. brt' = brt
    BY <1>9 DEF ThenEnds, BlockEnds, LoopEnds, FuncEnds, EndThen, EndBlock,
                EndLoop, EndFunc, Abort, AssertFails
  <2> QED
    BY <1>9, <2>1, EndNamed
<1>10. ASSUME NEW l \in VDepths, Br(l) \/ BrIf(l)
       PROVE  AllNamed' /\ brt' = 0
  <2>1. brt' = brt
    BY <1>10 DEF Br, BrIf, Requires, AssertFails
  <2> QED
    BY <1>10, <2>1, BrNamed, BrIfNamed
<1>11. ASSUME NEW l \in VDepths,
              BrExpr(l) \/ BrIfExpr(l) \/ BrTableExpr(l) \/ BrTableTarget(l)
       PROVE  AllNamed' /\ brt' = 0
  <2>1. CASE BrExpr(l) \/ BrIfExpr(l)
    BY <1>10, <2>1 DEF BrExpr, BrIfExpr
  <2>2. ~ BrTableExpr(l) /\ ~ BrTableTarget(l)
    BY DEF BrTableExpr, BrTableTarget, BrTableCase, PlainSources
  <2> QED
    BY <1>11, <2>1, <2>2
<1>12. CASE ReturnExpr
  <2>1. status = "visit" /\ Br(Len(blockStack) - 1)
    BY <1>12 DEF ReturnExpr, Return, Br, Reachable, Visiting
  <2>2. Len(blockStack) - 1 \in VDepths
    BY <2>1, FrameFacts, VFrameFacts DEF VDepths
  <2> QED
    BY <1>10, <2>1, <2>2
<1>13. CASE BrTableDone
  BY <1>13 DEF BrTableDone, BrTableEnd
<1>14. CASE Stopped
  BY <1>2, <1>14 DEF Stopped
<1> QED
  BY <1>2, <1>3, <1>4, <1>5, <1>6, <1>7, <1>8, <1>9, <1>11, <1>12, <1>13,
     <1>14 DEF LNext

(* The function starts without pairs, and in no br_table.                  *)
LEMMA InitNamed == LInit => AllNamed /\ brt = 0
<1> SUFFICES ASSUME LInit PROVE AllNamed /\ brt = 0
  OBVIOUS
<1>1. Results \in Nat
  BY ResultsAssumption
<1>2. /\ preds = << << >>, << >> >>
      /\ phis = << << >>, EmptyPhis(Results) >>
      /\ Blocks = 1 .. 2
      /\ brt = 0
  BY DEF LInit, Init, Blocks
<1>3. Len(EmptyPhis(Results)) = Results
      /\ \A k \in 1 .. Results : EmptyPhis(Results)[k] = << >>
  BY <1>1, EmptyPhisFacts
<1> QED
  BY <1>2, <1>3 DEF AllNamed, Named

(* In a body without br_table and without loop parameters, each incoming   *)
(* pair of a PHI names the block its edge comes from, in the order of the  *)
(* edges: what LLVM's verifier requires of every PHI.                      *)
THEOREM PairsNameTheirEdges ==
  ASSUME Exprs \subseteq Supported, PlainSources
  PROVE  Spec => []PhiFromPreds
<1>1. IInv /\ AllNamed /\ brt = 0 /\ [LNext \/ Stopped]_lvars
        => AllNamed' /\ (brt = 0)'
  BY NextNamed
<1>2. IInv /\ AllNamed => PhiFromPreds
  <2> SUFFICES ASSUME IInv, AllNamed,
                      NEW b \in Blocks, NEW k \in DOMAIN phis[b],
                      NEW i \in DOMAIN phis[b][k]
               PROVE  i \in DOMAIN preds[b] /\ phis[b][k][i].from = preds[b][i]
    BY DEF PhiFromPreds
  <2>1. phis[b] \in Seq(Seq(Incoming)) /\ preds[b] \in Seq(Nat)
    BY DEF IInv, TypeOK, Blocks
  <2>2. /\ k \in 1 .. Len(phis[b])
        /\ phis[b][k] \in Seq(Incoming)
        /\ i \in 1 .. Len(phis[b][k])
        /\ DOMAIN preds[b] = 1 .. Len(preds[b])
    BY <2>1
  <2>3. Named(phis[b], preds[b])
    BY DEF AllNamed
  <2> QED
    BY <2>2, <2>3 DEF Named
<1>3. Spec => []IInv
  BY Invariant
<1> QED
  BY <1>1, <1>2, <1>3, InitNamed, PTL DEF Spec
=============================================================================
