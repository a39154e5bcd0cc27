-------------------------- MODULE Dominance_proofs --------------------------
(***************************************************************************)
(* Proofs that every value that the translation uses is defined on every   *)
(* path to its use: the operands that a reached expression may pop, and    *)
(* what the PHIs take along each edge, for every signature set and every   *)
(* length of the body.                                                     *)
(*                                                                         *)
(* Dominates is a search of the graph (ReachAvoiding, a recursive          *)
(* function), and the graph still grows: neither property is inductive.    *)
(* The invariant is that there are sets D of dominators, one for each      *)
(* block, that certify the graph (Certified, Flows), and a chain of        *)
(* blocks A in which the active calls of visitBlock were entered, each     *)
(* dominated by the last, such that what lies on the stack between two of  *)
(* them is defined above where the inner one was entered (Nested).  A step *)
(* that adds an edge does so from a block under A[n] to a label of the     *)
(* nesting, whose dominators, apart from itself, are above A[n].  A step   *)
(* that opens a block extends D by what dominates the insertion point.     *)
(*                                                                         *)
(* That such sets are dominators in the sense of the search is shown by    *)
(* induction on its rounds (ReachAvoidingWithin).                          *)
(***************************************************************************)
EXTENDS SSA_proofs, Nesting_proofs, Induction

-----------------------------------------------------------------------------
(* What ReachAvoiding computes.                                            *)

(* One round of the search: the blocks one edge further.                   *)
Further(d, before) ==
  before \cup { b \in Blocks \ {d} :
                  \E i \in DOMAIN preds[b] : preds[b][i] \in before }

(* A table f of the first last rounds of the search for paths around d.    *)
Search(d, last, f) ==
  f = [n \in 0 .. last |-> IF n = 0 THEN {1} \ {d} ELSE Further(d, f[n - 1])]

(* The search of any number of rounds is defined.                          *)
LEMMA SearchExists ==
  ASSUME NEW d, NEW last \in Nat
  PROVE  \E f : Search(d, last, f)
<1> DEFINE T == { n \in Nat : \E f : Search(d, n, f) }
<1>1. 0 \in T
  <2> DEFINE f == [n \in 0 .. 0 |-> {1} \ {d}]
  <2>1. Search(d, 0, f)
    BY DEF Search
  <2> QED
    BY <2>1
<1>2. ASSUME NEW m \in Nat, m \in T
      PROVE  m + 1 \in T
  <2>1. PICK f : Search(d, m, f)
    BY <1>2
  <2> DEFINE g == [n \in 0 .. m + 1 |-> IF n = 0 THEN {1} \ {d}
                                        ELSE Further(d, f[n - 1])]
  <2>2. ASSUME NEW n \in 0 .. m
        PROVE  g[n] = f[n]
    <3>1. f[n] = IF n = 0 THEN {1} \ {d} ELSE Further(d, f[n - 1])
      BY <2>1, Zenon DEF Search
    <3>2. n \in 0 .. m + 1
      OBVIOUS
    <3>3. g[n] = IF n = 0 THEN {1} \ {d} ELSE Further(d, f[n - 1])
      BY <3>2, Zenon
    <3> QED
      BY <3>1, <3>3, Zenon
  <2>3. ASSUME NEW n \in 0 .. m + 1
        PROVE  g[n] = IF n = 0 THEN {1} \ {d} ELSE Further(d, g[n - 1])
    <3>1. CASE n = 0
      BY <3>1
    <3>2. CASE n # 0
      <4>1. n - 1 \in 0 .. m
        BY <3>2
      <4> QED
        BY <2>2, <3>2, <4>1
    <3> QED
      BY <3>1, <3>2
  <2>4. Search(d, m + 1, g)
    BY <2>3 DEF Search
  <2> QED
    BY <2>4
<1> HIDE DEF T
<1>3. Nat \subseteq T
  BY <1>1, <1>2, SetInduction
<1> QED
  BY <1>3 DEF T

(* The search stays within every set that has the entry and follows the    *)
(* edges.                                                                  *)
LEMMA ReachAvoidingWithin ==
  ASSUME Len(term) \in Nat, NEW d, NEW S, {1} \ {d} \subseteq S,
         \A b \in Blocks \ {d} : \A i \in DOMAIN preds[b] :
           preds[b][i] \in S => b \in S
  PROVE  ReachAvoiding(d) \subseteq S
<1> DEFINE last == Len(term)
           f == CHOOSE g : Search(d, last, g)
<1>1. Search(d, last, f)
  BY SearchExists
<1>2. ReachAvoiding(d) = f[last]
  BY DEF ReachAvoiding, Search, Further
<1> HIDE DEF f
<1> DEFINE T == { n \in Nat : n <= last => f[n] \subseteq S }
<1>3. 0 \in T
  BY <1>1 DEF Search
<1>4. ASSUME NEW m \in Nat, m \in T
      PROVE  m + 1 \in T
  <2> SUFFICES ASSUME m + 1 <= last
               PROVE  f[m + 1] \subseteq S
    OBVIOUS
  <2>1. f[m] \subseteq S
    BY <1>4
  <2>2. f[m + 1] = Further(d, f[m])
    <3>1. m + 1 \in 0 .. last /\ m + 1 # 0 /\ (m + 1) - 1 = m
      OBVIOUS
    <3> QED
      BY <1>1, <3>1 DEF Search
  <2> QED
    BY <2>1, <2>2 DEF Further
<1> HIDE DEF T
<1>5. last \in T
  BY <1>3, <1>4, SetInduction
<1> QED
  BY <1>2, <1>5 DEF T

-----------------------------------------------------------------------------
(* Dominators.                                                             *)

(* D[b] are dominators of block b: each block dominates itself, dominance  *)
(* is transitive, and the entry has no other dominator.                    *)
Certified(D) ==
  /\ 1 \in Blocks
  /\ \A b \in Blocks : b \in D[b] /\ D[b] \subseteq Blocks
  /\ \A b \in Blocks : \A d \in D[b] : D[d] \subseteq D[b]
  /\ D[1] = {1}

(* Block b has the edges es and the PHIs ps: its dominators dominate the   *)
(* source of each edge, and so does the block of each value a PHI takes    *)
(* along it.                                                               *)
InFlow(D, all, b, es, ps) ==
  \A m \in 1 .. Len(es) :
    /\ es[m] \in all
    /\ D[b] \ {b} \subseteq D[es[m]]
    /\ \A k \in 1 .. Len(ps) : ps[k][m].val.blk \in D[es[m]]

(* The graph and its PHIs are in flow.                                     *)
Flows(D) == \A b \in Blocks : InFlow(D, Blocks, b, preds[b], phis[b])

(* They are dominators in the sense of Dominates.                          *)
LEMMA CertifiedDominates ==
  ASSUME TypeOK, NEW D, Certified(D), Flows(D), NEW b \in Blocks, NEW d \in D[b]
  PROVE  Dominates(d, b)
<1> SUFFICES ASSUME d # b
             PROVE  b \notin ReachAvoiding(d)
  BY DEF Dominates
<1> DEFINE S == { c \in Blocks : d \notin D[c] }
<1>1. Len(term) \in Nat
  BY DEF TypeOK
<1>2. {1} \ {d} \subseteq S
  BY DEF Certified
<1>3. ASSUME NEW c \in Blocks \ {d}, NEW i \in DOMAIN preds[c], preds[c][i] \in S
      PROVE  c \in S
  <2>1. i \in 1 .. Len(preds[c])
    BY SMTT(30) DEF TypeOK, Blocks
  <2>2. D[c] \ {c} \subseteq D[preds[c][i]]
    BY <2>1 DEF Flows, InFlow
  <2> QED
    BY <1>3, <2>2
<1> HIDE DEF S
<1>4. ReachAvoiding(d) \subseteq S
  BY <1>1, <1>2, <1>3, ReachAvoidingWithin
<1> QED
  BY <1>4 DEF S

(* One more edge.                                                          *)
LEMMA EdgeFlows ==
  ASSUME NEW D, NEW all, NEW b, NEW es \in Seq(Nat),
         NEW ps \in Seq(Seq(Incoming)), Arity(ps, es),
         InFlow(D, all, b, es, ps), NEW f \in all, f \in Nat,
         D[b] \ {b} \subseteq D[f], NEW vals, NEW via,
         \A k \in 1 .. Len(ps) : vals[k].blk \in D[f]
  PROVE  InFlow(D, all, b, Append(es, f), AddIncoming(ps, vals, via))
<1> DEFINE qs == AddIncoming(ps, vals, via)
           fs == Append(es, f)
           pair(k) == [val |-> vals[k], from |-> via]
<1>1. Len(qs) = Len(ps) /\ \A k \in 1 .. Len(ps) : qs[k] = Append(ps[k], pair(k))
  BY DEF AddIncoming
<1>2. /\ Len(es) \in Nat
      /\ Len(fs) = Len(es) + 1
      /\ fs[Len(es) + 1] = f
      /\ \A i \in 1 .. Len(es) : fs[i] = es[i]
  OBVIOUS
<1>3. \A k : pair(k).val = vals[k]
  OBVIOUS
<1> HIDE DEF qs, fs, pair
<1>4. ASSUME NEW k \in 1 .. Len(ps)
      PROVE  /\ qs[k][Len(es) + 1] = pair(k)
             /\ \A i \in 1 .. Len(es) : qs[k][i] = ps[k][i]
  <2> DEFINE q == qs[k]
             p == ps[k]
             e == pair(k)
             n == Len(es)
  <2>1. /\ q = Append(p, e)
        /\ p \in Seq(Incoming)
        /\ Len(p) = n
        /\ n \in Nat
    BY <1>1, <1>2 DEF Arity
  <2> HIDE DEF q, p, e, n
  <2>2. /\ q[n + 1] = e
        /\ \A i \in 1 .. n : q[i] = p[i]
    BY <2>1
  <2> QED
    BY <2>2 DEF q, p, e, n
<1>5. ASSUME NEW m \in 1 .. Len(fs)
      PROVE  /\ fs[m] \in all
             /\ D[b] \ {b} \subseteq D[fs[m]]
             /\ \A k \in 1 .. Len(qs) : qs[k][m].val.blk \in D[fs[m]]
  <2>1. CASE m \in 1 .. Len(es)
    BY <1>1, <1>2, <1>4, <2>1 DEF InFlow
  <2>2. CASE m = Len(es) + 1
    <3>1. fs[m] = f
      BY <1>2, <2>2
    <3>2. ASSUME NEW k \in 1 .. Len(qs)
          PROVE  qs[k][m].val.blk \in D[f]
      <4>1. k \in 1 .. Len(ps)
        BY <1>1
      <4>2. qs[k][m].val = vals[k]
        BY <1>3, <1>4, <2>2, <4>1
      <4> QED
        BY <4>1, <4>2
    <3> QED
      BY <3>1, <3>2
  <2>3. m \in 1 .. Len(es) \/ m = Len(es) + 1
    BY <1>2
  <2> QED
    BY <2>1, <2>2, <2>3
<1>6. InFlow(D, all, b, fs, qs)
  BY <1>5 DEF InFlow
<1> QED
  BY <1>6 DEF fs, qs

(* More blocks with dominators of their own.                               *)
LEMMA FlowKept ==
  ASSUME NEW D, NEW E, NEW all, NEW more, all \subseteq more,
         \A x \in all : E[x] = D[x], NEW b \in all, NEW es, NEW ps,
         InFlow(D, all, b, es, ps)
  PROVE  InFlow(E, more, b, es, ps)
BY DEF InFlow

-----------------------------------------------------------------------------
(* Operands.                                                               *)

(* The c operands of s that end at height p are defined in the blocks X.   *)
Tops(s, p, c, X) == \A j \in 1 .. c : s[p + 1 - j].blk \in X

(* The same operands on another stack.                                     *)
LEMMA TopsKept ==
  ASSUME NEW s, NEW t, NEW p \in Int, NEW c \in Int, c <= p, NEW X,
         Tops(s, p, c, X), \A j \in 1 .. p : t[j] = s[j]
  PROVE  Tops(t, p, c, X)
<1>1. ASSUME NEW j \in 1 .. c
      PROVE  t[p + 1 - j].blk \in X
  <2>1. p + 1 - j \in 1 .. p
    OBVIOUS
  <2> QED
    BY <2>1 DEF Tops
<1> QED
  BY <1>1 DEF Tops

(* r operands onto c others, which end at height p.                        *)
LEMMA TopsOnto ==
  ASSUME NEW s, NEW p \in Int, NEW c \in Int, NEW r \in Nat, NEW q \in Int,
         NEW d \in Int, q = p + r, d = c + r, NEW X,
         Tops(s, p, c, X), Tops(s, q, r, X)
  PROVE  Tops(s, q, d, X)
<1>1. ASSUME NEW j \in 1 .. d
      PROVE  s[q + 1 - j].blk \in X
  <2>1. CASE j <= r
    BY <2>1 DEF Tops
  <2>2. CASE ~ (j <= r)
    <3>1. j - r \in 1 .. c /\ p + 1 - (j - r) = q + 1 - j
      BY <2>2
    <3> QED
      BY <3>1 DEF Tops
  <2> QED
    BY <2>1, <2>2
<1> QED
  BY <1>1 DEF Tops

(* The operands under the uppermost p - q.                                 *)
LEMMA TopsUnder ==
  ASSUME NEW s, NEW p \in Int, NEW c \in Int, NEW q \in Int, NEW d \in Int,
         q <= p, p - q = c - d, NEW X, Tops(s, p, c, X)
  PROVE  Tops(s, q, d, X)
<1>1. ASSUME NEW j \in 1 .. d
      PROVE  s[q + 1 - j].blk \in X
  <2>1. j + (p - q) \in 1 .. c /\ p + 1 - (j + (p - q)) = q + 1 - j
    OBVIOUS
  <2> QED
    BY <2>1 DEF Tops
<1> QED
  BY <1>1 DEF Tops

(* Fewer operands, or more blocks.                                         *)
LEMMA TopsFewer ==
  ASSUME NEW s, NEW p, NEW c \in Int, NEW r \in Int, r <= c, NEW X, NEW Y,
         X \subseteq Y, Tops(s, p, c, X)
  PROVE  Tops(s, p, r, Y)
BY DEF Tops

-----------------------------------------------------------------------------
(* The invariant.                                                          *)

(* An active visitBlock f, entered in block a, whose label's target is t:  *)
(* a dominates the blocks it still has to fill, the parameters saved for   *)
(* the else arm are defined in dominators of a, and a branch to t from     *)
(* anywhere behind a is in flow.                                           *)
Level(D, a, f, t) ==
  /\ f.lty # "Loop" => a \in D[f.exit]
  /\ f.lty = "If" => /\ a \in D[f.else]
                     /\ \A k \in 1 .. Len(f.saved) : f.saved[k].blk \in D[a]
  /\ D[t] \ {t} \subseteq D[a]

(* A[i] is the block the i-th of m calls was entered in: each is dominated *)
(* by those before, and what a call has left under the next one is defined *)
(* in dominators of where that was entered.                                *)
Chain(D, all, A, m, fs, vs, bs, s) ==
  /\ \A i \in 1 .. m : A[i] \in all /\ Level(D, A[i], fs[i], bs[i].target)
  /\ \A i \in 1 .. m : \A j \in i .. m : A[i] \in D[A[j]]
  /\ \A i \in 1 .. m - 1 :
       Tops(s, fs[i + 1].pos, vs[i + 1].height - vs[i].height, D[A[i + 1]])

(* The innermost call dominates the current block, and the operands the    *)
(* program may use there, or a br_table may pass, are defined above it.    *)
Inner(D, a) ==
  /\ ins # 0 => a \in D[ins]
  /\ brt # 0 => a \in D[brt]
  /\ Reachable => Tops(stack, Len(stack), VAvailable, D[ins])
  /\ brt # 0 => Tops(stack, Len(stack), varity, D[brt])

(* The nesting of visitBlock is in order with D, as long as it runs.       *)
Nested(D, A) ==
  status = "visit" =>
    /\ Chain(D, Blocks, A, Len(frames), frames, vctrl, blockStack, stack)
    /\ Inner(D, A[Len(frames)])

(* D and A certify the function as built so far.                           *)
DomInv(D, A) == Certified(D) /\ Flows(D) /\ Nested(D, A)
(* There are such dominators.                                              *)
DominatorsExist ==
  \E D \in [Nat -> SUBSET Nat], A \in [Nat -> Nat] : DomInv(D, A)

(* What the steps may rely on.                                             *)
Base == NestInv /\ PhiArity

-----------------------------------------------------------------------------
(* Steps of the graph.                                                     *)

(* No block and no edge is added.                                          *)
LEMMA SameGraphFlows ==
  ASSUME NEW D, Certified(D), Flows(D), UNCHANGED <<preds, phis>>,
         Len(term') = Len(term)
  PROVE  Certified(D)' /\ Flows(D)'
BY DEF Certified, Flows, InFlow, Blocks

(* A branch from block `from' to block b.                                  *)
LEMMA BranchFlows ==
  ASSUME TypeOK, PhiArity, NEW D, Flows(D), NEW b \in Blocks,
         NEW from \in Blocks, D[b] \ {b} \subseteq D[from],
         NEW s \in Seq(Value), Len(phis[b]) <= Len(s),
         Tops(s, Len(s), Len(phis[b]), D[from]), NEW via
  PROVE  \A c \in Blocks : InFlow(D, Blocks, c, PredsWith(b, from)[c],
                                  PhisWith(b, s, via)[c])
<1> TAKE c \in Blocks
<1>1. /\ preds \in Seq(Seq(Nat)) /\ Len(preds) = Len(term)
      /\ phis \in Seq(Seq(Seq(Incoming))) /\ Len(phis) = Len(term)
      /\ b \in 1 .. Len(term)
      /\ c \in 1 .. Len(term)
      /\ from \in Nat
  BY DEF TypeOK, Blocks
<1>2. InFlow(D, Blocks, c, preds[c], phis[c]) /\ InFlow(D, Blocks, b, preds[b], phis[b])
  BY DEF Flows
<1>3. phis[b] \in Seq(Seq(Incoming)) /\ preds[b] \in Seq(Nat)
  BY <1>1
<1>4. PhisWith(b, s, via)[c] = IF c = b THEN AddIncoming(phis[b], BranchArgs(s, b), via)
                               ELSE phis[c]
  BY <1>1 DEF PhisWith
<1>5. PredsWith(b, from)[c] = IF c = b THEN Append(preds[b], from) ELSE preds[c]
  BY <1>1 DEF PredsWith
<1>6. Arity(phis[b], preds[b])
  BY PhiArityByBlock
<1>7. \A k \in 1 .. Len(phis[b]) : BranchArgs(s, b)[k].blk \in D[from]
  <2> TAKE k \in 1 .. Len(phis[b])
  <2> DEFINE n == Len(phis[b])
  <2>1. n \in Nat /\ Len(s) \in Nat /\ n <= Len(s) /\ k \in 1 .. n
    BY <1>3
  <2>2. BranchArgs(s, b)[k] = s[Len(s) - n + k]
    BY <2>1, LastNFacts DEF BranchArgs
  <2>3. n + 1 - k \in 1 .. n /\ Len(s) + 1 - (n + 1 - k) = Len(s) - n + k
    BY <2>1
  <2>4. Tops(s, Len(s), n, D[from])
    OBVIOUS
  <2> HIDE DEF n
  <2>5. s[Len(s) + 1 - (n + 1 - k)].blk \in D[from]
    BY <2>3, <2>4 DEF Tops
  <2> QED
    BY <2>2, <2>3, <2>5
<1>8. InFlow(D, Blocks, b, Append(preds[b], from),
             AddIncoming(phis[b], BranchArgs(s, b), via))
  BY <1>1, <1>2, <1>3, <1>6, <1>7, EdgeFlows
<1> QED
  BY <1>2, <1>4, <1>5, <1>8

(* A step that is nothing else to the graph.                               *)
LEMMA BranchKeepsFlows ==
  ASSUME TypeOK, PhiArity, NEW D, Certified(D), Flows(D), NEW b \in Blocks,
         NEW from \in Blocks, D[b] \ {b} \subseteq D[from],
         NEW s \in Seq(Value), Len(phis[b]) <= Len(s),
         Tops(s, Len(s), Len(phis[b]), D[from]), NEW via,
         preds' = PredsWith(b, from), phis' = PhisWith(b, s, via),
         Len(term') = Len(term)
  PROVE  Certified(D)' /\ Flows(D)'
<1>1. Blocks' = Blocks
  BY DEF Blocks
<1>2. Certified(D)'
  BY <1>1 DEF Certified
<1>3. \A c \in Blocks : InFlow(D, Blocks, c, preds'[c], phis'[c])
  BY BranchFlows
<1> QED
  BY <1>1, <1>2, <1>3 DEF Flows

(* n fresh blocks, dominated by themselves and by what dominates block a.  *)
Grown(D, len, n, X) ==
  [x \in Nat |-> IF x \in len + 1 .. len + n THEN X \cup {x} ELSE D[x]]

(* What Grown gives the old blocks and the fresh ones.                     *)
LEMMA GrownFacts ==
  ASSUME NEW D \in [Nat -> SUBSET Nat], NEW len \in Nat, NEW n \in Nat,
         NEW X \in SUBSET (1 .. len)
  PROVE  /\ Grown(D, len, n, X) \in [Nat -> SUBSET Nat]
         /\ \A x \in 1 .. len : Grown(D, len, n, X)[x] = D[x]
         /\ \A x \in len + 1 .. len + n : Grown(D, len, n, X)[x] = X \cup {x}
BY DEF Grown

(* Fresh blocks grown under block a leave the dominators in order.         *)
LEMMA GrownCertified ==
  ASSUME TypeOK, NEW D \in [Nat -> SUBSET Nat], Certified(D), NEW a \in Blocks,
         NEW n \in Nat, Len(term') = Len(term) + n,
         NEW E, E = Grown(D, Len(term), n, D[a])
  PROVE  Certified(E)'
<1> DEFINE len == Len(term)
<1>1. /\ len \in Nat
      /\ Blocks = 1 .. len
      /\ Blocks' = 1 .. len + n
      /\ D[a] \in SUBSET (1 .. len)
  BY DEF TypeOK, Blocks, Certified
<1> HIDE DEF len
<1>2. /\ \A x \in 1 .. len : E[x] = D[x]
      /\ \A x \in len + 1 .. len + n : E[x] = D[a] \cup {x}
  BY <1>1, GrownFacts DEF len
<1>3. \A x \in 1 .. len + n : x \in 1 .. len \/ x \in len + 1 .. len + n
  BY <1>1
<1>4. \A b \in 1 .. len + n : b \in E[b] /\ E[b] \subseteq 1 .. len + n
  BY <1>1, <1>2, <1>3 DEF Certified
<1>5. \A b \in 1 .. len + n : \A d \in E[b] : E[d] \subseteq E[b]
  <2>1. ASSUME NEW b \in 1 .. len, NEW d \in E[b]
        PROVE  E[d] \subseteq E[b]
    BY <1>1, <1>2, <2>1 DEF Certified
  <2>2. ASSUME NEW b \in len + 1 .. len + n, NEW d \in E[b]
        PROVE  E[d] \subseteq E[b]
    <3>1. CASE d = b
      BY <3>1
    <3>2. CASE d \in D[a]
      <4>1. d \in 1 .. len /\ D[d] \subseteq D[a]
        BY <1>1, <3>2 DEF Certified
      <4> QED
        BY <1>2, <2>2, <4>1
    <3> QED
      BY <1>2, <2>2, <3>1, <3>2
  <2> QED
    BY <1>3, <2>1, <2>2
<1>6. 1 \in 1 .. len /\ E[1] = {1}
  BY <1>1, <1>2 DEF Certified
<1> QED
  BY <1>1, <1>4, <1>5, <1>6 DEF Certified

(* Steps that append n blocks.                                             *)
LEMMA GrownFlows ==
  ASSUME TypeOK, NEW D \in [Nat -> SUBSET Nat], Certified(D), NEW a \in Blocks,
         NEW n \in Nat, Len(term') = Len(term) + n,
         NEW E, E = Grown(D, Len(term), n, D[a]),
         \A c \in Blocks : InFlow(D, Blocks, c, preds'[c], phis'[c]),
         \A c \in Len(term) + 1 .. Len(term) + n :
           InFlow(E, 1 .. Len(term) + n, c, preds'[c], phis'[c])
  PROVE  Flows(E)'
<1> DEFINE len == Len(term)
<1>1. /\ len \in Nat
      /\ Blocks = 1 .. len
      /\ Blocks' = 1 .. len + n
      /\ D[a] \in SUBSET (1 .. len)
  BY DEF TypeOK, Blocks, Certified
<1> HIDE DEF len
<1>2. \A x \in 1 .. len : E[x] = D[x]
  BY <1>1, GrownFacts DEF len
<1>3. 1 .. len \subseteq 1 .. len + n
  BY <1>1
<1>4. ASSUME NEW c \in 1 .. len
      PROVE  InFlow(E, 1 .. len + n, c, preds'[c], phis'[c])
  <2>1. InFlow(D, 1 .. len, c, preds'[c], phis'[c])
    BY <1>1
  <2> QED
    BY <1>2, <1>3, <2>1 DEF InFlow
<1>5. \A c \in len + 1 .. len + n : InFlow(E, 1 .. len + n, c, preds'[c], phis'[c])
  BY DEF len
<1>6. \A x \in 1 .. len + n : x \in 1 .. len \/ x \in len + 1 .. len + n
  BY <1>1
<1>7. \A c \in 1 .. len + n : InFlow(E, 1 .. len + n, c, preds'[c], phis'[c])
  BY <1>4, <1>5, <1>6
<1> QED
  BY <1>1, <1>7 DEF Flows

(* A fresh block without edges, or with one.                               *)
LEMMA NoFlow ==
  ASSUME NEW E, NEW all, NEW b, NEW ps
  PROVE  InFlow(E, all, b, << >>, ps)
BY DEF InFlow

(* ... or with one edge, from a block its dominators dominate.             *)
LEMMA OneFlow ==
  ASSUME NEW E, NEW all, NEW b, NEW a \in all, NEW ps, E[b] \ {b} \subseteq E[a],
         \A k \in 1 .. Len(ps) : ps[k][1].val.blk \in E[a]
  PROVE  InFlow(E, all, b, <<a>>, ps)
BY DEF InFlow

-----------------------------------------------------------------------------
(* Steps of the nesting.                                                   *)

(* A call that a step leaves alone.                                        *)
LEMMA LevelSame ==
  ASSUME NEW D, NEW E, NEW all, \A x \in all : E[x] = D[x], NEW a \in all,
         NEW f, NEW g, SameFrame(f, g), NEW t \in all, f.exit \in all,
         f.lty = "If" => f.else \in all, Level(D, a, f, t)
  PROVE  Level(E, a, g, t)
BY DEF Level, SameFrame

(* The blocks of a call.                                                   *)
LEMMA LevelBlocks ==
  ASSUME IInv, status = "visit", NEW i \in 1 .. Len(frames)
  PROVE  /\ frames[i].exit \in Blocks
         /\ frames[i].lty = "If" => frames[i].else \in Blocks
         /\ blockStack[i].target \in Blocks
BY FrameFacts DEF IInv, BlocksOK

(* The outermost k calls fs, vs, bs that a step leaves alone, their blocks  *)
(* among all.                                                              *)
SameCalls(all, k, fs, gs, vs, ws, bs, cs) ==
  \A i \in 1 .. k : /\ SameFrame(fs[i], gs[i])
                    /\ ws[i] = vs[i]
                    /\ cs[i] = bs[i]
                    /\ fs[i].exit \in all
                    /\ fs[i].lty = "If" => fs[i].else \in all
                    /\ bs[i].target \in all
(* What they left on the stack s is still on t.                            *)
SameUnder(k, fs, vs, s, t) ==
  \A i \in 1 .. k - 1 :
    /\ fs[i + 1].pos \in Nat
    /\ vs[i + 1].height - vs[i].height \in Int
    /\ vs[i + 1].height - vs[i].height <= fs[i + 1].pos
    /\ \A j \in 1 .. fs[i + 1].pos : t[j] = s[j]

(* The first k calls were entered in the same blocks.                      *)
SameUpTo(k, A, B) == \A i \in 1 .. k : B[i] = A[i]

(* The k outermost calls stay in order when a step leaves them alone.      *)
LEMMA ChainKept ==
  ASSUME NEW D, NEW E, NEW all, NEW more, all \subseteq more,
         \A x \in all : E[x] = D[x],
         NEW A, NEW B, NEW m \in Nat, NEW k \in Nat, k <= m, SameUpTo(k, A, B),
         NEW fs, NEW gs, NEW vs, NEW ws, NEW bs, NEW cs, NEW s, NEW t,
         Chain(D, all, A, m, fs, vs, bs, s),
         SameCalls(all, k, fs, gs, vs, ws, bs, cs), SameUnder(k, fs, vs, s, t)
  PROVE  Chain(E, more, B, k, gs, ws, cs, t)
<1>1. ASSUME NEW i \in 1 .. k
      PROVE  B[i] \in more /\ Level(E, B[i], gs[i], cs[i].target)
  <2>1. A[i] \in all /\ Level(D, A[i], fs[i], bs[i].target)
    BY DEF Chain
  <2>2. B[i] = A[i]
    BY DEF SameUpTo
  <2>3. /\ SameFrame(fs[i], gs[i])
        /\ cs[i] = bs[i]
        /\ fs[i].exit \in all
        /\ fs[i].lty = "If" => fs[i].else \in all
        /\ bs[i].target \in all
    BY DEF SameCalls
  <2>4. Level(E, A[i], gs[i], bs[i].target)
    BY <2>1, <2>3, LevelSame
  <2> QED
    BY <2>1, <2>2, <2>3, <2>4
<1>2. ASSUME NEW i \in 1 .. k, NEW j \in i .. k
      PROVE  B[i] \in E[B[j]]
  <2>1. i \in 1 .. m /\ j \in i .. m /\ j \in 1 .. m /\ j \in 1 .. k
    OBVIOUS
  <2>2. A[i] \in D[A[j]] /\ A[j] \in all
    BY <2>1 DEF Chain
  <2> QED
    BY <2>1, <2>2 DEF SameUpTo
<1>3. ASSUME NEW i \in 1 .. k - 1
      PROVE  Tops(t, gs[i + 1].pos, ws[i + 1].height - ws[i].height, E[B[i + 1]])
  <2> DEFINE p == fs[i + 1].pos
             c == vs[i + 1].height - vs[i].height
             X == D[A[i + 1]]
  <2>1. i \in 1 .. m - 1 /\ i + 1 \in 1 .. k /\ i \in 1 .. k /\ i + 1 \in 1 .. m
    OBVIOUS
  <2>2. Tops(s, p, c, X)
    BY <2>1 DEF Chain
  <2>3. /\ p \in Int /\ c \in Int /\ c <= p
        /\ \A j \in 1 .. p : t[j] = s[j]
    BY DEF SameUnder
  <2>4. /\ gs[i + 1].pos = p
        /\ ws[i + 1].height - ws[i].height = c
    BY <2>1 DEF SameFrame, SameCalls
  <2>5. E[B[i + 1]] = X
    BY <2>1 DEF Chain, SameUpTo
  <2> HIDE DEF p, c, X
  <2>6. Tops(t, p, c, X)
    BY <2>2, <2>3, TopsKept
  <2> QED
    BY <2>4, <2>5, <2>6
<1> QED
  BY <1>1, <1>2, <1>3 DEF Chain

(* One call more.                                                          *)
LEMMA ChainMore ==
  ASSUME NEW E, NEW all, NEW B, NEW m \in Nat \ {0},
         NEW gs, NEW ws, NEW cs, NEW t,
         Chain(E, all, B, m, gs, ws, cs, t),
         \A b \in all : b \in E[b] /\ \A d \in E[b] : E[d] \subseteq E[b],
         B[m + 1] \in all, B[m] \in E[B[m + 1]],
         Level(E, B[m + 1], gs[m + 1], cs[m + 1].target),
         Tops(t, gs[m + 1].pos, ws[m + 1].height - ws[m].height, E[B[m + 1]])
  PROVE  Chain(E, all, B, m + 1, gs, ws, cs, t)
<1>1. \A i \in 1 .. m + 1 : i \in 1 .. m \/ i = m + 1
  OBVIOUS
<1>2. ASSUME NEW i \in 1 .. m + 1
      PROVE  B[i] \in all /\ Level(E, B[i], gs[i], cs[i].target)
  BY <1>1 DEF Chain
<1>3. ASSUME NEW i \in 1 .. m + 1, NEW j \in i .. m + 1
      PROVE  B[i] \in E[B[j]]
  <2>1. CASE i = m + 1
    BY <2>1
  <2>2. CASE i \in 1 .. m /\ j \in 1 .. m
    BY <2>2 DEF Chain
  <2>3. CASE i \in 1 .. m /\ j = m + 1
    <3>1. m \in i .. m
      BY <2>3
    <3>2. B[i] \in E[B[m]]
      BY <2>3, <3>1 DEF Chain
    <3>3. E[B[m]] \subseteq E[B[m + 1]]
      OBVIOUS
    <3> QED
      BY <2>3, <3>2, <3>3
  <2> QED
    BY <1>1, <2>1, <2>2, <2>3
<1>4. ASSUME NEW i \in 1 .. (m + 1) - 1
      PROVE  Tops(t, gs[i + 1].pos, ws[i + 1].height - ws[i].height, E[B[i + 1]])
  <2>1. i \in 1 .. m - 1 \/ i = m
    OBVIOUS
  <2>2. CASE i \in 1 .. m - 1
    BY <2>2 DEF Chain
  <2>3. CASE i = m
    BY <2>3
  <2> QED
    BY <2>1, <2>2, <2>3
<1> QED
  BY <1>2, <1>3, <1>4 DEF Chain

(* The k outermost calls in a step.                                        *)
BelowStays(k) ==
  /\ KeepsFrames(k)
  /\ \A i \in 1 .. k : blockStack'[i] = blockStack[i]

(* E agrees with D on the blocks there are.                                *)
Extends(D, E) == \A x \in Blocks : E[x] = D[x]

(* A step that keeps the k outermost calls, and the operands under them,   *)
(* keeps them in order.                                                    *)
LEMMA NestedBelow ==
  ASSUME IInv, PosGrow, status = "visit", NEW D, NEW E, NEW A, NEW B, Nested(D, A),
         Extends(D, E), Blocks \subseteq Blocks',
         NEW k \in Nat, k <= Len(frames), SameUpTo(k, A, B), BelowStays(k),
         NEW p \in Nat, KeepsBelow(p), \A i \in 1 .. k : frames[i].pos <= p
  PROVE  Chain(E, Blocks', B, k, frames', vctrl', blockStack', stack')
<1>1. /\ Len(frames) \in Nat
      /\ \A i \in 1 .. Len(frames) : frames[i].pos \in Nat /\ vctrl[i].height \in Nat
  BY NestFacts
<1>2. Chain(D, Blocks, A, Len(frames), frames, vctrl, blockStack, stack)
  BY DEF Nested
<1>3. \A i \in 1 .. k : i \in 1 .. Len(frames)
  BY <1>1
<1>4. SameCalls(Blocks, k, frames, frames', vctrl, vctrl', blockStack, blockStack')
  BY <1>3, LevelBlocks DEF KeepsFrames, SameCalls, BelowStays
<1>5. ASSUME NEW i \in 1 .. k - 1
      PROVE  /\ frames[i + 1].pos \in Nat
             /\ vctrl[i + 1].height - vctrl[i].height \in Int
             /\ vctrl[i + 1].height - vctrl[i].height <= frames[i + 1].pos
             /\ \A j \in 1 .. frames[i + 1].pos : stack'[j] = stack[j]
  <2>1. i \in 1 .. Len(frames) - 1 /\ i + 1 \in 1 .. k /\ i \in 1 .. k
    BY <1>1
  <2>2. i \in 1 .. Len(frames) /\ i + 1 \in 1 .. Len(frames)
    BY <1>3, <2>1
  <2>3. /\ frames[i].pos \in Nat /\ vctrl[i].height \in Nat
        /\ frames[i + 1].pos \in Nat /\ vctrl[i + 1].height \in Nat
        /\ frames[i + 1].pos <= p
    BY <1>1, <2>1, <2>2, Zenon
  <2>4. vctrl[i + 1].height - vctrl[i].height <= frames[i + 1].pos - frames[i].pos
    BY <2>1 DEF IInv, HeightsOK
  <2>5. \A j \in 1 .. frames[i + 1].pos : stack'[j] = stack[j]
    BY <2>3 DEF KeepsBelow
  <2> QED
    BY <2>3, <2>4, <2>5, SMTT(30)
<1>6. SameUnder(k, frames, vctrl, stack, stack')
  BY <1>5 DEF SameUnder
<1> QED
  BY <1>1, <1>2, <1>4, <1>6, ChainKept DEF Extends

(* What the invariant is after a step.                                     *)
LEMMA NestedNext ==
  ASSUME NEW E, NEW B, NEW m, Len(frames') = m,
         Chain(E, Blocks', B, m, frames', vctrl', blockStack', stack'),
         Inner(E, B[m])'
  PROVE  Nested(E, B)'
BY DEF Nested

(* A step inside the innermost block.                                      *)
LEMMA StayNested ==
  ASSUME IInv, PosGrow, NEW D, NEW E, NEW A, Nested(D, A),
         Extends(D, E), Blocks \subseteq Blocks',
         Stays, UNCHANGED blockStack,
         NEW n, Len(frames) = n, Inner(E, A[n])'
  PROVE  Nested(E, A)'
<1>1. /\ status = "visit"
      /\ Len(frames') = n
      /\ KeepsFrames(n)
      /\ KeepsBelow(Frame.pos)
  BY DEF Stays
<1>2. /\ n \in Nat \ {0}
      /\ Frame.pos \in Nat
      /\ \A i \in 1 .. n : frames[i].pos <= Frame.pos
  <2>1. /\ n \in Nat \ {0} /\ Frame = frames[n]
        /\ frames[n].pos \in Nat
    BY <1>1, NestFacts
  <2> QED
    BY <2>1 DEF PosGrow
<1>3. BelowStays(n) /\ SameUpTo(n, A, A)
  BY <1>1 DEF BelowStays, SameUpTo
<1>4. n \in Nat /\ n <= Len(frames)
  BY <1>2
<1>5. Chain(E, Blocks', A, n, frames', vctrl', blockStack', stack')
  BY <1>1, <1>2, <1>3, <1>4, NestedBelow
<1> QED
  BY <1>1, <1>5, NestedNext

(* The labels of the n outermost calls stay.                               *)
LabelsStay(n) == \A i \in 1 .. n : blockStack'[i] = blockStack[i]

(* The (n + 1)-th call, entered in B[n + 1], is in order.                  *)
Pushed(E, A, B, n) ==
  /\ B[n + 1] \in Blocks'
  /\ A[n] \in E[B[n + 1]]
  /\ Level(E, B[n + 1], frames'[n + 1], blockStack'[n + 1].target)
  /\ Tops(stack', frames'[n + 1].pos, vctrl'[n + 1].height - VFrame.height,
          E[B[n + 1]])

(* Entering a block leaves the nesting in order when the new call is.      *)
LEMMA OpenNested ==
  ASSUME IInv, IInv', PosGrow, NEW D, NEW E, NEW A, NEW B, Nested(D, A),
         Certified(E)', Extends(D, E), Blocks \subseteq Blocks', Opens,
         NEW n, Len(frames) = n, SameUpTo(n, A, B), LabelsStay(n),
         Pushed(E, A, B, n), Inner(E, B[n + 1])'
  PROVE  Nested(E, B)'
<1>1. /\ status = "visit"
      /\ status' = "visit"
      /\ Len(frames') = n + 1
      /\ KeepsFrames(n)
      /\ frames'[n + 1].pos >= Frame.pos
      /\ KeepsBelow(frames'[n + 1].pos)
  BY DEF Opens
<1>2. /\ n \in Nat \ {0}
      /\ VFrame = vctrl[n]
      /\ Frame = frames[n]
      /\ \A i \in 1 .. n : frames[i].pos \in Nat
  BY <1>1, NestFacts
<1>3. frames'[n + 1].pos \in Nat
  BY <1>1, <1>2, PosTypesNext
<1>4. \A i \in 1 .. n : frames[i].pos <= frames'[n + 1].pos
  <2>1. \A i \in 1 .. n : frames[i].pos <= frames[n].pos
    BY <1>2 DEF PosGrow
  <2> QED
    BY <1>1, <1>2, <1>3, <2>1
<1>5. Chain(E, Blocks', B, n, frames', vctrl', blockStack', stack')
  <2>1. BelowStays(n) /\ SameUpTo(n, A, B)
    BY <1>1 DEF BelowStays, LabelsStay
  <2>2. n \in Nat /\ n <= Len(frames)
    BY <1>2
  <2> QED
    BY <1>1, <1>3, <1>4, <2>1, <2>2, NestedBelow
<1>6. \A b \in Blocks' : b \in E[b] /\ \A d \in E[b] : E[d] \subseteq E[b]
  BY DEF Certified
<1>7. vctrl'[n + 1].height - vctrl'[n].height = vctrl'[n + 1].height - VFrame.height
  BY <1>1, <1>2 DEF KeepsFrames
<1>8. /\ B[n] \in E[B[n + 1]]
      /\ B[n + 1] \in Blocks'
      /\ Level(E, B[n + 1], frames'[n + 1], blockStack'[n + 1].target)
      /\ Tops(stack', frames'[n + 1].pos, vctrl'[n + 1].height - VFrame.height,
              E[B[n + 1]])
  BY <1>2 DEF Pushed, SameUpTo
<1>9. Chain(E, Blocks', B, n + 1, frames', vctrl', blockStack', stack')
  BY <1>2, <1>5, <1>6, <1>7, <1>8, ChainMore
<1> QED
  BY <1>1, <1>9, NestedNext

(* The innermost block is left.                                            *)
LEMMA CloseNested ==
  ASSUME IInv, PosGrow, NEW D, NEW A, Nested(D, A), Blocks' = Blocks, Closes,
         NEW n, Len(frames) = n,
         \A i \in 1 .. n - 1 : blockStack'[i] = blockStack[i],
         Inner(D, A[n - 1])'
  PROVE  Nested(D, A)'
<1>1. /\ status = "visit"
      /\ Len(frames') = n - 1
      /\ KeepsFrames(n - 1)
      /\ KeepsBelow(Frame.pos)
      /\ n > 1
  BY DEF Closes
<1>2. /\ n \in Nat \ {0}
      /\ Frame.pos \in Nat
      /\ \A i \in 1 .. n : frames[i].pos <= Frame.pos
  <2>1. /\ n \in Nat \ {0} /\ Frame = frames[n]
        /\ frames[n].pos \in Nat
    BY <1>1, NestFacts
  <2> QED
    BY <2>1 DEF PosGrow
<1> DEFINE k == n - 1
<1>3. k \in Nat /\ k <= n /\ \A i \in 1 .. k : i \in 1 .. n
  BY <1>2
<1>4. Len(frames') = k /\ BelowStays(k) /\ SameUpTo(k, A, A)
  BY <1>1 DEF BelowStays, SameUpTo
<1>5. Inner(D, A[k])'
  OBVIOUS
<1> HIDE DEF k
<1>6. Chain(D, Blocks', A, k, frames', vctrl', blockStack', stack')
  <2>1. Extends(D, D) /\ Blocks \subseteq Blocks'
    BY DEF Extends
  <2> QED
    BY <1>1, <1>2, <1>3, <1>4, <2>1, NestedBelow
<1> QED
  BY <1>4, <1>5, <1>6, NestedNext

(* The then arm is left for the else arm.                                  *)
LEMMA TurnNested ==
  ASSUME IInv, PosGrow, NEW D, NEW A, Nested(D, A), Certified(D), Blocks' = Blocks,
         Turns, UNCHANGED blockStack, NEW n, Len(frames) = n,
         frames'[n].exit = Frame.exit, Inner(D, A[n])'
  PROVE  Nested(D, A)'
<1>1. /\ status = "visit"
      /\ Len(frames') = n
      /\ KeepsFrames(n - 1)
      /\ KeepsBelow(Frame.pos)
      /\ frames'[n].pos = Frame.pos
      /\ frames'[n].lty = "Else"
      /\ Frame.lty = "If"
      /\ vctrl'[n].height = VFrame.height
  BY DEF Turns
<1>2. /\ n \in Nat \ {0}
      /\ Frame = frames[n]
      /\ VFrame = vctrl[n]
      /\ Frame.pos \in Nat
      /\ \A i \in 1 .. n : frames[i].pos <= Frame.pos
      /\ \A i \in 1 .. n : frames[i].pos \in Nat /\ vctrl[i].height \in Nat
  <2>1. /\ n \in Nat \ {0} /\ Frame = frames[n]
        /\ VFrame = vctrl[n]
        /\ \A i \in 1 .. n : frames[i].pos \in Nat /\ vctrl[i].height \in Nat
    BY <1>1, NestFacts
  <2> QED
    BY <2>1 DEF PosGrow
<1>3. n > 1
  <2>1. FrameOK(n) /\ Frame = frames[n]
    BY <1>1, FrameFacts
  <2> QED
    BY <1>1, <1>2, <2>1 DEF FrameOK
<1> DEFINE k == n - 1
<1>4. /\ k \in Nat \ {0} /\ k <= n /\ n = k + 1
      /\ \A i \in 1 .. k : i \in 1 .. n
  BY <1>2, <1>3
<1>5. KeepsFrames(k) /\ BelowStays(k) /\ SameUpTo(k, A, A)
  BY <1>1 DEF BelowStays, SameUpTo
<1> HIDE DEF k
<1>6. Chain(D, Blocks', A, k, frames', vctrl', blockStack', stack')
  <2>1. Extends(D, D) /\ Blocks \subseteq Blocks'
    BY DEF Extends
  <2> QED
    BY <1>1, <1>2, <1>4, <1>5, <2>1, NestedBelow
<1>7. Chain(D, Blocks, A, n, frames, vctrl, blockStack, stack)
  BY <1>1 DEF Nested
<1>8. \A b \in Blocks' : b \in D[b] /\ \A d \in D[b] : D[d] \subseteq D[b]
  BY DEF Certified
<1>9. A[k + 1] \in Blocks' /\ A[k] \in D[A[k + 1]]
  BY <1>2, <1>4, <1>7 DEF Chain
<1>10. Level(D, A[k + 1], frames'[k + 1], blockStack'[k + 1].target)
  <2>1. Level(D, A[n], frames[n], blockStack[n].target)
    BY <1>2, <1>7 DEF Chain
  <2>2. frames[n].lty # "Loop" /\ frames'[n].lty # "Loop" /\ frames'[n].lty # "If"
    BY <1>1, <1>2
  <2>3. frames'[n].exit = frames[n].exit
    BY <1>2
  <2>4. Level(D, A[n], frames'[n], blockStack[n].target)
    BY <2>1, <2>2, <2>3 DEF Level
  <2> QED
    BY <1>4, <2>4
<1>11. Tops(stack', frames'[k + 1].pos, vctrl'[k + 1].height - vctrl'[k].height,
            D[A[k + 1]])
  <2> DEFINE p == frames[n].pos
             c == vctrl[n].height - vctrl[k].height
             X == D[A[n]]
  <2>1. /\ n \in 1 .. n /\ k \in 1 .. n /\ k \in 1 .. n - 1
    BY <1>2, <1>4
  <2>2. Tops(stack, p, c, X)
    BY <1>4, <1>7, <2>1 DEF Chain
  <2>3. p \in Int /\ c \in Int
    BY <1>2, <2>1
  <2>4. c <= p
    <3>1. vctrl[k + 1].height - vctrl[k].height <= frames[k + 1].pos - frames[k].pos
      BY <1>1, <2>1 DEF IInv, HeightsOK
    <3> QED
      BY <1>2, <1>4, <2>1, <3>1
  <2>5. \A j \in 1 .. p : stack'[j] = stack[j]
    BY <1>1, <1>2 DEF KeepsBelow
  <2>6. /\ frames'[k + 1].pos = p
        /\ vctrl'[k + 1].height - vctrl'[k].height = c
        /\ D[A[k + 1]] = X
    BY <1>1, <1>2, <1>4, <1>5 DEF KeepsFrames
  <2> HIDE DEF p, c, X
  <2>7. Tops(stack', p, c, X)
    BY <2>2, <2>3, <2>4, <2>5, TopsKept
  <2> QED
    BY <2>6, <2>7
<1>12. Chain(D, Blocks', A, k + 1, frames', vctrl', blockStack', stack')
  BY <1>4, <1>6, <1>8, <1>9, <1>10, <1>11, ChainMore
<1> QED
  BY <1>1, <1>4, <1>12, NestedNext

-----------------------------------------------------------------------------
(* Operands taken and given.                                               *)

(* The n uppermost operands are replaced by others.                        *)
LEMMA TopsReplaced ==
  ASSUME NEW s \in Seq(Value), NEW u \in Seq(Value), NEW n \in Nat, NEW c \in Nat,
         n <= c, c <= Len(s), NEW X, Tops(s, Len(s), c, X),
         \A i \in 1 .. Len(u) : u[i].blk \in X
  PROVE  LET t == DropLast(s, n) \o u
         IN  /\ Len(t) = Len(s) - n + Len(u)
             /\ Tops(t, Len(t), c - n + Len(u), X)
<1> DEFINE k == DropLast(s, n)
           t == k \o u
<1> SUFFICES ASSUME NEW l, l = Len(s), NEW h, h = l - n, NEW r, r = Len(u),
                    NEW d, d = c - n
             PROVE  Len(t) = h + r /\ Tops(t, Len(t), d + r, X)
  OBVIOUS
<1>1. l \in Nat /\ h \in Nat /\ r \in Nat /\ d \in Nat /\ d <= h /\ n <= Len(s)
  OBVIOUS
<1>2. /\ k \in Seq(Value)
      /\ Len(k) = h
      /\ \A i \in 1 .. h : k[i] = s[i]
  BY <1>1, DropLastFacts
<1>3. u \in Seq(Value) /\ Len(u) = r
  OBVIOUS
<1> HIDE DEF k
<1>4. /\ Len(t) = h + r
      /\ \A i \in 1 .. Len(k) + Len(u) :
           t[i] = IF i <= Len(k) THEN k[i] ELSE u[i - Len(k)]
  BY <1>2, <1>3, ConcatProperties, ZenonT(40)
<1>5. \A i \in 1 .. h + r : t[i] = IF i <= h THEN k[i] ELSE u[i - h]
  BY <1>2, <1>3, <1>4
<1> HIDE DEF t
<1>6. \A j \in 1 .. h : t[j] = s[j]
  BY <1>1, <1>2, <1>5
<1>7. Tops(s, h, d, X)
  <2>1. /\ l \in Int /\ c \in Int /\ h \in Int /\ d \in Int
        /\ h <= l /\ l - h = c - d
        /\ Tops(s, l, c, X)
    BY <1>1
  <2> QED
    BY <2>1, TopsUnder
<1>8. Tops(t, h, d, X)
  <2>1. h \in Int /\ d \in Int /\ d <= h
    BY <1>1
  <2> QED
    BY <1>6, <1>7, <2>1, TopsKept
<1>9. ASSUME NEW j \in 1 .. r
      PROVE  t[h + r + 1 - j].blk \in X
  <2>1. /\ r + 1 - j \in 1 .. r
        /\ h + r + 1 - j \in 1 .. h + r
        /\ ~ (h + r + 1 - j <= h)
        /\ h + r + 1 - j - h = r + 1 - j
    BY <1>1
  <2>2. t[h + r + 1 - j] = u[r + 1 - j]
    BY <1>5, <2>1, SMTT(30)
  <2> QED
    BY <2>1, <2>2
<1>10. Tops(t, h + r, r, X)
  BY <1>9 DEF Tops
<1>11. Tops(t, h + r, d + r, X)
  <2>1. h + r \in Int /\ d + r \in Int /\ h \in Int /\ d \in Int /\ r \in Nat
    BY <1>1
  <2> QED
    BY <1>8, <1>10, <2>1, TopsOnto
<1> QED
  BY <1>4, <1>11

(* The topmost operand is taken.                                           *)
LEMMA TopsDropped ==
  ASSUME NEW s \in Seq(Value), NEW c \in Nat, 1 <= c, c <= Len(s), NEW X,
         Tops(s, Len(s), c, X)
  PROVE  /\ Drop1(s) \in Seq(Value)
         /\ Len(Drop1(s)) = Len(s) - 1
         /\ Tops(Drop1(s), Len(s) - 1, c - 1, X)
<1>1. /\ Drop1(s) \in Seq(Value)
      /\ Len(Drop1(s)) = Len(s) - 1
      /\ \A i \in 1 .. Len(s) - 1 : Drop1(s)[i] = s[i]
  BY Drop1Facts
<1> DEFINE l == Len(s)
           h == l - 1
           d == c - 1
           t == Drop1(s)
<1>2. /\ l \in Int /\ c \in Int /\ h \in Int /\ d \in Int
      /\ d <= h /\ h <= l /\ l - h = c - d
      /\ Tops(s, l, c, X)
      /\ \A i \in 1 .. h : t[i] = s[i]
  BY <1>1, SMTT(30)
<1> HIDE DEF l, h, d, t
<1>3. Tops(s, h, d, X)
  BY <1>2, TopsUnder
<1>4. Tops(t, h, d, X)
  BY <1>2, <1>3, TopsKept
<1> QED
  BY <1>1, <1>4 DEF l, h, d, t

-----------------------------------------------------------------------------
(* The steps.                                                              *)

(* What holds at a place of the program that is reached.                   *)
LEMMA InnerFacts ==
  ASSUME IInv, Reachable, NEW D, NEW A, DomInv(D, A)
  PROVE  /\ status = "visit"
         /\ ins \in Blocks
         /\ ins \in D[ins]
         /\ A[Len(frames)] \in D[ins]
         /\ A[Len(frames)] \in Blocks
         /\ VAvailable \in Nat
         /\ VAvailable <= Len(stack)
         /\ Tops(stack, Len(stack), VAvailable, D[ins])
<1>1. /\ status = "visit"
      /\ ins \in Blocks
      /\ ins # 0
      /\ VAvailable \in Nat
      /\ VAvailable <= Len(stack)
  <2>1. Frame.pos \in Nat /\ VAvailable \in Nat /\ Len(stack) - Frame.pos >= VAvailable
        /\ Len(stack) \in Nat
    BY ReachableFacts
  <2> QED
    BY <2>1, ReachableFacts DEF Reachable
<1>2. Len(frames) \in Nat \ {0}
  BY <1>1, FrameFacts
<1>3. /\ Chain(D, Blocks, A, Len(frames), frames, vctrl, blockStack, stack)
      /\ Inner(D, A[Len(frames)])
  BY <1>1 DEF DomInv, Nested
<1>4. A[Len(frames)] \in Blocks
  BY <1>2, <1>3 DEF Chain
<1> QED
  BY <1>1, <1>3, <1>4 DEF Inner, DomInv, Certified

(* A plain expression.                                                     *)
LEMMA PlainDominates ==
  ASSUME IInv, PosGrow, NEW D, NEW A, DomInv(D, A),
         NEW e \in Supported, PlainExpr(e)
  PROVE  DomInv(D, A)'
<1>1. Stays
  BY PlainShape
<1> DEFINE eff == dispatchExprs[e]
           np == wasmType[e].params
           nr == wasmType[e].results
<1>2. /\ e \in DOMAIN dispatchExprs
      /\ eff.need \in Nat
      /\ eff.pop \in Nat
      /\ eff.push \in Nat
      /\ eff.pop <= eff.need
      /\ np \in Nat
      /\ nr \in Nat
      /\ eff.need = np
      /\ eff.push - eff.pop = nr - np
  BY SupportedKeepStep, EffectFacts
<1>3. /\ Reachable
      /\ ins \in Nat
      /\ stack \in Seq(Value)
      /\ exprs + 1 \in Nat
      /\ VPlain(np, nr)
      /\ Dispatch(e, exprs + 1)
  <2>1. TypeOK
    BY DEF IInv
  <2>2. ins \in Nat /\ stack \in Seq(Value) /\ exprs \in Nat
    BY <2>1 DEF TypeOK
  <2>3. VPlain(np, nr) /\ Dispatch(e, exprs + 1)
    BY Zenon DEF PlainExpr
  <2>4. Reachable
    BY <2>3, Zenon DEF Dispatch
  <2> QED
    BY <2>2, <2>3, <2>4
<1> DEFINE pop == eff.pop
           push == eff.push
           new == [i \in 1 .. push |-> Inst(ins, exprs + 1)]
<1> HIDE DEF eff, np, nr
<1>4. /\ status = "visit"
      /\ ins \in D[ins]
      /\ A[Len(frames)] \in D[ins]
      /\ VAvailable \in Nat
      /\ VAvailable <= Len(stack)
      /\ Tops(stack, Len(stack), VAvailable, D[ins])
      /\ Certified(D) /\ Flows(D) /\ Nested(D, A)
  BY <1>3, InnerFacts DEF DomInv
<1>5. /\ VAvailable >= np
      /\ VAvailable' = VAvailable - np + nr
  BY <1>2, <1>3, <1>4, VPlainFacts
<1>6. ~ (Len(stack) < eff.need)
  BY <1>2, <1>3, <1>4, <1>5
<1>7. /\ stack' = DropLast(stack, pop) \o new
      /\ UNCHANGED <<preds, phis, term, ins, blockStack, brt>>
  BY <1>2, <1>3, <1>6 DEF Dispatch, Requires, eff
<1>8. new \in Seq(Value) /\ Len(new) = push
  BY <1>2, <1>3, ResultsFacts
<1>9. \A i \in 1 .. push : new[i].blk = ins
  BY DEF Inst
<1> HIDE DEF new
<1>10. pop \in Nat /\ push \in Nat /\ pop <= VAvailable
       /\ VAvailable' = VAvailable - pop + push
  BY <1>2, <1>4, <1>5, SMTT(30)
<1> HIDE DEF pop, push
<1>11. Tops(stack', Len(stack'), VAvailable', D[ins])
  <2> DEFINE X == D[ins]
             c == VAvailable
             t == DropLast(stack, pop) \o new
  <2>1. /\ stack \in Seq(Value) /\ new \in Seq(Value)
        /\ pop \in Nat /\ c \in Nat /\ pop <= c /\ c <= Len(stack)
        /\ Tops(stack, Len(stack), c, X)
        /\ \A i \in 1 .. Len(new) : new[i].blk \in X
    BY <1>3, <1>4, <1>8, <1>9, <1>10
  <2> HIDE DEF X, c
  <2>2. Tops(t, Len(t), c - pop + Len(new), X)
    BY <2>1, TopsReplaced
  <2> QED
    BY <1>7, <1>8, <1>10, <2>2 DEF X, c
<1>12. Certified(D)' /\ Flows(D)'
  BY <1>4, <1>7, SameGraphFlows
<1> SUFFICES ASSUME NEW n, Len(frames) = n
             PROVE  DomInv(D, A)'
  OBVIOUS
<1>13. A[n] \in D[ins'] /\ brt' = brt /\ brt = 0 /\ ins' = ins
  BY <1>3, <1>4, <1>7 DEF Reachable, Visiting
<1>14. Len(frames) = n /\ Blocks \subseteq Blocks' /\ Extends(D, D)
  BY <1>7 DEF Blocks, Extends
<1>15. Inner(D, A[n])'
  BY <1>11, <1>13 DEF Inner
<1>16. Nested(D, A)'
  BY <1>1, <1>4, <1>7, <1>14, <1>15, StayNested
<1> QED
  BY <1>12, <1>16 DEF DomInv

(* A step behind which no code is reached.                                 *)
LEMMA UnreachedDominates ==
  ASSUME IInv, PosGrow, status = "visit", NEW D, NEW A, DomInv(D, A),
         Certified(D)', Flows(D)', Len(term') = Len(term),
         Stays, UNCHANGED blockStack, ins' = 0,
         brt' # 0 => /\ A[Len(frames)] \in D[brt']
                     /\ Tops(stack', Len(stack'), varity', D[brt'])
  PROVE  DomInv(D, A)'
<1> SUFFICES ASSUME NEW n, Len(frames) = n
             PROVE  DomInv(D, A)'
  OBVIOUS
<1>1. Len(frames) = n /\ Blocks \subseteq Blocks' /\ Extends(D, D)
  BY DEF Blocks, Extends
<1>2. /\ brt' # 0 => A[n] \in D[brt']
      /\ brt' # 0 => Tops(stack', Len(stack'), varity', D[brt'])
  OBVIOUS
<1>3. Inner(D, A[n])'
  BY <1>2 DEF Inner, Reachable
<1>4. Nested(D, A)
  BY DEF DomInv
<1>5. Nested(D, A)'
  BY <1>1, <1>3, <1>4, StayNested
<1> QED
  BY <1>5 DEF DomInv

(* The target of a branch from a block behind the innermost call.          *)
LEMMA TargetReach ==
  ASSUME IInv, status = "visit", NEW D, NEW A, DomInv(D, A),
         NEW l \in VDepths, NEW from \in Blocks, A[Len(frames)] \in D[from]
  PROVE  LET b == Target(l).target
         IN  b \in Blocks /\ D[b] \ {b} \subseteq D[from]
<1> DEFINE b == Target(l).target
           n == Len(frames)
           i == n - l
<1>1. /\ n \in Nat \ {0}
      /\ Len(vctrl) = n
      /\ Len(blockStack) = n
  BY FrameFacts, VFrameFacts
<1>2. i \in 1 .. n /\ n \in i .. n /\ b = blockStack[i].target
  BY <1>1 DEF VDepths, Target
<1>3. Chain(D, Blocks, A, n, frames, vctrl, blockStack, stack)
  BY DEF DomInv, Nested
<1> HIDE DEF b, n, i
<1>4. /\ A[i] \in D[A[n]]
      /\ A[n] \in Blocks
      /\ D[b] \ {b} \subseteq D[A[i]]
  <2>1. n \in 1 .. n
    BY <1>1
  <2>2. A[i] \in D[A[n]] /\ A[n] \in Blocks
    BY <1>2, <1>3, <2>1 DEF Chain
  <2>3. Level(D, A[i], frames[i], b)
    BY <1>2, <1>3 DEF Chain
  <2> QED
    BY <2>2, <2>3 DEF Level
<1>5. D[A[i]] \subseteq D[A[n]] /\ D[A[n]] \subseteq D[from]
  BY <1>4 DEF DomInv, Certified, n
<1>6. b \in Blocks
  BY TargetFacts DEF b
<1> QED
  BY <1>4, <1>5, <1>6 DEF b

(* br and return.                                                          *)
LEMMA BrDominates ==
  ASSUME IInv, PosGrow, PhiArity, NEW D, NEW A, DomInv(D, A),
         NEW l \in VDepths, Br(l), VBranch(l, 0)
  PROVE  DomInv(D, A)'
<1> DEFINE b == Target(l).target
<1>1. Reachable
  BY DEF Br
<1>2. /\ status = "visit"
      /\ ins \in Blocks
      /\ A[Len(frames)] \in D[ins]
      /\ VAvailable \in Nat
      /\ VAvailable <= Len(stack)
      /\ Tops(stack, Len(stack), VAvailable, D[ins])
  BY <1>1, InnerFacts
<1>3. /\ VArity(l) \in Nat
      /\ VAvailable >= VArity(l)
      /\ Len(phis[b]) = VArity(l)
      /\ b \in Blocks
      /\ D[b] \ {b} \subseteq D[ins]
  BY <1>2, VBranchFacts, TargetFacts, TargetReach
<1>4. /\ Len(phis[b]) <= Len(stack)
      /\ stack \in Seq(Value)
      /\ TypeOK
      /\ Len(phis[b]) \in Nat
      /\ Len(phis[b]) <= VAvailable
  BY <1>1, <1>2, <1>3, ReachableFacts DEF IInv
<1>5. /\ preds' = PredsWith(b, ins)
      /\ phis' = PhisWith(b, stack, ins)
      /\ term' = Terminated(ins, "br")
      /\ ins' = 0
      /\ UNCHANGED <<blockStack, brt>>
  BY <1>4 DEF Br, Requires
<1>6. Len(term') = Len(term) /\ brt' = 0
  BY <1>1, <1>4, <1>5 DEF Terminated, TypeOK, Reachable, Visiting
<1>7. Tops(stack, Len(stack), Len(phis[b]), D[ins])
  BY <1>2, <1>4 DEF Tops
<1>8. Certified(D) /\ Flows(D)
  BY DEF DomInv
<1> HIDE DEF b
<1>9. Certified(D)' /\ Flows(D)'
  BY <1>2, <1>3, <1>4, <1>5, <1>6, <1>7, <1>8, BranchKeepsFlows
<1>10. Stays
  BY BrShape
<1> QED
  BY <1>2, <1>5, <1>6, <1>9, <1>10, UnreachedDominates

(* br_table, the default target.                                           *)
LEMMA BrTableDominates ==
  ASSUME IInv, PosGrow, PhiArity, NEW D, NEW A, DomInv(D, A),
         NEW l \in VDepths, BrTable(l), VBranch(l, 1)
  PROVE  DomInv(D, A)'
<1> DEFINE b == Target(l).target
<1>1. Reachable
  BY DEF BrTable
<1>2. /\ status = "visit"
      /\ ins \in Blocks
      /\ A[Len(frames)] \in D[ins]
      /\ VAvailable \in Nat
      /\ VAvailable <= Len(stack)
      /\ Tops(stack, Len(stack), VAvailable, D[ins])
  BY <1>1, InnerFacts
<1>3. /\ VArity(l) \in Nat
      /\ VAvailable >= VArity(l) + 1
      /\ Len(phis[b]) = VArity(l)
      /\ b \in Blocks
      /\ D[b] \ {b} \subseteq D[ins]
      /\ varity' = VArity(l)
  BY <1>2, VBranchFacts, TargetFacts, TargetReach DEF VBranch
<1>4. /\ 1 + Len(phis[b]) <= Len(stack)
      /\ stack \in Seq(Value)
      /\ Len(stack) \in Nat
      /\ TypeOK
      /\ Len(phis[b]) \in Nat
      /\ Len(phis[b]) + 1 <= VAvailable
  BY <1>1, <1>2, <1>3, ReachableFacts DEF IInv
<1>5. /\ preds' = PredsWith(b, ins)
      /\ phis' = PhisWith(b, Drop1(stack), ins)
      /\ term' = Terminated(ins, "switch")
      /\ ins' = 0
      /\ stack' = Drop1(stack)
      /\ brt' = ins
      /\ UNCHANGED blockStack
  BY <1>4 DEF BrTable, Requires
<1>6. Len(term') = Len(term)
  BY <1>4, <1>5 DEF Terminated, TypeOK
<1>7. /\ Drop1(stack) \in Seq(Value)
      /\ Len(Drop1(stack)) = Len(stack) - 1
      /\ Tops(Drop1(stack), Len(Drop1(stack)), Len(phis[b]), D[ins])
      /\ Len(phis[b]) <= Len(Drop1(stack))
  <2> DEFINE X == D[ins]
             c == VAvailable
  <2>1. c \in Nat /\ 1 <= c /\ c <= Len(stack) /\ Tops(stack, Len(stack), c, X)
    BY <1>2, <1>4
  <2> HIDE DEF X, c
  <2>2. /\ Drop1(stack) \in Seq(Value)
        /\ Len(Drop1(stack)) = Len(stack) - 1
        /\ Tops(Drop1(stack), Len(stack) - 1, c - 1, X)
    BY <1>4, <2>1, TopsDropped
  <2>3. Len(phis[b]) \in Int /\ c - 1 \in Int /\ Len(phis[b]) <= c - 1
    BY <1>2, <1>4 DEF c
  <2>4. Tops(Drop1(stack), Len(stack) - 1, Len(phis[b]), X)
    BY <2>2, <2>3, TopsFewer
  <2> QED
    BY <1>4, <2>2, <2>4 DEF X
<1>8. Certified(D) /\ Flows(D)
  BY DEF DomInv
<1> HIDE DEF b
<1>9. Certified(D)' /\ Flows(D)'
  BY <1>2, <1>3, <1>4, <1>5, <1>6, <1>7, <1>8, BranchKeepsFlows
<1>10. Stays
  BY BrTableShape
<1>11. /\ A[Len(frames)] \in D[brt']
       /\ Tops(stack', Len(stack'), varity', D[brt'])
  BY <1>2, <1>3, <1>5, <1>7
<1> QED
  BY <1>2, <1>5, <1>6, <1>9, <1>10, <1>11, UnreachedDominates

(* br_table, another target.                                               *)
LEMMA BrTableTargetDominates ==
  ASSUME IInv, PosGrow, PhiArity, TableWaits, NEW D, NEW A, DomInv(D, A),
         NEW l \in VDepths, BrTableTarget(l)
  PROVE  DomInv(D, A)'
<1> DEFINE b == Target(l).target
<1>1. /\ status = "visit"
      /\ brt # 0
      /\ VArity(l) = varity
      /\ BrTableCase(l)
      /\ TypeOK
  BY DEF BrTableTarget, BrTableCase, VBranchTarget, IInv
<1>2. /\ brt \in Blocks
      /\ ins = 0
  BY <1>1 DEF IInv, BlocksOK, Blocks
<1>3. /\ A[Len(frames)] \in D[brt]
      /\ Tops(stack, Len(stack), varity, D[brt])
  BY <1>1 DEF DomInv, Nested, Inner
<1>4. /\ b \in Blocks
      /\ D[b] \ {b} \subseteq D[brt]
      /\ Len(phis[b]) = varity
  BY <1>1, <1>2, <1>3, TargetFacts, TargetReach
<1>5. Len(phis[b]) <= Len(stack) /\ stack \in Seq(Value)
  BY <1>1, <1>4 DEF TableWaits, TypeOK
<1>6. /\ preds' = PredsWith(b, brt)
      /\ phis' = PhisWith(b, stack, ins)
      /\ UNCHANGED <<term, ins, blockStack>>
  BY <1>1, <1>5 DEF BrTableCase, TypeOK
<1>7. Certified(D) /\ Flows(D)
  BY DEF DomInv
<1>8. Len(term') = Len(term) /\ Tops(stack, Len(stack), Len(phis[b]), D[brt])
  BY <1>3, <1>4, <1>6
<1> HIDE DEF b
<1>9. Certified(D)' /\ Flows(D)'
  BY <1>1, <1>2, <1>4, <1>5, <1>6, <1>7, <1>8, BranchKeepsFlows
<1>10. Stays /\ UNCHANGED <<stack, varity, brt>>
  BY BrTableTargetShape
<1> QED
  BY <1>1, <1>2, <1>3, <1>6, <1>8, <1>9, <1>10, UnreachedDominates

(* The end of a switch, and unreachable.                                   *)
LEMMA BrTableDoneDominates ==
  ASSUME IInv, PosGrow, NEW D, NEW A, DomInv(D, A), BrTableDone
  PROVE  DomInv(D, A)'
<1>1. /\ status = "visit"
      /\ status' = status
      /\ ins = 0
      /\ ins' = 0
      /\ brt' = 0
      /\ UNCHANGED <<preds, phis, term, frames, vctrl, stack, blockStack>>
  BY DEF BrTableDone, BrTableEnd, vvars, IInv, BlocksOK
<1>2. Stays
  BY <1>1, UnreachedShape DEF Reachable
<1>3. Certified(D)' /\ Flows(D)'
  BY <1>1, SameGraphFlows DEF DomInv
<1> QED
  BY <1>1, <1>2, <1>3, UnreachedDominates

(* unreachable ends the block with no edge out of it.                      *)
LEMMA UnreachableDominates ==
  ASSUME IInv, PosGrow, NEW D, NEW A, DomInv(D, A), Unreachable
  PROVE  DomInv(D, A)'
<1>1. /\ status = "visit"
      /\ status' = status
      /\ ins' = 0
      /\ brt' = 0
      /\ UNCHANGED <<preds, phis, frames, vctrl, stack, blockStack>>
      /\ Len(term') = Len(term)
  BY DEF Unreachable, VisitUnreachable, Reachable, Visiting, vvars, IInv, TypeOK
<1>2. Stays
  BY <1>1, UnreachedShape DEF Reachable
<1>3. Certified(D)' /\ Flows(D)'
  BY <1>1, SameGraphFlows DEF DomInv
<1> QED
  BY <1>1, <1>2, <1>3, UnreachedDominates

(* Steps that change neither the graph nor the nesting.                    *)
LEMMA IdlesDominates ==
  ASSUME NEW D, NEW A, DomInv(D, A), UNCHANGED <<vars, vvars>>
  PROVE  DomInv(D, A)'
BY DEF DomInv, Certified, Flows, Blocks, Nested, Inner, Reachable, Visiting, VAvailable,
       VFrame, vars, vvars

(* The translation has stopped.                                            *)
LEMMA StoppedDominates ==
  ASSUME NEW D, NEW A, DomInv(D, A), status' # "visit",
         UNCHANGED <<preds, phis, term>>
  PROVE  DomInv(D, A)'
<1>1. Certified(D)' /\ Flows(D)'
  BY SameGraphFlows DEF DomInv
<1> QED
  BY <1>1 DEF DomInv, Nested

-----------------------------------------------------------------------------
(* Steps that append blocks.                                               *)

(* br_if goes on in a fresh block.                                         *)
LEMMA BrIfDominates ==
  ASSUME IInv, PosGrow, PhiArity, NEW D \in [Nat -> SUBSET Nat], NEW A, DomInv(D, A),
         NEW l \in VDepths, BrIf(l), VBranch(l, 1)
  PROVE  \E E \in [Nat -> SUBSET Nat] : DomInv(E, A)'
<1> SUFFICES ASSUME NEW n, Len(frames) = n, NEW len, len = Len(term),
                    NEW next, next = len + 1
             PROVE  \E E \in [Nat -> SUBSET Nat] : DomInv(E, A)'
  OBVIOUS
<1> DEFINE b == Target(l).target
<1>1. Reachable
  BY DEF BrIf
<1>2. /\ status = "visit"
      /\ ins \in Blocks
      /\ ins \in D[ins]
      /\ A[n] \in D[ins]
      /\ VAvailable \in Nat
      /\ VAvailable <= Len(stack)
      /\ Tops(stack, Len(stack), VAvailable, D[ins])
  BY <1>1, InnerFacts
<1>3. /\ VArity(l) \in Nat
      /\ VAvailable >= VArity(l) + 1
      /\ VAvailable' = VAvailable - 1
      /\ Len(phis[b]) = VArity(l)
      /\ b \in Blocks
      /\ D[b] \ {b} \subseteq D[ins]
  BY <1>2, VBranchFacts, TargetFacts, TargetReach
<1>4. /\ 1 + Len(phis[b]) <= Len(stack)
      /\ stack \in Seq(Value)
      /\ Len(stack) \in Nat
      /\ TypeOK
      /\ Len(phis[b]) \in Nat
      /\ Len(phis[b]) + 1 <= VAvailable
      /\ len \in Nat
  <2>1. len \in Nat /\ TypeOK /\ stack \in Seq(Value) /\ Len(stack) \in Nat
    BY ReachableFacts, <1>1 DEF IInv, TypeOK
  <2> QED
    BY <1>2, <1>3, <2>1
<1>5. /\ preds' = Append(PredsWith(b, ins), <<ins>>)
      /\ phis' = Append(PhisWith(b, Drop1(stack), ins), << >>)
      /\ term' = Append(Terminated(ins, "condbr"), "none")
      /\ ins' = len + 1
      /\ stack' = Drop1(stack)
      /\ UNCHANGED <<blockStack, brt>>
  BY <1>4 DEF BrIf, Requires
<1>6. Len(term') = len + 1
  BY <1>4, <1>5 DEF Terminated, TypeOK
<1>7. /\ Drop1(stack) \in Seq(Value)
      /\ Len(Drop1(stack)) = Len(stack) - 1
      /\ Tops(Drop1(stack), Len(Drop1(stack)), VAvailable - 1, D[ins])
      /\ Tops(Drop1(stack), Len(Drop1(stack)), Len(phis[b]), D[ins])
      /\ Len(phis[b]) <= Len(Drop1(stack))
  <2> DEFINE X == D[ins]
             c == VAvailable
  <2>1. c \in Nat /\ 1 <= c /\ c <= Len(stack) /\ Tops(stack, Len(stack), c, X)
    BY <1>2, <1>4
  <2> HIDE DEF X, c
  <2>2. /\ Drop1(stack) \in Seq(Value)
        /\ Len(Drop1(stack)) = Len(stack) - 1
        /\ Tops(Drop1(stack), Len(stack) - 1, c - 1, X)
    BY <1>4, <2>1, TopsDropped
  <2>3. Len(phis[b]) \in Int /\ c - 1 \in Int /\ Len(phis[b]) <= c - 1
    BY <1>2, <1>4 DEF c
  <2>4. Tops(Drop1(stack), Len(stack) - 1, Len(phis[b]), X)
    BY <2>2, <2>3, TopsFewer
  <2> QED
    BY <1>4, <2>2, <2>4 DEF X, c
<1>8. Certified(D) /\ Flows(D) /\ Nested(D, A)
  BY DEF DomInv
<1> HIDE DEF b
<1>9. \A c \in Blocks : InFlow(D, Blocks, c, PredsWith(b, ins)[c],
                               PhisWith(b, Drop1(stack), ins)[c])
  BY <1>2, <1>3, <1>4, <1>7, <1>8, BranchFlows
<1>10. /\ Len(preds) = len /\ Len(phis) = len
       /\ preds \in Seq(Seq(Nat)) /\ phis \in Seq(Seq(Seq(Incoming)))
       /\ Blocks = 1 .. len
  BY <1>4 DEF TypeOK, Blocks
<1>11. /\ \A c \in 1 .. len : preds'[c] = PredsWith(b, ins)[c]
       /\ preds'[len + 1] = <<ins>>
       /\ \A c \in 1 .. len : phis'[c] = PhisWith(b, Drop1(stack), ins)[c]
       /\ phis'[len + 1] = << >>
  <2>1. /\ PredsWith(b, ins) \in Seq(Seq(Nat))
        /\ Len(PredsWith(b, ins)) = len
    <3>1. ins \in Nat
      BY <1>2, <1>4, <1>10
    <3> QED
      BY <1>3, <1>10, <3>1, <1>4, PredsWithFacts
  <2>2. /\ PhisWith(b, Drop1(stack), ins) \in Seq(Seq(Seq(Incoming)))
        /\ Len(PhisWith(b, Drop1(stack), ins)) = len
    <3> DEFINE d == Drop1(stack)
    <3>1. /\ ins \in Nat
          /\ TypeOK
          /\ b \in Blocks
          /\ d \in Seq(Value)
          /\ Len(phis[b]) <= Len(d)
      BY <1>2, <1>3, <1>4, <1>7, <1>10
    <3> HIDE DEF d
    <3>2. /\ PhisWith(b, d, ins) \in Seq(Seq(Seq(Incoming)))
          /\ Len(PhisWith(b, d, ins)) = Len(term)
      BY <3>1, PhisWithFacts
    <3> QED
      BY <3>2 DEF d
  <2> DEFINE q == PredsWith(b, ins)
             r == PhisWith(b, Drop1(stack), ins)
  <2> HIDE DEF q, r
  <2>3. /\ \A c \in 1 .. len : Append(q, <<ins>>)[c] = q[c]
        /\ Append(q, <<ins>>)[len + 1] = <<ins>>
    BY <1>4, <2>1 DEF q
  <2>4. /\ \A c \in 1 .. len : Append(r, << >>)[c] = r[c]
        /\ Append(r, << >>)[len + 1] = << >>
    BY <1>4, <2>2 DEF r
  <2> QED
    BY <1>5, <2>3, <2>4 DEF q, r
<1> SUFFICES ASSUME NEW E, E = Grown(D, len, 1, D[ins])
             PROVE  E \in [Nat -> SUBSET Nat] /\ DomInv(E, A)'
  OBVIOUS
<1>12. /\ E \in [Nat -> SUBSET Nat]
       /\ \A x \in Blocks : E[x] = D[x]
       /\ E[next] = D[ins] \cup {next}
  <2>1. D[ins] \in SUBSET (1 .. len)
    BY <1>2, <1>8, <1>10 DEF Certified
  <2>2. next \in len + 1 .. len + 1
    BY <1>4
  <2>3. /\ E \in [Nat -> SUBSET Nat]
        /\ \A x \in 1 .. len : E[x] = D[x]
        /\ \A x \in len + 1 .. len + 1 : E[x] = D[ins] \cup {x}
    BY <1>4, <2>1, GrownFacts, SMTT(30)
  <2> QED
    BY <1>10, <2>2, <2>3
<1>13. Certified(E)'
  BY <1>2, <1>4, <1>6, <1>8, GrownCertified
<1>14. InFlow(E, 1 .. len + 1, next, preds'[next], phis'[next])
  <2>1. ins \in 1 .. len + 1
    BY <1>2, <1>4, <1>10
  <2>2. E[next] \ {next} \subseteq E[ins]
    BY <1>2, <1>12
  <2>3. \A k \in 1 .. Len(<< >>) : << >>[k][1].val.blk \in E[ins]
    OBVIOUS
  <2>4. InFlow(E, 1 .. len + 1, next, <<ins>>, << >>)
    BY <2>1, <2>2, <2>3, OneFlow
  <2> QED
    BY <1>11, <2>4
<1>15. Flows(E)'
  <2>1. \A c \in Blocks : InFlow(D, Blocks, c, preds'[c], phis'[c])
    BY <1>9, <1>10, <1>11
  <2>2. \A c \in Len(term) + 1 .. Len(term) + 1 :
          InFlow(E, 1 .. Len(term) + 1, c, preds'[c], phis'[c])
    <3>1. \A c \in len + 1 .. len + 1 : c = next
      BY <1>4
    <3> QED
      BY <1>14, <3>1
  <2> QED
    BY <1>2, <1>4, <1>6, <1>8, <2>1, <2>2, GrownFlows
<1>16. Stays
  BY BrIfShape
<1>17. /\ A[n] \in E[ins']
       /\ brt' = 0
       /\ Len(frames) = n
       /\ Tops(stack', Len(stack'), VAvailable', E[ins'])
  <2>1. brt' = 0
    BY <1>1, <1>5 DEF Reachable, Visiting
  <2>2. Tops(stack', Len(stack'), VAvailable', E[ins'])
    BY <1>3, <1>5, <1>7, <1>12 DEF Tops
  <2> QED
    BY <1>2, <1>5, <1>12, <2>1, <2>2
<1>18. Inner(E, A[n])'
  BY <1>17 DEF Inner
<1>19. Blocks \subseteq Blocks' /\ Extends(D, E)
  BY <1>4, <1>6, <1>12 DEF Blocks, Extends
<1>20. Nested(E, A)'
  BY <1>5, <1>8, <1>12, <1>16, <1>18, <1>19, StayNested
<1> QED
  BY <1>12, <1>13, <1>15, <1>20 DEF DomInv

(* The last of one more.                                                   *)
LEMMA AppendAt ==
  ASSUME NEW S, NEW s \in Seq(S), NEW e, NEW t, t = Append(s, e),
         NEW n, n = Len(s)
  PROVE  /\ n \in Nat
         /\ Len(t) = n + 1
         /\ t[n + 1] = e
         /\ \A i \in 1 .. n : t[i] = s[i]
OBVIOUS

(* A label more leaves the ones below it where they are.                   *)
LEMMA LabelAppended ==
  ASSUME TypeOK, NEW l, blockStack' = Append(blockStack, l)
  PROVE  /\ blockStack'[Len(blockStack) + 1] = l
         /\ \A i \in 1 .. Len(blockStack) : blockStack'[i] = blockStack[i]
<1>1. blockStack \in Seq([target : Nat, pos : Nat])
  BY DEF TypeOK
<1> QED
  BY <1>1

(* The blocks of n calls, and block x for one more.                        *)
LEMMA OneMoreCall ==
  ASSUME NEW A \in [Nat -> Nat], NEW n \in Nat, NEW x \in Nat
  PROVE  \E B \in [Nat -> Nat] : SameUpTo(n, A, B) /\ B[n + 1] = x
<1> DEFINE C == [A EXCEPT ![n + 1] = x]
<1>1. C \in [Nat -> Nat] /\ (\A i \in 1 .. n : C[i] = A[i]) /\ C[n + 1] = x
  OBVIOUS
<1> QED
  BY <1>1 DEF SameUpTo

(* What is on the stacks of the nesting.                                   *)
LEMMA NestTypes ==
  ASSUME IInv, status = "visit"
  PROVE  /\ TypeOK
         /\ Len(frames) \in Nat \ {0}
         /\ blockStack \in Seq([target : Nat, pos : Nat])
         /\ Len(blockStack) = Len(frames)
         /\ vctrl \in Seq(VFrameType)
         /\ Len(vctrl) = Len(frames)
         /\ VFrame.height \in Nat
         /\ vdepth \in Nat
         /\ VAvailable = vdepth - VFrame.height
         /\ Len(stack) \in Nat
<1>1. TypeOK
  BY DEF IInv
<1>2. Len(frames) \in Nat \ {0} /\ Len(blockStack) = Len(frames)
  BY FrameFacts
<1>3. Len(vctrl) = Len(frames) /\ VFrame.height \in Nat /\ vdepth \in Nat
  BY VFrameFacts, NestFacts
<1>4. VAvailable = vdepth - VFrame.height /\ Len(stack) \in Nat
  BY NestFacts
<1>5. blockStack \in Seq([target : Nat, pos : Nat])
  BY <1>1 DEF TypeOK
<1>6. vctrl \in Seq(VFrameType)
  BY VFrameFacts
<1> QED
  BY <1>1, <1>2, <1>3, <1>4, <1>5, <1>6

(* The operands left under a block that is entered.                        *)
LEMMA EnterHeights ==
  ASSUME IInv, Reachable, NEW kind \in Labels, NEW np \in Nat, NEW nr \in Nat,
         NEW k \in {0, 1}, VEnter(kind, np, nr, k)
  PROVE  /\ vctrl' = Append(vctrl, NewVFrame(kind, np, nr, k))
         /\ NewVFrame(kind, np, nr, k).height = vdepth - k - np
         /\ VAvailable' = np
         /\ k + np <= Len(stack)
BY OpenHeights

(* ... and they are defined where the block is entered.                    *)
LEMMA EnterTops ==
  ASSUME IInv, Reachable, NEW kind \in Labels, NEW np \in Nat, NEW nr \in Nat,
         NEW k \in {0, 1}, VEnter(kind, np, nr, k), NEW X,
         Tops(stack, Len(stack), VAvailable, X),
         NEW n, Len(frames) = n, NEW p, p = Len(stack) - k - np,
         \A j \in 1 .. p : stack'[j] = stack[j]
  PROVE  /\ VAvailable' = np
         /\ Tops(stack', p, vctrl'[n + 1].height - VFrame.height, X)
<1> SUFFICES ASSUME NEW h, h = Len(stack), NEW d, d = VAvailable,
                    NEW u, u = VFrame.height
             PROVE  /\ VAvailable' = np
                    /\ Tops(stack', p, vctrl'[n + 1].height - u, X)
  OBVIOUS
<1>1. /\ n \in Nat
      /\ vctrl \in Seq(VFrameType)
      /\ Len(vctrl) = n
      /\ h \in Nat /\ u \in Nat /\ vdepth \in Nat
      /\ d = vdepth - u
  BY ReachableFacts, NestTypes
<1> DEFINE v == NewVFrame(kind, np, nr, k)
<1>2. /\ vctrl' = Append(vctrl, v)
      /\ v.height = vdepth - k - np
      /\ VAvailable' = np
  BY EnterHeights, Zenon
<1>3. k + np <= h /\ d <= h
  <2>1. k + np <= Len(stack)
    BY EnterHeights, Zenon
  <2>2. VAvailable <= Len(stack) - Frame.pos /\ Frame.pos \in Nat
    BY ReachableFacts
  <2>3. k \in Nat
    OBVIOUS
  <2> QED
    BY <1>1, <2>1, <2>2, <2>3
<1> HIDE DEF v
<1>4. vctrl'[n + 1] = v
  BY <1>1, <1>2, AppendAt
<1> DEFINE c == vctrl'[n + 1].height - u
<1>5. c = vdepth - k - np - u
  BY <1>2, <1>4
<1> HIDE DEF c
<1>6. /\ h \in Int /\ d \in Int /\ p \in Int /\ c \in Int
      /\ p <= h /\ h - p = d - c /\ c <= p
      /\ Tops(stack, h, d, X)
  BY <1>1, <1>3, <1>5, SMTT(30)
<1>7. Tops(stack, p, c, X)
  <2>1. ASSUME NEW j \in 1 .. c
        PROVE  stack[p + 1 - j].blk \in X
    <3>1. j \in Int /\ 1 <= j /\ j <= c
      BY <1>6, Zenon, SMTT(20)
    <3>2. j + (h - p) \in 1 .. d /\ h + 1 - (j + (h - p)) = p + 1 - j
      BY <1>6, <3>1, SMTT(20)
    <3> QED
      BY <1>6, <3>2 DEF Tops
  <2> QED
    BY <2>1 DEF Tops
<1>8. Tops(stack', p, c, X)
  BY <1>6, <1>7, TopsKept
<1> QED
  BY <1>2, <1>8 DEF c

(* A block, loop or if is entered in x, with the insertion point behind x. *)
LEMMA EnterNested ==
  ASSUME IInv, IInv', PosGrow, Reachable, NEW D, NEW E, NEW A \in [Nat -> Nat],
         DomInv(D, A), Extends(D, E), Certified(E)',
         Blocks \subseteq Blocks', Opens,
         NEW kind \in Labels, NEW np \in Nat, NEW nr \in Nat, NEW k \in {0, 1},
         VEnter(kind, np, nr, k),
         NEW from \in Nat, NEW f \in FrameType, frames' = Call(from, f),
         f.pos = Len(stack) - k - np,
         NEW l \in [target : Nat, pos : Nat], blockStack' = Append(blockStack, l),
         NEW x \in Blocks', D[ins] \subseteq E[x], Level(E, x, f, l.target),
         brt' = 0, x \in E[ins'], Tops(stack', Len(stack'), np, E[ins'])
  PROVE  \E B \in [Nat -> Nat] : Nested(E, B)'
<1>1. /\ status = "visit"
      /\ Len(stack) \in Nat
      /\ TypeOK
      /\ Len(frames) \in Nat \ {0}
  BY ReachableFacts, NestTypes
<1>2. Tops(stack, Len(stack), VAvailable, D[ins]) /\ A[Len(frames)] \in D[ins]
  BY InnerFacts
<1>3. frames'[Len(frames) + 1] = f
  <2>1. Len(frames) > 0 /\ TypeOK
    BY <1>1
  <2> QED
    BY <2>1, CallFacts
<1>4. x \in Nat
  <2>1. TypeOK'
    BY DEF IInv
  <2> QED
    BY <2>1 DEF TypeOK, Blocks
<1> SUFFICES ASSUME NEW n, Len(frames) = n
             PROVE  \E B \in [Nat -> Nat] : Nested(E, B)'
  OBVIOUS
<1>5. PICK B \in [Nat -> Nat] : SameUpTo(n, A, B) /\ B[n + 1] = x
  <2>1. n \in Nat
    BY <1>1
  <2> QED
    BY <1>4, <2>1, OneMoreCall, ZenonT(40)
<1>6. (\A i \in 1 .. n : blockStack'[i] = blockStack[i]) /\ blockStack'[n + 1] = l
  <2>1. /\ blockStack'[Len(blockStack) + 1] = l
        /\ \A i \in 1 .. Len(blockStack) : blockStack'[i] = blockStack[i]
    BY <1>1, LabelAppended
  <2>2. Len(blockStack) = n
    BY <1>1, NestTypes
  <2> QED
    BY <2>1, <2>2
<1> DEFINE p == Len(stack) - k - np
           c == vctrl'[n + 1].height - VFrame.height
           X == D[ins]
<1>7. \A j \in 1 .. p : stack'[j] = stack[j]
  BY <1>3 DEF Opens, KeepsBelow
<1>8. VAvailable' = np /\ Tops(stack', p, c, X)
  BY <1>2, <1>7, EnterTops, ZenonT(40)
<1>9. Tops(stack', p, c, E[x])
  BY <1>8 DEF Tops
<1>10. frames'[n + 1].pos = p
  BY <1>3
<1>11. Level(E, B[n + 1], frames'[n + 1], blockStack'[n + 1].target)
  BY <1>3, <1>5, <1>6
<1>12. Inner(E, B[n + 1])'
  BY <1>5, <1>8 DEF Inner
<1>13. SameUpTo(n, A, B) /\ LabelsStay(n) /\ Nested(D, A)
  BY <1>5, <1>6 DEF SameUpTo, LabelsStay, DomInv
<1>14. Pushed(E, A, B, n)
  BY <1>2, <1>5, <1>9, <1>10, <1>11 DEF Pushed
<1>15. Nested(E, B)'
  BY <1>12, <1>13, <1>14, OpenNested
<1> QED
  BY <1>5, <1>15

(* What holds where a block, loop or if is entered.                        *)
LEMMA EnterBase ==
  ASSUME IInv, Reachable, NEW D, NEW A, DomInv(D, A)
  PROVE  /\ ins \in Blocks /\ ins \in Nat /\ Frame.entry = ins /\ brt = 0
         /\ TypeOK /\ Certified(D) /\ Flows(D)
         /\ ins \in D[ins]
         /\ VAvailable \in Nat
         /\ VAvailable <= Len(stack)
         /\ Len(stack) \in Nat
         /\ stack \in Seq(Value)
         /\ Frame.exit \in Nat
         /\ Tops(stack, Len(stack), VAvailable, D[ins])
<1>1. TypeOK
  BY DEF IInv
<1>2. /\ ins \in Blocks /\ ins \in Nat /\ Frame.entry = ins /\ brt = 0
      /\ status = "visit" /\ stack \in Seq(Value)
  BY ReachableFacts
<1>3. Frame.exit \in Nat
  <2>1. Frame.exit \in Blocks
    BY <1>2, FrameFacts
  <2> QED
    BY <1>1, <2>1 DEF Blocks, TypeOK
<1>4. /\ VAvailable \in Nat
      /\ VAvailable <= Len(stack)
      /\ ins \in D[ins]
      /\ Tops(stack, Len(stack), VAvailable, D[ins])
  BY InnerFacts
<1>5. Len(stack) \in Nat
  BY <1>2
<1> QED
  BY <1>1, <1>2, <1>3, <1>4, <1>5 DEF DomInv

(* E has dominators of k fresh blocks: what dominates the current one.     *)
Grows(D, E, k) == E = Grown(D, Len(term), k, D[ins])

(* What E says of the old blocks and of k fresh ones.                      *)
Fresh(D, E, k) ==
  /\ E \in [Nat -> SUBSET Nat]
  /\ Extends(D, E)
  /\ E[ins] = D[ins]
  /\ \A x \in Len(term) + 1 .. Len(term) + k : x \in Nat /\ E[x] = D[ins] \cup {x}

(* The dominators that Grows names are of that kind.                       *)
LEMMA FreshFacts ==
  ASSUME IInv, Reachable, NEW D \in [Nat -> SUBSET Nat], NEW A, DomInv(D, A),
         NEW k \in Nat, NEW E, Grows(D, E, k)
  PROVE  Fresh(D, E, k)
<1> DEFINE len == Len(term)
           X == D[ins]
<1>1. /\ TypeOK /\ Certified(D) /\ ins \in Blocks
      /\ len \in Nat /\ Blocks = 1 .. len
  BY EnterBase DEF TypeOK, Blocks
<1>2. X \in SUBSET (1 .. len) /\ E = Grown(D, len, k, X)
  BY <1>1 DEF Certified, Grows
<1> HIDE DEF len, X
<1>3. /\ E \in [Nat -> SUBSET Nat]
      /\ \A x \in 1 .. len : E[x] = D[x]
      /\ \A x \in len + 1 .. len + k : E[x] = X \cup {x}
  BY <1>1, <1>2, GrownFacts
<1>4. \A x \in len + 1 .. len + k : x \in Nat
  BY <1>1
<1>5. Extends(D, E) /\ E[ins] = D[ins]
  BY <1>1, <1>3 DEF Extends
<1> QED
  BY <1>3, <1>4, <1>5 DEF Fresh, len, X

(* A step adds k blocks, in flow, and touches no other block.              *)
GraphGrows(E, k) ==
  /\ Len(term') = Len(term) + k
  /\ \A c \in Blocks : preds'[c] = preds[c] /\ phis'[c] = phis[c]
  /\ \A c \in Len(term) + 1 .. Len(term) + k :
       InFlow(E, 1 .. Len(term) + k, c, preds'[c], phis'[c])

(* Such a step leaves the graph in flow.                                   *)
LEMMA OpenGraph ==
  ASSUME IInv, Reachable, NEW D \in [Nat -> SUBSET Nat], NEW A, DomInv(D, A),
         NEW k \in Nat, NEW E, Grows(D, E, k), GraphGrows(E, k)
  PROVE  Certified(E)' /\ Flows(E)' /\ Blocks \subseteq Blocks'
<1>1. /\ TypeOK /\ Certified(D) /\ Flows(D) /\ ins \in Blocks
      /\ E = Grown(D, Len(term), k, D[ins]) /\ Len(term') = Len(term) + k
  BY EnterBase DEF Grows, GraphGrows
<1>2. Certified(E)'
  BY <1>1, GrownCertified
<1>3. \A c \in Blocks : InFlow(D, Blocks, c, preds'[c], phis'[c])
  BY <1>1 DEF Flows, GraphGrows
<1>4. \A c \in Len(term) + 1 .. Len(term) + k :
        InFlow(E, 1 .. Len(term) + k, c, preds'[c], phis'[c])
  BY DEF GraphGrows
<1>5. Flows(E)'
  BY <1>1, <1>3, <1>4, GrownFlows
<1>6. Blocks \subseteq Blocks'
  <2>1. Len(term) \in Nat
    BY <1>1 DEF TypeOK
  <2> QED
    BY <1>1, <2>1 DEF Blocks
<1> QED
  BY <1>2, <1>5, <1>6

(* block: its exit is dominated by the block before it.                    *)
LEMMA BlockGrows ==
  ASSUME TypeOK, NEW np \in Nat, NEW nr \in Nat, EnterBlock(np, nr), NEW E
  PROVE  GraphGrows(E, 1)
<1> SUFFICES ASSUME NEW len, len = Len(term)
             PROVE  GraphGrows(E, 1)
  OBVIOUS
<1>1. /\ preds' = Append(preds, << >>)
      /\ phis' = Append(phis, EmptyPhis(nr))
      /\ term' = Append(term, "none")
  BY DEF EnterBlock
<1>2. /\ preds \in Seq(Seq(Nat)) /\ phis \in Seq(Seq(Seq(Incoming)))
      /\ Len(preds) = len /\ Len(phis) = len
      /\ term \in Seq(Terminators) /\ len \in Nat
      /\ Blocks = 1 .. len
  BY DEF TypeOK, Blocks
<1>3. /\ \A c \in 1 .. len : preds'[c] = preds[c]
      /\ preds'[len + 1] = << >>
  BY <1>1, <1>2
<1>4. \A c \in 1 .. len : phis'[c] = phis[c]
  BY <1>1, <1>2
<1>5. Len(term') = len + 1
  BY <1>1, <1>2
<1>6. ASSUME NEW c \in len + 1 .. len + 1
      PROVE  InFlow(E, 1 .. len + 1, c, preds'[c], phis'[c])
  <2>1. preds'[c] = << >>
    BY <1>2, <1>3
  <2> QED
    BY <2>1, NoFlow
<1> QED
  BY <1>2, <1>3, <1>4, <1>5, <1>6 DEF GraphGrows

(* After a block expression there are dominators again.                    *)
LEMMA BlockDominates ==
  ASSUME IInv, IInv', PosGrow, NEW D \in [Nat -> SUBSET Nat],
         NEW A \in [Nat -> Nat], DomInv(D, A), NEW np \in Nat, NEW nr \in Nat,
         EnterBlock(np, nr), VEnter("Block", np, nr, 0)
  PROVE  DominatorsExist'
<1> SUFFICES ASSUME NEW exit, exit = Len(term) + 1,
                    NEW E, Grows(D, E, 1)
             PROVE  DominatorsExist'
  BY DEF Grows
<1> DEFINE pos == Len(stack) - np
           f == [lty |-> "Block", entry |-> Frame.entry, exit |-> exit,
                 pos |-> pos, results |-> nr, saved |-> << >>, else |-> 0]
           l == [target |-> exit, pos |-> pos]
<1>1. /\ Reachable
      /\ ins' = Frame.entry
      /\ frames' = Call(Frame.entry, f)
      /\ blockStack' = Append(blockStack, l)
      /\ UNCHANGED <<stack, brt>>
  BY DEF EnterBlock, PosUnder
<1>2. /\ ins \in Blocks /\ ins \in Nat /\ Frame.entry = ins /\ brt = 0
      /\ TypeOK
      /\ ins \in D[ins]
      /\ VAvailable \in Nat
      /\ VAvailable <= Len(stack)
      /\ Len(stack) \in Nat
      /\ Tops(stack, Len(stack), VAvailable, D[ins])
  BY <1>1, EnterBase
<1>3. Fresh(D, E, 1)
  BY <1>1, FreshFacts
<1>4. /\ E \in [Nat -> SUBSET Nat] /\ Extends(D, E) /\ E[ins] = D[ins]
      /\ exit \in Nat /\ E[exit] = D[ins] \cup {exit}
  <2>1. exit \in Len(term) + 1 .. Len(term) + 1
    BY <1>2 DEF TypeOK
  <2> QED
    BY <1>3, <2>1 DEF Fresh
<1>5. Certified(E)' /\ Flows(E)' /\ Blocks \subseteq Blocks'
  BY <1>1, <1>2, BlockGrows, OpenGraph
<1>6. Opens
  BY BlockShape
<1>7. np <= VAvailable /\ np <= Len(stack) /\ pos \in Nat
  <2>1. VAvailable >= np + 0
    BY DEF VEnter
  <2> QED
    BY <1>2, <2>1
<1>8. /\ f \in FrameType
      /\ l \in [target : Nat, pos : Nat]
      /\ l.target = exit
      /\ f.lty = "Block" /\ f.exit = exit
      /\ f.pos = Len(stack) - 0 - np
  BY <1>2, <1>4, <1>7 DEF FrameType, Labels
<1> HIDE DEF f, l, pos
<1>9. Level(E, ins, f, l.target)
  BY <1>2, <1>4, <1>8 DEF Level
<1>10. /\ ins' = ins /\ stack' = stack /\ brt' = 0
       /\ frames' = Call(ins, f)
  BY <1>1, <1>2
<1>11. Tops(stack', Len(stack'), np, E[ins'])
  <2>1. Tops(stack, Len(stack), np, D[ins])
    BY <1>2, <1>7, TopsFewer
  <2> QED
    BY <1>4, <1>10, <2>1
<1>12. /\ ins \in Blocks' /\ D[ins] \subseteq E[ins]
       /\ ins \in E[ins']
       /\ "Block" \in Labels
  BY <1>2, <1>4, <1>5, <1>10 DEF Labels
<1>13. \E B \in [Nat -> Nat] : Nested(E, B)'
  BY <1>1, <1>2, <1>4, <1>5, <1>6, <1>8, <1>9, <1>10, <1>11, <1>12, EnterNested
<1> QED
  BY <1>4, <1>5, <1>13 DEF DominatorsExist, DomInv

(* The n uppermost operands, from below.                                   *)
LEMMA LastNTops ==
  ASSUME NEW s \in Seq(Value), NEW n \in Nat, NEW c \in Int, n <= c, c <= Len(s),
         NEW X, Tops(s, Len(s), c, X)
  PROVE  /\ LastN(s, n) \in Seq(Value)
         /\ Len(LastN(s, n)) = n
         /\ \A k \in 1 .. n : LastN(s, n)[k].blk \in X
<1> DEFINE u == LastN(s, n)
<1>1. n <= Len(s) /\ Len(s) \in Nat
  OBVIOUS
<1>2. /\ u \in Seq(Value)
      /\ Len(u) = n
      /\ \A k \in 1 .. n : u[k] = s[Len(s) - n + k]
  BY <1>1, LastNFacts
<1> HIDE DEF u
<1>3. ASSUME NEW k \in 1 .. n
      PROVE  u[k].blk \in X
  <2>1. n + 1 - k \in 1 .. c /\ Len(s) + 1 - (n + 1 - k) = Len(s) - n + k
    BY <1>1
  <2>2. s[Len(s) + 1 - (n + 1 - k)].blk \in X
    BY <2>1 DEF Tops
  <2> QED
    BY <1>2, <2>1, <2>2
<1> QED
  BY <1>2, <1>3 DEF u

(* loop: it is dominated by the block it is entered from.                  *)
LEMMA LoopDoes ==
  ASSUME NEW np \in Nat, NEW nr \in Nat, EnterLoop(np, nr), ~ (Len(stack) < np),
         NEW loop, loop = Len(term) + 1, NEW pos, pos = Len(stack) - np
  PROVE  /\ Reachable
         /\ preds' = Append(preds, <<ins>>)
         /\ phis' = Append(phis, AddIncoming(EmptyPhis(np), LastN(stack, np), loop))
         /\ term' = Append(Terminated(ins, "br"), "none")
         /\ ins' = loop
         /\ stack' = DropLast(stack, np) \o [k \in 1 .. np |-> Phi(loop, k)]
         /\ blockStack' = Append(blockStack, [target |-> loop, pos |-> pos])
         /\ frames' = Call(loop,
                           [lty |-> "Loop", entry |-> loop,
                            exit |-> Frame.exit, pos |-> pos, results |-> nr,
                            saved |-> << >>, else |-> 0])
         /\ brt' = brt
<1>1. Reachable
  BY DEF EnterLoop
<1>2. /\ preds' = Append(preds, <<ins>>)
      /\ phis' = Append(phis, AddIncoming(EmptyPhis(np), LastN(stack, np), loop))
      /\ term' = Append(Terminated(ins, "br"), "none")
      /\ ins' = loop
      /\ stack' = DropLast(stack, np) \o [k \in 1 .. np |-> Phi(loop, k)]
      /\ brt' = brt
  BY DEF EnterLoop, Requires
<1>3. /\ blockStack' = Append(blockStack, [target |-> loop, pos |-> pos])
      /\ frames' = Call(loop,
                        [lty |-> "Loop", entry |-> loop,
                         exit |-> Frame.exit, pos |-> pos, results |-> nr,
                         saved |-> << >>, else |-> 0])
  BY DEF EnterLoop, Requires, PosUnder
<1> QED
  BY <1>1, <1>2, <1>3

(* The edge into the header, and the arguments it passes, are in flow.     *)
LEMMA LoopGrows ==
  ASSUME IInv, Reachable, NEW D \in [Nat -> SUBSET Nat], NEW A, DomInv(D, A),
         NEW E, Grows(D, E, 1), NEW np \in Nat, NEW nr \in Nat, EnterLoop(np, nr),
         np <= VAvailable
  PROVE  GraphGrows(E, 1)
<1> SUFFICES ASSUME NEW len, len = Len(term), NEW loop, loop = len + 1
             PROVE  GraphGrows(E, 1)
  OBVIOUS
<1> DEFINE args == LastN(stack, np)
           e == EmptyPhis(np)
           ps == AddIncoming(e, args, loop)
           t == Terminated(ins, "br")
<1>1. /\ ins \in Blocks /\ TypeOK
      /\ VAvailable \in Int /\ np <= VAvailable /\ VAvailable <= Len(stack)
      /\ Len(stack) \in Nat
      /\ stack \in Seq(Value)
      /\ Tops(stack, Len(stack), VAvailable, D[ins])
  BY EnterBase
<1>2. /\ preds \in Seq(Seq(Nat)) /\ phis \in Seq(Seq(Seq(Incoming)))
      /\ Len(preds) = len /\ Len(phis) = len
      /\ len \in Nat /\ Blocks = 1 .. len
  BY <1>1 DEF TypeOK, Blocks
<1>3. /\ preds' = Append(preds, <<ins>>)
      /\ phis' = Append(phis, ps)
      /\ term' = Append(t, "none")
  <2>1. ~ (Len(stack) < np)
    BY <1>1
  <2> QED
    BY <2>1, LoopDoes
<1>4. t \in Seq(Terminators) /\ Len(t) = len
  <2>1. "br" \in Terminators
    BY DEF Terminators
  <2> QED
    BY <1>1, <2>1, TerminatedFacts
<1>5. Len(args) = np /\ \A k \in 1 .. np : args[k].blk \in D[ins]
  BY <1>1, LastNTops
<1>6. Len(e) = np /\ \A k \in 1 .. np : e[k] = << >>
  BY EmptyPhisFacts
<1> HIDE DEF t, args, e
<1>7. /\ Len(ps) = np
      /\ \A k \in 1 .. np : ps[k] = Append(e[k], [val |-> args[k], from |-> loop])
  BY <1>6 DEF AddIncoming
<1> HIDE DEF ps
<1>8. ASSUME NEW k \in 1 .. np
      PROVE  ps[k][1].val.blk \in D[ins]
  <2>1. ps[k] = Append(<< >>, [val |-> args[k], from |-> loop])
    BY <1>6, <1>7
  <2>2. ps[k][1].val = args[k]
    BY <2>1
  <2> QED
    BY <1>5, <2>2
<1>9. /\ \A c \in 1 .. len : preds'[c] = preds[c]
      /\ preds'[loop] = <<ins>>
  BY <1>2, <1>3
<1>10. /\ \A c \in 1 .. len : phis'[c] = phis[c]
       /\ phis'[loop] = ps
  BY <1>2, <1>3, SMTT(30)
<1>11. Len(term') = len + 1
  BY <1>3, <1>4
<1>12. E[ins] = D[ins] /\ E[loop] = D[ins] \cup {loop}
  <2>1. loop \in Len(term) + 1 .. Len(term) + 1
    BY <1>2
  <2> QED
    BY <2>1, FreshFacts DEF Fresh
<1>13. InFlow(E, 1 .. len + 1, loop, <<ins>>, ps)
  <2>1. ins \in 1 .. len + 1
    BY <1>1, <1>2
  <2>2. E[loop] \ {loop} \subseteq E[ins]
    BY <1>12
  <2>3. \A k \in 1 .. Len(ps) : ps[k][1].val.blk \in E[ins]
    BY <1>7, <1>8, <1>12
  <2> QED
    BY <2>1, <2>2, <2>3, OneFlow
<1>14. ASSUME NEW c \in len + 1 .. len + 1
       PROVE  InFlow(E, 1 .. len + 1, c, preds'[c], phis'[c])
  <2>1. c = loop
    BY <1>2
  <2> QED
    BY <1>9, <1>10, <1>13, <2>1
<1> QED
  BY <1>2, <1>9, <1>10, <1>11, <1>14 DEF GraphGrows

(* Behind it the operands of the parameters are the loop's PHIs.           *)
LEMMA LoopTops ==
  ASSUME NEW s \in Seq(Value), NEW np \in Nat, NEW c \in Nat, np <= c,
         c <= Len(s), NEW X, NEW Y, X \subseteq Y, Tops(s, Len(s), c, X),
         NEW loop \in Nat, loop \in Y
  PROVE  LET t == DropLast(s, np) \o [k \in 1 .. np |-> Phi(loop, k)]
         IN  Tops(t, Len(t), np, Y)
<1> DEFINE new == [k \in 1 .. np |-> Phi(loop, k)]
           t == DropLast(s, np) \o new
<1>1. \A k \in 1 .. np : Phi(loop, k) \in Value /\ Phi(loop, k).blk = loop
  BY DEF Phi, Value
<1>2. new \in Seq(Value) /\ Len(new) = np
  BY <1>1
<1>3. \A i \in 1 .. Len(new) : new[i].blk \in Y
  BY <1>1, <1>2
<1> HIDE DEF new
<1>4. Tops(s, Len(s), np, Y)
  <2>1. np \in Int /\ c \in Int
    OBVIOUS
  <2> QED
    BY <2>1, TopsFewer
<1>5. np <= Len(s) /\ np \in Nat /\ np <= np
  OBVIOUS
<1>6. Tops(t, Len(t), np - np + Len(new), Y)
  BY <1>2, <1>3, <1>4, <1>5, TopsReplaced
<1>7. np - np + Len(new) = np
  BY <1>2
<1> QED
  BY <1>6, <1>7 DEF new

(* After a loop expression there are dominators again.                     *)
LEMMA LoopDominates ==
  ASSUME IInv, IInv', PosGrow, Opens, NEW D \in [Nat -> SUBSET Nat],
         NEW A \in [Nat -> Nat], DomInv(D, A), NEW np \in Nat, NEW nr \in Nat,
         EnterLoop(np, nr), VEnter("Loop", np, nr, 0)
  PROVE  DominatorsExist'
<1> SUFFICES ASSUME NEW loop, loop = Len(term) + 1,
                    NEW E, Grows(D, E, 1)
             PROVE  DominatorsExist'
  BY DEF Grows
<1> DEFINE pos == Len(stack) - np
           f == [lty |-> "Loop", entry |-> loop, exit |-> Frame.exit,
                 pos |-> pos, results |-> nr, saved |-> << >>, else |-> 0]
           l == [target |-> loop, pos |-> pos]
<1>1. Reachable
  BY DEF EnterLoop
<1>2. /\ ins \in Blocks /\ brt = 0 /\ TypeOK
      /\ ins \in D[ins]
      /\ VAvailable \in Nat
      /\ VAvailable <= Len(stack)
      /\ Len(stack) \in Nat
      /\ stack \in Seq(Value)
      /\ Frame.exit \in Nat
      /\ Tops(stack, Len(stack), VAvailable, D[ins])
  BY <1>1, EnterBase
<1>3. np <= VAvailable /\ np <= Len(stack) /\ pos \in Nat
  <2>1. VAvailable >= np + 0
    BY DEF VEnter
  <2> QED
    BY <1>2, <2>1
<1>4. /\ ins' = loop
      /\ stack' = DropLast(stack, np) \o [k \in 1 .. np |-> Phi(loop, k)]
      /\ frames' = Call(loop, f)
      /\ blockStack' = Append(blockStack, l)
      /\ brt' = 0
  <2>1. ~ (Len(stack) < np)
    BY <1>2, <1>3
  <2> QED
    BY <1>2, <2>1, LoopDoes
<1>5. Fresh(D, E, 1)
  BY <1>1, FreshFacts
<1>6. /\ E \in [Nat -> SUBSET Nat] /\ Extends(D, E) /\ E[ins] = D[ins]
      /\ loop \in Nat /\ E[loop] = D[ins] \cup {loop}
  <2>1. loop \in Len(term) + 1 .. Len(term) + 1
    BY <1>2 DEF TypeOK
  <2> QED
    BY <1>5, <2>1 DEF Fresh
<1>7. GraphGrows(E, 1)
  BY <1>1, <1>3, LoopGrows
<1>8. Certified(E)' /\ Flows(E)' /\ Blocks \subseteq Blocks'
  BY <1>1, <1>7, OpenGraph
<1>9. /\ f \in FrameType
      /\ l \in [target : Nat, pos : Nat]
      /\ l.target = loop
      /\ f.lty = "Loop"
      /\ f.pos = Len(stack) - 0 - np
  BY <1>2, <1>3, <1>6 DEF FrameType, Labels
<1> HIDE DEF f, l, pos
<1>10. Level(E, loop, f, l.target)
  BY <1>6, <1>9 DEF Level
<1>11. Tops(stack', Len(stack'), np, E[ins'])
  <2> DEFINE X == D[ins]
             Y == E[loop]
             c == VAvailable
  <2>1. /\ np <= c /\ c \in Nat /\ c <= Len(stack)
        /\ X \subseteq Y /\ Tops(stack, Len(stack), c, X) /\ loop \in Y
    BY <1>2, <1>3, <1>6
  <2> HIDE DEF X, Y, c
  <2>2. Tops(stack', Len(stack'), np, Y)
    BY <1>2, <1>4, <1>6, <2>1, LoopTops
  <2> QED
    BY <1>4, <2>2 DEF Y
<1>12. /\ loop \in Blocks' /\ D[ins] \subseteq E[loop]
       /\ loop \in E[ins']
       /\ "Loop" \in Labels
  <2>1. Len(term') = Len(term) + 1
    BY <1>7 DEF GraphGrows
  <2>2. loop \in Blocks'
    BY <1>2, <2>1 DEF Blocks, TypeOK
  <2> QED
    BY <1>4, <1>6, <2>2 DEF Labels
<1>13. \E B \in [Nat -> Nat] : Nested(E, B)'
  BY <1>1, <1>4, <1>6, <1>8, <1>9, <1>10, <1>11, <1>12, EnterNested
<1> QED
  BY <1>6, <1>8, <1>13 DEF DominatorsExist, DomInv

(* Two sequences, one behind the other.                                    *)
LEMMA ConcatAt ==
  ASSUME NEW S, NEW s \in Seq(S), NEW u \in Seq(S)
  PROVE  /\ \A c \in 1 .. Len(s) : (s \o u)[c] = s[c]
         /\ \A i \in 1 .. Len(u) : (s \o u)[Len(s) + i] = u[i]
<1> DEFINE t == s \o u
<1>1. /\ \A i \in 1 .. Len(s) + Len(u) :
           t[i] = IF i <= Len(s) THEN s[i] ELSE u[i - Len(s)]
      /\ Len(s) \in Nat /\ Len(u) \in Nat
  BY ConcatProperties
<1> HIDE DEF t
<1>2. \A c \in 1 .. Len(s) : c \in 1 .. Len(s) + Len(u) /\ c <= Len(s)
  BY <1>1
<1>3. \A i \in 1 .. Len(u) : /\ Len(s) + i \in 1 .. Len(s) + Len(u)
                             /\ ~ (Len(s) + i <= Len(s))
                             /\ Len(s) + i - Len(s) = i
  BY <1>1
<1>4. /\ \A c \in 1 .. Len(s) : t[c] = s[c]
      /\ \A i \in 1 .. Len(u) : t[Len(s) + i] = u[i]
  BY <1>1, <1>2, <1>3
<1> QED
  BY <1>4 DEF t

(* if: both arms and its exit are dominated by the block before it.        *)
LEMMA IfDoes ==
  ASSUME NEW np \in Nat, NEW nr \in Nat, EnterIf(np, nr), ~ (Len(stack) < np + 1),
         NEW then, then = Len(term) + 1, NEW else, else = Len(term) + 2,
         NEW exit, exit = Len(term) + 3, NEW pos, pos = Len(Drop1(stack)) - np
  PROVE  /\ Reachable
         /\ preds' = preds \o << <<ins>>, <<ins>>, << >> >>
         /\ phis' = phis \o << << >>, << >>, EmptyPhis(nr) >>
         /\ term' = Terminated(ins, "condbr") \o <<"none", "none", "none">>
         /\ ins' = then
         /\ stack' = Drop1(stack)
         /\ blockStack' = Append(blockStack, [target |-> exit, pos |-> pos])
         /\ frames' = Call(then,
                           [lty |-> "If", entry |-> then, exit |-> exit,
                            pos |-> pos, results |-> nr,
                            saved |-> LastN(Drop1(stack), np),
                            else |-> else])
         /\ brt' = brt
<1>1. Reachable
  BY DEF EnterIf
<1>2. /\ preds' = preds \o << <<ins>>, <<ins>>, << >> >>
      /\ phis' = phis \o << << >>, << >>, EmptyPhis(nr) >>
      /\ term' = Terminated(ins, "condbr") \o <<"none", "none", "none">>
      /\ ins' = then
      /\ stack' = Drop1(stack)
      /\ brt' = brt
  BY DEF EnterIf, Requires
<1>3. /\ blockStack' = Append(blockStack, [target |-> exit, pos |-> pos])
      /\ frames' = Call(then,
                        [lty |-> "If", entry |-> then, exit |-> exit,
                         pos |-> pos, results |-> nr,
                         saved |-> LastN(Drop1(stack), np),
                         else |-> else])
  BY DEF EnterIf, Requires, PosUnder
<1> QED
  BY <1>1, <1>2, <1>3

(* The edges into the two arms are in flow.                                *)
LEMMA IfGrows ==
  ASSUME IInv, Reachable, NEW D \in [Nat -> SUBSET Nat], NEW A, DomInv(D, A),
         NEW E, Grows(D, E, 3), NEW np \in Nat, NEW nr \in Nat, EnterIf(np, nr),
         np + 1 <= VAvailable
  PROVE  GraphGrows(E, 3)
<1> SUFFICES ASSUME NEW len, len = Len(term)
             PROVE  GraphGrows(E, 3)
  OBVIOUS
<1> DEFINE t == Terminated(ins, "condbr")
           u == <<"none", "none", "none">>
           new == << <<ins>>, <<ins>>, << >> >>
           fresh == << << >>, << >>, EmptyPhis(nr) >>
<1>1. /\ ins \in Blocks /\ TypeOK /\ ins \in Nat
      /\ np + 1 <= VAvailable /\ VAvailable <= Len(stack)
      /\ VAvailable \in Nat /\ Len(stack) \in Nat
  BY EnterBase
<1>2. /\ preds \in Seq(Seq(Nat)) /\ phis \in Seq(Seq(Seq(Incoming)))
      /\ Len(preds) = len /\ Len(phis) = len
      /\ len \in Nat /\ Blocks = 1 .. len
  BY <1>1 DEF TypeOK, Blocks
<1>3. /\ preds' = preds \o new
      /\ phis' = phis \o fresh
      /\ term' = t \o u
  <2>1. ~ (Len(stack) < np + 1)
    BY <1>1
  <2> QED
    BY <2>1, IfDoes
<1>4. /\ t \in Seq(Terminators) /\ Len(t) = len
      /\ u \in Seq(Terminators) /\ Len(u) = 3
  <2>1. "condbr" \in Terminators /\ "none" \in Terminators
    BY DEF Terminators
  <2>2. t \in Seq(Terminators) /\ Len(t) = len
    BY <1>1, <2>1, TerminatedFacts
  <2> QED
    BY <2>1, <2>2
<1>5. /\ new \in Seq(Seq(Nat)) /\ Len(new) = 3
      /\ new[1] = <<ins>> /\ new[2] = <<ins>> /\ new[3] = << >>
  BY <1>1
<1>6. /\ fresh \in Seq(Seq(Seq(Incoming))) /\ Len(fresh) = 3
      /\ fresh[1] = << >> /\ fresh[2] = << >>
  <2> DEFINE ps == EmptyPhis(nr)
             S == Seq(Seq(Incoming))
  <2>1. ps \in S /\ << >> \in S
    BY EmptyPhisFacts
  <2> HIDE DEF ps, S
  <2>2. /\ << << >>, << >>, ps >> \in Seq(S)
        /\ Len(<< << >>, << >>, ps >>) = 3
        /\ << << >>, << >>, ps >>[1] = << >>
        /\ << << >>, << >>, ps >>[2] = << >>
    BY <2>1
  <2> QED
    BY <2>2, Zenon DEF S, ps
<1> HIDE DEF t, u, new, fresh
<1>7. Len(term') = len + 3
  <2>1. Len(t \o u) = Len(t) + Len(u)
    BY <1>4, ConcatProperties
  <2> QED
    BY <1>3, <1>4, <2>1
<1>8. /\ \A c \in 1 .. len : preds'[c] = preds[c]
      /\ preds'[len + 1] = <<ins>> /\ preds'[len + 2] = <<ins>>
      /\ preds'[len + 3] = << >>
  <2> DEFINE S == Seq(Nat)
  <2>1. Len(new) = 3 /\ Len(preds) = len
    BY <1>2, <1>5, <1>6
  <2>0. preds \in Seq(S) /\ new \in Seq(S)
    BY <1>2, <1>5
  <2> HIDE DEF S
  <2>2. /\ \A c \in 1 .. Len(preds) : (preds \o new)[c] = preds[c]
        /\ \A i \in 1 .. Len(new) : (preds \o new)[Len(preds) + i] = new[i]
    BY <2>0, ConcatAt
  <2>3. 1 \in 1 .. Len(new) /\ 2 \in 1 .. Len(new) /\ 3 \in 1 .. Len(new)
    BY <2>1
  <2> QED
    BY <1>5, <1>3, <2>1, <2>2, <2>3
<1>9. /\ \A c \in 1 .. len : phis'[c] = phis[c]
      /\ phis'[len + 1] = << >> /\ phis'[len + 2] = << >>
  <2> DEFINE S == Seq(Seq(Incoming))
  <2>1. Len(fresh) = 3 /\ Len(phis) = len
    BY <1>2, <1>5, <1>6
  <2>0. phis \in Seq(S) /\ fresh \in Seq(S)
    BY <1>2, <1>6
  <2> HIDE DEF S
  <2>2. /\ \A c \in 1 .. Len(phis) : (phis \o fresh)[c] = phis[c]
        /\ \A i \in 1 .. Len(fresh) : (phis \o fresh)[Len(phis) + i] = fresh[i]
    BY <2>0, ConcatAt
  <2>3. 1 \in 1 .. Len(fresh) /\ 2 \in 1 .. Len(fresh) /\ 3 \in 1 .. Len(fresh)
    BY <2>1
  <2> QED
    BY <1>6, <1>3, <2>1, <2>2, <2>3
<1>10. /\ E[ins] = D[ins]
       /\ \A x \in len + 1 .. len + 3 : E[x] = D[ins] \cup {x}
  BY FreshFacts DEF Fresh
<1>11. ins \in 1 .. len + 3
  BY <1>1, <1>2
<1>12. ASSUME NEW c \in len + 1 .. len + 3
       PROVE  InFlow(E, 1 .. len + 3, c, preds'[c], phis'[c])
  <2>1. CASE c = len + 3
    <3>1. preds'[c] = << >>
      BY <1>8, <2>1
    <3> QED
      BY <3>1, NoFlow
  <2>2. CASE c = len + 1 \/ c = len + 2
    <3>1. preds'[c] = <<ins>> /\ phis'[c] = << >>
      BY <1>8, <1>9, <2>2
    <3>2. E[c] \ {c} \subseteq E[ins]
      BY <1>10
    <3>3. \A k \in 1 .. Len(<< >>) : << >>[k][1].val.blk \in E[ins]
      OBVIOUS
    <3>4. InFlow(E, 1 .. len + 3, c, <<ins>>, << >>)
      BY <1>11, <3>2, <3>3, OneFlow
    <3> QED
      BY <3>1, <3>4
  <2>3. c = len + 1 \/ c = len + 2 \/ c = len + 3
    <3>1. len \in Int
      BY <1>2
    <3> QED
      BY <3>1, SMTT(20)
  <2> QED
    BY <2>1, <2>2, <2>3
<1> QED
  BY <1>2, <1>7, <1>8, <1>9, <1>12 DEF GraphGrows

(* After an if expression there are dominators again.                      *)
LEMMA IfDominates ==
  ASSUME IInv, IInv', PosGrow, Opens, NEW D \in [Nat -> SUBSET Nat],
         NEW A \in [Nat -> Nat], DomInv(D, A), NEW np \in Nat, NEW nr \in Nat,
         EnterIf(np, nr), VEnter("If", np, nr, 1)
  PROVE  DominatorsExist'
<1> SUFFICES ASSUME NEW len, len = Len(term), NEW then, then = len + 1,
                    NEW else, else = len + 2, NEW exit, exit = len + 3,
                    NEW E, Grows(D, E, 3)
             PROVE  DominatorsExist'
  BY DEF Grows
<1> DEFINE d == Drop1(stack)
           pos == Len(d) - np
           saved == LastN(d, np)
           f == [lty |-> "If", entry |-> then, exit |-> exit, pos |-> pos,
                 results |-> nr, saved |-> saved, else |-> else]
           l == [target |-> exit, pos |-> pos]
<1>1. Reachable
  BY DEF EnterIf
<1>2. /\ ins \in Blocks /\ brt = 0 /\ TypeOK
      /\ ins \in D[ins]
      /\ VAvailable \in Nat
      /\ VAvailable <= Len(stack)
      /\ Len(stack) \in Nat
      /\ stack \in Seq(Value)
      /\ Tops(stack, Len(stack), VAvailable, D[ins])
  BY <1>1, EnterBase
<1>3. np + 1 <= VAvailable
  BY DEF VEnter
<1>4. /\ ins' = then
      /\ stack' = d
      /\ frames' = Call(then, f)
      /\ blockStack' = Append(blockStack, l)
      /\ brt' = 0
  <2>1. ~ (Len(stack) < np + 1)
    BY <1>2, <1>3
  <2>2. /\ then = Len(term) + 1 /\ else = Len(term) + 2 /\ exit = Len(term) + 3
        /\ pos = Len(Drop1(stack)) - np
    OBVIOUS
  <2> HIDE DEF pos
  <2>3. /\ ins' = then
        /\ stack' = Drop1(stack)
        /\ blockStack' = Append(blockStack, [target |-> exit, pos |-> pos])
        /\ frames' = Call(then,
                          [lty |-> "If", entry |-> then, exit |-> exit,
                           pos |-> pos, results |-> nr,
                           saved |-> LastN(Drop1(stack), np),
                           else |-> else])
        /\ brt' = brt
    BY <2>1, <2>2, IfDoes, ZenonT(40)
  <2> QED
    BY <1>2, <2>3
<1>5. /\ d \in Seq(Value)
      /\ Len(d) = Len(stack) - 1
      /\ Tops(d, Len(d), VAvailable - 1, D[ins])
  <2> DEFINE X == D[ins]
             c == VAvailable
  <2>1. c \in Nat /\ 1 <= c /\ c <= Len(stack) /\ Tops(stack, Len(stack), c, X)
    BY <1>2, <1>3
  <2> HIDE DEF X, c
  <2>2. /\ d \in Seq(Value)
        /\ Len(d) = Len(stack) - 1
        /\ Tops(d, Len(stack) - 1, c - 1, X)
    BY <1>2, <2>1, TopsDropped
  <2> QED
    BY <2>2 DEF X, c
<1> HIDE DEF d
<1>6. np <= Len(d) /\ Len(d) \in Nat /\ pos \in Nat
  <2>1. Len(d) = Len(stack) - 1 /\ Len(stack) \in Nat /\ np + 1 <= Len(stack)
    BY <1>2, <1>3, <1>5
  <2> QED
    BY <2>1
<1>7. /\ saved \in Seq(Value)
      /\ Len(saved) = np
      /\ \A k \in 1 .. np : saved[k].blk \in D[ins]
  <2> DEFINE X == D[ins]
             c == VAvailable - 1
  <2>1. c \in Int /\ np <= c /\ c <= Len(d) /\ Tops(d, Len(d), c, X)
    BY <1>2, <1>3, <1>5
  <2> HIDE DEF X, c
  <2>2. /\ saved \in Seq(Value)
        /\ Len(saved) = np
        /\ \A k \in 1 .. np : saved[k].blk \in X
    BY <1>5, <2>1, LastNTops
  <2> QED
    BY <2>2 DEF X
<1>8. Tops(d, Len(d), np, D[ins])
  <2>1. np \in Int /\ VAvailable - 1 \in Int /\ np <= VAvailable - 1
    BY <1>2, <1>3
  <2> QED
    BY <1>5, <2>1, TopsFewer
<1> HIDE DEF saved
<1>9. Fresh(D, E, 3)
  BY <1>1, FreshFacts
<1>10. /\ E \in [Nat -> SUBSET Nat] /\ Extends(D, E) /\ E[ins] = D[ins]
       /\ then \in Nat /\ E[then] = D[ins] \cup {then}
       /\ else \in Nat /\ E[else] = D[ins] \cup {else}
       /\ exit \in Nat /\ E[exit] = D[ins] \cup {exit}
  <2>1. len \in Nat
    BY <1>2 DEF TypeOK
  <2>2. /\ then \in len + 1 .. len + 3
        /\ else \in len + 1 .. len + 3
        /\ exit \in len + 1 .. len + 3
    BY <2>1
  <2> QED
    BY <1>9, <2>2 DEF Fresh
<1>11. GraphGrows(E, 3)
  BY <1>1, <1>3, IfGrows
<1>12. Certified(E)' /\ Flows(E)' /\ Blocks \subseteq Blocks'
  BY <1>1, <1>11, OpenGraph
<1>13. /\ f \in FrameType
       /\ l \in [target : Nat, pos : Nat]
       /\ l.target = exit
       /\ f.lty = "If" /\ f.exit = exit /\ f.else = else /\ f.saved = saved
       /\ f.pos = Len(stack) - 1 - np
  BY <1>2, <1>5, <1>6, <1>7, <1>10 DEF FrameType, Labels
<1> HIDE DEF f, l, pos
<1>14. Level(E, ins, f, l.target)
  BY <1>2, <1>7, <1>10, <1>13 DEF Level
<1>15. Tops(stack', Len(stack'), np, E[ins'])
  <2>1. E[ins'] = D[ins] \cup {then}
    BY <1>4, <1>10
  <2> QED
    BY <1>4, <1>8, <2>1 DEF Tops
<1>16. /\ ins \in Blocks' /\ D[ins] \subseteq E[ins]
       /\ ins \in E[ins']
       /\ then \in Nat
       /\ "If" \in Labels
  BY <1>2, <1>4, <1>10, <1>12 DEF Labels
<1>17. \E B \in [Nat -> Nat] : Nested(E, B)'
  BY <1>1, <1>4, <1>10, <1>12, <1>13, <1>14, <1>15, <1>16, EnterNested
<1> QED
  BY <1>10, <1>12, <1>17 DEF DominatorsExist, DomInv

-----------------------------------------------------------------------------
(* The ends of visitBlock.                                                 *)

(* The innermost call.                                                     *)
LEMMA InnermostFacts ==
  ASSUME IInv, status = "visit", NEW D, NEW A, DomInv(D, A), NEW n, Len(frames) = n
  PROVE  /\ n \in Nat \ {0}
         /\ Frame = frames[n]
         /\ VFrame = vctrl[n]
         /\ A[n] \in Blocks
         /\ Level(D, A[n], Frame, blockStack[n].target)
         /\ Frame.lty # "Loop" => /\ A[n] \in D[Frame.exit]
                                  /\ D[Frame.exit] \ {Frame.exit} \subseteq D[A[n]]
         /\ n > 1 => /\ A[n - 1] \in D[A[n]]
                     /\ Tops(stack, Frame.pos, vctrl[n].height - vctrl[n - 1].height,
                             D[A[n]])
<1>1. /\ n \in Nat \ {0}
      /\ Frame = frames[n]
      /\ VFrame = vctrl[n]
  BY NestFacts
<1>2. Chain(D, Blocks, A, n, frames, vctrl, blockStack, stack)
  BY DEF DomInv, Nested
<1>3. /\ A[n] \in Blocks
      /\ Level(D, A[n], Frame, blockStack[n].target)
  BY <1>1, <1>2 DEF Chain
<1>4. Frame.lty # "Loop" => blockStack[n].target = Frame.exit
  BY <1>1, FrameFacts DEF FrameOK
<1>5. ASSUME n > 1
      PROVE  /\ A[n - 1] \in D[A[n]]
             /\ Tops(stack, Frame.pos, vctrl[n].height - vctrl[n - 1].height, D[A[n]])
  <2>1. /\ n - 1 \in 1 .. n /\ n \in n - 1 .. n /\ n - 1 \in 1 .. n - 1
        /\ (n - 1) + 1 = n
    BY <1>1, <1>5
  <2>2. A[n - 1] \in D[A[n]]
    BY <1>2, <2>1 DEF Chain
  <2>3. Tops(stack, frames[(n - 1) + 1].pos,
             vctrl[(n - 1) + 1].height - vctrl[n - 1].height, D[A[(n - 1) + 1]])
    BY <1>2, <2>1 DEF Chain
  <2> QED
    BY <1>1, <2>1, <2>2, <2>3
<1> QED
  BY <1>1, <1>3, <1>4, <1>5 DEF Level

(* The branch to the exit.                                                 *)
LEMMA JoinDominates ==
  ASSUME IInv, PhiArity, Leaving, VEndOk(ins # 0), NEW D, NEW A, DomInv(D, A),
         JoinExit, Len(term') = Len(term)
  PROVE  Certified(D)' /\ Flows(D)'
<1>1. Certified(D) /\ Flows(D) /\ status = "visit"
  BY DEF DomInv, Leaving
<1>2. CASE ins = 0
  BY <1>1, <1>2, SameGraphFlows DEF JoinExit
<1>3. CASE ins # 0
  <2> DEFINE b == Frame.exit
             n == Len(frames)
  <2>1. /\ preds' = PredsWith(b, ins)
        /\ phis' = PhisWith(b, stack, ins)
    BY <1>3 DEF JoinExit
  <2>2. /\ b \in Blocks
        /\ ins \in Blocks
        /\ Len(phis[b]) = Frame.results
        /\ stack \in Seq(Value)
        /\ TypeOK
    BY <1>1, <1>3, ExitFacts, FrameFacts DEF IInv
  <2>3. A[n] \in D[ins] /\ A[n] \in Blocks /\ D[b] \ {b} \subseteq D[A[n]]
    <3>1. Inner(D, A[n])
      BY <1>1 DEF DomInv, Nested
    <3> QED
      BY <1>1, <1>3, <3>1, InnermostFacts DEF Inner, Leaving
  <2>4. D[b] \ {b} \subseteq D[ins]
    BY <1>1, <2>2, <2>3 DEF Certified
  <2>5. Reachable
    <3>1. brt = 0
      BY <1>3 DEF IInv, BlocksOK
    <3> QED
      BY <1>1, <1>3, <3>1 DEF Reachable, Visiting
  <2>6. /\ VAvailable <= Len(stack)
        /\ Tops(stack, Len(stack), VAvailable, D[ins])
    BY <2>5, InnerFacts
  <2>7. Len(phis[b]) = VAvailable
    <3>1. VAvailable = VFrame.results
      BY <1>3 DEF VEndOk
    <3>2. VFrame.results = Frame.results
      BY <1>1, FrameFacts, VFrameFacts DEF FrameOK, VFrame
    <3> QED
      BY <2>2, <3>1, <3>2
  <2> HIDE DEF b
  <2> QED
    BY <1>1, <2>1, <2>2, <2>4, <2>6, <2>7, BranchKeepsFlows
<1> QED
  BY <1>2, <1>3

(* The results are the PHIs of the exit.                                   *)
LEMMA JoinTops ==
  ASSUME IInv, Leaving, Frame.lty # "If"
  PROVE  Tops(StackAtJoin, Frame.pos + Frame.results, Frame.results, {Frame.exit})
<1> DEFINE p == Frame.pos
           r == Frame.results
           b == Frame.exit
           u == Unwound
           new == Phis(b)
<1>1. /\ p \in Nat /\ r \in Nat /\ p <= Len(stack) /\ b \in Nat
  BY FrameFacts DEF Leaving, Blocks
<1>2. /\ Len(phis[b]) = r
      /\ ins # 0 => Len(stack) = p + r
      /\ stack \in Seq(Value)
      /\ phis[b] \in Seq(Seq(Incoming))
  BY ExitFacts
<1>3. new \in Seq(Value) /\ Len(new) = r /\ \A i \in 1 .. r : new[i].blk = b
  <2>1. new \in Seq(Value) /\ Len(new) = r
    BY <1>1, <1>2, PhisFacts
  <2>2. \A i \in 1 .. r : new[i].blk = b
    BY <1>2 DEF Phis, Phi
  <2> QED
    BY <2>1, <2>2
<1>4. u \in Seq(Value) /\ Len(u) = p
  <2>1. CASE ins # 0
    <3>2. u = DropLast(stack, r)
      BY <1>2, <2>1 DEF Unwound
    <3> HIDE DEF u, p, r
    <3>1. r <= Len(stack) /\ Len(stack) - r = p
      BY <1>1, <1>2, <2>1
    <3> QED
      BY <1>1, <1>2, <3>1, <3>2, DropLastFacts
  <2>2. CASE ins = 0
    <3>1. u = SubSeq(stack, 1, p)
      BY <2>2 DEF Unwound
    <3> HIDE DEF u, p
    <3> QED
      BY <1>1, <1>2, <3>1, PrefixFacts
  <2> QED
    BY <2>1, <2>2
<1>5. StackAtJoin = u \o new
  BY DEF StackAtJoin
<1> HIDE DEF p, r, b, u, new
<1>6. \A i \in 1 .. Len(new) : (u \o new)[p + i] = new[i]
  <2>0. u \in Seq(Value) /\ new \in Seq(Value)
    BY <1>3, <1>4
  <2>1. \A i \in 1 .. Len(new) : (u \o new)[Len(u) + i] = new[i]
    BY <2>0, ConcatAt
  <2> QED
    BY <1>4, <2>1
<1>7. ASSUME NEW j \in 1 .. r
      PROVE  StackAtJoin[p + r + 1 - j].blk = b
  <2>1. r + 1 - j \in 1 .. r /\ p + (r + 1 - j) = p + r + 1 - j
    BY <1>1
  <2> QED
    BY <1>3, <1>5, <1>6, <2>1
<1>8. Tops(StackAtJoin, p + r, r, {b})
  BY <1>7 DEF Tops
<1> QED
  BY <1>8 DEF p, r, b

(* The validator's view of the enclosing block.                            *)
LEMMA CloseAvailable ==
  ASSUME IInv, Closes, NEW n, Len(frames) = n
  PROVE  VAvailable' = vctrl[n].height - vctrl[n - 1].height + VFrame.results
<1>1. /\ Len(vctrl') = n - 1
      /\ n > 1
      /\ vctrl'[n - 1] = vctrl[n - 1]
      /\ vdepth' = VFrame.height + VFrame.results
      /\ VFrame = vctrl[n]
      /\ n \in Nat
      /\ \A i \in 1 .. n : vctrl[i].height \in Nat
      /\ VFrame.results \in Nat
  <2>1. status = "visit"
    BY DEF Closes
  <2>2. n \in Nat /\ VFrame = vctrl[n] /\ \A i \in 1 .. n : vctrl[i].height \in Nat
        /\ VFrame.results \in Nat
    BY <2>1, NestFacts, VFrameFacts
  <2>3. n - 1 \in 1 .. n - 1
    BY <2>2 DEF Closes
  <2> QED
    BY <2>2, <2>3 DEF Closes, KeepsFrames
<1>2. VAvailable' = vdepth' - vctrl'[n - 1].height
  BY <1>1 DEF VAvailable, VFrame
<1>3. n \in 1 .. n /\ n - 1 \in 1 .. n
  BY <1>1
<1>4. vctrl[n].height \in Nat /\ vctrl[n - 1].height \in Nat
  BY <1>1, <1>3
<1>5. ASSUME NEW h \in Nat, NEW g \in Nat, NEW r \in Nat
      PROVE  (h + r) - g = h - g + r
  OBVIOUS
<1>6. VAvailable' = (vctrl[n].height + VFrame.results) - vctrl[n - 1].height
  BY <1>1, <1>2
<1> QED
  BY <1>1, <1>4, <1>5, <1>6

(* The results of a block lie on what its caller has left.                 *)
LEMMA ClosedTops ==
  ASSUME IInv, Closes, NEW n, Len(frames) = n, NEW X,
         Tops(stack, Frame.pos, vctrl[n].height - vctrl[n - 1].height, X),
         Len(stack') = Frame.pos + Frame.results,
         Tops(stack', Frame.pos + Frame.results, Frame.results, X)
  PROVE  Tops(stack', Len(stack'), VAvailable', X)
<1> DEFINE p == Frame.pos
           r == Frame.results
           c == vctrl[n].height - vctrl[n - 1].height
<1>1. /\ status = "visit" /\ n > 1
      /\ KeepsBelow(p)
  BY DEF Closes
<1>2. /\ p \in Nat /\ r \in Nat
      /\ n \in Nat
      /\ VFrame.results = r
  BY <1>1, FrameFacts, VFrameFacts DEF FrameOK, VFrame
<1>3. c \in Int /\ c <= p
  <2>1. /\ \A i \in 1 .. n : frames[i].pos \in Nat /\ vctrl[i].height \in Nat
        /\ Frame = frames[n]
    BY <1>1, NestFacts
  <2>2. n - 1 \in 1 .. n - 1 /\ n - 1 \in 1 .. n /\ n \in 1 .. n /\ (n - 1) + 1 = n
    BY <1>1, <1>2
  <2>3. vctrl[(n - 1) + 1].height - vctrl[n - 1].height
          <= frames[(n - 1) + 1].pos - frames[n - 1].pos
    BY <1>1, <2>2 DEF IInv, HeightsOK
  <2>4. c <= frames[n].pos - frames[n - 1].pos
    BY <2>2, <2>3
  <2>5. /\ vctrl[n].height \in Nat /\ vctrl[n - 1].height \in Nat
        /\ frames[n - 1].pos \in Nat /\ p \in Nat /\ p = frames[n].pos
    BY <2>1, <2>2
  <2>6. c \in Int
    BY <2>5
  <2> HIDE DEF c, p
  <2> QED
    BY <2>4, <2>5, <2>6
<1>4. VAvailable' = c + r
  BY <1>2, CloseAvailable
<1>5. \A j \in 1 .. p : stack'[j] = stack[j]
  BY <1>1 DEF KeepsBelow
<1>6. Tops(stack, p, c, X) /\ Tops(stack', p + r, r, X) /\ Len(stack') = p + r
  OBVIOUS
<1> HIDE DEF p, r, c
<1>7. Tops(stack', p, c, X)
  <2>1. p \in Int /\ c \in Int /\ c <= p /\ Tops(stack, p, c, X)
    BY <1>2, <1>3, <1>6
  <2> QED
    BY <1>5, <2>1, TopsKept
<1>8. Tops(stack', p + r, c + r, X)
  <2>1. /\ p \in Int /\ c \in Int /\ r \in Nat /\ p + r \in Int /\ c + r \in Int
        /\ Tops(stack', p, c, X) /\ Tops(stack', p + r, r, X)
    BY <1>2, <1>3, <1>6, <1>7
  <2> QED
    BY <2>1, TopsOnto
<1> QED
  BY <1>4, <1>6, <1>8

(* Dropping one leaves the rest.                                           *)
LEMMA Dropped ==
  ASSUME NEW S, NEW s \in Seq(S), NEW n \in Nat, n > 1, Len(s) = n,
         NEW t, t = Drop1(s)
  PROVE  \A i \in 1 .. n - 1 : t[i] = s[i]
<1>1. Len(s) > 0
  OBVIOUS
<1>2. \A i \in 1 .. Len(s) - 1 : Drop1(s)[i] = s[i]
  BY <1>1, Drop1Facts
<1> QED
  BY <1>2

(* The end of a block, or of an else arm.                                  *)
LEMMA BlockEndsDominates ==
  ASSUME IInv, PosGrow, PhiArity, NEW D, NEW A, DomInv(D, A), BlockEnds
  PROVE  DomInv(D, A)'
<1> SUFFICES ASSUME NEW n, Len(frames) = n
             PROVE  DomInv(D, A)'
  OBVIOUS
<1>1. /\ status = "visit"
      /\ brt = 0
      /\ Frame.lty \in {"Block", "Else"}
      /\ VEndOk(ins # 0)
      /\ EndBlock
  BY DEF BlockEnds, EndBlock, Visiting, VEnd
<1>2. CASE LeaveAborts
  BY <1>1, <1>2, StoppedDominates DEF EndBlock, Abort
<1>3. CASE ~ LeaveAborts
  <2>1. /\ JoinExit
        /\ term' = TermAtJoin
        /\ stack' = StackAtJoin
        /\ ins' = Frame.exit
        /\ blockStack' = ClosedLabels
        /\ frames' = ReturnTo(Frame.exit)
        /\ UNCHANGED <<brt, status>>
        /\ Leaving
    BY <1>1, <1>3 DEF EndBlock, Leaving
  <2>2. Len(term') = Len(term)
    BY <2>1, JoinExitFacts
  <2>3. Certified(D)' /\ Flows(D)'
    BY <1>1, <2>1, <2>2, JoinDominates
  <2>4. /\ n \in Nat \ {0}
        /\ A[n] \in Blocks
        /\ A[n] \in D[Frame.exit]
        /\ n > 1 => /\ A[n - 1] \in D[A[n]]
                    /\ Tops(stack, Frame.pos,
                            vctrl[n].height - vctrl[n - 1].height, D[A[n]])
        /\ Frame.exit \in Blocks
        /\ Frame.exit \in D[Frame.exit]
        /\ D[A[n]] \subseteq D[Frame.exit]
    BY <1>1, InnermostFacts, FrameFacts DEF DomInv, Certified
  <2>5. Closes
    <3>1. Refuses \/ Closes
      BY BlockEndsShape
    <3>2. status' # "abort" /\ status' # "assert"
      BY <1>1, <2>1
    <3> QED
      BY <3>1, <3>2 DEF Refuses
  <2>6. n > 1
    BY <2>5 DEF Closes
  <2>7. /\ Len(stack') = Frame.pos + Frame.results
        /\ Tops(stack', Frame.pos + Frame.results, Frame.results, D[Frame.exit])
    <3>1. Len(stack') = Frame.pos + Frame.results
      BY <1>1, <2>1, JoinKeeps
    <3>2. Tops(stack', Frame.pos + Frame.results, Frame.results, {Frame.exit})
      BY <1>1, <2>1, JoinTops
    <3> QED
      BY <2>4, <3>1, <3>2 DEF Tops
  <2>8. Tops(stack, Frame.pos, vctrl[n].height - vctrl[n - 1].height, D[Frame.exit])
    BY <2>4, <2>6 DEF Tops
  <2>9. Tops(stack', Len(stack'), VAvailable', D[ins'])
    BY <2>1, <2>5, <2>7, <2>8, ClosedTops
  <2>10. A[n - 1] \in D[ins'] /\ brt' = 0
    BY <1>1, <2>1, <2>4, <2>6
  <2> DEFINE a == A[n - 1]
  <2>11. Inner(D, A[n - 1])'
    BY <2>9, <2>10 DEF Inner
  <2>12. \A i \in 1 .. n - 1 : blockStack'[i] = blockStack[i]
    <3>1. blockStack' = Drop1(blockStack)
      BY <1>1, <2>1 DEF ClosedLabels
    <3>2. blockStack \in Seq([target : Nat, pos : Nat]) /\ Len(blockStack) = n
      BY <1>1, FrameFacts DEF IInv, TypeOK
    <3>3. n \in Nat
      BY <2>4
    <3> QED
      BY <2>6, <3>1, <3>2, <3>3, Dropped
  <2>13. Blocks' = Blocks /\ Nested(D, A)
    BY <2>2 DEF Blocks, DomInv
  <2>14. Nested(D, A)'
    BY <2>5, <2>11, <2>12, <2>13, CloseNested
  <2> QED
    BY <2>3, <2>14 DEF DomInv
<1> QED
  BY <1>2, <1>3

(* The end of a loop.                                                      *)
LEMMA LoopEndsDominates ==
  ASSUME IInv, PosGrow, NEW D, NEW A, DomInv(D, A), LoopEnds
  PROVE  DomInv(D, A)'
<1> SUFFICES ASSUME NEW n, Len(frames) = n
             PROVE  DomInv(D, A)'
  OBVIOUS
<1>1. /\ status = "visit"
      /\ brt = 0
      /\ Frame.lty = "Loop"
      /\ VEndOk(ins # 0)
      /\ EndLoop
  BY DEF LoopEnds, EndLoop, Visiting, VEnd
<1>2. UNCHANGED <<preds, phis, term>>
  BY <1>1 DEF EndLoop, Abort, AssertFails
<1>3. CASE status' # "visit"
  BY <1>2, <1>3, StoppedDominates
<1>4. CASE status' = "visit"
  <2>1. /\ blockStack' = ClosedLabels
        /\ UNCHANGED <<ins, stack, brt>>
        /\ ins # 0 => Len(stack) = Frame.pos + Frame.results
    BY <1>1, <1>4 DEF EndLoop, Abort, AssertFails, LeaveAborts
  <2>2. Closes
    <3>1. Refuses \/ Closes
      BY LoopEndsShape
    <3> QED
      BY <1>4, <3>1 DEF Refuses
  <2>3. n > 1
    BY <2>2 DEF Closes
  <2>4. /\ n \in Nat \ {0}
        /\ A[n] \in Blocks
        /\ A[n - 1] \in D[A[n]]
        /\ Tops(stack, Frame.pos, vctrl[n].height - vctrl[n - 1].height, D[A[n]])
    BY <1>1, <2>3, InnermostFacts
  <2>5. ASSUME ins # 0
        PROVE  /\ A[n - 1] \in D[ins]
               /\ Tops(stack', Len(stack'), VAvailable', D[ins'])
    <3>1. Reachable
      BY <1>1, <2>5 DEF Reachable, Visiting
    <3>2. /\ A[n] \in D[ins]
          /\ ins \in Blocks
          /\ Tops(stack, Len(stack), VAvailable, D[ins])
      BY <3>1, InnerFacts
    <3>3. D[A[n]] \subseteq D[ins]
      BY <3>2 DEF DomInv, Certified
    <3>4. VAvailable = Frame.results
      <4>1. VAvailable = VFrame.results
        BY <1>1, <2>5 DEF VEndOk
      <4>2. VFrame.results = Frame.results
        BY <1>1, FrameFacts, VFrameFacts DEF FrameOK, VFrame
      <4> QED
        BY <4>1, <4>2
    <3>5. Tops(stack, Frame.pos, vctrl[n].height - vctrl[n - 1].height, D[ins])
      BY <2>4, <3>3 DEF Tops
    <3>6. /\ Len(stack') = Frame.pos + Frame.results
          /\ Tops(stack', Frame.pos + Frame.results, Frame.results, D[ins])
      BY <2>1, <2>5, <3>2, <3>4
    <3>7. Tops(stack', Len(stack'), VAvailable', D[ins])
      BY <2>2, <3>5, <3>6, ClosedTops
    <3> QED
      BY <2>1, <2>4, <3>3, <3>7
  <2>6. Inner(D, A[n - 1])'
    <3>1. /\ ins' = ins
          /\ brt' = 0
          /\ ins' # 0 => A[n - 1] \in D[ins']
          /\ ins' # 0 => Tops(stack', Len(stack'), VAvailable', D[ins'])
      BY <1>1, <2>1, <2>5
    <3> QED
      BY <3>1 DEF Inner, Reachable
  <2>7. \A i \in 1 .. n - 1 : blockStack'[i] = blockStack[i]
    <3>1. blockStack' = Drop1(blockStack)
      BY <1>1, <2>1 DEF ClosedLabels
    <3>2. blockStack \in Seq([target : Nat, pos : Nat]) /\ Len(blockStack) = n
      BY <1>1, FrameFacts DEF IInv, TypeOK
    <3>3. n \in Nat
      BY <2>4
    <3> QED
      BY <2>3, <3>1, <3>2, <3>3, Dropped
  <2>8. Blocks' = Blocks /\ Nested(D, A)
    BY <1>2 DEF Blocks, DomInv
  <2>9. Nested(D, A)'
    BY <2>2, <2>6, <2>7, <2>8, CloseNested
  <2>10. Certified(D)' /\ Flows(D)'
    BY <1>2, SameGraphFlows DEF DomInv
  <2> QED
    BY <2>9, <2>10 DEF DomInv
<1> QED
  BY <1>3, <1>4

(* The end of the function body.                                           *)
LEMMA FuncEndsDominates ==
  ASSUME IInv, PhiArity, NEW D, NEW A, DomInv(D, A), FuncEnds
  PROVE  DomInv(D, A)'
<1>1. /\ status = "visit"
      /\ Frame.lty = "Func"
      /\ VEndOk(ins # 0)
      /\ EndFunc
  BY DEF FuncEnds, EndFunc, Visiting, VEnd
<1>2. CASE LeaveAborts
  BY <1>1, <1>2, StoppedDominates DEF EndFunc, Abort
<1>3. CASE ~ LeaveAborts
  <2>1. /\ JoinExit
        /\ term' = [TermAtJoin EXCEPT ![Frame.exit] = "ret"]
        /\ status' = "done"
        /\ Leaving
    BY <1>1, <1>3 DEF EndFunc, Leaving
  <2>2. Len(term') = Len(term)
    BY <2>1, JoinExitFacts
  <2>3. Certified(D)' /\ Flows(D)'
    BY <1>1, <2>1, <2>2, JoinDominates
  <2> QED
    BY <2>1, <2>3 DEF DomInv, Nested
<1> QED
  BY <1>2, <1>3

(* The then arm is left for the else arm, with the parameters of the if.   *)
LEMMA ThenEndsDominates ==
  ASSUME IInv, PosGrow, PhiArity, NEW D, NEW A, DomInv(D, A), ThenEnds
  PROVE  DomInv(D, A)'
<1> SUFFICES ASSUME NEW n, Len(frames) = n
             PROVE  DomInv(D, A)'
  OBVIOUS
<1>1. /\ status = "visit"
      /\ brt = 0
      /\ Frame.lty = "If"
      /\ VElse(ins # 0)
      /\ VEndOk(ins # 0)
      /\ EndThen
  BY DEF ThenEnds, EndThen, Visiting, VElse
<1>2. CASE LeaveAborts
  BY <1>1, <1>2, StoppedDominates DEF EndThen, Abort
<1>3. CASE ~ LeaveAborts
  <2> DEFINE f == [Frame EXCEPT !.lty = "Else", !.entry = Frame.else,
                                !.saved = << >>, !.else = 0]
             r == ReturnTo(Frame.else)
             t == Frame.saved
             u == StackAtJoin
  <2>1. /\ JoinExit
        /\ term' = TermAtJoin
        /\ stack' = u \o t
        /\ ins' = Frame.else
        /\ frames' = Append(r, f)
        /\ blockStack' = blockStack
        /\ UNCHANGED <<brt, status>>
        /\ Leaving
    BY <1>1, <1>3 DEF EndThen, Leaving, ClosedLabels
  <2>2. Len(term') = Len(term)
    BY <2>1, JoinExitFacts
  <2>3. Certified(D)' /\ Flows(D)'
    BY <1>1, <2>1, <2>2, JoinDominates
  <2>4. Turns
    <3>1. Refuses \/ Turns
      BY ThenEndsShape
    <3>2. status' # "abort" /\ status' # "assert"
      BY <1>1, <2>1
    <3> QED
      BY <3>1, <3>2 DEF Refuses
  <2>5. /\ n \in Nat \ {0}
        /\ A[n] \in Blocks
        /\ Level(D, A[n], Frame, blockStack[n].target)
        /\ Frame.else \in Blocks
        /\ A[n] \in D[Frame.else]
        /\ D[A[n]] \subseteq D[Frame.else]
        /\ \A k \in 1 .. Len(t) : t[k].blk \in D[Frame.else]
    <3>1. /\ n \in Nat \ {0}
          /\ A[n] \in Blocks
          /\ Level(D, A[n], Frame, blockStack[n].target)
          /\ Frame.else \in Blocks
      BY <1>1, InnermostFacts, FrameFacts
    <3>2. /\ A[n] \in D[Frame.else]
          /\ \A k \in 1 .. Len(t) : t[k].blk \in D[A[n]]
      BY <1>1, <3>1 DEF Level
    <3>3. D[A[n]] \subseteq D[Frame.else]
      BY <3>1, <3>2 DEF DomInv, Certified
    <3> QED
      BY <3>1, <3>2, <3>3
  <2>6. /\ u \in Seq(Value)
        /\ t \in Seq(Value)
        /\ VAvailable' = Len(t)
        /\ TypeOK /\ Frame \in FrameType /\ n = Len(frames)
        /\ n > 1
        /\ Frame.else \in Nat
    <3>1. u \in Seq(Value)
      BY <2>1, JoinKeeps
    <3>2. /\ t \in Seq(Value) /\ Frame \in FrameType /\ TypeOK
          /\ Len(t) = VFrame.params
          /\ Frame = frames[n]
          /\ FrameOK(n)
      BY <1>1, FrameFacts, VFrameFacts DEF FrameOK, IInv, VFrame
    <3>3. VAvailable' = VFrame.params
      BY <1>1, VElseFacts
    <3>4. n > 1
      BY <1>1, <2>5, <3>2 DEF FrameOK
    <3> QED
      BY <2>5, <3>1, <3>2, <3>3, <3>4 DEF Blocks
  <2>7. Tops(stack', Len(stack'), VAvailable', D[ins'])
    <3> DEFINE X == D[Frame.else]
               m == Len(t)
               h == Len(u)
    <3>0. m \in Nat /\ h \in Nat /\ \A k \in 1 .. m : t[k].blk \in X
      BY <2>5, <2>6
    <3> HIDE DEF X
    <3>1. /\ Len(u \o t) = Len(u) + Len(t)
          /\ \A i \in 1 .. Len(t) : (u \o t)[Len(u) + i] = t[i]
      BY <2>6, ConcatAt
    <3> HIDE DEF u, t
    <3>2. ASSUME NEW j \in 1 .. m
          PROVE  (u \o t)[h + m + 1 - j].blk \in X
      <4>1. m + 1 - j \in 1 .. m /\ h + (m + 1 - j) = h + m + 1 - j
        BY <3>0
      <4> QED
        BY <3>0, <3>1, <4>1
    <3>3. Tops(u \o t, h + m, m, X)
      BY <3>2 DEF Tops
    <3> QED
      BY <2>1, <2>6, <3>1, <3>3 DEF X
  <2>8. frames'[n].exit = Frame.exit
    <3>1. r \in Seq(FrameType) /\ Len(r) = n - 1
      BY <2>6, ReturnToFacts
    <3>2. f.exit = Frame.exit
      BY <2>6 DEF FrameType
    <3> HIDE DEF r, f
    <3>3. Append(r, f)[n] = f
      BY <2>5, <3>1
    <3> QED
      BY <2>1, <3>2, <3>3
  <2>9. Inner(D, A[n])'
    <3>1. brt' = 0 /\ A[n] \in D[ins']
      BY <1>1, <2>1, <2>5
    <3> QED
      BY <2>7, <3>1 DEF Inner
  <2>10. Blocks' = Blocks /\ Nested(D, A) /\ Certified(D)
    BY <2>2 DEF Blocks, DomInv
  <2>11. Nested(D, A)'
    BY <2>1, <2>4, <2>8, <2>9, <2>10, TurnNested
  <2> QED
    BY <2>3, <2>11 DEF DomInv
<1> QED
  BY <1>2, <1>3

-----------------------------------------------------------------------------
(* The theorems.                                                           *)

(* Before the first step the exit is dominated by the entry, and nothing   *)
(* is on the stack.                                                        *)
LEMMA InitDominates == LInit => DominatorsExist
<1> SUFFICES ASSUME LInit PROVE DominatorsExist
  OBVIOUS
<1> DEFINE D == [x \in Nat |-> {1, x}]
           A == [x \in Nat |-> 1]
<1>1. /\ D \in [Nat -> SUBSET Nat] /\ A \in [Nat -> Nat]
      /\ D[1] = {1} /\ D[2] = {1, 2} /\ A[1] = 1
  OBVIOUS
<1> HIDE DEF D, A
<1>2. Blocks = {1, 2} /\ Len(frames) = 1 /\ ins = 1 /\ brt = 0
      /\ frames[1].exit = 2 /\ frames[1].lty = "Func" /\ blockStack[1].target = 2
      /\ preds[1] = << >> /\ preds[2] = << >>
  BY DEF LInit, Init, Blocks
<1>3. Certified(D)
  BY <1>1, <1>2 DEF Certified
<1>4. Flows(D)
  BY <1>2 DEF Flows, InFlow
<1>5. Chain(D, Blocks, A, 1, frames, vctrl, blockStack, stack)
  BY <1>1, <1>2 DEF Chain, Level
<1>6. VAvailable = 0
  BY DEF LInit, VInit, VAvailable, VFrame
<1>7. Inner(D, A[1])
  BY <1>1, <1>2, <1>6 DEF Inner, Tops
<1>8. Nested(D, A)
  BY <1>2, <1>5, <1>7 DEF Nested
<1> QED
  BY <1>1, <1>3, <1>4, <1>8 DEF DominatorsExist, DomInv

(* Every step keeps dominators for the blocks there are, and finds some    *)
(* for those it appends.                                                   *)
LEMMA NextDominates ==
  ASSUME Exprs \subseteq Supported, Base, Base', DominatorsExist,
         [LNext \/ Stopped]_lvars
  PROVE  DominatorsExist'
<1>1. IInv /\ IInv' /\ PosGrow /\ TableWaits /\ PhiArity
  BY DEF Base, NestInv
<1>2. PICK D \in [Nat -> SUBSET Nat], A \in [Nat -> Nat] : DomInv(D, A)
  BY DEF DominatorsExist
<1>3. SUFFICES \/ DominatorsExist'
               \/ DomInv(D, A)'
               \/ \E E \in [Nat -> SUBSET Nat] : DomInv(E, A)'
  BY DEF DominatorsExist
<1>4. CASE UNCHANGED <<vars, vvars>>
  BY <1>2, <1>4, IdlesDominates
<1>5. ASSUME NEW e \in Exprs, PlainExpr(e)
      PROVE  DomInv(D, A)'
  BY <1>1, <1>2, <1>5, PlainDominates
<1>6. CASE Unreachable
  BY <1>1, <1>2, <1>6, UnreachableDominates
<1>7. CASE Skipped
  BY <1>4, <1>7 DEF Skipped, SkipUnreachable
<1>8. ASSUME NEW sig \in BlockSigs, BlockExpr(sig)
      PROVE  DominatorsExist'
  <2>1. sig[1] \in Nat /\ sig[2] \in Nat
    BY SigsAssumption
  <2>2. EnterBlock(sig[1], sig[2]) /\ VEnter("Block", sig[1], sig[2], 0)
    BY <1>8 DEF BlockExpr
  <2> QED
    BY <1>1, <1>2, <2>1, <2>2, BlockDominates
<1>9. ASSUME NEW sig \in LoopSigs, LoopExpr(sig)
      PROVE  DominatorsExist'
  <2>1. sig[1] \in Nat /\ sig[2] \in Nat
    BY SigsAssumption
  <2>2. EnterLoop(sig[1], sig[2]) /\ VEnter("Loop", sig[1], sig[2], 0)
    BY <1>9 DEF LoopExpr
  <2>3. Opens
    BY <1>1, <2>2, LoopShape
  <2> QED
    BY <1>1, <1>2, <2>1, <2>2, <2>3, LoopDominates
<1>10. ASSUME NEW sig \in IfSigs, IfExpr(sig)
       PROVE  DominatorsExist'
  <2>1. sig[1] \in Nat /\ sig[2] \in Nat
    BY SigsAssumption
  <2>2. EnterIf(sig[1], sig[2]) /\ VEnter("If", sig[1], sig[2], 1)
    BY <1>10 DEF IfExpr
  <2>3. Opens
    BY <1>1, <2>2, IfShape
  <2> QED
    BY <1>1, <1>2, <2>1, <2>2, <2>3, IfDominates
<1>11. CASE ThenEnds
  BY <1>1, <1>2, <1>11, ThenEndsDominates
<1>12. CASE BlockEnds
  BY <1>1, <1>2, <1>12, BlockEndsDominates
<1>13. CASE LoopEnds
  BY <1>1, <1>2, <1>13, LoopEndsDominates
<1>14. CASE FuncEnds
  BY <1>1, <1>2, <1>14, FuncEndsDominates
<1>15. ASSUME NEW l \in VDepths, BrExpr(l)
       PROVE  DomInv(D, A)'
  BY <1>1, <1>2, <1>15, BrDominates DEF BrExpr
<1>16. ASSUME NEW l \in VDepths, BrIfExpr(l)
       PROVE  \E E \in [Nat -> SUBSET Nat] : DomInv(E, A)'
  BY <1>1, <1>2, <1>16, BrIfDominates DEF BrIfExpr
<1>17. ASSUME NEW l \in VDepths, BrTableExpr(l)
       PROVE  DomInv(D, A)'
  BY <1>1, <1>2, <1>17, BrTableDominates DEF BrTableExpr
<1>18. ASSUME NEW l \in VDepths, BrTableTarget(l)
       PROVE  DomInv(D, A)'
  BY <1>1, <1>2, <1>18, BrTableTargetDominates
<1>19. CASE ReturnExpr
  <2>1. status = "visit"
    BY <1>19 DEF ReturnExpr, Return, Br, Reachable, Visiting
  <2>2. /\ Len(blockStack) = Len(vctrl)
        /\ Len(vctrl) - 1 \in VDepths
    BY <1>1, <2>1, FrameFacts, VFrameFacts DEF VDepths
  <2>3. Br(Len(vctrl) - 1) /\ VBranch(Len(vctrl) - 1, 0)
    BY <1>19, <2>2 DEF ReturnExpr, Return
  <2> QED
    BY <1>1, <1>2, <2>2, <2>3, BrDominates
<1>20. CASE BrTableDone
  BY <1>1, <1>2, <1>20, BrTableDoneDominates
<1>21. CASE Stopped \/ UNCHANGED lvars
  BY <1>4, <1>21 DEF Stopped, lvars
<1> QED
  BY <1>5, <1>6, <1>7, <1>8, <1>9, <1>10, <1>11, <1>12, <1>13, <1>14, <1>15,
     <1>16, <1>17, <1>18, <1>19, <1>20, <1>21 DEF LNext

(* At every moment of the translation there are dominators in which the    *)
(* nesting, the operand stack and the PHIs of the function are in order.   *)
THEOREM DominanceInvariant ==
  ASSUME Exprs \subseteq Supported
  PROVE  Spec => [](IInv /\ DominatorsExist)
<1>1. Base /\ Base' /\ DominatorsExist /\ [LNext \/ Stopped]_lvars => DominatorsExist'
  BY NextDominates
<1>2. Spec => []NestInv
  BY NestInvariant
<1>3. Spec => []PhiArity
  BY PhisMatchEdges
<1>4. /\ NestInv /\ PhiArity => Base
      /\ NestInv => IInv
  BY DEF Base, NestInv
<1> QED
  BY <1>1, <1>2, <1>3, <1>4, InitDominates, PTL DEF Spec

(* Every value a handler may pop at a reached place is defined on every    *)
(* path to it: visitControlInsts never builds an instruction that uses a   *)
(* value before its definition, in whatever nesting, branch or br_table.   *)
THEOREM OperandsDominated ==
  ASSUME Exprs \subseteq Supported
  PROVE  Spec => []OperandsDominate
<1>1. ASSUME IInv, DominatorsExist
      PROVE  OperandsDominate
  <2>1. PICK D \in [Nat -> SUBSET Nat], A \in [Nat -> Nat] : DomInv(D, A)
    BY <1>1 DEF DominatorsExist
  <2> SUFFICES ASSUME Reachable, NEW i \in Len(stack) - VAvailable + 1 .. Len(stack)
               PROVE  Dominates(stack[i].blk, ins)
    BY DEF OperandsDominate
  <2>2. /\ ins \in Blocks
        /\ VAvailable \in Nat
        /\ VAvailable <= Len(stack)
        /\ Tops(stack, Len(stack), VAvailable, D[ins])
        /\ Len(stack) \in Nat
    BY <1>1, <2>1, EnterBase
  <2>3. /\ Len(stack) + 1 - i \in 1 .. VAvailable
        /\ Len(stack) + 1 - (Len(stack) + 1 - i) = i
    BY <2>2
  <2>4. stack[Len(stack) + 1 - (Len(stack) + 1 - i)].blk \in D[ins]
    BY <2>2, <2>3 DEF Tops
  <2>5. stack[i].blk \in D[ins]
    BY <2>3, <2>4
  <2>6. TypeOK /\ Certified(D) /\ Flows(D)
    BY <1>1, <2>1 DEF IInv, DomInv
  <2> QED
    BY <2>2, <2>5, <2>6, CertifiedDominates
<1>2. Spec => [](IInv /\ DominatorsExist)
  BY DominanceInvariant
<1> QED
  BY <1>1, <1>2, PTL

(* The value a PHI takes along an edge is defined on every path to the     *)
(* source of that edge, for the branches, the entries of loops, the cases  *)
(* of a br_table and the joins at the ends of blocks alike.                *)
THEOREM PhiOperandsDominated ==
  ASSUME Exprs \subseteq Supported
  PROVE  Spec => []PhiOperandsDominate
<1>1. ASSUME IInv, DominatorsExist
      PROVE  PhiOperandsDominate
  <2>1. PICK D \in [Nat -> SUBSET Nat], A \in [Nat -> Nat] : DomInv(D, A)
    BY <1>1 DEF DominatorsExist
  <2> SUFFICES ASSUME NEW b \in Blocks, NEW k \in DOMAIN phis[b],
                      NEW i \in DOMAIN phis[b][k] \cap DOMAIN preds[b]
               PROVE  Dominates(phis[b][k][i].val.blk, preds[b][i])
    BY DEF PhiOperandsDominate
  <2>2. TypeOK /\ Certified(D) /\ Flows(D)
    BY <1>1, <2>1 DEF IInv, DomInv
  <2>3. k \in 1 .. Len(phis[b]) /\ i \in 1 .. Len(preds[b])
    <3>1. ASSUME NEW S, NEW s \in Seq(S), NEW c \in 1 .. Len(s)
          PROVE  s[c] \in S
      OBVIOUS
    <3>2. ASSUME NEW S, NEW s \in Seq(S)
          PROVE  DOMAIN s = 1 .. Len(s)
      OBVIOUS
    <3> DEFINE P == Seq(Seq(Incoming))
               Q == Seq(Nat)
    <3>3. /\ phis \in Seq(P) /\ preds \in Seq(Q)
          /\ b \in 1 .. Len(phis) /\ b \in 1 .. Len(preds)
      BY <2>2 DEF TypeOK, Blocks
    <3> HIDE DEF P, Q
    <3>4. phis[b] \in P /\ preds[b] \in Q
      BY <3>1, <3>3
    <3>5. DOMAIN phis[b] = 1 .. Len(phis[b]) /\ DOMAIN preds[b] = 1 .. Len(preds[b])
      BY <3>2, <3>4 DEF P, Q
    <3> QED
      BY <3>5
  <2>4. preds[b][i] \in Blocks /\ phis[b][k][i].val.blk \in D[preds[b][i]]
    BY <2>2, <2>3 DEF Flows, InFlow
  <2> QED
    BY <2>2, <2>4, CertifiedDominates
<1>2. Spec => [](IInv /\ DominatorsExist)
  BY DominanceInvariant
<1> QED
  BY <1>1, <1>2, PTL
=============================================================================
