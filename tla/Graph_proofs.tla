---------------------------- MODULE Graph_proofs ----------------------------
(***************************************************************************)
(* Proofs about the control-flow graph of Lowering, for every signature    *)
(* set and every length of the body: the blocks without a terminator are   *)
(* exactly those that the translation comes back to, and a block has the   *)
(* edges of its terminator and no others.                                  *)
(*                                                                         *)
(* Neither is inductive.  A terminator is set at the insertion point, so   *)
(* it must not overwrite another one, and the exit of an enclosing block   *)
(* must not be terminated on the way: both follow from the fact that no    *)
(* two of the calls of visitBlock, nor the insertion point, share a block  *)
(* (NoBlocksShared).                                                       *)
(***************************************************************************)
EXTENDS SSA_proofs, FiniteSetTheorems

-----------------------------------------------------------------------------
(* The edges of a graph, given by the sources of the edges into each block. *)

(* The edges out of block x: the block they enter and their place there.   *)
EdgesIn(p, x) ==
  { e \in (1 .. Len(p)) \X Nat : /\ e[2] \in 1 .. Len(p[e[1]])
                                 /\ p[e[1]][e[2]] = x }

(* The set that EdgesFrom filters, as a set of pairs of numbers.           *)
LEMMA EdgesInIs ==
  ASSUME NEW p \in Seq(Seq(Nat))
  PROVE  \A x : { e \in UNION { {c} \X DOMAIN p[c] : c \in 1 .. Len(p) } :
                    p[e[1]][e[2]] = x } = EdgesIn(p, x)
<1> TAKE x
<1> DEFINE pairs == UNION { {c} \X DOMAIN p[c] : c \in 1 .. Len(p) }
           edges == { e \in pairs : p[e[1]][e[2]] = x }
<1>1. \A c \in 1 .. Len(p) : /\ DOMAIN p[c] = 1 .. Len(p[c])
                             /\ DOMAIN p[c] \subseteq Nat
  <2>1. \A c \in 1 .. Len(p) : p[c] \in Seq(Nat)
    OBVIOUS
  <2> QED
    BY <2>1
<1>2. ASSUME NEW e \in edges
      PROVE  e \in EdgesIn(p, x)
  <2>1. PICK c \in 1 .. Len(p) : e \in {c} \X DOMAIN p[c]
    OBVIOUS
  <2>2. /\ e \in (1 .. Len(p)) \X Nat
        /\ e[1] = c
        /\ e[2] \in 1 .. Len(p[c])
    BY <1>1, <2>1
  <2> QED
    BY <2>2 DEF EdgesIn
<1>3. ASSUME NEW e \in EdgesIn(p, x)
      PROVE  e \in edges
  <2>1. /\ e \in (1 .. Len(p)) \X Nat
        /\ e[2] \in 1 .. Len(p[e[1]])
        /\ p[e[1]][e[2]] = x
    BY DEF EdgesIn
  <2>2. e \in {e[1]} \X DOMAIN p[e[1]] /\ e[1] \in 1 .. Len(p)
    BY <1>1, <2>1
  <2> QED
    BY <2>1, <2>2
<1> QED
  BY <1>2, <1>3

(* The edges out of a block of the translation.                            *)
LEMMA EdgesFromIs ==
  ASSUME preds \in Seq(Seq(Nat)), Len(preds) = Len(term)
  PROVE  \A x : EdgesFrom(x) = EdgesIn(preds, x)
BY EdgesInIs DEF EdgesFrom, Blocks

(* ... and after a step.                                                   *)
LEMMA EdgesFromIsNext ==
  ASSUME preds' \in Seq(Seq(Nat)), Len(preds') = Len(term')
  PROVE  \A x : EdgesFrom(x)' = EdgesIn(preds', x)
BY EdgesInIs DEF EdgesFrom, Blocks

(* An edge more into block b.                                              *)
LEMMA EdgeAdded ==
  ASSUME NEW p \in Seq(Seq(Nat)), NEW b \in 1 .. Len(p), NEW from \in Nat
  PROVE  LET q == [p EXCEPT ![b] = Append(@, from)]
         IN  /\ q \in Seq(Seq(Nat))
             /\ Len(q) = Len(p)
             /\ EdgesIn(q, from) = EdgesIn(p, from) \cup {<<b, Len(p[b]) + 1>>}
             /\ \A x : x # from => EdgesIn(q, x) = EdgesIn(p, x)
<1> DEFINE new == Append(p[b], from)
           q == [p EXCEPT ![b] = new]
           m == Len(p[b])
<1>1. /\ p[b] \in Seq(Nat)
      /\ m \in Nat
      /\ new \in Seq(Nat)
      /\ Len(new) = m + 1
      /\ new[m + 1] = from
      /\ \A i \in 1 .. m : new[i] = p[b][i]
  OBVIOUS
<1> HIDE DEF new
<1>2. /\ q \in Seq(Seq(Nat))
      /\ Len(q) = Len(p)
      /\ \A c \in 1 .. Len(p) : q[c] = IF c = b THEN new ELSE p[c]
  BY <1>1, ExceptSeq
<1> HIDE DEF q
<1>3. ASSUME NEW c \in 1 .. Len(p), NEW i \in Nat, NEW y
      PROVE  i \in 1 .. Len(q[c]) /\ q[c][i] = y
             <=> \/ i \in 1 .. Len(p[c]) /\ p[c][i] = y
                 \/ c = b /\ i = m + 1 /\ y = from
  <2>1. CASE c = b
    <3>1. q[c] = new
      BY <1>2, <2>1
    <3>2. CASE i = m + 1
      BY <1>1, <2>1, <3>1, <3>2
    <3>3. CASE i # m + 1
      <4>1. i \in 1 .. m + 1 <=> i \in 1 .. m
        BY <1>1, <3>3, SMTT(30)
      <4>2. i \in 1 .. m => new[i] = p[b][i]
        BY <1>1
      <4> QED
        BY <1>1, <2>1, <3>1, <3>3, <4>1, <4>2
    <3> QED
      BY <3>2, <3>3
  <2>2. CASE c # b
    BY <1>2, <2>2
  <2> QED
    BY <2>1, <2>2
<1>4. ASSUME NEW x, NEW e
      PROVE  e \in EdgesIn(q, x)
             <=> e \in EdgesIn(p, x) \/ (x = from /\ e = <<b, m + 1>>)
  <2>1. e \in EdgesIn(q, x) <=> /\ e \in (1 .. Len(p)) \X Nat
                                /\ e[2] \in 1 .. Len(q[e[1]])
                                /\ q[e[1]][e[2]] = x
    BY <1>2 DEF EdgesIn
  <2>2. e \in EdgesIn(p, x) <=> /\ e \in (1 .. Len(p)) \X Nat
                                /\ e[2] \in 1 .. Len(p[e[1]])
                                /\ p[e[1]][e[2]] = x
    BY DEF EdgesIn
  <2>3. e = <<b, m + 1>> <=> /\ e \in (1 .. Len(p)) \X Nat
                             /\ e[1] = b /\ e[2] = m + 1
    BY <1>1, SMTT(30)
  <2>4. CASE e \in (1 .. Len(p)) \X Nat
    <3>1. e[1] \in 1 .. Len(p) /\ e[2] \in Nat
      BY <2>4
    <3>2. \A y : e[2] \in 1 .. Len(q[e[1]]) /\ q[e[1]][e[2]] = y
                 <=> \/ e[2] \in 1 .. Len(p[e[1]]) /\ p[e[1]][e[2]] = y
                     \/ e[1] = b /\ e[2] = m + 1 /\ y = from
      BY <1>3, <3>1, ZenonT(40)
    <3> QED
      <4>1. e = <<b, m + 1>> <=> e[1] = b /\ e[2] = m + 1
        BY <2>3, <2>4, Zenon
      <4>2. e \in EdgesIn(q, x) <=> e[2] \in 1 .. Len(q[e[1]]) /\ q[e[1]][e[2]] = x
        BY <2>1, <2>4, Zenon
      <4>3. e \in EdgesIn(p, x) <=> e[2] \in 1 .. Len(p[e[1]]) /\ p[e[1]][e[2]] = x
        BY <2>2, <2>4, Zenon
      <4> QED
        BY <3>2, <4>1, <4>2, <4>3, Zenon
  <2>5. CASE e \notin (1 .. Len(p)) \X Nat
    BY <2>1, <2>2, <2>3, <2>5
  <2> QED
    BY <2>4, <2>5
<1>5. /\ EdgesIn(q, from) = EdgesIn(p, from) \cup {<<b, m + 1>>}
      /\ \A x : x # from => EdgesIn(q, x) = EdgesIn(p, x)
  <2>1. \A e : e \in EdgesIn(q, from)
                 <=> e \in EdgesIn(p, from) \cup {<<b, m + 1>>}
    BY <1>4
  <2>2. \A x : x # from => \A e : e \in EdgesIn(q, x) <=> e \in EdgesIn(p, x)
    BY <1>4
  <2> DEFINE same(s, t) == \A e : e \in s <=> e \in t
  <2>3. \A s, t : same(s, t) => s = t
    OBVIOUS
  <2>4. EdgesIn(q, from) = EdgesIn(p, from) \cup {<<b, m + 1>>}
    BY <2>1, <2>3
  <2>5. ASSUME NEW x, x # from
        PROVE  EdgesIn(q, x) = EdgesIn(p, x)
    <3>1. same(EdgesIn(q, x), EdgesIn(p, x))
      BY <2>2, <2>5
    <3> QED
      BY <2>3, <3>1
  <2> QED
    BY <2>4, <2>5
<1> QED
  BY <1>2, <1>5 DEF q, new

(* A block more, with the edges es into it.                                *)
LEMMA BlockAdded ==
  ASSUME NEW p \in Seq(Seq(Nat)), NEW es \in Seq(Nat)
  PROVE  LET q == Append(p, es)
         IN  /\ q \in Seq(Seq(Nat))
             /\ Len(q) = Len(p) + 1
             /\ \A x : EdgesIn(q, x)
                         = EdgesIn(p, x)
                             \cup { e \in {Len(p) + 1} \X (1 .. Len(es)) :
                                      es[e[2]] = x }
<1> DEFINE q == Append(p, es)
           n == Len(p)
           new(x) == { e \in {n + 1} \X (1 .. Len(es)) : es[e[2]] = x }
<1>1. /\ q \in Seq(Seq(Nat))
      /\ n \in Nat
      /\ Len(q) = n + 1
      /\ q[n + 1] = es
      /\ \A c \in 1 .. n : q[c] = p[c]
      /\ n = Len(p)
  OBVIOUS
<1> HIDE DEF q, n
<1>2. ASSUME NEW x, NEW e
      PROVE  e \in EdgesIn(q, x) <=> e \in EdgesIn(p, x) \/ e \in new(x)
  <2>1. e \in EdgesIn(q, x) <=> /\ e \in (1 .. n + 1) \X Nat
                                /\ e[2] \in 1 .. Len(q[e[1]])
                                /\ q[e[1]][e[2]] = x
    BY <1>1 DEF EdgesIn
  <2>2. e \in EdgesIn(p, x) <=> /\ e \in (1 .. n) \X Nat
                                /\ e[2] \in 1 .. Len(p[e[1]])
                                /\ p[e[1]][e[2]] = x
    BY <1>1 DEF EdgesIn
  <2>3. e \in new(x) <=> /\ e \in {n + 1} \X Nat
                         /\ e[2] \in 1 .. Len(es)
                         /\ es[e[2]] = x
    OBVIOUS
  <2>4. CASE e \in (1 .. n) \X Nat
    <3>1. e[1] \in 1 .. n /\ e \in (1 .. n + 1) \X Nat /\ e \notin {n + 1} \X Nat
      BY <1>1, <2>4
    <3> QED
      BY <1>1, <2>1, <2>2, <2>3, <2>4, <3>1
  <2>5. CASE e \in {n + 1} \X Nat
    <3>1. e[1] = n + 1 /\ e \in (1 .. n + 1) \X Nat /\ e \notin (1 .. n) \X Nat
      BY <1>1, <2>5
    <3> QED
      BY <1>1, <2>1, <2>2, <2>3, <2>5, <3>1
  <2>6. CASE e \notin (1 .. n) \X Nat /\ e \notin {n + 1} \X Nat
    <3>1. e \notin (1 .. n + 1) \X Nat
      BY <1>1, <2>6
    <3> QED
      BY <2>1, <2>2, <2>3, <2>6, <3>1
  <2> QED
    BY <2>4, <2>5, <2>6
<1> QED
  BY <1>1, <1>2 DEF q, n

(* What a block more, with no edge or with one, adds.                      *)
LEMMA BlockAddedFree ==
  ASSUME NEW p \in Seq(Seq(Nat))
  PROVE  LET q == Append(p, << >>)
         IN  /\ q \in Seq(Seq(Nat))
             /\ Len(q) = Len(p) + 1
             /\ \A x : EdgesIn(q, x) = EdgesIn(p, x)
<1> DEFINE es == << >>
           new(x) == { e \in {Len(p) + 1} \X (1 .. Len(es)) : es[e[2]] = x }
<1>1. es \in Seq(Nat) /\ Len(es) = 0
  OBVIOUS
<1> HIDE DEF es
<1>2. /\ Append(p, es) \in Seq(Seq(Nat))
      /\ Len(Append(p, es)) = Len(p) + 1
      /\ \A x : EdgesIn(Append(p, es), x) = EdgesIn(p, x) \cup new(x)
  BY <1>1, BlockAdded
<1>3. \A x : new(x) = {}
  BY <1>1
<1> HIDE DEF new
<1>4. \A x : EdgesIn(Append(p, es), x) = EdgesIn(p, x)
  BY <1>2, <1>3
<1> QED
  BY <1>2, <1>4 DEF es

(* A block more, with one edge into it.                                    *)
LEMMA BlockAddedFrom ==
  ASSUME NEW p \in Seq(Seq(Nat)), NEW from \in Nat
  PROVE  LET q == Append(p, <<from>>)
         IN  /\ q \in Seq(Seq(Nat))
             /\ Len(q) = Len(p) + 1
             /\ EdgesIn(q, from) = EdgesIn(p, from) \cup {<<Len(p) + 1, 1>>}
             /\ \A x : x # from => EdgesIn(q, x) = EdgesIn(p, x)
<1> DEFINE q == Append(p, <<from>>)
           es == <<from>>
           new(x) == { e \in {Len(p) + 1} \X (1 .. Len(es)) : es[e[2]] = x }
<1>1. es \in Seq(Nat) /\ Len(es) = 1 /\ es[1] = from
  OBVIOUS
<1> HIDE DEF es
<1>2. /\ Append(p, es) \in Seq(Seq(Nat))
      /\ Len(Append(p, es)) = Len(p) + 1
      /\ \A x : EdgesIn(Append(p, es), x) = EdgesIn(p, x) \cup new(x)
  BY <1>1, BlockAdded
<1>3. new(from) = {<<Len(p) + 1, 1>>}
  <2>1. \A e : e \in {Len(p) + 1} \X (1 .. 1) <=> e = <<Len(p) + 1, 1>>
    OBVIOUS
  <2>2. es[<<Len(p) + 1, 1>>[2]] = from
    BY <1>1
  <2> QED
    BY <1>1, <2>1, <2>2
<1>4. \A x : x # from => new(x) = {}
  BY <1>1
<1> HIDE DEF new
<1>5. \A x : x # from => EdgesIn(Append(p, es), x) = EdgesIn(p, x)
  BY <1>2, <1>4
<1> QED
  BY <1>2, <1>3, <1>5 DEF es

-----------------------------------------------------------------------------
(* The terminators.                                                        *)

(* A block that is not there yet has none.                                 *)
TermIn(s, x) == IF x \in 1 .. Len(s) THEN s[x] ELSE "none"

(* The terminator of one block is set.                                     *)
LEMMA TermSet ==
  ASSUME NEW s \in Seq(Terminators), NEW b \in 1 .. Len(s), NEW t \in Terminators
  PROVE  LET r == [s EXCEPT ![b] = t]
         IN  /\ r \in Seq(Terminators)
             /\ Len(r) = Len(s)
             /\ \A x : TermIn(r, x) = IF x = b THEN t ELSE TermIn(s, x)
<1> DEFINE r == [s EXCEPT ![b] = t]
<1>1. /\ r \in Seq(Terminators)
      /\ Len(r) = Len(s)
      /\ \A c \in 1 .. Len(s) : r[c] = IF c = b THEN t ELSE s[c]
  BY ExceptSeq
<1> HIDE DEF r
<1> QED
  BY <1>1 DEF TermIn, r

(* A block more, without a terminator.                                     *)
LEMMA TermAdded ==
  ASSUME NEW s \in Seq(Terminators)
  PROVE  LET r == Append(s, "none")
         IN  /\ r \in Seq(Terminators)
             /\ Len(r) = Len(s) + 1
             /\ \A x : TermIn(r, x) = TermIn(s, x)
<1> DEFINE r == Append(s, "none")
<1>1. /\ r \in Seq(Terminators)
      /\ Len(s) \in Nat
      /\ Len(r) = Len(s) + 1
      /\ r[Len(s) + 1] = "none"
      /\ \A c \in 1 .. Len(s) : r[c] = s[c]
  BY DEF Terminators
<1> HIDE DEF r
<1>2. ASSUME NEW y
      PROVE  TermIn(r, y) = TermIn(s, y)
  <2>1. CASE y \in 1 .. Len(s)
    <3>1. y \in 1 .. Len(r)
      BY <1>1, <2>1
    <3> QED
      BY <1>1, <2>1, <3>1 DEF TermIn
  <2>2. CASE y = Len(s) + 1
    BY <1>1, <2>2 DEF TermIn
  <2>3. CASE y \notin 1 .. Len(s) /\ y # Len(s) + 1
    <3>1. y \notin 1 .. Len(r)
      BY <1>1, <2>3
    <3> QED
      BY <2>3, <3>1 DEF TermIn
  <2> QED
    BY <2>1, <2>2, <2>3
<1> QED
  BY <1>1, <1>2 DEF r

-----------------------------------------------------------------------------
(* The invariant.                                                          *)

(* The terminator of block x, "none" if there is no such block.            *)
Term(x) == TermIn(term, x)

(* A terminator has its edges: E is the set of those out of its block.     *)
HasEdges(t, E) ==
  /\ t = "br" => \E e : E = {e}
  /\ t = "condbr" => \E e, f : e # f /\ E = {e, f}
  /\ t = "switch" => IsFiniteSet(E) /\ E # {}
  /\ t \notin {"br", "condbr", "switch"} => E = {}

(* Every block has the edges of its terminator.                            *)
EdgesOK == \A x : HasEdges(Term(x), EdgesFrom(x))

(* The switch whose cases are being added.                                 *)
SwitchOK == brt # 0 => Term(brt) = "switch"

(* The i-th call of visitBlock will continue in block b.                   *)
Holds(i, b) == \/ frames[i].lty # "Loop" /\ frames[i].exit = b
               \/ frames[i].lty = "If" /\ frames[i].else = b

(* Block b is where the translation is, or where it will come back to.     *)
Held(b) == b = ins \/ \E i \in 1 .. Len(frames) : Holds(i, b)

(* No block is waited for twice.                                           *)
NoBlocksShared ==
  status = "visit" =>
    \A i \in 1 .. Len(frames) :
      /\ frames[i].lty = "If" => frames[i].exit # frames[i].else
      /\ ~ Holds(i, ins)
      /\ \A j \in 1 .. Len(frames) : \A b : Holds(i, b) /\ Holds(j, b) => i = j

(* The blocks without terminator are the held ones, and none is left at    *)
(* the end.                                                                *)
OpenOK ==
  /\ status = "visit" => \A b \in Blocks : Term(b) = "none" <=> Held(b)
  /\ status = "done" => \A b \in Blocks : Term(b) # "none"

(* The inductive invariant of the graph.                                   *)
GraphInv == EdgesOK /\ SwitchOK /\ NoBlocksShared /\ OpenOK

-----------------------------------------------------------------------------
(* What a step does to the graph.                                          *)

(* Block `from' gets terminator t and the edges E more.                    *)
Grows(from, t, E) ==
  \A x : /\ Term(x)' = IF x = from THEN t ELSE Term(x)
         /\ EdgesFrom(x)' = IF x = from THEN EdgesFrom(x) \cup E ELSE EdgesFrom(x)

(* No terminator and no edge changes.                                      *)
SameGraph == \A x : Term(x)' = Term(x) /\ EdgesFrom(x)' = EdgesFrom(x)

(* A block that gets a terminator and its edges at once.                   *)
LEMMA GrownEdges ==
  ASSUME EdgesOK, NEW from, NEW t, NEW E, Grows(from, t, E),
         HasEdges(t, EdgesFrom(from) \cup E)
  PROVE  EdgesOK'
<1>1. ASSUME NEW y
      PROVE  HasEdges(Term(y)', EdgesFrom(y)')
  <2>1. CASE y = from
    BY <2>1 DEF Grows
  <2>2. CASE y # from
    BY <2>2 DEF Grows, EdgesOK
  <2> QED
    BY <2>1, <2>2
<1> QED
  BY <1>1 DEF EdgesOK, HasEdges

(* A step that leaves the graph alone.                                     *)
LEMMA SameGraphKeeps ==
  ASSUME EdgesOK, SameGraph
  PROVE  EdgesOK'
BY DEF EdgesOK, SameGraph, HasEdges

(* The innermost block of the translator has no terminator and no edges.   *)
LEMMA InsFree ==
  ASSUME IInv, EdgesOK, OpenOK, status = "visit", ins # 0
  PROVE  /\ ins \in Blocks
         /\ Term(ins) = "none"
         /\ EdgesFrom(ins) = {}
<1>1. ins \in Blocks
  BY DEF IInv, BlocksOK, Blocks, TypeOK
<1>2. Term(ins) = "none"
  BY <1>1 DEF OpenOK, Held
<1> QED
  BY <1>1, <1>2 DEF EdgesOK, HasEdges

(* A terminator at the insertion point.                                    *)
LEMMA GrownAtIns ==
  ASSUME IInv, EdgesOK, OpenOK, status = "visit", ins # 0,
         NEW t, NEW E, Grows(ins, t, E), HasEdges(t, E)
  PROVE  EdgesOK'
<1>1. EdgesFrom(ins) \cup E = E
  BY InsFree
<1> QED
  BY <1>1, GrownEdges

-----------------------------------------------------------------------------
(* What a step does to the blocks that wait.                               *)

(* What a call of visitBlock holds are blocks of the function.             *)
LEMMA HeldInBlocks ==
  ASSUME IInv
  PROVE  /\ Len(term) \in Nat
         /\ Len(frames) \in Nat
         /\ Blocks = 1 .. Len(term)
         /\ \A i \in 1 .. Len(frames) : \A b : Holds(i, b) => b \in Blocks
BY DEF IInv, TypeOK, BlocksOK, Holds, Blocks

(* A call that a step leaves alone waits for the same blocks.              *)
LEMMA HoldsKept ==
  ASSUME NEW i, SameFrame(frames[i], frames'[i])
  PROVE  /\ \A b : Holds(i, b)' <=> Holds(i, b)
         /\ (frames[i].lty = "If" => frames[i].exit # frames[i].else)
              => (frames'[i].lty = "If" => frames'[i].exit # frames'[i].else)
BY DEF Holds, SameFrame

(* The insertion point gets a terminator, and is cleared or moves to a     *)
(* fresh block, while the nesting stays.                                   *)
LEMMA InsMoves ==
  ASSUME IInv, NoBlocksShared, OpenOK,
         status = "visit", status' = "visit", ins # 0,
         Len(frames') = Len(frames),
         \A i \in 1 .. Len(frames) : SameFrame(frames[i], frames'[i]),
         NEW t, t # "none", NEW E, Grows(ins, t, E),
         \/ ins' = 0 /\ Len(term') = Len(term)
         \/ ins' = Len(term) + 1 /\ Len(term') = Len(term) + 1
  PROVE  NoBlocksShared' /\ OpenOK'
<1> DEFINE N == Len(term)
           n == Len(frames)
<1>1. /\ N \in Nat
      /\ \A i \in 1 .. n : \A b : Holds(i, b) => b \in 1 .. N
      /\ ins' \notin 1 .. N
      /\ ins \in 1 .. N
  BY HeldInBlocks DEF IInv, BlocksOK
<1>2. ASSUME NEW i \in 1 .. n
      PROVE  /\ \A b : Holds(i, b)' <=> Holds(i, b)
             /\ frames'[i].lty = "If" => frames'[i].exit # frames'[i].else
             /\ ~ Holds(i, ins)
             /\ ~ Holds(i, ins')
  <2>1. SameFrame(frames[i], frames'[i])
    OBVIOUS
  <2>2. frames[i].lty = "If" => frames[i].exit # frames[i].else
    BY DEF NoBlocksShared
  <2> QED
    BY <1>1, <2>1, <2>2, HoldsKept DEF NoBlocksShared
<1>3. NoBlocksShared'
  <2>1. ASSUME NEW i \in 1 .. n, NEW j \in 1 .. n, NEW b, Holds(i, b)', Holds(j, b)'
        PROVE  i = j
    BY <1>2, <2>1 DEF NoBlocksShared
  <2>2. \A i \in 1 .. n : ~ Holds(i, ins)'
    BY <1>2 DEF Holds, SameFrame
  <2> QED
    BY <1>2, <2>1, <2>2 DEF NoBlocksShared
<1>4. ASSUME NEW b \in Blocks'
      PROVE  (Term(b) = "none" <=> Held(b))'
  <2>1. Held(b)' <=> b = ins' \/ \E i \in 1 .. n : Holds(i, b)
    BY <1>2 DEF Held
  <2>2. Term(b)' = IF b = ins THEN t ELSE Term(b)
    BY DEF Grows
  <2>3. CASE b \in 1 .. N
    <3>1. Term(b) = "none" <=> Held(b)
      BY <2>3 DEF OpenOK, Blocks
    <3>2. Held(b) <=> b = ins \/ \E i \in 1 .. n : Holds(i, b)
      BY DEF Held
    <3>3. b # ins'
      BY <1>1, <2>3
    <3> QED
      BY <1>2, <2>1, <2>2, <3>1, <3>2, <3>3
  <2>4. CASE b \notin 1 .. N
    <3>1. b = ins' /\ b # ins
      BY <1>1, <2>4 DEF Blocks
    <3>2. Term(b) = "none"
      BY <2>4 DEF Term, TermIn
    <3> QED
      BY <2>1, <2>2, <3>1, <3>2
  <2> QED
    BY <2>3, <2>4
<1>5. OpenOK'
  BY <1>4 DEF OpenOK
<1> QED
  BY <1>3, <1>5

(* The blocks without a terminator, when `from' gets one and the blocks    *)
(* added are waited for.                                                   *)
LEMMA OpenKept ==
  ASSUME OpenOK, status = "visit", status' = "visit", NEW from, NEW t,
         \A x : Term(x)' = IF x = from THEN t ELSE Term(x),
         from = 0 \/ (from \in Blocks /\ t # "none"),
         Len(term) \in Nat,
         \A b \in Blocks' : Held(b)' <=> b \notin Blocks \/ (Held(b) /\ b # from)
  PROVE  OpenOK'
<1>1. ASSUME NEW b \in Blocks'
      PROVE  (Term(b) = "none" <=> Held(b))'
  <2>1. CASE b \in Blocks
    <3>1. (Term(b) = "none" <=> Held(b)) /\ b # 0
      BY <2>1 DEF OpenOK, Blocks
    <3> QED
      BY <2>1, <3>1
  <2>2. CASE b \notin Blocks
    <3>1. Term(b) = "none" /\ b # 0
      BY <2>2 DEF Term, TermIn, Blocks
    <3> QED
      BY <2>2, <3>1
  <2> QED
    BY <2>1, <2>2
<1> QED
  BY <1>1 DEF OpenOK

(* The same when no block gets a terminator.                               *)
LEMMA OpenSame ==
  ASSUME OpenOK, status = "visit", status' = "visit", SameGraph,
         Len(term) \in Nat,
         \A b \in Blocks' : Held(b)' <=> b \notin Blocks \/ Held(b)
  PROVE  OpenOK'
<1>1. ASSUME NEW b \in Blocks'
      PROVE  (Term(b) = "none" <=> Held(b))'
  <2>1. Term(b)' = Term(b)
    BY DEF SameGraph
  <2>2. b \in Blocks => (Term(b) = "none" <=> Held(b))
    BY DEF OpenOK
  <2>3. b \notin Blocks => Term(b) = "none"
    BY DEF Term, TermIn, Blocks
  <2> QED
    BY <2>1, <2>2, <2>3
<1> QED
  BY <1>1 DEF OpenOK

(* A block is entered, which waits for fresh blocks.                       *)
LEMMA FrameOpened ==
  ASSUME IInv, NoBlocksShared, status = "visit", status' = "visit",
         NEW n, n = Len(frames), Len(frames') = n + 1,
         \A i \in 1 .. n : SameFrame(frames[i], frames'[i]),
         frames'[n + 1].lty = "If" => frames'[n + 1].exit # frames'[n + 1].else,
         \A b : Holds(n + 1, b)' => b \notin Blocks /\ b # ins',
         ins' = ins \/ ins' \notin Blocks
  PROVE  /\ NoBlocksShared'
         /\ \A b : Held(b)' <=> \/ b = ins'
                                \/ \E i \in 1 .. n : Holds(i, b)
                                \/ Holds(n + 1, b)'
<1>1. /\ n \in Nat
      /\ \A i \in 1 .. n : \A b : Holds(i, b) => b \in Blocks
  BY HeldInBlocks
<1>2. ASSUME NEW i \in 1 .. n
      PROVE  /\ \A b : Holds(i, b)' <=> Holds(i, b)
             /\ frames'[i].lty = "If" => frames'[i].exit # frames'[i].else
             /\ ~ Holds(i, ins)
  <2>1. SameFrame(frames[i], frames'[i])
    OBVIOUS
  <2>2. frames[i].lty = "If" => frames[i].exit # frames[i].else
    BY DEF NoBlocksShared
  <2> QED
    BY <2>1, <2>2, HoldsKept DEF NoBlocksShared
<1>3. \A i \in 1 .. n + 1 : i \in 1 .. n \/ i = n + 1
  BY <1>1
<1>4. ASSUME NEW i \in 1 .. n + 1, NEW j \in 1 .. n + 1, NEW b,
             Holds(i, b)', Holds(j, b)'
      PROVE  i = j
  <2>1. CASE i \in 1 .. n /\ j \in 1 .. n
    <3>1. Holds(i, b) /\ Holds(j, b)
      BY <1>2, <1>4, <2>1
    <3> QED
      BY <2>1, <3>1 DEF NoBlocksShared
  <2>2. CASE i \in 1 .. n /\ j = n + 1
    BY <1>1, <1>2, <1>4, <2>2
  <2>3. CASE i = n + 1 /\ j \in 1 .. n
    BY <1>1, <1>2, <1>4, <2>3
  <2> QED
    BY <1>3, <2>1, <2>2, <2>3
<1>5. ASSUME NEW i \in 1 .. n + 1, NEW b, b = ins'
      PROVE  ~ Holds(i, b)'
  <2>1. CASE i \in 1 .. n
    BY <1>1, <1>2, <1>5, <2>1
  <2>2. CASE i = n + 1
    BY <1>5, <2>2
  <2> QED
    BY <1>3, <2>1, <2>2
<1>6. \A i \in 1 .. n + 1 : ~ Holds(i, ins)'
  BY <1>5 DEF Holds
<1>7. NoBlocksShared'
  BY <1>2, <1>3, <1>4, <1>6 DEF NoBlocksShared
<1>8. ASSUME NEW b
      PROVE  Held(b)' <=> \/ b = ins'
                          \/ \E i \in 1 .. n : Holds(i, b)
                          \/ Holds(n + 1, b)'
  <2>1. Held(b)' <=> b = ins' \/ \E i \in 1 .. n + 1 : Holds(i, b)'
    BY DEF Held
  <2>2. n + 1 \in 1 .. n + 1 /\ \A i \in 1 .. n : i \in 1 .. n + 1
    BY <1>1
  <2> QED
    BY <1>2, <1>3, <2>1, <2>2
<1> QED
  BY <1>7, <1>8

(* A block is left, for the block it waited for or for the same one.       *)
LEMMA FrameClosed ==
  ASSUME IInv, NoBlocksShared, status = "visit", status' = "visit",
         NEW n, n = Len(frames), n > 0, Len(frames') = n - 1,
         \A i \in 1 .. n - 1 : SameFrame(frames[i], frames'[i]),
         ins' = ins \/ Holds(n, ins')
  PROVE  /\ NoBlocksShared'
         /\ \A b : Held(b)' <=> b = ins' \/ \E i \in 1 .. n - 1 : Holds(i, b)
<1>1. /\ n \in Nat
      /\ \A i \in 1 .. n - 1 : i \in 1 .. n /\ i # n
      /\ n \in 1 .. n
  BY HeldInBlocks
<1>2. ASSUME NEW i \in 1 .. n - 1
      PROVE  /\ \A b : Holds(i, b)' <=> Holds(i, b)
             /\ frames'[i].lty = "If" => frames'[i].exit # frames'[i].else
             /\ \A b : b = ins' => ~ Holds(i, b)
  <2>1. SameFrame(frames[i], frames'[i])
    OBVIOUS
  <2>2. /\ frames[i].lty = "If" => frames[i].exit # frames[i].else
        /\ ~ Holds(i, ins)
        /\ \A b : Holds(i, b) /\ Holds(n, b) => i = n
    BY <1>1 DEF NoBlocksShared
  <2> QED
    BY <1>1, <2>1, <2>2, HoldsKept
<1>3. ASSUME NEW i \in 1 .. n - 1, NEW j \in 1 .. n - 1, NEW b,
             Holds(i, b)', Holds(j, b)'
      PROVE  i = j
  <2>1. Holds(i, b) /\ Holds(j, b) /\ i \in 1 .. n /\ j \in 1 .. n
    BY <1>1, <1>2, <1>3
  <2> QED
    BY <2>1 DEF NoBlocksShared
<1>4. \A i \in 1 .. n - 1 : ~ Holds(i, ins)'
  BY <1>2 DEF Holds
<1>5. NoBlocksShared'
  BY <1>2, <1>3, <1>4 DEF NoBlocksShared
<1> QED
  BY <1>2, <1>5 DEF Held

(* A then arm is left for the else arm.                                    *)
LEMMA FrameTurned ==
  ASSUME IInv, NoBlocksShared, status = "visit", status' = "visit",
         NEW n, n = Len(frames), n > 0, Len(frames') = n,
         \A i \in 1 .. n - 1 : SameFrame(frames[i], frames'[i]),
         frames[n].lty = "If", frames'[n].lty = "Else",
         frames'[n].exit = frames[n].exit, ins' = frames[n].else
  PROVE  /\ NoBlocksShared'
         /\ \A b : Held(b)' <=> \E i \in 1 .. n : Holds(i, b)
<1>1. /\ n \in Nat
      /\ \A i \in 1 .. n : i \in 1 .. n - 1 \/ i = n
      /\ \A i \in 1 .. n - 1 : i \in 1 .. n /\ i # n
      /\ n \in 1 .. n
  BY HeldInBlocks
<1>2. /\ frames[n].exit # ins'
      /\ Holds(n, ins')
      /\ \A b : Holds(n, b)' <=> frames[n].exit = b
      /\ \A b : Holds(n, b) <=> frames[n].exit = b \/ b = ins'
      /\ ~ (frames'[n].lty = "If")
  BY <1>1 DEF NoBlocksShared, Holds
<1>3. ASSUME NEW i \in 1 .. n - 1
      PROVE  /\ \A b : Holds(i, b)' <=> Holds(i, b)
             /\ frames'[i].lty = "If" => frames'[i].exit # frames'[i].else
             /\ \A b : Holds(n, b) => ~ Holds(i, b)
  <2>1. SameFrame(frames[i], frames'[i])
    OBVIOUS
  <2>2. /\ frames[i].lty = "If" => frames[i].exit # frames[i].else
        /\ \A b : Holds(i, b) /\ Holds(n, b) => i = n
    BY <1>1 DEF NoBlocksShared
  <2> QED
    BY <1>1, <2>1, <2>2, HoldsKept
<1>4. ASSUME NEW i \in 1 .. n, NEW j \in 1 .. n, NEW b,
             Holds(i, b)', Holds(j, b)'
      PROVE  i = j
  <2>1. Holds(i, b) /\ Holds(j, b)
    BY <1>1, <1>2, <1>3, <1>4
  <2> QED
    BY <2>1 DEF NoBlocksShared
<1>5. ASSUME NEW i \in 1 .. n, NEW b, b = ins'
      PROVE  ~ Holds(i, b)'
  BY <1>1, <1>2, <1>3, <1>5
<1>6. \A i \in 1 .. n : ~ Holds(i, ins)'
  BY <1>5 DEF Holds
<1>7. \A i \in 1 .. n : frames'[i].lty = "If" => frames'[i].exit # frames'[i].else
  BY <1>1, <1>2, <1>3
<1>8. NoBlocksShared'
  BY <1>4, <1>6, <1>7 DEF NoBlocksShared
<1>9. ASSUME NEW b
      PROVE  Held(b)' <=> \E i \in 1 .. n : Holds(i, b)
  <2>1. Held(b)' <=> b = ins' \/ \E i \in 1 .. n : Holds(i, b)'
    BY DEF Held
  <2> QED
    BY <1>1, <1>2, <1>3, <2>1
<1> QED
  BY <1>8, <1>9

-----------------------------------------------------------------------------
(* What the steps do to the graph.                                         *)

(* The graph of a state, as functions of preds and term.                   *)
LEMMA GraphIs ==
  ASSUME IInv, IInv'
  PROVE  /\ \A x : EdgesFrom(x) = EdgesIn(preds, x)
         /\ \A x : EdgesFrom(x)' = EdgesIn(preds', x)
         /\ \A x : Term(x)' = TermIn(term', x)
         /\ preds \in Seq(Seq(Nat)) /\ Len(preds) = Len(term)
         /\ term \in Seq(Terminators)
         /\ Blocks = 1 .. Len(preds)
<1>1. TypeOK /\ TypeOK'
  BY DEF IInv
<1>2. /\ preds \in Seq(Seq(Nat)) /\ Len(preds) = Len(term)
      /\ preds' \in Seq(Seq(Nat)) /\ Len(preds') = Len(term')
      /\ term \in Seq(Terminators)
  BY <1>1 DEF TypeOK
<1> QED
  BY <1>2, EdgesFromIs, EdgesFromIsNext DEF Term, Blocks

(* An edge into a block of the translation.                                *)
LEMMA EdgeTo ==
  ASSUME IInv, NEW from \in Blocks, NEW b \in Blocks
  PROVE  LET p == PredsWith(b, from)
         IN  /\ p \in Seq(Seq(Nat)) /\ Len(p) = Len(preds)
             /\ EdgesIn(p, from) = EdgesIn(preds, from) \cup {<<b, Len(preds[b]) + 1>>}
             /\ \A x : x # from => EdgesIn(p, x) = EdgesIn(preds, x)
<1>1. /\ from \in Nat
      /\ b \in 1 .. Len(preds)
      /\ preds \in Seq(Seq(Nat))
  BY DEF IInv, TypeOK, Blocks
<1> QED
  BY <1>1, EdgeAdded, ZenonT(40) DEF PredsWith

(* A terminator of a block of the translation.                             *)
LEMMA TermAt ==
  ASSUME IInv, NEW from \in Blocks, NEW t \in Terminators
  PROVE  LET s == Terminated(from, t)
         IN  /\ s \in Seq(Terminators) /\ Len(s) = Len(term)
             /\ \A x : TermIn(s, x) = IF x = from THEN t ELSE TermIn(term, x)
<1>1. from \in 1 .. Len(term) /\ term \in Seq(Terminators)
  BY DEF IInv, TypeOK, Blocks
<1> QED
  BY <1>1, TermSet DEF Terminated

(* A branch.                                                               *)
LEMMA EdgeGrows ==
  ASSUME IInv, IInv', NEW from \in Blocks, NEW b \in Blocks, NEW t \in Terminators,
         preds' = PredsWith(b, from), term' = Terminated(from, t)
  PROVE  /\ Grows(from, t, {<<b, Len(preds[b]) + 1>>})
         /\ Len(term') = Len(term)
<1>1. /\ EdgesIn(preds', from) = EdgesIn(preds, from) \cup {<<b, Len(preds[b]) + 1>>}
      /\ \A x : x # from => EdgesIn(preds', x) = EdgesIn(preds, x)
  BY EdgeTo
<1>2. /\ Len(term') = Len(term)
      /\ \A x : TermIn(term', x) = IF x = from THEN t ELSE TermIn(term, x)
  BY TermAt
<1> QED
  BY <1>1, <1>2, GraphIs DEF Grows, Term

(* A case of a switch.                                                     *)
LEMMA CaseGrows ==
  ASSUME IInv, IInv', NEW from \in Blocks, NEW b \in Blocks, NEW t,
         Term(from) = t, preds' = PredsWith(b, from), term' = term
  PROVE  Grows(from, t, {<<b, Len(preds[b]) + 1>>})
<1>1. /\ EdgesIn(preds', from) = EdgesIn(preds, from) \cup {<<b, Len(preds[b]) + 1>>}
      /\ \A x : x # from => EdgesIn(preds', x) = EdgesIn(preds, x)
  BY EdgeTo
<1> QED
  BY <1>1, GraphIs DEF Grows, Term

(* A conditional branch, to b or to a fresh block.                         *)
LEMMA CondGrows ==
  ASSUME IInv, IInv', NEW from \in Blocks, NEW b \in Blocks, NEW t \in Terminators,
         preds' = Append(PredsWith(b, from), <<from>>),
         term' = Append(Terminated(from, t), "none")
  PROVE  /\ Grows(from, t, {<<b, Len(preds[b]) + 1>>, <<Len(term) + 1, 1>>})
         /\ Len(term') = Len(term) + 1
<1> DEFINE p == PredsWith(b, from)
           s == Terminated(from, t)
<1>1. from \in Nat /\ Len(preds) = Len(term)
  BY GraphIs DEF Blocks
<1>2. /\ p \in Seq(Seq(Nat)) /\ Len(p) = Len(preds)
      /\ EdgesIn(p, from) = EdgesIn(preds, from) \cup {<<b, Len(preds[b]) + 1>>}
      /\ \A x : x # from => EdgesIn(p, x) = EdgesIn(preds, x)
  BY EdgeTo
<1>3. /\ s \in Seq(Terminators) /\ Len(s) = Len(term)
      /\ \A x : TermIn(s, x) = IF x = from THEN t ELSE TermIn(term, x)
  BY TermAt
<1> HIDE DEF p, s
<1>4. /\ EdgesIn(preds', from) = EdgesIn(p, from) \cup {<<Len(p) + 1, 1>>}
      /\ \A x : x # from => EdgesIn(preds', x) = EdgesIn(p, x)
  BY <1>1, <1>2, BlockAddedFrom DEF p
<1>5. /\ Len(term') = Len(s) + 1
      /\ \A x : TermIn(term', x) = TermIn(s, x)
  BY <1>3, TermAdded DEF s
<1>6. /\ EdgesIn(preds', from)
           = EdgesIn(preds, from) \cup {<<b, Len(preds[b]) + 1>>, <<Len(term) + 1, 1>>}
      /\ \A x : x # from => EdgesIn(preds', x) = EdgesIn(preds, x)
  BY <1>1, <1>2, <1>4
<1>7. /\ Len(term') = Len(term) + 1
      /\ \A x : TermIn(term', x) = IF x = from THEN t ELSE TermIn(term, x)
  BY <1>3, <1>5
<1> QED
  BY <1>6, <1>7, GraphIs DEF Grows, Term

(* A terminator without edges.                                             *)
LEMMA TermGrows ==
  ASSUME IInv, IInv', NEW from \in Blocks, NEW t \in Terminators,
         preds' = preds, term' = Terminated(from, t)
  PROVE  /\ Grows(from, t, {})
         /\ Len(term') = Len(term)
<1>1. /\ Len(term') = Len(term)
      /\ \A x : TermIn(term', x) = IF x = from THEN t ELSE TermIn(term, x)
  BY TermAt
<1> QED
  BY <1>1, GraphIs DEF Grows, Term

(* The exit of a block.                                                    *)
LEMMA FreeBlockGrows ==
  ASSUME IInv, IInv', preds' = Append(preds, << >>), term' = Append(term, "none")
  PROVE  /\ SameGraph
         /\ Len(term') = Len(term) + 1
<1>1. preds \in Seq(Seq(Nat)) /\ term \in Seq(Terminators)
  BY GraphIs
<1>2. \A x : EdgesIn(preds', x) = EdgesIn(preds, x)
  BY <1>1, BlockAddedFree
<1>3. /\ Len(term') = Len(term) + 1
      /\ \A x : TermIn(term', x) = TermIn(term, x)
  BY <1>1, TermAdded
<1> QED
  BY <1>2, <1>3, GraphIs DEF SameGraph, Term

(* The block of a loop.                                                    *)
LEMMA LoopBlockGrows ==
  ASSUME IInv, IInv', NEW from \in Blocks, NEW t \in Terminators,
         preds' = Append(preds, <<from>>),
         term' = Append(Terminated(from, t), "none")
  PROVE  /\ Grows(from, t, {<<Len(term) + 1, 1>>})
         /\ Len(term') = Len(term) + 1
<1> DEFINE s == Terminated(from, t)
<1>1. from \in Nat /\ preds \in Seq(Seq(Nat)) /\ Len(preds) = Len(term)
  BY GraphIs DEF Blocks
<1>2. /\ EdgesIn(preds', from) = EdgesIn(preds, from) \cup {<<Len(preds) + 1, 1>>}
      /\ \A x : x # from => EdgesIn(preds', x) = EdgesIn(preds, x)
  BY <1>1, BlockAddedFrom
<1>3. /\ s \in Seq(Terminators) /\ Len(s) = Len(term)
      /\ \A x : TermIn(s, x) = IF x = from THEN t ELSE TermIn(term, x)
  BY TermAt
<1> HIDE DEF s
<1>4. /\ Len(term') = Len(s) + 1
      /\ \A x : TermIn(term', x) = TermIn(s, x)
  BY <1>3, TermAdded DEF s
<1>5. /\ Len(term') = Len(term) + 1
      /\ \A x : TermIn(term', x) = IF x = from THEN t ELSE TermIn(term, x)
  BY <1>3, <1>4
<1> QED
  BY <1>1, <1>2, <1>5, GraphIs DEF Grows, Term

(* Three elements more are three times one element more.                   *)
LEMMA ThreeAppended ==
  ASSUME NEW S, NEW s \in Seq(S), NEW a \in S, NEW b \in S, NEW c \in S
  PROVE  s \o <<a, b, c>> = Append(Append(Append(s, a), b), c)
<1> DEFINE t == <<a, b, c>>
           u == Append(Append(Append(s, a), b), c)
           v == s \o t
<1>1. /\ u \in Seq(S)
      /\ Len(u) = Len(s) + 3
      /\ \A i \in 1 .. Len(s) : u[i] = s[i]
      /\ u[Len(s) + 1] = a
      /\ u[Len(s) + 2] = b
      /\ u[Len(s) + 3] = c
      /\ Len(s) \in Nat
  <2> DEFINE r == Append(s, a)
             q == Append(r, b)
  <2>1. /\ r \in Seq(S) /\ Len(r) = Len(s) + 1
        /\ \A i \in 1 .. Len(s) : r[i] = s[i]
        /\ r[Len(s) + 1] = a
        /\ Len(s) \in Nat
    OBVIOUS
  <2> HIDE DEF r
  <2>2. /\ q \in Seq(S) /\ Len(q) = Len(s) + 2
        /\ \A i \in 1 .. Len(s) + 1 : q[i] = r[i]
        /\ q[Len(s) + 2] = b
    BY <2>1
  <2> HIDE DEF q
  <2>3. /\ Append(q, c) \in Seq(S) /\ Len(Append(q, c)) = Len(s) + 3
        /\ \A i \in 1 .. Len(s) + 2 : Append(q, c)[i] = q[i]
        /\ Append(q, c)[Len(s) + 3] = c
    BY <2>1, <2>2
  <2>4. u = Append(q, c)
    BY DEF q, r
  <2> HIDE DEF u
  <2> QED
    BY <2>1, <2>2, <2>3, <2>4
<1>2. t \in Seq(S) /\ Len(t) = 3 /\ t[1] = a /\ t[2] = b /\ t[3] = c
  OBVIOUS
<1> HIDE DEF t, u
<1>3. /\ v \in Seq(S)
      /\ Len(v) = Len(s) + 3
      /\ \A i \in 1 .. Len(s) + 3 : v[i] = IF i <= Len(s) THEN s[i] ELSE t[i - Len(s)]
  <2>1. /\ v \in Seq(S)
        /\ Len(v) = Len(s) + Len(t)
        /\ \A i \in 1 .. Len(s) + Len(t) :
             v[i] = IF i <= Len(s) THEN s[i] ELSE t[i - Len(s)]
    BY <1>2, ConcatProperties, Zenon
  <2> HIDE DEF v
  <2> QED
    BY <1>2, <2>1
<1> HIDE DEF v
<1>4. ASSUME NEW i \in 1 .. Len(v)
      PROVE  v[i] = u[i]
  <2>1. CASE i <= Len(s)
    BY <1>1, <1>3, <2>1
  <2>2. CASE i = Len(s) + 1
    <3>1. i - Len(s) = 1 /\ ~ (i <= Len(s))
      BY <1>1, <2>2
    <3> QED
      BY <1>1, <1>2, <1>3, <2>2, <3>1
  <2>3. CASE i = Len(s) + 2
    <3>1. i - Len(s) = 2 /\ ~ (i <= Len(s))
      BY <1>1, <2>3
    <3> QED
      BY <1>1, <1>2, <1>3, <2>3, <3>1
  <2>4. CASE i = Len(s) + 3
    <3>1. i - Len(s) = 3 /\ ~ (i <= Len(s))
      BY <1>1, <2>4
    <3> QED
      BY <1>1, <1>2, <1>3, <2>4, <3>1
  <2> QED
    BY <1>1, <1>3, <2>1, <2>2, <2>3, <2>4
<1>5. v = u
  BY <1>1, <1>3, <1>4, SeqEqual
<1> QED
  BY <1>5 DEF v, u, t

(* The three blocks of an if.                                              *)
LEMMA IfBlocksGrow ==
  ASSUME IInv, IInv', NEW from \in Blocks, NEW t \in Terminators,
         preds' = preds \o << <<from>>, <<from>>, << >> >>,
         term' = Terminated(from, t) \o <<"none", "none", "none">>
  PROVE  /\ Grows(from, t, {<<Len(term) + 1, 1>>, <<Len(term) + 2, 1>>})
         /\ Len(term') = Len(term) + 3
<1> DEFINE s == Terminated(from, t)
           p1 == Append(preds, <<from>>)
           p2 == Append(p1, <<from>>)
           s1 == Append(s, "none")
           s2 == Append(s1, "none")
           n == Len(term)
<1>1. /\ from \in Nat
      /\ preds \in Seq(Seq(Nat)) /\ Len(preds) = n
      /\ n \in Nat
      /\ "none" \in Terminators
  BY GraphIs DEF Blocks, Terminators
<1>2. /\ s \in Seq(Terminators) /\ Len(s) = n
      /\ \A x : TermIn(s, x) = IF x = from THEN t ELSE TermIn(term, x)
  BY TermAt
<1>3. preds' = Append(p2, << >>)
  <2>1. <<from>> \in Seq(Nat) /\ << >> \in Seq(Nat)
    BY <1>1
  <2> QED
    BY <1>1, <2>1, ThreeAppended, SMTT(30)
<1>4. term' = Append(s2, "none")
  <2> HIDE DEF s
  <2>1. s \o <<"none", "none", "none">> = Append(Append(Append(s, "none"), "none"), "none")
    BY <1>1, <1>2, ThreeAppended
  <2> QED
    BY <2>1 DEF s
<1> HIDE DEF s, n
<1>5. /\ p1 \in Seq(Seq(Nat)) /\ Len(p1) = n + 1
      /\ EdgesIn(p1, from) = EdgesIn(preds, from) \cup {<<n + 1, 1>>}
      /\ \A x : x # from => EdgesIn(p1, x) = EdgesIn(preds, x)
  BY <1>1, BlockAddedFrom
<1>6. /\ s1 \in Seq(Terminators) /\ Len(s1) = n + 1
      /\ \A x : TermIn(s1, x) = TermIn(s, x)
  BY <1>2, TermAdded
<1> HIDE DEF p1, s1
<1>7. /\ p2 \in Seq(Seq(Nat)) /\ Len(p2) = (n + 1) + 1
      /\ EdgesIn(p2, from) = EdgesIn(p1, from) \cup {<<(n + 1) + 1, 1>>}
      /\ \A x : x # from => EdgesIn(p2, x) = EdgesIn(p1, x)
  BY <1>1, <1>5, BlockAddedFrom
<1>8. /\ s2 \in Seq(Terminators) /\ Len(s2) = (n + 1) + 1
      /\ \A x : TermIn(s2, x) = TermIn(s1, x)
  BY <1>6, TermAdded
<1> HIDE DEF p2, s2
<1>9. \A x : EdgesIn(preds', x) = EdgesIn(p2, x)
  <2>1. \A x : EdgesIn(Append(p2, << >>), x) = EdgesIn(p2, x)
    BY <1>7, BlockAddedFree
  <2> QED
    BY <1>3, <2>1
<1>10. /\ Len(term') = ((n + 1) + 1) + 1
       /\ \A x : TermIn(term', x) = TermIn(s2, x)
  <2>1. /\ Len(Append(s2, "none")) = Len(s2) + 1
        /\ \A x : TermIn(Append(s2, "none"), x) = TermIn(s2, x)
    BY <1>8, TermAdded
  <2> QED
    BY <1>4, <1>8, <2>1
<1>11. (n + 1) + 1 = n + 2 /\ ((n + 1) + 1) + 1 = n + 3
  BY <1>1
<1>12. /\ EdgesIn(preds', from)
            = EdgesIn(preds, from) \cup {<<n + 1, 1>>, <<n + 2, 1>>}
       /\ \A x : x # from => EdgesIn(preds', x) = EdgesIn(preds, x)
  BY <1>5, <1>7, <1>9, <1>11
<1>13. \A x : TermIn(term', x) = IF x = from THEN t ELSE TermIn(term, x)
  BY <1>2, <1>6, <1>8, <1>10
<1>14. Grows(from, t, {<<n + 1, 1>>, <<n + 2, 1>>})
  BY <1>12, <1>13, GraphIs DEF Grows, Term
<1> QED
  BY <1>10, <1>11, <1>14 DEF n

-----------------------------------------------------------------------------
(* The steps.                                                              *)

(* A step that leaves the graph and the nesting alone.                     *)
LEMMA QuietGraph ==
  ASSUME GraphInv, UNCHANGED <<preds, term, ins, frames>>, brt' = brt \/ brt' = 0,
         status' = status \/ status' \in {"abort", "assert"}
  PROVE  GraphInv'
<1>1. SameGraph
  BY DEF SameGraph, Term, EdgesFrom, Blocks
<1>2. EdgesOK'
  BY <1>1, SameGraphKeeps DEF GraphInv
<1>3. SwitchOK'
  BY DEF SwitchOK, GraphInv, Term
<1>4. NoBlocksShared'
  <2>1. \A i : ~ Holds(i, ins)' <=> ~ Holds(i, ins)
    BY DEF Holds
  <2>2. \A b, i : Holds(i, b)' <=> Holds(i, b)
    BY DEF Holds
  <2>3. status' = "visit" => status = "visit"
    OBVIOUS
  <2> QED
    BY <2>1, <2>2, <2>3 DEF NoBlocksShared, GraphInv
<1>5. OpenOK'
  <2>1. /\ Blocks' = Blocks
        /\ \A b : Held(b)' <=> Held(b)
        /\ \A b : Term(b)' = Term(b)
    <3>1. \A b, i : Holds(i, b)' <=> Holds(i, b)
      BY DEF Holds
    <3>2. \A b : Held(b)' <=> Held(b)
      BY <3>1 DEF Held
    <3> QED
      BY <3>2 DEF Blocks, Term
  <2>2. status' = "visit" => status = "visit"
    OBVIOUS
  <2>3. status' = "done" => status = "done"
    OBVIOUS
  <2>4. status = "visit" => \A b \in Blocks : Term(b) = "none" <=> Held(b)
    BY DEF OpenOK, GraphInv
  <2>5. status = "done" => \A b \in Blocks : Term(b) # "none"
    BY DEF OpenOK, GraphInv
  <2> QED
    BY <2>1, <2>2, <2>3, <2>4, <2>5 DEF OpenOK
<1> QED
  BY <1>2, <1>3, <1>4, <1>5 DEF GraphInv

(* A step that is refused.                                                 *)
LEMMA StopGraph ==
  ASSUME GraphInv, Abort \/ AssertFails
  PROVE  GraphInv'
BY QuietGraph DEF Abort, AssertFails

(* A new terminator is not that of the switch that waits, which is         *)
(* terminated.                                                             *)
LEMMA GrownSwitch ==
  ASSUME IInv, GraphInv, status = "visit", NEW from, NEW t, NEW E,
         Grows(from, t, E), from \in Blocks, Term(from) = "none",
         brt' = brt \/ brt' = 0 \/ (brt' = from /\ t = "switch")
  PROVE  SwitchOK'
<1>1. TermIn(term', brt') = IF brt' = from THEN t ELSE Term(brt')
  BY DEF Grows, Term
<1>2. brt # 0 => Term(brt) = "switch"
  BY DEF SwitchOK, GraphInv
<1>3. brt' # 0 => TermIn(term', brt') = "switch"
  BY <1>1, <1>2
<1> QED
  BY <1>3 DEF SwitchOK, Term

(* A terminator at the insertion point, after which the translation goes   *)
(* on in a fresh block, or nowhere.                                        *)
LEMMA InsGraph ==
  ASSUME IInv, IInv', GraphInv, status = "visit", status' = status, ins # 0,
         Len(frames') = Len(frames),
         \A i \in 1 .. Len(frames) : SameFrame(frames[i], frames'[i]),
         NEW t, t # "none", NEW E, Grows(ins, t, E), HasEdges(t, E),
         \/ ins' = 0 /\ Len(term') = Len(term)
         \/ ins' = Len(term) + 1 /\ Len(term') = Len(term) + 1,
         brt' = brt \/ (brt' = ins /\ t = "switch")
  PROVE  GraphInv'
<1>1. EdgesOK /\ OpenOK /\ NoBlocksShared /\ SwitchOK
  BY DEF GraphInv
<1>2. EdgesOK'
  BY <1>1, GrownAtIns
<1>3. ins \in Blocks /\ Term(ins) = "none"
  BY <1>1, InsFree
<1>4. SwitchOK'
  BY <1>3, GrownSwitch
<1>5. NoBlocksShared' /\ OpenOK'
  BY <1>1, InsMoves
<1> QED
  BY <1>2, <1>4, <1>5 DEF GraphInv

(* Nothing changes in the nesting.                                         *)
LEMMA SameNesting ==
  ASSUME frames' = frames
  PROVE  /\ Len(frames') = Len(frames)
         /\ \A i \in 1 .. Len(frames) : SameFrame(frames[i], frames'[i])
BY DEF SameFrame

(* unreachable terminates the block without an edge.                       *)
LEMMA UnreachableGraph ==
  ASSUME IInv, IInv', GraphInv, Unreachable
  PROVE  GraphInv'
<1>1. /\ Reachable
      /\ preds' = preds
      /\ term' = Terminated(ins, "unreachable")
      /\ ins' = 0
      /\ frames' = frames
      /\ brt' = brt
      /\ status' = status
  BY DEF Unreachable, VisitUnreachable, Terminated
<1>2. status = "visit" /\ ins \in Blocks /\ ins # 0
  BY <1>1, ReachableFacts DEF Reachable
<1>3. /\ Grows(ins, "unreachable", {})
      /\ Len(term') = Len(term)
  BY <1>1, <1>2, TermGrows DEF Terminators
<1>4. HasEdges("unreachable", {})
  BY DEF HasEdges
<1> QED
  BY <1>1, <1>2, <1>3, <1>4, SameNesting, InsGraph

(* br terminates the block with one edge.                                  *)
LEMMA BrGraph ==
  ASSUME IInv, IInv', GraphInv, NEW l \in VDepths, Br(l)
  PROVE  GraphInv'
<1> DEFINE b == Target(l).target
<1>1. Reachable
  BY DEF Br
<1>2. status = "visit" /\ ins \in Blocks /\ ins # 0 /\ b \in Blocks
  BY <1>1, ReachableFacts, TargetFacts DEF Reachable
<1>3. CASE Len(stack) < Len(phis[b])
  BY <1>3, StopGraph DEF Br, Requires
<1>4. CASE ~ (Len(stack) < Len(phis[b]))
  <2> DEFINE E == {<<b, Len(preds[b]) + 1>>}
  <2>1. /\ preds' = PredsWith(b, ins)
        /\ term' = Terminated(ins, "br")
        /\ ins' = 0
        /\ frames' = frames
        /\ brt' = brt
        /\ status' = status
    BY <1>4 DEF Br, Requires
  <2> HIDE DEF b
  <2>2. Grows(ins, "br", E) /\ Len(term') = Len(term)
    BY <1>2, <2>1, EdgeGrows DEF Terminators
  <2>3. HasEdges("br", E)
    BY DEF HasEdges
  <2> HIDE DEF E
  <2> QED
    BY <1>2, <2>1, <2>2, <2>3, SameNesting, InsGraph
<1> QED
  BY <1>3, <1>4

(* br_table makes the switch, with its default edge.                       *)
LEMMA BrTableGraph ==
  ASSUME IInv, IInv', GraphInv, NEW l \in VDepths, BrTable(l)
  PROVE  GraphInv'
<1> DEFINE b == Target(l).target
<1>1. Reachable
  BY DEF BrTable
<1>2. status = "visit" /\ ins \in Blocks /\ ins # 0 /\ b \in Blocks
  BY <1>1, ReachableFacts, TargetFacts DEF Reachable
<1>3. CASE Len(stack) < 1 + Len(phis[b])
  BY <1>3, StopGraph DEF BrTable, Requires
<1>4. CASE ~ (Len(stack) < 1 + Len(phis[b]))
  <2> DEFINE E == {<<b, Len(preds[b]) + 1>>}
  <2>1. /\ preds' = PredsWith(b, ins)
        /\ term' = Terminated(ins, "switch")
        /\ ins' = 0
        /\ frames' = frames
        /\ brt' = ins
        /\ status' = status
    BY <1>4 DEF BrTable, Requires
  <2> HIDE DEF b
  <2>2. Grows(ins, "switch", E) /\ Len(term') = Len(term)
    BY <1>2, <2>1, EdgeGrows DEF Terminators
  <2>3. HasEdges("switch", E)
    BY FS_Singleton DEF HasEdges
  <2> HIDE DEF E
  <2> QED
    BY <1>2, <2>1, <2>2, <2>3, SameNesting, InsGraph
<1> QED
  BY <1>3, <1>4

(* br_if terminates the block with two edges and goes on in a fresh one.   *)
LEMMA BrIfGraph ==
  ASSUME IInv, IInv', GraphInv, NEW l \in VDepths, BrIf(l)
  PROVE  GraphInv'
<1> DEFINE b == Target(l).target
           next == Len(term) + 1
<1>1. Reachable
  BY DEF BrIf
<1>2. /\ status = "visit" /\ ins \in Blocks /\ ins # 0 /\ b \in Blocks
      /\ Len(term) \in Nat
      /\ Len(frames) > 0
      /\ TypeOK
  BY <1>1, ReachableFacts, TargetFacts, FrameFacts DEF Reachable, IInv
<1>3. CASE Len(stack) < 1 + Len(phis[b])
  BY <1>3, StopGraph DEF BrIf, Requires
<1>4. CASE ~ (Len(stack) < 1 + Len(phis[b]))
  <2> DEFINE E == {<<b, Len(preds[b]) + 1>>, <<next, 1>>}
  <2>1. /\ preds' = Append(PredsWith(b, ins), <<ins>>)
        /\ term' = Append(Terminated(ins, "condbr"), "none")
        /\ ins' = next
        /\ frames' = SetEntry(next)
        /\ brt' = brt
        /\ status' = status
    BY <1>4 DEF BrIf, Requires
  <2>2. next \in Nat /\ next \notin Blocks
    BY <1>2 DEF Blocks
  <2>3. /\ Len(frames') = Len(frames)
        /\ \A i \in 1 .. Len(frames) : SameFrame(frames[i], frames'[i])
    BY <1>2, <2>1, <2>2, SetEntryFacts
  <2> HIDE DEF b
  <2>4. Grows(ins, "condbr", E) /\ Len(term') = Len(term) + 1
    BY <1>2, <2>1, CondGrows DEF Terminators
  <2>5. HasEdges("condbr", E)
    <3>1. b # next
      BY <1>2, <2>2
    <3>2. <<b, Len(preds[b]) + 1>> # <<next, 1>>
      BY <3>1
    <3> QED
      BY <3>2 DEF HasEdges
  <2> HIDE DEF E
  <2> QED
    BY <1>2, <2>1, <2>3, <2>4, <2>5, InsGraph
<1> QED
  BY <1>3, <1>4

(* A target of br_table adds an edge to the switch.                        *)
LEMMA BrTableTargetGraph ==
  ASSUME IInv, IInv', GraphInv, NEW l \in VDepths, BrTableTarget(l)
  PROVE  GraphInv'
<1> DEFINE b == Target(l).target
<1>1. status = "visit" /\ brt # 0
  BY DEF BrTableTarget, BrTableCase
<1>2. b \in Blocks /\ brt \in Blocks /\ Term(brt) = "switch"
  BY <1>1, TargetFacts DEF IInv, BlocksOK, TypeOK, Blocks, GraphInv, SwitchOK
<1>3. CASE Len(stack) < Len(phis[b])
  BY <1>3, StopGraph DEF BrTableTarget, BrTableCase
<1>4. CASE ~ (Len(stack) < Len(phis[b]))
  <2> DEFINE e == <<b, Len(preds[b]) + 1>>
  <2>1. /\ preds' = PredsWith(b, brt)
        /\ term' = term
        /\ ins' = ins
        /\ frames' = frames
        /\ brt' = brt
        /\ status' = status
    BY <1>4 DEF BrTableTarget, BrTableCase
  <2> HIDE DEF b
  <2>2. Grows(brt, "switch", {e})
    BY <1>2, <2>1, CaseGrows
  <2> HIDE DEF e
  <2>3. HasEdges("switch", EdgesFrom(brt) \cup {e})
    <3>1. HasEdges("switch", EdgesFrom(brt))
      BY <1>2 DEF GraphInv, EdgesOK
    <3>2. IsFiniteSet(EdgesFrom(brt))
      BY <3>1 DEF HasEdges
    <3>3. IsFiniteSet(EdgesFrom(brt) \cup {e})
      BY <3>2, FS_AddElement
    <3> QED
      BY <3>3 DEF HasEdges
  <2>4. EdgesOK'
    BY <2>2, <2>3, GrownEdges DEF GraphInv
  <2>5. SwitchOK'
    BY <1>2, <2>1 DEF SwitchOK, Term
  <2>6. \A i, c : Holds(i, c)' <=> Holds(i, c)
    BY <2>1 DEF Holds
  <2>7. \A i : Holds(i, ins)' <=> Holds(i, ins)
    BY <2>1 DEF Holds
  <2>8. NoBlocksShared'
    BY <1>1, <2>1, <2>6, <2>7 DEF NoBlocksShared, GraphInv
  <2>9. OpenOK'
    <3>1. \A c : Held(c)' <=> Held(c)
      BY <2>1, <2>6 DEF Held
    <3>2. \A c : Term(c)' = Term(c)
      BY <2>1 DEF Term
    <3> QED
      BY <1>1, <2>1, <3>1, <3>2 DEF OpenOK, GraphInv, Blocks
  <2> QED
    BY <2>4, <2>5, <2>8, <2>9 DEF GraphInv
<1> QED
  BY <1>3, <1>4

-----------------------------------------------------------------------------
(* Blocks that are entered.                                                *)

(* What a call of visitBlock does to the nesting.                          *)
LEMMA CallNests ==
  ASSUME IInv, status = "visit", NEW b \in Nat, NEW f, frames' = Call(b, f),
         NEW n, n = Len(frames)
  PROVE  /\ n \in Nat
         /\ Len(frames') = n + 1
         /\ frames'[n + 1] = f
         /\ \A i \in 1 .. n : SameFrame(frames[i], frames'[i])
<1> DEFINE s == SetEntry(b)
<1>1. TypeOK /\ n \in Nat /\ n > 0
  BY FrameFacts DEF IInv
<1>2. /\ s \in Seq(FrameType)
      /\ Len(s) = n
      /\ \A i \in 1 .. n : SameFrame(frames[i], s[i])
  BY <1>1, SetEntryFacts
<1>3. frames' = Append(s, f)
  BY DEF Call
<1> HIDE DEF s
<1>4. /\ Len(frames') = n + 1
      /\ frames'[n + 1] = f
      /\ \A i \in 1 .. n : frames'[i] = s[i]
  BY <1>1, <1>2, <1>3
<1> QED
  BY <1>1, <1>2, <1>4

(* block adds its exit and waits for it.                                   *)
LEMMA BlockGraph ==
  ASSUME IInv, IInv', GraphInv, NEW np \in Nat, NEW nr \in Nat, EnterBlock(np, nr)
  PROVE  GraphInv'
<1> DEFINE exit == Len(term) + 1
           f == [lty |-> "Block", entry |-> Frame.entry, exit |-> exit,
                 pos |-> PosUnder(stack, np), results |-> nr, saved |-> << >>,
                 else |-> 0]
<1> SUFFICES ASSUME NEW n, n = Len(frames)
             PROVE  GraphInv'
  OBVIOUS
<1>1. /\ Reachable
      /\ preds' = Append(preds, << >>)
      /\ term' = Append(term, "none")
      /\ ins' = Frame.entry
      /\ frames' = Call(Frame.entry, f)
      /\ brt' = brt
      /\ status' = status
  BY DEF EnterBlock
<1>2. /\ status = "visit" /\ brt = 0 /\ ins \in Nat /\ ins \in Blocks
      /\ Frame.entry = ins /\ Len(term) \in Nat
  BY <1>1, ReachableFacts
<1>3. f.lty = "Block" /\ f.exit = exit
  OBVIOUS
<1> HIDE DEF f
<1>4. /\ n \in Nat
      /\ Len(frames') = n + 1
      /\ frames'[n + 1] = f
      /\ \A i \in 1 .. n : SameFrame(frames[i], frames'[i])
  BY <1>1, <1>2, CallNests
<1>5. \A b : Holds(n + 1, b)' <=> b = exit
  BY <1>3, <1>4 DEF Holds
<1>6. exit \notin Blocks /\ exit # ins
  BY <1>2 DEF Blocks
<1>7. /\ NoBlocksShared'
      /\ \A b : Held(b)' <=> \/ b = ins'
                             \/ \E i \in 1 .. n : Holds(i, b)
                             \/ Holds(n + 1, b)'
  <2>1. /\ \A b : Holds(n + 1, b)' => b \notin Blocks /\ b # ins'
        /\ ins' = ins
        /\ ~ (frames'[n + 1].lty = "If")
        /\ status' = "visit"
        /\ NoBlocksShared
    BY <1>1, <1>2, <1>3, <1>4, <1>5, <1>6 DEF GraphInv
  <2> QED
    BY <1>2, <1>4, <2>1, FrameOpened
<1>8. SameGraph /\ Len(term') = Len(term) + 1
  BY <1>1, FreeBlockGrows
<1>9. EdgesOK'
  BY <1>8, SameGraphKeeps DEF GraphInv
<1>10. SwitchOK'
  BY <1>1, <1>2 DEF SwitchOK
<1>11. OpenOK'
  <2>1. \A b \in Blocks' : b \notin Blocks => b = exit
    BY <1>2, <1>8 DEF Blocks
  <2>2. \A b \in Blocks' : Held(b)' <=> b \notin Blocks \/ Held(b)
    BY <1>1, <1>2, <1>5, <1>6, <1>7, <2>1 DEF Held
  <2>3. OpenOK /\ status' = "visit"
    BY <1>1, <1>2 DEF GraphInv
  <2> QED
    BY <1>2, <1>8, <2>2, <2>3, OpenSame
<1> QED
  BY <1>7, <1>9, <1>10, <1>11 DEF GraphInv

(* A loop's frame waits for no block.                                      *)
LEMMA LoopGraph ==
  ASSUME IInv, IInv', GraphInv, NEW np \in Nat, NEW nr \in Nat, EnterLoop(np, nr)
  PROVE  GraphInv'
<1> DEFINE loop == Len(term) + 1
           f == [lty |-> "Loop", entry |-> loop, exit |-> Frame.exit,
                 pos |-> PosUnder(stack, np), results |-> nr, saved |-> << >>,
                 else |-> 0]
           E == {<<loop, 1>>}
<1> SUFFICES ASSUME NEW n, n = Len(frames)
             PROVE  GraphInv'
  OBVIOUS
<1>1. Reachable
  BY DEF EnterLoop
<1>2. /\ status = "visit" /\ brt = 0 /\ ins \in Nat /\ ins \in Blocks
      /\ ins # 0 /\ Len(term) \in Nat
  BY <1>1, ReachableFacts DEF Reachable
<1>3. CASE Len(stack) < np
  BY <1>3, StopGraph DEF EnterLoop, Requires
<1>4. CASE ~ (Len(stack) < np)
  <2>1. /\ preds' = Append(preds, <<ins>>)
        /\ term' = Append(Terminated(ins, "br"), "none")
        /\ ins' = loop
        /\ frames' = Call(loop, f)
        /\ brt' = brt
        /\ status' = status
    BY <1>4 DEF EnterLoop, Requires
  <2>2. f.lty = "Loop" /\ loop \in Nat
    BY <1>2
  <2> HIDE DEF f
  <2>3. /\ n \in Nat
        /\ Len(frames') = n + 1
        /\ frames'[n + 1] = f
        /\ \A i \in 1 .. n : SameFrame(frames[i], frames'[i])
    BY <1>2, <2>1, <2>2, CallNests
  <2>4. \A b : ~ Holds(n + 1, b)'
    BY <2>2, <2>3 DEF Holds
  <2>5. loop \notin Blocks
    BY <1>2 DEF Blocks
  <2>6. /\ NoBlocksShared'
        /\ \A b : Held(b)' <=> \/ b = ins'
                               \/ \E i \in 1 .. n : Holds(i, b)
                               \/ Holds(n + 1, b)'
    <3>1. /\ \A b : Holds(n + 1, b)' => b \notin Blocks /\ b # ins'
          /\ ins' \notin Blocks
          /\ ~ (frames'[n + 1].lty = "If")
          /\ status' = "visit"
          /\ NoBlocksShared
      BY <1>2, <2>1, <2>2, <2>3, <2>4, <2>5 DEF GraphInv
    <3> QED
      BY <1>2, <2>3, <3>1, FrameOpened
  <2>7. Grows(ins, "br", E) /\ Len(term') = Len(term) + 1
    BY <1>2, <2>1, LoopBlockGrows DEF Terminators
  <2>8. HasEdges("br", E)
    BY DEF HasEdges
  <2> HIDE DEF E
  <2>9. EdgesOK'
    BY <1>2, <2>7, <2>8, GrownAtIns DEF GraphInv
  <2>10. SwitchOK'
    BY <1>2, <2>1 DEF SwitchOK
  <2>11. OpenOK'
    <3>1. \A x : Term(x)' = IF x = ins THEN "br" ELSE Term(x)
      BY <2>7 DEF Grows
    <3>2. \A b \in Blocks' : b \notin Blocks => b = loop
      BY <1>2, <2>7 DEF Blocks
    <3>3. \A i \in 1 .. n : ~ Holds(i, ins)
      BY <1>2 DEF GraphInv, NoBlocksShared
    <3>4. \A b \in Blocks' : Held(b)' <=> b \notin Blocks \/ (Held(b) /\ b # ins)
      BY <1>2, <2>1, <2>4, <2>5, <2>6, <3>2, <3>3 DEF Held
    <3>5. OpenOK /\ status' = "visit"
      BY <1>2, <2>1 DEF GraphInv
    <3> QED
      BY <1>2, <3>1, <3>4, <3>5, OpenKept
  <2> QED
    BY <2>6, <2>9, <2>10, <2>11 DEF GraphInv
<1> QED
  BY <1>3, <1>4

(* The then arm is entered; the frame waits for the else arm and the exit. *)
LEMMA IfGraph ==
  ASSUME IInv, IInv', GraphInv, NEW np \in Nat, NEW nr \in Nat, EnterIf(np, nr)
  PROVE  GraphInv'
<1> DEFINE then == Len(term) + 1
           else == Len(term) + 2
           exit == Len(term) + 3
           f == [lty |-> "If", entry |-> then, exit |-> exit,
                 pos |-> PosUnder(Drop1(stack), np), results |-> nr,
                 saved |-> LastN(Drop1(stack), np), else |-> else]
           E == {<<then, 1>>, <<else, 1>>}
<1> SUFFICES ASSUME NEW n, n = Len(frames)
             PROVE  GraphInv'
  OBVIOUS
<1>1. Reachable
  BY DEF EnterIf
<1>2. /\ status = "visit" /\ brt = 0 /\ ins \in Nat /\ ins \in Blocks
      /\ ins # 0 /\ Len(term) \in Nat
  BY <1>1, ReachableFacts DEF Reachable
<1>3. CASE Len(stack) < np + 1
  BY <1>3, StopGraph DEF EnterIf, Requires
<1>4. CASE ~ (Len(stack) < np + 1)
  <2>1. /\ preds' = preds \o << <<ins>>, <<ins>>, << >> >>
        /\ term' = Terminated(ins, "condbr") \o <<"none", "none", "none">>
        /\ ins' = then
        /\ frames' = Call(then, f)
        /\ brt' = brt
        /\ status' = status
    BY <1>4 DEF EnterIf, Requires
  <2>2. f.lty = "If" /\ f.exit = exit /\ f.else = else /\ then \in Nat
    BY <1>2
  <2> HIDE DEF f
  <2>3. /\ n \in Nat
        /\ Len(frames') = n + 1
        /\ frames'[n + 1] = f
        /\ \A i \in 1 .. n : SameFrame(frames[i], frames'[i])
    BY <1>2, <2>1, <2>2, CallNests
  <2>4. \A b : Holds(n + 1, b)' <=> b = exit \/ b = else
    BY <2>2, <2>3 DEF Holds
  <2>5. /\ then \notin Blocks /\ else \notin Blocks /\ exit \notin Blocks
        /\ then # else /\ then # exit /\ exit # else
    BY <1>2 DEF Blocks
  <2>6. /\ NoBlocksShared'
        /\ \A b : Held(b)' <=> \/ b = ins'
                               \/ \E i \in 1 .. n : Holds(i, b)
                               \/ Holds(n + 1, b)'
    <3>1. /\ \A b : Holds(n + 1, b)' => b \notin Blocks /\ b # ins'
          /\ ins' \notin Blocks
          /\ frames'[n + 1].exit # frames'[n + 1].else
          /\ status' = "visit"
          /\ NoBlocksShared
      BY <1>2, <2>1, <2>2, <2>3, <2>4, <2>5 DEF GraphInv
    <3> QED
      BY <1>2, <2>3, <3>1, FrameOpened
  <2>7. Grows(ins, "condbr", E) /\ Len(term') = Len(term) + 3
    BY <1>2, <2>1, IfBlocksGrow DEF Terminators
  <2>8. HasEdges("condbr", E)
    <3>1. <<then, 1>> # <<else, 1>>
      BY <2>5
    <3> QED
      BY <3>1 DEF HasEdges
  <2> HIDE DEF E
  <2>9. EdgesOK'
    BY <1>2, <2>7, <2>8, GrownAtIns DEF GraphInv
  <2>10. SwitchOK'
    BY <1>2, <2>1 DEF SwitchOK
  <2>11. OpenOK'
    <3>1. \A x : Term(x)' = IF x = ins THEN "condbr" ELSE Term(x)
      BY <2>7 DEF Grows
    <3>2. \A b \in Blocks' : b \notin Blocks => b = then \/ b = else \/ b = exit
      BY <1>2, <2>7 DEF Blocks
    <3>3. \A i \in 1 .. n : ~ Holds(i, ins)
      BY <1>2 DEF GraphInv, NoBlocksShared
    <3>4. \A b \in Blocks' : Held(b)' <=> b \notin Blocks \/ (Held(b) /\ b # ins)
      <4> HIDE DEF then, else, exit
      <4> QED
        BY <1>2, <2>1, <2>4, <2>5, <2>6, <3>2, <3>3 DEF Held
    <3>5. OpenOK /\ status' = "visit"
      BY <1>2, <2>1 DEF GraphInv
    <3> QED
      BY <1>2, <3>1, <3>4, <3>5, OpenKept
  <2> QED
    BY <2>6, <2>9, <2>10, <2>11 DEF GraphInv
<1> QED
  BY <1>3, <1>4

-----------------------------------------------------------------------------
(* Blocks that are left.                                                   *)

(* The edge to the exit, if there is one.                                  *)
LEMMA JoinEdges ==
  ASSUME IInv, IInv', Leaving, JoinExit, NEW from, from = ins
  PROVE  LET e == <<Frame.exit, Len(preds[Frame.exit]) + 1>>
         IN  \A x : EdgesFrom(x)' = IF x = from /\ from # 0
                                   THEN EdgesFrom(x) \cup {e} ELSE EdgesFrom(x)
<1> DEFINE b == Frame.exit
           e == <<b, Len(preds[b]) + 1>>
<1>1. b \in Blocks
  BY FrameFacts DEF Leaving
<1>2. /\ \A x : EdgesFrom(x) = EdgesIn(preds, x)
      /\ \A x : EdgesFrom(x)' = EdgesIn(preds', x)
  BY GraphIs
<1>3. CASE from # 0
  <2>1. from \in Blocks /\ preds' = PredsWith(b, from)
    BY <1>3, ExitFacts DEF JoinExit
  <2> HIDE DEF b
  <2>2. /\ EdgesIn(preds', from) = EdgesIn(preds, from) \cup {e}
        /\ \A x : x # from => EdgesIn(preds', x) = EdgesIn(preds, x)
    BY <1>1, <2>1, EdgeTo
  <2> HIDE DEF e
  <2>3. \A x : EdgesFrom(x)' = IF x = from THEN EdgesFrom(x) \cup {e} ELSE EdgesFrom(x)
    BY <1>2, <2>2
  <2> QED
    BY <1>3, <2>3 DEF e, b
<1>4. CASE from = 0
  BY <1>2, <1>4 DEF JoinExit
<1> QED
  BY <1>3, <1>4

(* ... and its branch.                                                     *)
LEMMA JoinTerm ==
  ASSUME IInv, Leaving
  PROVE  /\ TermAtJoin \in Seq(Terminators)
         /\ Len(TermAtJoin) = Len(term)
         /\ \A x : TermIn(TermAtJoin, x) = IF x = ins /\ ins # 0
                                           THEN "br" ELSE Term(x)
<1>1. CASE ins # 0
  <2>1. ins \in Blocks /\ TermAtJoin = Terminated(ins, "br")
    BY <1>1, ExitFacts DEF TermAtJoin
  <2> QED
    BY <1>1, <2>1, TermAt DEF Term, Terminators
<1>2. CASE ins = 0
  BY <1>2 DEF TermAtJoin, Term, IInv, TypeOK
<1> QED
  BY <1>1, <1>2

(* A block or an arm is left, and the insertion point is where one of the  *)
(* frames waits.                                                           *)
LEMMA JoinGraph ==
  ASSUME IInv, IInv', EdgesOK, OpenOK, NoBlocksShared, Leaving, JoinExit,
         term' = TermAtJoin, status' = status,
         NEW n, n = Len(frames),
         \A b : Held(b)' <=> \E i \in 1 .. n : Holds(i, b)
  PROVE  EdgesOK' /\ OpenOK'
<1> DEFINE e == <<Frame.exit, Len(preds[Frame.exit]) + 1>>
<1>1. /\ status = "visit"
      /\ Len(term) \in Nat
      /\ Len(term') = Len(term)
      /\ \A i \in 1 .. n : ~ Holds(i, ins)
  BY JoinTerm DEF Leaving, NoBlocksShared, IInv, TypeOK
<1>2. Blocks' = Blocks /\ 0 \notin Blocks
  BY <1>1 DEF Blocks
<1>3. \A b : Held(b) <=> b = ins \/ \E i \in 1 .. n : Holds(i, b)
  BY DEF Held
<1>4. \A x : Term(x)' = IF x = ins /\ ins # 0 THEN "br" ELSE Term(x)
  BY JoinTerm DEF Term
<1>5. \A x : EdgesFrom(x)' = IF x = ins /\ ins # 0
                             THEN EdgesFrom(x) \cup {e} ELSE EdgesFrom(x)
  BY JoinEdges
<1> HIDE DEF e
<1>6. CASE ins # 0
  <2>1. Grows(ins, "br", {e})
    BY <1>4, <1>5, <1>6 DEF Grows
  <2>2. HasEdges("br", {e})
    BY DEF HasEdges
  <2>3. EdgesOK'
    BY <1>1, <1>6, <2>1, <2>2, GrownAtIns
  <2>4. ins \in Blocks
    BY <1>1, <1>6, InsFree
  <2>5. \A b \in Blocks' : Held(b)' <=> b \notin Blocks \/ (Held(b) /\ b # ins)
    BY <1>1, <1>2, <1>3
  <2>6. \A x : Term(x)' = IF x = ins THEN "br" ELSE Term(x)
    BY <1>4, <1>6
  <2>7. OpenOK'
    BY <1>1, <2>4, <2>5, <2>6, OpenKept
  <2> QED
    BY <2>3, <2>7
<1>7. CASE ins = 0
  <2>1. SameGraph
    BY <1>4, <1>5, <1>7 DEF SameGraph
  <2>2. \A b \in Blocks' : Held(b)' <=> b \notin Blocks \/ Held(b)
    BY <1>2, <1>3, <1>7
  <2>3. OpenOK'
    BY <1>1, <2>1, <2>2, OpenSame
  <2> QED
    BY <2>1, <2>3, SameGraphKeeps
<1> QED
  BY <1>6, <1>7

(* What the return of visitBlock does to the nesting.                      *)
LEMMA ReturnNests ==
  ASSUME IInv, status = "visit", Frame.lty # "Func", NEW n, n = Len(frames)
  PROVE  /\ n \in Nat
         /\ n > 1
         /\ Frame = frames[n]
         /\ Frame.exit \in Nat
         /\ Frame.lty = "If" => Frame.else \in Nat
         /\ \A b \in Nat :
              /\ ReturnTo(b) \in Seq(FrameType)
              /\ Len(ReturnTo(b)) = n - 1
              /\ \A i \in 1 .. n - 1 : SameFrame(frames[i], ReturnTo(b)[i])
<1>1. /\ n \in Nat \ {0}
      /\ Frame = frames[n]
      /\ FrameOK(n)
      /\ TypeOK
      /\ Frame.exit \in Nat
      /\ Frame.lty = "If" => Frame.else \in Nat
  BY FrameFacts DEF IInv, Blocks
<1>2. n # 1
  BY <1>1 DEF FrameOK
<1>3. n > 1
  BY <1>1, <1>2
<1> QED
  BY <1>1, <1>3, ReturnToFacts

(* The end of a block branches to its exit and goes on there.              *)
LEMMA BlockEndsGraph ==
  ASSUME IInv, IInv', GraphInv, BlockEnds
  PROVE  GraphInv'
<1> SUFFICES ASSUME NEW n, n = Len(frames)
             PROVE  GraphInv'
  OBVIOUS
<1>1. /\ status = "visit" /\ brt = 0 /\ Frame.lty \in {"Block", "Else"}
      /\ EdgesOK /\ OpenOK /\ NoBlocksShared
  BY DEF BlockEnds, EndBlock, Visiting, GraphInv
<1>2. CASE LeaveAborts
  BY <1>2, StopGraph DEF BlockEnds, EndBlock
<1>3. CASE ~ LeaveAborts
  <2>1. /\ JoinExit
        /\ term' = TermAtJoin
        /\ ins' = Frame.exit
        /\ frames' = ReturnTo(Frame.exit)
        /\ brt' = 0
        /\ status' = status
    BY <1>1, <1>3 DEF BlockEnds, EndBlock
  <2>2. Leaving
    BY <1>1, <1>3 DEF Leaving
  <2>3. /\ n \in Nat
        /\ n > 0
        /\ Frame = frames[n]
        /\ Len(frames') = n - 1
        /\ \A i \in 1 .. n - 1 : SameFrame(frames[i], frames'[i])
    BY <1>1, <2>1, ReturnNests
  <2>4. \A b : Holds(n, b) <=> b = ins'
    BY <1>1, <2>1, <2>3 DEF Holds
  <2>5. /\ NoBlocksShared'
        /\ \A b : Held(b)' <=> b = ins' \/ \E i \in 1 .. n - 1 : Holds(i, b)
    BY <1>1, <2>1, <2>3, <2>4, FrameClosed
  <2>6. \A b : Held(b)' <=> \E i \in 1 .. n : Holds(i, b)
    <3>1. \A i : i \in 1 .. n <=> i \in 1 .. n - 1 \/ i = n
      BY <2>3
    <3> QED
      BY <2>4, <2>5, <3>1
  <2>7. EdgesOK' /\ OpenOK'
    BY <1>1, <2>1, <2>2, <2>6, JoinGraph
  <2>8. SwitchOK'
    BY <2>1 DEF SwitchOK
  <2> QED
    BY <2>5, <2>7, <2>8 DEF GraphInv
<1> QED
  BY <1>2, <1>3

(* The end of a then arm branches to the exit and goes on in the else arm. *)
LEMMA ThenEndsGraph ==
  ASSUME IInv, IInv', GraphInv, ThenEnds
  PROVE  GraphInv'
<1> SUFFICES ASSUME NEW n, n = Len(frames)
             PROVE  GraphInv'
  OBVIOUS
<1> DEFINE f == [Frame EXCEPT !.lty = "Else", !.entry = Frame.else,
                              !.saved = << >>, !.else = 0]
           r == ReturnTo(Frame.else)
<1>1. /\ status = "visit" /\ brt = 0 /\ Frame.lty = "If"
      /\ EdgesOK /\ OpenOK /\ NoBlocksShared
  BY DEF ThenEnds, EndThen, Visiting, GraphInv
<1>2. CASE LeaveAborts
  BY <1>2, StopGraph DEF ThenEnds, EndThen
<1>3. CASE ~ LeaveAborts
  <2>1. /\ JoinExit
        /\ term' = TermAtJoin
        /\ ins' = Frame.else
        /\ frames' = Append(r, f)
        /\ brt' = 0
        /\ status' = status
    BY <1>1, <1>3 DEF ThenEnds, EndThen
  <2>2. Leaving
    BY <1>1, <1>3 DEF Leaving
  <2>3. /\ n \in Nat
        /\ n > 0
        /\ Frame = frames[n]
        /\ r \in Seq(FrameType)
        /\ Len(r) = n - 1
        /\ \A i \in 1 .. n - 1 : SameFrame(frames[i], r[i])
    <3>1. /\ n \in Nat
          /\ n > 1
          /\ Frame = frames[n]
          /\ Frame.else \in Nat
      BY <1>1, ReturnNests
    <3>2. \A b \in Nat :
            /\ ReturnTo(b) \in Seq(FrameType)
            /\ Len(ReturnTo(b)) = n - 1
            /\ \A i \in 1 .. n - 1 : SameFrame(frames[i], ReturnTo(b)[i])
      BY <1>1, ReturnNests
    <3>3. /\ r \in Seq(FrameType)
          /\ Len(r) = n - 1
          /\ \A i \in 1 .. n - 1 : SameFrame(frames[i], r[i])
      BY <3>1, <3>2, Zenon
    <3> HIDE DEF r
    <3> QED
      BY <3>1, <3>3
  <2>4. f.lty = "Else" /\ f.exit = Frame.exit
    <3>1. Frame \in FrameType
      BY <1>1, FrameFacts
    <3> QED
      BY <3>1 DEF FrameType
  <2> HIDE DEF r, f
  <2>5. /\ Len(frames') = n
        /\ frames'[n] = f
        /\ \A i \in 1 .. n - 1 : frames'[i] = r[i]
    BY <2>1, <2>3
  <2>6. /\ \A i \in 1 .. n - 1 : SameFrame(frames[i], frames'[i])
        /\ frames[n].lty = "If"
        /\ frames'[n].lty = "Else"
        /\ frames'[n].exit = frames[n].exit
        /\ ins' = frames[n].else
        /\ status' = "visit"
    BY <1>1, <2>1, <2>3, <2>4, <2>5
  <2>7. /\ NoBlocksShared'
        /\ \A b : Held(b)' <=> \E i \in 1 .. n : Holds(i, b)
    BY <1>1, <2>3, <2>5, <2>6, FrameTurned
  <2>8. EdgesOK' /\ OpenOK'
    BY <1>1, <2>1, <2>2, <2>7, JoinGraph
  <2>9. SwitchOK'
    BY <2>1 DEF SwitchOK
  <2> QED
    BY <2>7, <2>8, <2>9 DEF GraphInv
<1> QED
  BY <1>2, <1>3

(* The end of a loop goes on in the same block.                            *)
LEMMA LoopEndsGraph ==
  ASSUME IInv, IInv', GraphInv, LoopEnds
  PROVE  GraphInv'
<1> SUFFICES ASSUME NEW n, n = Len(frames)
             PROVE  GraphInv'
  OBVIOUS
<1>1. /\ status = "visit" /\ brt = 0 /\ Frame.lty = "Loop"
      /\ EdgesOK /\ OpenOK /\ NoBlocksShared
      /\ ins \in Nat /\ Len(term) \in Nat
  BY DEF LoopEnds, EndLoop, Visiting, GraphInv, IInv, TypeOK
<1>2. CASE Abort \/ AssertFails
  BY <1>2, StopGraph
<1>3. CASE ~ (Abort \/ AssertFails)
  <2>1. /\ UNCHANGED <<preds, term, ins, brt, status>>
        /\ frames' = ReturnTo(ins)
    BY <1>3 DEF LoopEnds, EndLoop
  <2>2. /\ n \in Nat
        /\ n > 0
        /\ Frame = frames[n]
        /\ Len(frames') = n - 1
        /\ \A i \in 1 .. n - 1 : SameFrame(frames[i], frames'[i])
    BY <1>1, <2>1, ReturnNests
  <2>3. \A b : ~ Holds(n, b)
    BY <1>1, <2>2 DEF Holds
  <2>4. /\ NoBlocksShared'
        /\ \A b : Held(b)' <=> b = ins' \/ \E i \in 1 .. n - 1 : Holds(i, b)
    BY <1>1, <2>1, <2>2, FrameClosed
  <2>5. \A b : Held(b)' <=> Held(b)
    <3>1. \A i : i \in 1 .. n <=> i \in 1 .. n - 1 \/ i = n
      BY <2>2
    <3> QED
      BY <2>1, <2>3, <2>4, <3>1 DEF Held
  <2>6. SameGraph
    BY <2>1 DEF SameGraph, Term, EdgesFrom, Blocks
  <2>7. Blocks' = Blocks
    BY <2>1 DEF Blocks
  <2>8. OpenOK'
    BY <1>1, <2>1, <2>5, <2>6, <2>7, OpenSame
  <2>9. SwitchOK'
    BY <1>1, <2>1 DEF SwitchOK
  <2> QED
    BY <2>4, <2>6, <2>8, <2>9, SameGraphKeeps DEF GraphInv
<1> QED
  BY <1>2, <1>3

(* Only the exit of the function is waited for; it gets the return.        *)
LEMMA FuncEndsGraph ==
  ASSUME IInv, IInv', GraphInv, FuncEnds
  PROVE  GraphInv'
<1> SUFFICES ASSUME NEW exit, exit = Frame.exit
             PROVE  GraphInv'
  OBVIOUS
<1>1. /\ status = "visit" /\ brt = 0 /\ Frame.lty = "Func"
      /\ EdgesOK /\ OpenOK /\ NoBlocksShared
  BY DEF FuncEnds, EndFunc, Visiting, GraphInv
<1>2. CASE LeaveAborts
  BY <1>2, StopGraph DEF FuncEnds, EndFunc
<1>3. CASE ~ LeaveAborts
  <2> DEFINE e == <<exit, Len(preds[exit]) + 1>>
             s == TermAtJoin
  <2>1. /\ JoinExit
        /\ term' = [s EXCEPT ![exit] = "ret"]
        /\ ins' = exit
        /\ brt' = 0
        /\ status' = "done"
    BY <1>1, <1>3 DEF FuncEnds, EndFunc
  <2>2. Leaving
    BY <1>1, <1>3 DEF Leaving
  <2>3. /\ Len(frames) = 1
        /\ Frame = frames[1]
        /\ exit \in Blocks
        /\ exit # 0
        /\ Len(term) \in Nat
    <3>1. /\ Len(frames) \in Nat \ {0}
          /\ Frame = frames[Len(frames)]
          /\ FrameOK(Len(frames))
          /\ exit \in Blocks
          /\ Len(term) \in Nat
      BY <1>1, FrameFacts DEF IInv, TypeOK
    <3>2. Len(frames) = 1
      BY <1>1, <3>1 DEF FrameOK
    <3> QED
      BY <3>1, <3>2 DEF Blocks
  <2>4. /\ \A b : Holds(1, b) <=> b = exit
        /\ exit # ins
        /\ Term(exit) = "none"
        /\ \A b \in Blocks : Term(b) = "none" <=> b = ins \/ b = exit
    <3>1. \A b : Holds(1, b) <=> b = exit
      BY <1>1, <2>3 DEF Holds
    <3>2. ~ Holds(1, ins)
      BY <1>1, <2>3 DEF NoBlocksShared
    <3>3. \A b : Held(b) <=> b = ins \/ Holds(1, b)
      BY <2>3 DEF Held
    <3> QED
      BY <1>1, <2>3, <3>1, <3>2, <3>3 DEF OpenOK
  <2>5. EdgesFrom(exit) = {}
    BY <1>1, <2>4 DEF EdgesOK, HasEdges
  <2>6. /\ s \in Seq(Terminators)
        /\ Len(s) = Len(term)
        /\ \A x : TermIn(s, x) = IF x = ins /\ ins # 0 THEN "br" ELSE Term(x)
    BY <2>2, JoinTerm
  <2> HIDE DEF s
  <2>7. /\ Len(term') = Len(term)
        /\ \A x : TermIn(term', x) = IF x = exit THEN "ret" ELSE TermIn(s, x)
    <3> DEFINE q == [s EXCEPT ![exit] = "ret"]
    <3>1. exit \in 1 .. Len(s) /\ "ret" \in Terminators
      BY <2>3, <2>6 DEF Blocks, Terminators
    <3>2. /\ Len(q) = Len(s)
          /\ \A x : TermIn(q, x) = IF x = exit THEN "ret" ELSE TermIn(s, x)
      BY <2>6, <3>1, TermSet
    <3>3. term' = q
      BY <2>1
    <3> HIDE DEF q
    <3> QED
      BY <2>6, <3>2, <3>3
  <2>8. \A x : EdgesFrom(x)' = IF x = ins /\ ins # 0
                               THEN EdgesFrom(x) \cup {e} ELSE EdgesFrom(x)
    BY <2>1, <2>2, JoinEdges
  <2> HIDE DEF e
  <2>9. \A x : Term(x)' = IF x = exit THEN "ret"
                          ELSE IF x = ins /\ ins # 0 THEN "br" ELSE Term(x)
    BY <2>6, <2>7 DEF Term
  <2>10. EdgesOK'
    <3>1. ASSUME NEW y
          PROVE  HasEdges(Term(y)', EdgesFrom(y)')
      <4>1. CASE y = exit
        <5>1. Term(y)' = "ret" /\ EdgesFrom(y)' = {}
          BY <2>4, <2>5, <2>8, <2>9, <4>1
        <5> QED
          BY <5>1 DEF HasEdges
      <4>2. CASE y = ins /\ ins # 0
        <5>1. EdgesFrom(y) = {}
          BY <1>1, <4>2, InsFree
        <5>2. Term(y)' = "br" /\ EdgesFrom(y)' = {e}
          BY <2>4, <2>8, <2>9, <4>2, <5>1
        <5> QED
          BY <5>2 DEF HasEdges
      <4>3. CASE y # exit /\ ~ (y = ins /\ ins # 0)
        <5>1. Term(y)' = Term(y) /\ EdgesFrom(y)' = EdgesFrom(y)
          BY <2>8, <2>9, <4>3
        <5> QED
          BY <1>1, <5>1 DEF EdgesOK
      <4> QED
        BY <4>1, <4>2, <4>3
    <3> QED
      BY <3>1 DEF EdgesOK, HasEdges
  <2>11. OpenOK'
    <3>1. ASSUME NEW c \in Blocks'
          PROVE  Term(c)' # "none"
      <4>1. c \in Blocks /\ c # 0
        BY <2>7 DEF Blocks
      <4> QED
        BY <2>4, <2>9, <4>1
    <3> QED
      BY <2>1, <3>1 DEF OpenOK
  <2>12. SwitchOK' /\ NoBlocksShared'
    BY <2>1 DEF SwitchOK, NoBlocksShared
  <2> QED
    BY <2>10, <2>11, <2>12 DEF GraphInv
<1> QED
  BY <1>2, <1>3

-----------------------------------------------------------------------------
(* The theorems.                                                           *)

(* The function starts with two open blocks and no edges.                  *)
LEMMA InitGraph == LInit => GraphInv
<1> SUFFICES ASSUME LInit PROVE GraphInv
  OBVIOUS
<1>1. /\ preds = << << >>, << >> >>
      /\ term = <<"none", "none">>
      /\ ins = 1
      /\ Len(frames) = 1
      /\ frames[1].lty = "Func"
      /\ frames[1].exit = 2
      /\ brt = 0
      /\ status = "visit"
      /\ IInv
  BY InitIInv DEF LInit, Init
<1>2. \A x : Term(x) = "none"
  BY <1>1 DEF Term, TermIn
<1>3. \A x : EdgesFrom(x) = {}
  <2>1. preds \in Seq(Seq(Nat)) /\ Len(preds) = Len(term)
    BY <1>1 DEF IInv, TypeOK
  <2>2. \A x : EdgesFrom(x) = EdgesIn(preds, x)
    BY <2>1, EdgesFromIs
  <2>3. \A c \in 1 .. Len(preds) : Len(preds[c]) = 0
    BY <1>1
  <2>4. ASSUME NEW x, NEW e \in EdgesIn(preds, x)
        PROVE  FALSE
    <3>1. e[1] \in 1 .. Len(preds) /\ e[2] \in 1 .. Len(preds[e[1]])
      BY <2>4 DEF EdgesIn
    <3> QED
      BY <2>3, <3>1
  <2> QED
    BY <2>2, <2>4
<1>4. EdgesOK
  BY <1>2, <1>3 DEF EdgesOK, HasEdges
<1>5. SwitchOK
  BY <1>1 DEF SwitchOK
<1>6. \A i \in 1 .. Len(frames) : \A b : Holds(i, b) <=> b = 2
  BY <1>1 DEF Holds
<1>7. NoBlocksShared
  BY <1>1, <1>6 DEF NoBlocksShared
<1>8. OpenOK
  BY <1>1, <1>2, <1>6 DEF OpenOK, Held, Blocks
<1> QED
  BY <1>4, <1>5, <1>7, <1>8 DEF GraphInv

(* Every step keeps the invariant.                                         *)
LEMMA NextGraph ==
  ASSUME IInv, IInv', GraphInv, [LNext \/ Stopped]_lvars
  PROVE  GraphInv'
<1>1. CASE UNCHANGED lvars
  BY <1>1, QuietGraph DEF lvars, vars
<1>2. ASSUME NEW e \in Exprs, PlainExpr(e)
      PROVE  GraphInv'
  <2>1. CASE Abort \/ AssertFails
    BY <2>1, StopGraph
  <2>2. CASE ~ (Abort \/ AssertFails)
    BY <1>2, <2>2, QuietGraph DEF PlainExpr, Dispatch, Requires
  <2> QED
    BY <2>1, <2>2
<1>3. CASE Unreachable
  BY <1>3, UnreachableGraph
<1>4. CASE Skipped
  BY <1>4, QuietGraph DEF Skipped, SkipUnreachable, vars
<1>5. ASSUME NEW sig \in BlockSigs, BlockExpr(sig)
      PROVE  GraphInv'
  <2>1. sig[1] \in Nat /\ sig[2] \in Nat /\ EnterBlock(sig[1], sig[2])
    BY <1>5, SigsAssumption DEF BlockExpr
  <2> QED
    BY <2>1, BlockGraph
<1>6. ASSUME NEW sig \in LoopSigs, LoopExpr(sig)
      PROVE  GraphInv'
  <2>1. sig[1] \in Nat /\ sig[2] \in Nat /\ EnterLoop(sig[1], sig[2])
    BY <1>6, SigsAssumption DEF LoopExpr
  <2> QED
    BY <2>1, LoopGraph
<1>7. ASSUME NEW sig \in IfSigs, IfExpr(sig)
      PROVE  GraphInv'
  <2>1. sig[1] \in Nat /\ sig[2] \in Nat /\ EnterIf(sig[1], sig[2])
    BY <1>7, SigsAssumption DEF IfExpr
  <2> QED
    BY <2>1, IfGraph
<1>8. CASE ThenEnds
  BY <1>8, ThenEndsGraph
<1>9. CASE BlockEnds
  BY <1>9, BlockEndsGraph
<1>10. CASE LoopEnds
  BY <1>10, LoopEndsGraph
<1>11. CASE FuncEnds
  BY <1>11, FuncEndsGraph
<1>12. ASSUME NEW l \in VDepths,
              BrExpr(l) \/ BrIfExpr(l) \/ BrTableExpr(l) \/ BrTableTarget(l)
       PROVE  GraphInv'
  <2>1. CASE BrExpr(l)
    BY <2>1, BrGraph DEF BrExpr
  <2>2. CASE BrIfExpr(l)
    BY <2>2, BrIfGraph DEF BrIfExpr
  <2>3. CASE BrTableExpr(l)
    BY <2>3, BrTableGraph DEF BrTableExpr
  <2>4. CASE BrTableTarget(l)
    BY <2>4, BrTableTargetGraph
  <2> QED
    BY <1>12, <2>1, <2>2, <2>3, <2>4
<1>13. CASE ReturnExpr
  <2>1. status = "visit" /\ Br(Len(blockStack) - 1)
    BY <1>13 DEF ReturnExpr, Return, Br, Reachable, Visiting
  <2>2. Len(blockStack) - 1 \in VDepths
    BY <2>1, FrameFacts, VFrameFacts DEF VDepths
  <2> QED
    BY <2>1, <2>2, BrGraph
<1>14. CASE BrTableDone
  BY <1>14, QuietGraph DEF BrTableDone, BrTableEnd
<1>15. CASE Stopped
  BY <1>1, <1>15 DEF Stopped
<1> QED
  BY <1>1, <1>2, <1>3, <1>4, <1>5, <1>6, <1>7, <1>8, <1>9, <1>10, <1>11,
     <1>12, <1>13, <1>14, <1>15 DEF LNext

(* The invariant of the graph: the terminators have their edges, and the   *)
(* blocks without one are those the calls of visitBlock wait for, each for *)
(* its own.                                                                *)
THEOREM GraphInvariant ==
  ASSUME Exprs \subseteq Supported
  PROVE  Spec => []GraphInv
<1>1. IInv /\ IInv' /\ GraphInv /\ [LNext \/ Stopped]_lvars => GraphInv'
  BY NextGraph
<1>2. Spec => []IInv
  BY Invariant
<1> QED
  BY <1>1, <1>2, InitGraph, PTL DEF Spec

(* IRBuilder never appends behind a terminator, and nothing is left open   *)
(* when visitFunc returns: the blocks without a terminator are exactly the *)
(* insertion point and those that an enclosing visitBlock comes back to.   *)
THEOREM NoBlockLeftOpen ==
  ASSUME Exprs \subseteq Supported
  PROVE  Spec => []OpenBlocks
<1>1. IInv /\ GraphInv => OpenBlocks
  <2> SUFFICES ASSUME IInv, GraphInv PROVE OpenBlocks
    OBVIOUS
  <2>1. \A b \in Blocks : Term(b) = term[b] /\ b # 0
    BY DEF Term, TermIn, Blocks
  <2>2. ASSUME status = "visit", NEW b
        PROVE  b \in { c \in Blocks : term[c] = "none" } <=> b \in Pending
    <3>1. DOMAIN frames = 1 .. Len(frames)
      BY DEF IInv, TypeOK
    <3>2. b \in Pending <=> Held(b) /\ b # 0
      BY <3>1 DEF Pending, Held, Holds
    <3>3. Held(b) /\ b # 0 => b \in Blocks
      BY HeldInBlocks DEF Held, IInv, BlocksOK
    <3> QED
      BY <2>1, <2>2, <3>2, <3>3 DEF GraphInv, OpenOK
  <2>3. status = "done" => \A b \in Blocks : term[b] # "none"
    BY <2>1 DEF GraphInv, OpenOK
  <2>4. status = "visit" => { c \in Blocks : term[c] = "none" } = Pending
    BY <2>2
  <2> QED
    BY <2>3, <2>4 DEF OpenBlocks
<1> QED
  BY <1>1, Invariant, GraphInvariant, PTL

(* The number of edges out of a block is that of its terminator: no edge   *)
(* is recorded twice, forgotten, or left over from an overwritten          *)
(* terminator.                                                             *)
THEOREM TerminatorsHaveTheirEdges ==
  ASSUME Exprs \subseteq Supported
  PROVE  Spec => []EdgesMatchTerminators
<1>1. IInv /\ GraphInv => EdgesMatchTerminators
  <2> SUFFICES ASSUME IInv, GraphInv, NEW b \in Blocks,
                      NEW E, E = EdgesFrom(b), NEW t, t = term[b]
               PROVE  CASE t = "br" -> Cardinality(E) = 1
                        [] t = "condbr" -> Cardinality(E) = 2
                        [] t = "switch" -> Cardinality(E) >= 1
                        [] OTHER -> Cardinality(E) = 0
    BY DEF EdgesMatchTerminators
  <2>1. HasEdges(t, E)
    <3>1. HasEdges(Term(b), EdgesFrom(b))
      BY DEF GraphInv, EdgesOK
    <3>2. Term(b) = t
      BY DEF Term, TermIn, Blocks
    <3> QED
      BY <3>1, <3>2
  <2>2. CASE t = "br"
    <3>1. PICK e : E = {e}
      BY <2>1, <2>2 DEF HasEdges
    <3> QED
      BY <2>2, <3>1, FS_Singleton
  <2>3. CASE t = "condbr"
    <3>1. PICK e, f : e # f /\ E = {e, f}
      BY <2>1, <2>3 DEF HasEdges
    <3>2. Cardinality({e}) = 1 /\ IsFiniteSet({e})
      BY FS_Singleton
    <3>3. Cardinality({e} \cup {f}) = 2
      BY <3>1, <3>2, FS_AddElement
    <3>4. E = {e} \cup {f}
      BY <3>1
    <3> QED
      BY <2>3, <3>3, <3>4
  <2>4. CASE t = "switch"
    <3>1. IsFiniteSet(E) /\ E # {}
      BY <2>1, <2>4 DEF HasEdges
    <3>2. Cardinality(E) \in Nat /\ Cardinality(E) # 0
      BY <3>1, FS_CardinalityType, FS_EmptySet
    <3>3. Cardinality(E) >= 1
      BY <3>2
    <3> QED
      BY <2>4, <3>3
  <2>5. CASE t \notin {"br", "condbr", "switch"}
    <3>1. E = {}
      BY <2>1, <2>5 DEF HasEdges
    <3>2. Cardinality(E) = 0
      BY <3>1, FS_EmptySet
    <3> QED
      BY <2>5, <3>2
  <2> QED
    BY <2>2, <2>3, <2>4, <2>5
<1> QED
  BY <1>1, Invariant, GraphInvariant, PTL
=============================================================================
