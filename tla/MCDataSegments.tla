--------------------------- MODULE MCDataSegments ---------------------------
(* Memories and segments for the model checking of DataSegments.           *)
EXTENDS DataSegments

Lim(i, m) == [initial |-> i, max |-> m, has_max |-> m > 0]
TwoLimits == { Lim(2, 0), Lim(1, 4) }

(* With these two a memory can change and change back: to <<0, 1>> from    *)
(* <<1, 1>>.                                                               *)
FewDatas == { <<1>>, <<0, 1>> }

EachOption == { {}, {"SplitMem"}, {"NoMemInitializer"} }

-----------------------------------------------------------------------------
(* Two families of modules; with three segments of any kind they are too   *)
(* many.                                                                   *)

(* Memories of all sizes, with two segments in one module and one in the   *)
(* other.                                                                  *)
AnyMemories ==
  /\ \A p \in DOMAIN visited : Len(visited[p]) <= 2
  /\ \E p \in DOMAIN visited : Len(visited[p]) <= 1
(* Memories of one size: the first, flattened or split, can come back to   *)
(* the bytes it began with, the second begins with them and goes on.       *)
BackAndForth ==
  /\ \A p \in DOMAIN mems : gvs[mems[p]].size = 2
  /\ \A p \in DOMAIN opts : opts[p] = {} \/ (p = 1 /\ opts[p] = {"SplitMem"})
  /\ \A p \in DOMAIN visited \ {1} : Len(visited[p]) <= 2
InFamily == AnyMemories \/ BackAndForth
=============================================================================
