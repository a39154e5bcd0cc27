----------------------------- MODULE MCLockstep -----------------------------
(* Signatures and families of bodies for the model checking of Lockstep.   *)
EXTENDS Lockstep

ResultSigs == { <<0, 0>>, <<0, 1>> }
ParamSigs == { <<0, 0>>, <<0, 1>>, <<1, 1>> }
VoidSigs == { <<0, 0>> }

(* A family is the operations its bodies are made of, each structured one  *)
(* with its signature, and how many there may be: all of them together are *)
(* too many to be combined.                                                *)
Structured(op, sigs) == { <<op, sig[1], sig[2]>> : sig \in sigs }
Ending == {"End", "Else", "unreachable"}
Family(max, ops, blocks, loops, ifs) ==
  [max |-> max,
   ops |-> ops \cup Ending,
   open |-> Structured("Block", blocks) \cup Structured("Loop", loops)
              \cup Structured("If", ifs)]
Families == {
  (* Branches out of blocks, with values.                                  *)
  Family(5, {"const", "br", "br_if"},
         { <<0, 0>>, <<1, 1>> }, {}, {}),
  (* Iterations of loops, and ifs.                                         *)
  Family(5, {"const", "br_if"}, {}, { <<0, 1>> }, VoidSigs),
  (* All kinds of blocks and branches.                                     *)
  Family(4, {"const", "global_set", "br", "br_if"},
         { <<0, 0>>, <<1, 1>> }, { <<0, 1>> }, VoidSigs),
  (* A local from one iteration to the next.                               *)
  Family(5, {"const", "local_set", "local_get", "br_if"}, {}, VoidSigs, {}),
  (* Two operands, and results that come from two places.                  *)
  Family(5, {"const", "call_2_1", "br_if"}, { <<0, 1>> }, {}, {}),
  (* br_table, whose labels take no values.                                *)
  Family(5, {"const", "br_table"}, {}, VoidSigs, {}),
  Family(4, {"const", "br_table"}, VoidSigs, VoidSigs, {}) }

SourcesKnown ==
  \A b \in Blocks : \A k \in DOMAIN phis[b] : \A i \in DOMAIN phis[b][k] :
    phis[b][k][i].from # 0
InFamily ==
  /\ SourcesKnown
  /\ \E f \in Families :
       /\ exprs <= f.max
       /\ \A i \in DOMAIN prog :
            \/ prog[i].op \in f.ops
            \/ prog[i].op \in {"Block", "Loop", "If"}
                 /\ <<prog[i].op, prog[i].np, prog[i].nr>> \in f.open
=============================================================================
