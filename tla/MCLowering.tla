----------------------------- MODULE MCLowering -----------------------------
(* Sets of signatures and expressions for the model checking of Lowering.  *)
EXTENDS Lowering

(* All the plain expressions that keep the stack in step.                  *)
SupportedExprs == Supported

NoSigs == {}
(* One signature: no parameters, no results.                               *)
VoidSigs == { <<0, 0>> }
(* What compilers of the first WebAssembly version emit.                   *)
MvpSigs == { <<0, 0>>, <<0, 1>> }
(* With the multi-value extension: each kind of block in its plain form, or *)
(* with a parameter, a result or both.                                     *)
MultiBlockSigs == { <<0, 1>>, <<1, 0>>, <<1, 1>> }
MultiLoopSigs == { <<0, 0>>, <<0, 1>>, <<1, 0>> }
MultiIfSigs == { <<0, 0>>, <<0, 1>>, <<1, 1>> }
=============================================================================
