---------------------------- MODULE MemoryImage -----------------------------
(***************************************************************************)
(* What the initial memory of a WebAssembly module is: zeros, with the     *)
(* active data segments copied over them in their order.  Modules are      *)
(* instantiated one after the other; the memory is that of the last one.   *)
(* A memory is taken at the size it may grow to, as declareMemory makes    *)
(* it: that a segment beyond the initial size traps is left out.           *)
(***************************************************************************)
EXTENDS Integers, Sequences

CONSTANTS
  Sizes,        \* the sizes a memory may have, in bytes
  Segments      \* active data segments: [offset, data]

VARIABLES
  image,        \* address -> byte
  copied        \* the segments copied so far

ivars == <<image, copied>>

Zeros(n) == [a \in 0 .. n - 1 |-> 0]
(* An image with data written at an offset.                                *)
Overwritten(img, offset, data) ==
  [a \in DOMAIN img |->
     IF a \in offset .. offset + Len(data) - 1 THEN data[a - offset + 1]
     ELSE img[a]]

ImgInit == image = << >> /\ copied = << >>

Instantiate ==
  /\ \E n \in Sizes : image' = Zeros(n)
  /\ copied' = << >>

(* The module gets its next segment, and nothing else changes.             *)
Copy(seg) ==
  /\ \A a \in seg.offset .. seg.offset + Len(seg.data) - 1 : a \in DOMAIN image
  /\ image' = Overwritten(image, seg.offset, seg.data)
  /\ copied' = Append(copied, seg)

ImgNext == Instantiate \/ \E seg \in Segments : Copy(seg)
ImgSpec == ImgInit /\ [][ImgNext]_ivars
=============================================================================
