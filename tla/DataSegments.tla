---------------------------- MODULE DataSegments ----------------------------
(***************************************************************************)
(* Linear memory (parser.cpp): declareMemory makes the global variable     *)
(* __notdec_mem0, and visitDataSegment puts each data segment of the       *)
(* module into its initialiser.  The first segment makes a constant, the   *)
(* later ones are copied into the bytes of that constant, although LLVM    *)
(* uniques constants: all that are equal when they are made are one.       *)
(*                                                                         *)
(* The pool of constants belongs to the LLVMContext, which the callers of  *)
(* parse_wasm and parse_wat pass in: several modules may share it.  wabt's *)
(* default features allow one memory per module.                           *)
(***************************************************************************)
EXTENDS Integers, Sequences

CONSTANTS
  Parses,       \* bound: the modules translated with one LLVMContext
  MaxSegments,  \* bound: the data segments of a module
  U32, U64,     \* 2^32 and 2^64
  Limits,       \* limits of memories in bytes: [initial, max, has_max]
  Datas,        \* contents of segments
  OptionSets    \* which of the Options a call may set

Options == {"SplitMem", "NoMemInitializer"}

ASSUME WidthsAssumption == U32 \in Nat /\ U64 \in Nat /\ 2 * U32 <= U64
ASSUME DatasAssumption == Datas \subseteq Seq(Nat)
(* At most 2^16 pages of 2^16 bytes.                                       *)
ASSUME LimitsAssumption ==
  Limits \subseteq [initial : 0 .. U32, max : 0 .. U32, has_max : BOOLEAN]

ASSUME OptionsAssumption == OptionSets \subseteq SUBSET Options

VARIABLES
  pool,     \* the ConstantDataArrays of the LLVMContext
  gvs,      \* the global variables with memory contents, of all modules
  mems,     \* module -> its memory, an index of gvs
  visited,  \* module -> the active segments visited
  opts,     \* module -> the options of the call
  status    \* "idle", "visit", "abort", "assert" or "undefined"

dvars == <<pool, gvs, mems, visited, opts, status>>

(* Initialisers beside the constants of the pool: none, or all zeros.      *)
NoInit == -1
ZeroInit == 0

Zeroes(n) == [a \in 0 .. n - 1 |-> 0]
Bytes(data) == [a \in 0 .. Len(data) - 1 |-> data[a + 1]]
(* Mutant: the last byte is not copied.                                    *)
Patched_LosesLast(bytes, at, data) ==
  [a \in DOMAIN bytes |-> IF a \in at .. at + Len(data) - 2
                          THEN data[a - at + 1] ELSE bytes[a]]

(* memcpy of the data to the bytes at an offset.                           *)
Patched(bytes, at, data) ==
  [a \in DOMAIN bytes |-> IF a \in at .. at + Len(data) - 1
                          THEN data[a - at + 1] ELSE bytes[a]]

(* What a global variable holds when the program starts.                   *)
Image(g) == IF gvs[g].init \in {NoInit, ZeroInit} THEN Zeroes(gvs[g].size)
            ELSE pool[gvs[g].init].bytes

-----------------------------------------------------------------------------
(* LLVM: ConstantDataArray::getRaw.  A constant is looked up by the hash   *)
(* of the bytes it was made from and found when its bytes are the same;    *)
(* all zeros is a ConstantAggregateZero.                                   *)

(* Mutant: the hash alone decides.                                         *)
Found_ByHash(bytes) == { k \in DOMAIN pool : pool[k].key = bytes }

Found(bytes) == { k \in DOMAIN pool : /\ pool[k].key = bytes
                                      /\ pool[k].bytes = bytes }

(* The initialiser k stands for the bytes.                                 *)
GetRaw(bytes, k) ==
  IF \A a \in DOMAIN bytes : bytes[a] = 0 THEN k = ZeroInit /\ UNCHANGED pool
  ELSE IF Found(bytes) # {} THEN k \in Found(bytes) /\ UNCHANGED pool
  ELSE /\ k = Len(pool) + 1
       /\ pool' = Append(pool, [key |-> bytes, bytes |-> bytes])

Initialisers == ZeroInit .. Len(pool) + 1

-----------------------------------------------------------------------------

DInit ==
  /\ pool = << >>
  /\ gvs = << >>
  /\ mems = << >>
  /\ visited = << >>
  /\ opts = << >>
  /\ status = "idle"

Stop(s) == status' = s /\ UNCHANGED <<pool, gvs, mems, visited, opts>>

(* The memory is made as large as it may ever grow.                        *)
MemoryLength(lim) == IF lim.has_max THEN lim.max ELSE lim.initial

(* A call of parse_wasm or parse_wat reaches the memory: declareMemory.    *)
DeclareMemory(lim, isExternal, os) ==
  /\ status = "idle"
  /\ Len(mems) < Parses
  /\ gvs' = Append(gvs, [of |-> Len(mems) + 1, addr |-> 0,
                         size |-> MemoryLength(lim),
                         init |-> IF isExternal THEN NoInit ELSE ZeroInit])
  /\ mems' = Append(mems, Len(gvs) + 1)
  /\ visited' = Append(visited, << >>)
  /\ opts' = Append(opts, os)
  /\ status' = "visit"
  /\ UNCHANGED pool

(* unwrapIntConstant: the i32 offset, sign-extended, as a uint64_t.        *)
SExt(o) == IF 2 * o < U32 THEN o ELSE U64 - U32 + o

Parse == Len(mems)
(* Mutant: the first memory of all calls.                                  *)
Mem_First == mems[1]

Mem == mems[Parse]
HasBytes(g) == gvs[g].init \notin {NoInit, ZeroInit}
Visited(seg) == visited' = [visited EXCEPT ![Parse] = Append(@, seg)]

(* Mutant: no segment may end where the memory ends.                       *)
AssertionFits_Strict(seg) ==
  (Len(seg.data) + SExt(seg.offset)) % U64 < gvs[Mem].size

(* The assertion of createMemInitializer and modMemInitializer.            *)
AssertionFits(seg) ==
  (Len(seg.data) + SExt(seg.offset)) % U64 <= gvs[Mem].size
(* The sum may wrap; memcpy then writes outside of the buffer.             *)
SumWraps(seg) == Len(seg.data) + SExt(seg.offset) >= U64

(* Mutant: the copy goes on from the all-zero buffer again.                *)
Contents_Fresh(g) == Zeroes(gvs[g].size)

(* The bytes a segment is copied over.                                     *)
Contents(g) == Image(g)

Flattened(seg) ==
  LET at == SExt(seg.offset)
  IN  IF ~ AssertionFits(seg) THEN Stop("assert")
      ELSE IF SumWraps(seg) THEN Stop("undefined")
      ELSE /\ IF HasBytes(Mem)
              THEN /\ pool' = [pool EXCEPT ![gvs[Mem].init].bytes =
                                 Patched(Contents(Mem), at, seg.data)]
                   /\ UNCHANGED gvs
              ELSE \E k \in Initialisers :
                     /\ GetRaw(Patched(Zeroes(gvs[Mem].size), at, seg.data), k)
                     /\ gvs' = [gvs EXCEPT ![Mem].init = k]
           /\ Visited(seg)
           /\ UNCHANGED <<mems, opts, status>>

(* One global variable per segment, placed by its address.                 *)
Split(seg) ==
  /\ \E k \in Initialisers :
       /\ GetRaw(Bytes(seg.data), k)
       /\ gvs' = Append(gvs, [of |-> Parse, addr |-> seg.offset,
                              size |-> Len(seg.data), init |-> k])
  /\ Visited(seg)
  /\ UNCHANGED <<mems, opts, status>>

VisitDataSegment(seg) ==
  /\ status = "visit"
  /\ Len(visited[Parse]) < MaxSegments
  /\ IF "SplitMem" \in opts[Parse] THEN Split(seg)
     ELSE IF "NoMemInitializer" \in opts[Parse]
     THEN Visited(seg) /\ UNCHANGED <<pool, gvs, mems, opts, status>>
     ELSE Flattened(seg)

(* A passive segment has no offset, and visitInitExpr aborts; as it does    *)
(* on a global.get.                                                        *)
UnsupportedOffset ==
  /\ status = "visit"
  /\ Len(visited[Parse]) < MaxSegments
  /\ Stop("abort")

(* The rest of visitModule does not touch the memory.                      *)
ModuleDone == status = "visit" /\ Stop("idle")

Segments == [offset : 0 .. U32 - 1, data : Datas]

DNext ==
  \/ \E lim \in Limits, ext \in BOOLEAN, os \in OptionSets :
       DeclareMemory(lim, ext, os)
  \/ \E seg \in Segments : VisitDataSegment(seg)
  \/ UnsupportedOffset
  \/ ModuleDone

DOver == status # "visit" /\ UNCHANGED dvars
DSpec == DInit /\ [][DNext \/ DOver]_dvars

-----------------------------------------------------------------------------
(* Properties.                                                             *)

(* The memory of the module being translated, and the segments that went   *)
(* into it: none if the memory is split or left without initialiser.       *)
CurrentMemory == IF mems = << >> THEN << >> ELSE Image(Mem)
CurrentSegments == IF mems = << >> \/ opts[Parse] # {} THEN << >>
                   ELSE visited[Parse]

(* Until the next module comes, the memory of the module being translated  *)
(* is the one WebAssembly gives it, however many modules the LLVMContext   *)
(* has seen: every segment is at its place, the later over the earlier,    *)
(* and nothing else changes it.  A memory that is split or left without    *)
(* initialiser stays as it was declared.                                   *)
Memories == INSTANCE MemoryImage
              WITH Sizes <- { MemoryLength(lim) : lim \in Limits },
                   image <- CurrentMemory,
                   copied <- CurrentSegments
ImplementsImage == Memories!ImgSpec

(* The memory of module p after its first i segments.                      *)
Expected(p, i) ==
  LET upto[n \in 0 .. i] ==
        IF n = 0 THEN Zeroes(gvs[mems[p]].size)
        ELSE Memories!Overwritten(upto[n - 1], visited[p][n].offset,
                                  visited[p][n].data)
  IN  upto[i]
WholeMemory(p) == Expected(p, Len(visited[p]))

(* What a global variable is to hold: the whole memory, nothing if that is *)
(* left out or split, or one segment.                                      *)
Owed(g) ==
  LET p == gvs[g].of
  IN  IF g # mems[p] THEN Bytes(visited[p][g - mems[p]].data)
      ELSE IF opts[p] = {} THEN WholeMemory(p)
      ELSE Zeroes(gvs[g].size)

(* With SplitMem the module being translated has each segment in a global *)
(* variable of its own that holds the bytes and names their address,       *)
(* whatever constants of other modules the bytes are equal to.             *)
SplitIsRight ==
  status = "visit" /\ "SplitMem" \in opts[Parse] =>
    \A i \in DOMAIN visited[Parse] :
      LET seg == visited[Parse][i]
      IN  /\ Image(Mem + i) = Bytes(seg.data)
          /\ gvs[Mem + i].addr = seg.offset

(* Segment i of module p is the first to leave something else than zeros,  *)
(* and it leaves the given bytes in the memory.                            *)
Begins(p, i, bytes) ==
  /\ \A j \in 0 .. i - 1 : Expected(p, j) = Zeroes(gvs[mems[p]].size)
  /\ Expected(p, i) = bytes
(* The memory of module q begins with the given bytes, and more segments   *)
(* follow.                                                                 *)
StartsFrom(q, bytes) == \E i \in 1 .. Len(visited[q]) - 1 : Begins(q, i, bytes)
EndsAsItBegan(p) == \E i \in DOMAIN visited[p] : Begins(p, i, WholeMemory(p))

(* A global variable of a module that was translated changes only when a   *)
(* later module of the same LLVMContext starts with an equal memory and    *)
(* goes on from there; and a memory put together from segments only if it  *)
(* ends with the bytes it began with.                                      *)
IndependentUnlessEqualStart ==
  status # "undefined" =>
    \A g \in DOMAIN gvs :
      LET p == gvs[g].of
      IN  Image(g) # Owed(g) =>
            /\ \E q \in p + 1 .. Parse :
                 opts[q] = {} /\ StartsFrom(q, Owed(g))
            /\ g = mems[p] => EndsAsItBegan(p)

(* A segment that WebAssembly allows, one that lies in the memory, is      *)
(* copied exactly when its offset is in the lower half of the 32-bit range: *)
(* the offset is sign-extended before it is compared.  One in the upper    *)
(* half fails the assertion, or slips through it when it ends where a      *)
(* memory of the whole range ends, as the sum then wraps to zero.          *)
OnlyHighSegmentsStop ==
  status = "visit" /\ opts[Parse] = {} =>
    \A seg \in Segments :
      seg.offset + Len(seg.data) <= gvs[Mem].size =>
        /\ AssertionFits(seg) /\ ~ SumWraps(seg) <=> 2 * seg.offset < U32
        /\ SumWraps(seg) <=> /\ 2 * seg.offset >= U32
                            /\ seg.offset + Len(seg.data) = U32
=============================================================================
