------------------------ MODULE DataSegments_proofs -------------------------
(***************************************************************************)
(* The code that patches the initialiser of a memory in place implements   *)
(* the memory WebAssembly instantiates (MemoryImage), for any number of    *)
(* modules in one LLVMContext, any limits, segments and options.           *)
(*                                                                         *)
(* The second half follows each constant of the pool from the bytes it was *)
(* made from (its key) to those it has now (HistoryInv), and shows when a  *)
(* module that was translated before is changed by a later one.            *)
(***************************************************************************)
EXTENDS DataSegments, Induction

ByteArrays == UNION { [0 .. n - 1 -> Nat] : n \in Nat }
Constant == [key : ByteArrays, bytes : ByteArrays]
GlobalVariable == [of : Nat, addr : Nat, size : Nat, init : Int]

DataTypeOK ==
  /\ pool \in Seq(Constant)
  /\ gvs \in Seq(GlobalVariable)
  /\ mems \in Seq(Nat)
  /\ visited \in Seq(Seq(Segments))
  /\ opts \in Seq(SUBSET Options)
  /\ Len(visited) = Len(mems)
  /\ Len(opts) = Len(mems)

(* The memory of the module being translated is one of the global          *)
(* variables.  Only without options does it get a constant, which is as    *)
(* long as the memory.                                                     *)
MemoryHasItsSize ==
  mems # << >> =>
    /\ Mem \in DOMAIN gvs
    /\ gvs[Mem].size \in 0 .. U32
    /\ HasBytes(Mem) =>
         /\ opts[Parse] = {}
         /\ gvs[Mem].init \in DOMAIN pool
         /\ DOMAIN pool[gvs[Mem].init].bytes = 0 .. gvs[Mem].size - 1

(* A module is visited only when there is one.                             *)
VisitsAModule == status = "visit" => mems # << >>

DataInv == DataTypeOK /\ MemoryHasItsSize /\ VisitsAModule

-----------------------------------------------------------------------------
(* Lemmas about the operators.                                             *)

LEMMA ModSmall ==
  ASSUME NEW a \in Nat, NEW b \in Nat, a < b
  PROVE  a % b = a
  BY SMT

(* A segment that passes the assertion lies in the memory, and its offset  *)
(* was not changed by the sign extension.                                  *)
LEMMA SegmentFits ==
  ASSUME NEW o \in 0 .. U32 - 1, NEW len \in Nat, NEW n \in 0 .. U32,
         (len + SExt(o)) % U64 <= n, ~ (len + SExt(o) >= U64)
  PROVE  SExt(o) = o /\ o + len <= n
<1> USE WidthsAssumption
<1>1. SExt(o) \in Nat
  BY SMT DEF SExt
<1>2. (len + SExt(o)) % U64 = len + SExt(o)
  BY <1>1, ModSmall, SMT
<1>3. SExt(o) <= n
  BY <1>1, <1>2, SMT
<1>4. CASE 2 * o < U32
  BY <1>2, <1>4, SMT DEF SExt
<1>5. CASE ~ (2 * o < U32)
  <2>1. o = 0 
    BY <1>3, <1>5, SMT DEF SExt
  <2> QED
    BY <2>1, <1>5, SMT
<1> QED
  BY <1>4, <1>5

(* What Append and an update of one element do to a sequence.              *)
LEMMA AppendSeq ==
  ASSUME NEW S, NEW s \in Seq(S), NEW x \in S
  PROVE  /\ Append(s, x) \in Seq(S)
         /\ Len(Append(s, x)) = Len(s) + 1
         /\ Len(s) + 1 \in DOMAIN Append(s, x)
         /\ Append(s, x)[Len(s) + 1] = x
         /\ Append(s, x) # << >>
  BY SMT

LEMMA UpdateSeq ==
  ASSUME NEW S, NEW s \in Seq(S), NEW i \in DOMAIN s, NEW x \in S
  PROVE  /\ [s EXCEPT ![i] = x] \in Seq(S)
         /\ i \in DOMAIN [s EXCEPT ![i] = x]
         /\ [s EXCEPT ![i] = x][i] = x
  BY SMT

LEMMA IsByteArray ==
  ASSUME NEW n \in Nat, NEW f \in [0 .. n - 1 -> Nat]
  PROVE  f \in ByteArrays
  BY DEF ByteArrays

(* A copy into an array leaves an array of the same length.                *)
LEMMA PatchedType ==
  ASSUME NEW n \in Nat, NEW bytes \in [0 .. n - 1 -> Nat],
         NEW at \in Nat, NEW data \in Seq(Nat)
  PROVE  Patched(bytes, at, data) \in [0 .. n - 1 -> Nat]
<1>1. ASSUME NEW a \in 0 .. n - 1, a \in at .. at + Len(data) - 1
      PROVE  data[a - at + 1] \in Nat
  BY <1>1
<1> QED
  BY <1>1 DEF Patched

LEMMA BytesType ==
  ASSUME NEW data \in Seq(Nat)
  PROVE  Bytes(data) \in [0 .. Len(data) - 1 -> Nat]
<1>1. \A a \in 0 .. Len(data) - 1 : data[a + 1] \in Nat
  OBVIOUS
<1> QED
  BY <1>1 DEF Bytes

(* Whatever the pool holds, the initialiser getRaw returns stands for the  *)
(* bytes, and no constant of the pool changes.                             *)
LEMMA GetRawStandsFor ==
  ASSUME pool \in Seq(Constant), NEW n \in Nat, NEW bytes \in [0 .. n - 1 -> Nat],
         NEW k \in Initialisers, GetRaw(bytes, k)
  PROVE  /\ pool' \in Seq(Constant)
         /\ k \in Int /\ k # NoInit
         /\ k = ZeroInit => bytes = Zeroes(n)
         /\ k # ZeroInit => k \in DOMAIN pool' /\ pool'[k].bytes = bytes
<1>1. CASE \A a \in DOMAIN bytes : bytes[a] = 0
  <2>1. bytes = Zeroes(n)
    BY <1>1 DEF Zeroes
  <2> QED
    BY <1>1, <2>1 DEF GetRaw, ZeroInit, NoInit
<1>2. CASE ~ (\A a \in DOMAIN bytes : bytes[a] = 0) /\ Found(bytes) # {}
  <2>1. k \in Found(bytes) /\ pool' = pool
    BY <1>2 DEF GetRaw
  <2>2. k \in DOMAIN pool /\ pool[k].bytes = bytes
    BY <2>1 DEF Found
  <2>3. k \in Nat /\ k > 0
    BY <2>2
  <2> QED
    BY <2>1, <2>2, <2>3 DEF ZeroInit, NoInit
<1>3. CASE ~ (\A a \in DOMAIN bytes : bytes[a] = 0) /\ Found(bytes) = {}
  <2> DEFINE c == [key |-> bytes, bytes |-> bytes]
  <2>1. k = Len(pool) + 1 /\ pool' = Append(pool, c)
    BY <1>3 DEF GetRaw
  <2>2. c \in Constant
    BY IsByteArray DEF Constant
  <2>3. /\ pool' \in Seq(Constant)
        /\ k \in DOMAIN pool'
        /\ pool'[k] = c
    <3> HIDE DEF c
    <3> QED
      BY <2>1, <2>2
  <2>4. k \in Nat /\ k > 0
    BY <2>1
  <2> QED
    BY <2>3, <2>4 DEF ZeroInit, NoInit
<1> QED
  BY <1>1, <1>2, <1>3

-----------------------------------------------------------------------------
(* The invariant, and what each step does to the memory.                   *)

LEMMA DataInitInv == DInit => DataInv
<1> QED
  BY DEF DInit, DataInv, DataTypeOK, MemoryHasItsSize, VisitsAModule

(* Steps that leave the module and its memory alone.                       *)
LEMMA StopStep ==
  ASSUME DataInv, NEW s, Stop(s), s = "visit" => status = "visit"
  PROVE  DataInv' /\ UNCHANGED <<CurrentMemory, CurrentSegments>>
<1> USE DEF Stop
<1>1. DataTypeOK'
  BY DEF DataInv, DataTypeOK
<1>2. MemoryHasItsSize'
  BY DEF DataInv, MemoryHasItsSize, Mem, Parse, HasBytes
<1>3. VisitsAModule'
  BY DEF DataInv, VisitsAModule
<1>4. UNCHANGED CurrentMemory
  BY DEF CurrentMemory, Image, Mem, Parse
<1>5. UNCHANGED CurrentSegments
  BY DEF CurrentSegments, Parse
<1> QED
  BY <1>1, <1>2, <1>3, <1>4, <1>5 DEF DataInv

LEMMA DeclareStep ==
  ASSUME DataInv, NEW lim \in Limits, NEW ext \in BOOLEAN, NEW os \in OptionSets,
         DeclareMemory(lim, ext, os)
  PROVE  /\ DataInv'
         /\ CurrentMemory' = Zeroes(MemoryLength(lim))
         /\ CurrentSegments' = << >>
<1> DEFINE g == [of |-> Len(mems) + 1, addr |-> 0, size |-> MemoryLength(lim),
                 init |-> IF ext THEN NoInit ELSE ZeroInit]
<1>1. MemoryLength(lim) \in 0 .. U32 /\ MemoryLength(lim) \in Nat
  BY LimitsAssumption, WidthsAssumption DEF MemoryLength
<1>2. g \in GlobalVariable
  BY <1>1 DEF DataInv, DataTypeOK, GlobalVariable, NoInit, ZeroInit
<1>3. g.init \in {NoInit, ZeroInit} /\ g.size = MemoryLength(lim)
  OBVIOUS
<1>4. /\ gvs' = Append(gvs, g)
      /\ mems' = Append(mems, Len(gvs) + 1)
      /\ visited' = Append(visited, << >>)
      /\ opts' = Append(opts, os)
      /\ pool' = pool
  BY DEF DeclareMemory
<1> HIDE DEF g
<1>5. /\ gvs \in Seq(GlobalVariable) /\ mems \in Seq(Nat) /\ pool \in Seq(Constant)
      /\ visited \in Seq(Seq(Segments)) /\ opts \in Seq(SUBSET Options)
      /\ Len(visited) = Len(mems) /\ Len(opts) = Len(mems)
  BY DEF DataInv, DataTypeOK
<1>6. /\ gvs' \in Seq(GlobalVariable)
      /\ Len(gvs) + 1 \in DOMAIN gvs'
      /\ gvs'[Len(gvs) + 1] = g
  BY <1>2, <1>4, <1>5, AppendSeq
<1>7. /\ mems' \in Seq(Nat) /\ mems' # << >>
      /\ Parse' = Len(mems) + 1
      /\ Mem' = Len(gvs) + 1
  <2>1. Len(gvs) + 1 \in Nat
    BY <1>5
  <2> QED
    BY <1>4, <1>5, <2>1, AppendSeq DEF Parse, Mem
<1>8. /\ visited' \in Seq(Seq(Segments))
      /\ Len(visited') = Len(mems) + 1
      /\ visited'[Len(mems) + 1] = << >>
  <2>1. << >> \in Seq(Segments)
    OBVIOUS
  <2> QED
    BY <1>4, <1>5, <2>1, AppendSeq
<1>9. opts' \in Seq(SUBSET Options) /\ Len(opts') = Len(mems) + 1
  BY <1>4, <1>5, AppendSeq, OptionsAssumption
<1>10. DataTypeOK'
  BY <1>4, <1>5, <1>6, <1>7, <1>8, <1>9 DEF DataTypeOK, Parse
<1>11. Mem' \in DOMAIN gvs' /\ gvs'[Mem'] = g /\ visited'[Parse'] = << >>
  BY <1>6, <1>7, <1>8
<1>12. MemoryHasItsSize'
  BY <1>1, <1>3, <1>11 DEF MemoryHasItsSize, HasBytes
<1>13. CurrentMemory' = Zeroes(MemoryLength(lim))
  BY <1>3, <1>7, <1>11 DEF CurrentMemory, Image
<1>14. CurrentSegments' = << >>
  BY <1>11 DEF CurrentSegments
<1> QED
  BY <1>7, <1>10, <1>12, <1>13, <1>14 DEF DataInv, VisitsAModule

-----------------------------------------------------------------------------
(* A segment.                                                              *)

LEMMA SegmentType ==
  ASSUME NEW seg \in Segments
  PROVE  seg.offset \in 0 .. U32 - 1 /\ seg.offset \in Nat /\ seg.data \in Seq(Nat)
  BY DatasAssumption, WidthsAssumption DEF Segments

(* The list of visited segments is the one thing every such step changes.  *)
LEMMA VisitedType ==
  ASSUME DataInv, mems # << >>, NEW seg \in Segments, Visited(seg)
  PROVE  /\ visited' \in Seq(Seq(Segments))
         /\ Len(visited') = Len(mems)
         /\ visited'[Parse] = Append(visited[Parse], seg)
<1>1. /\ visited \in Seq(Seq(Segments))
      /\ Parse \in DOMAIN visited
  BY DEF DataInv, DataTypeOK, Parse
<1>2. Append(visited[Parse], seg) \in Seq(Segments)
  BY <1>1
<1> QED
  BY <1>1, <1>2 DEF Visited, DataInv, DataTypeOK

(* With options: the memory stays as it was declared.                      *)
LEMMA WithOptions ==
  ASSUME DataInv, mems # << >>, opts[Parse] # {}, UNCHANGED <<mems, opts>>,
         Mem \in DOMAIN gvs', gvs'[Mem] = gvs[Mem]
  PROVE  MemoryHasItsSize' /\ UNCHANGED <<CurrentMemory, CurrentSegments>>
<1>1. Parse' = Parse /\ Mem' = Mem
  BY DEF Parse, Mem
<1>2. ~ HasBytes(Mem) /\ ~ HasBytes(Mem)'
  BY <1>1 DEF DataInv, MemoryHasItsSize, HasBytes
<1>3. MemoryHasItsSize'
  BY <1>1, <1>2 DEF DataInv, MemoryHasItsSize, HasBytes
<1>4. UNCHANGED CurrentMemory
  BY <1>1, <1>2 DEF CurrentMemory, Image, HasBytes
<1>5. UNCHANGED CurrentSegments
  BY <1>1 DEF CurrentSegments
<1> QED
  BY <1>3, <1>4, <1>5

LEMMA SplitStep ==
  ASSUME DataInv, mems # << >>, NEW seg \in Segments, opts[Parse] # {}, Split(seg)
  PROVE  DataInv' /\ UNCHANGED <<CurrentMemory, CurrentSegments>>
<1>1. PICK k \in Initialisers :
        /\ GetRaw(Bytes(seg.data), k)
        /\ gvs' = Append(gvs, [of |-> Parse, addr |-> seg.offset,
                               size |-> Len(seg.data), init |-> k])
  BY DEF Split
<1>2. pool \in Seq(Constant) /\ Bytes(seg.data) \in [0 .. Len(seg.data) - 1 -> Nat]
      /\ Len(seg.data) \in Nat
  BY SegmentType, BytesType, SMTT(30) DEF DataInv, DataTypeOK
<1>3. pool' \in Seq(Constant) /\ k \in Int
  BY <1>1, <1>2, GetRawStandsFor
<1>4. [of |-> Parse, addr |-> seg.offset, size |-> Len(seg.data), init |-> k]
        \in GlobalVariable
  BY <1>2, <1>3, SegmentType DEF DataInv, DataTypeOK, GlobalVariable, Parse
<1>5. /\ gvs' \in Seq(GlobalVariable)
      /\ Mem \in DOMAIN gvs'
      /\ gvs'[Mem] = gvs[Mem]
  BY <1>1, <1>4, SMTT(30) DEF DataInv, DataTypeOK, MemoryHasItsSize
<1>6. DataTypeOK'
  BY <1>3, <1>5, VisitedType DEF Split, DataInv, DataTypeOK
<1>7. MemoryHasItsSize' /\ UNCHANGED <<CurrentMemory, CurrentSegments>>
  BY <1>5, WithOptions DEF Split
<1> QED
  BY <1>6, <1>7 DEF Split, DataInv, VisitsAModule

LEMMA LeftOutStep ==
  ASSUME DataInv, mems # << >>, NEW seg \in Segments, opts[Parse] # {},
         Visited(seg), UNCHANGED <<pool, gvs, mems, opts, status>>
  PROVE  DataInv' /\ UNCHANGED <<CurrentMemory, CurrentSegments>>
<1>1. DataTypeOK'
  BY VisitedType DEF DataInv, DataTypeOK
<1>2. MemoryHasItsSize' /\ UNCHANGED <<CurrentMemory, CurrentSegments>>
  BY WithOptions DEF DataInv, MemoryHasItsSize
<1> QED
  BY <1>1, <1>2 DEF DataInv, VisitsAModule

(* Without options: the segment is copied into the memory.                 *)
CopiedTo(seg) ==
  /\ seg.offset + Len(seg.data) <= gvs[Mem].size
  /\ CurrentMemory = Image(Mem)
  /\ DOMAIN Image(Mem) = 0 .. gvs[Mem].size - 1
  /\ CurrentMemory' = Patched(Image(Mem), seg.offset, seg.data)
  /\ CurrentSegments' = Append(CurrentSegments, seg)

LEMMA FlattenedStep ==
  ASSUME DataInv, mems # << >>, NEW seg \in Segments, opts[Parse] = {},
         Flattened(seg), AssertionFits(seg), ~ SumWraps(seg)
  PROVE  DataInv' /\ CopiedTo(seg)
<1> DEFINE n == gvs[Mem].size
           init == gvs[Mem].init
           at == SExt(seg.offset)
<1>1. /\ at = seg.offset
      /\ seg.offset + Len(seg.data) <= n
      /\ n \in Nat
      /\ seg.offset \in Nat
      /\ seg.data \in Seq(Nat)
  <2>1. seg.offset \in 0 .. U32 - 1 /\ seg.offset \in Nat /\ Len(seg.data) \in Nat
        /\ seg.data \in Seq(Nat)
    BY SegmentType
  <2>2. n \in 0 .. U32
    BY DEF DataInv, MemoryHasItsSize
  <2> QED
    BY <2>1, <2>2, SegmentFits, WidthsAssumption DEF AssertionFits, SumWraps
<1>2. UNCHANGED <<mems, opts, status>> /\ Visited(seg)
  BY DEF Flattened
<1>3. Parse' = Parse /\ Mem' = Mem /\ Mem \in DOMAIN gvs
  BY <1>2 DEF Parse, Mem, DataInv, MemoryHasItsSize
<1>4. /\ visited' \in Seq(Seq(Segments))
      /\ Len(visited') = Len(mems)
      /\ CurrentSegments' = Append(CurrentSegments, seg)
  BY <1>2, <1>3, VisitedType DEF CurrentSegments
<1>5. CurrentMemory = Image(Mem) /\ CurrentMemory' = Image(Mem)'
  BY <1>2, <1>3 DEF CurrentMemory
<1>6. CASE HasBytes(Mem)
  <2> DEFINE new == Patched(Image(Mem), at, seg.data)
  <2>1. /\ pool' = [pool EXCEPT ![init].bytes = new]
        /\ gvs' = gvs
    BY <1>6 DEF Flattened, Contents
  <2>2. /\ pool \in Seq(Constant)
        /\ init \in DOMAIN pool
        /\ Image(Mem) = pool[init].bytes
        /\ DOMAIN Image(Mem) = 0 .. n - 1
    BY <1>6 DEF DataInv, DataTypeOK, MemoryHasItsSize, HasBytes, Image
  <2>3. Image(Mem) \in [0 .. n - 1 -> Nat]
    <3>1. pool[init] \in Constant
      BY <2>2
    <3>2. pool[init].bytes \in ByteArrays
      BY <3>1 DEF Constant
    <3>3. PICK m \in Nat : pool[init].bytes \in [0 .. m - 1 -> Nat]
      BY <3>2 DEF ByteArrays
    <3> QED
      BY <2>2, <3>3
  <2>4. new \in [0 .. n - 1 -> Nat]
    BY <1>1, <2>3, PatchedType
  <2> HIDE DEF new
  <2>5. /\ pool' \in Seq(Constant)
        /\ init \in DOMAIN pool'
        /\ pool'[init].bytes = new
    <3> HIDE DEF n, init, at
    <3>1. pool[init] \in Constant /\ new \in ByteArrays
      <4>1. pool[init] \in Constant
        BY <2>2
      <4>2. new \in ByteArrays
        BY <2>4, <1>1, IsByteArray
      <4> QED
        BY <4>1, <4>2
    <3> DEFINE c == [pool[init] EXCEPT !.bytes = new]
    <3>2. c \in Constant /\ c.bytes = new
      BY <3>1 DEF Constant
    <3>3. pool' = [pool EXCEPT ![init] = c]
      BY <2>1
    <3> HIDE DEF c
    <3> QED
      BY <2>2, <3>2, <3>3, UpdateSeq
  <2>6. DataTypeOK'
    BY <1>2, <1>4, <2>1, <2>5 DEF DataInv, DataTypeOK
  <2>7. MemoryHasItsSize'
    BY <1>2, <1>3, <2>1, <2>4, <2>5 DEF DataInv, MemoryHasItsSize, HasBytes
  <2>8. Image(Mem)' = new
    BY <1>3, <1>6, <2>1, <2>5 DEF Image, HasBytes
  <2> QED
    BY <1>1, <1>2, <1>4, <1>5, <2>2, <2>6, <2>7, <2>8
       DEF DataInv, VisitsAModule, CopiedTo, new
<1>7. CASE ~ HasBytes(Mem)
  <2> DEFINE new == Patched(Zeroes(n), at, seg.data)
  <2>1. PICK k \in Initialisers :
          /\ GetRaw(new, k)
          /\ gvs' = [gvs EXCEPT ![Mem].init = k]
    BY <1>7 DEF Flattened
  <2>2. Image(Mem) = Zeroes(n)
    BY <1>7 DEF Image, HasBytes
  <2>3. Zeroes(n) \in [0 .. n - 1 -> Nat]
    BY DEF Zeroes
  <2>4. new \in [0 .. n - 1 -> Nat]
    BY <1>1, <2>3, PatchedType
  <2> HIDE DEF new
  <2>5. /\ pool' \in Seq(Constant)
        /\ k \in Int /\ k # NoInit
        /\ k = ZeroInit => new = Zeroes(n)
        /\ k # ZeroInit => k \in DOMAIN pool' /\ pool'[k].bytes = new
    <3>1. pool \in Seq(Constant)
      BY DEF DataInv, DataTypeOK
    <3> QED
      BY <1>1, <2>1, <2>4, <3>1, GetRawStandsFor, SMTT(30)
  <2>6. /\ gvs' \in Seq(GlobalVariable)
        /\ Mem \in DOMAIN gvs'
        /\ gvs'[Mem].init = k
        /\ gvs'[Mem].size = n
    <3>1. gvs \in Seq(GlobalVariable) /\ gvs[Mem] \in GlobalVariable
      BY <1>3 DEF DataInv, DataTypeOK
    <3>2. /\ [gvs[Mem] EXCEPT !.init = k] \in GlobalVariable
          /\ [gvs[Mem] EXCEPT !.init = k].init = k
          /\ [gvs[Mem] EXCEPT !.init = k].size = n
      BY <2>5, <3>1 DEF GlobalVariable
    <3>3. gvs' = [gvs EXCEPT ![Mem] = [gvs[Mem] EXCEPT !.init = k]]
      BY <2>1
    <3> QED
      BY <1>3, <3>1, <3>2, <3>3, UpdateSeq
  <2>7. DataTypeOK'
    BY <1>2, <1>4, <2>5, <2>6 DEF DataInv, DataTypeOK
  <2>8. MemoryHasItsSize'
    BY <1>2, <1>3, <2>4, <2>5, <2>6 DEF DataInv, MemoryHasItsSize, HasBytes
  <2>9. Image(Mem)' = new
    BY <1>3, <2>5, <2>6 DEF Image
  <2>10. DOMAIN Image(Mem) = 0 .. n - 1
    BY <2>2, <2>3
  <2> QED
    BY <1>1, <1>2, <1>4, <1>5, <2>2, <2>7, <2>8, <2>9, <2>10
       DEF DataInv, VisitsAModule, CopiedTo, new
<1> QED
  BY <1>6, <1>7

-----------------------------------------------------------------------------
(* The refinement.                                                         *)

LEMMA VisitStep ==
  ASSUME DataInv, NEW seg \in Segments, VisitDataSegment(seg)
  PROVE  /\ DataInv'
         /\ Memories!Copy(seg) \/ UNCHANGED <<CurrentMemory, CurrentSegments>>
<1>1. mems # << >> /\ status = "visit"
  BY DEF VisitDataSegment, DataInv, VisitsAModule
<1>2. opts[Parse] \in SUBSET Options
  BY <1>1 DEF DataInv, DataTypeOK, Parse
<1>3. CASE "SplitMem" \in opts[Parse]
  BY <1>1, <1>3, SplitStep DEF VisitDataSegment
<1>4. CASE "SplitMem" \notin opts[Parse] /\ "NoMemInitializer" \in opts[Parse]
  BY <1>1, <1>4, LeftOutStep DEF VisitDataSegment
<1>5. CASE "SplitMem" \notin opts[Parse] /\ "NoMemInitializer" \notin opts[Parse]
  <2>1. opts[Parse] = {} /\ Flattened(seg)
    BY <1>2, <1>5 DEF Options, VisitDataSegment
  <2>2. CASE ~ AssertionFits(seg)
    BY <2>1, <2>2, StopStep DEF Flattened
  <2>3. CASE AssertionFits(seg) /\ SumWraps(seg)
    BY <2>1, <2>3, StopStep DEF Flattened
  <2>4. CASE AssertionFits(seg) /\ ~ SumWraps(seg)
    <3>1. DataInv' /\ CopiedTo(seg)
      BY <1>1, <2>1, <2>4, FlattenedStep
    <3>2. gvs[Mem].size \in Nat /\ seg.offset \in Nat /\ Len(seg.data) \in Nat
      BY <1>1, SegmentType, WidthsAssumption DEF DataInv, MemoryHasItsSize
    <3>3. \A a \in seg.offset .. seg.offset + Len(seg.data) - 1 :
            a \in DOMAIN CurrentMemory
      BY <3>1, <3>2 DEF CopiedTo
    <3> QED
      BY <3>1, <3>3 DEF CopiedTo, Patched, Memories!Copy, Memories!Overwritten
  <2> QED
    BY <2>2, <2>3, <2>4
<1> QED
  BY <1>3, <1>4, <1>5

LEMMA DataStep ==
  ASSUME DataInv, [DNext \/ DOver]_dvars
  PROVE  DataInv' /\ [Memories!ImgNext]_(Memories!ivars)
<1> USE DEF Memories!ivars
<1>1. ASSUME NEW lim \in Limits, NEW ext \in BOOLEAN, NEW os \in OptionSets,
             DeclareMemory(lim, ext, os)
      PROVE  DataInv' /\ Memories!ImgNext
  <2>1. /\ DataInv'
        /\ CurrentMemory' = Zeroes(MemoryLength(lim))
        /\ CurrentSegments' = << >>
    BY <1>1, DeclareStep
  <2>2. Zeroes(MemoryLength(lim)) = Memories!Zeros(MemoryLength(lim))
    BY DEF Zeroes, Memories!Zeros
  <2> QED
    BY <2>1, <2>2 DEF Memories!ImgNext, Memories!Instantiate
<1>2. ASSUME NEW seg \in Segments, VisitDataSegment(seg)
      PROVE  DataInv' /\ [Memories!ImgNext]_(Memories!ivars)
  BY <1>2, VisitStep DEF Memories!ImgNext
<1>3. CASE UnsupportedOffset
  BY <1>3, StopStep DEF UnsupportedOffset
<1>4. CASE ModuleDone
  BY <1>4, StopStep DEF ModuleDone
<1>5. CASE UNCHANGED dvars
  <2>1. Stop(status)
    BY <1>5 DEF dvars, Stop
  <2> QED
    BY <2>1, StopStep
<1> QED
  BY <1>1, <1>2, <1>3, <1>4, <1>5 DEF DNext, DOver

(* Every global variable the translation calls the memory of a module has  *)
(* the declared length, and a constant for its bytes only if the module is *)
(* translated without options.                                             *)
THEOREM MemoryConsistent == DSpec => []DataInv
<1>1. DataInv /\ [DNext \/ DOver]_dvars => DataInv'
  BY DataStep
<1> QED
  BY DataInitInv, <1>1, PTL DEF DSpec

(* declareMemory and visitDataSegment give every module the memory         *)
(* WebAssembly instantiates: each step is a step of MemoryImage or leaves  *)
(* the memory alone.                                                       *)
THEOREM MemoryImplemented == DSpec => ImplementsImage
<1>1. DInit => Memories!ImgInit
  BY DEF DInit, Memories!ImgInit, CurrentMemory, CurrentSegments
<1>2. DataInv /\ [DNext \/ DOver]_dvars => [Memories!ImgNext]_(Memories!ivars)
  BY DataStep
<1> QED
  BY <1>1, <1>2, MemoryConsistent, PTL DEF DSpec, ImplementsImage, Memories!ImgSpec

-----------------------------------------------------------------------------
(* Which segments are copied.                                              *)

LEMMA HighSegments ==
  ASSUME NEW o \in 0 .. U32 - 1, NEW len \in Nat, NEW n \in 0 .. U32,
         o + len <= n
  PROVE  /\ (len + SExt(o)) % U64 <= n /\ ~ (len + SExt(o) >= U64) <=> 2 * o < U32
         /\ len + SExt(o) >= U64 <=> 2 * o >= U32 /\ o + len = U32
<1> USE WidthsAssumption
<1>1. CASE 2 * o < U32
  <2>1. SExt(o) = o /\ len + o \in Nat /\ len + o < U64
    BY <1>1, SMT DEF SExt
  <2>2. (len + SExt(o)) % U64 = len + o
    BY <2>1, ModSmall
  <2> QED
    BY <1>1, <2>1, <2>2
<1>2. CASE ~ (2 * o < U32)
  <2>1. SExt(o) = U64 - U32 + o
    BY <1>2 DEF SExt
  <2>2. CASE o + len = U32
    BY <1>2, <2>1, <2>2
  <2>3. CASE o + len < U32
    <3>1. len + SExt(o) \in Nat /\ len + SExt(o) < U64 /\ len + SExt(o) > n
      BY <1>2, <2>1, <2>3
    <3>2. (len + SExt(o)) % U64 = len + SExt(o)
      BY <3>1, ModSmall
    <3> QED
      BY <1>2, <2>3, <3>1, <3>2
  <2> QED
    BY <2>2, <2>3
<1> QED
  BY <1>1, <1>2

(* The assertion, with its sign extension and its wrapping sum, lets the   *)
(* fitting segments of the lower half through and no other.                *)
THEOREM HighSegmentsStop == DSpec => []OnlyHighSegmentsStop
<1>1. DataInv => OnlyHighSegmentsStop
  <2> SUFFICES ASSUME DataInv, status = "visit", NEW seg \in Segments,
                      seg.offset + Len(seg.data) <= gvs[Mem].size
               PROVE  /\ AssertionFits(seg) /\ ~ SumWraps(seg)
                           <=> 2 * seg.offset < U32
                      /\ SumWraps(seg) <=> /\ 2 * seg.offset >= U32
                                          /\ seg.offset + Len(seg.data) = U32
    BY DEF OnlyHighSegmentsStop
  <2>1. gvs[Mem].size \in 0 .. U32
    BY DEF DataInv, MemoryHasItsSize, VisitsAModule
  <2>2. seg.offset \in 0 .. U32 - 1 /\ Len(seg.data) \in Nat
    BY SegmentType
  <2> QED
    BY <2>1, <2>2, HighSegments DEF AssertionFits, SumWraps
<1> QED
  BY <1>1, MemoryConsistent, PTL

-----------------------------------------------------------------------------
(* Split memories.                                                         *)

(* The module being translated has made one global variable per segment,   *)
(* behind that of its memory, and the constant of each is in the pool.     *)
SplitInv ==
  mems # << >> /\ "SplitMem" \in opts[Parse] =>
    /\ Len(gvs) = Mem + Len(visited[Parse])
    /\ \A i \in DOMAIN visited[Parse] :
         LET g == gvs[Mem + i]
             seg == visited[Parse][i]
         IN  /\ g.addr = seg.offset
             /\ g.size = Len(seg.data)
             /\ g.init = ZeroInit => Bytes(seg.data) = Zeroes(g.size)
             /\ g.init # ZeroInit => /\ g.init # NoInit
                                     /\ g.init \in DOMAIN pool
                                     /\ pool[g.init].bytes = Bytes(seg.data)

(* getRaw changes no constant of the pool.                                 *)
LEMMA GetRawKeeps ==
  ASSUME pool \in Seq(Constant), NEW n \in Nat, NEW bytes \in [0 .. n - 1 -> Nat],
         NEW k \in Initialisers, GetRaw(bytes, k)
  PROVE  \A j \in DOMAIN pool : j \in DOMAIN pool' /\ pool'[j] = pool[j]
<1>1. CASE UNCHANGED pool
  BY <1>1
<1>2. CASE ~ UNCHANGED pool
  <2> DEFINE c == [key |-> bytes, bytes |-> bytes]
  <2>1. pool' = Append(pool, c)
    BY <1>2 DEF GetRaw
  <2>2. c \in Constant
    BY IsByteArray DEF Constant
  <2> HIDE DEF c
  <2> QED
    BY <2>1, <2>2
<1> QED
  BY <1>1, <1>2

LEMMA SplitInvSplit ==
  ASSUME DataInv, SplitInv, mems # << >>, "SplitMem" \in opts[Parse],
         NEW seg \in Segments, Split(seg)
  PROVE  SplitInv'
<1>1. PICK k \in Initialisers :
        /\ GetRaw(Bytes(seg.data), k)
        /\ gvs' = Append(gvs, [of |-> Parse, addr |-> seg.offset,
                               size |-> Len(seg.data), init |-> k])
  BY DEF Split
<1> DEFINE g == [of |-> Parse, addr |-> seg.offset,
                 size |-> Len(seg.data), init |-> k]
           old == visited[Parse]
<1>2. /\ pool \in Seq(Constant) /\ gvs \in Seq(GlobalVariable)
      /\ Bytes(seg.data) \in [0 .. Len(seg.data) - 1 -> Nat]
      /\ Len(seg.data) \in Nat
      /\ old \in Seq(Segments)
  BY SegmentType, BytesType, SMTT(30) DEF DataInv, DataTypeOK, Parse
<1>3. /\ k \in Int /\ k # NoInit
      /\ k = ZeroInit => Bytes(seg.data) = Zeroes(Len(seg.data))
      /\ k # ZeroInit => k \in DOMAIN pool' /\ pool'[k].bytes = Bytes(seg.data)
  BY <1>1, <1>2, GetRawStandsFor
<1>4. \A j \in DOMAIN pool : j \in DOMAIN pool' /\ pool'[j] = pool[j]
  BY <1>1, <1>2, GetRawKeeps
<1>5. g \in GlobalVariable
  BY <1>2, <1>3, SegmentType DEF DataInv, DataTypeOK, GlobalVariable, Parse
<1>6. Parse' = Parse /\ Mem' = Mem /\ visited'[Parse] = Append(old, seg)
  BY VisitedType DEF Split, Parse, Mem
<1>7. Mem \in Nat /\ Len(gvs) = Mem + Len(old)
  BY SMTT(30) DEF SplitInv, DataInv, DataTypeOK, MemoryHasItsSize
<1> HIDE DEF g, old
<1>8. gvs' = Append(gvs, g)
  BY <1>1 DEF g
<1>9. /\ Len(gvs') = Len(gvs) + 1
      /\ gvs'[Len(gvs) + 1] = g
      /\ \A j \in 1 .. Len(gvs) : gvs'[j] = gvs[j]
  BY <1>2, <1>5, <1>8
<1>10. /\ Len(visited'[Parse]) = Len(old) + 1
       /\ DOMAIN visited'[Parse] = 1 .. Len(old) + 1
       /\ visited'[Parse][Len(old) + 1] = seg
       /\ \A i \in 1 .. Len(old) : visited'[Parse][i] = old[i]
  BY <1>2, <1>6
<1> SUFFICES ASSUME NEW i \in 1 .. Len(old) + 1
             PROVE  LET h == gvs'[Mem + i]
                        sg == visited'[Parse][i]
                    IN  /\ h.addr = sg.offset
                        /\ h.size = Len(sg.data)
                        /\ h.init = ZeroInit => Bytes(sg.data) = Zeroes(h.size)
                        /\ h.init # ZeroInit =>
                             /\ h.init # NoInit
                             /\ h.init \in DOMAIN pool'
                             /\ pool'[h.init].bytes = Bytes(sg.data)
  BY <1>2, <1>6, <1>7, <1>9, <1>10 DEF SplitInv
<1>11. CASE i = Len(old) + 1
  <2>1. gvs'[Mem + i] = g /\ visited'[Parse][i] = seg
    BY <1>2, <1>7, <1>9, <1>10, <1>11
  <2>2. /\ g.addr = seg.offset /\ g.size = Len(seg.data) /\ g.init = k
    BY DEF g
  <2> QED
    BY <1>3, <2>1, <2>2
<1>12. CASE i \in 1 .. Len(old)
  <2>1. gvs'[Mem + i] = gvs[Mem + i] /\ visited'[Parse][i] = old[i]
    BY <1>2, <1>7, <1>9, <1>10, <1>12, SMTT(30)
  <2>2. /\ gvs[Mem + i].addr = old[i].offset
        /\ gvs[Mem + i].size = Len(old[i].data)
        /\ gvs[Mem + i].init = ZeroInit => Bytes(old[i].data) = Zeroes(gvs[Mem + i].size)
        /\ gvs[Mem + i].init # ZeroInit =>
             /\ gvs[Mem + i].init # NoInit
             /\ gvs[Mem + i].init \in DOMAIN pool
             /\ pool[gvs[Mem + i].init].bytes = Bytes(old[i].data)
    BY <1>2, <1>12 DEF SplitInv, old
  <2> QED
    BY <1>4, <2>1, <2>2
<1> QED
  BY <1>2, <1>11, <1>12

LEMMA SplitInvStep ==
  ASSUME DataInv, SplitInv, [DNext \/ DOver]_dvars
  PROVE  SplitInv'
<1>1. ASSUME NEW s, Stop(s)
      PROVE  SplitInv'
  BY <1>1 DEF Stop, SplitInv, Parse, Mem
<1>2. ASSUME NEW lim \in Limits, NEW ext \in BOOLEAN, NEW os \in OptionSets,
             DeclareMemory(lim, ext, os)
      PROVE  SplitInv'
  <2>1. /\ mems \in Seq(Nat) /\ visited \in Seq(Seq(Segments))
        /\ Len(visited) = Len(mems)
        /\ Len(gvs) \in Nat
        /\ << >> \in Seq(Segments)
    BY DEF DataInv, DataTypeOK
  <2>2. /\ mems' = Append(mems, Len(gvs) + 1)
        /\ visited' = Append(visited, << >>)
        /\ Len(gvs') = Len(gvs) + 1
    BY <1>2 DEF DeclareMemory, DataInv, DataTypeOK
  <2>3. Parse' = Len(mems) + 1 /\ Mem' = Len(gvs) + 1
    BY <2>1, <2>2, AppendSeq DEF Parse, Mem
  <2>4. visited'[Parse'] = << >>
    BY <2>1, <2>2, <2>3, AppendSeq
  <2>5. Len(visited'[Parse']) = 0
    BY <2>4
  <2>6. DOMAIN visited'[Parse'] = {}
    BY <2>4
  <2>7. Len(gvs') = Mem' + Len(visited'[Parse'])
    <3>1. Len(gvs') = (Len(gvs) + 1) + 0
      BY <2>1, <2>2
    <3> QED
      BY <2>3, <2>5, <3>1, Zenon
  <2> QED
    BY <2>6, <2>7 DEF SplitInv
<1>3. ASSUME NEW seg \in Segments, VisitDataSegment(seg)
      PROVE  SplitInv'
  <2>1. mems # << >>
    BY <1>3 DEF VisitDataSegment, DataInv, VisitsAModule
  <2>2. CASE "SplitMem" \in opts[Parse]
    BY <1>3, <2>1, <2>2, SplitInvSplit DEF VisitDataSegment
  <2>3. CASE "SplitMem" \notin opts[Parse]
    <3>1. UNCHANGED <<mems, opts>>
      BY <1>3, <2>3 DEF VisitDataSegment, Flattened, Stop
    <3> QED
      BY <2>3, <3>1 DEF SplitInv, Parse
  <2> QED
    BY <2>2, <2>3
<1>4. CASE UNCHANGED dvars
  BY <1>4 DEF dvars, SplitInv, Parse, Mem
<1> QED
  BY <1>1, <1>2, <1>3, <1>4 DEF DNext, DOver, UnsupportedOffset, ModuleDone

(* SplitMem gives every segment of the module being translated a global    *)
(* variable with its bytes and its address.                                *)
THEOREM SplitCorrect == DSpec => []SplitIsRight
<1>1. DInit => SplitInv
  BY DEF DInit, SplitInv
<1>2. DataInv /\ SplitInv /\ [DNext \/ DOver]_dvars => SplitInv'
  BY SplitInvStep
<1>3. DataInv /\ SplitInv => SplitIsRight
  <2> SUFFICES ASSUME DataInv, SplitInv, status = "visit",
                      "SplitMem" \in opts[Parse], NEW i \in DOMAIN visited[Parse]
               PROVE  /\ Image(Mem + i) = Bytes(visited[Parse][i].data)
                      /\ gvs[Mem + i].addr = visited[Parse][i].offset
    BY DEF SplitIsRight
  <2>1. mems # << >>
    BY DEF DataInv, VisitsAModule
  <2> QED
    BY <2>1 DEF SplitInv, Image, ZeroInit, NoInit
<1> QED
  BY <1>1, <1>2, <1>3, MemoryConsistent, PTL DEF DSpec

-----------------------------------------------------------------------------
(* What the segments of a module leave in its memory (Expected).           *)

(* A table f of the memory after each of the first last segments.          *)
CopyTable(size, segs, last, f) ==
  f = [n \in 0 .. last |->
         IF n = 0 THEN Zeroes(size)
         ELSE Memories!Overwritten(f[n - 1], segs[n].offset, segs[n].data)]
(* The memory after the first i segments.                                  *)
Copies(size, segs, i) == (CHOOSE f : CopyTable(size, segs, i, f))[i]

(* There is such a table                                                   *)
LEMMA CopyTableExists ==
  ASSUME NEW size, NEW segs, NEW last \in Nat
  PROVE  \E f : CopyTable(size, segs, last, f)
<1> DEFINE T == { n \in Nat : \E f : CopyTable(size, segs, n, f) }
<1>1. 0 \in T
  <2> DEFINE z == Zeroes(size)
             f == [n \in 0 .. 0 |-> z]
  <2> HIDE DEF z
  <2>1. f[0] = z /\ DOMAIN f = 0 .. 0
    OBVIOUS
  <2>2. \A n \in 0 .. 0 : n = 0
    OBVIOUS
  <2>3. f = [n \in 0 .. 0 |-> IF n = 0 THEN z
               ELSE Memories!Overwritten(f[n - 1], segs[n].offset, segs[n].data)]
    BY <2>1, <2>2
  <2>4. CopyTable(size, segs, 0, f)
    BY <2>3 DEF CopyTable, z
  <2> QED
    BY <2>4
<1>2. ASSUME NEW m \in Nat, m \in T
      PROVE  m + 1 \in T
  <2>1. PICK f : CopyTable(size, segs, m, f)
    BY <1>2
  <2> DEFINE z == Zeroes(size)
             Over(b, n) == Memories!Overwritten(b, segs[n].offset, segs[n].data)
             g == [n \in 0 .. m + 1 |-> IF n = m + 1 THEN Over(f[m], m + 1) ELSE f[n]]
  <2>2. f = [n \in 0 .. m |-> IF n = 0 THEN z ELSE Over(f[n - 1], n)]
    BY <2>1 DEF CopyTable
  <2> HIDE DEF z, Over
  <2>3. ASSUME NEW n \in 0 .. m + 1
        PROVE  g[n] = IF n = 0 THEN z ELSE Over(g[n - 1], n)
    <3>1. CASE n = m + 1
      <4>1. g[n] = Over(f[m], n) /\ g[n - 1] = f[m] /\ n # 0
        BY <3>1
      <4> QED
        BY <4>1
    <3>2. CASE n \in 0 .. m
      <4>1. f[n] = IF n = 0 THEN z ELSE Over(f[n - 1], n)
        BY <2>2, <3>2
      <4>2. g[n] = f[n] /\ (n # 0 => g[n - 1] = f[n - 1])
        BY <3>2
      <4> QED
        BY <4>1, <4>2
    <3> QED
      BY <3>1, <3>2
  <2>4. g = [n \in 0 .. m + 1 |-> IF n = 0 THEN z ELSE Over(g[n - 1], n)]
    <3>1. DOMAIN g = 0 .. m + 1 /\ g = [n \in 0 .. m + 1 |-> g[n]]
      OBVIOUS
    <3> HIDE DEF g
    <3> QED
      BY <2>3, <3>1
  <2> HIDE DEF g
  <2>5. CopyTable(size, segs, m + 1, g)
    BY <2>4 DEF CopyTable, z, Over
  <2> QED
    BY <2>5
<1> HIDE DEF T
<1>3. last \in T
  BY <1>1, <1>2, SetInduction
<1> QED
  BY <1>3 DEF T

(* and the segments determine it.                                          *)
LEMMA CopyTableUnique ==
  ASSUME NEW size, NEW segs, NEW segt, NEW i \in Nat, NEW j \in Nat, i <= j,
         \A n \in 1 .. i : segs[n] = segt[n],
         NEW f, CopyTable(size, segs, i, f), NEW g, CopyTable(size, segt, j, g)
  PROVE  f[i] = g[i]
<1> DEFINE T == { n \in Nat : n <= i => f[n] = g[n] }
<1>1. 0 \in T
  <2>1. f[0] = Zeroes(size) /\ g[0] = Zeroes(size)
    BY DEF CopyTable
  <2> QED
    BY <2>1
<1>2. ASSUME NEW m \in Nat, m \in T
      PROVE  m + 1 \in T
  <2> SUFFICES ASSUME m + 1 <= i
               PROVE  f[m + 1] = g[m + 1]
    OBVIOUS
  <2>1. f[m] = g[m]
    BY <1>2
  <2>2. m + 1 \in 0 .. i /\ m + 1 \in 0 .. j /\ m + 1 # 0 /\ (m + 1) - 1 = m /\ m + 1 \in 1 .. i
    OBVIOUS
  <2>3. f[m + 1] = Memories!Overwritten(f[m], segs[m + 1].offset, segs[m + 1].data)
    BY <2>2 DEF CopyTable
  <2>4. g[m + 1] = Memories!Overwritten(g[m], segt[m + 1].offset, segt[m + 1].data)
    BY <2>2 DEF CopyTable
  <2> QED
    BY <2>1, <2>2, <2>3, <2>4
<1> HIDE DEF T
<1>3. i \in T
  BY <1>1, <1>2, SetInduction
<1> QED
  BY <1>3 DEF T

(* Each segment is copied over what the ones before it left.               *)
LEMMA CopiesFacts ==
  ASSUME NEW size, NEW segs, NEW i \in Nat
  PROVE  /\ Copies(size, segs, 0) = Zeroes(size)
         /\ Copies(size, segs, i + 1) =
              Memories!Overwritten(Copies(size, segs, i),
                                   segs[i + 1].offset, segs[i + 1].data)
<1>1. PICK z : CopyTable(size, segs, 0, z)
  BY CopyTableExists
<1>2. Copies(size, segs, 0) = Zeroes(size)
  <2> DEFINE f == CHOOSE f : CopyTable(size, segs, 0, f)
  <2>1. CopyTable(size, segs, 0, f)
    BY <1>1
  <2>2. f[0] = Zeroes(size)
    BY <2>1 DEF CopyTable
  <2> QED
    BY <2>2 DEF Copies
<1>3. i + 1 \in Nat
  OBVIOUS
<1> DEFINE g == CHOOSE f : CopyTable(size, segs, i, f)
           h == CHOOSE f : CopyTable(size, segs, i + 1, f)
<1>4. CopyTable(size, segs, i, g)
  BY CopyTableExists
<1>5. CopyTable(size, segs, i + 1, h)
  BY <1>3, CopyTableExists
<1>6. Copies(size, segs, i) = g[i] /\ Copies(size, segs, i + 1) = h[i + 1]
  BY DEF Copies
<1> HIDE DEF g, h
<1>7. g[i] = h[i]
  <2>1. i <= i + 1
    OBVIOUS
  <2> QED
    BY <1>3, <1>4, <1>5, <2>1, CopyTableUnique
<1>8. h[i + 1] = Memories!Overwritten(h[i], segs[i + 1].offset, segs[i + 1].data)
  <2>1. i + 1 \in 0 .. i + 1 /\ i + 1 # 0 /\ (i + 1) - 1 = i
    OBVIOUS
  <2> QED
    BY <1>5, <2>1 DEF CopyTable
<1> QED
  BY <1>2, <1>6, <1>7, <1>8

(* The segments behind do not matter.                                      *)
LEMMA CopiesSame ==
  ASSUME NEW size, NEW segs, NEW segt, NEW i \in Nat,
         \A n \in 1 .. i : segs[n] = segt[n]
  PROVE  Copies(size, segs, i) = Copies(size, segt, i)
<1> DEFINE f == CHOOSE c : CopyTable(size, segs, i, c)
           g == CHOOSE c : CopyTable(size, segt, i, c)
<1>1. CopyTable(size, segs, i, f) /\ CopyTable(size, segt, i, g)
  BY CopyTableExists
<1>2. Copies(size, segs, i) = f[i] /\ Copies(size, segt, i) = g[i]
  BY DEF Copies
<1> HIDE DEF f, g
<1>3. f[i] = g[i]
  BY <1>1, CopyTableUnique
<1> QED
  BY <1>2, <1>3

LEMMA ExpectedIs ==
  ASSUME NEW p, NEW i
  PROVE  /\ Expected(p, i) = Copies(gvs[mems[p]].size, visited[p], i)
         /\ Expected(p, i)' = Copies(gvs'[mems'[p]].size, visited'[p], i)
<1>1. Expected(p, i) = Copies(gvs[mems[p]].size, visited[p], i)
  BY DEF Expected, Copies, CopyTable
<1>2. Expected(p, i)' = Copies(gvs'[mems'[p]].size, visited'[p], i)
  BY DEF Expected, Copies, CopyTable
<1> QED
  BY <1>1, <1>2

(* Segment i is the first of segs that leaves something else than zeros,   *)
(* and it leaves the given bytes                                           *)
BeginsIn(size, segs, i, bytes) ==
  /\ \A j \in 0 .. i - 1 : Copies(size, segs, j) = Zeroes(size)
  /\ Copies(size, segs, i) = bytes
(* ... with more segments behind it.                                       *)
StartsIn(size, segs, bytes) ==
  \E i \in 1 .. Len(segs) - 1 : BeginsIn(size, segs, i, bytes)
(* segt has the segments of segs and perhaps more.                         *)
Longer(segs, segt) ==
  /\ Len(segs) \in Nat /\ Len(segt) \in Nat /\ Len(segs) <= Len(segt)
  /\ \A n \in 1 .. Len(segs) : segt[n] = segs[n]

LEMMA BeginsLonger ==
  ASSUME NEW size, NEW segs, NEW segt, Longer(segs, segt),
         NEW i \in 1 .. Len(segs), NEW bytes, BeginsIn(size, segs, i, bytes)
  PROVE  i \in 1 .. Len(segt) /\ BeginsIn(size, segt, i, bytes)
<1>1. i \in 1 .. Len(segt) /\ i \in Nat /\ Len(segs) \in Nat
  BY DEF Longer
<1>2. ASSUME NEW j \in 0 .. i
      PROVE  Copies(size, segt, j) = Copies(size, segs, j)
  <2>1. j \in Nat /\ \A n \in 1 .. j : segs[n] = segt[n]
    BY <1>1 DEF Longer
  <2> QED
    BY <2>1, CopiesSame
<1>3. \A j \in 0 .. i - 1 : j \in 0 .. i
  BY <1>1
<1>4. i \in 0 .. i
  BY <1>1
<1> QED
  BY <1>1, <1>2, <1>3, <1>4 DEF BeginsIn

LEMMA StartsLonger ==
  ASSUME NEW size, NEW segs, NEW segt, Longer(segs, segt), NEW bytes,
         StartsIn(size, segs, bytes)
  PROVE  StartsIn(size, segt, bytes)
<1>1. PICK i \in 1 .. Len(segs) - 1 : BeginsIn(size, segs, i, bytes)
  BY DEF StartsIn
<1>2. i \in 1 .. Len(segs) /\ i \in 1 .. Len(segt) - 1
  BY DEF Longer
<1>3. BeginsIn(size, segt, i, bytes)
  BY <1>1, <1>2, BeginsLonger
<1> QED
  BY <1>2, <1>3 DEF StartsIn

-----------------------------------------------------------------------------
(* The history of the constants.                                           *)

(* What a global variable is to hold (Owed).                               *)
Holds(g) ==
  LET p == gvs[g].of
  IN  IF g # mems[p] THEN Bytes(visited[p][g - mems[p]].data)
      ELSE IF opts[p] = {} THEN Copies(gvs[g].size, visited[p], Len(visited[p]))
      ELSE Zeroes(gvs[g].size)

(* Each memory is a global variable of its module.                         *)
Owners ==
  /\ \A p \in 1 .. Len(mems) :
       mems[p] \in 1 .. Len(gvs) /\ gvs[mems[p]].of = p
  /\ \A g \in 1 .. Len(gvs) :
       /\ gvs[g].of \in 1 .. Len(mems)
       /\ HasBytes(g) => gvs[g].init \in 1 .. Len(pool)
(* A memory is all zeros until a segment leaves something else, and that   *)
(* is what its constant was made from.                                     *)
MemoryBegan(p) ==
  LET g == mems[p]
  IN  /\ HasBytes(g) =>
           /\ opts[p] = {}
           /\ \E i \in 1 .. Len(visited[p]) :
                BeginsIn(gvs[g].size, visited[p], i, pool[gvs[g].init].key)
      /\ ~ HasBytes(g) /\ opts[p] = {} =>
           \A j \in 0 .. Len(visited[p]) :
             Copies(gvs[g].size, visited[p], j) = Zeroes(gvs[g].size)
(* The other global variables hold one segment, made from its bytes.       *)
SegmentMade(g) ==
  LET p == gvs[g].of
      data == visited[p][g - mems[p]].data
  IN  /\ opts[p] # {}
      /\ g - mems[p] \in 1 .. Len(visited[p])
      /\ ~ HasBytes(g) => Bytes(data) = Zeroes(gvs[g].size)
      /\ HasBytes(g) => pool[gvs[g].init].key = Bytes(data)
(* Module q begins with the given bytes and goes on from there.            *)
GoesOn(q, bytes) == opts[q] = {} /\ StartsIn(gvs[mems[q]].size, visited[q], bytes)
(* A constant has the bytes it is to have, or they were those it was made  *)
(* from, and a later module has begun with them and changed them.          *)
Kept(g) ==
  LET c == pool[gvs[g].init]
  IN  \/ c.bytes = Holds(g)
      \/ /\ c.key = Holds(g)
         /\ \E q \in gvs[g].of + 1 .. Parse : GoesOn(q, Holds(g))
(* The memory of the current module shares its constant only with what     *)
(* holds the bytes this was made from.                                     *)
SharedAtStart(g) ==
  gvs[g].of < Parse /\ gvs[g].init = gvs[Mem].init =>
    pool[gvs[g].init].key = Holds(g)

HistoryInv ==
  /\ Owners
  /\ \A p \in 1 .. Len(mems) : MemoryBegan(p)
  /\ \A g \in 1 .. Len(gvs) :
       /\ g # mems[gvs[g].of] => SegmentMade(g)
       /\ HasBytes(g) => Kept(g) /\ SharedAtStart(g)

(* Sequences have the domains they have.                                   *)
LEMMA Domains ==
  ASSUME DataInv
  PROVE  /\ Len(pool) \in Nat /\ DOMAIN pool = 1 .. Len(pool)
         /\ Len(gvs) \in Nat /\ DOMAIN gvs = 1 .. Len(gvs)
         /\ Len(mems) \in Nat /\ Parse = Len(mems)
         /\ \A g \in 1 .. Len(gvs) : gvs[g] \in GlobalVariable
         /\ \A p \in 1 .. Len(mems) : mems[p] \in Nat
         /\ \A p \in 1 .. Len(mems) : visited[p] \in Seq(Segments)
         /\ \A p \in 1 .. Len(mems) : Len(visited[p]) \in Nat
<1>1. /\ pool \in Seq(Constant) /\ gvs \in Seq(GlobalVariable)
      /\ mems \in Seq(Nat) /\ visited \in Seq(Seq(Segments))
      /\ Len(visited) = Len(mems)
  BY DEF DataInv, DataTypeOK
<1>2. /\ Len(pool) \in Nat /\ DOMAIN pool = 1 .. Len(pool)
      /\ Len(gvs) \in Nat /\ DOMAIN gvs = 1 .. Len(gvs)
      /\ Len(mems) \in Nat
  BY <1>1
<1>3. \A g \in 1 .. Len(gvs) : gvs[g] \in GlobalVariable
  BY <1>1
<1>4. \A p \in 1 .. Len(mems) : mems[p] \in Nat
  BY <1>1
<1>5. ASSUME NEW p \in 1 .. Len(mems)
      PROVE  visited[p] \in Seq(Segments) /\ Len(visited[p]) \in Nat
  <2>1. visited[p] \in Seq(Segments)
    BY <1>1
  <2> QED
    BY <2>1
<1> QED
  BY <1>2, <1>3, <1>4, <1>5 DEF Parse

(* A step puts a segment on the list of the current module, and changes    *)
(* at most the initialiser of its memory and the bytes of constants.       *)
Visits(seg) ==
  /\ mems # << >>
  /\ UNCHANGED <<mems, opts>>
  /\ visited'[Parse] = Append(visited[Parse], seg)
  /\ \A p \in 1 .. Len(mems) : p # Parse => visited'[p] = visited[p]
  /\ Len(gvs') \in Nat /\ Len(gvs) <= Len(gvs')
  /\ \A g \in 1 .. Len(gvs) :
       /\ gvs'[g].of = gvs[g].of /\ gvs'[g].size = gvs[g].size
       /\ g # Mem => gvs'[g].init = gvs[g].init
  /\ Len(pool') \in Nat /\ Len(pool) <= Len(pool')
  /\ \A k \in 1 .. Len(pool) : pool'[k].key = pool[k].key

LEMMA VisitsParse ==
  ASSUME DataInv, NEW seg, Visits(seg)
  PROVE  /\ Parse \in 1 .. Len(mems) /\ Parse' = Parse /\ Mem' = Mem
         /\ Mem = mems[Parse]
<1>1. Len(mems) # 0
  BY DEF Visits, DataInv, DataTypeOK
<1> QED
  BY <1>1, Domains DEF Visits, Parse, Mem

LEMMA VisitsLonger ==
  ASSUME DataInv, NEW seg \in Segments, Visits(seg), NEW p \in 1 .. Len(mems)
  PROVE  /\ Longer(visited[p], visited'[p])
         /\ Len(visited'[Parse]) = Len(visited[Parse]) + 1
         /\ visited'[Parse][Len(visited[Parse]) + 1] = seg
         /\ Parse \in 1 .. Len(mems) /\ Parse' = Parse /\ Mem' = Mem
<1>1. Parse \in 1 .. Len(mems) /\ Parse' = Parse /\ Mem' = Mem
  BY VisitsParse
<1> DEFINE segs == visited[Parse]
<1>2. segs \in Seq(Segments)
  BY <1>1, Domains
<1>3. visited'[Parse] = Append(segs, seg)
  BY DEF Visits
<1> HIDE DEF segs
<1>4. /\ Len(visited'[Parse]) = Len(segs) + 1
      /\ visited'[Parse][Len(segs) + 1] = seg
      /\ Longer(segs, visited'[Parse])
  BY <1>2, <1>3 DEF Longer
<1>5. CASE p = Parse
  BY <1>1, <1>4, <1>5 DEF segs
<1>6. CASE p # Parse
  <2>1. visited'[p] = visited[p] /\ Len(visited[p]) \in Nat
    BY <1>6, Domains DEF Visits
  <2>2. Longer(visited[p], visited'[p])
    BY <2>1 DEF Longer
  <2> QED
    BY <1>1, <1>4, <2>2 DEF segs
<1> QED
  BY <1>5, <1>6

(* What such a step leaves true.                                           *)
LEMMA VisitsFrame ==
  ASSUME DataInv, HistoryInv, NEW seg \in Segments, Visits(seg)
  PROVE  /\ \A p \in 1 .. Len(mems) : p # Parse => MemoryBegan(p)'
         /\ \A g \in 1 .. Len(gvs) : g # mems[gvs[g].of] => SegmentMade(g)'
         /\ \A g \in 1 .. Len(gvs) : g # Mem =>
              /\ Holds(g)' = Holds(g)
              /\ HasBytes(g)' = HasBytes(g)
         /\ \A q \in 1 .. Len(mems) : \A bytes : GoesOn(q, bytes) => GoesOn(q, bytes)'
<1> DEFINE P == Parse
<1>1. P \in 1 .. Len(mems) /\ Parse' = P /\ Mem' = Mem /\ Mem = mems[P]
  BY VisitsParse
<1>2. mems' = mems /\ opts' = opts
  BY DEF Visits
<1>3. ASSUME NEW p \in 1 .. Len(mems), p # P
      PROVE  /\ mems[p] \in 1 .. Len(gvs)
             /\ visited'[p] = visited[p]
             /\ gvs'[mems[p]].size = gvs[mems[p]].size
             /\ gvs'[mems[p]].init = gvs[mems[p]].init
             /\ HasBytes(mems[p])' = HasBytes(mems[p])
  <2>1. mems[p] \in 1 .. Len(gvs) /\ mems[p] # Mem
    BY <1>1, <1>3 DEF HistoryInv, Owners
  <2> QED
    BY <1>2, <1>3, <2>1 DEF Visits, HasBytes
<1>4. \A p \in 1 .. Len(mems) : p # P => MemoryBegan(p)'
  <2> SUFFICES ASSUME NEW p \in 1 .. Len(mems), p # P PROVE MemoryBegan(p)'
    OBVIOUS
  <2> DEFINE g == mems[p]
  <2>1. MemoryBegan(p)
    BY DEF HistoryInv
  <2>2. HasBytes(g) => pool'[gvs[g].init].key = pool[gvs[g].init].key
    BY <1>3 DEF HistoryInv, Owners, Visits
  <2> QED
    BY <1>2, <1>3, <2>1, <2>2 DEF MemoryBegan
<1>5. ASSUME NEW g \in 1 .. Len(gvs), g # Mem
      PROVE  /\ gvs'[g].of = gvs[g].of
             /\ gvs'[g].size = gvs[g].size
             /\ gvs'[g].init = gvs[g].init
             /\ gvs[g].of \in 1 .. Len(mems)
             /\ HasBytes(g)' = HasBytes(g)
             /\ HasBytes(g) => pool'[gvs[g].init].key = pool[gvs[g].init].key
  BY <1>5 DEF Visits, HistoryInv, Owners, HasBytes
<1>6. ASSUME NEW g \in 1 .. Len(gvs), g # mems[gvs[g].of]
      PROVE  /\ g # Mem
             /\ visited'[gvs[g].of][g - mems[gvs[g].of]] = visited[gvs[g].of][g - mems[gvs[g].of]]
             /\ g - mems[gvs[g].of] \in 1 .. Len(visited'[gvs[g].of])
  <2>1. g # Mem
    BY <1>1, <1>6 DEF HistoryInv, Owners
  <2>2. gvs[g].of \in 1 .. Len(mems)
    BY DEF HistoryInv, Owners
  <2>3. g - mems[gvs[g].of] \in 1 .. Len(visited[gvs[g].of])
    BY <1>6 DEF HistoryInv, SegmentMade
  <2>4. Longer(visited[gvs[g].of], visited'[gvs[g].of])
    BY <2>2, VisitsLonger
  <2> QED
    BY <2>1, <2>3, <2>4 DEF Longer
<1>7. \A g \in 1 .. Len(gvs) : g # mems[gvs[g].of] => SegmentMade(g)'
  <2> SUFFICES ASSUME NEW g \in 1 .. Len(gvs), g # mems[gvs[g].of] PROVE SegmentMade(g)'
    OBVIOUS
  <2>1. SegmentMade(g)
    BY DEF HistoryInv
  <2> QED
    BY <1>2, <1>5, <1>6, <2>1 DEF SegmentMade
<1>8. \A g \in 1 .. Len(gvs) : g # Mem => Holds(g)' = Holds(g)
  <2> SUFFICES ASSUME NEW g \in 1 .. Len(gvs), g # Mem PROVE Holds(g)' = Holds(g)
    OBVIOUS
  <2>1. CASE g # mems[gvs[g].of]
    BY <1>2, <1>5, <1>6, <2>1 DEF Holds
  <2>2. CASE g = mems[gvs[g].of]
    <3>1. gvs[g].of # P /\ gvs[g].of \in 1 .. Len(mems)
      BY <1>1, <1>5, <2>2
    <3>2. visited'[gvs[g].of] = visited[gvs[g].of]
      BY <1>3, <3>1
    <3> QED
      BY <1>2, <1>5, <2>2, <3>2 DEF Holds
  <2> QED
    BY <2>1, <2>2
<1>9. ASSUME NEW q \in 1 .. Len(mems), NEW bytes, GoesOn(q, bytes)
      PROVE  GoesOn(q, bytes)'
  <2>1. Longer(visited[q], visited'[q])
    BY VisitsLonger
  <2>2. gvs'[mems[q]].size = gvs[mems[q]].size
    BY DEF Visits, HistoryInv, Owners
  <2>3. StartsIn(gvs[mems[q]].size, visited'[q], bytes)
    BY <1>9, <2>1, StartsLonger DEF GoesOn
  <2> QED
    BY <1>2, <1>9, <2>2, <2>3 DEF GoesOn
<1> QED
  BY <1>4, <1>5, <1>7, <1>8, <1>9

(* What getRaw returns was made from the bytes, and has them.              *)
Made(bytes, n, k) ==
  /\ Len(pool') \in Nat /\ Len(pool) <= Len(pool')
  /\ \A j \in 1 .. Len(pool) : pool'[j] = pool[j]
  /\ k = ZeroInit => bytes = Zeroes(n)
  /\ k # ZeroInit => /\ k \in 1 .. Len(pool') /\ k # NoInit
                     /\ pool'[k].key = bytes /\ pool'[k].bytes = bytes

LEMMA GetRawMade ==
  ASSUME pool \in Seq(Constant), NEW n \in Nat, NEW bytes \in [0 .. n - 1 -> Nat],
         NEW k \in Initialisers, GetRaw(bytes, k)
  PROVE  Made(bytes, n, k)
<1>1. /\ pool' \in Seq(Constant) /\ k \in Int /\ k # NoInit
      /\ k = ZeroInit => bytes = Zeroes(n)
      /\ k # ZeroInit => k \in DOMAIN pool' /\ pool'[k].bytes = bytes
  BY GetRawStandsFor
<1>2. \A j \in DOMAIN pool : j \in DOMAIN pool' /\ pool'[j] = pool[j]
  BY GetRawKeeps
<1>3. Len(pool') \in Nat /\ Len(pool) <= Len(pool')
  <2> DEFINE c == [key |-> bytes, bytes |-> bytes]
  <2>1. pool' = pool \/ pool' = Append(pool, c)
    BY DEF GetRaw
  <2> HIDE DEF c
  <2> QED
    BY <2>1
<1>4. k # ZeroInit => pool'[k].key = bytes
  <2>1. CASE \A a \in DOMAIN bytes : bytes[a] = 0
    BY <2>1 DEF GetRaw
  <2>2. CASE ~ (\A a \in DOMAIN bytes : bytes[a] = 0) /\ Found(bytes) # {}
    BY <2>2 DEF GetRaw, Found
  <2>3. CASE ~ (\A a \in DOMAIN bytes : bytes[a] = 0) /\ Found(bytes) = {}
    <3> DEFINE c == [key |-> bytes, bytes |-> bytes]
    <3>1. k = Len(pool) + 1 /\ pool' = Append(pool, c)
      BY <2>3 DEF GetRaw
    <3>2. c.key = bytes
      OBVIOUS
    <3> HIDE DEF c
    <3>3. pool'[k] = c
      BY <3>1
    <3> QED
      BY <3>2, <3>3
  <2> QED
    BY <2>1, <2>2, <2>3
<1>5. \A j \in 1 .. Len(pool) : pool'[j] = pool[j]
  BY <1>2
<1>6. k # ZeroInit => k \in 1 .. Len(pool') /\ k # NoInit
  BY <1>1
<1> QED
  BY <1>1, <1>3, <1>4, <1>5, <1>6 DEF Made

(* A constant that no step has changed is as it was.                       *)
LEMMA VisitsKept ==
  ASSUME DataInv, HistoryInv, NEW seg \in Segments, Visits(seg),
         NEW g \in 1 .. Len(gvs), g # Mem, HasBytes(g),
         pool'[gvs[g].init] = pool[gvs[g].init]
  PROVE  Kept(g)'
<1>1. Kept(g)
  BY DEF HistoryInv
<1>2. Holds(g)' = Holds(g)
  BY VisitsFrame
<1>3. gvs'[g].init = gvs[g].init /\ gvs'[g].of = gvs[g].of
      /\ gvs[g].of \in 1 .. Len(mems)
  BY DEF Visits, HistoryInv, Owners
<1>4. Parse' = Parse /\ Parse \in 1 .. Len(mems) /\ Parse = Len(mems)
  BY VisitsParse, Domains
<1>5. ASSUME NEW q \in gvs[g].of + 1 .. Parse, GoesOn(q, Holds(g))
      PROVE  GoesOn(q, Holds(g))'
  <2>1. q \in 1 .. Len(mems)
    BY <1>3, <1>4
  <2> DEFINE bytes == Holds(g)
  <2>2. GoesOn(q, bytes)
    BY <1>5
  <2> HIDE DEF bytes
  <2>3. StartsIn(gvs'[mems'[q]].size, visited'[q], bytes) /\ opts'[q] = {}
    BY <2>1, <2>2, VisitsFrame DEF GoesOn
  <2>4. bytes = Holds(g)'
    BY <1>2 DEF bytes
  <2> QED
    BY <2>3, <2>4 DEF GoesOn
<1> QED
  BY <1>1, <1>2, <1>3, <1>4, <1>5 DEF Kept

(* The parts of the invariant, after a segment.                            *)
LEMMA HistoryVisits ==
  ASSUME DataInv, HistoryInv, NEW seg \in Segments, Visits(seg),
         Owners', \A p : p = Parse => MemoryBegan(p)',
         \A g \in 1 .. Len(gvs) : HasBytes(g)' => Kept(g)' /\ SharedAtStart(g)',
         \A g \in Len(gvs) + 1 .. Len(gvs') :
           SegmentMade(g)' /\ (HasBytes(g)' => Kept(g)' /\ SharedAtStart(g)')
  PROVE  HistoryInv'
<1>1. \A p \in 1 .. Len(mems') : MemoryBegan(p)'
  <2>1. mems' = mems /\ Parse \in 1 .. Len(mems)
    BY VisitsParse DEF Visits
  <2> QED
    BY <2>1, VisitsFrame
<1>2. ASSUME NEW g \in 1 .. Len(gvs')
      PROVE  /\ g # mems'[gvs'[g].of] => SegmentMade(g)'
             /\ HasBytes(g)' => Kept(g)' /\ SharedAtStart(g)'
  <2>1. CASE g \in 1 .. Len(gvs)
    <3>1. gvs'[g].of = gvs[g].of /\ mems' = mems
      BY <2>1 DEF Visits
    <3> QED
      BY <2>1, <3>1, VisitsFrame
  <2>2. CASE g \in Len(gvs) + 1 .. Len(gvs')
    BY <2>2
  <2>3. g \in 1 .. Len(gvs) \/ g \in Len(gvs) + 1 .. Len(gvs')
    BY Domains DEF Visits
  <2> QED
    BY <2>1, <2>2, <2>3
<1> QED
  BY <1>1, <1>2 DEF HistoryInv

-----------------------------------------------------------------------------
(* The steps.                                                              *)

LEMMA HistoryStop ==
  ASSUME HistoryInv, UNCHANGED <<pool, gvs, mems, visited, opts>>
  PROVE  HistoryInv'
<1>1. Mem' = Mem /\ Parse' = Parse
  BY DEF Mem, Parse
<1>2. \A g \in 1 .. Len(gvs) : Holds(g)' = Holds(g) /\ HasBytes(g)' = HasBytes(g)
  BY DEF Holds, HasBytes
<1>3. Owners'
  BY DEF HistoryInv, Owners, HasBytes
<1>4. \A p \in 1 .. Len(mems) : MemoryBegan(p)'
  BY DEF HistoryInv, MemoryBegan, HasBytes
<1>5. ASSUME NEW g \in 1 .. Len(gvs)
      PROVE  /\ g # mems[gvs[g].of] => SegmentMade(g)'
             /\ HasBytes(g) => Kept(g)' /\ SharedAtStart(g)'
  <2>1. g # mems[gvs[g].of] => SegmentMade(g)'
    BY DEF HistoryInv, SegmentMade, HasBytes
  <2>2. HasBytes(g) => Kept(g)'
    BY <1>1, <1>2 DEF HistoryInv, Kept, GoesOn
  <2>3. HasBytes(g) => SharedAtStart(g)'
    BY <1>1, <1>2 DEF HistoryInv, SharedAtStart
  <2> QED
    BY <2>1, <2>2, <2>3
<1> QED
  BY <1>2, <1>3, <1>4, <1>5 DEF HistoryInv

(* A segment that is left out.                                             *)
LEMMA HistoryLeftOut ==
  ASSUME DataInv, HistoryInv, mems # << >>, NEW seg \in Segments, opts[Parse] # {},
         Visits(seg), ~ HasBytes(Mem)', Owners',
         \A k \in 1 .. Len(pool) : pool'[k] = pool[k],
         \A g \in Len(gvs) + 1 .. Len(gvs') :
           SegmentMade(g)' /\ (HasBytes(g)' => Kept(g)' /\ SharedAtStart(g)')
  PROVE  HistoryInv'
<1>1. /\ Parse \in 1 .. Len(mems) /\ Parse' = Parse
      /\ Mem' = Mem /\ Mem = mems[Parse] /\ mems' = mems /\ opts' = opts
  BY VisitsParse DEF Visits
<1>2. \A p : p = Parse => MemoryBegan(p)'
  BY <1>1 DEF MemoryBegan, HasBytes
<1>3. ASSUME NEW g \in 1 .. Len(gvs), HasBytes(g)'
      PROVE  Kept(g)' /\ SharedAtStart(g)'
  <2>1. g # Mem
    BY <1>1, <1>3 DEF HasBytes
  <2>2. HasBytes(g) /\ gvs'[g].init = gvs[g].init
    BY <1>3, <2>1, VisitsFrame DEF Visits
  <2>3. gvs[g].init \in 1 .. Len(pool)
    BY <2>2 DEF HistoryInv, Owners
  <2>4. Kept(g)'
    BY <2>1, <2>2, <2>3, VisitsKept
  <2>5. gvs'[g].init # gvs'[Mem].init
    BY <1>1, <1>3 DEF HasBytes
  <2> QED
    BY <1>1, <2>4, <2>5 DEF SharedAtStart
<1> QED
  BY <1>2, <1>3, HistoryVisits

LEMMA VisitedOthers ==
  ASSUME DataInv, mems # << >>, NEW seg \in Segments, Visited(seg)
  PROVE  /\ visited'[Parse] = Append(visited[Parse], seg)
         /\ \A p \in 1 .. Len(mems) : p # Parse => visited'[p] = visited[p]
<1>1. visited'[Parse] = Append(visited[Parse], seg)
  BY VisitedType
<1>2. Parse \in DOMAIN visited
  BY DEF DataInv, DataTypeOK, Parse
<1>3. \A p \in 1 .. Len(mems) : p # Parse => visited'[p] = visited[p]
  BY <1>2 DEF Visited, DataInv, DataTypeOK
<1> QED
  BY <1>1, <1>3

LEMMA HistoryNoMem ==
  ASSUME DataInv, HistoryInv, mems # << >>, NEW seg \in Segments, opts[Parse] # {},
         Visited(seg), UNCHANGED <<pool, gvs, mems, opts, status>>
  PROVE  HistoryInv'
<1>1. Visits(seg)
  BY VisitedOthers, Domains DEF Visits
<1>2. ~ HasBytes(Mem)'
  BY DEF DataInv, MemoryHasItsSize, HasBytes, Mem, Parse
<1>3. Owners'
  BY DEF HistoryInv, Owners, HasBytes
<1>4. \A g \in Len(gvs) + 1 .. Len(gvs') : FALSE
  BY Domains
<1> QED
  BY <1>1, <1>2, <1>3, <1>4, HistoryLeftOut

LEMMA SegmentBytes ==
  ASSUME NEW seg \in Segments
  PROVE  /\ Len(seg.data) \in Nat
         /\ Bytes(seg.data) \in [0 .. Len(seg.data) - 1 -> Nat]
<1>1. seg.data \in Seq(Nat)
  BY SegmentType
<1>2. Len(seg.data) \in Nat
  BY <1>1
<1> QED
  BY <1>1, <1>2, BytesType

LEMMA HistorySplit ==
  ASSUME DataInv, SplitInv, HistoryInv, mems # << >>, NEW seg \in Segments,
         "SplitMem" \in opts[Parse], Split(seg)
  PROVE  HistoryInv'
<1>1. PICK k \in Initialisers :
        /\ GetRaw(Bytes(seg.data), k)
        /\ gvs' = Append(gvs, [of |-> Parse, addr |-> seg.offset,
                               size |-> Len(seg.data), init |-> k])
  BY DEF Split
<1> DEFINE h == [of |-> Parse, addr |-> seg.offset,
                 size |-> Len(seg.data), init |-> k]
           b == Bytes(seg.data)
<1>n. PICK N : N = Len(gvs) + 1
  OBVIOUS
<1>2. Len(seg.data) \in Nat /\ b \in [0 .. Len(seg.data) - 1 -> Nat]
  BY SegmentBytes
<1>3. pool \in Seq(Constant)
  BY DEF DataInv, DataTypeOK
<1>4. /\ Len(pool') \in Nat /\ Len(pool) <= Len(pool')
      /\ \A j \in 1 .. Len(pool) : pool'[j] = pool[j]
      /\ k = ZeroInit => b = Zeroes(Len(seg.data))
      /\ k # ZeroInit => k \in 1 .. Len(pool') /\ k # NoInit /\ pool'[k].key = b
                         /\ pool'[k].bytes = b
  <2>1. Made(b, Len(seg.data), k)
    <3> DEFINE n == Len(seg.data)
    <3>1. n \in Nat /\ b \in [0 .. n - 1 -> Nat] /\ GetRaw(b, k)
      BY <1>1, <1>2
    <3> HIDE DEF n, b
    <3>2. Made(b, n, k)
      BY <1>3, <3>1, GetRawMade
    <3> QED
      BY <3>2 DEF n
  <2> QED
    BY <2>1 DEF Made
<1>5. h.of = Parse /\ h.size = Len(seg.data) /\ h.init = k
  OBVIOUS
<1> HIDE DEF h, b
<1>6. gvs' = Append(gvs, h) /\ UNCHANGED <<mems, opts>> /\ Visited(seg)
  BY <1>1 DEF Split, h
<1>7. /\ Len(gvs') = N /\ N \in Nat /\ gvs'[N] = h
      /\ \A g \in 1 .. Len(gvs) : gvs'[g] = gvs[g]
  <2>1. h \in {h} /\ gvs \in Seq(GlobalVariable \cup {h})
    <3>1. gvs \in Seq(GlobalVariable)
      BY DEF DataInv, DataTypeOK
    <3> QED
      BY <3>1
  <2> QED
    BY <1>6, <1>n, <2>1
<1>8. /\ visited'[Parse] = Append(visited[Parse], seg)
      /\ \A p \in 1 .. Len(mems) : p # Parse => visited'[p] = visited[p]
  BY <1>6, VisitedOthers
<1>9. Visits(seg)
  BY <1>4, <1>6, <1>7, <1>8, <1>n, Domains DEF Visits
<1>10. /\ Parse \in 1 .. Len(mems) /\ Parse' = Parse
       /\ Mem' = Mem /\ Mem = mems[Parse] /\ mems' = mems /\ opts' = opts
  BY <1>9, VisitsParse DEF Visits
<1>11. Mem \in 1 .. Len(gvs) /\ ~ HasBytes(Mem)
  BY <1>10 DEF HistoryInv, Owners, DataInv, MemoryHasItsSize
<1>12. ~ HasBytes(Mem)'
  BY <1>7, <1>10, <1>11 DEF HasBytes
<1>13. Owners'
  <2>1. ASSUME NEW p \in 1 .. Len(mems)
        PROVE  mems[p] \in 1 .. N /\ gvs'[mems[p]].of = p
    <3>1. mems[p] \in 1 .. Len(gvs) /\ gvs[mems[p]].of = p
      BY DEF HistoryInv, Owners
    <3> QED
      BY <1>7, <1>n, <3>1, Domains
  <2>2. ASSUME NEW g \in 1 .. Len(gvs)
        PROVE  /\ gvs'[g].of \in 1 .. Len(mems)
               /\ HasBytes(g)' => gvs'[g].init \in 1 .. Len(pool')
    <3>1. gvs'[g] = gvs[g]
      BY <1>7
    <3>2. /\ gvs[g].of \in 1 .. Len(mems)
          /\ HasBytes(g) => gvs[g].init \in 1 .. Len(pool)
      BY DEF HistoryInv, Owners
    <3> QED
      BY <1>4, <3>1, <3>2, <1>n, Domains DEF HasBytes
  <2>3. /\ gvs'[N].of \in 1 .. Len(mems)
        /\ HasBytes(N)' => gvs'[N].init \in 1 .. Len(pool')
    BY <1>4, <1>5, <1>7, <1>10 DEF HasBytes
  <2>4. \A g \in 1 .. N : g \in 1 .. Len(gvs) \/ g = N
    BY <1>n, Domains
  <2> QED
    BY <1>7, <1>10, <2>1, <2>2, <2>3, <2>4 DEF Owners
<1>14. /\ N - Mem = Len(visited[Parse]) + 1
       /\ N # Mem
       /\ Len(visited[Parse]) \in Nat
  BY <1>10, <1>11, <1>n, Domains DEF SplitInv
<1>15. /\ visited'[Parse][N - Mem] = seg
       /\ N - Mem \in 1 .. Len(visited'[Parse])
  BY <1>9, <1>10, <1>14, VisitsLonger
<1>16. SegmentMade(N)'
  BY <1>4, <1>5, <1>7, <1>10, <1>15 DEF SegmentMade, HasBytes, b
<1>17. HasBytes(N)' => Kept(N)' /\ SharedAtStart(N)'
  <2>1. Holds(N)' = b
    BY <1>5, <1>7, <1>10, <1>14, <1>15 DEF Holds, b
  <2>2. HasBytes(N)' => Kept(N)'
    BY <1>4, <1>5, <1>7, <2>1 DEF Kept, HasBytes
  <2>3. SharedAtStart(N)'
    BY <1>5, <1>7, <1>10 DEF SharedAtStart
  <2> QED
    BY <2>2, <2>3
<1>18. \A g \in Len(gvs) + 1 .. Len(gvs') : g = N
  BY <1>7, <1>n, Domains
<1> QED
  BY <1>4, <1>9, <1>12, <1>13, <1>16, <1>17, <1>18, HistoryLeftOut

(* The current memory, before and after a segment is copied into it.       *)
LEMMA HistoryMemory ==
  ASSUME DataInv, HistoryInv, mems # << >>, opts[Parse] = {}
  PROVE  /\ Mem \in 1 .. Len(gvs) /\ gvs[Mem].of = Parse
         /\ Parse \in 1 .. Len(mems) /\ Mem = mems[Parse]
         /\ gvs[Mem].size \in 0 .. U32
         /\ Holds(Mem) = Copies(gvs[Mem].size, visited[Parse], Len(visited[Parse]))
         /\ Len(visited[Parse]) \in Nat
         /\ \A g \in 1 .. Len(gvs) : g # Mem => gvs[g].of # Parse /\ gvs[g].of < Parse
<1>1. Parse \in 1 .. Len(mems) /\ Mem = mems[Parse] /\ Parse = Len(mems)
  BY Domains DEF DataInv, DataTypeOK, Parse, Mem
<1>2. Mem \in 1 .. Len(gvs) /\ gvs[Mem].of = Parse
  BY <1>1 DEF HistoryInv, Owners
<1>3. gvs[Mem].size \in 0 .. U32
  BY DEF DataInv, MemoryHasItsSize
<1>4. Holds(Mem) = Copies(gvs[Mem].size, visited[Parse], Len(visited[Parse]))
  BY <1>1, <1>2 DEF Holds
<1>5. ASSUME NEW g \in 1 .. Len(gvs), g # Mem
      PROVE  gvs[g].of # Parse /\ gvs[g].of < Parse
  <2>1. gvs[g].of # Parse
    BY <1>1, <1>5 DEF HistoryInv, SegmentMade
  <2>2. gvs[g].of \in 1 .. Len(mems)
    BY DEF HistoryInv, Owners
  <2> QED
    BY <1>1, <2>1, <2>2
<1> QED
  BY <1>1, <1>2, <1>3, <1>4, <1>5, Domains

(* The copy of a segment into the bytes is what WebAssembly leaves.        *)
LEMMA CopiedIs ==
  ASSUME DataInv, HistoryInv, mems # << >>, opts[Parse] = {},
         NEW seg \in Segments, Visits(seg), NEW n, NEW bytes,
         bytes = Copies(n, visited[Parse], Len(visited[Parse]))
  PROVE  /\ Len(visited'[Parse]) = Len(visited[Parse]) + 1
         /\ Copies(n, visited'[Parse], Len(visited[Parse]) + 1) =
              Patched(bytes, seg.offset, seg.data)
         /\ \A j \in 0 .. Len(visited[Parse]) :
              Copies(n, visited'[Parse], j) = Copies(n, visited[Parse], j)
<1> DEFINE old == visited[Parse]
           now == visited'[Parse]
           L == Len(old)
<1>1. /\ Longer(old, now) /\ Len(now) = L + 1 /\ now[L + 1] = seg /\ L \in Nat
  BY HistoryMemory, VisitsLonger
<1> HIDE DEF old, now
<1>2. ASSUME NEW j \in 0 .. L
      PROVE  Copies(n, now, j) = Copies(n, old, j)
  <2>1. j \in Nat /\ \A i \in 1 .. j : now[i] = old[i]
    BY <1>1 DEF Longer
  <2> QED
    BY <2>1, CopiesSame
<1>3. Copies(n, now, L) = bytes
  <2>1. Copies(n, now, L) = Copies(n, old, L)
    BY <1>1, <1>2
  <2> QED
    BY <2>1 DEF old
<1>4. Copies(n, now, L + 1) =
        Memories!Overwritten(Copies(n, now, L), now[L + 1].offset, now[L + 1].data)
  BY <1>1, CopiesFacts
<1>5. Copies(n, now, L + 1) = Patched(bytes, seg.offset, seg.data)
  BY <1>1, <1>3, <1>4 DEF Patched, Memories!Overwritten
<1> QED
  BY <1>1, <1>2, <1>5 DEF old, now

(* The first segment that leaves something else than zeros makes the       *)
(* constant.                                                               *)
LEMMA HistoryFirst ==
  ASSUME DataInv, HistoryInv, mems # << >>, NEW seg \in Segments, opts[Parse] = {},
         ~ HasBytes(Mem), Visited(seg), UNCHANGED <<mems, opts>>,
         NEW new \in [0 .. gvs[Mem].size - 1 -> Nat],
         new = Patched(Zeroes(gvs[Mem].size), seg.offset, seg.data),
         NEW k \in Initialisers, GetRaw(new, k), gvs' = [gvs EXCEPT ![Mem].init = k]
  PROVE  HistoryInv'
<1> DEFINE n == gvs[Mem].size
           old == visited[Parse]
           now == visited'[Parse]
           L == Len(old)
<1>1. /\ Mem \in 1 .. Len(gvs) /\ gvs[Mem].of = Parse
      /\ Parse \in 1 .. Len(mems) /\ Mem = mems[Parse]
      /\ n \in Nat /\ L \in Nat
      /\ \A g \in 1 .. Len(gvs) : g # Mem => gvs[g].of # Parse /\ gvs[g].of < Parse
  BY HistoryMemory, WidthsAssumption
<1>2. pool \in Seq(Constant)
  BY DEF DataInv, DataTypeOK
<1>3. /\ Len(pool') \in Nat /\ Len(pool) <= Len(pool')
      /\ \A j \in 1 .. Len(pool) : pool'[j] = pool[j]
      /\ k = ZeroInit => new = Zeroes(n)
      /\ k # ZeroInit => k \in 1 .. Len(pool') /\ k # NoInit /\ pool'[k].key = new
                         /\ pool'[k].bytes = new
  <2>1. new \in [0 .. n - 1 -> Nat]
    OBVIOUS
  <2> HIDE DEF n
  <2>2. Made(new, n, k)
    BY <1>1, <1>2, <2>1, GetRawMade
  <2> QED
    BY <2>2 DEF Made
<1>4. /\ Len(gvs') = Len(gvs) /\ Len(gvs) \in Nat
      /\ gvs'[Mem].of = Parse /\ gvs'[Mem].size = n /\ gvs'[Mem].init = k
      /\ \A g \in 1 .. Len(gvs) : g # Mem => gvs'[g] = gvs[g]
  <2>1. gvs \in Seq(GlobalVariable) /\ gvs[Mem] \in GlobalVariable
    BY <1>1, Domains DEF DataInv, DataTypeOK
  <2>2. /\ [gvs[Mem] EXCEPT !.init = k].init = k
        /\ [gvs[Mem] EXCEPT !.init = k].size = n
        /\ [gvs[Mem] EXCEPT !.init = k].of = Parse
    BY <1>1, <2>1 DEF GlobalVariable
  <2>3. gvs' = [gvs EXCEPT ![Mem] = [gvs[Mem] EXCEPT !.init = k]]
    OBVIOUS
  <2> QED
    BY <1>1, <2>1, <2>2, <2>3
<1>5. Visits(seg)
  BY <1>1, <1>3, <1>4, VisitedOthers, Domains DEF Visits
<1>6. /\ Parse' = Parse /\ Mem' = Mem
  BY <1>5, VisitsParse
<1>7. /\ \A j \in 0 .. L : Copies(n, old, j) = Zeroes(n)
  BY <1>1 DEF HistoryInv, MemoryBegan
<1>8. /\ Len(now) = L + 1
      /\ Copies(n, now, L + 1) = new
      /\ \A j \in 0 .. L : Copies(n, now, j) = Zeroes(n)
  <2>1. Zeroes(n) = Copies(n, old, L)
    BY <1>1, <1>7
  <2> QED
    BY <1>5, <1>7, <2>1, CopiedIs
<1> HIDE DEF n, old, now, L
<1>9. Owners'
  <2>1. \A p \in 1 .. Len(mems) :
          mems[p] \in 1 .. Len(gvs') /\ gvs'[mems[p]].of = p
    BY <1>1, <1>4 DEF HistoryInv, Owners
  <2>2. ASSUME NEW g \in 1 .. Len(gvs)
        PROVE  /\ gvs'[g].of \in 1 .. Len(mems)
               /\ HasBytes(g)' => gvs'[g].init \in 1 .. Len(pool')
    <3>1. CASE g = Mem
      BY <1>1, <1>3, <1>4, <3>1 DEF HasBytes
    <3>2. CASE g # Mem
      BY <1>3, <1>4, <3>2, Domains DEF HistoryInv, Owners, HasBytes
    <3> QED
      BY <3>1, <3>2
  <2> QED
    BY <1>4, <2>1, <2>2 DEF Owners
<1>10. \A p : p = Parse => MemoryBegan(p)'
  <2> SUFFICES ASSUME NEW p, p = Parse PROVE MemoryBegan(p)'
    OBVIOUS
  <2>0. mems'[p] = Mem /\ opts'[p] = {} /\ visited'[p] = now
    BY <1>1 DEF now
  <2>1. CASE k = ZeroInit
    <3>1. ~ HasBytes(mems[p])'
      BY <1>4, <2>0, <2>1, <1>6 DEF HasBytes
    <3>2. \A j \in 0 .. L + 1 : Copies(n, now, j) = Zeroes(n)
      <4>1. \A j \in 0 .. L + 1 : j \in 0 .. L \/ j = L + 1
        BY <1>1
      <4> QED
        BY <1>3, <1>8, <2>1, <4>1
    <3> QED
      BY <1>4, <1>8, <2>0, <2>1, <3>2 DEF MemoryBegan, HasBytes
  <2>2. CASE k # ZeroInit
    <3>1. L + 1 \in 1 .. Len(now) /\ (L + 1) - 1 = L
      BY <1>1, <1>8
    <3>2. BeginsIn(n, now, L + 1, new)
      BY <1>8, <3>1 DEF BeginsIn
    <3> QED
      BY <1>3, <1>4, <2>0, <2>2, <3>1, <3>2 DEF MemoryBegan, HasBytes
  <2> QED
    BY <2>1, <2>2
<1>11. ASSUME NEW g \in 1 .. Len(gvs), HasBytes(g)'
       PROVE  Kept(g)' /\ SharedAtStart(g)'
  <2>1. CASE g = Mem
    <3>1. k # ZeroInit /\ gvs'[g].init = k /\ gvs'[g].of = Parse
      BY <1>4, <1>11, <2>1 DEF HasBytes
    <3>2. Holds(g)' = new
      BY <1>1, <1>4, <1>6, <1>8, <2>1 DEF Holds, now
    <3> QED
      BY <1>3, <1>6, <3>1, <3>2 DEF Kept, SharedAtStart
  <2>2. CASE g # Mem
    <3>1. HasBytes(g) /\ gvs'[g] = gvs[g]
      BY <1>4, <1>11, <2>2 DEF HasBytes
    <3>2. gvs[g].init \in 1 .. Len(pool)
      BY <3>1 DEF HistoryInv, Owners
    <3>3. pool'[gvs[g].init] = pool[gvs[g].init]
      BY <1>3, <3>2
    <3>4. Kept(g)'
      BY <1>5, <2>2, <3>1, <3>3, VisitsKept
    <3>5. Holds(g)' = Holds(g)
      BY <1>5, <2>2, VisitsFrame
    <3>6. gvs[g].init = k => pool[k].key = Holds(g)
      <4> SUFFICES ASSUME gvs[g].init = k PROVE pool[k].key = Holds(g)
        OBVIOUS
      <4>1. k # ZeroInit
        BY <3>1 DEF HasBytes
      <4>2. pool[k].key = pool[k].bytes
        BY <1>3, <3>3, <4>1
      <4> QED
        BY <3>1, <4>2 DEF HistoryInv, Kept
    <3>7. SharedAtStart(g)'
      BY <1>4, <1>6, <3>1, <3>3, <3>5, <3>6 DEF SharedAtStart
    <3> QED
      BY <3>4, <3>7
  <2> QED
    BY <2>1, <2>2
<1>12. \A g \in Len(gvs) + 1 .. Len(gvs') : FALSE
  BY <1>4
<1> QED
  BY <1>5, <1>9, <1>10, <1>11, <1>12, HistoryVisits

(* The later ones change its bytes in place.                               *)
LEMMA HistoryLater ==
  ASSUME DataInv, HistoryInv, mems # << >>, NEW seg \in Segments, opts[Parse] = {},
         HasBytes(Mem), Visited(seg), UNCHANGED <<gvs, mems, opts>>,
         pool' = [pool EXCEPT ![gvs[Mem].init].bytes =
                    Patched(Image(Mem), seg.offset, seg.data)]
  PROVE  HistoryInv'
<1> DEFINE n == gvs[Mem].size
           old == visited[Parse]
           now == visited'[Parse]
           L == Len(old)
           c == gvs[Mem].init
           new == Patched(Image(Mem), seg.offset, seg.data)
<1>1. /\ Mem \in 1 .. Len(gvs) /\ gvs[Mem].of = Parse
      /\ Parse \in 1 .. Len(mems) /\ Mem = mems[Parse]
      /\ n \in Nat /\ L \in Nat
      /\ Holds(Mem) = Copies(n, old, L)
      /\ \A g \in 1 .. Len(gvs) : g # Mem => gvs[g].of # Parse /\ gvs[g].of < Parse
  BY HistoryMemory, WidthsAssumption
<1>2. c \in 1 .. Len(pool)
  BY <1>1 DEF HistoryInv, Owners
<1>3. /\ Len(pool') = Len(pool) /\ Len(pool) \in Nat
      /\ pool'[c].bytes = new
      /\ \A j \in 1 .. Len(pool) : pool'[j].key = pool[j].key
      /\ \A j \in 1 .. Len(pool) : j # c => pool'[j] = pool[j]
  <2> HIDE DEF new, c
  <2>1. pool \in Seq(Constant) /\ pool[c] \in Constant
    BY <1>2, Domains DEF DataInv, DataTypeOK
  <2>2. /\ [pool[c] EXCEPT !.bytes = new].bytes = new
        /\ [pool[c] EXCEPT !.bytes = new].key = pool[c].key
    BY <2>1 DEF Constant
  <2> DEFINE d == [pool[c] EXCEPT !.bytes = new]
  <2>3. pool' = [pool EXCEPT ![c] = d]
    BY DEF new, c
  <2>4. d.bytes = new /\ d.key = pool[c].key
    BY <2>2
  <2> HIDE DEF d
  <2>5. /\ Len(pool') = Len(pool) /\ Len(pool) \in Nat
        /\ pool'[c] = d
        /\ \A j \in 1 .. Len(pool) : j # c => pool'[j] = pool[j]
    BY <1>2, <2>1, <2>3
  <2> QED
    BY <2>4, <2>5
<1>4. Visits(seg)
  BY <1>1, <1>3, VisitedOthers, Domains DEF Visits
<1>5. /\ Parse' = Parse /\ Mem' = Mem
  BY <1>4, VisitsParse
<1>6. Image(Mem) = Copies(n, old, L)
  <2>1. Image(Mem) = pool[c].bytes
    BY DEF Image, HasBytes
  <2>2. Kept(Mem)
    BY <1>1 DEF HistoryInv
  <2>3. \A q \in gvs[Mem].of + 1 .. Parse : FALSE
    BY <1>1
  <2> QED
    BY <1>1, <2>1, <2>2, <2>3 DEF Kept
<1>7. Len(now) = L + 1 /\ Copies(n, now, L + 1) = new /\ Longer(old, now)
  <2>1. Longer(old, now)
    BY <1>1, <1>4, VisitsLonger
  <2> QED
    BY <1>4, <1>6, <2>1, CopiedIs
<1>8. PICK i \in 1 .. L : BeginsIn(n, old, i, pool[c].key)
  BY <1>1 DEF HistoryInv, MemoryBegan
<1>9. /\ i \in 1 .. Len(now) /\ i \in 1 .. Len(now) - 1
      /\ BeginsIn(n, now, i, pool[c].key)
  BY <1>1, <1>7, <1>8, BeginsLonger
<1> HIDE DEF n, old, now, L, c, new
<1>10. Owners'
  BY <1>3 DEF HistoryInv, Owners, HasBytes
<1>11. \A p : p = Parse => MemoryBegan(p)'
  <2> SUFFICES ASSUME NEW p, p = Parse PROVE MemoryBegan(p)'
    OBVIOUS
  <2>1. mems'[p] = Mem /\ opts'[p] = {} /\ visited'[p] = now
    BY <1>1 DEF now
  <2>2. gvs'[Mem].size = n /\ gvs'[Mem].init = c /\ HasBytes(mems[p])'
    BY <2>1, <1>5 DEF n, c, HasBytes
  <2>3. pool'[c].key = pool[c].key
    BY <1>2, <1>3
  <2> QED
    BY <1>9, <2>1, <2>2, <2>3 DEF MemoryBegan, HasBytes
<1>12. ASSUME NEW g \in 1 .. Len(gvs), HasBytes(g)'
       PROVE  Kept(g)' /\ SharedAtStart(g)'
  <2>0. HasBytes(g) /\ gvs[g].init \in 1 .. Len(pool)
    BY <1>12 DEF HasBytes, HistoryInv, Owners
  <2>1. CASE g = Mem
    <3>1. Holds(g)' = new
      BY <1>1, <1>5, <1>7, <2>1 DEF Holds, now, n
    <3>2. pool'[gvs'[g].init].bytes = new
      BY <1>3, <2>1 DEF c
    <3> QED
      BY <1>1, <1>5, <2>1, <3>1, <3>2 DEF Kept, SharedAtStart
  <2>2. CASE g # Mem
    <3>1. Holds(g)' = Holds(g)
      BY <1>4, <2>2, VisitsFrame
    <3>2. SharedAtStart(g) /\ gvs[g].of < Parse
      BY <1>1, <2>0, <2>2 DEF HistoryInv
    <3>3. SharedAtStart(g)'
      BY <1>3, <1>5, <2>0, <3>1, <3>2 DEF SharedAtStart
    <3>4. CASE gvs[g].init # c
      <4>1. pool'[gvs[g].init] = pool[gvs[g].init]
        BY <1>3, <2>0, <3>4
      <4> QED
        BY <1>4, <2>0, <2>2, <3>3, <4>1, VisitsKept
    <3>5. CASE gvs[g].init = c
      <4>1. pool[c].key = Holds(g) /\ pool'[c].key = Holds(g)
        BY <1>2, <1>3, <3>2, <3>5 DEF SharedAtStart, c
      <4> DEFINE b == pool[c].key
      <4>2. StartsIn(n, now, b)
        BY <1>9 DEF StartsIn
      <4>3. Holds(g)' = b
        BY <3>1, <4>1
      <4> HIDE DEF b
      <4>4. \A q : q = Parse => GoesOn(q, Holds(g))'
        BY <1>1, <4>2, <4>3 DEF GoesOn, n, now
      <4>5. Parse \in gvs[g].of + 1 .. Parse
        <5>1. gvs[g].of \in 1 .. Len(mems)
          BY DEF HistoryInv, Owners
        <5> QED
          BY <1>1, <3>2, <5>1
      <4>6. Kept(g)'
        BY <1>5, <3>1, <3>5, <4>1, <4>4, <4>5 DEF Kept
      <4> QED
        BY <3>3, <4>6
    <3> QED
      BY <3>4, <3>5
  <2> QED
    BY <2>1, <2>2
<1>13. \A g \in Len(gvs) + 1 .. Len(gvs') : FALSE
  BY Domains
<1> QED
  BY <1>4, <1>10, <1>11, <1>12, <1>13, HistoryVisits

LEMMA HistoryDeclare ==
  ASSUME DataInv, HistoryInv, NEW lim \in Limits, NEW ext \in BOOLEAN,
         NEW os \in OptionSets, DeclareMemory(lim, ext, os)
  PROVE  HistoryInv'
<1> DEFINE h == [of |-> Len(mems) + 1, addr |-> 0, size |-> MemoryLength(lim),
                 init |-> IF ext THEN NoInit ELSE ZeroInit]
<1>1. PICK N, P : N = Len(gvs) + 1 /\ P = Len(mems) + 1
  OBVIOUS
<1>2. h.of = P /\ h.init \in {NoInit, ZeroInit}
  BY <1>1
<1>3. /\ gvs' = Append(gvs, h) /\ mems' = Append(mems, N)
      /\ visited' = Append(visited, << >>) /\ opts' = Append(opts, os)
      /\ pool' = pool
  BY <1>1 DEF DeclareMemory
<1> HIDE DEF h
<1>4. /\ gvs \in Seq(GlobalVariable) /\ mems \in Seq(Nat)
      /\ visited \in Seq(Seq(Segments)) /\ opts \in Seq(SUBSET Options)
      /\ Len(visited) = Len(mems) /\ Len(opts) = Len(mems)
  BY DEF DataInv, DataTypeOK
<1>5. /\ Len(gvs) \in Nat /\ N = Len(gvs) + 1
      /\ Len(mems) \in Nat /\ P = Len(mems) + 1
  BY <1>1, <1>4
<1>6. /\ Len(gvs') = N /\ gvs'[N] = h
      /\ \A g \in 1 .. Len(gvs) : gvs'[g] = gvs[g]
  <2>1. gvs \in Seq(GlobalVariable \cup {h})
    BY <1>4
  <2> QED
    BY <1>3, <1>5, <2>1
<1>7. /\ Len(mems') = P /\ mems'[P] = N
      /\ \A p \in 1 .. Len(mems) : mems'[p] = mems[p]
  BY <1>3, <1>4, <1>5
<1>8. /\ visited'[P] = << >>
      /\ \A p \in 1 .. Len(mems) : visited'[p] = visited[p]
  <2>1. << >> \in Seq(Segments)
    OBVIOUS
  <2> QED
    BY <1>3, <1>4, <1>5, <2>1
<1>9. \A p \in 1 .. Len(mems) : opts'[p] = opts[p]
  BY <1>3, <1>4, <1>5
<1>10. Parse' = P /\ Mem' = N /\ Parse = Len(mems)
  BY <1>7 DEF Parse, Mem
<1>11. ~ HasBytes(N)'
  BY <1>2, <1>6 DEF HasBytes
<1>12. ASSUME NEW g \in 1 .. Len(gvs)
       PROVE  /\ gvs'[g] = gvs[g] /\ gvs[g].of \in 1 .. Len(mems)
              /\ HasBytes(g)' = HasBytes(g)
              /\ HasBytes(g) => gvs[g].init \in 1 .. Len(pool)
              /\ mems'[gvs[g].of] = mems[gvs[g].of]
              /\ visited'[gvs[g].of] = visited[gvs[g].of]
              /\ opts'[gvs[g].of] = opts[gvs[g].of]
              /\ Holds(g)' = Holds(g)
  <2>1. gvs'[g] = gvs[g] /\ gvs[g].of \in 1 .. Len(mems)
    BY <1>6 DEF HistoryInv, Owners
  <2>2. /\ mems'[gvs[g].of] = mems[gvs[g].of]
        /\ visited'[gvs[g].of] = visited[gvs[g].of]
        /\ opts'[gvs[g].of] = opts[gvs[g].of]
    BY <1>7, <1>8, <1>9, <2>1
  <2>3. HasBytes(g)' = HasBytes(g)
    BY <2>1 DEF HasBytes
  <2>4. Holds(g)' = Holds(g)
    BY <2>1, <2>2 DEF Holds
  <2> QED
    BY <2>1, <2>2, <2>3, <2>4 DEF HistoryInv, Owners
<1>13. \A g \in 1 .. Len(gvs') : g \in 1 .. Len(gvs) \/ g = N
  BY <1>5, <1>6
<1>14. \A p \in 1 .. Len(mems') : p \in 1 .. Len(mems) \/ p = P
  BY <1>5, <1>7
<1>15. Owners'
  <2>1. ASSUME NEW p \in 1 .. Len(mems)
        PROVE  mems'[p] \in 1 .. Len(gvs') /\ gvs'[mems'[p]].of = p
    <3>1. mems[p] \in 1 .. Len(gvs) /\ gvs[mems[p]].of = p
      BY DEF HistoryInv, Owners
    <3> QED
      BY <1>5, <1>6, <1>7, <3>1
  <2>2. mems'[P] \in 1 .. Len(gvs') /\ gvs'[mems'[P]].of = P
    BY <1>2, <1>5, <1>6, <1>7
  <2>3. ASSUME NEW g \in 1 .. Len(gvs)
        PROVE  /\ gvs'[g].of \in 1 .. Len(mems')
               /\ HasBytes(g)' => gvs'[g].init \in 1 .. Len(pool')
    BY <1>3, <1>5, <1>7, <1>12
  <2>4. gvs'[N].of \in 1 .. Len(mems')
    BY <1>2, <1>5, <1>6, <1>7
  <2> QED
    BY <1>11, <1>13, <1>14, <2>1, <2>2, <2>3, <2>4 DEF Owners
<1>16. ASSUME NEW p \in 1 .. Len(mems)
       PROVE  MemoryBegan(p)'
  <2>1. mems[p] \in 1 .. Len(gvs)
    BY DEF HistoryInv, Owners
  <2>2. MemoryBegan(p)
    BY DEF HistoryInv
  <2>3. /\ mems'[p] = mems[p] /\ visited'[p] = visited[p] /\ opts'[p] = opts[p]
        /\ gvs'[mems[p]] = gvs[mems[p]]
    BY <1>7, <1>8, <1>9, <1>12, <2>1
  <2> QED
    BY <1>3, <2>2, <2>3 DEF MemoryBegan, HasBytes
<1>17. MemoryBegan(P)'
  <2>1. \A j \in 0 .. Len(visited'[P]) : j = 0
    BY <1>8
  <2>2. Copies(gvs'[N].size, visited'[P], 0) = Zeroes(gvs'[N].size)
    BY CopiesFacts
  <2>3. ~ (gvs'[N].init \notin {NoInit, ZeroInit})
    BY <1>11 DEF HasBytes
  <2> QED
    BY <1>7, <2>1, <2>2, <2>3 DEF MemoryBegan, HasBytes
<1>18. ASSUME NEW g \in 1 .. Len(gvs)
       PROVE  /\ g # mems'[gvs'[g].of] => SegmentMade(g)'
              /\ HasBytes(g)' => Kept(g)' /\ SharedAtStart(g)'
  <2>1. g # mems'[gvs'[g].of] => SegmentMade(g)'
    <3>1. g # mems[gvs[g].of] => SegmentMade(g)
      BY DEF HistoryInv
    <3> QED
      BY <1>3, <1>12, <3>1 DEF SegmentMade
  <2>2. HasBytes(g)' => Kept(g)'
    <3> SUFFICES ASSUME HasBytes(g) PROVE Kept(g)'
      BY <1>12
    <3>1. Kept(g)
      BY DEF HistoryInv
    <3>2. ASSUME NEW q \in gvs[g].of + 1 .. Parse, GoesOn(q, Holds(g))
          PROVE  q \in gvs'[g].of + 1 .. Parse' /\ GoesOn(q, Holds(g))'
      <4>1. q \in 1 .. Len(mems) /\ q \in gvs'[g].of + 1 .. Parse'
        BY <1>5, <1>10, <1>12
      <4>2. mems[q] \in 1 .. Len(gvs)
        BY <4>1 DEF HistoryInv, Owners
      <4>3. /\ opts'[q] = opts[q] /\ visited'[q] = visited[q]
            /\ gvs'[mems'[q]] = gvs[mems[q]]
        BY <1>6, <1>7, <1>8, <1>9, <4>1, <4>2
      <4> QED
        BY <1>12, <3>2, <4>1, <4>3 DEF GoesOn
    <3> QED
      BY <1>3, <1>12, <3>1, <3>2 DEF Kept
  <2>3. HasBytes(g)' => SharedAtStart(g)'
    BY <1>10, <1>11 DEF SharedAtStart, HasBytes
  <2> QED
    BY <2>1, <2>2, <2>3
<1>19. N = mems'[gvs'[N].of]
  BY <1>2, <1>6, <1>7
<1> QED
  BY <1>11, <1>13, <1>14, <1>15, <1>16, <1>17, <1>18, <1>19 DEF HistoryInv

LEMMA HistoryFlattened ==
  ASSUME DataInv, HistoryInv, mems # << >>, NEW seg \in Segments, opts[Parse] = {},
         Flattened(seg)
  PROVE  HistoryInv'
<1>1. CASE ~ AssertionFits(seg) \/ SumWraps(seg)
  BY <1>1, HistoryStop DEF Flattened, Stop
<1>2. CASE AssertionFits(seg) /\ ~ SumWraps(seg)
  <2>1. /\ SExt(seg.offset) = seg.offset /\ gvs[Mem].size \in Nat
        /\ seg.offset \in Nat /\ seg.data \in Seq(Nat)
    <3>1. seg.offset \in 0 .. U32 - 1 /\ seg.offset \in Nat /\ seg.data \in Seq(Nat)
      BY SegmentType
    <3>2. gvs[Mem].size \in 0 .. U32 /\ gvs[Mem].size \in Nat
      BY WidthsAssumption DEF DataInv, MemoryHasItsSize
    <3>3. Len(seg.data) \in Nat
      BY <3>1
    <3> QED
      BY <1>2, <3>1, <3>2, <3>3, SegmentFits DEF AssertionFits, SumWraps
  <2>2. Visited(seg) /\ UNCHANGED <<mems, opts>>
    BY <1>2 DEF Flattened
  <2>3. CASE HasBytes(Mem)
    <3>1. /\ UNCHANGED gvs
          /\ pool' = [pool EXCEPT ![gvs[Mem].init].bytes =
                        Patched(Image(Mem), seg.offset, seg.data)]
      BY <1>2, <2>1, <2>3 DEF Flattened, Contents
    <3> QED
      BY <2>2, <2>3, <3>1, HistoryLater
  <2>4. CASE ~ HasBytes(Mem)
    <3> DEFINE new == Patched(Zeroes(gvs[Mem].size), seg.offset, seg.data)
    <3>1. PICK k \in Initialisers : GetRaw(new, k) /\ gvs' = [gvs EXCEPT ![Mem].init = k]
      BY <1>2, <2>1, <2>4 DEF Flattened
    <3>2. new \in [0 .. gvs[Mem].size - 1 -> Nat]
      <4>1. Zeroes(gvs[Mem].size) \in [0 .. gvs[Mem].size - 1 -> Nat]
        BY DEF Zeroes
      <4> QED
        BY <2>1, <4>1, PatchedType
    <3>3. new = Patched(Zeroes(gvs[Mem].size), seg.offset, seg.data)
      OBVIOUS
    <3> HIDE DEF new
    <3> QED
      BY <2>2, <2>4, <3>1, <3>2, <3>3, HistoryFirst
  <2> QED
    BY <2>3, <2>4
<1> QED
  BY <1>1, <1>2

LEMMA HistoryStep ==
  ASSUME DataInv, SplitInv, HistoryInv, [DNext \/ DOver]_dvars
  PROVE  HistoryInv'
<1>1. ASSUME NEW s, Stop(s)
      PROVE  HistoryInv'
  BY <1>1, HistoryStop DEF Stop
<1>2. ASSUME NEW lim \in Limits, NEW ext \in BOOLEAN, NEW os \in OptionSets,
             DeclareMemory(lim, ext, os)
      PROVE  HistoryInv'
  BY <1>2, HistoryDeclare
<1>3. ASSUME NEW seg \in Segments, VisitDataSegment(seg)
      PROVE  HistoryInv'
  <2>1. mems # << >> /\ opts[Parse] \in SUBSET Options
    BY <1>3 DEF VisitDataSegment, DataInv, DataTypeOK, VisitsAModule, Parse
  <2>2. CASE "SplitMem" \in opts[Parse]
    BY <1>3, <2>1, <2>2, HistorySplit DEF VisitDataSegment
  <2>3. CASE "SplitMem" \notin opts[Parse] /\ "NoMemInitializer" \in opts[Parse]
    BY <1>3, <2>1, <2>3, HistoryNoMem DEF VisitDataSegment
  <2>4. CASE "SplitMem" \notin opts[Parse] /\ "NoMemInitializer" \notin opts[Parse]
    <3>1. opts[Parse] = {} /\ Flattened(seg)
      BY <1>3, <2>1, <2>4 DEF Options, VisitDataSegment
    <3> QED
      BY <2>1, <3>1, HistoryFlattened
  <2> QED
    BY <2>2, <2>3, <2>4
<1>4. CASE UNCHANGED dvars
  BY <1>4, HistoryStop DEF dvars
<1> QED
  BY <1>1, <1>2, <1>3, <1>4 DEF DNext, DOver, UnsupportedOffset, ModuleDone

(* The formulas of the property are those of the invariant.                *)
LEMMA BeginsIs ==
  ASSUME NEW p, NEW i, NEW bytes, BeginsIn(gvs[mems[p]].size, visited[p], i, bytes)
  PROVE  Begins(p, i, bytes)
BY ExpectedIs DEF BeginsIn, Begins

LEMMA OwedIs ==
  ASSUME NEW g
  PROVE  Owed(g) = Holds(g)
BY ExpectedIs DEF Owed, Holds, WholeMemory

LEMMA HistoryIndependent ==
  ASSUME DataInv, HistoryInv, NEW g \in 1 .. Len(gvs), Image(g) # Owed(g)
  PROVE  /\ \E q \in gvs[g].of + 1 .. Parse :
              opts[q] = {} /\ StartsFrom(q, Owed(g))
         /\ g = mems[gvs[g].of] => EndsAsItBegan(gvs[g].of)
<1> DEFINE p == gvs[g].of
<1>1. Owed(g) = Holds(g)
  BY OwedIs
<1>2. p \in 1 .. Len(mems) /\ MemoryBegan(p) /\ Len(visited[p]) \in Nat
  BY Domains DEF HistoryInv, Owners
<1>3. HasBytes(g)
  <2> SUFFICES ASSUME ~ HasBytes(g) PROVE Image(g) = Holds(g)
    BY <1>1
  <2>1. Image(g) = Zeroes(gvs[g].size)
    BY DEF Image, HasBytes
  <2>2. CASE g # mems[p]
    BY <2>1, <2>2 DEF HistoryInv, SegmentMade, Holds
  <2>3. CASE g = mems[p]
    BY <1>2, <2>1, <2>3 DEF MemoryBegan, Holds
  <2> QED
    BY <2>2, <2>3
<1>4. Image(g) = pool[gvs[g].init].bytes
  BY <1>3 DEF Image, HasBytes
<1>5. /\ pool[gvs[g].init].key = Holds(g)
      /\ \E q \in p + 1 .. Parse : GoesOn(q, Holds(g))
  BY <1>1, <1>3, <1>4 DEF HistoryInv, Kept
<1>6. PICK q \in p + 1 .. Parse : GoesOn(q, Holds(g))
  BY <1>5
<1>7. StartsFrom(q, Owed(g))
  <2>1. PICK i \in 1 .. Len(visited[q]) - 1 :
          BeginsIn(gvs[mems[q]].size, visited[q], i, Holds(g))
    BY <1>6 DEF GoesOn, StartsIn
  <2>2. Begins(q, i, Owed(g))
    BY <1>1, <2>1, BeginsIs
  <2> QED
    BY <2>2 DEF StartsFrom
<1>8. ASSUME g = mems[p]
      PROVE  EndsAsItBegan(p)
  <2>1. PICK i \in 1 .. Len(visited[p]) :
          BeginsIn(gvs[g].size, visited[p], i, pool[gvs[g].init].key)
    BY <1>2, <1>3, <1>8 DEF MemoryBegan
  <2>2. opts[p] = {}
    BY <1>2, <1>3, <1>8 DEF MemoryBegan
  <2>3. pool[gvs[g].init].key = WholeMemory(p)
    BY <1>5, <1>8, <2>2, ExpectedIs DEF Holds, WholeMemory
  <2>4. Begins(p, i, WholeMemory(p))
    BY <1>8, <2>1, <2>3, BeginsIs
  <2>5. DOMAIN visited[p] = 1 .. Len(visited[p])
    BY <1>2, Domains
  <2> QED
    BY <2>4, <2>5 DEF EndsAsItBegan
<1> QED
  BY <1>6, <1>7, <1>8 DEF GoesOn

(* Each constant has a history: it was made from the bytes its global      *)
(* variables were to hold then, and still has them unless the memory of a  *)
(* later module began with them.                                           *)
THEOREM ConstantsHistory == DSpec => [](DataInv /\ SplitInv /\ HistoryInv)
<1>1. DInit => SplitInv /\ HistoryInv
  <2>1. DInit => SplitInv
    BY DEF DInit, SplitInv
  <2>2. DInit => HistoryInv
    <3> SUFFICES ASSUME DInit PROVE HistoryInv
      OBVIOUS
    <3>1. /\ \A g \in 1 .. Len(gvs) : FALSE
          /\ \A p \in 1 .. Len(mems) : FALSE
      BY DEF DInit
    <3> QED
      BY <3>1 DEF HistoryInv, Owners
  <2> QED
    BY <2>1, <2>2
<1>2. DataInv /\ SplitInv /\ HistoryInv /\ [DNext \/ DOver]_dvars
        => SplitInv' /\ HistoryInv'
  BY SplitInvStep, HistoryStep
<1> QED
  BY <1>1, <1>2, MemoryConsistent, PTL DEF DSpec

(* What a translated module holds changes only when a later module of the  *)
(* same LLVMContext starts with an equal memory and goes on from there,    *)
(* although visitDataSegment changes the bytes of constants that LLVM      *)
(* shares.                                                                 *)
THEOREM TranslatedKept == DSpec => []IndependentUnlessEqualStart
<1>1. DataInv /\ HistoryInv => IndependentUnlessEqualStart
  <2> SUFFICES ASSUME DataInv, HistoryInv, NEW g \in DOMAIN gvs, Image(g) # Owed(g)
               PROVE  /\ \E q \in gvs[g].of + 1 .. Parse :
                           opts[q] = {} /\ StartsFrom(q, Owed(g))
                      /\ g = mems[gvs[g].of] => EndsAsItBegan(gvs[g].of)
    BY DEF IndependentUnlessEqualStart
  <2>1. g \in 1 .. Len(gvs)
    BY Domains
  <2> QED
    BY <2>1, HistoryIndependent
<1> QED
  BY <1>1, ConstantsHistory, PTL
=============================================================================
