------------------------- MODULE VisitModule_proofs -------------------------
(***************************************************************************)
(* Proofs about the passes of Context::visitModule, for all bounds, names, *)
(* sizes, offsets and options: an index finds in the vectors of Context    *)
(* what was made for it, a table has what its element segment wrote, and   *)
(* the last segment is always at its place.                                *)
(*                                                                         *)
(* The invariant follows the index space and the vector of each kind as    *)
(* they grow (IndexOK).  The steps either add an entity together with its  *)
(* value (Added), or change names and linkage only (Keeps), or put         *)
(* initialisers into tables (Refilled).  That setName always finds a new   *)
(* name is an argument by counting (NumberLeft).                           *)
(*                                                                         *)
(* The second half is about names and linkage.  What setName, setLinkage,  *)
(* FixNames, ForceExportName and declareFunc do to all names is said once  *)
(* (Gives, Shows, Fixes, Takes, Declares); a step then shows, for each     *)
(* function, why it loses or gains a name (Cause, Gain), and NamesInv      *)
(* follows for whatever has such causes (StepOn).                          *)
(***************************************************************************)
EXTENDS VisitModule, Induction, FiniteSetTheorems, SequenceTheorems

-----------------------------------------------------------------------------
(* The LLVM module.                                                        *)

(* The names of a wasm module.                                             *)
Given == FuncNames \cup GlobalNames \cup LinkNames \cup ExportNames
(* The texts of names: those of the module and those the code writes.      *)
Texts == { n.text : n \in Given }
         \cup { "", "main", "memset_1", "memcpy_1", "func_", "table_",
                "__notdec_global_", "__notdec_mem0" }
(* Names, values and LLVM modules.                                         *)
Names == [dollars : Nat, text : Texts, nums : Seq(Nat)]

Values == [kind : Kinds, of : Nat, external : BOOLEAN, size : Nat,
           init : SUBSET Seq(Nat), name : Names]
Modules == [values : Seq(Values), last : Nat]

(* Value w is what v was, but for its name and its linkage.                *)
Alike(v, w) == /\ w.kind = v.kind /\ w.of = v.of
               /\ w.size = v.size /\ w.init = v.init
(* The values of two modules are alike, one by one.                        *)
SameValues(st, su) ==
  /\ Len(su.values) = Len(st.values)
  /\ \A k \in 1 .. Len(st.values) : Alike(st.values[k], su.values[k])

(* One element of a sequence is replaced.                                  *)
LEMMA ExceptAt ==
  ASSUME NEW S, NEW s \in Seq(S), NEW k \in 1 .. Len(s), NEW e \in S
  PROVE  /\ [s EXCEPT ![k] = e] \in Seq(S)
         /\ Len([s EXCEPT ![k] = e]) = Len(s)
         /\ \A j \in 1 .. Len(s) : [s EXCEPT ![k] = e][j] = IF j = k THEN e ELSE s[j]
BY ExceptSeq

(* A value is replaced by one that is alike.                               *)
LEMMA ValueReplaced ==
  ASSUME NEW st \in Modules, NEW id \in 1 .. Len(st.values), NEW v \in Values,
         Alike(st.values[id], v), NEW su,
         su = [st EXCEPT !.values = [@ EXCEPT ![id] = v]]
  PROVE  /\ su \in Modules
         /\ su.last = st.last
         /\ SameValues(st, su)
         /\ su.values[id] = v
<1> DEFINE vs == st.values
           ws == [vs EXCEPT ![id] = v]
<1>1. vs \in Seq(Values) /\ id \in 1 .. Len(vs) /\ st.last \in Nat
  BY DEF Modules
<1>2. su.values = ws /\ su = [values |-> ws, last |-> st.last]
  BY DEF Modules
<1> HIDE DEF vs
<1>3. /\ ws \in Seq(Values)
      /\ Len(ws) = Len(vs)
      /\ \A j \in 1 .. Len(vs) : ws[j] = IF j = id THEN v ELSE vs[j]
  BY <1>1, ExceptAt
<1> HIDE DEF ws
<1>4. Alike(vs[id], v)
  BY DEF vs
<1>5. \A j \in 1 .. Len(vs) : Alike(vs[j], ws[j])
  BY <1>3, <1>4 DEF Alike
<1>6. su \in Modules /\ su.last = st.last
  BY <1>1, <1>2, <1>3 DEF Modules
<1> QED
  BY <1>1, <1>2, <1>3, <1>5, <1>6 DEF SameValues, vs

(* A value gets another name.                                              *)
LEMMA PutName ==
  ASSUME NEW st \in Modules, NEW id \in 1 .. Len(st.values), NEW n \in Names,
         NEW su, su = [st EXCEPT !.values[id].name = n]
  PROVE  /\ su \in Modules
         /\ SameValues(st, su)
         /\ su.last = st.last
         /\ su.values[id].name = n
<1> DEFINE v == [st.values[id] EXCEPT !.name = n]
<1>1. st.values[id] \in Values
  BY DEF Modules
<1>2. v \in Values /\ Alike(st.values[id], v) /\ v.name = n
  BY <1>1 DEF Values, Alike
<1>3. su = [st EXCEPT !.values = [@ EXCEPT ![id] = v]]
  OBVIOUS
<1> HIDE DEF v
<1> QED
  BY <1>2, <1>3, ValueReplaced

(* ... or becomes visible to the linker.                                   *)
LEMMA ExternalFacts ==
  ASSUME NEW st \in Modules, NEW id \in 1 .. Len(st.values)
  PROVE  External(st, id) \in Modules /\ SameValues(st, External(st, id))
<1> DEFINE v == [st.values[id] EXCEPT !.external = TRUE]
           su == External(st, id)
<1>1. st.values[id] \in Values
  BY DEF Modules
<1>2. v \in Values /\ Alike(st.values[id], v)
  BY <1>1 DEF Values, Alike
<1>3. su = [st EXCEPT !.values = [@ EXCEPT ![id] = v]]
  BY DEF External
<1> HIDE DEF v, su
<1>4. su \in Modules /\ SameValues(st, su)
  BY <1>2, <1>3, ValueReplaced
<1> QED
  BY <1>4 DEF su

(* Names with different numbers behind them are different.                 *)
LEMMA SuffixedFacts ==
  ASSUME NEW n \in Names, NEW i \in Nat
  PROVE  /\ Suffixed(n, i) \in Names
         /\ \A j \in Nat : Suffixed(n, i) = Suffixed(n, j) => i = j
<1>1. n.nums \in Seq(Nat)
  BY DEF Names
<1>2. \A j \in Nat : /\ Suffixed(n, j).nums = Append(n.nums, j)
                     /\ Append(n.nums, j)[Len(n.nums) + 1] = j
                     /\ Append(n.nums, j) \in Seq(Nat)
  BY <1>1 DEF Suffixed, Names
<1>3. Suffixed(n, i) \in Names
  BY <1>2 DEF Suffixed, Names
<1>4. ASSUME NEW j \in Nat, Suffixed(n, i) = Suffixed(n, j)
      PROVE  i = j
  BY <1>2, <1>4
<1> QED
  BY <1>3, <1>4

(* Among one number more than there are values, one makes a name that no   *)
(* value has.                                                              *)
LEMMA NumberLeft ==
  ASSUME NEW st \in Modules, NEW id, NEW n \in Names
  PROVE  \E i \in st.last + 1 .. st.last + Len(st.values) + 1 :
           Suffixed(n, i) \notin Taken(st, id)
<1> DEFINE a == st.last + 1
           L == Len(st.values)
           T == a .. st.last + L + 1
<1>1. L \in Nat /\ st.last \in Nat
  BY DEF Modules
<1>2. /\ IsFiniteSet(T) /\ Cardinality(T) = L + 1
      /\ IsFiniteSet(1 .. L) /\ Cardinality(1 .. L) = L
  <2> DEFINE b == st.last + L + 1
  <2>1. a \in Int /\ b \in Int /\ ~ (a > b) /\ b - a + 1 = L + 1
    BY <1>1, SMTT(30)
  <2>2. 1 \in Int /\ L \in Int
    BY <1>1
  <2> HIDE DEF a, b, L
  <2>3. IsFiniteSet(a .. b) /\ Cardinality(a .. b) = IF a > b THEN 0 ELSE b - a + 1
    BY <2>1, FS_Interval
  <2>4. IsFiniteSet(1 .. L) /\ Cardinality(1 .. L) = IF 1 > L THEN 0 ELSE L - 1 + 1
    BY <2>2, FS_Interval
  <2>5. Cardinality(1 .. L) = L
    BY <1>1, <2>4
  <2> QED
    BY <2>1, <2>3, <2>4, <2>5 DEF b
<1> SUFFICES ASSUME \A i \in T : Suffixed(n, i) \in Taken(st, id)
             PROVE  FALSE
  OBVIOUS
<1> DEFINE f == [i \in T |-> CHOOSE k \in 1 .. L : st.values[k].name = Suffixed(n, i)]
<1>3. ASSUME NEW i \in T
      PROVE  f[i] \in 1 .. L /\ st.values[f[i]].name = Suffixed(n, i)
  <2>1. \E k \in DOMAIN st.values \ {id} : st.values[k].name = Suffixed(n, i)
    BY DEF Taken
  <2>2. DOMAIN st.values = 1 .. L
    BY DEF Modules
  <2>3. \E k \in 1 .. L : st.values[k].name = Suffixed(n, i)
    BY <2>1, <2>2
  <2> QED
    BY <2>3
<1>4. f \in [T -> 1 .. L]
  BY <1>3
<1>5. \A i \in T : i \in Nat
  BY <1>1
<1> HIDE DEF f, T, L
<1>6. \E x, y \in T : x # y /\ f[x] = f[y]
  <2>1. Cardinality(1 .. L) < Cardinality(T)
    BY <1>1, <1>2
  <2> QED
    BY <1>2, <1>4, <2>1, FS_PigeonHole
<1>7. PICK x \in T, y \in T : x # y /\ f[x] = f[y]
  BY <1>6
<1>8. Suffixed(n, x) = Suffixed(n, y)
  BY <1>3, <1>7
<1> QED
  BY <1>5, <1>7, <1>8, SuffixedFacts

(* A name is put, or a number that makes it one that no value has.         *)
LEMMA SetNameCases ==
  ASSUME NEW st \in Modules, NEW id \in 1 .. Len(st.values), NEW n \in Names
  PROVE  \/ /\ n = st.values[id].name \/ n = Empty \/ n \notin Taken(st, id)
            /\ SetName(st, id, n) = [st EXCEPT !.values[id].name = n]
         \/ /\ ~ (n = st.values[id].name \/ n = Empty \/ n \notin Taken(st, id))
            /\ \E i \in Nat :
                 /\ Suffixed(n, i) \in Names /\ Suffixed(n, i) \notin Taken(st, id)
                 /\ SetName(st, id, n) =
                      [[st EXCEPT !.last = i] EXCEPT !.values[id].name = Suffixed(n, i)]
<1> DEFINE taken == Taken(st, id)
           T == st.last + 1 .. st.last + Len(st.values) + 1
           Fits(i) == /\ Suffixed(n, i) \notin taken
                      /\ \A j \in st.last + 1 .. i - 1 : Suffixed(n, j) \in taken
           new == CHOOSE i \in T : Fits(i)
           su == SetName(st, id, n)
<1>1. st.last \in Nat /\ Len(st.values) \in Nat
  BY DEF Modules
<1>2. \E i \in T : Fits(i)
  <2> DEFINE F == { i \in T : Suffixed(n, i) \notin taken }
  <2>1. F \in SUBSET Nat /\ F # {}
    BY <1>1, NumberLeft, SMTT(30)
  <2>2. PICK m \in F : \A k \in F : m <= k
    <3> HIDE DEF F
    <3> QED
      BY <2>1, Least
  <2>3. ASSUME NEW j \in st.last + 1 .. m - 1
        PROVE  Suffixed(n, j) \in taken
    <3>1. j \in T /\ ~ (m <= j)
      BY <1>1, <2>2
    <3> QED
      BY <2>2, <3>1
  <2> QED
    BY <2>2, <2>3
<1>3. new \in T /\ Fits(new)
  BY <1>2
<1>4. new \in Nat /\ Suffixed(n, new) \in Names
  <2>1. new \in Nat
    BY <1>1, <1>3
  <2> HIDE DEF new
  <2> QED
    BY <2>1, SuffixedFacts
<1>5. su = IF n = st.values[id].name \/ n = Empty \/ n \notin taken
           THEN [st EXCEPT !.values[id].name = n]
           ELSE [[st EXCEPT !.last = new] EXCEPT !.values[id].name = Suffixed(n, new)]
  BY DEF SetName
<1> HIDE DEF new, su
<1>6. CASE n = st.values[id].name \/ n = Empty \/ n \notin taken
  BY <1>5, <1>6 DEF su
<1>7. CASE ~ (n = st.values[id].name \/ n = Empty \/ n \notin taken)
  BY <1>3, <1>4, <1>5, <1>7 DEF su
<1> QED
  BY <1>6, <1>7

(* setName changes nothing but names, and LLVM finds a name.               *)
LEMMA SetNameFacts ==
  ASSUME NEW st \in Modules, NEW id \in 1 .. Len(st.values), NEW n \in Names
  PROVE  SetName(st, id, n) \in Modules /\ SameValues(st, SetName(st, id, n))
<1> DEFINE su == SetName(st, id, n)
<1>1. CASE su = [st EXCEPT !.values[id].name = n]
  <2> HIDE DEF su
  <2>1. su \in Modules /\ SameValues(st, su)
    BY <1>1, PutName
  <2> QED
    BY <2>1 DEF su
<1>2. ASSUME NEW i \in Nat, Suffixed(n, i) \in Names,
             su = [[st EXCEPT !.last = i] EXCEPT !.values[id].name = Suffixed(n, i)]
      PROVE  su \in Modules /\ SameValues(st, su)
  <2> DEFINE sv == [st EXCEPT !.last = i]
             m == Suffixed(n, i)
  <2> HIDE DEF su
  <2>1. su = [sv EXCEPT !.values[id].name = m] /\ m \in Names
    BY <1>2
  <2>2. sv \in Modules /\ sv.values = st.values
    BY DEF Modules
  <2> HIDE DEF sv, m
  <2>3. id \in 1 .. Len(sv.values)
    BY <2>2
  <2>4. su \in Modules /\ SameValues(sv, su)
    BY <2>1, <2>2, <2>3, PutName
  <2> QED
    BY <2>2, <2>4 DEF SameValues
<1> QED
  BY <1>1, <1>2, SetNameCases

(* What the steps after it do to the module: names and linkage only.       *)
Keeps(st, su) == su \in Modules /\ SameValues(st, su)

(* Keeping is reflexive                                                    *)
LEMMA KeepsSelf ==
  ASSUME NEW st \in Modules
  PROVE  Keeps(st, st)
BY DEF Keeps, SameValues, Alike

(* ... and transitive.                                                     *)
LEMMA KeepsTrans ==
  ASSUME NEW s, NEW t, NEW u, Keeps(s, t), Keeps(t, u)
  PROVE  Keeps(s, u)
BY DEF Keeps, SameValues, Alike

(* It loses no value.                                                      *)
LEMMA KeepsDomain ==
  ASSUME NEW s, NEW t, Keeps(s, t), NEW id \in 1 .. Len(s.values)
  PROVE  id \in 1 .. Len(t.values) /\ t \in Modules
BY DEF Keeps, SameValues

(* Names.                                                                  *)
LEMMA TextFacts ==
  ASSUME NEW t \in Texts
  PROVE  Text(t) \in Names
BY DEF Text, Names

(* ... and a text with a number.                                           *)
LEMMA NumberedFacts ==
  ASSUME NEW t \in Texts, NEW i \in Nat
  PROVE  Numbered(t, i) \in Names
BY DEF Numbered, Names

(* So are the names a wasm module gives.                                   *)
LEMMA GivenFacts == Given \subseteq Names
BY NamesAssumption DEF NameType, Given, Names, Texts

(* The empty name is one.                                                  *)
LEMMA EmptyFacts == Empty \in Names
BY DEF Empty, Text, Names, Texts

(* A name may lose a dollar sign.                                          *)
LEMMA OptDollarFacts ==
  ASSUME NEW n \in Names
  PROVE  OptDollar(n) \in Names
BY DEF OptDollar, RemoveDollar, Names

(* Values have names.                                                      *)
LEMMA NameOfFacts ==
  ASSUME NEW st \in Modules, NEW id \in 1 .. Len(st.values)
  PROVE  NameOf(st, id) \in Names
<1>1. st.values[id] \in Values
  BY DEF Modules
<1> QED
  BY <1>1 DEF NameOf, Values

(* setName changes names only.                                             *)
LEMMA SetNameKeeps ==
  ASSUME NEW st \in Modules, NEW id \in 1 .. Len(st.values), NEW n \in Names
  PROVE  Keeps(st, SetName(st, id, n))
BY SetNameFacts DEF Keeps

(* setLinkage changes linkage only.                                        *)
LEMMA ExternalKeeps ==
  ASSUME NEW st \in Modules, NEW id \in 1 .. Len(st.values)
  PROVE  Keeps(st, External(st, id))
BY ExternalFacts DEF Keeps

(* getFunction finds values of the module.                                 *)
LEMMA GetFunctionFacts ==
  ASSUME NEW st \in Modules, NEW n
  PROVE  GetFunction(st, n) \subseteq 1 .. Len(st.values)
BY DEF GetFunction, Modules

(* A value that loses its name.                                            *)
LEMMA UnnamedKeeps ==
  ASSUME NEW st \in Modules, NEW ids, ids \subseteq 1 .. Len(st.values)
  PROVE  Keeps(st, Unnamed(st, ids))
<1> DEFINE id == CHOOSE k \in ids : TRUE
<1>2. CASE ids = {}
  BY <1>2, KeepsSelf DEF Unnamed
<1>3. CASE ids # {}
  <2>1. id \in 1 .. Len(st.values)
    BY <1>3
  <2>2. Unnamed(st, ids) = SetName(st, id, Empty)
    BY <1>3 DEF Unnamed
  <2> HIDE DEF id
  <2>3. Keeps(st, SetName(st, id, Empty))
    BY <2>1, EmptyFacts, SetNameKeeps
  <2> QED
    BY <2>2, <2>3
<1> QED
  BY <1>2, <1>3

(* ForceExportName.                                                        *)
LEMMA ForceNameKeeps ==
  ASSUME NEW st \in Modules, NEW id \in 1 .. Len(st.values), NEW n \in Names
  PROVE  Keeps(st, ForceName(st, id, n))
<1> DEFINE su == Unnamed(st, GetFunction(st, n))
<1>1. Keeps(st, su)
  BY GetFunctionFacts, UnnamedKeeps
<1> HIDE DEF su
<1>2. id \in 1 .. Len(su.values) /\ su \in Modules
  BY <1>1, KeepsDomain
<1>3. Keeps(su, SetName(su, id, n))
  BY <1>2, SetNameKeeps
<1> QED
  BY <1>1, <1>3, KeepsTrans DEF ForceName, su

(* The name an export gives.                                               *)
LEMMA ExportedNameKeeps ==
  ASSUME NEW st \in Modules, NEW id \in 1 .. Len(st.values), NEW n \in Names
  PROVE  Keeps(st, ExportedName(st, id, n))
BY KeepsSelf, ForceNameKeeps, SetNameKeeps DEF ExportedName

(* FixNames: the program's entry becomes main.                             *)
LEMMA RenamedMainKeeps ==
  ASSUME NEW st \in Modules, NEW id \in 1 .. Len(st.values)
  PROVE  Keeps(st, RenamedMain(st, id))
<1> DEFINE su == External(st, id)
           sv == Unnamed(su, GetFunction(st, Main))
<1>1. Keeps(st, su)
  BY ExternalKeeps
<1> HIDE DEF su
<1>2. id \in 1 .. Len(su.values) /\ su \in Modules
  BY <1>1, KeepsDomain
<1>3. Keeps(su, sv)
  <2>1. GetFunction(st, Main) \subseteq 1 .. Len(su.values)
    BY <1>1, GetFunctionFacts DEF Keeps, SameValues
  <2> QED
    BY <1>2, <2>1, UnnamedKeeps
<1> HIDE DEF sv
<1>4. id \in 1 .. Len(sv.values) /\ sv \in Modules
  BY <1>2, <1>3, KeepsDomain
<1>5. Main \in Names
  BY DEF Main, Text, Names, Texts
<1>6. Keeps(sv, SetName(sv, id, Main))
  BY <1>4, <1>5, SetNameKeeps
<1>7. Keeps(st, SetName(sv, id, Main))
  BY <1>1, <1>3, <1>6, KeepsTrans
<1>8. RenamedMain(st, id) = IF NameOf(st, id) \in {Text("__original_main"), Text("__main_argc_argv")}
                            THEN SetName(sv, id, Main) ELSE st
  BY Zenon DEF RenamedMain, sv, su
<1> QED
  BY <1>7, <1>8, KeepsSelf

(* FixNames: memset and memcpy.                                            *)
LEMMA RenamedKeeps ==
  ASSUME NEW st \in Modules, NEW id \in 1 .. Len(st.values), NEW from,
         NEW n \in Names
  PROVE  Keeps(st, Renamed(st, id, from, n))
BY KeepsSelf, SetNameKeeps DEF Renamed

(* FixNames as a whole.                                                    *)
LEMMA FixedNamesKeeps ==
  ASSUME NEW st \in Modules, NEW id \in 1 .. Len(st.values)
  PROVE  Keeps(st, FixedNames(st, id))
<1> DEFINE s1 == SetName(st, id, OptDollar(NameOf(st, id)))
           s2 == RenamedMain(s1, id)
           m == Text("memset_1")
           s3 == Renamed(s2, id, Text("memset"), m)
           c == Text("memcpy_1")
           s4 == Renamed(s3, id, Text("memcpy"), c)
<1>1. m \in Names /\ c \in Names
  BY DEF Text, Names, Texts
<1>2. FixedNames(st, id) = s4
  BY DEF FixedNames
<1> HIDE DEF m, c
<1>3. Keeps(st, s1)
  BY NameOfFacts, OptDollarFacts, SetNameKeeps
<1> HIDE DEF s1
<1>4. id \in 1 .. Len(s1.values) /\ s1 \in Modules
  BY <1>3, KeepsDomain
<1>5. Keeps(s1, s2)
  BY <1>4, RenamedMainKeeps
<1> HIDE DEF s2
<1>6. id \in 1 .. Len(s2.values) /\ s2 \in Modules
  BY <1>4, <1>5, KeepsDomain
<1>7. Keeps(s2, s3)
  BY <1>1, <1>6, RenamedKeeps
<1> HIDE DEF s3
<1>8. id \in 1 .. Len(s3.values) /\ s3 \in Modules
  BY <1>6, <1>7, KeepsDomain
<1>9. Keeps(s3, s4)
  BY <1>1, <1>8, RenamedKeeps
<1> HIDE DEF s4
<1>10. Keeps(st, s4)
  BY <1>3, <1>5, <1>7, <1>9, KeepsTrans
<1> QED
  BY <1>2, <1>10

(* Without FixNames, main is made visible.                                 *)
LEMMA MainExternalKeeps ==
  ASSUME NEW st \in Modules, NEW id \in 1 .. Len(st.values)
  PROVE  Keeps(st, MainExternal(st, id))
BY KeepsSelf, ExternalKeeps DEF MainExternal

-----------------------------------------------------------------------------
(* A value more.                                                           *)

(* su is st with a value more, of the given kind, index and size.          *)
Added(st, su, kind, i, size) ==
  LET n == Len(st.values)
  IN  /\ su \in Modules
      /\ Len(su.values) = n + 1
      /\ \A k \in 1 .. n : Alike(st.values[k], su.values[k])
      /\ su.values[n + 1].kind = kind
      /\ su.values[n + 1].of = i
      /\ su.values[n + 1].size = size
      /\ su.values[n + 1].init = NoInitialiser

(* A value more, then other names.                                         *)
LEMMA AddedKeeps ==
  ASSUME NEW st \in Modules, NEW su, NEW sv, NEW kind, NEW i, NEW size,
         Added(st, su, kind, i, size), Keeps(su, sv)
  PROVE  Added(st, sv, kind, i, size)
<1>1. Len(st.values) \in Nat
  BY DEF Modules
<1> QED
  BY <1>1, SMTT(30) DEF Added, Keeps, SameValues, Alike

(* A new GlobalVariable or Function is one value more.                     *)
LEMMA CreatedAdds ==
  ASSUME NEW st \in Modules, NEW kind \in Kinds, NEW i \in Nat,
         NEW external \in BOOLEAN, NEW n \in Names
  PROVE  Added(st, Created(st, kind, i, external, n), kind, i, 0)
<1> DEFINE vs == st.values
           v == [kind |-> kind, of |-> i, external |-> external, size |-> 0,
                 init |-> NoInitialiser, name |-> Empty]
           ws == Append(vs, v)
           su == [st EXCEPT !.values = ws]
           len == Len(vs)
<1>1. v \in Values
  BY EmptyFacts DEF Values, NoInitialiser
<1>2. v.kind = kind /\ v.of = i /\ v.size = 0 /\ v.init = NoInitialiser
  OBVIOUS
<1>3. vs \in Seq(Values) /\ st.last \in Nat
  BY DEF Modules
<1>4. Created(st, kind, i, external, n) = SetName(su, len + 1, n)
  BY DEF Created
<1> HIDE DEF vs, v
<1>5. /\ ws \in Seq(Values) /\ len \in Nat /\ Len(ws) = len + 1
      /\ ws[len + 1] = v
      /\ \A k \in 1 .. len : ws[k] = vs[k]
  BY <1>1, <1>3
<1> HIDE DEF ws, len
<1>6. su \in Modules /\ su.values = ws
  BY <1>3, <1>5 DEF Modules
<1> HIDE DEF su
<1>7. Added(st, su, kind, i, 0)
  BY <1>2, <1>5, <1>6 DEF Added, Alike, len, vs
<1>8. len + 1 \in 1 .. Len(su.values)
  BY <1>5, <1>6
<1>9. Keeps(su, SetName(su, len + 1, n))
  BY <1>6, <1>8, SetNameKeeps
<1> QED
  BY <1>4, <1>7, <1>9, AddedKeeps

(* The name an entity gets is a name.                                      *)
LEMMA LlvmNameFacts ==
  ASSUME vecs \in [Kinds -> Seq(Nat)], NEW kind \in Kinds, NEW e, e.name \in Names
  PROVE  LlvmName(kind, e) \in Names
<1>1. Len(vecs["global"]) \in Nat /\ Len(vecs["table"]) \in Nat
  BY DEF Kinds
<1>2. CASE kind = "func"
  BY <1>2, OptDollarFacts DEF LlvmName
<1>3. CASE kind = "global"
  <2>1. "__notdec_global_" \in Texts
    BY DEF Texts
  <2>2. Numbered("__notdec_global_", Len(vecs["global"])) \in Names
    BY <1>1, <2>1, NumberedFacts
  <2> QED
    BY <1>3, <2>2, OptDollarFacts DEF LlvmName
<1>4. CASE kind = "memory"
  <2>1. "__notdec_mem0" \in Texts
    BY DEF Texts
  <2>2. Text("__notdec_mem0") \in Names
    BY <2>1, TextFacts
  <2> QED
    BY <1>4, <2>2 DEF LlvmName
<1>5. CASE kind = "table"
  <2>1. "table_" \in Texts
    BY DEF Texts
  <2>2. Numbered("table_", Len(vecs["table"])) \in Names
    BY <1>1, <2>1, NumberedFacts
  <2> QED
    BY <1>5, <2>2 DEF LlvmName
<1> QED
  BY <1>2, <1>3, <1>4, <1>5 DEF Kinds

(* declareFunc, visitGlobal, declareMemory, visitTable.                    *)
LEMMA RegisteredAdds ==
  ASSUME llvm \in Modules, vecs \in [Kinds -> Seq(Nat)], NEW kind \in Kinds,
         NEW i \in Nat, NEW e, e.name \in Names, e.size \in Nat,
         NEW external \in BOOLEAN
  PROVE  Added(llvm, Registered(kind, i, e, external), kind, i, e.size)
<1> DEFINE out == LinkedOutside(kind, external)
           n == LlvmName(kind, e)
           st == Created(llvm, kind, i, out, n)
           len == Len(st.values)
           v == [st.values[len] EXCEPT !.size = e.size]
           su == Registered(kind, i, e, external)
<1>1. out \in BOOLEAN /\ n \in Names
  BY LlvmNameFacts DEF LinkedOutside
<1>2. su = [st EXCEPT !.values[len].size = e.size]
  BY DEF Registered
<1> HIDE DEF out, n, su
<1>3. Added(llvm, st, kind, i, 0)
  BY <1>1, CreatedAdds
<1> HIDE DEF st
<1>4. /\ st \in Modules /\ Len(llvm.values) \in Nat
      /\ len = Len(llvm.values) + 1
  BY <1>3 DEF Added, Modules
<1> DEFINE vs == st.values
           ws == [vs EXCEPT ![len] = v]
<1>5. vs \in Seq(Values) /\ len \in 1 .. Len(vs) /\ st.last \in Nat
  BY <1>4 DEF Modules
<1>6. /\ v \in Values /\ v.kind = vs[len].kind /\ v.of = vs[len].of
      /\ v.init = vs[len].init /\ v.size = e.size
  <2>1. vs[len] \in Values
    BY <1>5
  <2> QED
    BY <2>1 DEF Values
<1>7. su = [values |-> ws, last |-> st.last]
  BY <1>2, <1>4 DEF Modules
<1> HIDE DEF v, vs, len
<1>8. /\ ws \in Seq(Values)
      /\ Len(ws) = Len(vs)
      /\ \A j \in 1 .. Len(vs) : ws[j] = IF j = len THEN v ELSE vs[j]
  BY <1>5, <1>6, ExceptAt
<1> HIDE DEF ws
<1>9. su \in Modules /\ su.values = ws
  BY <1>5, <1>7, <1>8 DEF Modules
<1>10. /\ Len(su.values) = Len(llvm.values) + 1
       /\ su.values[Len(llvm.values) + 1] = v
       /\ \A k \in 1 .. Len(llvm.values) : su.values[k] = vs[k]
  <2>1. len = Len(llvm.values) + 1 /\ Len(vs) = len /\ Len(llvm.values) \in Nat
    BY <1>4 DEF len, vs
  <2>2. su.values = ws /\ Len(ws) = len /\ ws[len] = v
    BY <1>5, <1>8, <1>9, <2>1
  <2>3. \A k \in 1 .. Len(llvm.values) : ws[k] = vs[k]
    BY <1>8, <2>1, SMTT(30)
  <2> QED
    BY <2>1, <2>2, <2>3
<1>11. /\ \A k \in 1 .. Len(llvm.values) : Alike(llvm.values[k], vs[k])
       /\ v.kind = kind /\ v.of = i /\ v.size = e.size /\ v.init = NoInitialiser
  BY <1>3, <1>4, <1>6 DEF Added, vs, len
<1>12. Added(llvm, su, kind, i, e.size)
  BY <1>9, <1>10, <1>11 DEF Added
<1> QED
  BY <1>12 DEF su

-----------------------------------------------------------------------------
(* Index spaces.                                                           *)

(* Entities of a wasm module.                                              *)
Entity == [imported : BOOLEAN, name : Names, size : Nat]

(* The types of the variables.                                             *)
ModuleTypes ==
  /\ pos \in Nat
  /\ space \in [Kinds -> Seq(Entity)]
  /\ llvm \in Modules
  /\ vecs \in [Kinds -> Seq(Nat)]
  /\ nonImportFuncs \in Seq(Nat)

(* The imported entities of an index space come first.                     *)
Imps(sp) == { i \in DOMAIN sp : sp[i].imported }
ImportsFirst(sp) ==
  /\ Cardinality(Imps(sp)) \in 0 .. Len(sp)
  /\ Imps(sp) = 1 .. Cardinality(Imps(sp))

(* Value id was made for entity e with index i.                            *)
Stands(st, id, kind, i, e) ==
  /\ id \in 1 .. Len(st.values)
  /\ st.values[id].kind = kind
  /\ st.values[id].of = i
  /\ st.values[id].size = e.size

(* The entities whose index is right: all but the tables of a module that  *)
(* imports some, and of these the imported ones.                           *)
Right(kind, sp, i) == kind # "table" \/ i \in Imps(sp) \/ Imps(sp) = {}
(* The vector vs of the Context and the index space sp in pass ps.         *)
IndexOK(kind, sp, vs, st, ps) ==
  /\ ImportsFirst(sp)
  /\ ps = "imports" => Imps(sp) = 1 .. Len(sp)
  /\ \A j \in 1 .. Len(vs) : vs[j] \in 1 .. Len(st.values)
  /\ Len(sp) <= Len(vs)
  /\ kind # "table" \/ ps = "imports" \/ Imps(sp) = {} => Len(vs) = Len(sp)
  /\ \A i \in 1 .. Len(sp) :
       Right(kind, sp, i) => Stands(st, vs[i], kind, i, sp[i])

(* No value is lost, and none becomes another one's.                       *)
Grown(st, su) ==
  /\ su \in Modules
  /\ Len(st.values) <= Len(su.values)
  /\ \A k \in 1 .. Len(st.values) :
       /\ su.values[k].kind = st.values[k].kind
       /\ su.values[k].of = st.values[k].of
       /\ su.values[k].size = st.values[k].size

(* Other names are no loss                                                 *)
LEMMA KeepsGrown ==
  ASSUME NEW st \in Modules, NEW su, Keeps(st, su)
  PROVE  Grown(st, su)
<1>1. Len(st.values) \in Nat
  BY DEF Modules
<1> QED
  BY <1>1 DEF Keeps, SameValues, Alike, Grown

(* ... and neither is a value more.                                        *)
LEMMA AddedGrown ==
  ASSUME NEW st \in Modules, NEW su, NEW kind, NEW i, NEW size,
         Added(st, su, kind, i, size)
  PROVE  Grown(st, su)
<1>1. Len(st.values) \in Nat
  BY DEF Modules
<1> QED
  BY <1>1 DEF Added, Alike, Grown

(* What stands for an entity goes on to do so.                             *)
LEMMA StandsGrown ==
  ASSUME NEW st \in Modules, NEW su, Grown(st, su), NEW id, NEW kind, NEW i, NEW e,
         Stands(st, id, kind, i, e)
  PROVE  Stands(su, id, kind, i, e)
<1>1. Len(st.values) \in Nat /\ Len(su.values) \in Nat
  BY DEF Modules, Grown
<1> QED
  BY <1>1 DEF Stands, Grown

(* A step that adds nothing to an index space.                             *)
LEMMA IndexKept ==
  ASSUME NEW st \in Modules, NEW su, Grown(st, su), NEW kind, NEW sp, NEW vs,
         NEW ps, NEW qs, qs = "imports" => ps = "imports",
         IndexOK(kind, sp, vs, st, ps)
  PROVE  IndexOK(kind, sp, vs, su, qs)
<1>1. Len(st.values) \in Nat /\ Len(su.values) \in Nat
  BY DEF Modules, Grown
<1>2. \A j \in 1 .. Len(vs) : vs[j] \in 1 .. Len(su.values)
  BY <1>1 DEF IndexOK, Grown
<1>3. ASSUME NEW i \in 1 .. Len(sp), Right(kind, sp, i)
      PROVE  Stands(su, vs[i], kind, i, sp[i])
  BY <1>3, StandsGrown DEF IndexOK
<1> QED
  BY <1>2, <1>3 DEF IndexOK

(* The imported entities of a space with one entity more.                  *)
LEMMA ImpsAppended ==
  ASSUME NEW sp \in Seq(Entity), NEW e \in Entity
  PROVE  Imps(Append(sp, e)) = IF e.imported THEN Imps(sp) \cup {Len(sp) + 1}
                               ELSE Imps(sp)
<1> DEFINE t == Append(sp, e)
<1>1. /\ Len(sp) \in Nat
      /\ DOMAIN sp = 1 .. Len(sp)
      /\ DOMAIN t = 1 .. Len(sp) + 1
      /\ t[Len(sp) + 1] = e
      /\ \A i \in 1 .. Len(sp) : t[i] = sp[i]
  OBVIOUS
<1> HIDE DEF t
<1>2. \A i : i \in Imps(t) <=> i \in 1 .. Len(sp) + 1 /\ t[i].imported
  BY <1>1 DEF Imps
<1>3. \A i : i \in Imps(sp) <=> i \in 1 .. Len(sp) /\ sp[i].imported
  BY <1>1 DEF Imps
<1>4. \A i : i \in 1 .. Len(sp) + 1 <=> i \in 1 .. Len(sp) \/ i = Len(sp) + 1
  BY <1>1
<1>5. CASE e.imported
  <2>1. \A i : i \in Imps(t) <=> i \in Imps(sp) \/ i = Len(sp) + 1
    BY <1>1, <1>2, <1>3, <1>4, <1>5
  <2> QED
    BY <1>5, <2>1 DEF t
<1>6. CASE ~ e.imported
  <2>1. \A i : i \in Imps(t) <=> i \in Imps(sp)
    BY <1>1, <1>2, <1>3, <1>4, <1>6
  <2> QED
    BY <1>6, <2>1 DEF t
<1> QED
  BY <1>5, <1>6

(* Imports come first as long as they are read first.                      *)
LEMMA FirstAppended ==
  ASSUME NEW sp \in Seq(Entity), NEW e \in Entity, ImportsFirst(sp),
         e.imported => Imps(sp) = 1 .. Len(sp)
  PROVE  /\ ImportsFirst(Append(sp, e))
         /\ e.imported => Imps(Append(sp, e)) = 1 .. Len(Append(sp, e))
<1> DEFINE t == Append(sp, e)
<1>1. Len(sp) \in Nat /\ Len(t) = Len(sp) + 1
  OBVIOUS
<1>2. Imps(t) = IF e.imported THEN Imps(sp) \cup {Len(sp) + 1} ELSE Imps(sp)
  BY ImpsAppended
<1> HIDE DEF t
<1>3. CASE e.imported
  <2>1. Imps(t) = 1 .. Len(t)
    BY <1>1, <1>2, <1>3
  <2>2. Cardinality(1 .. Len(t)) = Len(t)
    <3>1. 1 \in Int /\ Len(t) \in Int /\ ~ (1 > Len(t)) /\ Len(t) - 1 + 1 = Len(t)
      BY <1>1
    <3> QED
      BY <3>1, FS_Interval
  <2> QED
    BY <1>1, <2>1, <2>2 DEF ImportsFirst, t
<1>4. CASE ~ e.imported
  BY <1>1, <1>2, <1>4 DEF ImportsFirst, t
<1> QED
  BY <1>3, <1>4

(* An entity more, with its value at the end of the vector.                *)
LEMMA IndexAppended ==
  ASSUME NEW st \in Modules, NEW su, NEW kind, NEW sp \in Seq(Entity),
         NEW vs \in Seq(Nat), NEW e \in Entity, NEW ps,
         Added(st, su, kind, Len(sp) + 1, e.size),
         e.imported <=> ps = "imports",
         IndexOK(kind, sp, vs, st, ps)
  PROVE  IndexOK(kind, Append(sp, e), Append(vs, Len(st.values) + 1), su, ps)
<1> DEFINE t == Append(sp, e)
           n == Len(st.values) + 1
           ws == Append(vs, n)
<1>1. /\ Len(sp) \in Nat /\ Len(t) = Len(sp) + 1 /\ t[Len(sp) + 1] = e
      /\ \A i \in 1 .. Len(sp) : t[i] = sp[i]
  OBVIOUS
<1>2. Len(st.values) \in Nat /\ n \in Nat
  BY DEF Modules
<1>3. /\ Len(vs) \in Nat /\ Len(ws) = Len(vs) + 1 /\ ws[Len(vs) + 1] = n
      /\ \A i \in 1 .. Len(vs) : ws[i] = vs[i]
  BY <1>2
<1>4. /\ ImportsFirst(t)
      /\ ps = "imports" => Imps(t) = 1 .. Len(t)
      /\ Imps(t) = IF e.imported THEN Imps(sp) \cup {Len(sp) + 1} ELSE Imps(sp)
  BY FirstAppended, ImpsAppended DEF IndexOK
<1>5. Grown(st, su) /\ Len(su.values) = n
  BY AddedGrown DEF Added
<1> HIDE DEF t, ws
<1>6. \A j \in 1 .. Len(ws) : ws[j] \in 1 .. Len(su.values)
  BY <1>2, <1>3, <1>5, SMTT(30) DEF IndexOK
<1>7. Len(t) <= Len(ws)
  BY <1>1, <1>3 DEF IndexOK
<1>8. kind # "table" \/ ps = "imports" \/ Imps(t) = {} => Len(ws) = Len(t)
  BY <1>1, <1>3, <1>4 DEF IndexOK
<1>9. ASSUME NEW i \in 1 .. Len(t), Right(kind, t, i)
      PROVE  Stands(su, ws[i], kind, i, t[i])
  <2>1. CASE i <= Len(sp)
    <3>1. i \in 1 .. Len(sp) /\ i \in 1 .. Len(vs)
      BY <1>1, <1>3, <2>1 DEF IndexOK
    <3>2. Right(kind, sp, i)
      <4>1. i # Len(sp) + 1
        BY <1>1, <2>1
      <4> QED
        BY <1>4, <1>9, <4>1 DEF Right
    <3>3. Stands(st, vs[i], kind, i, sp[i])
      BY <3>1, <3>2 DEF IndexOK
    <3>4. Stands(su, vs[i], kind, i, sp[i])
      BY <1>5, <3>3, StandsGrown
    <3> QED
      BY <1>1, <1>3, <3>1, <3>4
  <2>2. CASE ~ (i <= Len(sp))
    <3>1. i = Len(sp) + 1
      BY <1>1, <2>2
    <3>2. Len(vs) = Len(sp)
      <4>1. kind # "table" \/ e.imported \/ Imps(sp) = {}
        <5>1. ~ e.imported => i \notin Imps(sp)
          BY <1>1, <3>1 DEF Imps
        <5> QED
          BY <1>4, <1>9, <5>1 DEF Right
      <4> QED
        BY <4>1 DEF IndexOK
    <3>3. ws[i] = n /\ t[i] = e
      BY <1>1, <1>3, <3>1, <3>2
    <3>4. Stands(su, n, kind, Len(sp) + 1, e)
      BY <1>2, <1>5 DEF Stands, Added
    <3> QED
      BY <3>1, <3>3, <3>4
  <2> QED
    BY <2>1, <2>2
<1>10. IndexOK(kind, t, ws, su, ps)
  BY <1>4, <1>6, <1>7, <1>8, <1>9 DEF IndexOK
<1> QED
  BY <1>10 DEF t, ws

(* An imported table met again.                                            *)
LEMMA IndexRevisited ==
  ASSUME NEW st \in Modules, NEW su, NEW sp \in Seq(Entity), NEW vs \in Seq(Nat),
         NEW ps, NEW i, NEW size, Added(st, su, "table", i, size),
         Imps(sp) # {}, ps # "imports",
         IndexOK("table", sp, vs, st, ps)
  PROVE  IndexOK("table", sp, Append(vs, Len(st.values) + 1), su, ps)
<1> DEFINE n == Len(st.values) + 1
           ws == Append(vs, n)
<1>1. Len(sp) \in Nat /\ Len(st.values) \in Nat /\ n \in Nat
  BY DEF Modules
<1>2. /\ Len(vs) \in Nat /\ Len(ws) = Len(vs) + 1 /\ ws[Len(vs) + 1] = n
      /\ \A j \in 1 .. Len(vs) : ws[j] = vs[j]
  BY <1>1
<1>3. Grown(st, su) /\ Len(su.values) = n
  BY AddedGrown DEF Added
<1> HIDE DEF ws
<1>4. \A j \in 1 .. Len(ws) : ws[j] \in 1 .. Len(su.values)
  <2>1. \A j \in 1 .. Len(vs) : vs[j] \in 1 .. Len(st.values)
    BY DEF IndexOK
  <2>2. ASSUME NEW j \in 1 .. Len(ws)
        PROVE  ws[j] \in 1 .. n
    <3>1. CASE j \in 1 .. Len(vs)
      BY <1>1, <1>2, <2>1, <3>1
    <3>2. CASE j \notin 1 .. Len(vs)
      <4>1. j = Len(vs) + 1
        BY <1>2, <3>2
      <4> QED
        BY <1>1, <1>2, <4>1
    <3> QED
      BY <3>1, <3>2
  <2> QED
    BY <1>3, <2>2
<1>5. Len(sp) <= Len(ws)
  BY <1>1, <1>2 DEF IndexOK
<1>6. ASSUME NEW j \in 1 .. Len(sp), Right("table", sp, j)
      PROVE  Stands(su, ws[j], "table", j, sp[j])
  <2>1. Stands(st, vs[j], "table", j, sp[j])
    BY <1>6 DEF IndexOK
  <2>2. Stands(su, vs[j], "table", j, sp[j])
    BY <1>3, <2>1, StandsGrown
  <2>3. ws[j] = vs[j]
    BY <1>1, <1>2 DEF IndexOK
  <2> QED
    BY <2>2, <2>3
<1>7. IndexOK("table", sp, ws, su, ps)
  BY <1>4, <1>5, <1>6 DEF IndexOK
<1> QED
  BY <1>7 DEF ws

-----------------------------------------------------------------------------
(* The invariant.                                                          *)

(* The functions of the module itself, in their order.                     *)
FuncsOK(sp, vs, fs) ==
  /\ Len(fs) = Len(sp) - Cardinality(Imps(sp))
  /\ \A k \in 1 .. Len(fs) : fs[k] = vs[Cardinality(Imps(sp)) + k]
(* A body is in the function of its index, which is not an import.         *)
BodiesOK(sp, vs, bs) ==
  \A b \in bs : b[1] \in 1 .. Len(sp) \ Imps(sp) /\ b[2] = vs[b[1]]

(* Every kind is in order.                                                 *)
AllIndexOK == \A kind \in Kinds :
                IndexOK(kind, space[kind], vecs[kind], llvm, pass)
(* The invariant of the index spaces.                                      *)
IndexInv ==
  /\ ModuleTypes
  /\ AllIndexOK
  /\ FuncsOK(space["func"], vecs["func"], nonImportFuncs)
  /\ BodiesOK(space["func"], vecs["func"], bodies)

(* The types of one kind.                                                  *)
LEMMA TypesAt ==
  ASSUME ModuleTypes, NEW kind \in Kinds
  PROVE  /\ space[kind] \in Seq(Entity) /\ vecs[kind] \in Seq(Nat)
         /\ DOMAIN space[kind] = 1 .. Len(space[kind])
         /\ Len(space[kind]) \in Nat /\ Len(vecs[kind]) \in Nat
<1>1. space[kind] \in Seq(Entity) /\ vecs[kind] \in Seq(Nat)
  BY DEF ModuleTypes
<1> QED
  BY <1>1

(* Imported in terms of the kind's index space.                            *)
LEMMA ImportedIs ==
  ASSUME NEW kind
  PROVE  Imported(kind) = Imps(space[kind])
BY DEF Imported, Imps

(* Steps that add no entity.                                               *)
LEMMA AllIndexKept ==
  ASSUME IndexInv, Grown(llvm, llvm'), UNCHANGED <<space, vecs, nonImportFuncs>>,
         pos' \in Nat, pass' = "imports" => pass = "imports"
  PROVE  ModuleTypes' /\ AllIndexOK'
<1>1. llvm \in Modules /\ llvm' \in Modules
  BY DEF IndexInv, ModuleTypes, Grown
<1>2. ModuleTypes'
  BY <1>1 DEF IndexInv, ModuleTypes
<1>3. ASSUME NEW kind \in Kinds
      PROVE  IndexOK(kind, space[kind], vecs[kind], llvm', pass')
  <2>1. IndexOK(kind, space[kind], vecs[kind], llvm, pass)
    BY DEF IndexInv, AllIndexOK
  <2> QED
    BY <1>1, <2>1, IndexKept
<1> QED
  BY <1>2, <1>3 DEF AllIndexOK

(* A step that adds no entity and no body.                                 *)
LEMMA IndexInvKept ==
  ASSUME IndexInv, Grown(llvm, llvm'),
         UNCHANGED <<space, vecs, nonImportFuncs, bodies>>,
         pos' \in Nat, pass' = "imports" => pass = "imports"
  PROVE  IndexInv'
<1>1. ModuleTypes' /\ AllIndexOK'
  BY AllIndexKept
<1> QED
  BY <1>1 DEF IndexInv

(* An LLVM module that does not change.                                    *)
LEMMA GrownSelf ==
  ASSUME ModuleTypes
  PROVE  Grown(llvm, llvm)
<1>1. llvm \in Modules
  BY DEF ModuleTypes
<1> QED
  BY <1>1, KeepsSelf, KeepsGrown

(* Steps that add one.                                                     *)
LEMMA AllIndexRegistered ==
  ASSUME IndexInv, NEW kind \in Kinds, NEW e \in Entity,
         e.imported <=> pass = "imports",
         pass' = pass, pos' \in Nat, nonImportFuncs' \in Seq(Nat),
         Reveal(kind, e), Push(kind),
         Added(llvm, llvm', kind, Len(space[kind]) + 1, e.size)
  PROVE  ModuleTypes' /\ AllIndexOK'
<1>1. llvm \in Modules /\ llvm' \in Modules /\ Grown(llvm, llvm')
  BY AddedGrown DEF IndexInv, ModuleTypes, Added
<1>2. Len(llvm.values) \in Nat
  BY <1>1 DEF Modules
<1>3. space \in [Kinds -> Seq(Entity)] /\ vecs \in [Kinds -> Seq(Nat)]
  BY DEF IndexInv, ModuleTypes
<1>4. ASSUME NEW k \in Kinds
      PROVE  /\ space'[k] = IF k = kind THEN Append(space[k], e) ELSE space[k]
             /\ vecs'[k] = IF k = kind THEN Append(vecs[k], Len(llvm.values) + 1)
                           ELSE vecs[k]
  BY <1>3 DEF Reveal, Push
<1>5. ModuleTypes'
  <2>1. Append(space[kind], e) \in Seq(Entity)
    BY <1>3
  <2>2. Append(vecs[kind], Len(llvm.values) + 1) \in Seq(Nat)
    BY <1>2, <1>3
  <2>3. space' \in [Kinds -> Seq(Entity)] /\ vecs' \in [Kinds -> Seq(Nat)]
    BY <1>3, <2>1, <2>2 DEF Reveal, Push
  <2> QED
    BY <1>1, <2>3 DEF ModuleTypes
<1>6. ASSUME NEW k \in Kinds
      PROVE  IndexOK(k, space'[k], vecs'[k], llvm', pass')
  <2>1. IndexOK(k, space[k], vecs[k], llvm, pass)
    BY DEF IndexInv, AllIndexOK
  <2>2. CASE k = kind
    <3>1. space[kind] \in Seq(Entity) /\ vecs[kind] \in Seq(Nat)
      BY <1>3
    <3>2. IndexOK(kind, Append(space[kind], e),
                  Append(vecs[kind], Len(llvm.values) + 1), llvm', pass)
      BY <1>1, <2>1, <2>2, <3>1, IndexAppended
    <3> QED
      BY <1>4, <2>2, <3>2
  <2>3. CASE k # kind
    <3>1. IndexOK(k, space[k], vecs[k], llvm', pass)
      BY <1>1, <2>1, IndexKept
    <3> QED
      BY <1>4, <2>3, <3>1
  <2> QED
    BY <2>2, <2>3
<1> QED
  BY <1>5, <1>6 DEF AllIndexOK

(* A definition is an entity that is not imported                          *)
LEMMA EntityFacts ==
  ASSUME NEW kind \in Kinds, NEW e \in Entities(kind)
  PROVE  e \in Entity /\ e.imported = FALSE
<1>1. FuncNames \subseteq Names /\ GlobalNames \subseteq Names /\ Empty \in Names
  BY GivenFacts, EmptyFacts DEF Given
<1>2. e.name \in Names
  BY <1>1 DEF Entities
<1>3. e.size \in Nat
  <2>1. e.size \in IF kind = "table" THEN TableSizes ELSE {0}
    BY DEF Entities
  <2>2. CASE kind = "table"
    BY <2>1, <2>2, TablesAssumption
  <2>3. CASE kind # "table"
    BY <2>1, <2>3
  <2> QED
    BY <2>2, <2>3
<1>4. e.imported = FALSE
  BY DEF Entities
<1>5. e = [imported |-> e.imported, name |-> e.name, size |-> e.size]
  BY DEF Entities
<1> QED
  BY <1>2, <1>3, <1>4, <1>5 DEF Entity

(* ... and an import is one that is.                                       *)
LEMMA ImportAsFacts ==
  ASSUME NEW e \in Entity, NEW link \in LinkNames
  PROVE  ImportAs(e, link) \in Entity /\ ImportAs(e, link).imported = TRUE
<1>1. link \in Names
  BY GivenFacts DEF Given
<1> QED
  BY <1>1 DEF ImportAs, Entity

-----------------------------------------------------------------------------
(* Each step keeps the invariant.                                          *)

(* No value gets an initialiser.                                           *)
InitsKept(st, su) ==
  \A k \in 1 .. Len(su.values) :
    \/ su.values[k].init = {}
    \/ k \in 1 .. Len(st.values) /\ su.values[k].init = st.values[k].init

(* A new value has no initialiser                                          *)
LEMMA AddedInits ==
  ASSUME NEW st \in Modules, NEW su, NEW kind, NEW i, NEW size,
         Added(st, su, kind, i, size)
  PROVE  InitsKept(st, su)
<1>1. Len(st.values) \in Nat
  BY DEF Modules
<1> QED
  BY <1>1 DEF Added, Alike, InitsKept, NoInitialiser

(* ... and a name is none.                                                 *)
LEMMA KeepsInits ==
  ASSUME NEW st \in Modules, NEW su, Keeps(st, su)
  PROVE  InitsKept(st, su)
BY DEF Keeps, SameValues, Alike, InitsKept

(* An import.                                                              *)
LEMMA ImportStep ==
  ASSUME IndexInv, NEW kind \in Kinds, NEW e \in Entities(kind),
         NEW link \in LinkNames, Import(kind, e, link)
  PROVE  IndexInv' /\ InitsKept(llvm, llvm')
<1> DEFINE i == Len(space[kind]) + 1
           field == ImportAs(e, link)
<1>1. /\ field \in Entity /\ field.imported = TRUE
  BY EntityFacts, ImportAsFacts
<1> HIDE DEF field
<1>2. /\ pass = "imports" /\ UNCHANGED <<pass, pos, nonImportFuncs, bodies>>
      /\ Reveal(kind, field) /\ Push(kind)
      /\ llvm' = Registered(kind, i, field, TRUE)
  BY DEF Import, field
<1>3. ModuleTypes /\ i \in Nat
  BY TypesAt DEF IndexInv
<1>4. Added(llvm, llvm', kind, i, field.size)
  <2>1. /\ llvm \in Modules /\ vecs \in [Kinds -> Seq(Nat)]
        /\ field.name \in Names /\ field.size \in Nat
    BY <1>1, <1>3 DEF ModuleTypes, Entity
  <2> HIDE DEF i
  <2>2. Added(llvm, Registered(kind, i, field, TRUE), kind, i, field.size)
    BY <1>3, <2>1, RegisteredAdds
  <2> QED
    BY <1>2, <2>2
<1>5. ModuleTypes' /\ AllIndexOK'
  <2>1. pos' \in Nat /\ nonImportFuncs' \in Seq(Nat)
    BY <1>2, <1>3 DEF ModuleTypes
  <2> QED
    BY <1>1, <1>2, <1>4, <2>1, AllIndexRegistered
<1>6. InitsKept(llvm, llvm')
  BY <1>3, <1>4, AddedInits DEF ModuleTypes
<1>7. CASE kind # "func"
  <2>1. "func" \in Kinds /\ space'["func"] = space["func"] /\ vecs'["func"] = vecs["func"]
    BY <1>2, <1>3, <1>7 DEF Reveal, Push, ModuleTypes, Kinds
  <2> QED
    BY <1>2, <1>5, <1>6, <2>1 DEF IndexInv
<1>8. CASE kind = "func"
  <2> DEFINE sp == space["func"]
             tp == space'["func"]
  <2>1. "func" \in Kinds
    BY DEF Kinds
  <2>2. /\ Imps(sp) = 1 .. Len(sp) /\ Cardinality(Imps(sp)) = Len(sp)
        /\ Len(sp) \in Nat
    <3>1. /\ IndexOK("func", sp, vecs["func"], llvm, pass)
          /\ Len(sp) \in Nat
      BY <1>3, <2>1, TypesAt DEF IndexInv, AllIndexOK
    <3> HIDE DEF sp
    <3>2. Imps(sp) = 1 .. Len(sp) /\ 1 .. Cardinality(Imps(sp)) = 1 .. Len(sp)
          /\ Cardinality(Imps(sp)) \in 0 .. Len(sp)
      BY <1>2, <3>1 DEF IndexOK, ImportsFirst
    <3> QED
      BY <3>1, <3>2
  <2>3. /\ Imps(tp) = 1 .. Len(tp) /\ Cardinality(Imps(tp)) = Len(tp)
        /\ Len(tp) \in Nat
    <3>1. /\ IndexOK("func", tp, vecs'["func"], llvm', pass')
          /\ Len(tp) \in Nat
      <4>1. tp \in Seq(Entity)
        BY <1>5, <2>1 DEF ModuleTypes
      <4> QED
        BY <1>5, <2>1, <4>1 DEF AllIndexOK
    <3> HIDE DEF tp
    <3>2. Imps(tp) = 1 .. Len(tp) /\ 1 .. Cardinality(Imps(tp)) = 1 .. Len(tp)
          /\ Cardinality(Imps(tp)) \in 0 .. Len(tp)
      BY <1>2, <3>1 DEF IndexOK, ImportsFirst
    <3> QED
      BY <3>1, <3>2
  <2> HIDE DEF sp, tp
  <2>4. Len(nonImportFuncs) = 0 /\ bodies = {}
    BY <2>2 DEF IndexInv, FuncsOK, BodiesOK, sp
  <2>5. FuncsOK(tp, vecs'["func"], nonImportFuncs') /\ BodiesOK(tp, vecs'["func"], bodies')
    BY <1>2, <2>3, <2>4 DEF FuncsOK, BodiesOK
  <2> QED
    BY <1>5, <1>6, <2>5 DEF IndexInv, tp
<1> QED
  BY <1>7, <1>8

(* The loops over globals and tables meet an import again.                 *)
LEMMA RevisitStep ==
  ASSUME IndexInv, NEW kind \in Kinds, Revisit(kind)
  PROVE  IndexInv' /\ InitsKept(llvm, llvm')
<1> DEFINE n == Cardinality(Imps(space[kind]))
           e == space[kind][pos + 1]
<1>1. /\ pass = kind /\ kind \in {"global", "table"} /\ pos < n
      /\ pos' = pos + 1
      /\ UNCHANGED <<pass, space, nonImportFuncs, bodies>>
  BY ImportedIs DEF Revisit
<1>2. ModuleTypes /\ pos \in Nat /\ pos' \in Nat
  BY <1>1 DEF IndexInv, ModuleTypes
<1>3. IndexOK(kind, space[kind], vecs[kind], llvm, pass)
  BY DEF IndexInv, AllIndexOK
<1>4. pass # "imports"
  BY <1>1
<1>5. CASE Deduplicated(kind)
  <2>1. UNCHANGED <<llvm, vecs>>
    BY <1>5 DEF Revisit
  <2>2. IndexInv'
    BY <1>1, <1>2, <2>1, GrownSelf, IndexInvKept
  <2>3. InitsKept(llvm, llvm')
    BY <2>1 DEF InitsKept
  <2> QED
    BY <2>2, <2>3
<1>6. CASE ~ Deduplicated(kind)
  <2>1. kind = "table"
    BY <1>1, <1>6 DEF Deduplicated
  <2>2. llvm' = Registered(kind, pos + 1, e, FALSE) /\ Push(kind)
    BY <1>6 DEF Revisit
  <2>3. e \in Entity /\ Imps(space[kind]) # {} /\ space[kind] \in Seq(Entity)
        /\ vecs[kind] \in Seq(Nat)
    <3>1. n \in 0 .. Len(space[kind]) /\ Imps(space[kind]) = 1 .. n
      BY <1>3 DEF IndexOK, ImportsFirst
    <3>2. /\ space[kind] \in Seq(Entity) /\ vecs[kind] \in Seq(Nat)
          /\ Len(space[kind]) \in Nat
      BY <1>2, TypesAt
    <3> HIDE DEF n
    <3>3. pos + 1 \in 1 .. n /\ pos + 1 \in 1 .. Len(space[kind])
      BY <1>1, <1>2, <3>1, <3>2
    <3>4. Imps(space[kind]) # {}
      BY <3>1, <3>3
    <3> QED
      BY <3>2, <3>3, <3>4
  <2> HIDE DEF e, n
  <2>4. Added(llvm, llvm', kind, pos + 1, e.size)
    <3>1. /\ llvm \in Modules /\ vecs \in [Kinds -> Seq(Nat)]
          /\ e.name \in Names /\ e.size \in Nat /\ pos + 1 \in Nat
      BY <1>2, <2>3 DEF ModuleTypes, Entity
    <3>2. Added(llvm, Registered(kind, pos + 1, e, FALSE), kind, pos + 1, e.size)
      BY <3>1, RegisteredAdds
    <3> QED
      BY <2>2, <3>2
  <2>5. llvm \in Modules /\ llvm' \in Modules /\ Grown(llvm, llvm')
    BY <1>2, <2>4, AddedGrown DEF ModuleTypes, Added
  <2>6. Len(llvm.values) + 1 \in Nat
    BY <2>5 DEF Modules
  <2>7. /\ vecs' \in [Kinds -> Seq(Nat)]
        /\ \A k \in Kinds : vecs'[k] = IF k = kind
                                       THEN Append(vecs[k], Len(llvm.values) + 1)
                                       ELSE vecs[k]
    <3>1. Append(vecs[kind], Len(llvm.values) + 1) \in Seq(Nat)
      BY <2>3, <2>6
    <3>2. vecs \in [Kinds -> Seq(Nat)]
      BY <1>2 DEF ModuleTypes
    <3> QED
      BY <2>2, <3>1, <3>2 DEF Push
  <2>8. ASSUME NEW k \in Kinds
        PROVE  IndexOK(k, space[k], vecs'[k], llvm', pass)
    <3>1. CASE k = kind
      <4>1. IndexOK("table", space[kind], Append(vecs[kind], Len(llvm.values) + 1),
                    llvm', pass)
        BY <1>3, <1>4, <2>1, <2>3, <2>4, <2>5, IndexRevisited
      <4> QED
        BY <2>1, <2>7, <3>1, <4>1
    <3>2. CASE k # kind
      <4>1. IndexOK(k, space[k], vecs[k], llvm, pass)
        BY DEF IndexInv, AllIndexOK
      <4>2. IndexOK(k, space[k], vecs[k], llvm', pass)
        BY <2>5, <4>1, IndexKept
      <4> QED
        BY <2>7, <3>2, <4>2
    <3> QED
      BY <3>1, <3>2
  <2>9. ModuleTypes' /\ AllIndexOK'
    BY <1>1, <1>2, <2>5, <2>7, <2>8 DEF ModuleTypes, AllIndexOK
  <2>10. vecs'["func"] = vecs["func"]
    BY <2>1, <2>7 DEF Kinds
  <2>11. InitsKept(llvm, llvm')
    BY <2>4, <2>5, AddedInits
  <2> QED
    BY <1>1, <2>9, <2>10, <2>11 DEF IndexInv
<1> QED
  BY <1>5, <1>6

(* A global, memory or table of the module itself.                         *)
LEMMA DefineStep ==
  ASSUME IndexInv, NEW kind \in Kinds, NEW e \in Entities(kind), Define(kind, e)
  PROVE  IndexInv' /\ InitsKept(llvm, llvm')
<1> DEFINE i == Len(space[kind]) + 1
<1>1. e \in Entity /\ e.imported = FALSE
  BY EntityFacts
<1>2. /\ pass = kind /\ kind # "func"
      /\ UNCHANGED <<pass, pos, nonImportFuncs, bodies>>
      /\ Reveal(kind, e) /\ Push(kind)
      /\ llvm' = Registered(kind, i, e, FALSE)
  BY DEF Define, Definable
<1>3. ModuleTypes /\ i \in Nat /\ pass # "imports"
  BY <1>2, TypesAt DEF IndexInv, Kinds
<1>4. Added(llvm, llvm', kind, i, e.size)
  <2>1. /\ llvm \in Modules /\ vecs \in [Kinds -> Seq(Nat)]
        /\ e.name \in Names /\ e.size \in Nat
    BY <1>1, <1>3 DEF ModuleTypes, Entity
  <2> HIDE DEF i
  <2>2. Added(llvm, Registered(kind, i, e, FALSE), kind, i, e.size)
    BY <1>3, <2>1, RegisteredAdds
  <2> QED
    BY <1>2, <2>2
<1>5. ModuleTypes' /\ AllIndexOK'
  <2>1. pos' \in Nat /\ nonImportFuncs' \in Seq(Nat)
    BY <1>2, <1>3 DEF ModuleTypes
  <2> QED
    BY <1>1, <1>2, <1>3, <1>4, <2>1, AllIndexRegistered
<1>6. "func" \in Kinds /\ space'["func"] = space["func"] /\ vecs'["func"] = vecs["func"]
  BY <1>2, <1>3 DEF Reveal, Push, ModuleTypes, Kinds
<1>7. InitsKept(llvm, llvm')
  BY <1>3, <1>4, AddedInits DEF ModuleTypes
<1> QED
  BY <1>2, <1>5, <1>6, <1>7 DEF IndexInv

(* The process ends.                                                       *)
LEMMA StopStep ==
  ASSUME IndexInv, NEW how, how # "imports", Stop(how)
  PROVE  IndexInv'
<1>1. UNCHANGED <<pos, space, llvm, vecs, nonImportFuncs, bodies>> /\ pass' = how
  BY DEF Stop
<1>2. Grown(llvm, llvm') /\ pos' \in Nat
  BY <1>1, GrownSelf DEF IndexInv, ModuleTypes
<1> QED
  BY <1>1, <1>2, IndexInvKept

(* A function of the module itself: its index and its turn for a body.     *)
LEMMA DeclareFuncStep ==
  ASSUME IndexInv, NEW e \in Entities("func"), DeclareFunc(e)
  PROVE  IndexInv' /\ InitsKept(llvm, llvm')
<1> DEFINE i == Len(space["func"]) + 1
           st == Registered("func", i, e, FALSE)
           id == Len(st.values)
           su == IF "FixNames" \in opts THEN FixedNames(st, id) ELSE MainExternal(st, id)
<1>1. "func" \in Kinds /\ "func" # "imports" /\ "assert" # "imports"
  BY DEF Kinds
<1>2. e \in Entity /\ e.imported = FALSE
  BY <1>1, EntityFacts
<1>3. ModuleTypes /\ i \in Nat /\ Len(space["func"]) \in Nat
  BY <1>1, TypesAt DEF IndexInv
<1>4. CASE FrontAsserts(st, id)
  <2>1. Stop("assert")
    BY <1>4 DEF DeclareFunc
  <2>2. InitsKept(llvm, llvm')
    BY <2>1 DEF Stop, InitsKept
  <2> QED
    BY <1>1, <2>1, <2>2, StopStep
<1>5. CASE ~ FrontAsserts(st, id)
  <2>1. /\ pass = "func" /\ Reveal("func", e) /\ Push("func")
        /\ llvm' = su
        /\ nonImportFuncs' = Append(nonImportFuncs, id)
        /\ UNCHANGED <<pass, pos, bodies>>
    BY <1>5 DEF DeclareFunc, Definable
  <2> HIDE DEF i
  <2>2. Added(llvm, st, "func", i, e.size)
    <3>1. /\ llvm \in Modules /\ vecs \in [Kinds -> Seq(Nat)]
          /\ e.name \in Names /\ e.size \in Nat
      BY <1>2, <1>3 DEF ModuleTypes, Entity
    <3>2. Added(llvm, Registered("func", i, e, FALSE), "func", i, e.size)
      BY <1>1, <1>3, <3>1, RegisteredAdds
    <3> QED
      BY <3>2
  <2> HIDE DEF st
  <2>3. /\ st \in Modules /\ llvm \in Modules /\ Len(llvm.values) \in Nat
        /\ id = Len(llvm.values) + 1 /\ id \in 1 .. Len(st.values)
    <3>1. st \in Modules /\ llvm \in Modules
      BY <1>3, <2>2 DEF Added, ModuleTypes
    <3>2. id = Len(llvm.values) + 1 /\ Len(llvm.values) \in Nat
      BY <2>2, <3>1 DEF Added, Modules
    <3> QED
      BY <3>1, <3>2
  <2> HIDE DEF id
  <2>4. Keeps(st, su)
    BY <2>3, FixedNamesKeeps, MainExternalKeeps
  <2>5. Added(llvm, llvm', "func", i, e.size)
    BY <2>1, <2>2, <2>3, <2>4, AddedKeeps
  <2>6. nonImportFuncs \in Seq(Nat) /\ nonImportFuncs' \in Seq(Nat) /\ pos' \in Nat
    <3>1. nonImportFuncs \in Seq(Nat) /\ id \in Nat /\ pos \in Nat
      BY <1>3, <2>3 DEF ModuleTypes
    <3> QED
      BY <2>1, <3>1
  <2>7. ModuleTypes' /\ AllIndexOK'
    <3>1. e.imported <=> pass = "imports"
      BY <1>2, <2>1
    <3>2. /\ pass' = pass
          /\ Added(llvm, llvm', "func", Len(space["func"]) + 1, e.size)
      BY <2>1, <2>5 DEF i
    <3> QED
      BY <1>1, <1>2, <2>1, <2>6, <3>1, <3>2, AllIndexRegistered
  <2> DEFINE sp == space["func"]
             vs == vecs["func"]
             n == Cardinality(Imps(sp))
             m == Len(sp)
  <2>8. /\ sp \in Seq(Entity) /\ vs \in Seq(Nat) /\ Len(vs) = m /\ n \in 0 .. m
        /\ m \in Nat
    <3>1. sp \in Seq(Entity) /\ vs \in Seq(Nat) /\ IndexOK("func", sp, vs, llvm, pass)
      BY <1>1, <1>3, TypesAt DEF IndexInv, AllIndexOK
    <3> QED
      BY <3>1 DEF IndexOK, ImportsFirst
  <2>9. space'["func"] = Append(sp, e) /\ vecs'["func"] = Append(vs, id)
    BY <1>1, <1>3, <2>1, <2>3 DEF Reveal, Push, ModuleTypes
  <2>10. Imps(Append(sp, e)) = Imps(sp)
    BY <1>2, <2>8, ImpsAppended
  <2>11. /\ Len(nonImportFuncs) = m - n
         /\ \A k \in 1 .. Len(nonImportFuncs) : nonImportFuncs[k] = vs[n + k]
         /\ \A b \in bodies : b[1] \in 1 .. m \ Imps(sp) /\ b[2] = vs[b[1]]
    BY DEF IndexInv, FuncsOK, BodiesOK
  <2> HIDE DEF n, m
  <2> DEFINE fs == Append(nonImportFuncs, id)
             ws == Append(vs, id)
             tp == Append(sp, e)
  <2>12. /\ Len(fs) = m - n + 1 /\ fs[m - n + 1] = id
         /\ \A k \in 1 .. m - n : fs[k] = vs[n + k]
    <3> DEFINE l == Len(nonImportFuncs)
    <3>1. l = m - n /\ \A k \in 1 .. l : nonImportFuncs[k] = vs[n + k]
      BY <2>11
    <3>2. /\ Len(fs) = l + 1 /\ fs[l + 1] = id
          /\ \A k \in 1 .. l : fs[k] = nonImportFuncs[k]
      BY <2>3, <2>6
    <3> HIDE DEF l, fs
    <3> QED
      BY <3>1, <3>2
  <2>13. /\ Len(tp) = m + 1 /\ ws[m + 1] = id
         /\ \A k \in 1 .. m : ws[k] = vs[k]
    BY <2>3, <2>8 DEF m
  <2> HIDE DEF fs, ws, tp
  <2>14. FuncsOK(tp, ws, fs)
    <3>1. Cardinality(Imps(tp)) = n
      BY <2>10 DEF tp, n
    <3>2. \A k \in 1 .. m - n + 1 : fs[k] = ws[n + k]
      <4>1. ASSUME NEW k \in 1 .. m - n + 1
            PROVE  fs[k] = ws[n + k]
        <5>1. CASE k = m - n + 1
          BY <2>8, <2>12, <2>13, <5>1
        <5>2. CASE k # m - n + 1
          <6>1. k \in 1 .. m - n /\ n + k \in 1 .. m
            BY <2>8, <5>2
          <6> QED
            BY <2>12, <2>13, <6>1
        <5> QED
          BY <5>1, <5>2
      <4> QED
        BY <4>1
    <3>3. Len(fs) = Len(tp) - n
      BY <2>8, <2>12, <2>13
    <3> QED
      BY <2>12, <3>1, <3>2, <3>3 DEF FuncsOK
  <2>15. BodiesOK(tp, ws, bodies)
    <3>1. ASSUME NEW b \in bodies
          PROVE  b[1] \in 1 .. Len(tp) \ Imps(tp) /\ b[2] = ws[b[1]]
      BY <2>8, <2>10, <2>11, <2>13 DEF tp
    <3> QED
      BY <3>1 DEF BodiesOK
  <2>16. InitsKept(llvm, llvm')
    BY <2>3, <2>5, AddedInits
  <2> QED
    BY <2>1, <2>7, <2>9, <2>14, <2>15, <2>16 DEF IndexInv, tp, ws, fs
<1> QED
  BY <1>4, <1>5

(* A body is put into the next function that waits for one.                *)
LEMMA VisitFuncStep ==
  ASSUME IndexInv, VisitFunc
  PROVE  IndexInv'
<1> DEFINE sp == space["func"]
           vs == vecs["func"]
           n == Cardinality(Imps(sp))
           fs == nonImportFuncs
<1>1. /\ pos < Len(fs) /\ pos' = pos + 1
      /\ bodies' = bodies \cup {<<n + (pos + 1), fs[pos + 1]>>}
      /\ UNCHANGED <<pass, space, llvm, vecs, nonImportFuncs>>
  BY ImportedIs DEF VisitFunc, FuncField
<1>2. ModuleTypes /\ pos \in Nat /\ pos' \in Nat
  BY <1>1 DEF IndexInv, ModuleTypes
<1>3. ModuleTypes' /\ AllIndexOK'
  BY <1>1, <1>2, GrownSelf, AllIndexKept
<1>4. "func" \in Kinds
  BY DEF Kinds
<1>5. /\ Len(sp) \in Nat /\ n \in 0 .. Len(sp) /\ Imps(sp) = 1 .. n
  <2>1. IndexOK("func", sp, vs, llvm, pass) /\ Len(sp) \in Nat
    BY <1>2, <1>4, TypesAt DEF IndexInv, AllIndexOK
  <2> QED
    BY <2>1 DEF IndexOK, ImportsFirst
<1>6. /\ Len(fs) = Len(sp) - n
      /\ \A k \in 1 .. Len(fs) : fs[k] = vs[n + k]
      /\ BodiesOK(sp, vs, bodies)
  BY DEF IndexInv, FuncsOK
<1> HIDE DEF n, sp, vs, fs
<1>7. /\ n + (pos + 1) \in 1 .. Len(sp) /\ n + (pos + 1) \notin 1 .. n
      /\ fs[pos + 1] = vs[n + (pos + 1)]
  BY <1>1, <1>2, <1>5, <1>6
<1>8. BodiesOK(sp, vs, bodies')
  <2>1. ASSUME NEW b \in bodies'
        PROVE  b[1] \in 1 .. Len(sp) \ Imps(sp) /\ b[2] = vs[b[1]]
    <3>1. CASE b \in bodies
      BY <1>6, <3>1 DEF BodiesOK
    <3>2. CASE b = <<n + (pos + 1), fs[pos + 1]>>
      BY <1>5, <1>7, <3>2
    <3> QED
      BY <1>1, <2>1, <3>1, <3>2
  <2> QED
    BY <2>1 DEF BodiesOK
<1> QED
  BY <1>1, <1>3, <1>8 DEF IndexInv, sp, vs

(* What an index finds is a value of the module.                           *)
LEMMA OperandFacts ==
  ASSUME IndexInv, NEW kind \in Kinds, NEW i \in 1 .. Len(vecs[kind])
  PROVE  llvm \in Modules /\ Operand(kind, i) \in 1 .. Len(llvm.values)
BY DEF IndexInv, AllIndexOK, IndexOK, ModuleTypes, Operand

(* So is what the index of an entity finds.                                *)
LEMMA EntityOperand ==
  ASSUME IndexInv, NEW kind \in Kinds, NEW i \in DOMAIN space[kind]
  PROVE  llvm \in Modules /\ Operand(kind, i) \in 1 .. Len(llvm.values)
<1>1. /\ DOMAIN space[kind] = 1 .. Len(space[kind])
      /\ Len(space[kind]) \in Nat /\ Len(vecs[kind]) \in Nat
  BY TypesAt DEF IndexInv
<1>2. Len(space[kind]) <= Len(vecs[kind])
  BY DEF IndexInv, AllIndexOK, IndexOK
<1>3. i \in 1 .. Len(vecs[kind])
  BY <1>1, <1>2
<1> QED
  BY <1>3, OperandFacts

(* An export.                                                              *)
LEMMA ExportStep ==
  ASSUME IndexInv, NEW kind \in Kinds, NEW i \in DOMAIN space[kind],
         NEW n \in ExportNames, Export(kind, i, n)
  PROVE  IndexInv' /\ InitsKept(llvm, llvm')
<1> DEFINE id == Operand(kind, i)
           st == External(llvm, id)
<1>1. /\ UNCHANGED <<pass, pos, space, vecs, nonImportFuncs, bodies>>
      /\ llvm' \in {llvm, st, ExportedName(st, id, n)}
  BY DEF Export
<1>2. llvm \in Modules /\ id \in 1 .. Len(llvm.values) /\ n \in Names
  BY EntityOperand, GivenFacts DEF Given
<1> HIDE DEF id
<1>3. Keeps(llvm, st)
  BY <1>2, ExternalKeeps
<1> HIDE DEF st
<1>4. st \in Modules /\ id \in 1 .. Len(st.values)
  BY <1>2, <1>3, KeepsDomain
<1>5. Keeps(llvm, llvm) /\ Keeps(llvm, ExportedName(st, id, n))
  BY <1>2, <1>3, <1>4, KeepsSelf, ExportedNameKeeps, KeepsTrans
<1>6. Grown(llvm, llvm') /\ pos' \in Nat
  BY <1>1, <1>2, <1>3, <1>5, KeepsGrown DEF IndexInv, ModuleTypes
<1>7. InitsKept(llvm, llvm')
  BY <1>1, <1>2, <1>3, <1>5, KeepsInits
<1> QED
  BY <1>1, <1>6, <1>7, IndexInvKept

(* A default name.                                                         *)
LEMMA DefaultNameStep ==
  ASSUME IndexInv, DefaultName
  PROVE  IndexInv' /\ InitsKept(llvm, llvm')
<1> DEFINE id == vecs["func"][pos + 1]
           m == Numbered("func_", pos)
<1>1. /\ pos < Len(vecs["func"]) /\ pos' = pos + 1
      /\ UNCHANGED <<pass, space, vecs, nonImportFuncs, bodies>>
      /\ llvm' \in {llvm, SetName(llvm, id, m)}
  BY DEF DefaultName
<1>2. pos \in Nat /\ ModuleTypes
  BY DEF IndexInv, ModuleTypes
<1>3. "func" \in Kinds /\ "func_" \in Texts
  BY DEF Kinds, Texts
<1>4. m \in Names
  BY <1>2, <1>3, NumberedFacts
<1>5. llvm \in Modules /\ id \in 1 .. Len(llvm.values)
  <2>1. pos + 1 \in 1 .. Len(vecs["func"])
    BY <1>1, <1>2, <1>3, TypesAt
  <2> QED
    BY <1>3, <2>1, OperandFacts DEF Operand
<1> HIDE DEF id, m
<1>6. Keeps(llvm, llvm) /\ Keeps(llvm, SetName(llvm, id, m))
  BY <1>4, <1>5, KeepsSelf, SetNameKeeps
<1>7. Grown(llvm, llvm') /\ pos' \in Nat
  BY <1>1, <1>2, <1>5, <1>6, KeepsGrown
<1>8. InitsKept(llvm, llvm')
  BY <1>1, <1>5, <1>6, KeepsInits
<1> QED
  BY <1>1, <1>7, <1>8, IndexInvKept

(* The next pass.                                                          *)
LEMMA NextPassStep ==
  ASSUME IndexInv, NextPass
  PROVE  IndexInv'
<1>1. /\ pos' = 0
      /\ UNCHANGED <<space, llvm, vecs, nonImportFuncs, bodies>>
      /\ \E k \in 1 .. Len(Passes) - 1 : pass' = Passes[k + 1]
  BY DEF NextPass
<1>2. pass' # "imports"
  BY <1>1 DEF Passes
<1>3. Grown(llvm, llvm') /\ pos' \in Nat
  BY <1>1, GrownSelf DEF IndexInv
<1> QED
  BY <1>1, <1>2, <1>3, IndexInvKept

-----------------------------------------------------------------------------
(* Element segments.                                                       *)

(* The values in S get the initialiser new.                                *)
Refilled(st, su, S, new) ==
  /\ su \in Modules
  /\ Len(su.values) = Len(st.values)
  /\ \A k \in 1 .. Len(st.values) :
       /\ su.values[k].kind = st.values[k].kind
       /\ su.values[k].of = st.values[k].of
       /\ su.values[k].size = st.values[k].size
       /\ su.values[k].name = st.values[k].name
       /\ su.values[k].external = st.values[k].external
       /\ su.values[k].init = IF k \in S THEN new ELSE st.values[k].init

(* Those that replaceAllUsesWith reaches, or the table alone.              *)
Reached(id) ==
  IF HasInitializer(id)
  THEN { k \in 1 .. Len(llvm.values) :
           /\ llvm.values[k].kind = "table"
           /\ llvm.values[k].init = llvm.values[id].init }
  ELSE {id}

(* The parts of an element segment.                                        *)
LEMMA SegmentFacts ==
  ASSUME IndexInv, NEW seg \in Segments
  PROVE  /\ seg.table \in 1 .. Len(space["table"])
         /\ seg.offset \in Nat
         /\ Len(seg.funcs) \in Nat
         /\ DOMAIN seg.funcs = 1 .. Len(seg.funcs)
         /\ \A k \in 1 .. Len(seg.funcs) : seg.funcs[k] \in 1 .. Len(space["func"])
<1>1. "func" \in Kinds /\ "table" \in Kinds
  BY DEF Kinds
<1>2. /\ DOMAIN space["table"] = 1 .. Len(space["table"])
      /\ DOMAIN space["func"] = 1 .. Len(space["func"])
  BY <1>1, TypesAt DEF IndexInv
<1>3. PICK t \in DOMAIN space["table"], o \in Offsets,
           fs \in UNION { [1 .. n -> DOMAIN space["func"]] : n \in 0 .. MaxSeg } :
        seg = [table |-> t, offset |-> o, funcs |-> fs]
  BY DEF Segments
<1>4. PICK n \in 0 .. MaxSeg : fs \in [1 .. n -> DOMAIN space["func"]]
  OBVIOUS
<1>5. n \in Nat /\ o \in Nat
  BY TablesAssumption
<1>6. DOMAIN fs = 1 .. n /\ fs \in Seq(DOMAIN space["func"]) /\ Len(fs) = n
  BY <1>4, <1>5
<1>7. \A k \in 1 .. n : fs[k] \in DOMAIN space["func"]
  BY <1>4
<1>8. seg.table = t /\ seg.offset = o /\ seg.funcs = fs
  BY <1>3
<1> QED
  BY <1>2, <1>5, <1>6, <1>7, <1>8

(* A segment makes a list of values.                                       *)
LEMMA BufferFacts ==
  ASSUME IndexInv, NEW seg \in Segments, NEW size \in Nat
  PROVE  Buffer(size, seg) \in Seq(Nat)
<1>1. ASSUME NEW k \in 1 .. size
      PROVE  (LET i == k - 1
              IN  IF i >= seg.offset /\ i < seg.offset + Len(seg.funcs)
                  THEN Operand("func", seg.funcs[i - seg.offset + 1]) ELSE 0) \in Nat
  <2> DEFINE i == k - 1
             f == seg.funcs[i - seg.offset + 1]
  <2>1. CASE i >= seg.offset /\ i < seg.offset + Len(seg.funcs)
    <3>1. i - seg.offset + 1 \in 1 .. Len(seg.funcs)
      BY <2>1, SegmentFacts
    <3>2. f \in 1 .. Len(space["func"])
      BY <3>1, SegmentFacts
    <3>3. "func" \in Kinds /\ DOMAIN space["func"] = 1 .. Len(space["func"])
      BY TypesAt DEF IndexInv, Kinds
    <3> HIDE DEF f
    <3>4. llvm \in Modules /\ Operand("func", f) \in 1 .. Len(llvm.values)
      BY <3>2, <3>3, EntityOperand
    <3>5. Operand("func", f) \in Nat
      BY <3>4
    <3> QED
      BY <2>1, <3>5 DEF f
  <2>2. CASE ~ (i >= seg.offset /\ i < seg.offset + Len(seg.funcs))
    BY <2>2
  <2> QED
    BY <2>1, <2>2
<1>2. Buffer(size, seg) \in [1 .. size -> Nat]
  BY <1>1 DEF Buffer
<1> QED
  BY <1>2

(* What visitElem does to the LLVM module.                                 *)
LEMMA ElemRefills ==
  ASSUME IndexInv, NEW seg \in Segments, VisitElem(seg), ~ Stop("assert")
  PROVE  LET id == Operand("table", seg.table)
         IN  /\ pass = "elems" /\ elems' = Append(elems, seg)
             /\ UNCHANGED <<pass, pos, space, vecs, nonImportFuncs, bodies>>
             /\ llvm \in Modules
             /\ id \in 1 .. Len(llvm.values)
             /\ Refilled(llvm, llvm', Reached(id), {Buffer(llvm.values[id].size, seg)})
<1> DEFINE id == Operand("table", seg.table)
           b == Buffer(llvm.values[id].size, seg)
           new == {b}
           old == llvm.values[id].init
           vs == llvm.values
<1>1. /\ pass = "elems" /\ elems' = Append(elems, seg)
      /\ UNCHANGED <<pass, pos, space, vecs, nonImportFuncs, bodies>>
      /\ llvm' = IF HasInitializer(id) THEN Replaced(old, new)
                 ELSE [llvm EXCEPT !.values[id].init = new]
  BY DEF VisitElem
<1>2. llvm \in Modules /\ id \in 1 .. Len(vs)
  <2>1. "table" \in Kinds /\ seg.table \in DOMAIN space["table"]
    BY SegmentFacts, TypesAt DEF IndexInv, Kinds
  <2> QED
    BY <2>1, EntityOperand
<1>3. /\ vs \in Seq(Values) /\ llvm.last \in Nat
      /\ DOMAIN vs = 1 .. Len(vs) /\ Len(vs) \in Nat
      /\ llvm = [values |-> vs, last |-> llvm.last]
  BY <1>2 DEF Modules
<1> HIDE DEF id
<1>4. new \in SUBSET Seq(Nat)
  <2>1. vs[id] \in Values
    BY <1>2, <1>3
  <2>2. vs[id].size \in Nat
    BY <2>1 DEF Values
  <2> QED
    BY <2>2, BufferFacts
<1> HIDE DEF new, old
<1> DEFINE Fresh(k) == [vs[k] EXCEPT !.init = new]
<1>5. ASSUME NEW k \in 1 .. Len(vs)
      PROVE  /\ Fresh(k) \in Values
             /\ Fresh(k).kind = vs[k].kind
             /\ Fresh(k).of = vs[k].of
             /\ Fresh(k).size = vs[k].size
             /\ Fresh(k).name = vs[k].name
             /\ Fresh(k).external = vs[k].external
             /\ Fresh(k).init = new
  <2>1. vs[k] \in Values
    BY <1>3
  <2> QED
    BY <1>4, <2>1 DEF Values
<1> DEFINE ws == [k \in 1 .. Len(vs) |-> IF k \in Reached(id) THEN Fresh(k) ELSE vs[k]]
<1>6. ws \in Seq(Values) /\ Len(ws) = Len(vs)
  <2>1. ws \in [1 .. Len(vs) -> Values]
    BY <1>3, <1>5
  <2> HIDE DEF ws
  <2> QED
    BY <1>3, <2>1
<1>7. llvm' = [values |-> ws, last |-> llvm.last]
  <2>1. CASE HasInitializer(id)
    <3>1. llvm' = [llvm EXCEPT !.values =
                     [k \in DOMAIN @ |-> IF @[k].kind = "table" /\ @[k].init = old
                                        THEN [@[k] EXCEPT !.init = new] ELSE @[k]]]
      BY <1>1, <2>1 DEF Replaced
    <3> DEFINE xs == [k \in DOMAIN vs |-> IF vs[k].kind = "table" /\ vs[k].init = old
                                          THEN [vs[k] EXCEPT !.init = new] ELSE vs[k]]
    <3>2. llvm' = [llvm EXCEPT !.values = xs]
      BY <3>1
    <3>3. xs = ws
      <4>1. \A k \in 1 .. Len(vs) : k \in Reached(id) <=> vs[k].kind = "table" /\ vs[k].init = old
        BY <2>1 DEF Reached, old
      <4> QED
        BY <1>3, <4>1
    <3> HIDE DEF xs, ws
    <3>4. llvm' = [values |-> xs, last |-> llvm.last]
      BY <1>3, <3>2 DEF Modules
    <3> QED
      BY <3>3, <3>4
  <2>2. CASE ~ HasInitializer(id)
    <3>1. llvm' = [llvm EXCEPT !.values[id].init = new]
      BY <1>1, <2>2
    <3> DEFINE xs == [vs EXCEPT ![id] = Fresh(id)]
    <3>2. llvm' = [llvm EXCEPT !.values = xs]
      BY <3>1
    <3>3. xs = ws
      <4>1. \A k \in 1 .. Len(vs) : k \in Reached(id) <=> k = id
        BY <2>2 DEF Reached
      <4> QED
        BY <1>2, <1>3, <4>1
    <3> HIDE DEF xs, ws
    <3>4. llvm' = [values |-> xs, last |-> llvm.last]
      BY <1>3, <3>2 DEF Modules
    <3> QED
      BY <3>3, <3>4
  <2> QED
    BY <2>1, <2>2
<1>8. \A k \in 1 .. Len(vs) :
        /\ ws[k].kind = vs[k].kind
        /\ ws[k].of = vs[k].of
        /\ ws[k].size = vs[k].size
        /\ ws[k].name = vs[k].name
        /\ ws[k].external = vs[k].external
        /\ ws[k].init = IF k \in Reached(id) THEN new ELSE vs[k].init
  BY <1>5
<1> HIDE DEF ws, vs
<1>9. Refilled(llvm, llvm', Reached(id), new)
  BY <1>3, <1>6, <1>7, <1>8 DEF Refilled, Modules, vs
<1> QED
  BY <1>1, <1>2, <1>9 DEF new, id, vs

(* Initialisers are not what an index is about.                            *)
LEMMA RefilledGrown ==
  ASSUME NEW st \in Modules, NEW su, NEW S, NEW new, Refilled(st, su, S, new)
  PROVE  Grown(st, su)
<1>1. Len(st.values) \in Nat
  BY DEF Modules
<1> QED
  BY <1>1 DEF Refilled, Grown

(* An element segment.                                                     *)
LEMMA VisitElemStep ==
  ASSUME IndexInv, NEW seg \in Segments, VisitElem(seg)
  PROVE  IndexInv'
<1>1. CASE Stop("assert")
  BY <1>1, StopStep
<1>2. CASE ~ Stop("assert")
  <2>1. /\ UNCHANGED <<pass, pos, space, vecs, nonImportFuncs, bodies>>
        /\ Grown(llvm, llvm')
    BY <1>2, ElemRefills, RefilledGrown
  <2>2. pos' \in Nat
    BY <2>1 DEF IndexInv, ModuleTypes
  <2> QED
    BY <2>1, <2>2, IndexInvKept
<1> QED
  BY <1>1, <1>2

-----------------------------------------------------------------------------
(* Index spaces and vectors agree.                                         *)

(* The invariant holds of an empty module                                  *)
LEMMA IndexInit ==
  ASSUME MInit
  PROVE  IndexInv
<1> DEFINE none == << >>
<1>1. /\ none \in Seq(Entity) /\ none \in Seq(Nat) /\ none \in Seq(Values) /\ Len(none) = 0
      /\ DOMAIN none = {}
  OBVIOUS
<1> HIDE DEF none
<1>2. /\ pass = "imports" /\ pos = 0
      /\ space = [k \in Kinds |-> none] /\ vecs = [k \in Kinds |-> none]
      /\ llvm = [values |-> none, last |-> 0]
      /\ nonImportFuncs = none /\ bodies = {}
  BY DEF MInit, none
<1>3. ModuleTypes
  BY <1>1, <1>2 DEF ModuleTypes, Modules
<1>4. Imps(none) = {} /\ Cardinality(Imps(none)) = 0
  <2>1. Imps(none) = {}
    BY <1>1 DEF Imps
  <2> QED
    BY <2>1, FS_EmptySet
<1>5. ASSUME NEW kind \in Kinds
      PROVE  IndexOK(kind, space[kind], vecs[kind], llvm, pass)
  <2>1. space[kind] = none /\ vecs[kind] = none
    BY <1>2
  <2>2. ImportsFirst(none)
    BY <1>1, <1>4 DEF ImportsFirst
  <2> QED
    BY <1>1, <1>4, <2>1, <2>2 DEF IndexOK
<1>6. space["func"] = none /\ vecs["func"] = none
  BY <1>2 DEF Kinds
<1>7. FuncsOK(none, none, none) /\ BodiesOK(none, none, {})
  BY <1>1, <1>4 DEF FuncsOK, BodiesOK
<1> QED
  BY <1>2, <1>3, <1>5, <1>6, <1>7 DEF IndexInv, AllIndexOK

(* ... and every step keeps it.                                            *)
LEMMA IndexNext ==
  ASSUME IndexInv, [MNext \/ MOver]_mvars
  PROVE  IndexInv'
<1>1. ASSUME NEW kind \in Kinds, NEW e \in Entities(kind), NEW link \in LinkNames,
             Import(kind, e, link)
      PROVE  IndexInv'
  BY <1>1, ImportStep
<1>2. ASSUME NEW kind \in Kinds, Revisit(kind)
      PROVE  IndexInv'
  BY <1>2, RevisitStep
<1>3. ASSUME NEW kind \in Kinds, NEW e \in Entities(kind), Define(kind, e)
      PROVE  IndexInv'
  BY <1>3, DefineStep
<1>4. CASE UnsupportedGlobalOrTable \/ UnsupportedElem
  BY <1>4, StopStep DEF UnsupportedGlobalOrTable, UnsupportedElem
<1>5. ASSUME NEW e \in Entities("func"), DeclareFunc(e)
      PROVE  IndexInv'
  BY <1>5, DeclareFuncStep
<1>6. CASE VisitFunc
  BY <1>6, VisitFuncStep
<1>7. ASSUME NEW kind \in Kinds, NEW i \in DOMAIN space[kind], NEW n \in ExportNames,
             Export(kind, i, n)
      PROVE  IndexInv'
  BY <1>7, ExportStep
<1>8. CASE DefaultName
  BY <1>8, DefaultNameStep
<1>9. ASSUME NEW seg \in Segments, VisitElem(seg)
      PROVE  IndexInv'
  BY <1>9, VisitElemStep
<1>10. CASE NextPass
  BY <1>10, NextPassStep
<1>11. CASE UNCHANGED mvars
  <2>1. UNCHANGED <<pass, pos, space, llvm, vecs, nonImportFuncs, bodies>>
    BY <1>11 DEF mvars
  <2>2. Grown(llvm, llvm') /\ pos' \in Nat
    BY <2>1, GrownSelf DEF IndexInv, ModuleTypes
  <2> QED
    BY <2>1, <2>2, IndexInvKept
<1> QED
  BY <1>1, <1>2, <1>3, <1>4, <1>5, <1>6, <1>7, <1>8, <1>9, <1>10, <1>11
     DEF MNext, MOver

(* The inductive invariant of the passes: the vector of each kind follows  *)
(* its index space, and so do the functions that wait for a body.          *)
THEOREM PassesInvariant == MSpec => []IndexInv
<1>1. MInit => IndexInv
  BY IndexInit
<1>2. IndexInv /\ [MNext \/ MOver]_mvars => IndexInv'
  BY IndexNext
<1> QED
  BY <1>1, <1>2, PTL DEF MSpec

(* Whatever mixture of imports and definitions a module has, an index      *)
(* finds in the vectors of Context what was made for it (of the tables,    *)
(* if some are imported, only these), and each body is in its function.    *)
THEOREM IndexesFindTheirValues == MSpec => []IndexesAgree
<1>1. IndexInv => IndexesAgree
  <2> SUFFICES ASSUME IndexInv PROVE IndexesAgree
    OBVIOUS
  <2>1. ASSUME NEW kind \in Kinds
        PROVE  /\ IndexOK(kind, space[kind], vecs[kind], llvm, pass)
               /\ DOMAIN space[kind] = 1 .. Len(space[kind])
               /\ Imported(kind) = Imps(space[kind])
    BY TypesAt, ImportedIs DEF IndexInv, AllIndexOK
  <2>2. \A kind \in Kinds \ {"table"} : Len(vecs[kind]) = Len(space[kind])
    BY <2>1 DEF IndexOK
  <2>3. \A kind \in Kinds : \A i \in DOMAIN space[kind] :
          kind # "table" \/ i \in Imported(kind) \/ Imported(kind) = {} =>
            Value(kind, i).kind = kind /\ Value(kind, i).of = i
    BY <2>1, SMTT(30) DEF IndexOK, Right, Stands, Value, Operand
  <2>4. \A b \in bodies : Operand("func", b[1]) = b[2] /\ b[1] \in Defined("func")
    <3>1. "func" \in Kinds
      BY DEF Kinds
    <3> QED
      BY <2>1, <3>1 DEF IndexInv, BodiesOK, Operand, Defined
  <2> QED
    BY <2>2, <2>3, <2>4 DEF IndexesAgree
<1> QED
  BY <1>1, PassesInvariant, PTL

-----------------------------------------------------------------------------
(* What element segments write.                                            *)

(* A table f of what the first last segments make of table t.              *)
Upto(t, last, f) ==
  f = [k \in 0 .. last |->
         IF k = 0 THEN Nulls(space["table"][t].size)
         ELSE IF elems[k].table = t THEN Overlaid(f[k - 1], elems[k])
         ELSE f[k - 1]]

(* Every such table ends in what WebAssembly instantiates.                 *)
LEMMA InstantiatedIs ==
  ASSUME NEW t, Len(elems) \in Nat, NEW g, Upto(t, Len(elems), g)
  PROVE  Instantiated(t) = g[Len(elems)]
<1> DEFINE last == Len(elems)
           f == CHOOSE h : Upto(t, last, h)
<1>1. Upto(t, last, f)
  OBVIOUS
<1>2. Instantiated(t) = f[last]
  BY DEF Instantiated, Upto
<1> HIDE DEF f
<1> DEFINE T == { n \in Nat : n <= last => f[n] = g[n] }
<1>3. 0 \in T
  BY <1>1 DEF Upto
<1>4. ASSUME NEW m \in Nat, m \in T
      PROVE  m + 1 \in T
  <2> SUFFICES ASSUME m + 1 <= last
               PROVE  f[m + 1] = g[m + 1]
    OBVIOUS
  <2>1. f[m] = g[m]
    BY <1>4
  <2>2. m + 1 \in 0 .. last /\ m + 1 # 0 /\ (m + 1) - 1 = m
    OBVIOUS
  <2>3. f[m + 1] = IF elems[m + 1].table = t THEN Overlaid(f[m], elems[m + 1]) ELSE f[m]
    BY <1>1, <2>2 DEF Upto
  <2>4. g[m + 1] = IF elems[m + 1].table = t THEN Overlaid(g[m], elems[m + 1]) ELSE g[m]
    BY <2>2 DEF Upto
  <2> QED
    BY <2>1, <2>3, <2>4
<1> HIDE DEF T
<1>5. last \in T
  BY <1>3, <1>4, SetInduction
<1> QED
  BY <1>2, <1>5 DEF T

(* The entries that one segment makes, by indices of functions.            *)
Written(size, seg) ==
  [k \in 1 .. size |->
     IF k - seg.offset \in DOMAIN seg.funcs THEN seg.funcs[k - seg.offset] ELSE 0]

(* A table without segments is null                                        *)
LEMMA NoSegment ==
  ASSUME Len(elems) \in Nat, NEW t, \A k \in 1 .. Len(elems) : elems[k].table # t
  PROVE  Instantiated(t) = Nulls(space["table"][t].size)
<1> DEFINE zeros == Nulls(space["table"][t].size)
           g == [k \in 0 .. Len(elems) |-> zeros]
<1> HIDE DEF zeros
<1>1. ASSUME NEW k \in 0 .. Len(elems)
      PROVE  g[k] = IF k = 0 THEN zeros
                    ELSE IF elems[k].table = t THEN Overlaid(g[k - 1], elems[k])
                    ELSE g[k - 1]
  <2>1. CASE k = 0
    BY <2>1
  <2>2. CASE k # 0
    <3>1. k \in 1 .. Len(elems) /\ k - 1 \in 0 .. Len(elems)
      BY <2>2
    <3>2. g[k] = zeros /\ g[k - 1] = zeros
      BY <3>1
    <3> QED
      BY <2>2, <3>1, <3>2
  <2> QED
    BY <2>1, <2>2
<1>2. Upto(t, Len(elems), g)
  BY <1>1 DEF Upto, zeros
<1>3. g[Len(elems)] = zeros
  OBVIOUS
<1> QED
  BY <1>2, <1>3, InstantiatedIs DEF zeros

(* ... and one with a single segment has its entries.                      *)
LEMMA OneSegment ==
  ASSUME Len(elems) \in Nat, NEW t, NEW n \in 1 .. Len(elems),
         \A k \in 1 .. Len(elems) : elems[k].table = t <=> k = n
  PROVE  Instantiated(t) = Written(space["table"][t].size, elems[n])
<1> DEFINE zeros == Nulls(space["table"][t].size)
           full == Overlaid(zeros, elems[n])
           g == [k \in 0 .. Len(elems) |-> IF k < n THEN zeros ELSE full]
<1>1. full = Written(space["table"][t].size, elems[n])
  BY DEF Overlaid, Written, Nulls
<1> HIDE DEF zeros, full
<1>2. ASSUME NEW k \in 0 .. Len(elems)
      PROVE  g[k] = IF k = 0 THEN zeros
                    ELSE IF elems[k].table = t THEN Overlaid(g[k - 1], elems[k])
                    ELSE g[k - 1]
  <2>1. CASE k = 0
    BY <2>1
  <2>2. CASE k # 0
    <3>1. k \in 1 .. Len(elems) /\ k - 1 \in 0 .. Len(elems)
      BY <2>2
    <3>2. /\ g[k] = IF k < n THEN zeros ELSE full
          /\ g[k - 1] = IF k - 1 < n THEN zeros ELSE full
      BY <3>1
    <3>3. CASE k = n
      <4>1. g[k] = full /\ g[k - 1] = zeros /\ elems[k].table = t
        BY <3>1, <3>2, <3>3
      <4> QED
        BY <2>2, <3>3, <4>1 DEF full
    <3>4. CASE k # n
      <4>1. g[k] = g[k - 1] /\ elems[k].table # t
        BY <3>1, <3>2, <3>4
      <4> QED
        BY <2>2, <4>1
    <3> QED
      BY <3>3, <3>4
  <2> QED
    BY <2>1, <2>2
<1>3. Upto(t, Len(elems), g)
  BY <1>2 DEF Upto, zeros
<1>4. g[Len(elems)] = full
  OBVIOUS
<1> HIDE DEF g
<1> QED
  BY <1>1, <1>3, <1>4, InstantiatedIs

(* A table whose initialiser was made by one segment has its entries.      *)
LEMMA BufferContents ==
  ASSUME IndexInv, NEW t \in 1 .. Len(space["table"]), NEW seg \in Segments,
         NEW size \in Nat, Value("table", t).init = {Buffer(size, seg)}
  PROVE  Contents(t) = Written(size, seg)
<1> DEFINE b == Buffer(size, seg)
           off == seg.offset
           len == Len(seg.funcs)
           vs == llvm.values
<1>1. Contents(t) = [k \in DOMAIN b |-> IF b[k] = 0 THEN 0 ELSE vs[b[k]].of]
  <2>1. HasInitializer(Operand("table", t))
    BY DEF HasInitializer, Value, NoInitialiser
  <2>2. (CHOOSE a \in Value("table", t).init : TRUE) = b
    OBVIOUS
  <2> QED
    BY <2>1, <2>2 DEF Contents
<1>2. /\ DOMAIN b = 1 .. size
      /\ \A k \in 1 .. size : b[k] = IF k - 1 >= off /\ k - 1 < off + len
                                     THEN Operand("func", seg.funcs[k - 1 - off + 1])
                                     ELSE 0
  BY DEF Buffer
<1>3. /\ off \in Nat /\ len \in Nat /\ DOMAIN seg.funcs = 1 .. len
      /\ \A k \in 1 .. len : seg.funcs[k] \in 1 .. Len(space["func"])
  BY SegmentFacts
<1>4. ASSUME NEW i \in 1 .. Len(space["func"])
      PROVE  Operand("func", i) # 0 /\ vs[Operand("func", i)].of = i
  <2>1. "func" \in Kinds
    BY DEF Kinds
  <2>2. Stands(llvm, vecs["func"][i], "func", i, space["func"][i])
    BY <2>1 DEF IndexInv, AllIndexOK, IndexOK, Right
  <2> QED
    BY <2>2 DEF Stands, Operand
<1> HIDE DEF b, off, len, vs
<1>5. ASSUME NEW k \in 1 .. size
      PROVE  (IF b[k] = 0 THEN 0 ELSE vs[b[k]].of)
             = IF k - seg.offset \in DOMAIN seg.funcs THEN seg.funcs[k - seg.offset] ELSE 0
  <2>1. k - 1 >= off /\ k - 1 < off + len <=> k - off \in 1 .. len
    BY <1>3
  <2>2. k - 1 - off + 1 = k - off
    BY <1>3
  <2>3. CASE k - off \in 1 .. len
    <3>1. b[k] = Operand("func", seg.funcs[k - off])
      BY <1>2, <2>1, <2>2, <2>3
    <3> DEFINE f == seg.funcs[k - off]
    <3>2. f \in 1 .. Len(space["func"])
      BY <1>3, <2>3
    <3> HIDE DEF f
    <3>3. b[k] # 0 /\ vs[b[k]].of = f
      BY <1>4, <3>1, <3>2 DEF f
    <3> QED
      BY <1>3, <2>3, <3>3 DEF f, off
  <2>4. CASE k - off \notin 1 .. len
    <3>1. b[k] = 0
      BY <1>2, <2>1, <2>4
    <3> QED
      BY <1>3, <2>4, <3>1 DEF off
  <2> QED
    BY <2>3, <2>4
<1> QED
  BY <1>1, <1>2, <1>5 DEF Written

(* A table without an initialiser is null.                                 *)
LEMMA NoContents ==
  ASSUME NEW t, Value("table", t).init = {}
  PROVE  Contents(t) = Nulls(space["table"][t].size)
BY DEF Contents, HasInitializer, Value, NoInitialiser

-----------------------------------------------------------------------------
(* The tables.                                                             *)

(* The size of table t, and its initialiser in the IR.                     *)
Size(t) == space["table"][t].size
Init(t) == Value("table", t).init
(* Table t has more than one segment.                                      *)
Twice(t) == \E j, k \in 1 .. Len(elems) :
              j # k /\ elems[j].table = t /\ elems[k].table = t
(* The initialiser of table t has its size.                                *)
Sized(t) == \/ Init(t) = {}
            \/ \E seg \in Segments : Init(t) = {Buffer(Size(t), seg)}
(* It is what the segment of t made, if no table of its size has several.  *)
Filled(t) ==
  \/ \E u \in 1 .. Len(space["table"]) : Twice(u) /\ Size(u) = Size(t)
  \/ /\ \A k \in 1 .. Len(elems) : elems[k].table # t
     /\ Init(t) = {}
  \/ \E n \in 1 .. Len(elems) :
       /\ \A k \in 1 .. Len(elems) : elems[k].table = t <=> k = n
       /\ Init(t) = {Buffer(Size(t), elems[n])}
(* The last segment is in its table.                                       *)
LastIn == LET seg == elems[Len(elems)]
          IN  Init(seg.table) = {Buffer(Size(seg.table), seg)}

(* Where the process can be once it has read a segment.                    *)
Ends == {"elems", "done", "abort", "assert"}
(* All tables are in order, if none is imported.                           *)
TablesOK ==
  Imps(space["table"]) = {} =>
    /\ \A t \in 1 .. Len(space["table"]) : Sized(t) /\ Filled(t)
    /\ elems # << >> => LastIn
(* Before the first segment no value has an initialiser; afterwards the    *)
(* index spaces stay as they are.                                          *)
TableInv ==
  /\ elems \in Seq(Segments)
  /\ elems = << >> => \A k \in 1 .. Len(llvm.values) : llvm.values[k].init = {}
  /\ elems # << >> => pass \in Ends /\ TablesOK

(* The value of a table.                                                   *)
LEMMA TableStands ==
  ASSUME IndexInv, Imps(space["table"]) = {}, NEW t \in 1 .. Len(space["table"])
  PROVE  /\ Operand("table", t) \in 1 .. Len(llvm.values)
         /\ llvm.values[Operand("table", t)].kind = "table"
         /\ llvm.values[Operand("table", t)].of = t
         /\ llvm.values[Operand("table", t)].size = Size(t)
         /\ Size(t) \in Nat
<1>1. "table" \in Kinds
  BY DEF Kinds
<1>2. Stands(llvm, vecs["table"][t], "table", t, space["table"][t])
  BY <1>1 DEF IndexInv, AllIndexOK, IndexOK, Right
<1>3. Size(t) \in Nat
  <2>1. space["table"] \in Seq(Entity)
    BY <1>1, TypesAt DEF IndexInv
  <2>2. space["table"][t] \in Entity
    BY <2>1
  <2> QED
    BY <2>2 DEF Entity, Size
<1> QED
  BY <1>2, <1>3 DEF Stands, Operand, Size

(* With no segment read, all is well.                                      *)
LEMMA Unfilled ==
  ASSUME IndexInv, TableInv, elems = << >>
  PROVE  TablesOK
<1> SUFFICES ASSUME Imps(space["table"]) = {}, NEW t \in 1 .. Len(space["table"])
             PROVE  Sized(t) /\ Filled(t)
  BY DEF TablesOK
<1>1. Init(t) = {}
  BY TableStands DEF TableInv, Init, Value
<1>2. Len(elems) = 0
  OBVIOUS
<1> QED
  BY <1>1, <1>2 DEF Sized, Filled

(* A step that leaves the segments and the tables alone.                   *)
LEMMA TablesKept ==
  ASSUME TableInv, UNCHANGED <<elems, space, vecs, llvm>>,
         pass \in Ends => pass' \in Ends
  PROVE  TableInv'
<1>1. UNCHANGED Segments
  BY DEF Segments
<1>2. TablesOK' = TablesOK
  BY DEF TablesOK, Sized, Filled, Twice, LastIn, Size, Init, Value, Buffer,
         Operand, Segments
<1> QED
  BY <1>1, <1>2 DEF TableInv

(* A step before the first segment.                                        *)
LEMMA NoSegmentYet ==
  ASSUME TableInv, pass \notin Ends, UNCHANGED elems, InitsKept(llvm, llvm')
  PROVE  TableInv'
<1>1. elems = << >>
  BY DEF TableInv
<1>2. \A k \in 1 .. Len(llvm'.values) : llvm'.values[k].init = {}
  BY <1>1 DEF TableInv, InitsKept
<1> QED
  BY <1>1, <1>2 DEF TableInv

(* A segment is read: it is in its table, and what else it reached is      *)
(* excused.                                                                *)
LEMMA SegmentRead ==
  ASSUME IndexInv, IndexInv', TableInv, NEW seg \in Segments, VisitElem(seg),
         ~ Stop("assert")
  PROVE  TableInv'
<1> DEFINE s == seg.table
           id == Operand("table", s)
           old == Len(elems)
           m == Len(elems) + 1
           n == Len(space["table"])
<1>1. /\ pass = "elems" /\ elems' = Append(elems, seg)
      /\ UNCHANGED <<pass, pos, space, vecs, nonImportFuncs, bodies>>
      /\ llvm \in Modules
      /\ id \in 1 .. Len(llvm.values)
      /\ Refilled(llvm, llvm', Reached(id), {Buffer(llvm.values[id].size, seg)})
  BY ElemRefills
<1>2. /\ elems \in Seq(Segments) /\ old \in Nat
      /\ Len(elems') = m /\ elems'[m] = seg
      /\ \A k \in 1 .. old : elems'[k] = elems[k]
      /\ elems' \in Seq(Segments)
      /\ elems' # << >>
  BY <1>1 DEF TableInv
<1>3. /\ UNCHANGED Segments
      /\ \A t : Size(t)' = Size(t)
      /\ \A size, g : Buffer(size, g)' = Buffer(size, g)
  BY <1>1 DEF Segments, Size, Buffer, Operand
<1>4. s \in 1 .. n
  BY SegmentFacts
<1> SUFFICES ASSUME Imps(space["table"]) = {}
             PROVE  /\ \A t \in 1 .. n : (Sized(t) /\ Filled(t))'
                    /\ LastIn'
  BY <1>1, <1>2, <1>3 DEF TableInv, TablesOK, Ends
<1>5. /\ llvm.values[id].size = Size(s) /\ llvm.values[id].kind = "table"
      /\ llvm.values[id].of = s
  BY <1>4, TableStands
<1>6. \A t \in 1 .. n : Sized(t) /\ Filled(t)
  BY Unfilled DEF TableInv, TablesOK
<1> DEFINE b == Buffer(Size(s), seg)
<1>7. \A t \in 1 .. n : Init(t)' = IF Operand("table", t) \in Reached(id) THEN {b} ELSE Init(t)
  <2> TAKE t \in 1 .. n
  <2>1. Operand("table", t) \in 1 .. Len(llvm.values)
    BY TableStands
  <2>2. Operand("table", t)' = Operand("table", t)
    BY <1>1 DEF Operand
  <2> QED
    BY <1>1, <1>5, <2>1, <2>2 DEF Refilled, Init, Value
<1>8. Init(s) = llvm.values[id].init
  BY DEF Init, Value
<1> HIDE DEF b, id, m, old
<1>9. Init(s)' = {b}
  <2>1. id \in Reached(id)
    BY <1>1, <1>5 DEF Reached
  <2> QED
    BY <1>4, <1>7, <2>1 DEF id
<1>10. ASSUME NEW t, Twice(t)
       PROVE  Twice(t)'
  <2>1. PICK j \in 1 .. old, k \in 1 .. old :
          j # k /\ elems[j].table = t /\ elems[k].table = t
    BY <1>10 DEF Twice, old
  <2>2. j \in 1 .. m /\ k \in 1 .. m
    BY <1>2 DEF m, old
  <2>3. elems'[j].table = t /\ elems'[k].table = t
    BY <1>2, <2>1
  <2> QED
    BY <1>2, <2>1, <2>2, <2>3 DEF Twice
(* A table that had a segment has several now.                             *)
<1>11. ASSUME NEW k \in 1 .. old, elems[k].table = s
       PROVE  Twice(s)'
  <2>1. k \in 1 .. m /\ m \in 1 .. m /\ k # m
    BY <1>2 DEF m, old
  <2>2. elems'[k].table = s /\ elems'[m].table = s
    BY <1>2, <1>11
  <2> QED
    BY <1>2, <2>1, <2>2 DEF Twice
(* Of the others, only tables of the same size are reached, and only if    *)
(* this one had been written before.                                       *)
<1>12. ASSUME NEW t \in 1 .. n, t # s, Operand("table", t) \in Reached(id)
       PROVE  Size(t) = Size(s) /\ Init(s) # {}
  <2>1. /\ Operand("table", t) \in 1 .. Len(llvm.values)
        /\ llvm.values[Operand("table", t)].of = t
    BY TableStands
  <2>2. Operand("table", t) # id
    BY <1>5, <1>12, <2>1
  <2>3. HasInitializer(id) /\ llvm.values[Operand("table", t)].init = llvm.values[id].init
    BY <1>12, <2>2 DEF Reached
  <2>4. Init(s) # {} /\ Init(t) = Init(s)
    BY <1>8, <2>3 DEF HasInitializer, NoInitialiser, Init, Value
  <2>5. PICK g \in Segments : Init(t) = {Buffer(Size(t), g)}
    BY <1>6, <2>4 DEF Sized
  <2>6. PICK h \in Segments : Init(s) = {Buffer(Size(s), h)}
    BY <1>4, <1>6, <2>4 DEF Sized
  <2>7. 1 .. Size(t) = 1 .. Size(s)
    <3>1. Buffer(Size(t), g) = Buffer(Size(s), h)
      BY <2>4, <2>5, <2>6
    <3>2. /\ DOMAIN Buffer(Size(t), g) = 1 .. Size(t)
          /\ DOMAIN Buffer(Size(s), h) = 1 .. Size(s)
      BY DEF Buffer
    <3> QED
      BY <3>1, <3>2
  <2>8. Size(t) \in Nat /\ Size(s) \in Nat
    BY <1>4, TableStands
  <2>9. Size(t) = Size(s)
    BY <2>7, <2>8
  <2> QED
    BY <2>4, <2>9
<1>13. ASSUME NEW t \in 1 .. n
       PROVE  Sized(t)'
  <2>1. CASE Operand("table", t) \in Reached(id)
    <3>1. Size(t) = Size(s)
      BY <1>12, <2>1
    <3>2. Init(t)' = {Buffer(Size(t), seg)}
      BY <1>7, <2>1, <3>1 DEF b
    <3> QED
      BY <1>3, <3>2 DEF Sized
  <2>2. CASE Operand("table", t) \notin Reached(id)
    <3>1. Init(t)' = Init(t) /\ Sized(t)
      BY <1>6, <1>7, <2>2
    <3> QED
      BY <1>3, <3>1 DEF Sized
  <2> QED
    BY <2>1, <2>2
<1>14. ASSUME NEW t \in 1 .. n, NEW u \in 1 .. n, Twice(u)', Size(u) = Size(t)
       PROVE  Filled(t)'
  BY <1>1, <1>3, <1>14 DEF Filled
<1>15. ASSUME NEW t \in 1 .. n
       PROVE  Filled(t)'
  <2>1. CASE \E u \in 1 .. n : Twice(u) /\ Size(u) = Size(t)
    BY <1>10, <1>14, <2>1
  <2>2. CASE t = s /\ \A k \in 1 .. old : elems[k].table # s
    <3>1. ASSUME NEW k \in 1 .. Len(elems')
          PROVE  elems'[k].table = s <=> k = m
      <4>1. k \in 1 .. old \/ k = m
        BY <1>2 DEF m, old
      <4>2. m \notin 1 .. old
        BY <1>2 DEF m, old
      <4> QED
        BY <1>2, <2>2, <4>1, <4>2
    <3>2. m \in 1 .. Len(elems') /\ elems'[m] = seg
      BY <1>2 DEF m, old
    <3>3. Init(s)' = {Buffer(Size(s), elems'[m])}
      BY <1>9, <3>2 DEF b
    <3> QED
      BY <1>3, <2>2, <3>1, <3>2, <3>3 DEF Filled
  <2>3. CASE t = s /\ \E k \in 1 .. old : elems[k].table = s
    BY <1>4, <1>11, <1>14, <2>3
  <2>4. CASE t # s /\ Operand("table", t) \in Reached(id)
    <3>1. Size(t) = Size(s) /\ Init(s) # {}
      BY <1>12, <2>4
    <3>2. CASE \E u \in 1 .. n : Twice(u) /\ Size(u) = Size(s)
      BY <2>1, <3>1, <3>2
    <3>3. CASE \E k \in 1 .. old : elems[k].table = s
      BY <1>4, <1>11, <1>14, <3>1, <3>3
    <3> QED
      BY <1>4, <1>6, <3>1, <3>2, <3>3 DEF Filled, old
  <2>5. CASE /\ t # s /\ Operand("table", t) \notin Reached(id)
             /\ ~ \E u \in 1 .. n : Twice(u) /\ Size(u) = Size(t)
    <3>1. Init(t)' = Init(t)
      BY <1>7, <2>5
    <3>2. \A k \in 1 .. m : elems'[k].table = t <=> k \in 1 .. old /\ elems[k].table = t
      <4>1. ASSUME NEW k \in 1 .. m
            PROVE  elems'[k].table = t <=> k \in 1 .. old /\ elems[k].table = t
        <5>1. k \in 1 .. old \/ (k = m /\ k \notin 1 .. old)
          BY <1>2 DEF m, old
        <5> QED
          BY <1>2, <2>5, <5>1
      <4> QED
        BY <4>1
    <3>3. CASE (\A k \in 1 .. old : elems[k].table # t) /\ Init(t) = {}
      BY <1>2, <3>1, <3>2, <3>3 DEF Filled
    <3>4. CASE \E k \in 1 .. old :
                 /\ \A j \in 1 .. old : elems[j].table = t <=> j = k
                 /\ Init(t) = {Buffer(Size(t), elems[k])}
      <4>1. PICK k \in 1 .. old : /\ \A j \in 1 .. old : elems[j].table = t <=> j = k
                                  /\ Init(t) = {Buffer(Size(t), elems[k])}
        BY <3>4
      <4>2. k \in 1 .. Len(elems') /\ elems'[k] = elems[k]
        BY <1>2 DEF m, old
      <4>3. \A j \in 1 .. Len(elems') : elems'[j].table = t <=> j = k
        BY <1>2, <3>2, <4>1
      <4>4. Init(t)' = {Buffer(Size(t), elems'[k])}
        BY <3>1, <4>1, <4>2
      <4> QED
        BY <1>3, <4>2, <4>3, <4>4 DEF Filled
    <3> QED
      BY <1>6, <2>5, <3>3, <3>4 DEF Filled, old
  <2> QED
    BY <2>1, <2>2, <2>3, <2>4, <2>5
<1>16. LastIn'
  <2>1. elems'[Len(elems')] = seg
    BY <1>2
  <2> QED
    BY <1>3, <1>9, <2>1 DEF LastIn, b
<1> QED
  BY <1>13, <1>15, <1>16

(* The invariant of the tables holds of an empty module                    *)
LEMMA TableInit ==
  ASSUME MInit
  PROVE  TableInv
<1>1. elems = << >> /\ llvm = [values |-> << >>, last |-> 0]
  BY DEF MInit
<1>2. Len(llvm.values) = 0
  BY <1>1
<1> QED
  BY <1>1, <1>2 DEF TableInv

(* ... and every step keeps it.                                            *)
LEMMA TableNext ==
  ASSUME IndexInv, IndexInv', TableInv, [MNext \/ MOver]_mvars
  PROVE  TableInv'
<1>1. ASSUME NEW kind \in Kinds, NEW e \in Entities(kind), NEW link \in LinkNames,
             Import(kind, e, link)
      PROVE  TableInv'
  BY <1>1, ImportStep, NoSegmentYet DEF Import, Ends
<1>2. ASSUME NEW kind \in Kinds, Revisit(kind)
      PROVE  TableInv'
  BY <1>2, RevisitStep, NoSegmentYet DEF Revisit, Ends
<1>3. ASSUME NEW kind \in Kinds, NEW e \in Entities(kind), Define(kind, e)
      PROVE  TableInv'
  BY <1>3, DefineStep, NoSegmentYet DEF Define, Definable, Kinds, Ends
<1>4. CASE UnsupportedGlobalOrTable \/ UnsupportedElem
  BY <1>4, TablesKept DEF UnsupportedGlobalOrTable, UnsupportedElem, Stop, Ends
<1>5. ASSUME NEW e \in Entities("func"), DeclareFunc(e)
      PROVE  TableInv'
  <2>1. pass \notin Ends /\ UNCHANGED elems
    BY <1>5 DEF DeclareFunc, Definable, Stop, Ends
  <2> QED
    BY <1>5, <2>1, DeclareFuncStep, NoSegmentYet
<1>6. CASE VisitFunc
  BY <1>6, TablesKept DEF VisitFunc
<1>7. ASSUME NEW kind \in Kinds, NEW i \in DOMAIN space[kind], NEW n \in ExportNames,
             Export(kind, i, n)
      PROVE  TableInv'
  BY <1>7, ExportStep, NoSegmentYet DEF Export, Ends
<1>8. CASE DefaultName
  BY <1>8, DefaultNameStep, NoSegmentYet DEF DefaultName, Ends
<1>9. ASSUME NEW seg \in Segments, VisitElem(seg)
      PROVE  TableInv'
  <2>1. CASE Stop("assert")
    BY <2>1, TablesKept DEF Stop, Ends
  <2>2. CASE ~ Stop("assert")
    BY <1>9, <2>2, SegmentRead
  <2> QED
    BY <2>1, <2>2
<1>10. CASE NextPass
  <2>1. UNCHANGED <<elems, space, vecs, llvm>>
    BY <1>10 DEF NextPass
  <2>2. pass \in Ends => pass' \in Ends
    BY <1>10 DEF NextPass, Passes, Ends
  <2> QED
    BY <2>1, <2>2, TablesKept
<1>11. CASE UNCHANGED mvars
  BY <1>11, TablesKept DEF mvars
<1> QED
  BY <1>1, <1>2, <1>3, <1>4, <1>5, <1>6, <1>7, <1>8, <1>9, <1>10, <1>11
     DEF MNext, MOver

(* The inductive invariant of the element segments: an initialiser comes   *)
(* from a segment and has the size of its table, and a table without a     *)
(* second segment has that of its segment, unless one of its size has two. *)
THEOREM TablesInvariant == MSpec => [](IndexInv /\ TableInv)
<1>1. MInit => TableInv
  BY TableInit
<1>2. IndexInv /\ IndexInv' /\ TableInv /\ [MNext \/ MOver]_mvars => TableInv'
  BY TableNext
<1> QED
  BY <1>1, <1>2, PassesInvariant, PTL DEF MSpec

(* Two segments of a table are counted.                                    *)
LEMMA TwiceIsSeveral ==
  ASSUME Len(elems) \in Nat, elems \in Seq(Segments), NEW u, Twice(u)
  PROVE  Several(u)
<1>1. PICK j \in 1 .. Len(elems), k \in 1 .. Len(elems) :
        j # k /\ elems[j].table = u /\ elems[k].table = u
  BY DEF Twice
<1>2. DOMAIN elems = 1 .. Len(elems)
  OBVIOUS
<1>3. {j, k} \subseteq SegmentsOf(u)
  BY <1>1, <1>2 DEF SegmentsOf
<1>4. SegmentsOf(u) \subseteq 1 .. Len(elems)
  BY <1>2 DEF SegmentsOf
<1>5. IsFiniteSet(1 .. Len(elems))
  BY FS_Interval
<1>6. IsFiniteSet(SegmentsOf(u))
  BY <1>4, <1>5, FS_Subset
<1>7. Cardinality({j, k}) <= Cardinality(SegmentsOf(u)) /\ Cardinality(SegmentsOf(u)) \in Nat
  BY <1>3, <1>6, FS_Subset, FS_CardinalityType
<1>8. Cardinality({j, k}) = 2
  <2>1. IsFiniteSet({k}) /\ Cardinality({k}) = 1
    BY FS_Singleton
  <2>2. j \notin {k} /\ {k} \cup {j} = {j, k}
    BY <1>1
  <2>3. Cardinality({k} \cup {j}) = Cardinality({k}) + 1
    BY <2>1, <2>2, FS_AddElement
  <2>4. Cardinality({j, k}) = Cardinality({k} \cup {j})
    BY <2>2, Zenon
  <2> QED
    BY <2>1, <2>3, <2>4, SMTT(30)
<1> QED
  BY <1>7, <1>8 DEF Several

(* As long as no table of its size has a second segment, a table in the IR *)
(* is what WebAssembly makes of it, although visitElem replaces equal      *)
(* initialisers of other tables as well.                                   *)
THEOREM TablesAreRight == MSpec => []TablesRight
<1>1. IndexInv /\ TableInv => TablesRight
  <2> SUFFICES ASSUME IndexInv, TableInv, Imported("table") = {},
                      NEW t \in DOMAIN space["table"]
               PROVE  \/ Contents(t) = Instantiated(t)
                      \/ \E u \in DOMAIN space["table"] :
                           Several(u) /\ space["table"][u].size = space["table"][t].size
    BY DEF TablesRight
  <2>1. /\ Imps(space["table"]) = {} /\ DOMAIN space["table"] = 1 .. Len(space["table"])
        /\ elems \in Seq(Segments) /\ Len(elems) \in Nat
    <3>1. "table" \in Kinds
      BY DEF Kinds
    <3> QED
      BY <3>1, ImportedIs, TypesAt DEF IndexInv, TableInv
  <2>2. Filled(t)
    BY <2>1, Unfilled DEF TableInv, TablesOK
  <2>3. CASE \E u \in 1 .. Len(space["table"]) : Twice(u) /\ Size(u) = Size(t)
    BY <2>1, <2>3, TwiceIsSeveral DEF Size
  <2>4. CASE (\A k \in 1 .. Len(elems) : elems[k].table # t) /\ Init(t) = {}
    BY <2>1, <2>4, NoSegment, NoContents DEF Init
  <2>5. CASE \E n \in 1 .. Len(elems) :
               /\ \A k \in 1 .. Len(elems) : elems[k].table = t <=> k = n
               /\ Init(t) = {Buffer(Size(t), elems[n])}
    <3>1. PICK n \in 1 .. Len(elems) :
                 /\ \A k \in 1 .. Len(elems) : elems[k].table = t <=> k = n
                 /\ Init(t) = {Buffer(Size(t), elems[n])}
      BY <2>5
    <3>2. Instantiated(t) = Written(Size(t), elems[n])
      BY <2>1, <3>1, OneSegment DEF Size
    <3>3. Contents(t) = Written(Size(t), elems[n])
      <4>1. elems[n] \in Segments /\ t \in 1 .. Len(space["table"]) /\ Size(t) \in Nat
        BY <2>1, TableStands
      <4>2. Value("table", t).init = {Buffer(Size(t), elems[n])}
        BY <3>1 DEF Init
      <4> QED
        BY <4>1, <4>2, BufferContents
    <3> QED
      BY <3>2, <3>3
  <2> QED
    BY <2>2, <2>3, <2>4, <2>5 DEF Filled
<1> QED
  BY <1>1, TablesInvariant, PTL

(* The functions of the segment just visited are at their places, whatever *)
(* tables shared an initialiser before.                                    *)
THEOREM LastSegmentStays == MSpec => []LastSegmentIsIn
<1>1. IndexInv /\ TableInv => LastSegmentIsIn
  <2> DEFINE seg == elems[Len(elems)]
             t == seg.table
  <2> SUFFICES ASSUME IndexInv, TableInv, elems # << >>, Imported("table") = {},
                      NEW k \in DOMAIN seg.funcs,
                      seg.offset + k <= space["table"][t].size
               PROVE  Contents(t)[seg.offset + k] = seg.funcs[k]
    BY DEF LastSegmentIsIn
  <2>1. /\ Imps(space["table"]) = {}
        /\ elems \in Seq(Segments) /\ Len(elems) \in 1 .. Len(elems)
    BY ImportedIs DEF TableInv
  <2>2. seg \in Segments
    BY <2>1
  <2>3. Init(t) = {Buffer(Size(t), seg)}
    BY <2>1 DEF TableInv, TablesOK, LastIn
  <2> HIDE DEF seg
  <2>4. /\ t \in 1 .. Len(space["table"]) /\ seg.offset \in Nat
        /\ DOMAIN seg.funcs = 1 .. Len(seg.funcs) /\ Len(seg.funcs) \in Nat
    BY <2>2, SegmentFacts
  <2>5. Size(t) \in Nat
    BY <2>1, <2>4, TableStands
  <2>6. Contents(t) = Written(Size(t), seg)
    BY <2>2, <2>3, <2>4, <2>5, BufferContents DEF Init
  <2>7. seg.offset + k \in 1 .. Size(t) /\ (seg.offset + k) - seg.offset = k
    BY <2>4, <2>5 DEF Size
  <2> QED
    BY <2>6, <2>7 DEF Written
<1> QED
  BY <1>1, TablesInvariant, PTL

-----------------------------------------------------------------------------
(* Names and linkage.                                                      *)

(* No two values have one name.                                            *)
Unique(st) ==
  \A k, l \in 1 .. Len(st.values) :
    k # l /\ NameOf(st, k) = NameOf(st, l) => NameOf(st, k) = Empty
(* Some other value has the name.                                          *)
Elsewhere(st, id, n) == \E k \in 1 .. Len(st.values) : k # id /\ NameOf(st, k) = n
(* Value id gets name n, with a number if n is taken, and nothing else     *)
(* changes.                                                                *)
Gives(st, su, id, n) ==
  /\ Keeps(st, su)
  /\ \A k \in 1 .. Len(st.values) : su.values[k].external = st.values[k].external
  /\ \A k \in 1 .. Len(st.values) : k # id => NameOf(su, k) = NameOf(st, k)
  /\ \/ NameOf(su, id) = n
     \/ Continues(NameOf(su, id), n) /\ Elsewhere(st, id, n) /\ n # Empty
  /\ Unique(st) => Unique(su)

(* What a number is appended to.                                           *)
LEMMA SuffixedContinues ==
  ASSUME NEW n \in Names, NEW i \in Nat
  PROVE  Continues(Suffixed(n, i), n)
<1> DEFINE s == n.nums
           t == Append(s, i)
           m == Suffixed(n, i)
<1>1. s \in Seq(Nat) /\ n = [dollars |-> n.dollars, text |-> n.text, nums |-> s]
  BY DEF Names
<1>2. m = [dollars |-> n.dollars, text |-> n.text, nums |-> t]
  BY <1>1, SMTT(60) DEF Suffixed
<1> HIDE DEF s
<1>3. /\ t \in Seq(Nat) /\ t # << >> /\ Len(s) \in Nat
      /\ Len(t) = Len(s) + 1
      /\ \A k \in 1 .. Len(s) : t[k] = s[k]
  <2>1. /\ t \in Seq(Nat) /\ t # << >> /\ Len(t) = Len(s) + 1
        /\ \A k \in 1 .. Len(s) : t[k] = s[k]
    BY <1>1, SMTT(30)
  <2>2. Len(s) \in Nat
    BY <1>1
  <2> QED
    BY <2>1, <2>2
<1> HIDE DEF t
<1>4. SubSeq(t, 1, Len(t) - 1) = s
  <2> DEFINE u == SubSeq(t, 1, Len(s))
  <2>1. /\ u \in Seq(Nat) /\ Len(u) = Len(s)
        /\ \A k \in 1 .. Len(s) : u[k] = t[k]
    <3>1. \A k \in 1 .. Len(s) : t[k] \in Nat
      BY <1>1, <1>3
    <3>2. Len(s) \in Int /\ 1 \in Int
      BY <1>3
    <3>3. /\ u \in Seq(Nat)
          /\ Len(u) = IF 1 <= Len(s) THEN Len(s) - 1 + 1 ELSE 0
          /\ \A k \in 1 .. Len(s) - 1 + 1 : u[k] = t[1 + k - 1]
      BY <3>1, <3>2, SubSeqProperties
    <3> HIDE DEF u
    <3> QED
      BY <1>3, <3>3
  <2> HIDE DEF u
  <2>2. /\ s \in [1 .. Len(s) -> Nat] /\ u \in [1 .. Len(s) -> Nat]
        /\ \A k \in 1 .. Len(s) : u[k] = s[k]
    BY <1>1, <1>3, <2>1
  <2>3. u = s
    BY <1>1, <2>1, <2>2, SeqEqual
  <2> QED
    BY <1>3, <2>3 DEF u
<1> HIDE DEF m
<1>5. m.nums = t
  BY <1>2
<1>6. [m EXCEPT !.nums = SubSeq(@, 1, Len(@) - 1)] = n
  <2>1. [m EXCEPT !.nums = SubSeq(@, 1, Len(@) - 1)]
          = [dollars |-> n.dollars, text |-> n.text, nums |-> SubSeq(t, 1, Len(t) - 1)]
    BY <1>2
  <2> QED
    BY <1>1, <1>4, <2>1
<1> QED
  BY <1>3, <1>5, <1>6 DEF Continues, m

(* PutName once more, with what it leaves alone.                           *)
LEMMA PutNameAlone ==
  ASSUME NEW st \in Modules, NEW id \in 1 .. Len(st.values), NEW n \in Names,
         NEW su, su = [st EXCEPT !.values[id].name = n]
  PROVE  /\ NameOf(su, id) = n
         /\ \A k \in 1 .. Len(st.values) :
              /\ su.values[k].external = st.values[k].external
              /\ k # id => NameOf(su, k) = NameOf(st, k)
<1> DEFINE vs == st.values
           v == [vs[id] EXCEPT !.name = n]
           ws == [vs EXCEPT ![id] = v]
<1>1. vs \in Seq(Values) /\ id \in 1 .. Len(vs) /\ vs[id] \in Values
  BY DEF Modules
<1>2. v \in Values /\ v.name = n /\ v.external = vs[id].external
  BY <1>1 DEF Values
<1>3. su.values = ws
  BY DEF Modules
<1> HIDE DEF v, vs
<1>4. \A j \in 1 .. Len(vs) : ws[j] = IF j = id THEN v ELSE vs[j]
  BY <1>1, <1>2, ExceptAt
<1> HIDE DEF ws
<1> QED
  BY <1>1, <1>2, <1>3, <1>4 DEF NameOf, vs

(* setName gives the name it is asked for, or that name with a number.     *)
LEMMA SetNameGives ==
  ASSUME NEW st \in Modules, NEW id \in 1 .. Len(st.values), NEW n \in Names
  PROVE  Gives(st, SetName(st, id, n), id, n)
<1> DEFINE su == SetName(st, id, n)
<1>1. Keeps(st, su)
  BY SetNameKeeps
<1>2. Len(su.values) = Len(st.values)
  BY <1>1 DEF Keeps, SameValues
<1>3. DOMAIN st.values = 1 .. Len(st.values)
  BY DEF Modules
<1>4. \A m : m \in Taken(st, id) <=> Elsewhere(st, id, m)
  BY <1>3 DEF Taken, Elsewhere, NameOf
<1>5. CASE /\ n = st.values[id].name \/ n = Empty \/ n \notin Taken(st, id)
           /\ su = [st EXCEPT !.values[id].name = n]
  <2> HIDE DEF su
  <2>1. /\ NameOf(su, id) = n
        /\ \A k \in 1 .. Len(st.values) :
             /\ su.values[k].external = st.values[k].external
             /\ k # id => NameOf(su, k) = NameOf(st, k)
    BY <1>5, PutNameAlone
  <2>2. Unique(st) => Unique(su)
    BY <1>2, <1>4, <1>5, <2>1 DEF Unique, Elsewhere, NameOf
  <2>3. Gives(st, su, id, n)
    BY <1>1, <2>1, <2>2 DEF Gives
  <2> QED
    BY <2>3 DEF su
<1>6. ASSUME NEW i \in Nat, Suffixed(n, i) \in Names, Suffixed(n, i) \notin Taken(st, id),
             ~ (n = st.values[id].name \/ n = Empty \/ n \notin Taken(st, id)),
             su = [[st EXCEPT !.last = i] EXCEPT !.values[id].name = Suffixed(n, i)]
      PROVE  Gives(st, su, id, n)
  <2> DEFINE m == Suffixed(n, i)
             sv == [st EXCEPT !.last = i]
  <2> HIDE DEF su
  <2>1. m \in Names /\ su = [sv EXCEPT !.values[id].name = m] /\ Continues(m, n)
    BY <1>6, SuffixedContinues
  <2>2. sv \in Modules /\ sv.values = st.values
    BY DEF Modules
  <2> HIDE DEF m, sv
  <2>3. /\ NameOf(su, id) = m
        /\ \A k \in 1 .. Len(st.values) :
             /\ su.values[k].external = st.values[k].external
             /\ k # id => NameOf(su, k) = NameOf(st, k)
    BY <2>1, <2>2, PutNameAlone DEF NameOf
  <2>4. ~ Elsewhere(st, id, m)
    BY <1>4, <1>6 DEF m
  <2>5. Unique(st) => Unique(su)
    BY <1>2, <2>3, <2>4 DEF Unique, Elsewhere
  <2>6. Elsewhere(st, id, n) /\ n # Empty
    BY <1>4, <1>6
  <2> QED
    BY <1>1, <2>1, <2>3, <2>5, <2>6 DEF Gives
<1> QED
  BY <1>5, <1>6, SetNameCases

(* A value that becomes visible keeps its name, and so do the others.      *)
Shows(st, su, id) ==
  /\ Keeps(st, su)
  /\ su.values[id].external = TRUE
  /\ \A k \in 1 .. Len(st.values) :
       /\ k # id => su.values[k].external = st.values[k].external
       /\ NameOf(su, k) = NameOf(st, k)
  /\ Unique(st) => Unique(su)

(* Making a value visible to the linker changes nothing else.              *)
LEMMA ExternalShows ==
  ASSUME NEW st \in Modules, NEW id \in 1 .. Len(st.values)
  PROVE  Shows(st, External(st, id), id)
<1> DEFINE vs == st.values
           v == [vs[id] EXCEPT !.external = TRUE]
           ws == [vs EXCEPT ![id] = v]
           su == External(st, id)
<1>1. Keeps(st, su)
  BY ExternalKeeps
<1>2. vs \in Seq(Values) /\ id \in 1 .. Len(vs) /\ vs[id] \in Values
  BY DEF Modules
<1>3. v \in Values /\ v.name = vs[id].name /\ v.external = TRUE
  BY <1>2 DEF Values
<1>4. su.values = ws
  BY DEF Modules, External
<1> HIDE DEF v, vs, su
<1>5. \A j \in 1 .. Len(vs) : ws[j] = IF j = id THEN v ELSE vs[j]
  BY <1>2, <1>3, ExceptAt
<1> HIDE DEF ws
<1>6. /\ su.values[id].external = TRUE
      /\ \A k \in 1 .. Len(st.values) :
           /\ k # id => su.values[k].external = st.values[k].external
           /\ NameOf(su, k) = NameOf(st, k)
  BY <1>2, <1>3, <1>4, <1>5 DEF NameOf, vs
<1>7. Unique(st) => Unique(su)
  BY <1>1, <1>6 DEF Keeps, SameValues, Unique
<1> QED
  BY <1>1, <1>6, <1>7 DEF Shows, su

(* The functions with name n lose it, and nothing else changes.            *)
Frees(st, su, n) ==
  /\ Keeps(st, su)
  /\ \A k \in 1 .. Len(st.values) :
       /\ su.values[k].external = st.values[k].external
       /\ NameOf(su, k) = IF st.values[k].kind = "func" /\ NameOf(st, k) = n
                          THEN Empty ELSE NameOf(st, k)
  /\ Unique(su)

(* Where names differ, one function at most loses the name.                *)
LEMMA UnnamedFrees ==
  ASSUME NEW st \in Modules, Unique(st), NEW n \in Names, n # Empty
  PROVE  Frees(st, Unnamed(st, GetFunction(st, n)), n)
<1> DEFINE ids == GetFunction(st, n)
           c == CHOOSE k \in ids : TRUE
           su == Unnamed(st, ids)
<1>1. DOMAIN st.values = 1 .. Len(st.values)
  BY DEF Modules
<1>2. \A k : k \in ids <=> /\ k \in 1 .. Len(st.values)
                           /\ st.values[k].kind = "func" /\ NameOf(st, k) = n
  BY <1>1 DEF GetFunction, NameOf
<1>3. CASE ids = {}
  <2>1. su = st
    BY <1>3 DEF Unnamed
  <2>2. Keeps(st, st)
    BY KeepsSelf
  <2>3. \A k \in 1 .. Len(st.values) : ~ (st.values[k].kind = "func" /\ NameOf(st, k) = n)
    BY <1>2, <1>3
  <2> HIDE DEF su
  <2>4. Frees(st, su, n)
    BY <2>1, <2>2, <2>3 DEF Frees
  <2> QED
    BY <2>4 DEF su
<1>4. CASE ids # {}
  <2>1. c \in ids /\ su = SetName(st, c, Empty)
    BY <1>4 DEF Unnamed
  <2> HIDE DEF c, su
  <2>2. c \in 1 .. Len(st.values) /\ st.values[c].kind = "func" /\ NameOf(st, c) = n
    BY <1>2, <2>1
  <2>3. \A k \in 1 .. Len(st.values) :
          st.values[k].kind = "func" /\ NameOf(st, k) = n <=> k = c
    BY <2>2 DEF Unique
  <2>4. Gives(st, su, c, Empty)
    BY <2>1, <2>2, EmptyFacts, SetNameGives
  <2>5. Frees(st, su, n)
    BY <2>2, <2>3, <2>4 DEF Frees, Gives
  <2> QED
    BY <2>5 DEF su
<1> QED
  BY <1>3, <1>4

(* Function id gets name n, the function that has it loses it, and only    *)
(* something else that has it makes it a name with a number.               *)
Held(st, n) == \E k \in 1 .. Len(st.values) :
                 st.values[k].kind # "func" /\ NameOf(st, k) = n
Takes(st, su, id, n) ==
  /\ Keeps(st, su)
  /\ \A k \in 1 .. Len(st.values) : su.values[k].external = st.values[k].external
  /\ \A k \in 1 .. Len(st.values) : k # id =>
       NameOf(su, k) = IF st.values[k].kind = "func" /\ NameOf(st, k) = n
                       THEN Empty ELSE NameOf(st, k)
  /\ NameOf(su, id) = n \/ (Continues(NameOf(su, id), n) /\ Held(st, n))
  /\ Unique(su)

(* ForceExportName takes the name from the function that has it and gives  *)
(* it to the exported one.                                                 *)
LEMMA ForceNameTakes ==
  ASSUME NEW st \in Modules, Unique(st), NEW id \in 1 .. Len(st.values),
         NEW n \in Names, n # Empty
  PROVE  Takes(st, ForceName(st, id, n), id, n)
<1> DEFINE su == Unnamed(st, GetFunction(st, n))
           sv == SetName(su, id, n)
<1>1. Frees(st, su, n)
  BY UnnamedFrees
<1> HIDE DEF su
<1>2. su \in Modules /\ Len(su.values) = Len(st.values)
  BY <1>1 DEF Frees, Keeps, SameValues
<1>3. Gives(su, sv, id, n)
  BY <1>2, SetNameGives
<1>4. sv = ForceName(st, id, n)
  BY DEF ForceName, su
<1> HIDE DEF sv
<1>5. Keeps(st, sv)
  BY <1>1, <1>3, KeepsTrans DEF Frees, Gives
<1>6. Elsewhere(su, id, n) => Held(st, n)
  BY <1>1, <1>2 DEF Elsewhere, Held, Frees
<1>7. \A k \in 1 .. Len(st.values) : sv.values[k].external = st.values[k].external
  BY <1>1, <1>2, <1>3 DEF Frees, Gives
<1>8. \A k \in 1 .. Len(st.values) : k # id =>
        NameOf(sv, k) = IF st.values[k].kind = "func" /\ NameOf(st, k) = n
                        THEN Empty ELSE NameOf(st, k)
  BY <1>1, <1>2, <1>3 DEF Frees, Gives
<1>9. NameOf(sv, id) = n \/ (Continues(NameOf(sv, id), n) /\ Held(st, n))
  <2>1. CASE NameOf(sv, id) = n
    BY <2>1
  <2>2. CASE NameOf(sv, id) # n
    <3>1. Continues(NameOf(sv, id), n) /\ Elsewhere(su, id, n)
      BY <1>3, <2>2, ZenonT(20) DEF Gives
    <3> QED
      BY <1>6, <3>1
  <2> QED
    BY <2>1, <2>2
<1>10. Unique(sv)
  BY <1>1, <1>3 DEF Frees, Gives
<1>11. Takes(st, sv, id, n)
  BY <1>5, <1>7, <1>8, <1>9, <1>10 DEF Takes
<1> QED
  BY <1>4, <1>11

(* The other names of the program's entry.                                 *)
OtherMains == {Text("__original_main"), Text("__main_argc_argv")}
(* The names FixNames takes from definitions.                              *)
Bad == {Text("memset"), Text("memcpy"), Text("__original_main"),
        Text("__main_argc_argv")}

(* No number is in these names, and one is in a name that goes on.         *)
LEMMA PlainNames ==
  /\ \A n \in Bad \cup {Main, Empty, Text("memset_1"), Text("memcpy_1")} : n.nums = << >>
  /\ \A n \in OtherMains : n.dollars = 0 /\ OptDollar(n) = n /\ n # Main /\ n # Empty
  /\ OtherMains \subseteq Bad
  /\ Main \notin Bad /\ Empty \notin Bad /\ Main # Empty
  /\ Text("memset_1") \notin Bad /\ Text("memcpy_1") \notin Bad
  /\ Main # Text("memset") /\ Main # Text("memcpy") /\ Text("memset_1") # Text("memcpy")
  /\ Empty # Text("memset_1") /\ Empty # Text("memcpy_1")
  /\ Main \in Names /\ Text("memset_1") \in Names /\ Text("memcpy_1") \in Names
<1>1. \A n \in Bad \cup {Main, Empty, Text("memset_1"), Text("memcpy_1")} : n.nums = << >>
  <2>1. \A t : Text(t).nums = << >>
    BY DEF Text
  <2>2. ASSUME NEW n \in Bad \cup {Main, Empty, Text("memset_1"), Text("memcpy_1")}
        PROVE  \E t : n = Text(t)
    BY Zenon DEF Bad, Main, Empty
  <2> QED
    BY <2>1, <2>2
<1>2. ASSUME NEW n \in OtherMains
      PROVE  n.dollars = 0 /\ OptDollar(n) = n /\ n # Main /\ n # Empty
  <2>1. n.dollars = 0 /\ n.text \in {"__original_main", "__main_argc_argv"}
    BY DEF OtherMains, Text
  <2>2. RemoveDollar(n) = n
    BY <2>1 DEF RemoveDollar, OtherMains, Text
  <2>3. OptDollar(n) = n
    BY <2>2 DEF OptDollar
  <2>4. Main.text = "main" /\ Empty.text = ""
    BY DEF Main, Empty, Text
  <2> QED
    BY <2>1, <2>3, <2>4
<1>3. OtherMains \subseteq Bad
  BY DEF OtherMains, Bad
<1>4. /\ Main.text = "main" /\ Empty.text = "" /\ Text("memset_1").text = "memset_1"
      /\ Text("memcpy_1").text = "memcpy_1" /\ Text("memset").text = "memset"
      /\ Text("memcpy").text = "memcpy"
      /\ \A n \in Bad : n.text \in {"memset", "memcpy", "__original_main", "__main_argc_argv"}
  BY DEF Main, Empty, Text, Bad
<1>5. Main \in Names /\ Text("memset_1") \in Names /\ Text("memcpy_1") \in Names
  <2>1. "main" \in Texts /\ "memset_1" \in Texts /\ "memcpy_1" \in Texts
    BY DEF Texts
  <2> QED
    BY <2>1, TextFacts DEF Main
<1> HIDE DEF Main, Empty, Bad
<1> QED
  BY <1>1, <1>2, <1>3, <1>4, <1>5

(* A name that goes on with a number is none of these.                     *)
LEMMA NumberedOn ==
  ASSUME NEW m, NEW n, Continues(m, n)
  PROVE  /\ m.nums # << >>
         /\ m \notin Bad \cup {Main, Empty, Text("memset_1"), Text("memcpy_1")}
BY PlainNames DEF Continues

(* Value id gets another name, or not, and nothing else changes.           *)
Renames(st, su, id) ==
  /\ Keeps(st, su)
  /\ \A k \in 1 .. Len(st.values) : su.values[k].external = st.values[k].external
  /\ \A k \in 1 .. Len(st.values) : k # id => NameOf(su, k) = NameOf(st, k)
  /\ Unique(su)

(* One renaming of FixNames: a name other than the bad one stays.          *)
LEMMA RenamedRenames ==
  ASSUME NEW st \in Modules, Unique(st), NEW id \in 1 .. Len(st.values),
         NEW from, NEW to \in Names
  PROVE  LET su == Renamed(st, id, from, to)
         IN  /\ Renames(st, su, id)
             /\ NameOf(st, id) # from => NameOf(su, id) = NameOf(st, id)
             /\ NameOf(st, id) = from =>
                  NameOf(su, id) = to \/ Continues(NameOf(su, id), to)
<1> DEFINE su == Renamed(st, id, from, to)
<1>1. CASE NameOf(st, id) = from
  <2>1. su = SetName(st, id, to)
    BY <1>1 DEF Renamed
  <2>2. Gives(st, su, id, to)
    BY <2>1, SetNameGives
  <2> HIDE DEF su
  <2>3. Renames(st, su, id)
    BY <2>2 DEF Gives, Renames
  <2>4. NameOf(su, id) = to \/ Continues(NameOf(su, id), to)
    BY <2>2, Zenon DEF Gives
  <2> QED
    BY <1>1, <2>3, <2>4 DEF su
<1>2. CASE NameOf(st, id) # from
  <2>1. su = st
    BY <1>2 DEF Renamed
  <2>2. Keeps(st, st)
    BY KeepsSelf
  <2> HIDE DEF su
  <2>3. Renames(st, su, id) /\ NameOf(su, id) = NameOf(st, id)
    BY <2>1, <2>2 DEF Renames
  <2> QED
    BY <1>2, <2>3 DEF su
<1> QED
  BY <1>1, <1>2

(* What RenamedMain does to an entry, and that it does nothing else.       *)
Mained(st, su, id) ==
  /\ Shows(st, External(st, id), id)
  /\ Takes(External(st, id), su, id, Main)

(* The renaming of an entry to main happens to an entry only.              *)
LEMMA RenamedMainTakes ==
  ASSUME NEW st \in Modules, Unique(st), NEW id \in 1 .. Len(st.values)
  PROVE  IF NameOf(st, id) \in OtherMains THEN Mained(st, RenamedMain(st, id), id)
         ELSE RenamedMain(st, id) = st
<1> DEFINE sx == External(st, id)
           su == RenamedMain(st, id)
<1>1. Shows(st, sx, id)
  BY ExternalShows
<1>2. CASE NameOf(st, id) \in OtherMains
  <2>1. su = SetName(Unnamed(sx, GetFunction(st, Main)), id, Main)
    BY <1>2 DEF RenamedMain, OtherMains
  <2> HIDE DEF sx, su
  <2>2. sx \in Modules /\ Unique(sx) /\ Len(sx.values) = Len(st.values)
    BY <1>1 DEF Shows, Keeps, SameValues
  <2>3. GetFunction(sx, Main) = GetFunction(st, Main)
    <3>1. DOMAIN st.values = 1 .. Len(st.values) /\ DOMAIN sx.values = 1 .. Len(st.values)
      BY <2>2 DEF Modules
    <3>2. \A k \in 1 .. Len(st.values) : /\ sx.values[k].kind = st.values[k].kind
                                         /\ sx.values[k].name = st.values[k].name
      BY <1>1 DEF Shows, Keeps, SameValues, Alike, NameOf
    <3> QED
      BY <3>1, <3>2 DEF GetFunction
  <2>4. su = ForceName(sx, id, Main)
    BY <2>1, <2>3 DEF ForceName
  <2>5. Takes(sx, su, id, Main)
    BY <2>2, <2>4, PlainNames, ForceNameTakes
  <2> QED
    BY <1>1, <1>2, <2>5 DEF Mained, sx, su
<1>3. CASE NameOf(st, id) \notin OtherMains
  BY <1>3 DEF RenamedMain, OtherMains
<1> QED
  BY <1>2, <1>3

(* FixNames takes main from the function that has it only for an entry,    *)
(* which it makes visible and calls main; no bad name stays.               *)
Fixes(st, su, id) ==
  LET w == NameOf(st, id)
  IN  /\ Keeps(st, su)
      /\ Unique(su)
      /\ \A k \in 1 .. Len(st.values) : k # id =>
           /\ su.values[k].external = st.values[k].external
           /\ \/ NameOf(su, k) = NameOf(st, k)
              \/ /\ st.values[k].kind = "func" /\ NameOf(st, k) = Main
                 /\ NameOf(su, k) = Empty /\ OptDollar(w) \in OtherMains
      /\ su.values[id].external # st.values[id].external => OptDollar(w) \in OtherMains
      /\ NameOf(su, id) \notin Bad
      /\ w \in OtherMains => /\ su.values[id].external = TRUE
                             /\ NameOf(su, id) = Main \/ Held(st, Main)

(* FixNames on one definition, from its names before to its names after.   *)
LEMMA FixedNamesFixes ==
  ASSUME NEW st \in Modules, Unique(st), NEW id \in 1 .. Len(st.values)
  PROVE  Fixes(st, FixedNames(st, id), id)
<1> DEFINE w == NameOf(st, id)
           o == OptDollar(w)
           s1 == SetName(st, id, o)
           s2 == RenamedMain(s1, id)
           s3 == Renamed(s2, id, Text("memset"), Text("memset_1"))
           s4 == Renamed(s3, id, Text("memcpy"), Text("memcpy_1"))
           sx == External(s1, id)
<1>1. s4 = FixedNames(st, id)
  BY DEF FixedNames
<1>2. w \in Names /\ o \in Names
  BY NameOfFacts, OptDollarFacts
<1>3. Gives(st, s1, id, o)
  BY <1>2, SetNameGives
<1>4. s1 \in Modules /\ Len(s1.values) = Len(st.values) /\ Unique(s1)
  BY <1>3 DEF Gives, Keeps, SameValues
<1>5. IF NameOf(s1, id) \in OtherMains THEN Mained(s1, s2, id) ELSE s2 = s1
  BY <1>4, RenamedMainTakes
<1> HIDE DEF s1, w, o
<1>6. NameOf(s1, id) \in OtherMains => NameOf(s1, id) = o
  <2>1. CASE NameOf(s1, id) = o
    BY <2>1
  <2>2. CASE NameOf(s1, id) # o
    <3>1. Continues(NameOf(s1, id), o)
      BY <1>3, <2>2, ZenonT(20) DEF Gives
    <3> QED
      BY <3>1, NumberedOn, PlainNames
  <2> QED
    BY <2>1, <2>2
<1>7. w \in OtherMains => NameOf(s1, id) = w
  <2>1. SUFFICES ASSUME w \in OtherMains PROVE NameOf(s1, id) = w
    OBVIOUS
  <2>2. o = w /\ w # Empty
    BY <2>1, PlainNames DEF o
  <2>3. ~ Elsewhere(st, id, w)
    BY <2>2 DEF Elsewhere, Unique, w
  <2> QED
    BY <1>3, <2>2, <2>3, ZenonT(20) DEF Gives
<1> HIDE DEF s2, sx
(* The two cases of the second step.                                       *)
<1>8. /\ Keeps(st, s2) /\ Unique(s2)
      /\ \A k \in 1 .. Len(st.values) : k # id =>
           /\ s2.values[k].external = st.values[k].external
           /\ \/ NameOf(s2, k) = NameOf(st, k)
              \/ /\ st.values[k].kind = "func" /\ NameOf(st, k) = Main
                 /\ NameOf(s2, k) = Empty /\ o \in OtherMains
      /\ s2.values[id].external # st.values[id].external => o \in OtherMains
      /\ NameOf(s2, id) \notin OtherMains
      /\ w \in OtherMains => /\ s2.values[id].external = TRUE
                             /\ NameOf(s2, id) = Main \/ Held(st, Main)
                             /\ NameOf(s2, id) \notin Bad
  <2>1. CASE NameOf(s1, id) \in OtherMains
    <3>1. Shows(s1, sx, id) /\ Takes(sx, s2, id, Main) /\ o \in OtherMains
      BY <1>5, <1>6, <2>1 DEF Mained, sx
    <3>2. Keeps(st, s2) /\ Unique(s2) /\ Len(sx.values) = Len(st.values)
      BY <1>3, <1>4, <3>1, KeepsTrans DEF Gives, Shows, Takes, Keeps, SameValues
    <3>3. \A k \in 1 .. Len(st.values) : sx.values[k].kind = st.values[k].kind
      BY <1>3, <1>4, <3>1 DEF Gives, Shows, Keeps, SameValues, Alike
    <3>4. \A k \in 1 .. Len(st.values) : k # id =>
            /\ s2.values[k].external = st.values[k].external
            /\ NameOf(sx, k) = NameOf(st, k)
            /\ NameOf(s2, k) = IF st.values[k].kind = "func" /\ NameOf(st, k) = Main
                               THEN Empty ELSE NameOf(st, k)
      BY <1>3, <1>4, <3>1, <3>2, <3>3 DEF Gives, Shows, Takes
    <3>5. s2.values[id].external = TRUE
      BY <1>4, <3>1, <3>2 DEF Shows, Takes
    <3>6. Held(sx, Main) => Held(st, Main)
      <4>1. SUFFICES ASSUME NEW k \in 1 .. Len(st.values), sx.values[k].kind # "func",
                            NameOf(sx, k) = Main
                     PROVE  Held(st, Main)
        BY <3>2 DEF Held
      <4>2. NameOf(sx, id) \in OtherMains
        BY <1>4, <2>1, <3>1 DEF Shows
      <4>3. k # id
        BY <4>1, <4>2, PlainNames
      <4> QED
        BY <3>3, <3>4, <4>1, <4>3 DEF Held
    <3>7. /\ NameOf(s2, id) \notin Bad
          /\ NameOf(s2, id) = Main \/ Held(st, Main)
      <4>1. CASE NameOf(s2, id) = Main
        BY <4>1, PlainNames
      <4>2. CASE NameOf(s2, id) # Main
        <5>1. Continues(NameOf(s2, id), Main) /\ Held(sx, Main)
          BY <3>1, <4>2, ZenonT(20) DEF Takes
        <5> QED
          BY <3>6, <5>1, NumberedOn
      <4> QED
        BY <4>1, <4>2
    <3> QED
      BY <3>1, <3>2, <3>4, <3>5, <3>7, PlainNames
  <2>2. CASE NameOf(s1, id) \notin OtherMains
    <3>1. s2 = s1 /\ w \notin OtherMains
      BY <1>5, <1>7, <2>2
    <3> QED
      BY <1>3, <1>4, <2>2, <3>1 DEF Gives
  <2> QED
    BY <2>1, <2>2
<1>9. s2 \in Modules /\ Len(s2.values) = Len(st.values) /\ id \in 1 .. Len(s2.values)
  BY <1>8 DEF Keeps, SameValues
<1>10. /\ Renames(s2, s3, id)
       /\ NameOf(s2, id) # Text("memset") => NameOf(s3, id) = NameOf(s2, id)
       /\ NameOf(s2, id) = Text("memset") =>
            NameOf(s3, id) = Text("memset_1") \/ Continues(NameOf(s3, id), Text("memset_1"))
  BY <1>8, <1>9, PlainNames, RenamedRenames
<1> HIDE DEF s3
<1>11. s3 \in Modules /\ Unique(s3) /\ Len(s3.values) = Len(st.values) /\ id \in 1 .. Len(s3.values)
  BY <1>9, <1>10 DEF Renames, Keeps, SameValues
<1>12. /\ Renames(s3, s4, id)
       /\ NameOf(s3, id) # Text("memcpy") => NameOf(s4, id) = NameOf(s3, id)
       /\ NameOf(s3, id) = Text("memcpy") =>
            NameOf(s4, id) = Text("memcpy_1") \/ Continues(NameOf(s4, id), Text("memcpy_1"))
  BY <1>11, PlainNames, RenamedRenames
<1> HIDE DEF s4
<1>13. NameOf(s3, id) \notin OtherMains \cup {Text("memset")}
  BY <1>8, <1>10, NumberedOn, PlainNames DEF Bad, OtherMains
<1>14. NameOf(s4, id) \notin Bad
  BY <1>12, <1>13, NumberedOn, PlainNames DEF Bad, OtherMains
<1>15. NameOf(s2, id) \notin Bad => NameOf(s4, id) = NameOf(s2, id)
  BY <1>10, <1>12 DEF Bad
<1>16. Keeps(st, s4)
  BY <1>8, <1>10, <1>12, KeepsTrans DEF Renames
<1>17. \A k \in 1 .. Len(st.values) :
         /\ s4.values[k].external = s2.values[k].external
         /\ k # id => NameOf(s4, k) = NameOf(s2, k)
  BY <1>9, <1>10, <1>11, <1>12 DEF Renames
<1>18. Fixes(st, s4, id)
  <2>1. w \in OtherMains => /\ s4.values[id].external = TRUE
                            /\ NameOf(s4, id) = Main \/ Held(st, Main)
    BY <1>8, <1>15, <1>17
  <2>2. Unique(s4)
    BY <1>12 DEF Renames
  <2>3. s4.values[id].external # st.values[id].external => o \in OtherMains
    BY <1>8, <1>17
  <2>4. \A k \in 1 .. Len(st.values) : k # id =>
           /\ s4.values[k].external = st.values[k].external
           /\ \/ NameOf(s4, k) = NameOf(st, k)
              \/ /\ st.values[k].kind = "func" /\ NameOf(st, k) = Main
                 /\ NameOf(s4, k) = Empty /\ o \in OtherMains
    BY <1>8, <1>17
  <2> QED
    BY <1>14, <1>16, <2>1, <2>2, <2>3, <2>4 DEF Fixes, w, o
<1> QED
  BY <1>1, <1>18

(* A value joins the module with linkage out and name n, with a number if  *)
(* another value has that name; the others stay as they are.               *)
Joins(st, su, n, out) ==
  LET id == Len(st.values) + 1
  IN  /\ \A k \in 1 .. Len(st.values) : /\ su.values[k].external = st.values[k].external
                                        /\ NameOf(su, k) = NameOf(st, k)
      /\ su.values[id].external = out
      /\ \/ NameOf(su, id) = n
         \/ /\ Continues(NameOf(su, id), n)
            /\ \E k \in 1 .. Len(st.values) : NameOf(st, k) = n
            /\ n # Empty
      /\ Unique(st) => Unique(su)

(* A new LLVM value joins the module under the name it is made with.       *)
LEMMA CreatedJoins ==
  ASSUME NEW st \in Modules, NEW kind \in Kinds, NEW i \in Nat,
         NEW external \in BOOLEAN, NEW n \in Names
  PROVE  Joins(st, Created(st, kind, i, external, n), n, external)
<1> DEFINE vs == st.values
           v == [kind |-> kind, of |-> i, external |-> external, size |-> 0,
                 init |-> NoInitialiser, name |-> Empty]
           ws == Append(vs, v)
           su == [st EXCEPT !.values = ws]
           len == Len(vs)
           sv == SetName(su, len + 1, n)
<1>1. v \in Values /\ v.external = external /\ v.name = Empty
  BY EmptyFacts DEF Values, NoInitialiser
<1>2. vs \in Seq(Values) /\ st.last \in Nat
  BY DEF Modules
<1>3. Created(st, kind, i, external, n) = sv
  BY DEF Created
<1> HIDE DEF vs, v
<1>4. /\ ws \in Seq(Values) /\ len \in Nat /\ Len(ws) = len + 1
      /\ ws[len + 1] = v
      /\ \A k \in 1 .. len : ws[k] = vs[k]
  BY <1>1, <1>2
<1> HIDE DEF ws, len
<1>5. su \in Modules /\ su.values = ws
  BY <1>2, <1>4 DEF Modules
<1> HIDE DEF su
<1>6. Gives(su, sv, len + 1, n)
  BY <1>4, <1>5, SetNameGives
<1> HIDE DEF sv
<1>7. /\ su.values[len + 1].external = external /\ NameOf(su, len + 1) = Empty
      /\ \A k \in 1 .. len : /\ su.values[k].external = st.values[k].external
                             /\ NameOf(su, k) = NameOf(st, k)
  BY <1>1, <1>4, <1>5 DEF NameOf, vs
<1>8. /\ sv.values[len + 1].external = external
      /\ \A k \in 1 .. len : /\ sv.values[k].external = st.values[k].external
                             /\ NameOf(sv, k) = NameOf(st, k)
  <2>1. \A k \in 1 .. len : k \in 1 .. len + 1 /\ k # len + 1
    BY <1>4
  <2> QED
    BY <1>4, <1>5, <1>6, <1>7, <2>1 DEF Gives
<1>9. Unique(st) => Unique(sv)
  <2>1. SUFFICES ASSUME Unique(st) PROVE Unique(su)
    BY <1>6 DEF Gives
  <2>2. SUFFICES ASSUME NEW k \in 1 .. len + 1, NEW l \in 1 .. len + 1, k # l,
                        NameOf(su, k) = NameOf(su, l)
                 PROVE  NameOf(su, k) = Empty
    BY <1>4, <1>5 DEF Unique
  <2>3. CASE k = len + 1 \/ l = len + 1
    BY <1>7, <2>2, <2>3
  <2>4. CASE k # len + 1 /\ l # len + 1
    <3>1. k \in 1 .. len /\ l \in 1 .. len
      BY <1>4, <2>4
    <3> QED
      BY <1>7, <2>1, <2>2, <3>1 DEF Unique, len, vs
  <2> QED
    BY <2>3, <2>4
<1>10. \/ NameOf(sv, len + 1) = n
       \/ /\ Continues(NameOf(sv, len + 1), n)
          /\ \E k \in 1 .. len : NameOf(st, k) = n
          /\ n # Empty
  <2>1. CASE NameOf(sv, len + 1) = n
    BY <2>1
  <2>2. CASE NameOf(sv, len + 1) # n
    <3>1. /\ Continues(NameOf(sv, len + 1), n)
          /\ Elsewhere(su, len + 1, n) /\ n # Empty
      BY <1>6, <2>2, ZenonT(20) DEF Gives
    <3>2. PICK k \in 1 .. len + 1 : k # len + 1 /\ NameOf(su, k) = n
      BY <1>4, <1>5, <3>1 DEF Elsewhere
    <3>3. k \in 1 .. len /\ NameOf(st, k) = n
      BY <1>4, <1>7, <3>2
    <3> QED
      BY <3>1, <3>3
  <2> QED
    BY <2>1, <2>2
<1>11. Joins(st, sv, n, external)
  BY <1>8, <1>9, <1>10, Zenon DEF Joins, len, vs
<1> QED
  BY <1>3, <1>11

(* A new entity of the wasm module joins under the name and linkage the    *)
(* code makes it with.                                                     *)
LEMMA RegisteredJoins ==
  ASSUME llvm \in Modules, vecs \in [Kinds -> Seq(Nat)], NEW kind \in Kinds,
         NEW i \in Nat, NEW e, e.name \in Names, e.size \in Nat,
         NEW external \in BOOLEAN
  PROVE  Joins(llvm, Registered(kind, i, e, external), LlvmName(kind, e),
               LinkedOutside(kind, external))
<1> DEFINE out == LinkedOutside(kind, external)
           n == LlvmName(kind, e)
           st == Created(llvm, kind, i, out, n)
           len == Len(st.values)
           v == [st.values[len] EXCEPT !.size = e.size]
           su == Registered(kind, i, e, external)
<1>1. out \in BOOLEAN /\ n \in Names
  BY LlvmNameFacts DEF LinkedOutside
<1>2. su = [st EXCEPT !.values[len].size = e.size]
  BY DEF Registered
<1> HIDE DEF out, n, su
<1>3. Added(llvm, st, kind, i, 0) /\ Joins(llvm, st, n, out)
  BY <1>1, CreatedAdds, CreatedJoins
<1> HIDE DEF st
<1>4. /\ st \in Modules /\ Len(llvm.values) \in Nat
      /\ len = Len(llvm.values) + 1
  BY <1>3 DEF Added, Modules
<1> DEFINE vs == st.values
           ws == [vs EXCEPT ![len] = v]
<1>5. vs \in Seq(Values) /\ len \in 1 .. Len(vs) /\ st.last \in Nat
  BY <1>4 DEF Modules
<1>6. v \in Values /\ v.name = vs[len].name /\ v.external = vs[len].external
  <2>1. vs[len] \in Values
    BY <1>5
  <2> QED
    BY <2>1 DEF Values
<1>7. su.values = ws
  BY <1>2, <1>4 DEF Modules
<1> HIDE DEF v, vs, len
<1>8. /\ Len(ws) = Len(vs)
      /\ \A j \in 1 .. Len(vs) : ws[j] = IF j = len THEN v ELSE vs[j]
  BY <1>5, <1>6, ExceptAt
<1> HIDE DEF ws
<1>9. \A j \in 1 .. Len(vs) : /\ su.values[j].external = st.values[j].external
                              /\ NameOf(su, j) = NameOf(st, j)
  BY <1>6, <1>7, <1>8 DEF NameOf, vs
<1>10. Unique(st) => Unique(su)
  BY <1>7, <1>8, <1>9 DEF Unique, vs
<1>11. /\ Len(vs) = Len(llvm.values) + 1
       /\ Len(llvm.values) + 1 \in 1 .. Len(vs)
       /\ \A j \in 1 .. Len(llvm.values) : j \in 1 .. Len(vs)
  BY <1>4 DEF len, vs
<1>12. Joins(llvm, su, n, out)
  <2> DEFINE id == Len(llvm.values) + 1
  <2>1. /\ NameOf(su, id) = NameOf(st, id)
        /\ su.values[id].external = st.values[id].external
    BY <1>9, <1>11
  <2>2. \A k \in 1 .. Len(llvm.values) :
          /\ su.values[k].external = llvm.values[k].external
          /\ NameOf(su, k) = NameOf(llvm, k)
    BY <1>3, <1>9, <1>11 DEF Joins
  <2>3. Unique(llvm) => Unique(su)
    BY <1>3, <1>10 DEF Joins
  <2>4. su.values[id].external = out
    BY <1>3, <2>1 DEF Joins
  <2>5. \/ NameOf(su, id) = n
        \/ /\ Continues(NameOf(su, id), n)
           /\ \E k \in 1 .. Len(llvm.values) : NameOf(llvm, k) = n
           /\ n # Empty
    BY <1>3, <2>1, ZenonT(20) DEF Joins
  <2> QED
    BY <2>2, <2>3, <2>4, <2>5, Zenon DEF Joins
<1> QED
  BY <1>12 DEF su, n, out

-----------------------------------------------------------------------------
(* The invariant of names and linkage.                                     *)

(* The name of the LLVM function of an index.                              *)
FuncName(i) == Value("func", i).name
(* Whether an index finds a value the linker sees.                         *)
Shown(kind, i) == Value(kind, i).external
(* The option FixNames; the kinds whose values have a linkage to get right.*)
Fix == "FixNames" \in opts
Visible == Kinds \ {"table"}
(* The passes before the exports.                                          *)
Early == {"imports", "global", "memory", "func", "table", "bodies"}
(* What is kept of an export.                                              *)
ExportRecords == [kind : Kinds, index : Nat, name : Names]

(* Every function of the LLVM module is one of the module's.               *)
FuncsKnown ==
  \A k \in 1 .. Len(llvm.values) : llvm.values[k].kind = "func" =>
    /\ llvm.values[k].of \in DOMAIN space["func"]
    /\ Operand("func", llvm.values[k].of) = k
(* The names functions come with.                                          *)
NamesGiven ==
  \A i \in DOMAIN space["func"] :
    LET n == space["func"][i].name
    IN  IF space["func"][i].imported THEN n \in FuncNames \cup LinkNames /\ n # Empty
        ELSE n \in FuncNames
(* Before the exports a function that FixNames does not rename has its     *)
(* name, at most with a number, or none.                                   *)
EarlyName(i) ==
  space["func"][i].imported \/ ~ Fix =>
    FuncName(i) = Wanted(i) \/ FuncName(i) = Empty \/ Continues(FuncName(i), Wanted(i))
(* ... and nothing is exported yet.                                        *)
EarlyOK ==
  pass \in Early => exports = << >> /\ \A i \in DOMAIN space["func"] : EarlyName(i)

(* What the properties say of one index.                                   *)
Linked(kind, i) ==
  LET public == space[kind][i].imported \/ ExportsOf(kind, i) # {}
  IN  /\ public => Shown(kind, i)
      /\ Shown(kind, i) => public \/ (kind = "func" /\ i \in TakenForEntry)
      /\ kind = "func" /\ i \in Entries /\ ~ HeldByOther(Wanted(i)) => Shown(kind, i)
(* An export that is forced on function i, or that takes name n.           *)
ForcedExport(i, n) ==
  Forced /\ \E k \in DOMAIN exports :
    exports[k].kind = "func" /\ (exports[k].index = i \/ exports[k].name = n)
(* ImportKeepsName of one import, with the causes as they are found.       *)
ImportKept(i) ==
  \/ FuncName(i) = Wanted(i)
  \/ HeldByOther(Wanted(i))
  \/ \E j \in 1 .. i - 1 : Wanted(i) = Wanted(j) \/ Continues(Wanted(i), Wanted(j))
  \/ Wanted(i) = Main /\ Fix /\ TakenForEntry # {}
  \/ ForcedExport(i, Wanted(i))
(* EntryIsMain of one entry.                                               *)
EntryKept(i) ==
  \/ HeldByOther(Main)
  \/ FuncName(i) = Main
  \/ HeldByOther(Wanted(i))
  \/ \E j \in TakenForEntry : j > i
  \/ ForcedExport(i, Main)
(* NamesFixed of one definition.                                           *)
NameFixed(i) == FuncName(i) \in Bad => ExportedAs(i, FuncName(i))
(* ForcedUnlessHeld of one export.                                         *)
NameForced(i, k) ==
  LET n == exports[k].name
  IN  \/ FuncName(i) = n
      \/ /\ HeldByOther(n)
         /\ \/ Continues(FuncName(i), n)
            \/ \E j \in k + 1 .. Len(exports) : Continues(exports[j].name, n)

(* ... and of all of them.                                                 *)
LinkedOK == \A kind \in Visible : \A i \in DOMAIN space[kind] : Linked(kind, i)
ImportsOK == \A i \in Imported("func") : ImportKept(i)
EntriesOK == Fix => \A i \in Entries : EntryKept(i)
FixedOK == Fix => \A i \in Defined("func") : NameFixed(i)
ForcedOK == Forced => \A i \in DOMAIN space["func"] : \A k \in LastExport(i) : NameForced(i, k)

(* The invariant of names and linkage.                                     *)
NamesInv ==
  /\ Unique(llvm)
  /\ FuncsKnown
  /\ NamesGiven
  /\ exports \in Seq(ExportRecords)
  /\ EarlyOK
  /\ LinkedOK
  /\ ImportsOK
  /\ EntriesOK
  /\ FixedOK
  /\ ForcedOK

-----------------------------------------------------------------------------
(* What was there goes on.                                                 *)

(* A step loses no entity, export or value, and gives no value that is no  *)
(* function another name.                                                  *)
Carried ==
  /\ opts' = opts
  /\ \A kind \in Kinds : \A i \in DOMAIN space[kind] :
       /\ i \in DOMAIN space'[kind]
       /\ space'[kind][i] = space[kind][i]
       /\ vecs'[kind][i] = vecs[kind][i]
  /\ \A k \in 1 .. Len(llvm.values) :
       /\ k \in 1 .. Len(llvm'.values)
       /\ llvm'.values[k].kind = llvm.values[k].kind
       /\ llvm.values[k].kind # "func" => NameOf(llvm', k) = NameOf(llvm, k)
  /\ \A k \in DOMAIN exports : k \in DOMAIN exports' /\ exports'[k] = exports[k]

(* Where the sequences are known to be such.                               *)
Known == /\ llvm \in Modules /\ llvm' \in Modules
         /\ exports \in Seq(ExportRecords) /\ exports' \in Seq(ExportRecords)

(* What a function wants to be called, and whether it is an entry, stays.  *)
LEMMA CarriedWanted ==
  ASSUME Carried, NEW i \in DOMAIN space["func"]
  PROVE  /\ Wanted(i)' = Wanted(i)
         /\ EntryNames' = EntryNames
         /\ Fix' = Fix /\ Forced' = Forced
         /\ i \in DOMAIN space'["func"]
         /\ i \in Imported("func")' <=> i \in Imported("func")
         /\ i \in Defined("func")' <=> i \in Defined("func")
         /\ i \in Entries' <=> i \in Entries
         /\ i \in TakenForEntry' <=> i \in TakenForEntry
<1>1. "func" \in Kinds
  BY DEF Kinds
<1>2. opts' = opts /\ i \in DOMAIN space'["func"] /\ space'["func"][i] = space["func"][i]
  BY <1>1 DEF Carried
<1>3. \A n : OptDollar(n)' = OptDollar(n)
  BY <1>2 DEF OptDollar
<1>4. Wanted(i)' = Wanted(i)
  BY <1>2 DEF Wanted, OptDollar
<1>5. EntryNames' = EntryNames /\ Fix' = Fix /\ Forced' = Forced
  BY <1>2 DEF EntryNames, Fix, Forced
<1>6. /\ i \in Imported("func")' <=> i \in Imported("func")
      /\ i \in Defined("func")' <=> i \in Defined("func")
  BY <1>2 DEF Imported, Defined
<1>7. i \in Entries' <=> i \in Entries
  BY <1>4, <1>5, <1>6 DEF Entries
<1>8. i \in TakenForEntry' <=> i \in TakenForEntry
  <2>1. OptDollar(Wanted(i))' = OptDollar(Wanted(i))
    BY <1>2, <1>4 DEF OptDollar
  <2> QED
    BY <1>2, <1>4, <1>5, <1>6, <2>1 DEF TakenForEntry
<1> QED
  BY <1>2, <1>4, <1>5, <1>6, <1>7, <1>8

(* A function that was taken for the entry stays one.                      *)
LEMMA CarriedTaken ==
  ASSUME Carried
  PROVE  TakenForEntry \subseteq TakenForEntry'
<1>1. SUFFICES ASSUME NEW i \in TakenForEntry PROVE i \in TakenForEntry'
  OBVIOUS
<1>2. i \in DOMAIN space["func"]
  BY DEF TakenForEntry, Defined
<1> QED
  BY <1>2, CarriedWanted

(* A name that something other than a function has stays with it.          *)
LEMMA CarriedHeld ==
  ASSUME Carried, Known, NEW n, HeldByOther(n)
  PROVE  HeldByOther(n)'
<1>1. DOMAIN llvm.values = 1 .. Len(llvm.values) /\ DOMAIN llvm'.values = 1 .. Len(llvm'.values)
  BY DEF Known, Modules
<1> QED
  BY <1>1 DEF HeldByOther, Carried, NameOf

(* Exports stay.                                                           *)
LEMMA CarriedExports ==
  ASSUME Carried, NEW kind, NEW i
  PROVE  ExportsOf(kind, i) \subseteq ExportsOf(kind, i)'
BY DEF ExportsOf, Carried

(* An export that was forced stays forced.                                 *)
LEMMA CarriedForced ==
  ASSUME Carried, NEW i, NEW n, ForcedExport(i, n)
  PROVE  ForcedExport(i, n)'
<1>1. Forced'
  BY DEF Carried, Forced, ForcedExport
<1> QED
  BY <1>1 DEF ForcedExport, Carried

-----------------------------------------------------------------------------
(* Why a property of one index goes on to hold.                            *)

(* Linkage stays right where it changes for an export only.                *)
LEMMA LinkedOn ==
  ASSUME Carried, Known, NEW kind \in Visible, NEW i \in DOMAIN space[kind],
         Linked(kind, i),
         Shown(kind, i)' <=> Shown(kind, i) \/ ExportsOf(kind, i)' # {}
  PROVE  Linked(kind, i)'
<1>1. space'[kind][i] = space[kind][i]
  BY DEF Carried, Visible
<1>2. ExportsOf(kind, i) \subseteq ExportsOf(kind, i)'
  BY CarriedExports
<1>3. TakenForEntry \subseteq TakenForEntry'
  BY CarriedTaken
<1>4. ASSUME kind = "func", i \in Entries', ~ HeldByOther(Wanted(i))'
      PROVE  i \in Entries /\ ~ HeldByOther(Wanted(i))
  <2>1. Wanted(i)' = Wanted(i) /\ i \in Entries
    BY <1>4, CarriedWanted
  <2>2. PICK n : n = Wanted(i)
    OBVIOUS
  <2>3. ~ HeldByOther(n)'
    BY <1>4, <2>1, <2>2 DEF HeldByOther
  <2> QED
    BY <2>1, <2>2, <2>3, CarriedHeld
<1>5. /\ space[kind][i].imported \/ ExportsOf(kind, i) # {} => Shown(kind, i)
      /\ Shown(kind, i) => \/ space[kind][i].imported \/ ExportsOf(kind, i) # {}
                           \/ kind = "func" /\ i \in TakenForEntry
      /\ kind = "func" /\ i \in Entries /\ ~ HeldByOther(Wanted(i)) => Shown(kind, i)
  BY DEF Linked
<1>6. /\ space'[kind][i].imported \/ ExportsOf(kind, i)' # {} => Shown(kind, i)'
      /\ Shown(kind, i)' => \/ space'[kind][i].imported \/ ExportsOf(kind, i)' # {}
                            \/ kind = "func" /\ i \in TakenForEntry'
      /\ kind = "func" /\ i \in Entries' /\ ~ HeldByOther(Wanted(i))' => Shown(kind, i)'
  BY <1>1, <1>2, <1>3, <1>4, <1>5
<1> QED
  BY <1>6 DEF Linked

(* Why a function may lose a name: it has none, it is main and an entry    *)
(* comes behind it, or an export is forced.                                *)
Cause(i) ==
  \/ FuncName(i)' = FuncName(i)
  \/ FuncName(i) = Empty
  \/ FuncName(i) = Main /\ Fix /\ \E j \in TakenForEntry' : j > i
  \/ \E n \in {FuncName(i)} : ForcedExport(i, n)'
(* Why it may get one: no bad one, or an export's.                         *)
Gain(i) ==
  \/ FuncName(i)' = FuncName(i)
  \/ (FuncName(i) \notin Bad)'
  \/ ExportedAs(i, FuncName(i))'

(* An import goes on to have its name, or a reason to have lost it.        *)
LEMMA ImportOn ==
  ASSUME Carried, Known, ModuleTypes, NEW i \in Imported("func"), Wanted(i) # Empty,
         ImportKept(i), Cause(i)
  PROVE  ImportKept(i)'
<1>1. i \in DOMAIN space["func"] /\ DOMAIN space["func"] = 1 .. Len(space["func"])
      /\ Len(space["func"]) \in Nat
  BY TypesAt DEF Imported, Kinds
<1>2. PICK w : w = Wanted(i)
  OBVIOUS
<1>3. Wanted(i)' = w /\ Fix' = Fix
  BY <1>1, <1>2, CarriedWanted
<1>4. TakenForEntry \subseteq TakenForEntry'
  BY CarriedTaken
<1>5. CASE FuncName(i) = w
  <2>1. CASE FuncName(i)' = FuncName(i)
    BY <1>3, <1>5, <2>1 DEF ImportKept
  <2>2. CASE w = Main /\ Fix /\ \E j \in TakenForEntry' : j > i
    BY <1>3, <2>2 DEF ImportKept
  <2>3. CASE ForcedExport(i, w)'
    BY <1>3, <2>3 DEF ImportKept, ForcedExport
  <2> QED
    BY <1>2, <1>5, <2>1, <2>2, <2>3 DEF Cause
<1>6. CASE HeldByOther(w)
  <2>1. HeldByOther(w)'
    BY <1>6, CarriedHeld
  <2> QED
    BY <1>3, <2>1 DEF ImportKept, HeldByOther
<1>7. ASSUME NEW j \in 1 .. i - 1, w = Wanted(j) \/ Continues(w, Wanted(j))
      PROVE  ImportKept(i)'
  <2>1. j \in DOMAIN space["func"]
    BY <1>1
  <2>2. Wanted(j)' = Wanted(j)
    BY <2>1, CarriedWanted
  <2>3. Wanted(i)' = Wanted(j)' \/ Continues(Wanted(i)', Wanted(j)')
    BY <1>3, <1>7, <2>2
  <2> QED
    BY <2>3 DEF ImportKept
<1>8. CASE w = Main /\ Fix /\ TakenForEntry # {}
  BY <1>3, <1>4, <1>8 DEF ImportKept
<1>9. CASE ForcedExport(i, w)
  <2>1. ForcedExport(i, w)'
    BY <1>9, CarriedForced
  <2> QED
    BY <1>3, <2>1 DEF ImportKept, ForcedExport
<1> QED
  BY <1>2, <1>5, <1>6, <1>7, <1>8, <1>9 DEF ImportKept

(* An entry goes on to be main, or has a reason not to be.                 *)
LEMMA EntryOn ==
  ASSUME Carried, Known, NEW i \in Entries, EntryKept(i), Cause(i)
  PROVE  EntryKept(i)'
<1>1. i \in DOMAIN space["func"]
  BY DEF Entries, Defined
<1>2. PICK w : w = Wanted(i)
  OBVIOUS
<1>3. Wanted(i)' = w
  BY <1>1, <1>2, CarriedWanted
<1>4. TakenForEntry \subseteq TakenForEntry'
  BY CarriedTaken
<1>5. CASE FuncName(i) = Main
  <2>1. CASE FuncName(i)' = FuncName(i)
    BY <1>5, <2>1 DEF EntryKept
  <2>2. CASE \E j \in TakenForEntry' : j > i
    BY <2>2 DEF EntryKept
  <2>3. CASE ForcedExport(i, Main)'
    BY <2>3 DEF EntryKept
  <2> QED
    BY <1>5, <2>1, <2>2, <2>3, PlainNames DEF Cause
<1>6. CASE HeldByOther(w)
  <2>1. HeldByOther(w)'
    BY <1>6, CarriedHeld
  <2> QED
    BY <1>3, <2>1 DEF EntryKept, HeldByOther
<1>7. CASE \E j \in TakenForEntry : j > i
  BY <1>4, <1>7 DEF EntryKept
<1>8. CASE HeldByOther(Main)
  BY <1>8, CarriedHeld DEF EntryKept
<1>9. CASE ForcedExport(i, Main)
  BY <1>9, CarriedForced DEF EntryKept
<1> QED
  BY <1>2, <1>5, <1>6, <1>7, <1>8, <1>9 DEF EntryKept

(* A definition goes on to have no bad name.                               *)
LEMMA FixedOn ==
  ASSUME Carried, NEW i, NameFixed(i), Gain(i)
  PROVE  NameFixed(i)'
<1>1. CASE FuncName(i)' = FuncName(i)
  <2>1. PICK n : n = FuncName(i)
    OBVIOUS
  <2>2. ExportedAs(i, n) => ExportedAs(i, n)'
    BY CarriedExports DEF ExportedAs, Carried, ExportsOf
  <2> QED
    BY <1>1, <2>1, <2>2 DEF NameFixed, ExportedAs
<1>2. CASE (FuncName(i) \notin Bad)'
  BY <1>2 DEF NameFixed
<1>3. CASE ExportedAs(i, FuncName(i))'
  BY <1>3 DEF NameFixed
<1> QED
  BY <1>1, <1>2, <1>3 DEF Gain

(* An import has a name to be found by.                                    *)
LEMMA LinkWanted ==
  ASSUME NEW n \in FuncNames \cup LinkNames, n # Empty
  PROVE  OptDollar(n) # Empty
<1>1. n \in NameType
  BY NamesAssumption
<1>2. RemoveDollar(n).text = n.text
  BY <1>1 DEF RemoveDollar, NameType
<1>3. Empty.text = ""
  BY DEF Empty, Text
<1> QED
  BY <1>2, <1>3, DollarsAssumption, LinksAssumption DEF OptDollar

(* So what an import wants to be called is a name.                         *)
LEMMA ImportWanted ==
  ASSUME NamesGiven, NEW i \in Imported("func")
  PROVE  Wanted(i) # Empty
BY LinkWanted DEF NamesGiven, Imported, Wanted

(* The entities and what they find are there after a step.                 *)
Olds ==
  /\ \A i \in DOMAIN space["func"] : Cause(i) /\ Gain(i)
  /\ \A kind \in Visible : \A i \in DOMAIN space[kind] :
       Shown(kind, i)' <=> Shown(kind, i) \/ ExportsOf(kind, i)' # {}
(* What a new entity starts with.                                          *)
News ==
  /\ \A kind \in Visible : \A i \in DOMAIN space'[kind] \ DOMAIN space[kind] :
       Linked(kind, i)'
  /\ \A i \in DOMAIN space'["func"] \ DOMAIN space["func"] :
       /\ i \in Imported("func")' => ImportKept(i)'
       /\ Fix' /\ i \in Entries' => EntryKept(i)'
       /\ Fix' /\ i \in Defined("func")' => NameFixed(i)'

(* What holds of each index goes on to hold, if the old ones have their    *)
(* causes and the new ones start right.                                    *)
LEMMA StepOn ==
  ASSUME IndexInv, NamesInv, Carried, Known, Olds, News
  PROVE  LinkedOK' /\ ImportsOK' /\ EntriesOK' /\ FixedOK'
<1>1. ModuleTypes /\ NamesGiven /\ LinkedOK /\ ImportsOK /\ EntriesOK /\ FixedOK
  BY DEF IndexInv, NamesInv
<1>2. LinkedOK'
  <2>1. ASSUME NEW kind \in Visible, NEW i \in DOMAIN space[kind]
        PROVE  Linked(kind, i)'
    <3>1. Linked(kind, i)
      BY <1>1 DEF LinkedOK
    <3>2. Shown(kind, i)' <=> Shown(kind, i) \/ ExportsOf(kind, i)' # {}
      BY DEF Olds
    <3> QED
      BY <3>1, <3>2, LinkedOn
  <2>2. ASSUME NEW kind \in Visible, NEW i \in DOMAIN space'[kind] \ DOMAIN space[kind]
        PROVE  Linked(kind, i)'
    BY DEF News
  <2>3. ASSUME NEW kind \in Visible, NEW i \in DOMAIN space'[kind]
        PROVE  Linked(kind, i)'
    BY <2>1, <2>2
  <2> QED
    BY <2>3 DEF LinkedOK
<1>3. \A i \in Imported("func")' : i \in DOMAIN space'["func"]
  BY DEF Imported
<1>4. \A i \in Defined("func")' : i \in DOMAIN space'["func"]
  BY DEF Defined
<1>5. \A i \in Entries' : i \in DOMAIN space'["func"]
  BY DEF Defined, Entries
<1>6. ImportsOK'
  <2>1. ASSUME NEW i \in Imported("func")'
        PROVE  ImportKept(i)'
    <3>1. CASE i \in DOMAIN space["func"]
      <4>1. i \in Imported("func")
        BY <2>1, <3>1, CarriedWanted
      <4>2. Wanted(i) # Empty /\ ImportKept(i) /\ Cause(i)
        BY <1>1, <3>1, <4>1, ImportWanted DEF ImportsOK, Olds
      <4> QED
        BY <1>1, <4>1, <4>2, ImportOn
    <3>2. CASE i \notin DOMAIN space["func"]
      BY <1>3, <2>1, <3>2 DEF News
    <3> QED
      BY <3>1, <3>2
  <2> QED
    BY <2>1 DEF ImportsOK
<1>7. EntriesOK'
  <2>1. ASSUME Fix', NEW i \in Entries'
        PROVE  EntryKept(i)'
    <3>1. CASE i \in DOMAIN space["func"]
      <4>1. i \in Entries /\ Fix
        BY <2>1, <3>1, CarriedWanted
      <4>2. EntryKept(i) /\ Cause(i)
        BY <1>1, <3>1, <4>1 DEF EntriesOK, Olds
      <4> QED
        BY <4>1, <4>2, EntryOn
    <3>2. CASE i \notin DOMAIN space["func"]
      BY <1>5, <2>1, <3>2 DEF News
    <3> QED
      BY <3>1, <3>2
  <2> QED
    BY <2>1 DEF EntriesOK
<1>8. FixedOK'
  <2>1. ASSUME Fix', NEW i \in Defined("func")'
        PROVE  NameFixed(i)'
    <3>1. CASE i \in DOMAIN space["func"]
      <4>1. i \in Defined("func") /\ Fix
        BY <2>1, <3>1, CarriedWanted
      <4>2. NameFixed(i) /\ Gain(i)
        BY <1>1, <3>1, <4>1 DEF FixedOK, Olds
      <4> QED
        BY <4>2, FixedOn
    <3>2. CASE i \notin DOMAIN space["func"]
      BY <1>4, <2>1, <3>2 DEF News
    <3> QED
      BY <3>1, <3>2
  <2> QED
    BY <2>1 DEF FixedOK
<1> QED
  BY <1>2, <1>6, <1>7, <1>8

(* Exports that have been forced, in a step that forces none.              *)
LEMMA ForcedOn ==
  ASSUME Carried, Known, ForcedOK,
         space'["func"] = space["func"],
         \A i \in DOMAIN space["func"] :
           /\ FuncName(i)' = FuncName(i) \/ FuncName(i) = Empty
           /\ LastExport(i)' \subseteq LastExport(i)
  PROVE  ForcedOK'
<1>1. SUFFICES ASSUME Forced', NEW i \in DOMAIN space["func"], NEW k \in LastExport(i)'
               PROVE  NameForced(i, k)'
  BY DEF ForcedOK
<1>2. k \in LastExport(i)
  BY <1>1
<1>3. Forced
  BY <1>1, <1>2 DEF Carried, Forced
<1>4. NameForced(i, k)
  BY <1>2, <1>3 DEF ForcedOK
<1>5. PICK n : n = exports[k].name
  OBVIOUS
<1>6. k \in DOMAIN exports /\ n # Empty /\ exports'[k].name = n
  BY <1>2, <1>5 DEF LastExport, ExportsOf, Carried
<1>7. CASE FuncName(i) = n
  BY <1>6, <1>7 DEF NameForced
<1>8. CASE HeldByOther(n) /\ Continues(FuncName(i), n)
  <2>1. FuncName(i) # Empty
    BY <1>8, NumberedOn
  <2>2. HeldByOther(n)'
    BY <1>8, CarriedHeld
  <2> QED
    BY <1>6, <1>8, <2>1, <2>2 DEF NameForced, HeldByOther
<1>9. CASE HeldByOther(n) /\ \E j \in k + 1 .. Len(exports) : Continues(exports[j].name, n)
  <2>1. HeldByOther(n)'
    BY <1>9, CarriedHeld
  <2>2. PICK j \in k + 1 .. Len(exports) : Continues(exports[j].name, n)
    BY <1>9
  <2>3. /\ DOMAIN exports = 1 .. Len(exports) /\ Len(exports) \in Nat
        /\ DOMAIN exports' = 1 .. Len(exports') /\ Len(exports') \in Nat
    BY DEF Known
  <2>4. j \in DOMAIN exports
    BY <1>6, <2>2, <2>3
  <2>5. j \in k + 1 .. Len(exports') /\ exports'[j].name = exports[j].name
    BY <1>6, <2>2, <2>3, <2>4 DEF Carried
  <2> QED
    BY <1>6, <2>1, <2>2, <2>5 DEF NameForced, HeldByOther
<1> QED
  BY <1>4, <1>5, <1>7, <1>8, <1>9 DEF NameForced

(* The functions of a module with no new value and no new function.        *)
LEMMA FuncsKnownOn ==
  ASSUME FuncsKnown, llvm \in Modules, UNCHANGED <<space, vecs>>,
         Len(llvm'.values) = Len(llvm.values),
         \A k \in 1 .. Len(llvm.values) :
           llvm'.values[k].kind = llvm.values[k].kind /\ llvm'.values[k].of = llvm.values[k].of
  PROVE  FuncsKnown'
BY DEF FuncsKnown, Operand

-----------------------------------------------------------------------------
(* Steps that change neither a name nor a linkage.                         *)

(* The values that were there keep name and linkage.                       *)
Quiet == \A k \in 1 .. Len(llvm.values) :
           /\ NameOf(llvm', k) = NameOf(llvm, k)
           /\ llvm'.values[k].external = llvm.values[k].external

(* An index finds a value that is there.                                   *)
LEMMA OldValue ==
  ASSUME IndexInv, NEW kind \in Kinds, NEW i \in DOMAIN space[kind]
  PROVE  Operand(kind, i) \in 1 .. Len(llvm.values)
BY EntityOperand

(* Without an export such a step gives no index a cause to change.         *)
LEMMA QuietOlds ==
  ASSUME IndexInv, NamesInv, Carried, exports' = exports, Quiet
  PROVE  /\ Olds
         /\ \A i \in DOMAIN space["func"] : FuncName(i)' = FuncName(i)
<1>1. "func" \in Kinds /\ Visible \subseteq Kinds
  BY DEF Kinds, Visible
<1>2. ASSUME NEW kind \in Kinds, NEW i \in DOMAIN space[kind]
      PROVE  /\ Value(kind, i).name' = Value(kind, i).name
             /\ Value(kind, i).external' = Value(kind, i).external
  <2>1. vecs'[kind][i] = vecs[kind][i] /\ Operand(kind, i) \in 1 .. Len(llvm.values)
    BY OldValue DEF Carried
  <2> QED
    BY <2>1 DEF Value, Operand, Quiet, NameOf
<1>3. \A i \in DOMAIN space["func"] : FuncName(i)' = FuncName(i)
  BY <1>1, <1>2 DEF FuncName
<1>4. ASSUME NEW kind \in Visible, NEW i \in DOMAIN space[kind]
      PROVE  Shown(kind, i)' <=> Shown(kind, i) \/ ExportsOf(kind, i)' # {}
  <2>1. Shown(kind, i)' = Shown(kind, i)
    BY <1>1, <1>2 DEF Shown
  <2>2. ExportsOf(kind, i)' = ExportsOf(kind, i)
    BY DEF ExportsOf
  <2>3. ExportsOf(kind, i) # {} => Shown(kind, i)
    BY DEF NamesInv, LinkedOK, Linked
  <2> QED
    BY <2>1, <2>2, <2>3
<1> QED
  BY <1>3, <1>4 DEF Olds, Cause, Gain

(* No new entity, no new value.                                            *)
LEMMA SameCarried ==
  ASSUME llvm \in Modules, Len(llvm'.values) = Len(llvm.values),
         UNCHANGED <<opts, space, vecs, exports>>,
         \A k \in 1 .. Len(llvm.values) :
           /\ llvm'.values[k].kind = llvm.values[k].kind
           /\ llvm.values[k].kind # "func" => NameOf(llvm', k) = NameOf(llvm, k)
  PROVE  Carried
BY DEF Carried

(* A step that changes neither a name nor a linkage keeps the invariant.   *)
LEMMA StillStep ==
  ASSUME IndexInv, NamesInv, UNCHANGED <<opts, space, vecs, exports>>,
         llvm' \in Modules, Len(llvm'.values) = Len(llvm.values),
         \A k \in 1 .. Len(llvm.values) :
           /\ llvm'.values[k].kind = llvm.values[k].kind
           /\ llvm'.values[k].of = llvm.values[k].of
           /\ NameOf(llvm', k) = NameOf(llvm, k)
           /\ llvm'.values[k].external = llvm.values[k].external,
         pass' \in Early => pass \in Early
  PROVE  NamesInv'
<1>1. llvm \in Modules /\ exports \in Seq(ExportRecords) /\ exports' \in Seq(ExportRecords)
  BY DEF IndexInv, ModuleTypes, NamesInv
<1>2. Carried /\ Known /\ Quiet
  BY <1>1, SameCarried DEF Known, Quiet
<1>3. /\ Olds
      /\ \A i \in DOMAIN space["func"] : FuncName(i)' = FuncName(i)
  BY <1>2, QuietOlds
<1>4. News
  BY DEF News
<1>5. LinkedOK' /\ ImportsOK' /\ EntriesOK' /\ FixedOK'
  BY <1>2, <1>3, <1>4, StepOn
<1>6. ForcedOK'
  <2>1. \A i : LastExport(i)' = LastExport(i)
    BY DEF LastExport, ExportsOf
  <2> QED
    BY <1>2, <1>3, <2>1, ForcedOn DEF NamesInv
<1>7. FuncsKnown'
  BY <1>1, FuncsKnownOn DEF NamesInv
<1>8. Unique(llvm)'
  BY DEF NamesInv, Unique, NameOf
<1>9. NamesGiven'
  BY DEF NamesInv, NamesGiven
<1>10. EarlyOK'
  <2>1. ASSUME NEW i \in DOMAIN space["func"], EarlyName(i)
        PROVE  EarlyName(i)'
    <3>1. FuncName(i)' = FuncName(i) /\ Wanted(i)' = Wanted(i) /\ Fix' = Fix
      BY <1>2, <1>3, CarriedWanted
    <3> QED
      BY <2>1, <3>1 DEF EarlyName
  <2> QED
    BY <2>1 DEF NamesInv, EarlyOK
<1> QED
  BY <1>1, <1>5, <1>6, <1>7, <1>8, <1>9, <1>10 DEF NamesInv

-----------------------------------------------------------------------------
(* Steps that register something.                                          *)

(* The vector of a kind gets the new value; its index space gets the       *)
(* entity, or is as it was.                                                *)
LEMMA PushedOld ==
  ASSUME IndexInv, NEW kind \in Kinds, NEW e \in Entity, Push(kind),
         Reveal(kind, e) \/ space' = space
  PROVE  /\ \A k \in Kinds : \A i \in DOMAIN space[k] :
              /\ i \in DOMAIN space'[k]
              /\ space'[k][i] = space[k][i]
              /\ vecs'[k][i] = vecs[k][i]
         /\ \A k \in Kinds : k # kind => space'[k] = space[k] /\ vecs'[k] = vecs[k]
         /\ Reveal(kind, e) => space'[kind] = Append(space[kind], e)
         /\ vecs'[kind] = Append(vecs[kind], Len(llvm.values) + 1)
<1>1. /\ space \in [Kinds -> Seq(Entity)] /\ vecs \in [Kinds -> Seq(Nat)]
      /\ llvm \in Modules
  BY DEF IndexInv, ModuleTypes
<1>2. Len(llvm.values) + 1 \in Nat
  BY <1>1 DEF Modules
<1>3. \A k \in Kinds : vecs'[k] = IF k = kind THEN Append(vecs[k], Len(llvm.values) + 1)
                                  ELSE vecs[k]
  BY <1>1 DEF Push
<1>4. \A k \in Kinds : k # kind => space'[k] = space[k]
  BY <1>1 DEF Reveal
<1>5. Reveal(kind, e) => space'[kind] = Append(space[kind], e)
  BY <1>1 DEF Reveal
<1>6. ASSUME NEW k \in Kinds, NEW i \in DOMAIN space[k]
      PROVE  /\ i \in DOMAIN space'[k]
             /\ space'[k][i] = space[k][i]
             /\ vecs'[k][i] = vecs[k][i]
  <2>1. /\ space[k] \in Seq(Entity) /\ vecs[k] \in Seq(Nat) /\ i \in 1 .. Len(space[k])
        /\ Len(space[k]) \in Nat /\ Len(vecs[k]) \in Nat
    BY <1>1
  <2>2. Len(space[k]) <= Len(vecs[k])
    BY DEF IndexInv, AllIndexOK, IndexOK
  <2>3. i \in 1 .. Len(vecs[k])
    BY <2>1, <2>2
  <2>4. vecs'[k][i] = vecs[k][i]
    <3>1. CASE k # kind
      BY <1>3, <3>1
    <3>2. CASE k = kind
      <4>1. vecs'[k] = Append(vecs[k], Len(llvm.values) + 1)
        BY <1>3, <3>2
      <4> HIDE DEF Push
      <4> QED
        BY <1>2, <2>1, <2>3, <4>1
    <3> QED
      BY <3>1, <3>2
  <2>5. CASE space'[k] = space[k]
    BY <2>4, <2>5
  <2>6. CASE space'[k] = Append(space[k], e)
    BY <2>1, <2>4, <2>6
  <2> QED
    BY <1>4, <1>5, <2>5, <2>6
<1> QED
  BY <1>3, <1>4, <1>5, <1>6

(* The new entity and its value.                                           *)
LEMMA PushedNew ==
  ASSUME IndexInv, NEW kind \in Kinds, NEW e \in Entity, Push(kind), Reveal(kind, e),
         kind # "table" \/ pass = "imports"
  PROVE  LET i == Len(space[kind]) + 1
         IN  /\ i \in Nat
             /\ DOMAIN space[kind] = 1 .. Len(space[kind])
             /\ DOMAIN space'[kind] = 1 .. i
             /\ space'[kind][i] = e
             /\ vecs'[kind][i] = Len(llvm.values) + 1
<1>1. /\ space[kind] \in Seq(Entity) /\ vecs[kind] \in Seq(Nat) /\ llvm \in Modules
      /\ Len(space[kind]) \in Nat /\ DOMAIN space[kind] = 1 .. Len(space[kind])
  BY TypesAt DEF IndexInv, ModuleTypes
<1>2. Len(llvm.values) + 1 \in Nat
  BY <1>1 DEF Modules
<1>3. Len(vecs[kind]) = Len(space[kind])
  BY DEF IndexInv, AllIndexOK, IndexOK
<1>4. /\ space'[kind] = Append(space[kind], e)
      /\ vecs'[kind] = Append(vecs[kind], Len(llvm.values) + 1)
  BY PushedOld
<1> QED
  BY <1>1, <1>2, <1>3, <1>4

(* A new function is one of the module's.                                  *)
LEMMA FuncsKnownJoin ==
  ASSUME IndexInv, FuncsKnown, NEW e \in Entity, Push("func"), Reveal("func", e),
         NEW size, Added(llvm, llvm', "func", Len(space["func"]) + 1, size)
  PROVE  FuncsKnown'
<1>1. "func" \in Kinds /\ llvm \in Modules
  BY DEF Kinds, IndexInv, ModuleTypes
<1>2. Len(llvm.values) \in Nat
  BY <1>1 DEF Modules
<1> DEFINE j == Len(space["func"]) + 1
           id == Len(llvm.values) + 1
<1>3. /\ j \in Nat /\ DOMAIN space'["func"] = 1 .. j
      /\ vecs'["func"][j] = id
  BY <1>1, PushedNew
<1>4. Len(llvm'.values) = id /\ llvm'.values[id].of = j
  BY DEF Added
<1>5. \A k \in 1 .. Len(llvm.values) : llvm'.values[k].kind = llvm.values[k].kind
                                       /\ llvm'.values[k].of = llvm.values[k].of
  BY DEF Added, Alike
<1>6. \A i \in DOMAIN space["func"] : i \in DOMAIN space'["func"]
                                      /\ vecs'["func"][i] = vecs["func"][i]
  BY <1>1, PushedOld
<1>7. ASSUME NEW k \in 1 .. id, llvm'.values[k].kind = "func"
      PROVE  /\ llvm'.values[k].of \in DOMAIN space'["func"]
             /\ vecs'["func"][llvm'.values[k].of] = k
  <2>1. CASE k = id
    BY <1>3, <1>4, <2>1
  <2>2. CASE k # id
    <3>1. k \in 1 .. Len(llvm.values)
      BY <1>2, <2>2
    <3> QED
      BY <1>5, <1>6, <1>7, <3>1 DEF FuncsKnown, Operand
  <2> QED
    BY <2>1, <2>2
<1> QED
  BY <1>4, <1>7 DEF FuncsKnown, Operand

(* A new value that is no function makes no difference to the functions.   *)
LEMMA FuncsKnownOther ==
  ASSUME FuncsKnown, llvm \in Modules, NEW kind, kind # "func", NEW i, NEW size,
         Added(llvm, llvm', kind, i, size),
         space'["func"] = space["func"], vecs'["func"] = vecs["func"]
  PROVE  FuncsKnown'
<1>1. Len(llvm.values) \in Nat
  BY DEF Modules
<1>2. ASSUME NEW k \in 1 .. Len(llvm.values) + 1, llvm'.values[k].kind = "func"
      PROVE  /\ llvm'.values[k].of \in DOMAIN space'["func"]
             /\ vecs'["func"][llvm'.values[k].of] = k
  <2>1. k # Len(llvm.values) + 1
    BY <1>2 DEF Added
  <2>2. k \in 1 .. Len(llvm.values)
    BY <1>1, <2>1
  <2>3. llvm'.values[k].kind = llvm.values[k].kind /\ llvm'.values[k].of = llvm.values[k].of
    BY <2>2 DEF Added, Alike
  <2> QED
    BY <1>2, <2>2, <2>3 DEF FuncsKnown, Operand
<1> QED
  BY <1>2 DEF FuncsKnown, Operand, Added

(* When something joins, what was there is carried and stays quiet.        *)
LEMMA JoinedCarried ==
  ASSUME IndexInv, NamesInv, opts' = opts, exports' = exports, NEW kind \in Kinds,
         NEW e \in Entity, Push(kind), Reveal(kind, e) \/ space' = space,
         NEW i, NEW size, NEW n, NEW out,
         Added(llvm, llvm', kind, i, size), Joins(llvm, llvm', n, out)
  PROVE  Carried /\ Known /\ Quiet
<1>1. llvm \in Modules /\ llvm' \in Modules /\ Len(llvm.values) \in Nat
      /\ Len(llvm'.values) = Len(llvm.values) + 1
  BY DEF IndexInv, ModuleTypes, Modules, Added
<1>2. \A k \in 1 .. Len(llvm.values) :
        /\ k \in 1 .. Len(llvm'.values)
        /\ llvm'.values[k].kind = llvm.values[k].kind
        /\ NameOf(llvm', k) = NameOf(llvm, k)
        /\ llvm'.values[k].external = llvm.values[k].external
  BY <1>1 DEF Added, Alike, Joins
<1>3. Known
  BY <1>1 DEF Known, NamesInv
<1> QED
  BY <1>2, <1>3, PushedOld DEF Carried, Quiet

(* A new entity that is no function has the linkage it should have.        *)
LEMMA NewLinked ==
  ASSUME IndexInv, EarlyOK, pass \in Early, exports' = exports, NEW kind \in Visible,
         NEW e \in Entity, Push(kind), Reveal(kind, e), e.imported \in BOOLEAN,
         llvm'.values[Len(llvm.values) + 1].external = e.imported,
         kind # "func" \/ e.imported,
         NEW j \in DOMAIN space'[kind] \ DOMAIN space[kind]
  PROVE  Linked(kind, j)'
<1>1. kind \in Kinds /\ kind # "table"
  BY DEF Visible
<1>2. /\ j = Len(space[kind]) + 1 /\ space'[kind][j] = e
      /\ vecs'[kind][j] = Len(llvm.values) + 1
  <2> DEFINE m == Len(space[kind])
  <2>1. /\ m + 1 \in Nat /\ DOMAIN space[kind] = 1 .. m
        /\ DOMAIN space'[kind] = 1 .. m + 1
        /\ space'[kind][m + 1] = e /\ vecs'[kind][m + 1] = Len(llvm.values) + 1
    BY <1>1, PushedNew
  <2>2. m \in Nat
    BY <1>1, TypesAt DEF IndexInv
  <2> HIDE DEF m
  <2>3. j = m + 1
    BY <2>1, <2>2
  <2> QED
    BY <2>1, <2>3 DEF m
<1>3. exports' = << >>
  BY DEF EarlyOK
<1>4. ExportsOf(kind, j)' = {}
  BY <1>3 DEF ExportsOf
<1>5. Shown(kind, j)' = e.imported
  BY <1>2 DEF Shown, Value, Operand
<1>6. /\ space'[kind][j].imported \/ ExportsOf(kind, j)' # {} => Shown(kind, j)'
      /\ Shown(kind, j)' => space'[kind][j].imported
      /\ kind = "func" => Shown(kind, j)'
  BY <1>2, <1>4, <1>5
<1> QED
  BY <1>6 DEF Linked

(* A new global, memory or table, or a second visit of one, keeps the      *)
(* invariant.                                                              *)
LEMMA OtherJoins ==
  ASSUME IndexInv, NamesInv, pass \in Early, UNCHANGED <<opts, exports, pass>>,
         NEW kind \in Kinds, kind # "func",
         NEW e \in Entity, Push(kind), Reveal(kind, e) \/ space' = space,
         NEW i, NEW size, NEW n, NEW out,
         Added(llvm, llvm', kind, i, size), Joins(llvm, llvm', n, out),
         kind # "table" => Reveal(kind, e) /\ out = e.imported
  PROVE  NamesInv'
<1>1. Carried /\ Known /\ Quiet
  BY JoinedCarried
<1>2. "func" \in Kinds /\ "func" \in Visible /\ Visible \subseteq Kinds
  BY DEF Kinds, Visible
<1>3. space'["func"] = space["func"] /\ vecs'["func"] = vecs["func"]
  BY <1>2, PushedOld
<1>4. /\ Olds
      /\ \A j \in DOMAIN space["func"] : FuncName(j)' = FuncName(j)
  BY <1>1, QuietOlds
<1>5. News
  <2>1. ASSUME NEW k \in Visible, NEW j \in DOMAIN space'[k] \ DOMAIN space[k]
        PROVE  Linked(k, j)'
    <3>1. k = kind /\ k # "table"
      BY <1>2, <2>1, PushedOld DEF Visible
    <3>2. /\ Reveal(k, e) /\ Push(k) /\ e.imported \in BOOLEAN
          /\ llvm'.values[Len(llvm.values) + 1].external = e.imported
      BY <3>1 DEF Joins, Entity
    <3>3. EarlyOK
      BY DEF NamesInv
    <3> QED
      BY <3>1, <3>2, <3>3, NewLinked
  <2> QED
    BY <1>3, <2>1 DEF News
<1>6. LinkedOK' /\ ImportsOK' /\ EntriesOK' /\ FixedOK'
  BY <1>1, <1>4, <1>5, StepOn
<1>7. ForcedOK'
  <2>1. \A j : LastExport(j)' = LastExport(j)
    BY DEF LastExport, ExportsOf
  <2> QED
    BY <1>1, <1>3, <1>4, <2>1, ForcedOn DEF NamesInv
<1>8. FuncsKnown'
  BY <1>1, <1>3, FuncsKnownOther DEF NamesInv, Known
<1>9. Unique(llvm)'
  <2>1. Unique(llvm')
    BY DEF NamesInv, Joins
  <2> QED
    BY <2>1 DEF Unique, NameOf
<1>10. NamesGiven'
  BY <1>3 DEF NamesInv, NamesGiven
<1>11. EarlyOK'
  <2>1. ASSUME NEW j \in DOMAIN space["func"], EarlyName(j)
        PROVE  EarlyName(j)'
    <3>1. FuncName(j)' = FuncName(j) /\ Wanted(j)' = Wanted(j) /\ Fix' = Fix
      BY <1>1, <1>4, CarriedWanted
    <3> QED
      BY <1>3, <2>1, <3>1 DEF EarlyName
  <2> QED
    BY <1>3, <2>1 DEF NamesInv, EarlyOK
<1> QED
  BY <1>1, <1>6, <1>7, <1>8, <1>9, <1>10, <1>11 DEF NamesInv, Known

(* Two names of functions that want to be called the same are the same,    *)
(* if it is an entry's name.                                               *)
LEMMA EntryAlone ==
  ASSUME NEW n \in FuncNames, OptDollar(n) \in OtherMains \cup {Main},
         NEW m \in FuncNames \cup LinkNames, OptDollar(m) = OptDollar(n)
  PROVE  m = n /\ n # Empty
<1>1. n \in NameType /\ m \in NameType
  BY NamesAssumption
<1>2. \A k \in NameType :
        /\ RemoveDollar(k).text = k.text /\ RemoveDollar(k).nums = k.nums
        /\ RemoveDollar(k).dollars = IF k.dollars = 0 THEN 0 ELSE k.dollars - 1
        /\ k = [dollars |-> k.dollars, text |-> k.text, nums |-> k.nums]
        /\ k.dollars \in Nat
  BY DEF RemoveDollar, NameType
<1>3. OptDollar(n).text \in {"main", "__original_main", "__main_argc_argv"}
      /\ OptDollar(n).dollars = 0
  BY DEF OtherMains, Main, Text
<1>4. OptDollar(n).text = n.text /\ OptDollar(m).text = m.text
  BY <1>1, <1>2 DEF OptDollar
<1>5. m \notin LinkNames /\ m # Empty /\ n # Empty
  <2>1. m.text \in {"main", "__original_main", "__main_argc_argv"} /\ n.text = m.text
    BY <1>3, <1>4
  <2>2. Empty.text = ""
    BY DEF Empty, Text
  <2> QED
    BY <2>1, <2>2, LinksAssumption
<1>6. m.dollars > 0 /\ n.dollars > 0
  BY <1>5, DollarsAssumption
<1>7. OptDollar(n) = RemoveDollar(n) /\ OptDollar(m) = RemoveDollar(m)
  BY <1>3, <1>6, <1>1, <1>2 DEF OptDollar
<1>8. m.dollars = n.dollars /\ m.text = n.text /\ m.nums = n.nums
  <2>1. RemoveDollar(m).dollars = RemoveDollar(n).dollars
        /\ RemoveDollar(m).text = RemoveDollar(n).text
        /\ RemoveDollar(m).nums = RemoveDollar(n).nums
    BY <1>7
  <2> QED
    BY <1>1, <1>2, <1>6, <2>1
<1>9. m = n
  BY <1>1, <1>2, <1>8
<1> QED
  BY <1>5, <1>9

(* Who has a name that something new wants.                                *)
LEMMA HolderOf ==
  ASSUME IndexInv, NamesInv, NEW n, NEW k \in 1 .. Len(llvm.values), NameOf(llvm, k) = n
  PROVE  HeldByOther(n) \/ \E j \in DOMAIN space["func"] : FuncName(j) = n
<1>1. DOMAIN llvm.values = 1 .. Len(llvm.values)
  BY DEF IndexInv, ModuleTypes, Modules
<1>2. CASE llvm.values[k].kind # "func"
  BY <1>1, <1>2 DEF HeldByOther, NameOf
<1>3. CASE llvm.values[k].kind = "func"
  <2> DEFINE j == llvm.values[k].of
  <2>1. j \in DOMAIN space["func"] /\ Operand("func", j) = k
    BY <1>3 DEF NamesInv, FuncsKnown
  <2>2. FuncName(j) = n
    BY <2>1 DEF FuncName, Value, NameOf
  <2> QED
    BY <2>1, <2>2
<1> QED
  BY <1>2, <1>3

-----------------------------------------------------------------------------
(* An imported function.                                                   *)

(* An import takes its name, unless something has it: another import of    *)
(* that name or what is no function.                                       *)
LEMMA FuncImported ==
  ASSUME IndexInv, NamesInv, pass = "imports", UNCHANGED <<opts, exports, pass>>,
         NEW e \in Entity, e.imported = TRUE, e.name \in FuncNames \cup LinkNames,
         e.name # Empty, Push("func"), Reveal("func", e),
         NEW size, Added(llvm, llvm', "func", Len(space["func"]) + 1, size),
         Joins(llvm, llvm', OptDollar(e.name), TRUE)
  PROVE  NamesInv'
<1>0. PICK m : m = Len(space["func"])
  OBVIOUS
<1> DEFINE w == OptDollar(e.name)
           id == Len(llvm.values) + 1
<1>1. "func" \in Kinds /\ "func" \in Visible /\ Visible \subseteq Kinds /\ pass \in Early
  BY DEF Kinds, Visible, Early
<1>2. Carried /\ Known /\ Quiet
  BY <1>1, JoinedCarried
<1>3. /\ m \in Nat /\ DOMAIN space["func"] = 1 .. m /\ DOMAIN space'["func"] = 1 .. m + 1
      /\ space'["func"][m + 1] = e /\ vecs'["func"][m + 1] = id
  BY <1>0, <1>1, PushedNew, TypesAt DEF IndexInv
<1>4. /\ Olds
      /\ \A j \in DOMAIN space["func"] : FuncName(j)' = FuncName(j)
  BY <1>2, QuietOlds
<1>5. Wanted(m + 1)' = w
  BY <1>2, <1>3 DEF Wanted, OptDollar, Carried
<1>6. FuncName(m + 1)' = NameOf(llvm', id)
  BY <1>3 DEF FuncName, Value, Operand, NameOf
<1>7. \/ NameOf(llvm', id) = w
      \/ /\ Continues(NameOf(llvm', id), w)
         /\ \E k \in 1 .. Len(llvm.values) : NameOf(llvm, k) = w
         /\ w # Empty
  BY Zenon DEF Joins
<1>8. /\ EarlyOK /\ \A j \in DOMAIN space["func"] : EarlyName(j)
      /\ \A j \in DOMAIN space["func"] : space["func"][j].imported
  <2>1. Imps(space["func"]) = 1 .. Len(space["func"])
    BY <1>1 DEF IndexInv, AllIndexOK, IndexOK
  <2>2. \A j \in DOMAIN space["func"] : space["func"][j].imported
    BY <1>0, <1>3, <2>1 DEF Imps
  <2> QED
    BY <1>1, <2>2 DEF NamesInv, EarlyOK
<1> HIDE DEF w, id
<1>9. ImportKept(m + 1)'
  <2>1. CASE NameOf(llvm', id) = w
    BY <1>5, <1>6, <2>1 DEF ImportKept
  <2>2. CASE NameOf(llvm', id) # w
    <3>1. PICK k \in 1 .. Len(llvm.values) : NameOf(llvm, k) = w
      BY <1>7, <2>2
    <3>2. w # Empty
      BY <1>7, <2>2
    <3>3. PICK u : u = w
      OBVIOUS
    <3>4. CASE HeldByOther(u)
      <4>1. HeldByOther(u)'
        BY <1>2, <3>4, CarriedHeld
      <4> QED
        BY <1>5, <3>3, <4>1 DEF ImportKept, HeldByOther
    <3>5. ASSUME NEW j \in DOMAIN space["func"], FuncName(j) = u
          PROVE  ImportKept(m + 1)'
      <4>1. FuncName(j) = Wanted(j) \/ FuncName(j) = Empty \/ Continues(FuncName(j), Wanted(j))
        BY <1>8 DEF EarlyName
      <4>2. w = Wanted(j) \/ Continues(w, Wanted(j))
        BY <3>2, <3>3, <3>5, <4>1
      <4>3. Wanted(j)' = Wanted(j)
        BY <1>2, CarriedWanted
      <4>4. Wanted(m + 1)' = Wanted(j)' \/ Continues(Wanted(m + 1)', Wanted(j)')
        BY <1>5, <4>2, <4>3
      <4>5. j \in 1 .. (m + 1) - 1
        BY <1>3
      <4> QED
        BY <4>4, <4>5 DEF ImportKept
    <3> QED
      BY <3>1, <3>3, <3>4, <3>5, HolderOf
  <2> QED
    BY <2>1, <2>2
<1>10. News
  <2>1. ASSUME NEW k \in Visible, NEW j \in DOMAIN space'[k] \ DOMAIN space[k]
        PROVE  Linked(k, j)'
    <3>1. k = "func"
      BY <1>1, <2>1, PushedOld
    <3>2. /\ e.imported \in BOOLEAN
          /\ llvm'.values[Len(llvm.values) + 1].external = e.imported
      BY DEF Joins
    <3> QED
      BY <1>1, <1>8, <3>1, <3>2, NewLinked
  <2>2. \A j \in DOMAIN space'["func"] \ DOMAIN space["func"] : j = m + 1
    BY <1>3
  <2>3. m + 1 \notin Defined("func")' /\ m + 1 \notin Entries'
    BY <1>3 DEF Defined, Imported, Entries
  <2> QED
    BY <1>9, <2>1, <2>2, <2>3 DEF News
<1>11. LinkedOK' /\ ImportsOK' /\ EntriesOK' /\ FixedOK'
  BY <1>2, <1>4, <1>10, StepOn
<1>12. ForcedOK'
  <2>1. exports' = << >>
    BY <1>1 DEF NamesInv, EarlyOK
  <2> QED
    BY <2>1 DEF ForcedOK, LastExport, ExportsOf
<1>13. FuncsKnown'
  BY FuncsKnownJoin DEF NamesInv
<1>14. Unique(llvm)'
  <2>1. Unique(llvm')
    BY DEF NamesInv, Joins
  <2> QED
    BY <2>1 DEF Unique, NameOf
<1>15. NamesGiven'
  <2>1. ASSUME NEW j \in DOMAIN space'["func"]
        PROVE  LET n == space'["func"][j].name
               IN  IF space'["func"][j].imported
                   THEN n \in FuncNames \cup LinkNames /\ n # Empty
                   ELSE n \in FuncNames
    <3>1. CASE j \in DOMAIN space["func"]
      <4>1. space'["func"][j] = space["func"][j]
        BY <1>1, <1>2, <3>1 DEF Carried
      <4> QED
        BY <3>1, <4>1 DEF NamesInv, NamesGiven
    <3>2. CASE j = m + 1
      BY <1>3, <3>2
    <3> QED
      BY <1>3, <3>1, <3>2
  <2> QED
    BY <2>1 DEF NamesGiven
<1>16. EarlyOK'
  <2>1. ASSUME NEW j \in DOMAIN space'["func"]
        PROVE  EarlyName(j)'
    <3>1. CASE j \in DOMAIN space["func"]
      <4>1. /\ FuncName(j)' = FuncName(j) /\ Wanted(j)' = Wanted(j) /\ Fix' = Fix
            /\ space'["func"][j] = space["func"][j]
        BY <1>1, <1>2, <1>4, <3>1, CarriedWanted DEF Carried
      <4> QED
        BY <1>8, <3>1, <4>1 DEF EarlyName
    <3>2. CASE j = m + 1
      BY <1>5, <1>6, <1>7, <3>2 DEF EarlyName
    <3> QED
      BY <1>3, <3>1, <3>2
  <2>2. exports' = << >>
    BY <1>1 DEF NamesInv, EarlyOK
  <2> QED
    BY <2>1, <2>2 DEF EarlyOK
<1> QED
  BY <1>2, <1>11, <1>12, <1>13, <1>14, <1>15, <1>16 DEF NamesInv, Known

-----------------------------------------------------------------------------
(* A function of the module itself.                                        *)

(* What declareFunc does once the function is there: value id of st, which *)
(* is called w.                                                            *)
Declares(st, su, id) ==
  LET w == NameOf(st, id)
  IN  /\ Keeps(st, su)
      /\ Unique(su)
      /\ \A k \in 1 .. Len(st.values) : k # id =>
           /\ su.values[k].external = st.values[k].external
           /\ \/ NameOf(su, k) = NameOf(st, k)
              \/ /\ Fix /\ st.values[k].kind = "func" /\ NameOf(st, k) = Main
                 /\ NameOf(su, k) = Empty /\ OptDollar(w) \in OtherMains
      /\ su.values[id].external # st.values[id].external =>
           IF Fix THEN OptDollar(w) \in OtherMains ELSE w = Main
      /\ w \in EntryNames => su.values[id].external = TRUE
      /\ Fix => /\ NameOf(su, id) \notin Bad
                /\ w \in OtherMains => NameOf(su, id) = Main \/ Held(st, Main)
      /\ ~ Fix => NameOf(su, id) = w

(* declareFunc, with and without FixNames.                                 *)
LEMMA DeclareDeclares ==
  ASSUME NEW st \in Modules, Unique(st), NEW id \in 1 .. Len(st.values)
  PROVE  Declares(st, IF Fix THEN FixedNames(st, id) ELSE MainExternal(st, id), id)
<1>1. CASE Fix
  <2>1. PICK su : su = FixedNames(st, id)
    OBVIOUS
  <2>2. Fixes(st, su, id)
    BY <2>1, FixedNamesFixes
  <2>3. EntryNames = OtherMains
    BY <1>1 DEF EntryNames, OtherMains, Fix
  <2>4. Declares(st, su, id)
    BY <1>1, <2>2, <2>3 DEF Fixes, Declares
  <2> QED
    BY <1>1, <2>1, <2>4
<1>2. CASE ~ Fix
  <2>1. PICK su : su = MainExternal(st, id)
    OBVIOUS
  <2>2. EntryNames = {Main}
    BY <1>2 DEF EntryNames, Fix
  <2>3. CASE NameOf(st, id) = Main
    <3>1. Shows(st, su, id)
      BY <2>1, <2>3, ExternalShows DEF MainExternal
    <3>2. Keeps(st, su) /\ Unique(su) /\ su.values[id].external = TRUE
      BY <3>1 DEF Shows
    <3>3. \A k \in 1 .. Len(st.values) :
            /\ k # id => su.values[k].external = st.values[k].external
            /\ NameOf(su, k) = NameOf(st, k)
      BY <3>1 DEF Shows
    <3> QED
      BY <1>2, <2>1, <2>3, <3>2, <3>3 DEF Declares
  <2>4. CASE NameOf(st, id) # Main
    <3>1. su = st /\ Keeps(st, st)
      BY <2>1, <2>4, KeepsSelf DEF MainExternal
    <3> QED
      BY <1>2, <2>1, <2>2, <2>4, <3>1 DEF Declares
  <2> QED
    BY <2>3, <2>4
<1> QED
  BY <1>1, <1>2

(* Only something that is no function can have the name of an entry.       *)
LEMMA EntryNameFree ==
  ASSUME IndexInv, NamesInv, pass \in Early, NEW n \in FuncNames, NameFree("func", n),
         OptDollar(n) \in EntryNames,
         NEW k \in 1 .. Len(llvm.values), NameOf(llvm, k) = OptDollar(n)
  PROVE  HeldByOther(OptDollar(n))
<1> DEFINE w == OptDollar(n)
<1>1. w \in OtherMains \cup {Main} /\ (Fix => w \in Bad) /\ w # Empty
  BY PlainNames DEF EntryNames, OtherMains, Fix
<1>2. SUFFICES ASSUME NEW j \in DOMAIN space["func"], FuncName(j) = w
               PROVE  FALSE
  BY HolderOf
<1>3. CASE space["func"][j].imported \/ ~ Fix
  <2>1. EarlyName(j)
    BY DEF NamesInv, EarlyOK
  <2>2. ~ Continues(w, Wanted(j))
    BY <1>1, NumberedOn, PlainNames
  <2>3. Wanted(j) = w
    BY <1>1, <1>2, <1>3, <2>1, <2>2 DEF EarlyName
  <2>4. space["func"][j].name \in FuncNames \cup LinkNames
    BY DEF NamesInv, NamesGiven
  <2>5. space["func"][j].name = n /\ n # Empty
    BY <1>1, <2>3, <2>4, EntryAlone DEF Wanted
  <2> QED
    BY <2>5 DEF NameFree
<1>4. CASE ~ space["func"][j].imported /\ Fix
  <2>1. NameFixed(j)
    BY <1>4 DEF NamesInv, FixedOK, Defined, Imported
  <2>2. ExportsOf("func", j) # {}
    BY <1>1, <1>2, <1>4, <2>1 DEF NameFixed, ExportedAs
  <2>3. exports = << >>
    BY DEF NamesInv, EarlyOK
  <2> QED
    BY <2>2, <2>3 DEF ExportsOf
<1> QED
  BY <1>3, <1>4

(* A name that goes on with a number is no entry's, with or without a      *)
(* dollar sign.                                                            *)
LEMMA NumberedNoEntry ==
  ASSUME NEW w \in Names, NEW n, Continues(w, n)
  PROVE  w \notin OtherMains \cup {Main} /\ OptDollar(w) \notin OtherMains
<1>1. w.nums # << >>
  BY NumberedOn
<1>2. OptDollar(w).nums = w.nums
  BY DEF OptDollar, RemoveDollar, Names
<1> QED
  BY <1>1, <1>2, PlainNames

(* A definition joins, and declareFunc takes main from an earlier function *)
(* only for an entry.                                                      *)
LEMMA FuncDeclared ==
  ASSUME IndexInv, NamesInv, pass = "func", UNCHANGED <<opts, exports, pass>>,
         NEW e \in Entity, e.imported = FALSE, e.name \in FuncNames,
         NameFree("func", e.name), Push("func"), Reveal("func", e),
         NEW size, NEW st, Added(llvm, st, "func", Len(space["func"]) + 1, size),
         Joins(llvm, st, OptDollar(e.name), FALSE),
         Declares(st, llvm', Len(llvm.values) + 1)
  PROVE  NamesInv'
<1>0. PICK m : m = Len(space["func"])
  OBVIOUS
<1>1. PICK id : id = Len(llvm.values) + 1
  OBVIOUS
<1>2. PICK W : W = OptDollar(e.name)
  OBVIOUS
<1>3. PICK w : w = NameOf(st, id)
  OBVIOUS
<1>4. "func" \in Kinds /\ "func" \in Visible /\ Visible \subseteq Kinds /\ pass \in Early
  BY DEF Kinds, Visible, Early
<1>5. /\ m \in Nat /\ DOMAIN space["func"] = 1 .. m /\ DOMAIN space'["func"] = 1 .. m + 1
      /\ space'["func"][m + 1] = e /\ vecs'["func"][m + 1] = id
  BY <1>0, <1>1, <1>4, PushedNew, TypesAt DEF IndexInv
<1>6. /\ llvm \in Modules /\ st \in Modules /\ llvm' \in Modules /\ Len(llvm.values) \in Nat
      /\ Len(st.values) = id /\ id \in Nat /\ id \in 1 .. Len(st.values)
      /\ Len(llvm'.values) = id /\ Keeps(st, llvm')
      /\ \A k \in 1 .. Len(llvm.values) : k \in 1 .. Len(st.values) /\ k # id
      /\ \A k \in 1 .. Len(st.values) : k # id => k \in 1 .. Len(llvm.values)
      /\ st.values[id].kind = "func"
  <2>1. llvm \in Modules /\ st \in Modules /\ llvm' \in Modules
    BY DEF IndexInv, ModuleTypes, Added, Declares, Keeps
  <2>2. Len(llvm.values) \in Nat
    BY <2>1 DEF Modules
  <2> QED
    BY <1>1, <2>1, <2>2 DEF Added, Declares, Keeps, SameValues
(* The module with the function in it.                                     *)
<1>7. /\ \A k \in 1 .. Len(llvm.values) :
           /\ st.values[k].kind = llvm.values[k].kind
           /\ st.values[k].external = llvm.values[k].external
           /\ NameOf(st, k) = NameOf(llvm, k)
      /\ st.values[id].external = FALSE
      /\ w \in Names
  <2>1. st.values[id].external = FALSE
    BY <1>1 DEF Joins
  <2>2. w \in Names
    BY <1>3, <1>6, NameOfFacts
  <2> QED
    BY <2>1, <2>2 DEF Added, Alike, Joins
<1>8. \/ w = W
      \/ /\ Continues(w, W)
         /\ \E k \in 1 .. Len(llvm.values) : NameOf(llvm, k) = W
  BY <1>1, <1>2, <1>3, Zenon DEF Joins
<1>9. W \in EntryNames => w = W \/ HeldByOther(W)
  BY <1>2, <1>4, <1>8, EntryNameFree
<1>10. /\ w \in OtherMains \cup {Main} => w = W
       /\ OptDollar(w) \in OtherMains => w = W
  BY <1>7, <1>8, NumberedNoEntry
(* ... and after it.                                                       *)
<1>11. /\ \A k \in 1 .. Len(llvm.values) :
            /\ llvm'.values[k].kind = llvm.values[k].kind
            /\ llvm'.values[k].external = llvm.values[k].external
            /\ \/ NameOf(llvm', k) = NameOf(llvm, k)
               \/ /\ Fix /\ llvm.values[k].kind = "func" /\ NameOf(llvm, k) = Main
                  /\ NameOf(llvm', k) = Empty /\ OptDollar(w) \in OtherMains
       /\ llvm'.values[id].kind = "func"
  <2>1. \A k \in 1 .. Len(st.values) : llvm'.values[k].kind = st.values[k].kind
    BY <1>6 DEF Keeps, SameValues, Alike
  <2>2. \A k \in 1 .. Len(llvm.values) :
          /\ llvm'.values[k].external = st.values[k].external
          /\ \/ NameOf(llvm', k) = NameOf(st, k)
             \/ /\ Fix /\ st.values[k].kind = "func" /\ NameOf(st, k) = Main
                /\ NameOf(llvm', k) = Empty /\ OptDollar(w) \in OtherMains
    BY <1>1, <1>3, <1>6 DEF Declares
  <2> QED
    BY <1>6, <1>7, <2>1, <2>2
<1>12. /\ llvm'.values[id].external # FALSE =>
            IF Fix THEN OptDollar(w) \in OtherMains ELSE w = Main
       /\ w \in EntryNames => llvm'.values[id].external = TRUE
       /\ Fix => /\ NameOf(llvm', id) \notin Bad
                 /\ w \in OtherMains => NameOf(llvm', id) = Main \/ Held(st, Main)
       /\ ~ Fix => NameOf(llvm', id) = w
  BY <1>1, <1>3, <1>7 DEF Declares
<1>13. Carried /\ Known
  <2>1. Known
    BY <1>6 DEF Known, NamesInv
  <2>2. \A k \in 1 .. Len(llvm.values) : k \in 1 .. Len(llvm'.values)
    BY <1>6
  <2>3. \A k \in Kinds : \A i \in DOMAIN space[k] :
              /\ i \in DOMAIN space'[k]
              /\ space'[k][i] = space[k][i]
              /\ vecs'[k][i] = vecs[k][i]
    BY <1>4, PushedOld
  <2> QED
    BY <1>11, <2>1, <2>2, <2>3 DEF Carried
<1>14. /\ Wanted(m + 1)' = W /\ EntryNames' = EntryNames /\ Fix' = Fix
       /\ FuncName(m + 1)' = NameOf(llvm', id)
       /\ Shown("func", m + 1)' = llvm'.values[id].external
       /\ OptDollar(W)' = OptDollar(W)
  <2>1. opts' = opts
    BY <1>13 DEF Carried
  <2>2. Wanted(m + 1)' = W
    BY <1>2, <1>5, <2>1 DEF Wanted, OptDollar
  <2>3. EntryNames' = EntryNames /\ Fix' = Fix
    BY <2>1 DEF EntryNames, Fix
  <2>4. FuncName(m + 1)' = NameOf(llvm', id) /\ Shown("func", m + 1)' = llvm'.values[id].external
    BY <1>5 DEF FuncName, Value, Operand, NameOf, Shown
  <2> QED
    BY <2>1, <2>2, <2>3, <2>4 DEF OptDollar
<1>15. m + 1 \in Defined("func")' /\ m + 1 \notin Imported("func")'
  BY <1>5 DEF Defined, Imported
<1>16. /\ m + 1 \in Entries' => W \in EntryNames
       /\ (IF Fix THEN OptDollar(w) \in OtherMains ELSE w = Main) => m + 1 \in TakenForEntry'
  <2>1. m + 1 \in Entries' => W \in EntryNames
    BY <1>14 DEF Entries
  <2>2. ASSUME IF Fix THEN OptDollar(w) \in OtherMains ELSE w = Main
        PROVE  m + 1 \in TakenForEntry'
    <3>1. w = W
      BY <1>10, <2>2
    <3>2. EntryNames = IF Fix THEN OtherMains ELSE {Main}
      BY DEF EntryNames, OtherMains, Fix
    <3>3. (IF Fix' THEN OptDollar(W)' ELSE W) \in EntryNames'
      BY <1>14, <2>2, <3>1, <3>2
    <3>4. OptDollar(Wanted(m + 1))' = OptDollar(W)'
      BY <1>14 DEF OptDollar
    <3> QED
      BY <1>14, <1>15, <3>3, <3>4 DEF TakenForEntry, Fix
  <2> QED
    BY <2>1, <2>2
<1>17. exports' = << >> /\ exports = << >>
  BY <1>4 DEF NamesInv, EarlyOK
<1>18. ASSUME NEW i \in DOMAIN space["func"]
       PROVE  \/ FuncName(i)' = FuncName(i)
              \/ Fix /\ FuncName(i) = Main /\ FuncName(i)' = Empty /\ m + 1 \in TakenForEntry'
  <2>1. vecs'["func"][i] = vecs["func"][i] /\ vecs["func"][i] \in 1 .. Len(llvm.values)
    BY <1>4, <1>13, OldValue DEF Carried, Operand
  <2>2. FuncName(i) = NameOf(llvm, vecs["func"][i]) /\ FuncName(i)' = NameOf(llvm', vecs["func"][i])
    BY <2>1 DEF FuncName, Value, Operand, NameOf
  <2> QED
    BY <1>11, <1>16, <2>1, <2>2
<1>19. Olds
  <2>1. ASSUME NEW i \in DOMAIN space["func"]
        PROVE  Cause(i) /\ Gain(i)
    <3>1. CASE FuncName(i)' = FuncName(i)
      BY <3>1 DEF Cause, Gain
    <3>2. CASE Fix /\ FuncName(i) = Main /\ FuncName(i)' = Empty /\ m + 1 \in TakenForEntry'
      <4>1. m + 1 > i
        BY <1>5
      <4>2. Cause(i)
        BY <3>2, <4>1 DEF Cause
      <4>3. (FuncName(i) \notin Bad)'
        BY <3>2, PlainNames DEF Bad
      <4> QED
        BY <4>2, <4>3 DEF Gain
    <3> QED
      BY <1>18, <3>1, <3>2
  <2>2. ASSUME NEW kind \in Visible, NEW i \in DOMAIN space[kind]
        PROVE  Shown(kind, i)' <=> Shown(kind, i) \/ ExportsOf(kind, i)' # {}
    <3>1. vecs'[kind][i] = vecs[kind][i] /\ vecs[kind][i] \in 1 .. Len(llvm.values)
      BY <1>4, <1>13, OldValue DEF Carried, Operand
    <3>2. Shown(kind, i)' = Shown(kind, i)
      BY <1>11, <3>1 DEF Shown, Value, Operand
    <3>3. ExportsOf(kind, i)' = {}
      BY <1>17 DEF ExportsOf
    <3> QED
      BY <3>2, <3>3
  <2> QED
    BY <2>1, <2>2 DEF Olds
<1>20. HeldByOther(W) => HeldByOther(W)'
  BY <1>13, CarriedHeld
<1>21. Linked("func", m + 1)'
  <2>1. ExportsOf("func", m + 1)' = {} /\ ~ space'["func"][m + 1].imported
    BY <1>5, <1>17 DEF ExportsOf
  <2>2. Shown("func", m + 1)' => m + 1 \in TakenForEntry'
    BY <1>12, <1>14, <1>16
  <2>3. m + 1 \in Entries' /\ ~ HeldByOther(Wanted(m + 1))' => Shown("func", m + 1)'
    <3>1. HeldByOther(Wanted(m + 1))' <=> HeldByOther(W)'
      BY <1>14 DEF HeldByOther
    <3> QED
      BY <1>9, <1>12, <1>14, <1>16, <1>20, <3>1
  <2> QED
    BY <2>1, <2>2, <2>3 DEF Linked
<1>22. ASSUME Fix', m + 1 \in Entries'
       PROVE  EntryKept(m + 1)'
  <2>1. W \in OtherMains /\ Fix
    BY <1>14, <1>16, <1>22 DEF EntryNames, OtherMains, Fix
  <2>2. CASE HeldByOther(W)
    <3>1. HeldByOther(W)'
      BY <1>20, <2>2
    <3> QED
      BY <1>14, <3>1 DEF EntryKept, HeldByOther
  <2>3. CASE w = W /\ NameOf(llvm', id) = Main
    BY <1>14, <2>3 DEF EntryKept
  <2>4. CASE w = W /\ Held(st, Main)
    <3>1. PICK k \in 1 .. Len(st.values) : st.values[k].kind # "func" /\ NameOf(st, k) = Main
      BY <2>4 DEF Held
    <3>2. k \in 1 .. Len(llvm.values)
      BY <1>6, <3>1
    <3>3. llvm.values[k].kind # "func" /\ NameOf(llvm, k) = Main
      BY <1>7, <3>1, <3>2
    <3>4. DOMAIN llvm.values = 1 .. Len(llvm.values)
      BY <1>6 DEF Modules
    <3>5. HeldByOther(Main)
      BY <3>2, <3>3, <3>4 DEF HeldByOther, NameOf
    <3>6. HeldByOther(Main)'
      BY <1>13, <3>5, CarriedHeld
    <3> QED
      BY <3>6 DEF EntryKept
  <2> QED
    BY <1>9, <1>12, <1>16, <1>22, <2>1, <2>2, <2>3, <2>4
<1>23. Fix' => NameFixed(m + 1)'
  <2>1. SUFFICES ASSUME Fix' PROVE (FuncName(m + 1) \notin Bad)'
    BY DEF NameFixed
  <2> QED
    BY <1>12, <1>14, <2>1 DEF Bad
<1>24. News
  <2>1. ASSUME NEW k \in Visible, NEW j \in DOMAIN space'[k] \ DOMAIN space[k]
        PROVE  k = "func" /\ j = m + 1
    <3>1. k = "func"
      BY <1>4, <2>1, PushedOld
    <3> QED
      BY <1>5, <2>1, <3>1
  <2>2. \A k \in Visible : \A j \in DOMAIN space'[k] \ DOMAIN space[k] : Linked(k, j)'
    BY <1>21, <2>1
  <2>3. \A j \in DOMAIN space'["func"] \ DOMAIN space["func"] : j = m + 1
    BY <1>4, <2>1
  <2> QED
    BY <1>15, <1>22, <1>23, <2>2, <2>3 DEF News
<1>25. LinkedOK' /\ ImportsOK' /\ EntriesOK' /\ FixedOK'
  BY <1>13, <1>19, <1>24, StepOn
<1>26. ForcedOK'
  BY <1>17 DEF ForcedOK, LastExport, ExportsOf
<1>27. FuncsKnown'
  <2>1. Added(llvm, llvm', "func", Len(space["func"]) + 1, size)
    BY <1>6, AddedKeeps
  <2> QED
    BY <2>1, FuncsKnownJoin DEF NamesInv
<1>28. Unique(llvm)'
  <2>1. Unique(llvm')
    BY DEF Declares
  <2> QED
    BY <2>1 DEF Unique, NameOf
<1>29. NamesGiven'
  <2>1. ASSUME NEW j \in DOMAIN space'["func"]
        PROVE  LET n == space'["func"][j].name
               IN  IF space'["func"][j].imported
                   THEN n \in FuncNames \cup LinkNames /\ n # Empty
                   ELSE n \in FuncNames
    <3>1. CASE j \in DOMAIN space["func"]
      <4>1. space'["func"][j] = space["func"][j]
        BY <1>4, <1>13, <3>1 DEF Carried
      <4> QED
        BY <3>1, <4>1 DEF NamesInv, NamesGiven
    <3>2. CASE j = m + 1
      BY <1>5, <3>2
    <3> QED
      BY <1>5, <3>1, <3>2
  <2> QED
    BY <2>1 DEF NamesGiven
<1>30. EarlyOK'
  <2>1. ASSUME NEW j \in DOMAIN space'["func"]
        PROVE  EarlyName(j)'
    <3>1. CASE j \in DOMAIN space["func"]
      <4>1. /\ Wanted(j)' = Wanted(j) /\ Fix' = Fix
            /\ space'["func"][j] = space["func"][j]
            /\ FuncName(j)' = FuncName(j) \/ FuncName(j)' = Empty
        BY <1>4, <1>13, <1>18, <3>1, CarriedWanted DEF Carried
      <4>2. EarlyName(j)
        BY <1>4, <3>1 DEF NamesInv, EarlyOK
      <4> QED
        BY <4>1, <4>2 DEF EarlyName
    <3>2. CASE j = m + 1
      <4>1. space'["func"][m + 1].imported = FALSE
        BY <1>5
      <4>2. ~ Fix => FuncName(m + 1)' = W \/ Continues(FuncName(m + 1)', W)
        BY <1>8, <1>12, <1>14
      <4> QED
        BY <1>14, <3>2, <4>1, <4>2 DEF EarlyName
    <3> QED
      BY <1>5, <3>1, <3>2
  <2> QED
    BY <1>17, <2>1 DEF EarlyOK
<1> QED
  BY <1>13, <1>25, <1>26, <1>27, <1>28, <1>29, <1>30 DEF NamesInv, Known

-----------------------------------------------------------------------------
(* Exports and default names.                                              *)

(* A step that only changes names, for a cause, keeps the invariant.       *)
LEMMA NamingStep ==
  ASSUME IndexInv, NamesInv, UNCHANGED <<opts, space, vecs>>,
         Keeps(llvm, llvm'), Unique(llvm'), Carried, Olds, ForcedOK',
         exports' \in Seq(ExportRecords), pass' \notin Early
  PROVE  NamesInv'
<1>1. llvm \in Modules /\ llvm' \in Modules
  BY DEF IndexInv, ModuleTypes, Keeps
<1>2. Known
  BY <1>1 DEF Known, NamesInv
<1>3. News
  BY DEF News
<1>4. LinkedOK' /\ ImportsOK' /\ EntriesOK' /\ FixedOK'
  BY <1>2, <1>3, StepOn
<1>5. FuncsKnown'
  BY <1>1, FuncsKnownOn DEF NamesInv, Keeps, SameValues, Alike
<1>6. Unique(llvm)'
  BY DEF Unique, NameOf
<1>7. NamesGiven'
  BY DEF NamesInv, NamesGiven
<1>8. EarlyOK'
  BY DEF EarlyOK
<1> QED
  BY <1>4, <1>5, <1>6, <1>7, <1>8 DEF NamesInv

(* A default name.                                                         *)
LEMMA DefaultNamed ==
  ASSUME IndexInv, NamesInv, DefaultName
  PROVE  NamesInv'
<1>0. PICK id : id = vecs["func"][pos + 1]
  OBVIOUS
<1>1. /\ pass = "names" /\ UNCHANGED <<opts, pass, space, vecs, exports>>
      /\ pos < Len(vecs["func"])
      /\ llvm' = IF NameOf(llvm, id) = Empty
                 THEN SetName(llvm, id, Numbered("func_", pos)) ELSE llvm
  BY <1>0 DEF DefaultName
<1>2. pass \notin Early /\ pass' \notin Early
  BY <1>1 DEF Early
<1>3. PICK m : m = Numbered("func_", pos)
  OBVIOUS
<1>4. m \in Names /\ m.nums # << >> /\ "func" \in Kinds
  <2>1. "func_" \in Texts /\ pos \in Nat
    BY DEF Texts, IndexInv, ModuleTypes
  <2> QED
    BY <1>3, <2>1, NumberedFacts DEF Numbered, Kinds
<1>5. llvm \in Modules /\ id \in 1 .. Len(llvm.values)
  <2>1. pos \in Nat /\ Len(vecs["func"]) \in Nat
    BY <1>4, TypesAt DEF IndexInv, ModuleTypes
  <2>2. pos + 1 \in 1 .. Len(vecs["func"])
    BY <1>1, <2>1
  <2> QED
    BY <1>0, <1>4, <2>2, OperandFacts DEF Operand
<1>6. CASE NameOf(llvm, id) # Empty
  <2>1. UNCHANGED <<opts, space, vecs, exports, llvm>>
    BY <1>1, <1>6
  <2> QED
    BY <1>2, <1>5, <2>1, StillStep DEF NameOf
<1>7. CASE NameOf(llvm, id) = Empty
  <2>1. Gives(llvm, llvm', id, m)
    BY <1>1, <1>3, <1>4, <1>5, <1>7, SetNameGives
  <2>2. Keeps(llvm, llvm') /\ Unique(llvm')
    BY <2>1 DEF Gives, NamesInv
  <2>3. llvm.values[id].kind = "func"
    <3>1. pos \in Nat /\ Len(vecs["func"]) \in Nat
      BY <1>4, TypesAt DEF IndexInv, ModuleTypes
    <3>2. IndexOK("func", space["func"], vecs["func"], llvm, pass)
      BY <1>4 DEF IndexInv, AllIndexOK
    <3>3. Len(vecs["func"]) = Len(space["func"])
      BY <3>2 DEF IndexOK
    <3>4. pos + 1 \in 1 .. Len(space["func"])
      BY <1>1, <3>1, <3>3
    <3>5. Stands(llvm, vecs["func"][pos + 1], "func", pos + 1, space["func"][pos + 1])
      BY <3>2, <3>4 DEF IndexOK, Right
    <3> QED
      BY <1>0, <3>5 DEF Stands
  <2>4. Carried /\ Known
    <3>1. \A k \in 1 .. Len(llvm.values) :
           /\ llvm'.values[k].kind = llvm.values[k].kind
           /\ llvm.values[k].kind # "func" => NameOf(llvm', k) = NameOf(llvm, k)
      BY <2>1, <2>3 DEF Gives, Keeps, SameValues, Alike
    <3>2. Len(llvm'.values) = Len(llvm.values) /\ llvm' \in Modules
      BY <2>2 DEF Keeps, SameValues
    <3> QED
      BY <1>1, <1>5, <3>1, <3>2, SameCarried DEF Known, NamesInv
  <2>5. NameOf(llvm', id) \notin Bad
    <3>1. CASE NameOf(llvm', id) = m
      BY <1>4, <3>1, PlainNames
    <3>2. CASE Continues(NameOf(llvm', id), m)
      BY <3>2, NumberedOn
    <3> QED
      BY <2>1, <3>1, <3>2, Zenon DEF Gives
  <2>6. ASSUME NEW i \in DOMAIN space["func"]
        PROVE  \/ FuncName(i)' = FuncName(i)
               \/ FuncName(i) = Empty /\ (FuncName(i) \notin Bad)'
    <3>1. /\ vecs'["func"][i] = vecs["func"][i] /\ vecs["func"][i] \in 1 .. Len(llvm.values)
      BY <1>1, <1>4, OldValue DEF Operand
    <3>2. FuncName(i) = NameOf(llvm, vecs["func"][i]) /\ FuncName(i)' = NameOf(llvm', vecs["func"][i])
      BY <3>1 DEF FuncName, Value, Operand, NameOf
    <3>3. CASE vecs["func"][i] = id
      BY <1>7, <2>5, <3>2, <3>3 DEF Bad
    <3>4. CASE vecs["func"][i] # id
      BY <2>1, <3>1, <3>2, <3>4 DEF Gives
    <3> QED
      BY <3>3, <3>4
  <2>7. Olds
    <3>1. \A i \in DOMAIN space["func"] : Cause(i) /\ Gain(i)
      BY <2>6 DEF Cause, Gain
    <3>2. ASSUME NEW kind \in Visible, NEW i \in DOMAIN space[kind]
          PROVE  Shown(kind, i)' <=> Shown(kind, i) \/ ExportsOf(kind, i)' # {}
      <4>1. vecs'[kind][i] = vecs[kind][i] /\ vecs[kind][i] \in 1 .. Len(llvm.values)
        BY <1>1, OldValue DEF Operand, Visible
      <4>2. Shown(kind, i)' = Shown(kind, i)
        BY <2>1, <4>1 DEF Shown, Value, Operand, Gives
      <4>3. ExportsOf(kind, i)' = ExportsOf(kind, i)
        BY <1>1 DEF ExportsOf
      <4>4. ExportsOf(kind, i) # {} => Shown(kind, i)
        BY DEF NamesInv, LinkedOK, Linked
      <4> QED
        BY <4>2, <4>3, <4>4
    <3> QED
      BY <3>1, <3>2 DEF Olds
  <2>8. ForcedOK'
    <3>1. \A i : LastExport(i)' = LastExport(i)
      BY <1>1 DEF LastExport, ExportsOf
    <3> QED
      BY <1>1, <2>4, <2>6, <3>1, ForcedOn DEF NamesInv
  <2> QED
    BY <1>1, <1>2, <2>2, <2>4, <2>7, <2>8, NamingStep DEF NamesInv
<1> QED
  BY <1>6, <1>7

(* Different indices find different values.                                *)
LEMMA OtherOperand ==
  ASSUME IndexInv, NEW kind \in Kinds, NEW i \in DOMAIN space[kind],
         NEW k \in Visible, NEW j \in DOMAIN space[k],
         kind # "table", k # kind \/ j # i
  PROVE  vecs[k][j] # vecs[kind][i]
<1>1. k \in Kinds /\ k # "table"
  BY DEF Visible
<1>2. /\ llvm.values[vecs[k][j]].kind = k /\ llvm.values[vecs[k][j]].of = j
      /\ llvm.values[vecs[kind][i]].kind = kind /\ llvm.values[vecs[kind][i]].of = i
  <2>1. IndexOK(k, space[k], vecs[k], llvm, pass) /\ IndexOK(kind, space[kind], vecs[kind], llvm, pass)
    BY <1>1 DEF IndexInv, AllIndexOK
  <2>2. j \in 1 .. Len(space[k]) /\ i \in 1 .. Len(space[kind])
    BY <1>1, TypesAt DEF IndexInv
  <2> QED
    BY <1>1, <2>1, <2>2 DEF IndexOK, Right, Stands
<1> QED
  BY <1>2

(* The exports with one more.                                              *)
LEMMA ExportAdded ==
  ASSUME exports \in Seq(ExportRecords), NEW kind \in Kinds, NEW i \in Nat, NEW n \in Names,
         exports' = Append(exports, [kind |-> kind, index |-> i, name |-> n])
  PROVE  LET l == Len(exports) + 1
         IN  /\ exports' \in Seq(ExportRecords)
             /\ l \in Nat /\ DOMAIN exports = 1 .. l - 1 /\ DOMAIN exports' = 1 .. l
             /\ Len(exports) = l - 1 /\ Len(exports') = l
             /\ exports'[l].kind = kind /\ exports'[l].index = i /\ exports'[l].name = n
             /\ \A k \in DOMAIN exports : k \in DOMAIN exports' /\ exports'[k] = exports[k]
             /\ l \in ExportsOf(kind, i)'
             /\ \A k, j : k # kind \/ j # i => ExportsOf(k, j)' = ExportsOf(k, j)
<1> DEFINE l == Len(exports) + 1
           r == [kind |-> kind, index |-> i, name |-> n]
<1>1. r \in ExportRecords /\ r.kind = kind /\ r.index = i /\ r.name = n
  BY DEF ExportRecords
<1> HIDE DEF r
<1>2. /\ exports' \in Seq(ExportRecords)
      /\ l \in Nat /\ DOMAIN exports = 1 .. l - 1 /\ DOMAIN exports' = 1 .. l
      /\ Len(exports) = l - 1 /\ Len(exports') = l
      /\ exports'[l] = r
      /\ \A k \in DOMAIN exports : k \in DOMAIN exports' /\ exports'[k] = exports[k]
  <2>1. exports' = Append(exports, r)
    BY DEF r
  <2> QED
    BY <1>1, <2>1
<1> HIDE DEF l
<1>3. l \in ExportsOf(kind, i)'
  BY <1>1, <1>2 DEF ExportsOf
<1>4. ASSUME NEW k, NEW j, k # kind \/ j # i
      PROVE  ExportsOf(k, j)' = ExportsOf(k, j)
  <2>1. l \notin ExportsOf(k, j)'
    BY <1>1, <1>2, <1>4 DEF ExportsOf
  <2>2. \A q \in DOMAIN exports' : q = l \/ q \in DOMAIN exports
    BY <1>2
  <2>3. ASSUME NEW q
        PROVE  q \in ExportsOf(k, j)' <=> q \in ExportsOf(k, j)
    BY <1>2, <2>1, <2>2 DEF ExportsOf
  <2> QED
    BY <2>3 DEF ExportsOf
<1> QED
  BY <1>1, <1>2, <1>3, <1>4 DEF l

(* What an export does, whatever it does to names.                         *)
LEMMA Exported ==
  ASSUME IndexInv, NamesInv, pass = "exports",
         UNCHANGED <<opts, pass, space, vecs>>,
         NEW kind \in Kinds, NEW i \in DOMAIN space[kind], NEW n \in Names,
         exports' = Append(exports, [kind |-> kind, index |-> i, name |-> n]),
         Keeps(llvm, llvm'), Unique(llvm'), Carried,
         \A k \in 1 .. Len(llvm.values) : k # vecs[kind][i] =>
           llvm'.values[k].external = llvm.values[k].external,
         IF kind = "table" THEN llvm' = llvm
         ELSE llvm'.values[vecs[kind][i]].external = TRUE,
         \A j \in DOMAIN space["func"] : Cause(j) /\ Gain(j),
         ForcedOK'
  PROVE  NamesInv'
<1>1. i \in Nat
  BY TypesAt DEF IndexInv
<1>2. exports \in Seq(ExportRecords)
  BY DEF NamesInv
<1>3. PICK l : l = Len(exports) + 1
  OBVIOUS
<1>4. /\ exports' \in Seq(ExportRecords) /\ l \in ExportsOf(kind, i)'
      /\ \A k, j : k # kind \/ j # i => ExportsOf(k, j)' = ExportsOf(k, j)
  BY <1>1, <1>2, <1>3, ExportAdded
<1>5. ASSUME NEW k \in Visible, NEW j \in DOMAIN space[k]
      PROVE  Shown(k, j)' <=> Shown(k, j) \/ ExportsOf(k, j)' # {}
  <2>1. vecs[k][j] \in 1 .. Len(llvm.values) /\ k # "table"
    BY OldValue DEF Operand, Visible
  <2>2. CASE k = kind /\ j = i
    <3>1. Shown(k, j)' = TRUE
      BY <2>1, <2>2 DEF Shown, Value, Operand
    <3> QED
      BY <1>4, <2>2, <3>1
  <2>3. CASE ~ (k = kind /\ j = i)
    <3>1. Shown(k, j)' = Shown(k, j)
      <4>1. CASE kind = "table"
        BY <4>1 DEF Shown, Value, Operand
      <4>2. CASE kind # "table"
        <5>1. vecs[k][j] # vecs[kind][i]
          BY <2>3, <4>2, OtherOperand
        <5> QED
          BY <2>1, <5>1 DEF Shown, Value, Operand
      <4> QED
        BY <4>1, <4>2
    <3>2. ExportsOf(k, j)' = ExportsOf(k, j)
      BY <1>4, <2>3
    <3>3. ExportsOf(k, j) # {} => Shown(k, j)
      BY DEF NamesInv, LinkedOK, Linked
    <3> QED
      BY <3>1, <3>2, <3>3
  <2> QED
    BY <2>2, <2>3
<1>6. Olds
  BY <1>5 DEF Olds
<1>7. pass' \notin Early
  BY DEF Early
<1> QED
  BY <1>4, <1>6, <1>7, NamingStep

(* An export that gives no name away.                                      *)
LEMMA LastExportOn ==
  ASSUME exports \in Seq(ExportRecords), NEW kind \in Kinds, NEW i \in Nat, NEW n \in Names,
         exports' = Append(exports, [kind |-> kind, index |-> i, name |-> n]),
         NEW j, kind # "func" \/ j # i \/ n = Empty
  PROVE  LastExport(j)' \subseteq LastExport(j)
<1>1. PICK l : l = Len(exports) + 1
  OBVIOUS
<1>2. /\ l \in Nat /\ DOMAIN exports = 1 .. l - 1 /\ DOMAIN exports' = 1 .. l
      /\ exports'[l].kind = kind /\ exports'[l].index = i /\ exports'[l].name = n
      /\ \A k \in DOMAIN exports : k \in DOMAIN exports' /\ exports'[k] = exports[k]
  BY <1>1, ExportAdded
<1>3. SUFFICES ASSUME NEW k \in LastExport(j)' PROVE k \in LastExport(j)
  OBVIOUS
<1>4. k # l
  BY <1>2, <1>3 DEF LastExport, ExportsOf
<1>5. k \in DOMAIN exports
  BY <1>2, <1>3, <1>4 DEF LastExport, ExportsOf
<1>6. k \in ExportsOf("func", j) /\ exports[k].name # Empty
  BY <1>2, <1>3, <1>5 DEF LastExport, ExportsOf
<1>7. ASSUME NEW q \in ExportsOf("func", j), q > k
      PROVE  exports[q].name = Empty
  <2>1. q \in ExportsOf("func", j)' /\ exports'[q] = exports[q]
    BY <1>2 DEF ExportsOf
  <2> QED
    BY <1>3, <1>7, <2>1 DEF LastExport
<1> QED
  BY <1>6, <1>7 DEF LastExport

(* An export under which no name changes.                                  *)
LEMMA ExportKeepsNames ==
  ASSUME IndexInv, NamesInv, pass = "exports",
         UNCHANGED <<opts, pass, space, vecs>>,
         NEW kind \in Kinds, NEW i \in DOMAIN space[kind], NEW n \in Names,
         exports' = Append(exports, [kind |-> kind, index |-> i, name |-> n]),
         IF kind = "table" THEN llvm' = llvm
         ELSE llvm' = External(llvm, vecs[kind][i]),
         kind # "func" \/ n = Empty \/ ~ Forced
  PROVE  NamesInv'
<1>0. PICK id : id = vecs[kind][i]
  OBVIOUS
<1>1. /\ llvm \in Modules /\ id \in 1 .. Len(llvm.values) /\ i \in Nat
      /\ exports \in Seq(ExportRecords)
  BY <1>0, EntityOperand, TypesAt DEF Operand, IndexInv, NamesInv
<1>2. /\ Keeps(llvm, llvm') /\ Unique(llvm')
      /\ \A k \in 1 .. Len(llvm.values) : NameOf(llvm', k) = NameOf(llvm, k)
      /\ \A k \in 1 .. Len(llvm.values) : k # id =>
           llvm'.values[k].external = llvm.values[k].external
      /\ kind # "table" => llvm'.values[id].external = TRUE
  <2>1. CASE kind = "table"
    BY <1>1, <2>1, KeepsSelf DEF NamesInv
  <2>2. CASE kind # "table"
    <3>1. Shows(llvm, llvm', id)
      BY <1>0, <1>1, <2>2, ExternalShows
    <3> QED
      BY <2>2, <3>1 DEF Shows, NamesInv
  <2> QED
    BY <2>1, <2>2
<1>3. Carried /\ Known
  <2>1. /\ exports' \in Seq(ExportRecords)
        /\ \A k \in DOMAIN exports : k \in DOMAIN exports' /\ exports'[k] = exports[k]
    BY <1>1, ExportAdded
  <2>2. \A k \in 1 .. Len(llvm.values) :
          /\ k \in 1 .. Len(llvm'.values)
          /\ llvm'.values[k].kind = llvm.values[k].kind
    BY <1>2 DEF Keeps, SameValues, Alike
  <2>3. llvm' \in Modules
    BY <1>2 DEF Keeps
  <2> QED
    BY <1>1, <1>2, <2>1, <2>2, <2>3 DEF Carried, Known
<1>4. \A j \in DOMAIN space["func"] : FuncName(j)' = FuncName(j)
  <2>1. ASSUME NEW j \in DOMAIN space["func"]
        PROVE  FuncName(j)' = FuncName(j)
    <3>1. vecs["func"][j] \in 1 .. Len(llvm.values)
      BY OldValue DEF Operand, Kinds
    <3> QED
      BY <1>2, <3>1 DEF FuncName, Value, Operand, NameOf
  <2> QED
    BY <2>1
<1>5. ForcedOK'
  <2>1. CASE ~ Forced
    BY <2>1 DEF ForcedOK, Forced
  <2>2. CASE kind # "func" \/ n = Empty
    <3>1. \A j : LastExport(j)' \subseteq LastExport(j)
      BY <1>1, <2>2, LastExportOn
    <3> QED
      BY <1>3, <1>4, <3>1, ForcedOn DEF NamesInv
  <2> QED
    BY <2>1, <2>2
<1>6. \A j \in DOMAIN space["func"] : Cause(j) /\ Gain(j)
  BY <1>4 DEF Cause, Gain
<1> QED
  BY <1>0, <1>2, <1>3, <1>5, <1>6, Exported

(* A function that the export names: it had no name, or the option forces  *)
(* the name on it.                                                         *)
LEMMA ExportNamesFunc ==
  ASSUME IndexInv, NamesInv, pass = "exports",
         UNCHANGED <<opts, pass, space, vecs>>,
         NEW i \in DOMAIN space["func"], NEW n \in Names, n # Empty,
         \A k \in DOMAIN exports : exports[k].name # n,
         exports' = Append(exports, [kind |-> "func", index |-> i, name |-> n]),
         IF Forced
         THEN llvm' = ForceName(External(llvm, vecs["func"][i]), vecs["func"][i], n)
         ELSE /\ FuncName(i) = Empty
              /\ llvm' = SetName(External(llvm, vecs["func"][i]), vecs["func"][i], n)
  PROVE  NamesInv'
<1>0. PICK id : id = vecs["func"][i]
  OBVIOUS
<1>1. PICK st : st = External(llvm, id)
  OBVIOUS
<1>2. "func" \in Kinds /\ "func" \in Visible
  BY DEF Kinds, Visible
<1>3. /\ llvm \in Modules /\ id \in 1 .. Len(llvm.values) /\ i \in Nat
      /\ exports \in Seq(ExportRecords) /\ llvm.values[id].kind = "func"
  <2>1. i \in 1 .. Len(space["func"]) /\ i \in Nat
    BY <1>2, TypesAt DEF IndexInv
  <2>2. IndexOK("func", space["func"], vecs["func"], llvm, pass)
    BY <1>2 DEF IndexInv, AllIndexOK
  <2>3. llvm.values[id].kind = "func"
    BY <1>0, <2>1, <2>2 DEF IndexOK, Right, Stands
  <2> QED
    BY <1>0, <1>2, <2>1, <2>3, EntityOperand DEF Operand, NamesInv
<1>4. Shows(llvm, st, id)
  BY <1>1, <1>3, ExternalShows
<1>5. /\ st \in Modules /\ Unique(st) /\ Len(st.values) = Len(llvm.values)
      /\ id \in 1 .. Len(st.values)
      /\ \A k \in 1 .. Len(llvm.values) : /\ st.values[k].kind = llvm.values[k].kind
                                          /\ NameOf(st, k) = NameOf(llvm, k)
  BY <1>3, <1>4 DEF Shows, NamesInv, Keeps, SameValues, Alike
<1>6. IF Forced THEN Takes(st, llvm', id, n) ELSE Gives(st, llvm', id, n)
  BY <1>0, <1>1, <1>5, ForceNameTakes, SetNameGives
<1>7. /\ Keeps(st, llvm') /\ Unique(llvm')
      /\ \A k \in 1 .. Len(st.values) : llvm'.values[k].external = st.values[k].external
      /\ NameOf(llvm', id) = n \/ Continues(NameOf(llvm', id), n)
  <2>1. CASE Forced
    BY <1>6, <2>1, Zenon DEF Takes
  <2>2. CASE ~ Forced
    BY <1>5, <1>6, <2>2, Zenon DEF Gives
  <2> QED
    BY <2>1, <2>2
<1>8. /\ Keeps(llvm, llvm')
      /\ \A k \in 1 .. Len(llvm.values) : k # id =>
           llvm'.values[k].external = llvm.values[k].external
      /\ llvm'.values[id].external = TRUE
  <2>1. Keeps(llvm, llvm')
    BY <1>3, <1>4, <1>7, KeepsTrans DEF Shows
  <2> QED
    BY <1>3, <1>4, <1>5, <1>7, <2>1 DEF Shows
<1>9. \A k \in 1 .. Len(llvm.values) : k # id =>
        NameOf(llvm', k) = IF Forced /\ llvm.values[k].kind = "func" /\ NameOf(llvm, k) = n
                           THEN Empty ELSE NameOf(llvm, k)
  <2>1. CASE Forced
    BY <1>5, <1>6, <2>1 DEF Takes
  <2>2. CASE ~ Forced
    BY <1>5, <1>6, <2>2 DEF Gives
  <2> QED
    BY <2>1, <2>2
<1>10. PICK l : l = Len(exports) + 1
  OBVIOUS
<1>11. /\ exports' \in Seq(ExportRecords) /\ l \in ExportsOf("func", i)'
       /\ l \in Nat /\ DOMAIN exports = 1 .. l - 1 /\ DOMAIN exports' = 1 .. l
       /\ Len(exports) = l - 1 /\ Len(exports') = l
       /\ exports'[l].kind = "func" /\ exports'[l].index = i /\ exports'[l].name = n
       /\ \A k \in DOMAIN exports : k \in DOMAIN exports' /\ exports'[k] = exports[k]
  BY <1>2, <1>3, <1>10, ExportAdded
<1>12. Carried /\ Known
  <2>1. \A k \in 1 .. Len(llvm.values) :
          /\ k \in 1 .. Len(llvm'.values)
          /\ llvm'.values[k].kind = llvm.values[k].kind
    BY <1>8 DEF Keeps, SameValues, Alike
  <2>2. llvm' \in Modules
    BY <1>8 DEF Keeps
  <2>3. \A k \in 1 .. Len(llvm.values) :
          llvm.values[k].kind # "func" => NameOf(llvm', k) = NameOf(llvm, k)
    BY <1>3, <1>9
  <2> QED
    BY <1>3, <1>11, <2>1, <2>2, <2>3 DEF Carried, Known
<1>13. FuncName(i) = NameOf(llvm, id) /\ FuncName(i)' = NameOf(llvm', id)
  BY <1>0 DEF FuncName, Value, Operand, NameOf
<1>14. ASSUME NEW j \in DOMAIN space["func"], j # i
       PROVE  FuncName(j)' = IF Forced /\ FuncName(j) = n THEN Empty ELSE FuncName(j)
  <2>1. vecs["func"][j] \in 1 .. Len(llvm.values) /\ vecs["func"][j] # id
    BY <1>0, <1>2, <1>14, OldValue, OtherOperand DEF Operand
  <2>2. llvm.values[vecs["func"][j]].kind = "func"
    <3>1. j \in 1 .. Len(space["func"])
      BY <1>2, TypesAt DEF IndexInv
    <3>2. IndexOK("func", space["func"], vecs["func"], llvm, pass)
      BY <1>2 DEF IndexInv, AllIndexOK
    <3> QED
      BY <3>1, <3>2 DEF IndexOK, Right, Stands
  <2>3. /\ FuncName(j) = NameOf(llvm, vecs["func"][j])
        /\ FuncName(j)' = NameOf(llvm', vecs["func"][j])
    BY DEF FuncName, Value, Operand, NameOf
  <2> QED
    BY <1>9, <2>1, <2>2, <2>3
<1>15. \A j \in DOMAIN space["func"] : Cause(j) /\ Gain(j)
  <2>1. Cause(i)
    <3>1. CASE Forced
      <4>1. PICK m : m = FuncName(i)
        OBVIOUS
      <4>2. ForcedExport(i, m)'
        BY <1>11, <3>1 DEF ForcedExport, Forced
      <4> QED
        BY <4>1, <4>2 DEF Cause
    <3>2. CASE ~ Forced
      BY <3>2 DEF Cause
    <3> QED
      BY <3>1, <3>2
  <2>2. Gain(i)
    <3>1. CASE FuncName(i)' = n
      BY <1>11, <3>1 DEF Gain, ExportedAs
    <3>2. CASE FuncName(i)' # n
      <4>1. FuncName(i)' \notin Bad
        BY <1>7, <1>13, <3>2, NumberedOn
      <4> QED
        BY <4>1 DEF Gain, Bad
    <3> QED
      BY <3>1, <3>2
  <2>3. ASSUME NEW j \in DOMAIN space["func"], j # i
        PROVE  Cause(j) /\ Gain(j)
    <3>1. CASE FuncName(j)' = FuncName(j)
      BY <3>1 DEF Cause, Gain
    <3>2. CASE Forced /\ FuncName(j) = n /\ FuncName(j)' = Empty
      <4>1. ForcedExport(j, n)'
        BY <1>11, <3>2 DEF ForcedExport, Forced
      <4>2. Cause(j)
        BY <3>2, <4>1 DEF Cause
      <4>3. (FuncName(j) \notin Bad)'
        BY <3>2, PlainNames DEF Bad
      <4> QED
        BY <4>2, <4>3 DEF Gain
    <3> QED
      BY <1>14, <2>3, <3>1, <3>2
  <2> QED
    BY <2>1, <2>2, <2>3
<1>16. ForcedOK'
  <2>1. SUFFICES ASSUME Forced', NEW j \in DOMAIN space["func"], NEW k \in LastExport(j)'
                 PROVE  NameForced(j, k)'
    BY DEF ForcedOK
  <2>2. Forced
    BY <2>1 DEF Forced
  <2>3. CASE j = i
    <3>1. k \in DOMAIN exports' /\ k = l
      <4>1. k \in DOMAIN exports' /\ (l > k => exports'[l].name = Empty)
        BY <1>11, <2>1, <2>3 DEF LastExport, ExportsOf
      <4> QED
        BY <1>11, <4>1
    <3>2. exports'[k].name = n
      BY <1>11, <3>1
    <3>3. CASE FuncName(i)' = n
      BY <2>3, <3>2, <3>3 DEF NameForced
    <3>4. CASE FuncName(i)' # n
      <4>1. Continues(FuncName(i)', n) /\ Held(st, n)
        BY <1>6, <1>13, <2>2, <3>4, Zenon DEF Takes
      <4>2. HeldByOther(n)
        <5>1. DOMAIN llvm.values = 1 .. Len(llvm.values)
          BY <1>3 DEF Modules
        <5> QED
          BY <1>5, <4>1, <5>1 DEF Held, HeldByOther, NameOf
      <4>3. HeldByOther(n)'
        BY <1>12, <4>2, CarriedHeld
      <4> QED
        BY <2>3, <3>2, <4>1, <4>3 DEF NameForced, HeldByOther
    <3> QED
      BY <3>3, <3>4
  <2>4. CASE j # i
    <3>1. k \in LastExport(j)
      BY <1>2, <1>3, <2>1, <2>4, LastExportOn
    <3>2. PICK m : m = exports[k].name
      OBVIOUS
    <3>3. k \in DOMAIN exports /\ exports'[k].name = m /\ m # n /\ m # Empty /\ k < l
      BY <1>11, <3>1, <3>2 DEF LastExport, ExportsOf
    <3>4. NameForced(j, k)
      BY <2>2, <3>1 DEF NamesInv, ForcedOK
    <3>5. FuncName(j)' = IF FuncName(j) = n THEN Empty ELSE FuncName(j)
      BY <1>14, <2>2, <2>4
    <3>6. CASE FuncName(j) = m
      BY <3>3, <3>5, <3>6 DEF NameForced
    <3>7. CASE HeldByOther(m) /\ Continues(FuncName(j), m)
      <4>1. HeldByOther(m)'
        BY <1>12, <3>7, CarriedHeld
      <4>2. CASE FuncName(j) # n
        BY <3>3, <3>5, <3>7, <4>1, <4>2 DEF NameForced, HeldByOther
      <4>3. CASE FuncName(j) = n
        <5>1. l \in k + 1 .. Len(exports') /\ Continues(exports'[l].name, m)
          BY <1>11, <3>3, <3>7, <4>3
        <5> QED
          BY <3>3, <4>1, <5>1 DEF NameForced, HeldByOther
      <4> QED
        BY <4>2, <4>3
    <3>8. CASE HeldByOther(m) /\ \E q \in k + 1 .. Len(exports) : Continues(exports[q].name, m)
      <4>1. HeldByOther(m)'
        BY <1>12, <3>8, CarriedHeld
      <4>2. PICK q \in k + 1 .. Len(exports) : Continues(exports[q].name, m)
        BY <3>8
      <4>3. q \in DOMAIN exports /\ q \in k + 1 .. Len(exports')
        BY <1>11, <3>3, <4>2
      <4>4. exports'[q].name = exports[q].name
        BY <1>11, <4>3
      <4> QED
        BY <3>3, <4>1, <4>2, <4>3, <4>4 DEF NameForced, HeldByOther
    <3> QED
      BY <3>2, <3>4, <3>6, <3>7, <3>8 DEF NameForced
  <2> QED
    BY <2>3, <2>4
<1> QED
  BY <1>0, <1>2, <1>7, <1>8, <1>11, <1>12, <1>15, <1>16, Exported

-----------------------------------------------------------------------------
(* Each step keeps the invariant of names.                                 *)

(* An export, under whatever options.                                      *)
LEMMA ExportStepNames ==
  ASSUME IndexInv, NamesInv, NEW kind \in Kinds, NEW i \in DOMAIN space[kind],
         NEW n \in ExportNames, Export(kind, i, n)
  PROVE  NamesInv'
<1>0. PICK id : id = vecs[kind][i]
  OBVIOUS
<1>1. PICK st : st = External(llvm, id)
  OBVIOUS
<1>2. /\ pass = "exports" /\ UNCHANGED <<opts, pass, space, vecs>>
      /\ \A k \in DOMAIN exports : exports[k].name # n
      /\ exports' = Append(exports, [kind |-> kind, index |-> i, name |-> n])
      /\ llvm' = IF kind = "table" THEN llvm
                 ELSE IF kind = "func" THEN ExportedName(st, id, n) ELSE st
  BY <1>0, <1>1 DEF Export, Operand
<1>3. /\ n \in Names /\ llvm \in Modules /\ id \in 1 .. Len(llvm.values)
      /\ IndexInv /\ NamesInv
  BY <1>0, EntityOperand, GivenFacts DEF Given, Operand
<1>4. CASE kind # "func"
  BY <1>0, <1>1, <1>2, <1>3, <1>4, ExportKeepsNames
<1>5. CASE kind = "func" /\ n = Empty
  <2>1. llvm' = st
    BY <1>2, <1>5 DEF ExportedName
  <2> QED
    BY <1>0, <1>1, <1>2, <1>3, <1>5, <2>1, ExportKeepsNames
<1>6. CASE kind = "func" /\ n # Empty /\ Forced
  <2>1. llvm' = ForceName(st, id, n)
    BY <1>2, <1>6 DEF ExportedName, Forced
  <2> QED
    BY <1>0, <1>1, <1>2, <1>3, <1>6, <2>1, ExportNamesFunc
<1>7. CASE kind = "func" /\ n # Empty /\ ~ Forced
  <2>1. NameOf(st, id) = FuncName(i)
    <3>1. NameOf(st, id) = NameOf(llvm, id)
      BY <1>1, <1>3, ExternalShows DEF Shows
    <3> QED
      BY <1>0, <1>7, <3>1 DEF FuncName, Value, Operand, NameOf
  <2>2. llvm' = IF FuncName(i) = Empty THEN SetName(st, id, n) ELSE st
    BY <1>2, <1>7, <2>1 DEF ExportedName, Forced
  <2>3. CASE FuncName(i) = Empty
    BY <1>0, <1>1, <1>2, <1>3, <1>7, <2>2, <2>3, ExportNamesFunc
  <2>4. CASE FuncName(i) # Empty
    <3>1. llvm' = st
      BY <2>2, <2>4
    <3> QED
      BY <1>0, <1>1, <1>2, <1>3, <1>7, <3>1, ExportKeepsNames
  <2> QED
    BY <2>3, <2>4
<1> QED
  BY <1>4, <1>5, <1>6, <1>7

(* An import of any kind.                                                  *)
LEMMA ImportNames ==
  ASSUME IndexInv, NamesInv, NEW kind \in Kinds, NEW e \in Entities(kind),
         NEW link \in LinkNames, Import(kind, e, link)
  PROVE  NamesInv'
<1>1. PICK f : f = ImportAs(e, link)
  OBVIOUS
<1>2. PICK i : i = Len(space[kind]) + 1
  OBVIOUS
<1>3. f \in Entity /\ f.imported = TRUE /\ f.name \in Names /\ f.size \in Nat
  BY <1>1, EntityFacts, ImportAsFacts DEF Entity
<1>4. /\ pass = "imports" /\ UNCHANGED <<opts, pass, exports>>
      /\ Reveal(kind, f) /\ Push(kind)
      /\ llvm' = Registered(kind, i, f, TRUE)
  BY <1>1, <1>2 DEF Import
<1>5. ModuleTypes /\ i \in Nat /\ pass \in Early
  BY <1>2, <1>4, TypesAt DEF IndexInv, Early
<1>6. /\ Added(llvm, llvm', kind, i, f.size)
      /\ Joins(llvm, llvm', LlvmName(kind, f), LinkedOutside(kind, TRUE))
  BY <1>3, <1>4, <1>5, RegisteredAdds, RegisteredJoins DEF ModuleTypes
<1>7. LinkedOutside(kind, TRUE) = TRUE
  BY DEF LinkedOutside
<1>8. CASE kind # "func"
  BY <1>3, <1>4, <1>5, <1>6, <1>7, <1>8, OtherJoins
<1>9. CASE kind = "func"
  <2>1. f.name \in FuncNames \cup LinkNames /\ f.name # Empty
    <3>1. e.name \in FuncNames
      BY <1>9 DEF Entities
    <3>2. f.name = IF e.name = Empty THEN link ELSE e.name
      <4>1. e \in Entity
        BY EntityFacts
      <4> QED
        BY <1>1, <4>1 DEF ImportAs, Entity
    <3>3. link # Empty
      <4>1. link.text # ""
        BY <1>1, LinksAssumption
      <4>2. Empty.text = ""
        BY DEF Empty, Text
      <4> QED
        BY <4>1, <4>2
    <3> QED
      BY <3>1, <3>2, <3>3
  <2>2. LlvmName(kind, f) = OptDollar(f.name)
    BY <1>9 DEF LlvmName
  <2> QED
    BY <1>2, <1>3, <1>4, <1>6, <1>7, <1>9, <2>1, <2>2, FuncImported
<1> QED
  BY <1>8, <1>9

(* The second visit of imported globals and tables.                        *)
LEMMA RevisitNames ==
  ASSUME IndexInv, NamesInv, NEW kind \in Kinds, Revisit(kind)
  PROVE  NamesInv'
<1>1. /\ pass = kind /\ kind \in {"global", "table"} /\ pos < Cardinality(Imps(space[kind]))
      /\ UNCHANGED <<opts, pass, space, exports>>
  BY ImportedIs DEF Revisit
<1>2. llvm \in Modules /\ pass \in Early /\ ModuleTypes
  BY <1>1 DEF IndexInv, ModuleTypes, Early
<1>3. CASE Deduplicated(kind)
  <2>1. UNCHANGED <<llvm, vecs>>
    BY <1>3 DEF Revisit
  <2> QED
    BY <1>1, <1>2, <2>1, StillStep DEF NameOf
<1>4. CASE ~ Deduplicated(kind)
  <2>1. kind = "table"
    BY <1>1, <1>4 DEF Deduplicated
  <2>2. PICK e : e = space[kind][pos + 1]
    OBVIOUS
  <2>3. llvm' = Registered(kind, pos + 1, e, FALSE) /\ Push(kind)
    BY <1>4, <2>2 DEF Revisit
  <2>4. e \in Entity
    <3>1. /\ Cardinality(Imps(space[kind])) \in 0 .. Len(space[kind])
      BY DEF IndexInv, AllIndexOK, IndexOK, ImportsFirst
    <3>2. space[kind] \in Seq(Entity) /\ Len(space[kind]) \in Nat /\ pos \in Nat
      BY <1>2, TypesAt DEF ModuleTypes
    <3>3. pos + 1 \in 1 .. Len(space[kind])
      BY <1>1, <3>1, <3>2
    <3> QED
      BY <2>2, <3>2, <3>3
  <2>5. /\ vecs \in [Kinds -> Seq(Nat)] /\ e.name \in Names /\ e.size \in Nat
        /\ pos + 1 \in Nat
    BY <1>2, <2>4 DEF ModuleTypes, Entity
  <2>6. /\ Added(llvm, llvm', kind, pos + 1, e.size)
        /\ Joins(llvm, llvm', LlvmName(kind, e), LinkedOutside(kind, FALSE))
    BY <1>2, <2>3, <2>5, RegisteredAdds, RegisteredJoins
  <2> QED
    BY <1>1, <1>2, <2>1, <2>3, <2>4, <2>6, OtherJoins
<1> QED
  BY <1>3, <1>4

(* A definition of a global, a memory or a table.                          *)
LEMMA DefineNames ==
  ASSUME IndexInv, NamesInv, NEW kind \in Kinds, NEW e \in Entities(kind), Define(kind, e)
  PROVE  NamesInv'
<1>1. PICK i : i = Len(space[kind]) + 1
  OBVIOUS
<1>2. e \in Entity /\ e.imported = FALSE /\ e.name \in Names /\ e.size \in Nat
  BY EntityFacts DEF Entity
<1>3. /\ pass = kind /\ kind # "func" /\ UNCHANGED <<opts, pass, exports>>
      /\ Reveal(kind, e) /\ Push(kind)
      /\ llvm' = Registered(kind, i, e, FALSE)
  BY <1>1 DEF Define, Definable
<1>4. ModuleTypes /\ i \in Nat /\ pass \in Early
  BY <1>1, <1>3, TypesAt DEF IndexInv, Early, Kinds
<1>5. /\ Added(llvm, llvm', kind, i, e.size)
      /\ Joins(llvm, llvm', LlvmName(kind, e), LinkedOutside(kind, FALSE))
  BY <1>2, <1>3, <1>4, RegisteredAdds, RegisteredJoins DEF ModuleTypes
<1>6. kind # "table" => LinkedOutside(kind, FALSE) = e.imported
  BY <1>2 DEF LinkedOutside
<1> QED
  BY <1>2, <1>3, <1>4, <1>5, <1>6, OtherJoins

(* The end of the translation, with an error or without.                   *)
LEMMA StopNames ==
  ASSUME IndexInv, NamesInv, NEW how, how \notin Early, Stop(how)
  PROVE  NamesInv'
<1>1. UNCHANGED <<opts, space, llvm, vecs, exports>> /\ pass' = how
  BY DEF Stop
<1>2. llvm \in Modules
  BY DEF IndexInv, ModuleTypes
<1> QED
  BY <1>1, <1>2, StillStep DEF NameOf

(* The declaration of a function of the module.                            *)
LEMMA DeclareNames ==
  ASSUME IndexInv, NamesInv, NEW e \in Entities("func"), DeclareFunc(e)
  PROVE  NamesInv'
<1>1. PICK i : i = Len(space["func"]) + 1
  OBVIOUS
<1>2. PICK st : st = Registered("func", i, e, FALSE)
  OBVIOUS
<1>3. PICK id : id = Len(st.values)
  OBVIOUS
<1>4. CASE FrontAsserts(st, id)
  <2>1. Stop("assert")
    BY <1>1, <1>2, <1>3, <1>4 DEF DeclareFunc
  <2> QED
    BY <2>1, StopNames DEF Early
<1>5. CASE ~ FrontAsserts(st, id)
  <2>1. /\ pass = "func" /\ NameFree("func", e.name) /\ Reveal("func", e) /\ Push("func")
        /\ llvm' = IF "FixNames" \in opts THEN FixedNames(st, id) ELSE MainExternal(st, id)
        /\ UNCHANGED <<opts, pass, exports>>
    BY <1>1, <1>2, <1>3, <1>5 DEF DeclareFunc, Definable
  <2>2. "func" \in Kinds
    BY DEF Kinds
  <2>3. /\ e \in Entity /\ e.imported = FALSE /\ e.name \in Names /\ e.size \in Nat
        /\ e.name \in FuncNames
    BY <2>2, EntityFacts DEF Entity, Entities
  <2>4. ModuleTypes /\ i \in Nat /\ llvm \in Modules
    BY <1>1, <2>2, TypesAt DEF IndexInv, ModuleTypes
  <2>5. /\ Added(llvm, st, "func", i, e.size)
        /\ Joins(llvm, st, OptDollar(e.name), FALSE)
    <3>1. LlvmName("func", e) = OptDollar(e.name) /\ LinkedOutside("func", FALSE) = FALSE
      BY DEF LlvmName, LinkedOutside
    <3> QED
      BY <1>2, <2>2, <2>3, <2>4, <3>1, RegisteredAdds, RegisteredJoins DEF ModuleTypes
  <2>6. st \in Modules /\ id = Len(llvm.values) + 1 /\ id \in 1 .. Len(st.values) /\ Unique(st)
    <3>1. st \in Modules /\ id = Len(llvm.values) + 1
      BY <1>3, <2>5 DEF Added
    <3>2. Len(llvm.values) \in Nat
      BY <2>4 DEF Modules
    <3> QED
      BY <1>3, <2>5, <3>1, <3>2 DEF Joins, NamesInv
  <2>7. Declares(st, llvm', id)
    BY <2>1, <2>6, DeclareDeclares DEF Fix
  <2> QED
    BY <1>1, <2>1, <2>3, <2>5, <2>6, <2>7, FuncDeclared
<1> QED
  BY <1>4, <1>5

(* An element segment.                                                     *)
LEMMA ElemNames ==
  ASSUME IndexInv, NamesInv, NEW seg \in Segments, VisitElem(seg)
  PROVE  NamesInv'
<1>1. CASE Stop("assert")
  BY <1>1, StopNames DEF Early
<1>2. CASE ~ Stop("assert")
  <2>1. /\ pass = "elems" /\ UNCHANGED <<pass, space, vecs>> /\ llvm \in Modules
        /\ llvm' \in Modules /\ Len(llvm'.values) = Len(llvm.values)
        /\ \A k \in 1 .. Len(llvm.values) :
             /\ llvm'.values[k].kind = llvm.values[k].kind
             /\ llvm'.values[k].of = llvm.values[k].of
             /\ NameOf(llvm', k) = NameOf(llvm, k)
             /\ llvm'.values[k].external = llvm.values[k].external
    BY <1>2, ElemRefills DEF Refilled, NameOf
  <2>2. UNCHANGED <<opts, exports>>
    BY <1>2 DEF VisitElem
  <2> QED
    BY <2>1, <2>2, StillStep
<1> QED
  BY <1>1, <1>2

(* From one pass to the next.                                              *)
LEMMA NextPassNames ==
  ASSUME IndexInv, NamesInv, NextPass
  PROVE  NamesInv'
<1>1. /\ UNCHANGED <<opts, space, llvm, vecs, exports>>
      /\ \E k \in 1 .. Len(Passes) - 1 : pass = Passes[k] /\ pass' = Passes[k + 1]
  BY DEF NextPass
<1>2. pass' \in Early => pass \in Early
  <2>1. PICK k \in 1 .. 9 : pass = Passes[k] /\ pass' = Passes[k + 1]
    BY <1>1 DEF Passes
  <2>2. \A q \in 1 .. 10 : Passes[q] \in Early <=> q <= 6
    BY DEF Passes, Early
  <2>3. k \in 1 .. 10 /\ k + 1 \in 1 .. 10
    BY <2>1
  <2> QED
    BY <2>1, <2>2, <2>3
<1>3. llvm \in Modules
  BY DEF IndexInv, ModuleTypes
<1> QED
  BY <1>1, <1>2, <1>3, StillStep DEF NameOf

(* The empty module.                                                       *)
LEMMA NamesInit ==
  ASSUME MInit
  PROVE  NamesInv
<1>1. /\ space = [k \in Kinds |-> << >>] /\ exports = << >>
      /\ llvm = [values |-> << >>, last |-> 0]
  BY DEF MInit
<1>2. \A k \in Kinds : DOMAIN space[k] = {}
  BY <1>1
<1>3. "func" \in Kinds /\ Visible \subseteq Kinds
  BY DEF Kinds, Visible
<1>4. Len(llvm.values) = 0 /\ DOMAIN space["func"] = {}
  BY <1>1, <1>2, <1>3
<1>5. Unique(llvm) /\ FuncsKnown
  BY <1>4 DEF Unique, FuncsKnown
<1>6. NamesGiven /\ exports \in Seq(ExportRecords) /\ EarlyOK
  BY <1>1, <1>4 DEF NamesGiven, EarlyOK
<1>7. LinkedOK /\ ImportsOK /\ EntriesOK /\ FixedOK /\ ForcedOK
  BY <1>2, <1>3, <1>4
     DEF LinkedOK, ImportsOK, EntriesOK, FixedOK, ForcedOK, Imported, Defined, Entries
<1> QED
  BY <1>5, <1>6, <1>7 DEF NamesInv

(* Every step.                                                             *)
LEMMA NamesNext ==
  ASSUME IndexInv, NamesInv, [MNext \/ MOver]_mvars
  PROVE  NamesInv'
<1>1. ASSUME NEW kind \in Kinds, NEW e \in Entities(kind), NEW link \in LinkNames,
             Import(kind, e, link)
      PROVE  NamesInv'
  BY <1>1, ImportNames
<1>2. ASSUME NEW kind \in Kinds, Revisit(kind)
      PROVE  NamesInv'
  BY <1>2, RevisitNames
<1>3. ASSUME NEW kind \in Kinds, NEW e \in Entities(kind), Define(kind, e)
      PROVE  NamesInv'
  BY <1>3, DefineNames
<1>4. CASE UnsupportedGlobalOrTable \/ UnsupportedElem
  BY <1>4, StopNames DEF UnsupportedGlobalOrTable, UnsupportedElem, Early
<1>5. ASSUME NEW e \in Entities("func"), DeclareFunc(e)
      PROVE  NamesInv'
  BY <1>5, DeclareNames
<1>6. CASE VisitFunc
  <2>1. UNCHANGED <<opts, pass, space, llvm, vecs, exports>>
    BY <1>6 DEF VisitFunc
  <2> QED
    BY <2>1, StillStep DEF NameOf, IndexInv, ModuleTypes
<1>7. ASSUME NEW kind \in Kinds, NEW i \in DOMAIN space[kind], NEW n \in ExportNames,
             Export(kind, i, n)
      PROVE  NamesInv'
  BY <1>7, ExportStepNames
<1>8. CASE DefaultName
  BY <1>8, DefaultNamed
<1>9. ASSUME NEW seg \in Segments, VisitElem(seg)
      PROVE  NamesInv'
  BY <1>9, ElemNames
<1>10. CASE NextPass
  BY <1>10, NextPassNames
<1>11. CASE UNCHANGED mvars
  <2>1. UNCHANGED <<opts, pass, space, llvm, vecs, exports>>
    BY <1>11 DEF mvars
  <2> QED
    BY <2>1, StillStep DEF NameOf, IndexInv, ModuleTypes
<1> QED
  BY <1>1, <1>2, <1>3, <1>4, <1>5, <1>6, <1>7, <1>8, <1>9, <1>10, <1>11
     DEF MNext, MOver

(* The invariant of names and linkage, beside the one of the indices.      *)
THEOREM NamesInvariant == MSpec => [](IndexInv /\ NamesInv)
<1>1. MInit => IndexInv /\ NamesInv
  BY IndexInit, NamesInit
<1>2. IndexInv /\ NamesInv /\ [MNext \/ MOver]_mvars => IndexInv' /\ NamesInv'
  BY IndexNext, NamesNext
<1> QED
  BY <1>1, <1>2, PTL DEF MSpec

(* Across all passes of visitModule: what is imported or exported is       *)
(* external, nothing else is but a function taken for the entry, and the   *)
(* entry is unless its name was held by something other than a function    *)
(* (setLinkage in visitGlobal, visitMemory, declareFunc, visitExport).     *)
THEOREM LinkageFollowsModule == MSpec => []LinkageRight
<1>1. NamesInv => LinkageRight
  BY DEF NamesInv, LinkedOK, Linked, Shown, Visible, LinkageRight
<1> QED
  BY <1>1, NamesInvariant, PTL

(* The linker finds an import by its name, which no later declaration,     *)
(* default name or FixNames takes from it: only an earlier import of that  *)
(* name, something other than a function, an entry that becomes main or a  *)
(* forced export may (visitImports, declareFunc, visitExport).             *)
THEOREM ImportsKeepNames == MSpec => []ImportKeepsName
<1>1. NamesInv => ImportKeepsName
  BY DEF NamesInv, ImportsOK, ImportKept, ForcedExport, FuncName, Fix, ImportKeepsName
<1> QED
  BY <1>1, NamesInvariant, PTL

(* Under ForceExportName a function has the name of its last export, which *)
(* no later export takes from it, unless a value that is no function held  *)
(* the name (visitExport).                                                 *)
THEOREM ForcedNamesStay == MSpec => []ForcedUnlessHeld
<1>1. NamesInv => ForcedUnlessHeld
  BY DEF NamesInv, ForcedOK, NameForced, FuncName, ForcedUnlessHeld
<1> QED
  BY <1>1, NamesInvariant, PTL

(* Under FixNames no definition has one of the four bad names, not even    *)
(* with what declareFunc, default names and later exports do, unless an    *)
(* export of it bears that name (declareFunc, visitExport).                *)
THEOREM NamesAreFixed == MSpec => []NamesFixed
<1>1. NamesInv => NamesFixed
  BY DEF NamesInv, FixedOK, NameFixed, Bad, FuncName, Fix, NamesFixed
<1> QED
  BY <1>1, NamesInvariant, PTL

(* Under FixNames the last function that is an entry is called main, and   *)
(* earlier ones lose the name to it, unless main or the entry's own name   *)
(* is held by something other than a function, or an export is forced on   *)
(* it or under main (declareFunc, visitExport).                            *)
THEOREM LastEntryIsMain == MSpec => []EntryIsMain
<1>1. NamesInv => EntryIsMain
  BY DEF NamesInv, EntriesOK, EntryKept, ForcedExport, FuncName, Fix, EntryIsMain
<1> QED
  BY <1>1, NamesInvariant, PTL
=============================================================================
