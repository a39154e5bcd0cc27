---------------------------- MODULE VisitModule -----------------------------
(***************************************************************************)
(* Context::visitModule (parser.cpp): the passes over a module.  Imports,  *)
(* globals, memories, functions and tables become LLVM values that the     *)
(* Context's vectors find by their wasm index; then the bodies are         *)
(* translated, exports change linkage and names, nameless functions get    *)
(* default names, and element segments fill the tables.                    *)
(*                                                                         *)
(* The module is made up while it is read: `space' is what a pass has seen *)
(* of it.  Data segments are modelled in DataSegments, bodies in Lowering. *)
(***************************************************************************)
EXTENDS Integers, Sequences, FiniteSets

CONSTANTS
  MaxImports, MaxDefs,  \* bounds: imports and definitions of each kind
  MaxExports, MaxElems, \* bounds: exports and element segments
  FuncNames,            \* names of functions in the module, some empty
  GlobalNames,          \* names of globals in the module, some empty
  LinkNames,            \* module.field of an import
  ExportNames,          \* names of exports
  TableSizes,           \* initial sizes of tables
  Offsets, MaxSeg,      \* offsets and the greatest length of a segment
  OptionSets            \* the options a call may set

(* A name: the dollar signs in front, a text, and appended numbers.        *)
NameType == [dollars : Nat, text : STRING, nums : Seq(Nat)]

ASSUME NamesAssumption ==
  FuncNames \cup GlobalNames \cup LinkNames \cup ExportNames \subseteq NameType
ASSUME TablesAssumption ==
  TableSizes \subseteq Nat /\ Offsets \subseteq Nat /\ MaxSeg \in Nat

VARIABLES
  opts,       \* the options
  pass,       \* the pass visitModule is in, or how it stopped
  pos,        \* how far a loop over known things has come
  space,      \* kind -> wasm index space (from 1)
  llvm,       \* the LLVM module: [values, last]
  vecs,       \* kind -> Context::funcs, globs, mems, tables
  nonImportFuncs,
  bodies,     \* the functions that got a body: <<wasm index, value>>
  exports,    \* the exports visited: [kind, index, name]
  elems       \* the element segments visited

mvars == <<opts, pass, pos, space, llvm, vecs, nonImportFuncs, bodies,
           exports, elems>>

Kinds == {"func", "global", "memory", "table"}

-----------------------------------------------------------------------------
(* Names.                                                                  *)

Text(t) == [dollars |-> 0, text |-> t, nums |-> << >>]
Numbered(t, i) == [dollars |-> 0, text |-> t, nums |-> <<i>>]
Empty == Text("")
RemoveDollar(n) == [n EXCEPT !.dollars = IF @ = 0 THEN 0 ELSE @ - 1]
OptDollar(n) == IF "NoRemoveDollar" \in opts THEN n ELSE RemoveDollar(n)

Main == Text("main")

(* wabt puts a dollar sign in front of every name, and a name is more than *)
(* that; an import is linked as module.field, which is no entry's name.    *)
ASSUME DollarsAssumption ==
  \A n \in FuncNames \ {Empty} : n.dollars > 0 /\ RemoveDollar(n) # Empty
ASSUME LinksAssumption ==
  \A n \in LinkNames :
    n.text \notin {"", "main", "__original_main", "__main_argc_argv"}

(* llvm::Value::setName and ValueSymbolTable: a name that another value of *)
(* the module has gets a number that is new.                               *)
Taken(st, id) == { st.values[k].name : k \in DOMAIN st.values \ {id} }
Suffixed(n, i) == [n EXCEPT !.nums = Append(@, i)]
SetName(st, id, n) ==
  LET taken == Taken(st, id)
      new == CHOOSE i \in st.last + 1 .. st.last + Len(st.values) + 1 :
               /\ Suffixed(n, i) \notin taken
               /\ \A j \in st.last + 1 .. i - 1 : Suffixed(n, j) \in taken
      put(s, name) == [s EXCEPT !.values[id].name = name]
  IN  IF n = st.values[id].name \/ n = Empty \/ n \notin taken
      THEN put(st, n)
      ELSE put([st EXCEPT !.last = new], Suffixed(n, new))

NameOf(st, id) == st.values[id].name
External(st, id) == [st EXCEPT !.values[id].external = TRUE]
(* llvm::Module::getFunction                                               *)
GetFunction(st, n) == { k \in DOMAIN st.values :
                          st.values[k].kind = "func" /\ st.values[k].name = n }
Unnamed(st, ids) ==
  IF ids = {} THEN st ELSE SetName(st, CHOOSE k \in ids : TRUE, Empty)

(* An initialiser is a set: empty, or of the one array it is.              *)
NoInitialiser == {}
(* new GlobalVariable, Function::Create.                                   *)
Created(st, kind, i, external, n) ==
  SetName([st EXCEPT !.values = Append(@,
             [kind |-> kind, of |-> i, external |-> external, size |-> 0,
              init |-> NoInitialiser, name |-> Empty])],
          Len(st.values) + 1, n)

-----------------------------------------------------------------------------
(* Registering.  An entity of the module is [imported, name, size].        *)

LlvmName(kind, e) ==
  CASE kind = "func" -> OptDollar(e.name)
    [] kind = "global" ->
         OptDollar(IF e.name = Empty
                   THEN Numbered("__notdec_global_", Len(vecs["global"]))
                   ELSE e.name)
    [] kind = "memory" -> Text("__notdec_mem0")
    [] kind = "table" -> IF e.name = Empty
                         THEN Numbered("table_", Len(vecs["table"]))
                         ELSE e.name

(* Mutant: imports are not told from definitions.                          *)
LinkedOutside_TablesOnly(kind, external) == kind = "table"
(* Tables are external wherever they come from.                            *)
LinkedOutside(kind, external) == external \/ kind = "table"

(* declareFunc, visitGlobal, declareMemory, visitTable: the entity of an   *)
(* index becomes a value at the end of its vector.                         *)
Registered(kind, i, e, external) ==
  LET st == Created(llvm, kind, i, LinkedOutside(kind, external),
                    LlvmName(kind, e))
  IN  [st EXCEPT !.values[Len(st.values)].size = e.size]
Push(kind) == vecs' = [vecs EXCEPT ![kind] = Append(@, Len(llvm.values) + 1)]

Imported(kind) == { i \in DOMAIN space[kind] : space[kind][i].imported }
Defined(kind) == DOMAIN space[kind] \ Imported(kind)
Entities(kind) ==
  [imported : {FALSE},
   name : IF kind = "func" THEN FuncNames
          ELSE IF kind = "global" THEN GlobalNames ELSE {Empty},
   size : IF kind = "table" THEN TableSizes ELSE {0}]
(* Names are unique in the index space of a kind.                          *)
NameFree(kind, n) ==
  n # Empty => \A i \in DOMAIN space[kind] : space[kind][i].name # n
(* wabt's default features allow one memory.                               *)
OneMemory(kind) == kind = "memory" => space["memory"] = << >>
Reveal(kind, e) == space' = [space EXCEPT ![kind] = Append(@, e)]

MInit ==
  /\ opts \in OptionSets
  /\ pass = "imports"
  /\ pos = 0
  /\ space = [k \in Kinds |-> << >>]
  /\ llvm = [values |-> << >>, last |-> 0]
  /\ vecs = [k \in Kinds |-> << >>]
  /\ nonImportFuncs = << >>
  /\ bodies = {}
  /\ exports = << >>
  /\ elems = << >>

(* setNameIfEmpty: an import without a name is called module.field.        *)
ImportAs(e, link) ==
  [e EXCEPT !.imported = TRUE, !.name = IF @ = Empty THEN link ELSE @]

Import(kind, e, link) ==
  LET i == Len(space[kind]) + 1
      field == ImportAs(e, link)
  IN  /\ pass = "imports"
      /\ Cardinality(Imported(kind)) < MaxImports[kind]
      /\ OneMemory(kind) /\ NameFree(kind, e.name)
      /\ Reveal(kind, field)
      /\ llvm' = Registered(kind, i, field, TRUE)
      /\ Push(kind)
      /\ UNCHANGED <<opts, pass, pos, nonImportFuncs, bodies, exports, elems>>

(* Mutant: the set visitedGlobals is not consulted.                        *)
Deduplicated_Never(kind) == FALSE
(* The loops over module->globals and module->tables meet the imported     *)
(* ones again; only those over globals skip them.                          *)
Deduplicated(kind) == kind = "global"

Revisit(kind) ==
  /\ pass = kind
  /\ kind \in {"global", "table"}
  /\ pos < Cardinality(Imported(kind))
  /\ pos' = pos + 1
  /\ IF Deduplicated(kind) THEN UNCHANGED <<llvm, vecs>>
     ELSE /\ llvm' = Registered(kind, pos + 1, space[kind][pos + 1], FALSE)
          /\ Push(kind)
  /\ UNCHANGED <<opts, pass, space, nonImportFuncs, bodies, exports, elems>>

Definable(kind, e) ==
  /\ pass = kind
  /\ kind \in {"global", "table"} => pos = Cardinality(Imported(kind))
  /\ Cardinality(Defined(kind)) < MaxDefs[kind]
  /\ OneMemory(kind) /\ NameFree(kind, e.name)

(* visitGlobal, declareMemory or visitTable for a definition.              *)
Define(kind, e) ==
  /\ Definable(kind, e)
  /\ kind # "func"
  /\ Reveal(kind, e)
  /\ llvm' = Registered(kind, Len(space[kind]) + 1, e, FALSE)
  /\ Push(kind)
  /\ UNCHANGED <<opts, pass, pos, nonImportFuncs, bodies, exports, elems>>

Stop(how) ==
  /\ pass' = how
  /\ UNCHANGED <<opts, pos, space, llvm, vecs, nonImportFuncs, bodies,
                 exports, elems>>

(* visitInitExpr on a global.get, convertType and visitTable on references.*)
UnsupportedGlobalOrTable == pass \in {"global", "table"} /\ Stop("abort")

-----------------------------------------------------------------------------
(* Functions: declareFunc, then the block under FixNames.                  *)

(* Mutant: another main keeps its name.                                    *)
RenamedMain_KeepsOther(st, id) ==
  IF NameOf(st, id) \in {Text("__original_main"), Text("__main_argc_argv")}
  THEN SetName(External(st, id), id, Main)
  ELSE st

RenamedMain(st, id) ==
  IF NameOf(st, id) \in {Text("__original_main"), Text("__main_argc_argv")}
  THEN SetName(Unnamed(External(st, id), GetFunction(st, Main)), id, Main)
  ELSE st
(* Mutant: the names of library functions are kept.                        *)
Renamed_Never(st, id, from, to) == st
Renamed(st, id, from, to) ==
  IF NameOf(st, id) = from THEN SetName(st, id, to) ELSE st
FixedNames(st, id) ==
  LET undollared == SetName(st, id, OptDollar(NameOf(st, id)))
      main == RenamedMain(undollared, id)
  IN  Renamed(Renamed(main, id, Text("memset"), Text("memset_1")),
              id, Text("memcpy"), Text("memcpy_1"))
(* Mutant: main stays internal.                                            *)
MainExternal_Never(st, id) == st
MainExternal(st, id) ==
  IF NameOf(st, id) = Main THEN External(st, id) ELSE st

(* StringRef::front asserts that there is a name.                          *)
FrontAsserts(st, id) ==
  /\ "FixNames" \in opts /\ "NoRemoveDollar" \notin opts
  /\ NameOf(st, id) = Empty

DeclareFunc(e) ==
  LET i == Len(space["func"]) + 1
      st == Registered("func", i, e, FALSE)
      id == Len(st.values)
  IN  /\ Definable("func", e)
      /\ IF FrontAsserts(st, id) THEN Stop("assert")
         ELSE /\ Reveal("func", e)
              /\ llvm' = IF "FixNames" \in opts THEN FixedNames(st, id)
                         ELSE MainExternal(st, id)
              /\ Push("func")
              /\ nonImportFuncs' = Append(nonImportFuncs, id)
              /\ UNCHANGED <<opts, pass, pos, bodies, exports, elems>>

(* The loop over the fields gives each function's body to the next of      *)
(* nonImportFuncs.                                                         *)
FuncField(k) == Cardinality(Imported("func")) + k
VisitFunc ==
  /\ pass = "bodies"
  /\ pos < Len(nonImportFuncs)
  /\ pos' = pos + 1
  /\ bodies' = bodies \cup {<<FuncField(pos + 1), nonImportFuncs[pos + 1]>>}
  /\ UNCHANGED <<opts, pass, space, llvm, vecs, nonImportFuncs, exports, elems>>

(* What call, ref.func in a segment, global.get, global.set, call_indirect *)
(* and the memory instructions find at an index.                           *)
Operand(kind, i) == vecs[kind][i]

-----------------------------------------------------------------------------
(* Exports and default names.                                              *)

(* Mutant: the function that has the name keeps it.                        *)
ForceName_KeepsHolder(st, id, n) == SetName(st, id, n)

ForceName(st, id, n) == SetName(Unnamed(st, GetFunction(st, n)), id, n)

(* Mutant: the option is not asked.                                        *)
ExportedName_Always(st, id, n) == IF n = Empty THEN st ELSE ForceName(st, id, n)
ExportedName(st, id, n) ==
  IF n = Empty THEN st
  ELSE IF "ForceExportName" \in opts THEN ForceName(st, id, n)
  ELSE IF NameOf(st, id) = Empty THEN SetName(st, id, n) ELSE st

Export(kind, i, n) ==
  LET id == Operand(kind, i)
      st == External(llvm, id)
  IN  /\ pass = "exports"
      /\ Len(exports) < MaxExports
      /\ \A k \in DOMAIN exports : exports[k].name # n
      /\ exports' = Append(exports, [kind |-> kind, index |-> i, name |-> n])
      /\ llvm' = IF kind = "table" THEN llvm
                 ELSE IF kind = "func" THEN ExportedName(st, id, n) ELSE st
      /\ UNCHANGED <<opts, pass, pos, space, vecs, nonImportFuncs, bodies, elems>>

DefaultName ==
  LET id == vecs["func"][pos + 1]
  IN  /\ pass = "names"
      /\ pos < Len(vecs["func"])
      /\ pos' = pos + 1
      /\ llvm' = IF NameOf(llvm, id) = Empty
                 THEN SetName(llvm, id, Numbered("func_", pos)) ELSE llvm
      /\ UNCHANGED <<opts, pass, space, vecs, nonImportFuncs, bodies, exports,
                     elems>>

-----------------------------------------------------------------------------
(* Element segments: [table, offset, funcs].  The entries of a table are   *)
(* the values of functions, or 0 for null.                                 *)

Segments ==
  { [table |-> t, offset |-> o, funcs |-> fs] :
      t \in DOMAIN space["table"], o \in Offsets,
      fs \in UNION { [1 .. n -> DOMAIN space["func"]] : n \in 0 .. MaxSeg } }

(* Mutant: the offset is left out.                                         *)
Buffer_NoOffset(size, seg) ==
  [k \in 1 .. size |->
     IF k <= Len(seg.funcs) THEN Operand("func", seg.funcs[k]) ELSE 0]

(* The initialiser a segment makes, all null beside its entries; what lies *)
(* behind the end of the table is dropped.                                 *)
Buffer(size, seg) ==
  [k \in 1 .. size |->
     LET i == k - 1
     IN  IF i >= seg.offset /\ i < seg.offset + Len(seg.funcs)
         THEN Operand("func", seg.funcs[i - seg.offset + 1]) ELSE 0]
(* Mutant: a table that has an initialiser keeps it.                       *)
Replaced_Nothing(old, new) == llvm
(* replaceAllUsesWith: arrays are uniqued constants, so every table with   *)
(* the same initialiser gets the new one.                                  *)
Replaced(old, new) ==
  [llvm EXCEPT !.values =
     [k \in DOMAIN @ |->
        IF @[k].kind = "table" /\ @[k].init = old
        THEN [@[k] EXCEPT !.init = new] ELSE @[k]]]

HasInitializer(id) == llvm.values[id].init # NoInitialiser

VisitElem(seg) ==
  LET id == Operand("table", seg.table)
      new == { Buffer(llvm.values[id].size, seg) }
  IN  /\ pass = "elems"
      /\ Len(elems) < MaxElems
      /\ IF HasInitializer(id) /\ llvm.values[id].init = new
         THEN Stop("assert")
         ELSE /\ llvm' = IF HasInitializer(id)
                         THEN Replaced(llvm.values[id].init, new)
                         ELSE [llvm EXCEPT !.values[id].init = new]
              /\ elems' = Append(elems, seg)
              /\ UNCHANGED <<opts, pass, pos, space, vecs, nonImportFuncs,
                             bodies, exports>>

(* Passive and declared segments, element expressions, a global.get as the *)
(* offset.                                                                 *)
UnsupportedElem == pass = "elems" /\ Stop("abort")

-----------------------------------------------------------------------------

Passes == <<"imports", "global", "memory", "func", "table", "bodies",
            "exports", "names", "elems", "done">>
LoopEnded ==
  /\ pass \in {"global", "table"} => pos = Cardinality(Imported(pass))
  /\ pass = "bodies" => pos = Len(nonImportFuncs)
  /\ pass = "names" => pos = Len(vecs["func"])
NextPass ==
  /\ LoopEnded
  /\ \E k \in 1 .. Len(Passes) - 1 : pass = Passes[k] /\ pass' = Passes[k + 1]
  /\ pos' = 0
  /\ UNCHANGED <<opts, space, llvm, vecs, nonImportFuncs, bodies, exports, elems>>

MNext ==
  \/ \E kind \in Kinds : \E e \in Entities(kind), link \in LinkNames :
       Import(kind, e, link)
  \/ \E kind \in Kinds : Revisit(kind)
  \/ \E kind \in Kinds : \E e \in Entities(kind) : Define(kind, e)
  \/ UnsupportedGlobalOrTable
  \/ \E e \in Entities("func") : DeclareFunc(e)
  \/ VisitFunc
  \/ \E kind \in Kinds : \E i \in DOMAIN space[kind], n \in ExportNames :
       Export(kind, i, n)
  \/ DefaultName
  \/ \E seg \in Segments : VisitElem(seg)
  \/ UnsupportedElem
  \/ NextPass

MOver == pass \in {"done", "abort", "assert"} /\ UNCHANGED mvars
MSpec == MInit /\ [][MNext \/ MOver]_mvars

-----------------------------------------------------------------------------
(* Properties: index spaces and linkage.                                   *)

Value(kind, i) == llvm.values[Operand(kind, i)]
Late == {"names", "elems", "done"}

(* Every index of the module denotes, in the Context's vector of its kind, *)
(* the value made for it, whatever mixture of imports and definitions the  *)
(* module has, and every body is in its own function.  With imported       *)
(* tables this is so of the imported ones only.                            *)
IndexesAgree ==
  /\ \A kind \in Kinds \ {"table"} : Len(vecs[kind]) = Len(space[kind])
  /\ \A kind \in Kinds : \A i \in DOMAIN space[kind] :
       kind # "table" \/ i \in Imported(kind) \/ Imported(kind) = {} =>
         Value(kind, i).kind = kind /\ Value(kind, i).of = i
  /\ \A b \in bodies : Operand("func", b[1]) = b[2] /\ b[1] \in Defined("func")

(* The same for every table: what Context::tables is declared to be.       *)
TableIndexes ==
  pass \notin {"imports", "table"} =>
    \A i \in DOMAIN space["table"] : Value("table", i).of = i

ExportsOf(kind, i) == { k \in DOMAIN exports :
                          exports[k].kind = kind /\ exports[k].index = i }
(* The name a function was declared with.                                  *)
Wanted(i) == OptDollar(space["func"][i].name)
EntryNames == IF "FixNames" \in opts
              THEN {Text("__original_main"), Text("__main_argc_argv")}
              ELSE {Main}
Entries == { i \in Defined("func") : Wanted(i) \in EntryNames }
(* The functions taken for the entry: FixNames removes another dollar sign *)
(* before it compares the name.                                            *)
TakenForEntry ==
  { i \in Defined("func") :
      (IF "FixNames" \in opts THEN OptDollar(Wanted(i)) ELSE Wanted(i))
        \in EntryNames }
HeldByOther(n) == \E k \in DOMAIN llvm.values :
                    llvm.values[k].kind # "func" /\ llvm.values[k].name = n

(* After the exports a definition is visible to the linker exactly when    *)
(* the module exports it or it is the program's entry, unless a global     *)
(* variable has the entry's name, and an import always is.                 *)
LinkageRight ==
  pass \in Late =>
    \A kind \in Kinds \ {"table"} : \A i \in DOMAIN space[kind] :
      LET public == space[kind][i].imported \/ ExportsOf(kind, i) # {}
      IN  /\ public => Value(kind, i).external
          /\ Value(kind, i).external =>
               public \/ (kind = "func" /\ i \in TakenForEntry)
          /\ kind = "func" /\ i \in Entries /\ ~ HeldByOther(Wanted(i)) =>
               Value(kind, i).external

-----------------------------------------------------------------------------
(* Properties: names.                                                      *)

ExportedAs(i, n) ==
  \E k \in ExportsOf("func", i) : exports[k].name = n
Forced == "ForceExportName" \in opts

(* Name n is m with a number appended.                                     *)
Continues(n, m) ==
  n.nums # << >> /\ m = [n EXCEPT !.nums = SubSeq(@, 1, Len(@) - 1)]

(* An import keeps the name the linker finds it by, unless that name was   *)
(* taken before it came (by an import of the same name, or of one that     *)
(* only lacks the last number), the entry of the program takes it as main, *)
(* or a forced export of this name or of the import itself does.           *)
ImportKeepsName ==
  pass \in Late =>
    \A i \in Imported("func") :
      \/ Value("func", i).name = Wanted(i)
      \/ HeldByOther(Wanted(i))
      \/ \E j \in 1 .. i - 1 :
           Wanted(i) = Wanted(j) \/ Continues(Wanted(i), Wanted(j))
      \/ Wanted(i) = Main /\ "FixNames" \in opts /\ TakenForEntry # {}
      \/ Forced /\ \E k \in DOMAIN exports :
           exports[k].kind = "func" /\ (exports[k].index = i
                                          \/ exports[k].name = Wanted(i))

LastExport(i) ==
  { k \in ExportsOf("func", i) :
      /\ exports[k].name # Empty
      /\ \A j \in ExportsOf("func", i) : j > k => exports[j].name = Empty }

(* A forced export ends up with the last of its export names; only if a    *)
(* global variable has that name LLVM appends a number, and only then a    *)
(* later export can take the numbered name away.                           *)
ForcedUnlessHeld ==
  pass \in Late /\ Forced =>
    \A i \in DOMAIN space["func"] : \A k \in LastExport(i) :
      LET n == exports[k].name
      IN  \/ Value("func", i).name = n
          \/ /\ HeldByOther(n)
             /\ \/ Continues(Value("func", i).name, n)
                \/ \E j \in k + 1 .. Len(exports) : Continues(exports[j].name, n)

(* FixNames leaves no definition with a name that calls from other code    *)
(* would be bound to, unless the module itself exports it by that name.    *)
NamesFixed ==
  pass \in Late /\ "FixNames" \in opts =>
    \A i \in Defined("func") :
      Value("func", i).name \in { Text("memset"), Text("memcpy"),
                                  Text("__original_main"),
                                  Text("__main_argc_argv") } =>
        ExportedAs(i, Value("func", i).name)

(* FixNames: main is the last function of the module that is the program's *)
(* entry, whatever else was called main before, unless a global variable   *)
(* has its name, or a forced export takes the name or gives the entry      *)
(* another one.                                                            *)
EntryIsMain ==
  pass \in Late /\ "FixNames" \in opts /\ ~ HeldByOther(Main) =>
    \A i \in Entries :
      \/ Value("func", i).name = Main
      \/ HeldByOther(Wanted(i))
      \/ \E j \in TakenForEntry : j > i
      \/ Forced /\ \E k \in DOMAIN exports :
           exports[k].kind = "func" /\ (exports[k].index = i
                                          \/ exports[k].name = Main)

-----------------------------------------------------------------------------
(* Properties: tables.                                                     *)

Nulls(n) == [k \in 1 .. n |-> 0]
(* The table WebAssembly instantiates, by indices of functions.            *)
Overlaid(entries, seg) ==
  [k \in DOMAIN entries |->
     IF k - seg.offset \in DOMAIN seg.funcs THEN seg.funcs[k - seg.offset]
     ELSE entries[k]]
SegmentsOf(t) == { k \in DOMAIN elems : elems[k].table = t }
Instantiated(t) ==
  LET upto[k \in 0 .. Len(elems)] ==
        IF k = 0 THEN Nulls(space["table"][t].size)
        ELSE IF elems[k].table = t THEN Overlaid(upto[k - 1], elems[k])
        ELSE upto[k - 1]
  IN  upto[Len(elems)]
(* Instantiation traps at a segment that does not fit.                     *)
Instantiable ==
  \A k \in DOMAIN elems :
    elems[k].offset + Len(elems[k].funcs) <= space["table"][elems[k].table].size

(* The table in the IR, by indices of functions.                           *)
Contents(t) ==
  IF ~ HasInitializer(Operand("table", t)) THEN Nulls(space["table"][t].size)
  ELSE LET entries == CHOOSE a \in Value("table", t).init : TRUE
       IN  [k \in DOMAIN entries |->
              IF entries[k] = 0 THEN 0 ELSE llvm.values[entries[k]].of]
Several(t) == Cardinality(SegmentsOf(t)) > 1

(* Every table is what WebAssembly makes of it, as long as no table of its *)
(* size, and not it itself, has a second segment.                          *)
TablesRight ==
  pass \in {"elems", "done"} /\ Instantiable /\ Imported("table") = {} =>
    \A t \in DOMAIN space["table"] :
      \/ Contents(t) = Instantiated(t)
      \/ \E u \in DOMAIN space["table"] :
           Several(u) /\ space["table"][u].size = space["table"][t].size

(* The functions of the segment just visited are at their places, whatever *)
(* the tables shared before.                                               *)
LastSegmentIsIn ==
  pass \in {"elems", "done"} /\ elems # << >> /\ Imported("table") = {} =>
    LET seg == elems[Len(elems)]
    IN  \A k \in DOMAIN seg.funcs :
          seg.offset + k <= space["table"][seg.table].size =>
            Contents(seg.table)[seg.offset + k] = seg.funcs[k]

(* What the comment of visitElem says: the function pointers are filled    *)
(* in.                                                                     *)
SegmentsFilledIn ==
  pass \in {"elems", "done"} /\ Instantiable /\ Imported("table") = {} =>
    \A t \in DOMAIN space["table"] : Contents(t) = Instantiated(t)
=============================================================================
