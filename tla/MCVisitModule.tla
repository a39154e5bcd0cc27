--------------------------- MODULE MCVisitModule ----------------------------
(* Small modules for the model checking of VisitModule.                    *)
EXTENDS VisitModule

Count(f, g, m, t) ==
  [k \in Kinds |-> CASE k = "func" -> f [] k = "global" -> g
                     [] k = "memory" -> m [] k = "table" -> t]
Dollar(t) == [dollars |-> 1, text |-> t, nums |-> << >>]
(* A dollar sign may be part of a name.                                    *)
TwoDollars == [dollars |-> 2, text |-> "__original_main", nums |-> << >>]

FewImports == Count(3, 2, 1, 1)
FewDefs == Count(2, 1, 1, 2)
EntryOrMain == { Empty, Dollar("main"), Dollar("__original_main"),
                 Dollar("__main_argc_argv"), Dollar("memset"), TwoDollars }
NoneOrMain == { Empty, Dollar("main"), Dollar("__original_main") }
OneLink == { Text("m.f") }
TwoLinks == { Text("m.f"), Numbered("m.f", 1) }
MainExports == { Empty, Text("main"), Text("memset"), Numbered("main", 1) }
AllOptions == SUBSET {"FixNames", "NoRemoveDollar", "ForceExportName"}

-----------------------------------------------------------------------------
(* Four families of modules; all of them together are too many to be      *)
(* combined.                                                               *)

Nameless(kind) ==
  \A i \in DOMAIN space[kind] : space[kind][i].name \in {Empty} \cup TwoLinks
AtMost(imports, defs) ==
  \A k \in Kinds : /\ Cardinality(Imported(k)) <= imports[k]
                   /\ Cardinality(Defined(k)) <= defs[k]

NoNumberedLink ==
  \A kind \in Kinds : \A i \in DOMAIN space[kind] :
    space[kind][i].name # Numbered("m.f", 1)

(* Index spaces: imports and definitions of every kind, in every mixture.  *)
AnyKinds ==
  /\ opts = {}
  /\ AtMost(Count(1, 2, 1, 1), Count(2, 1, 1, 1))
  /\ Nameless("func") /\ Nameless("global")
  /\ NoNumberedLink
  /\ \A i \in DOMAIN space["table"] : space["table"][i].size = 1
  /\ Len(exports) <= 1
  /\ \A k \in DOMAIN exports : exports[k].name = Empty
  /\ elems = << >>
(* Names: functions and an imported global, under every set of options.    *)
NamedFunctions ==
  /\ AtMost(Count(1, 1, 0, 0), Count(2, 0, 0, 0))
  /\ \A i \in DOMAIN space["global"] : space["global"][i].name \notin TwoLinks
  /\ NoNumberedLink
  /\ "NoRemoveDollar" \in opts => Len(exports) <= 1
  /\ exports # << >> =>
       /\ \A i \in DOMAIN space["func"] : space["func"][i].name # TwoDollars
       /\ \A i \in DOMAIN space["global"] :
            space["global"][i].name # Dollar("__original_main")
  /\ (\E k \in DOMAIN exports : exports[k].name = Numbered("main", 1)) =>
       opts = {"ForceExportName"}
  /\ elems = << >>
(* Functions imported under one name.                                      *)
SameLinks ==
  /\ opts = {}
  /\ AtMost(Count(3, 0, 0, 0), Count(0, 0, 0, 0))
  /\ Nameless("func")
  /\ exports = << >>
  /\ elems = << >>
(* Tables and their segments.                                              *)
FilledTables ==
  /\ opts = {}
  /\ AtMost(Count(0, 0, 0, 0), Count(2, 0, 0, 2))
  /\ Nameless("func")
  /\ exports = << >>
InFamily == AnyKinds \/ NamedFunctions \/ SameLinks \/ FilledTables

(* Single tables and functions, without names.                             *)
NoTable == Count(0, 0, 0, 0)
OneTable == Count(0, 0, 0, 1)
OneFunctionTwoTables == Count(1, 0, 0, 2)
NoName == { Empty }
Plain == { {} }
=============================================================================
