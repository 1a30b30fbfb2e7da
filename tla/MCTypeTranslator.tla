--------------------------- MODULE MCTypeTranslator ---------------------------
(***************************************************************************)
(* Families of small type graphs for TypeTranslator.  Every graph is over  *)
(* the same names, of which it uses some; the rest are invalid.            *)
(***************************************************************************)
EXTENDS TypeTranslator

Entry(kind, target, args, flags) ==
  [kind |-> kind, target |-> target, args |-> args, flags |-> flags]

Plain(kind, flags) == Entry(kind, NoType, << >>, flags)
To(kind, target) == Entry(kind, target, << >>, {})
Unused == Plain("Invalid", {})

\* The graph that has the given entries, and no other type.
GraphOf(entries) ==
  LET At(t) == IF t \in DOMAIN entries THEN entries[t] ELSE Unused
  IN  [ kind   |-> [t \in Type |-> At(t).kind],
        target |-> [t \in Type |-> At(t).target],
        args   |-> [t \in Type |-> At(t).args],
        flags  |-> [t \in Type |-> At(t).flags] ]

Struct == {"declared", "wrappable", "cxx", "defined"}
Dynamic == Struct \cup {"dynamic"}
Incomplete == {"declared", "wrappable", "cxx"}

(* A record a, const a, the pointer c, const c, a typedef e, and f, which  *)
(* is an array of pointers or something that refers.                       *)
PointerGraphs ==
  { GraphOf( [a |-> Plain("Record", fa),
              b |-> To("Qualified", "a"),
              c |-> To("Pointer", xc),
              d |-> To("Qualified", "c"),
              e |-> To("Typedef", "a"),
              f |-> ef] ) :
      fa \in {Struct, Dynamic},
      xc \in {"b", "e"},
      ef \in { To("Array", "c"), Entry("Array", "e", << >>, {"variable"}),
               To("Reference", "d"), To("Reference", "e") } }

(* A function a with parameters b and c; e is a typedef of it or of c, d a *)
(* pointer to one of these; there are no pointers to references.           *)
FunctionGraphs ==
  { GraphOf( [a |-> Entry("Function", NoType, << "b", "c" >>, {}),
              b |-> Plain(kb, {"declared", "wrappable"}),
              c |-> ec,
              d |-> To("Pointer", IF ec.kind = "Reference" /\ xe = "c" THEN "a"
                                  ELSE xd),
              e |-> To("Typedef", xe)] ) :
      kb \in {"Enum", "Union", "TemplateArgument"},
      ec \in { To("Reference", "b"), To("Pointer", "b") },
      xd \in {"a", "e"},
      xe \in {"a", "c"} }

(* A template a, its explicit specialization b, the specialization c of it *)
(* or of an alias, a pointer d, and a dependent name e, perhaps a typedef. *)
TemplateGraphs ==
  { GraphOf( [a |-> Entry("TemplateRecord", NoType, << "b" >>, fa),
              b |-> Plain("Record", fb),
              c |-> Entry("TemplateSpecialization", xc[1], << "f" >>, xc[2]),
              d |-> To("Pointer", "c"),
              e |-> To("Delayed", xe),
              f |-> IF xe = "a" THEN To("Typedef", "e") ELSE Plain("Enum", {})] ) :
      fa \in {Struct, Incomplete},
      fb \in {Dynamic, Incomplete},
      xc \in { << "a", {} >>, << "b", {"alias"} >> },
      xe \in {"a", "b", "c"} }

(* What has no declaration of its own, or one that is not wrappable.       *)
OtherGraphs ==
  { GraphOf( [a |-> Plain("Builtin", {}),
              b |-> Entry("Typedef", xb, << >>, fb),
              c |-> To("Delayed", xc),
              d |-> To("Reference", "a"),
              e |-> To("Pointer", "c"),
              f |-> Plain("Record", ff)] ) :
      xb \in {"a", "d", "f"},
      fb \in {{}, {"implicit"}},
      xc \in {NoType, "b"},
      ff \in {{"wrappable", "declared"}, {}} }

(* Names that stand for each other in a circle: a, of one template, is the *)
(* typedef b in another one, which is a name of the first, or says so by   *)
(* way of c.  d refers to a type of the circle, e points to it.            *)
CircularGraphs ==
  { GraphOf( [a |-> To("Delayed", "b"),
              b |-> To("Typedef", xb),
              c |-> ec,
              d |-> To("Reference", x),
              e |-> To(ke, x),
              f |-> Plain("Record", Struct)] ) :
      xb \in {"a", "c"},
      ec \in { To("Qualified", "a"), To("Pointer", "a"),
               Entry("TemplateSpecialization", "a", << "f" >>, {"alias"}) },
      ke \in {"Pointer", "Array"},
      x \in {"a", "c"} }

MCGraphs ==
  PointerGraphs \cup FunctionGraphs \cup TemplateGraphs \cup OtherGraphs
    \cup CircularGraphs

\* The graphs to try with every configuration of a type as well.
ConfiguredGraphs ==
  { g \in PointerGraphs : g.target["c"] = "e" /\ g.kind["f"] = "Reference" }
    \cup { g \in FunctionGraphs : g.target["e"] = "c" /\ g.kind["c"] = "Pointer"
                                   /\ g.target["d"] = "e" }
    \cup { g \in TemplateGraphs : g.target["c"] = "a" /\ g.target["e"] # "b" }
    \cup { g \in OtherGraphs : g.target["c"] # "b" /\ g.target["b"] # "f" }

FewConfigured ==
  (\E t \in Type : configured[t] # "UNKNOWN") => graph \in ConfiguredGraphs
=============================================================================
