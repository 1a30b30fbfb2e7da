----------------------------- MODULE MCTypeTable -----------------------------
(***************************************************************************)
(* Families of small type graphs for TypeTable.  Every graph is over the   *)
(* same names, of which it uses some; the rest are invalid.                *)
(***************************************************************************)
EXTENDS TypeTable

Entry(kind, target, args, flags) ==
  [kind |-> kind, target |-> target, args |-> args, flags |-> flags]

Leaf(kind, flags) == Entry(kind, NoType, << >>, flags)
To(kind, target) == Entry(kind, target, << >>, {})
Unused == Leaf("Invalid", {})

\* The graph that has the given entries, and no other type.
GraphOf(entries) ==
  LET At(t) == IF t \in DOMAIN entries THEN entries[t] ELSE Unused
  IN  [ kind   |-> [t \in Type |-> At(t).kind],
        target |-> [t \in Type |-> At(t).target],
        args   |-> [t \in Type |-> At(t).args],
        flags  |-> [t \in Type |-> At(t).flags] ]

Class == {"declared", "wrappable", "cxx", "defined"}
Dynamic == Class \cup {"dynamic"}
Incomplete == {"declared", "wrappable", "cxx"}
CStruct == {"declared", "wrappable", "defined"}
Unwrappable == {"declared", "cxx", "defined"}

(* template<class T> class a; template<> class a<b>; template<> class a<c>;*)
(* specializations d = a<g>, e = a<d> or a<d, ...>, the pointer f = d *.   *)
TemplateGraphs ==
  { GraphOf( [a |-> Entry("TemplateRecord", NoType, <<"b", "c">>, fa),
              b |-> Leaf("Record", fb),
              c |-> Leaf("Record", fc),
              d |-> Entry("TemplateSpecialization", "a", <<"g">>, {}),
              e |-> Entry("TemplateSpecialization", "a", <<"d">>, fe),
              f |-> To("Pointer", "d"),
              g |-> Leaf("Enum", {})] ) :
      fa \in {Class, Incomplete},
      fb \in {Dynamic, Incomplete},
      fc \in {Class, {}},
      fe \in {{}, {"pack"}} }

(* Dependent names: a resolves to the typedef b, which is of c, of b again,*)
(* of the const f or of nothing; d and e refer and point to what x says.   *)
DependentGraphs ==
  { GraphOf( [a |-> To("Delayed", "b"),
              b |-> To("Typedef", tb),
              c |-> Leaf("Record", fc),
              d |-> To("Reference", x),
              e |-> To("Pointer", x),
              f |-> To("Qualified", tf),
              g |-> To("Delayed", tg)] ) :
      tb \in {"c", "f", "g"},
      fc \in {Class, {}},
      x \in {"a", "b", "f"},
      tf \in {"c", "a"},
      tg \in {NoType, "a"} }

(* Alias templates: c and d are specializations of an alias of a; the rest *)
(* are the kinds that have no choice.                                      *)
AliasGraphs ==
  { GraphOf( [a |-> ea,
              b |-> Leaf("TemplateRecord", Dynamic),
              c |-> Entry("TemplateSpecialization", "a", <<"e">>, {"alias"}),
              d |-> Entry("TemplateSpecialization", "a", <<"f">>, {"alias"}),
              e |-> Leaf("Enum", {}),
              f |-> To("Array", IF eg.kind = "Reference" THEN "c" ELSE tf),
              g |-> eg] ) :
      ea \in { Leaf("Record", Dynamic), Leaf("Record", Class),
               Leaf("Union", {"declared", "wrappable"}), Leaf("Vector", {}),
               Entry("TemplateSpecialization", "b", <<"e">>, {}),
               Entry("Typedef", "e", << >>, {"implicit"}),
               To("Typedef", "e") },
      tf \in {"c", "g"},
      eg \in { Leaf("Invalid", {}), Leaf("TemplateArgument", {}),
               Leaf("Builtin", {}), To("Reference", "a"),
               To("Reference", "d") } }

MCGraphs == TemplateGraphs \cup DependentGraphs \cup AliasGraphs
=============================================================================
