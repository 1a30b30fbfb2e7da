------------------------------- MODULE MCTypeMap -------------------------------
(***************************************************************************)
(* Small programs for TypeMap: a type a of every kind around a type b of   *)
(* every kind around a type c, which may be a record with a field, or the  *)
(* parameter of a template; d is c *, i and l are int and long.            *)
(***************************************************************************)
EXTENDS TypeMap

MCQType == {"a", "b", "c", "d", "i", "l"}

OuterKind == { "Pointer", "Typedef", "Const", "FunctionProto", "Vector",
               "TemplateSpecialization", "DependentName", "Restrict", "Paren",
               "Decltype", "Decayed", "Elaborated", "Auto", "TypeOfExpr" }

InnerKind == { "Record", "Union", "Other", "RValueReference", "Qualified",
               "TemplateTypeParm", "InjectedClassName", "Builtin" }

WithParts == { "FunctionProto", "TemplateSpecialization", "DependentName" }

ProgramOf(a, b, c, parts, members, roots) ==
  [ kind    |-> [a |-> a, b |-> b, c |-> c, d |-> "Pointer",
                 i |-> "Builtin", l |-> "Builtin"],
    inner   |-> [a |-> "b", b |-> "c", d |-> "c", c |-> NullType,
                 i |-> NullType, l |-> NullType],
    parts   |-> [a |-> parts, b |-> << >>, d |-> << >>, i |-> << >>, l |-> << >>,
                 c |-> IF c \in Records THEN members ELSE << >>],
    members |-> [c |-> members,
                 a |-> << >>, b |-> << >>, d |-> << >>, i |-> << >>, l |-> << >>],
    roots   |-> roots ]

AllPrograms ==
  { ProgramOf(a, b, c, parts, members, roots) :
      a \in OuterKind, b \in OuterKind, c \in InnerKind,
      parts \in { << >>, << "b", "l" >>, << "c", "l" >> },
      members \in { << >>, << "c", "i" >>, << "a" >>, << "d" >> },
      roots \in { << "a" >>, << "d", "a" >> } }

\* The type of a variable declared with auto, not deduced in a template.
Undeduced ==
  [ProgramOf("Auto", "Pointer", "Builtin", << >>, << >>, << "d", "a" >>)
     EXCEPT !.inner["a"] = NullType]

\* A record contains itself only behind a pointer, a parameter is its own type.
MCPrograms ==
  {Undeduced} \cup { p \in AllPrograms :
      /\ WellFormed(p)
      /\ p.parts["a"] # << >> => p.kind["a"] \in WithParts
      /\ CASE p.kind["c"] \in Records ->
                p.members["c"] # << "c", "i" >>
                /\ p.members["c"] = << "a" >> => "Pointer" \in {p.kind["a"], p.kind["b"]}
           [] p.kind["c"] = "TemplateTypeParm" -> p.members["c"] = << "c", "i" >>
           [] OTHER -> p.members["c"] = << >> }
=============================================================================
