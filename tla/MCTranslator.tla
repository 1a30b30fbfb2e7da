---------------------------- MODULE MCTranslator ----------------------------
(***************************************************************************)
(* Families of small C++ programs for Translator.  Every program is over   *)
(* the same names, of which it uses some:                                  *)
(*   N, M, L  namespaces        S, T, B, D  records    U    a union        *)
(*   E, e     an enum, its enumerator       W, X  typedefs                 *)
(*   f        a function        m, g     methods       v    a variable     *)
(*   s, t, u  fields            c        a constructor                     *)
(*                                                                         *)
(* A declaration sorts by its FIRST source location, and a namespace       *)
(* yields the children of all its parts where its first part stands, the   *)
(* later parts last to first.  So a program may well use a declaration     *)
(* that comes later in the lists below: a record was forward declared and  *)
(* is defined further down, a parameter is of type `struct T *`, or a      *)
(* namespace is reopened below what it uses.                               *)
(***************************************************************************)
EXTENDS Translator

KindTable ==
  [d \in Decl |->
     CASE d \in {"N", "M", "L"} -> "namespace"
       [] d \in {"S", "T", "B", "D"} -> "record"
       [] d = "U" -> "union"      [] d = "E" -> "enum"
       [] d = "e" -> "enumerator" [] d \in {"W", "X"} -> "typedef"
       [] d = "f" -> "function"   [] d \in {"m", "g"} -> "method"
       [] d = "v" -> "variable"   [] d \in {"s", "t", "u"} -> "field"
       [] OTHER -> "ignored"]

Plain == {"wrappable", "emit", "defined"}
Hidden == {"wrappable", "defined"}
Declared == {"wrappable"}
Rejected == {"emit", "defined"}

Value(to) == [form |-> "value", to |-> to]
Pointer(to) == [form |-> "pointer", to |-> to]
Ref(to) == [form |-> "ref", to |-> to]
Void == Value(Builtin)
Bad == Value(Untranslatable)

Public(to) == [to |-> to, public |-> TRUE, virtual |-> FALSE]
Private(to) == [to |-> to, public |-> FALSE, virtual |-> FALSE]
Virtual(to) == [to |-> to, public |-> TRUE, virtual |-> TRUE]

(* Everything declared, nothing listed: the families fill it in.           *)
Blank ==
  [kind |-> KindTable, flags |-> [d \in Decl |-> Plain], free |-> <<>>,
   children |-> [[d \in Decl |-> <<>>] EXCEPT !["E"] = <<"e">>],
   uses |-> [d \in Decl |-> IF KindTable[d] \in {"typedef", "enum", "variable",
                                                 "field", "function", "method"}
                              THEN <<Void>> ELSE <<>>],
   bases |-> [d \in Decl |-> <<>>],
   strategy |-> [d \in Decl |-> "STRUCT"]]

(* struct S; struct T { S *t; }; struct S { T s; }; void f(..); or with f  *)
(* first and struct T and struct S declared among its parameters.          *)
ReferencePrograms ==
  {[Blank EXCEPT !.free = order, !.children["S"] = <<"S", "s">>,
                 !.children["T"] = IF flagsT = Declared THEN <<>> ELSE <<"t">>,
                 !.uses["s"] = <<us>>,
                 !.uses["t"] = <<ut>>, !.uses["f"] = uf, !.flags["T"] = flagsT,
                 !.strategy["S"] = strategyS, !.strategy["T"] = strategyT] :
     order \in {<<"S", "T", "f">>, <<"f", "T", "S">>},
     us \in {Pointer("T"), Ref("T"), Value("T")},
     ut \in {Pointer("S"), Ref(Builtin)},
     uf \in {<<Void, Pointer("S")>>, <<Void, Ref("T"), Value("S")>>, <<Bad>>},
     flagsT \in {Plain, Hidden, Declared, Rejected},
     strategyS \in {"STRUCT", "INTERFACE"}, strategyT \in Strategy}

(* namespace N { S; f; namespace M { E; v; } }, reopened or not, and a     *)
(* record T of the global namespace.  A child that has a forward           *)
(* declaration is listed twice.                                            *)
NamespacePrograms ==
  {[Blank EXCEPT !.free = order, !.children["N"] = childrenN,
                 !.children["M"] = <<"E", "v">>, !.children["S"] = <<"s", "t">>,
                 !.children["T"] = <<"g">>, !.uses["g"] = <<Pointer("S")>>,
                 !.uses["s"] = <<us>>, !.uses["f"] = uf, !.flags["f"] = flagsF,
                 !.uses["v"] = <<Value("E")>>, !.uses["E"] = <<uE>>,
                 !.flags["E"] = IF uE = Bad THEN {} ELSE Plain] :
     order \in {<<"N", "T">>, <<"T", "N">>},
     childrenN \in {<<"S", "f", "M">>, <<"S", "f", "M", "S", "f">>,
                    <<"f", "M", "f", "M", "S">>},
     us \in {Value("T"), Pointer("S"), Bad},
     uf \in {<<Pointer("T")>>, <<Pointer("T"), Bad>>, <<Void, Value("E")>>},
     flagsF \in {Plain, Plain \cup {"operator"}, {}},
     uE \in {Void, Bad}}

(* namespace N { class D : T, .. { m; g; v; S; u; E; }; }, with T before   *)
(* N, or between two parts of N; and a record B, first forward declared,   *)
(* that may refer to D::S.                                                 *)
ClassPrograms ==
  {[Blank EXCEPT !.free = order, !.children["N"] = <<"D">>,
                 !.children["D"] = childrenD, !.bases["D"] = bases,
                 !.strategy["D"] = strategyD, !.strategy["T"] = strategyT,
                 !.children["S"] = <<"s">>, !.flags["S"] = flagsS,
                 !.children["B"] = <<"t">>,
                 !.uses["t"] = IF Len(bases) < 2 THEN <<Pointer("S")>>
                                                 ELSE <<Void>>,
                 !.flags["m"] = IF "overrides" \in flagsM /\ bases = <<>>
                                  THEN Plain ELSE flagsM,
                 !.uses["m"] = um] :
     order \in {<<"B", "N", "T">>, <<"T", "N", "B">>},
     childrenD \in {<<"D", "m", "S", "g", "S", "c">>,
                    <<"S", "E", "v", "m", "u">>},
     bases \in {<<>>, <<Public("T")>>, <<Private("T")>>, <<Virtual("T")>>,
                <<Public("T"), Public("B")>>},
     strategyD \in {"STRUCT", "INTERFACE"}, strategyT \in Strategy,
     flagsS \in {Plain, Hidden},
     flagsM \in {Plain, Plain \cup {"virtual"}, Plain \cup {"static"},
                 Plain \cup {"virtual", "overrides"}, {"emit", "operator"}},
     um \in {<<Ref(Builtin)>>, <<Void, Bad>>}}

(* union U { .. }; void f(U); or void f(union U); union U { .. };, or with *)
(* a struct T that is first declared above and refers to U::S.             *)
UnionPrograms ==
  {[Blank EXCEPT !.free = order, !.children["U"] = childrenU,
                 !.flags["m"] = Plain \cup flagsM, !.flags["S"] = flagsS,
                 !.children["T"] = <<"u">>,
                 !.uses["u"] = <<IF "wrappable" \in flagsS THEN Pointer("S")
                                                           ELSE Void>>,
                 !.uses["f"] = <<Void, Value("U")>>] :
     order \in {<<"U", "f">>, <<"f", "U">>, <<"T", "U">>},
     childrenU \in {<<"s", "m">>, <<"s", "S", "t">>, <<"v">>},
     flagsM \in {{}, {"virtual"}, {"static"}},
     flagsS \in {Plain, Hidden, Rejected}}

(* typedef .. X; typedef .. W; namespace N { W v; void f(W&); }, with N    *)
(* opened before the typedefs or not.                                      *)
TypedefPrograms ==
  {[Blank EXCEPT !.free = order, !.children["N"] = <<"v", "f">>,
                 !.uses["X"] = <<uX>>, !.uses["W"] = <<uW>>,
                 !.uses["v"] = <<uv>>, !.uses["f"] = <<Ref("W")>>,
                 !.flags["W"] = flagsW, !.strategy["S"] = strategyS] :
     order \in {<<"S", "X", "W", "N">>, <<"N", "S", "X", "W">>},
     uX \in {Value("S"), Pointer("S")}, uW \in {Value("X"), Ref("X"), Bad},
     uv \in {Value("W"), Pointer("W"), Ref("W")}, flagsW \in {Plain, {}},
     strategyS \in Strategy}

(* namespace N { namespace M { namespace L { struct S { s; t; }; f; } } }, *)
(* where any of the three may be reopened.                                 *)
NestedPrograms ==
  {[Blank EXCEPT !.free = <<"N">>, !.children["N"] = childrenN,
                 !.children["M"] = childrenM, !.children["L"] = childrenL,
                 !.children["S"] = <<"s", "t">>, !.flags["t"] = Hidden] :
     childrenN \in {<<"M">>, <<"M", "M">>},
     childrenM \in {<<"L">>, <<"L", "L">>},
     childrenL \in {<<"S", "f">>, <<"f", "S", "f">>}}

(* namespace N { class or union { v; .. }; }, with v a static member, and  *)
(* perhaps a forward declaration: the second walk finds the node of v,     *)
(* whether or not the first one could translate its type.                  *)
StaticPrograms ==
  {[Blank EXCEPT !.free = order, !.children["N"] = [i \in 1..times |-> class],
                 !.children[class] = inside, !.strategy[class] = strategy,
                 !.uses["v"] = <<uv>>, !.flags["v"] = flagsV,
                 !.uses["f"] = <<Void, Ref(class)>>] :
     order \in {<<"N", "f">>, <<"f", "N">>}, times \in 1..2,
     class \in {"D", "U"}, strategy \in {"STRUCT", "INTERFACE"},
     inside \in {<<"v", "s">>, <<"m", "v">>, <<"v", "v", "m">>},
     uv \in {Void, Ref(Builtin)}, flagsV \in {Plain, Hidden}}

(* Not every combination is C++: a field cannot have an incomplete type,   *)
(* and a typedef of a reference is not wrappable.                          *)
MCPrograms ==
  NamespacePrograms \cup NestedPrograms \cup ClassPrograms
    \cup UnionPrograms \cup StaticPrograms
    \cup {p \in ReferencePrograms \cup TypedefPrograms : WellFormed(p)}
=============================================================================
