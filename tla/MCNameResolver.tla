---------------------------- MODULE MCNameResolver ----------------------------
(***************************************************************************)
(* Small programs for NameResolver, all over the same nodes:               *)
(*                                                                         *)
(*   template<T> class D : bases { X, Y };      the pattern is d           *)
(*   template<> class D<...> { X };             the specialization is e    *)
(*   class b { X };  class c { X, Y };  class n {};                        *)
(*                                                                         *)
(* D<T> is the container, B, C, E and N are types of b, c, e and n, J that *)
(* of d, T is the parameter, u a template that is a parameter, v an alias  *)
(* template for C, i the name of a class inside the class.                 *)
(***************************************************************************)
EXTENDS NameResolver, TLC

KindOf ==
  [ DT |-> "TemplateSpecializationType", D |-> "ClassTemplateDecl",
    d |-> "CXXRecordDecl", e |-> "CXXRecordDecl",
    B |-> "RecordType", b |-> "CXXRecordDecl",
    C |-> "ElaboratedType", CT |-> "TypedefType", CR |-> "RecordType",
    c |-> "CXXRecordDecl", N |-> "RecordType", n |-> "CXXRecordDecl",
    E |-> "RecordType", J |-> "InjectedClassNameType",
    T |-> "TemplateTypeParmType", I |-> "OtherType",
    UT |-> "TemplateSpecializationType", u |-> "OtherDecl",
    VT |-> "TemplateSpecializationType", v |-> "TypeAliasTemplateDecl",
    t |-> "TypedefDecl", s |-> "TypedefDecl", a |-> "TypeAliasDecl",
    f |-> "OtherDecl", i |-> "ImplicitDecl" ]

MCNode == DOMAIN KindOf

\* The same in all programs.
Fixed ==
  [ DT |-> "D", D |-> "d", d |-> "J", J |-> "d", e |-> "E", E |-> "e",
    B |-> "b", b |-> "B", C |-> "CT", CT |-> "CR", CR |-> "c", c |-> "CR",
    N |-> "n", n |-> "N", UT |-> "u", VT |-> "v", v |-> "C", a |-> "C" ]

(***************************************************************************)
(* t and s are the types of two typedefs, special the specialization that  *)
(* findSpecialization gives for D<T>, dx .. cy the members.                *)
(***************************************************************************)
ProgramOf(t, s, special, bases, dx, dy, bx, cx, cy) ==
  LET targets == [t |-> t, s |-> s, i |-> IF dx = << "i" >> THEN "J" ELSE "B"] @@ Fixed
      inX == [d |-> dx, b |-> bx, c |-> cx, e |-> << "s" >>]
      inY == [d |-> dy, c |-> cy]
      Members(all, m) == IF m \in DOMAIN all THEN all[m] ELSE << >>
  IN  [ kind    |-> KindOf,
        target  |-> [m \in MCNode |->
                       IF m \in DOMAIN targets THEN targets[m] ELSE NoNode],
        special |-> [m \in MCNode |-> IF m = "DT" THEN special ELSE NoNode],
        members |-> [m \in MCNode |->
                       [X |-> Members(inX, m), Y |-> Members(inY, m)]],
        bases   |-> [m \in MCNode |-> CASE m = "d" -> bases
                                        [] m = "n" -> << "B" >>
                                        [] OTHER -> << >>] ]

\* Bases and hiding, with one typedef for X in every class.
Hierarchies ==
  { ProgramOf("I", "N", NoNode, bases, dx, << >>, bx, cx, << >>) :
      bases \in { << >>, << "B", "C" >>, << "C", "N" >>, << "T", "C" >>,
                  << "UT" >>, << "VT", "N" >>, << "DT" >>, << "I" >> },
      dx \in { << >>, << "t" >>, << "i" >> },
      bx \in { << >>, << "t" >>, << "f", "t" >> },
      cx \in { << >>, << "s" >> } }
  \cup
  { ProgramOf("I", "N", "e", << "C" >>, << >>, << >>, << >>, cx, << "s" >>) :
      cx \in { << >>, << "s" >> } }

\* Paths: X leads to t, in which Y or X is looked up.
Chains ==
  { ProgramOf(t, s, NoNode, bases, << >>, dy, << "t" >>, cx, cy) :
      t \in { "T", "C", "N", "DT", "I" },
      s \in { "I", "C" },
      bases \in { << "B" >>, << "B", "C" >>, << "B", "N" >> },
      dy \in { << >>, << "s" >> },
      cx \in { << >>, << "s" >> },
      cy \in { << >>, << "s" >> } }
  \cup
  { ProgramOf("C", "I", NoNode, bases, << >>, << >>, bx, << "s" >>, << "a" >>) :
      bases \in { << "B" >>, << "C" >>, << "B", "C" >> },
      bx \in { << "t" >>, << "a" >>, << "n" >>, << "i" >>, << "f" >> } }
  \cup
  { ProgramOf("J", "I", NoNode, << >>, << "t" >>, dy, << >>, << >>, << >>) :
      dy \in { << >>, << "s" >> } }

MCPrograms == Hierarchies \cup Chains

QueryFor(wanted, qualifier, names) ==
  [ wanted |-> wanted, qualifier |-> qualifier, container |-> "DT",
    names |-> names ]

MCQueries ==
  { QueryFor("type", "TypeSpec", names) :
      names \in { << "X" >>, << "Y" >>, << "X", "Y" >>, << "X", "X" >>,
                  << "X", "Y", "X" >> } }
  \cup { QueryFor("declaration", "TypeSpec", << "X" >>),
         QueryFor("declaration", "TypeSpec", << "X", "Y" >>),
         QueryFor("declaration", "Other", << "X" >>),
         QueryFor("type", "Other", << "X" >>) }
=============================================================================
