----------------------------- MODULE MCTraversal -----------------------------
(***************************************************************************)
(* Families of small syntax trees for Traversal: a few root declarations   *)
(* in every order.  The first declaration of an entity is the canonical    *)
(* one, and its line is ten times its place among the roots.               *)
(***************************************************************************)
EXTENDS Traversal, SequencesExt

Entry(kind, first, parts, line) ==
  [kind |-> kind, first |-> first, parts |-> parts, line |-> line]

\* The tree of the given declarations; no list has any other.  One ends
\* where the last declaration in it stands.
Tree(entries, defined, inFiles, implicit) ==
  LET At(d) == IF d \in DOMAIN entries THEN entries[d]
               ELSE Entry("Unwrappable", d, << >>, 0)
      Below(S) == S \cup UNION { Range(At(d).parts) : d \in S }
  IN  [ kind      |-> [d \in Decl |-> At(d).kind],
        canonical |-> [d \in Decl |-> At(d).first],
        parts     |-> [d \in Decl |-> At(d).parts],
        defined   |-> defined,
        inFiles   |-> inFiles,
        implicit  |-> implicit,
        line      |-> [d \in Decl |-> At(d).line],
        end       |-> [d \in Decl |->
                         Max({ At(e).line : e \in Below(Below(Below({d}))) })] ]

Place(s, d) == CHOOSE i \in DOMAIN s : s[i] = d
InOrder(s, d, e) == Place(s, d) < Place(s, e)
First(s, d, e) == IF InOrder(s, d, e) THEN d ELSE e
Line(s, d) == 10 * Place(s, d)

(* struct a; struct b { f; m; friend q declaring g }, both of one entity;  *)
(* void c = b::m() { x }, or a static member; void d(y) and e are one, and *)
(* so are g and h.  All of it may be in a linkage specification l.         *)
RecordOrders ==
  { Append(s, "e") :
      s \in { s \in SetToSeqs({"a", "b", "c", "d", "h"}) :
                InOrder(s, "b", "c") } }

RecordTrees ==
  { LET A == First(s, "a", "b")
        G == IF InOrder(s, "b", "h") THEN "g" ELSE "h"
        B == Line(s, "b")
    IN Tree( [tu |-> Entry("TranslationUnit", "tu",
                           IF linked THEN <<"l">> ELSE s, 0),
              l |-> Entry("LinkageSpec", "l", IF linked THEN s ELSE << >>, 1),
              a |-> Entry("Record", A, << >>, Line(s, "a")),
              b |-> Entry("Record", A, <<"f", "q", "m">>, B),
              f |-> Entry("Field", "f", << >>, B + 1),
              q |-> Entry("Unwrappable", "q", <<"g">>, B + 2),
              g |-> Entry("Function", G, << >>, B + 2),
              m |-> Entry(member, "m", <<"z">>, B + 3),
              z |-> Entry("Argument", "z", << >>, B + 3),
              c |-> Entry(member, "m", <<"x">>, Line(s, "c")),
              x |-> Entry("Argument", "x", << >>, Line(s, "c")),
              d |-> Entry("Function", "d", <<"y">>, Line(s, "d")),
              y |-> Entry("Argument", "y", << >>, Line(s, "d")),
              e |-> Entry("Function", "d", << >>, Line(s, "e")),
              h |-> Entry("Function", G, << >>, Line(s, "h"))],
             {"b"}, inFiles, {}) :
      s \in RecordOrders,
      linked \in BOOLEAN,
      member \in {"Method", "Unwrappable", "Variable"},
      inFiles \in { {"a", "d", "g"}, {"b", "f", "m", "c", "e", "h"} } }

(* template<p> struct, or union, a and b of g and h; two declarations c    *)
(* and d of a specialization, one with the member m, again as n outside.   *)
TemplateOrders ==
  { s \in SetToSeqs({"a", "b", "c", "d", "n"}) :
      InOrder(s, First(s, "a", "b"), First(s, "c", "d")) }

TemplateTrees ==
  { LET A == First(s, "a", "b")
        G == IF A = "a" THEN "g" ELSE "h"
        C == First(s, "c", "d")
        of == IF kind = "RecordTemplate" THEN "Record" ELSE "Union"
        Latest == IF C = "c" THEN "d" ELSE "c"
    IN Tree( [tu |-> Entry("TranslationUnit", "tu", s, 0),
              a |-> Entry(kind, A, <<"p", "g", Latest>>, Line(s, "a")),
              p |-> Entry("TemplateArgument", "p", << >>, Line(s, "a")),
              g |-> Entry(of, G, << >>, Line(s, "a")),
              b |-> Entry(kind, A, <<"q", "h", Latest>>, Line(s, "b")),
              q |-> Entry("TemplateArgument", "q", << >>, Line(s, "b")),
              h |-> Entry(of, G, <<"f">>, Line(s, "b")),
              f |-> Entry("Field", "f", << >>, Line(s, "b") + 1),
              c |-> Entry("SpecializedRecord", C, <<"m">>, Line(s, "c")),
              d |-> Entry("SpecializedRecord", C, << >>, Line(s, "d")),
              m |-> Entry("Method", "m", << >>, Line(s, "c") + 1),
              n |-> Entry("Method", "m", << >>, Line(s, "n"))],
             {"b", "h", "c"}, inFiles, {}) :
      s \in { s \in TemplateOrders : InOrder(s, "c", "n") },
      kind \in Templates,
      inFiles \in { {"a", "c", "m"}, {"b", "d", "h"} } }

(* namespace a { f; extern "C" { g } } and namespace b { f again as h },   *)
(* one entity; template<p> using c = d; union e; union k { m }; enum y;    *)
(* enum l { n }; builtin typedefs t, w; x, a namespace alias or a variable.*)
OtherTrees ==
  { LET A == First(s, "a", "b")
        F == IF A = "a" THEN "f" ELSE "h"
        E == First(s, "e", "k")
    IN Tree( [tu |-> Entry("TranslationUnit", "tu",
                           <<"t", "w">> \o s \o enums \o <<"x">>, 0),
              t |-> Entry("Typedef", "t", << >>, 0),
              w |-> Entry("Typedef", "w", << >>, 0),
              a |-> Entry("Namespace", A, <<"f", "o">>, Line(s, "a")),
              f |-> Entry("Function", F, << >>, Line(s, "a") + 1),
              o |-> Entry("LinkageSpec", "o", <<"g">>, Line(s, "a") + 2),
              g |-> Entry("Function", "g", << >>, Line(s, "a") + 3),
              b |-> Entry("Namespace", A, <<"h">>, Line(s, "b")),
              h |-> Entry("Function", F, << >>, Line(s, "b") + 1),
              c |-> Entry("AliasTemplate", "c", <<"p", "d">>, Line(s, "c")),
              p |-> Entry("TemplateArgument", "p", << >>, Line(s, "c") + 1),
              d |-> Entry("Typedef", "d", << >>, Line(s, "c") + 2),
              e |-> Entry("Union", E, << >>, Line(s, "e")),
              k |-> Entry("Union", E, <<"m">>, Line(s, "k")),
              m |-> Entry("Field", "m", << >>, Line(s, "k") + 1),
              l |-> Entry("Enum", enums[1], <<"n">>, Line(enums, "l") + 70),
              n |-> Entry("EnumConstant", "n", << >>, Line(enums, "l") + 71),
              y |-> Entry("Enum", enums[1], << >>, Line(enums, "y") + 70),
              x |-> Entry(kind, "x", << >>, 95)],
             {"k", "l"}, inFiles, {"t", "w"}) :
      s \in { <<"a", "e", "c", "k", "b">>, <<"b", "k", "a", "e", "c">>,
              <<"c", "a", "b", "e", "k">>, <<"k", "c", "b", "e", "a">> },
      enums \in { <<"l", "y">>, <<"y", "l">> },
      kind \in {"Unhandled", "Variable"},
      inFiles \in { {"a", "h", "l", "x"}, {"b", "f", "c", "d", "e"} } }

(* template<p> struct a of g, and its specialization, declared as c, which *)
(* defines a member m and a member template w, as d and as e; outside, m   *)
(* again as n, w defined as b, and k, a specialization of w.               *)
SpecializedTrees ==
  { LET C == First(s, "c", First(s, "d", "e"))
        Latest == CHOOSE x \in {"c", "d", "e"} :
                    \A y \in {"c", "d", "e"} : x = y \/ InOrder(s, y, x)
    IN Tree( [tu |-> Entry("TranslationUnit", "tu", <<"a">> \o s, 0),
              a |-> Entry("RecordTemplate", "a", <<"p", "g", Latest>>, 5),
              p |-> Entry("TemplateArgument", "p", << >>, 5),
              g |-> Entry("Record", "g", << >>, 5),
              c |-> Entry("SpecializedRecord", C, <<"m", "w">>, Line(s, "c")),
              m |-> Entry("Method", "m", << >>, Line(s, "c") + 1),
              w |-> Entry("RecordTemplate", "w", <<"q", "h", "k">>, Line(s, "c") + 2),
              q |-> Entry("TemplateArgument", "q", << >>, Line(s, "c") + 2),
              h |-> Entry("Record", "h", << >>, Line(s, "c") + 2),
              d |-> Entry("SpecializedRecord", C, << >>, Line(s, "d")),
              e |-> Entry("SpecializedRecord", C, << >>, Line(s, "e")),
              n |-> Entry("Method", "m", << >>, Line(s, "n")),
              b |-> Entry("RecordTemplate", "w", <<"t", "x", "k">>, Line(s, "b")),
              t |-> Entry("TemplateArgument", "t", << >>, Line(s, "b")),
              x |-> Entry("Record", "h", <<"f">>, Line(s, "b")),
              f |-> Entry("Field", "f", << >>, Line(s, "b") + 1),
              k |-> Entry("SpecializedRecord", "k", <<"o">>, Line(s, "k")),
              o |-> Entry("Field", "o", << >>, Line(s, "k") + 1)],
             {"a", "g", "c", "b", "x", "k"}, {"c", "m", "b", "k"}, {}) :
      s \in { <<"c", "n", "k", "b", "d", "e">>, <<"c", "d", "b", "k", "e", "n">>,
              <<"d", "c", "k", "b", "n", "e">>, <<"e", "c", "n", "b", "k", "d">>,
              <<"d", "e", "c", "n", "k", "b">>, <<"e", "d", "c", "b", "n", "k">> } }

(* extern "C" { function f; namespace a { f again as g }; f again as h },  *)
(* as clang takes functions of one name with C linkage for one.  The first *)
(* declaration of the namespace may be n, which clang adds for std.        *)
LinkageTrees ==
  { LET F == First(s, "f", First(s, "a", "h"))
        Of(d) == IF d = "a" THEN "g" ELSE d
    IN Tree( [tu |-> Entry("TranslationUnit", "tu", <<"l", "b">>, 0),
              l |-> Entry("LinkageSpec", "l", s, 5),
              f |-> Entry(kind, Of(F), << >>, Line(s, "f")),
              a |-> Entry("Namespace", A, <<"g">>, Line(s, "a")),
              g |-> Entry(kind, Of(F), << >>, Line(s, "a") + 1),
              h |-> Entry(kind, Of(F), << >>, Line(s, "h")),
              b |-> Entry("Namespace", A, <<"c">>, 50),
              c |-> Entry(kind, Of(F), << >>, 51),
              n |-> Entry("Namespace", "n", << >>, 0)],
             {}, inFiles, {"n"}) :
      A \in {"a", "n"},
      s \in SetToSeqs({"f", "a", "h"}),
      kind \in {"Function", "Variable"},
      inFiles \in { {"g"}, {"f"} } }

MCPrograms == LinkageTrees \cup RecordTrees \cup TemplateTrees \cup OtherTrees \cup SpecializedTrees
=============================================================================
