----------------------------- MODULE MCExpressions -----------------------------
(***************************************************************************)
(* Small trees for Expressions: the root 1 has the operands 2, 3 and 3, as *)
(* many as it takes, and 2 has the operands 4, 5 and 5.                    *)
(***************************************************************************)
EXTENDS Expressions

Node(kind, detail) == [kind |-> kind, detail |-> detail]

Leaves ==
  { Node("IntegerLiteral", ""), Node("CXXBoolLiteralExpr", ""), Node("Expr", "") }
  \cup { Node(kind, referent) :
           kind \in {"DeclRefExpr", "DependentScopeDeclRefExpr"},
           referent \in Referents \ {"null"} }
  \cup { Node("DependentScopeDeclRefExpr", "null") }

Inner ==
  { Node("CastExpr", "wrappable"), Node("CastExpr", "unwrappable"),
    Node("ParenExpr", ""), Node("SubstNonTypeTemplateParmExpr", ""),
    Node("UnaryOperator", "!"), Node("UnaryOperator", "-"),
    Node("BinaryOperator", "<"), Node("BinaryOperator", "+"),
    Node("BinaryOperator", "<<") }

\* Calls of overloaded operators, with their number of arguments.
Calls == { << 1, "!" >>, << 1, ">=" >>, << 2, "<" >>, << 2, "!" >>, << 2, "<<" >>,
           << 3, "+" >> }

Count(kind) == CHOOSE n \in Arity[kind] : TRUE

TreeOf(use, known, one, ones, two, twos, three, four) ==
  [ use        |-> use,
    kind       |-> << one.kind, two.kind, three.kind, four.kind, "IntegerLiteral" >>,
    operands   |-> << SubSeq(<< 2, 3, 3 >>, 1, ones),
                      SubSeq(<< 4, 5, 5 >>, 1, twos), << >>, << >>, << >> >>,
    detail     |-> << one.detail, two.detail, three.detail, four.detail, "" >>,
    translated |-> known ]

Int == Node("IntegerLiteral", "")
Parameter == Node("DeclRefExpr", "TemplateNonTypeArgument")

Uses == { "default value", "argument or array length" }

\* One reference, alone or in parentheses, whose declaration may have a node.
References1 ==
  { TreeOf(use, known, one, ones, leaf, 0, Int, Int) :
      use \in Uses, known \in { {}, {1, 2} },
      one \in { Node("ParenExpr", "") }, ones \in { 1 }, leaf \in Leaves }
  \cup
  { TreeOf(use, known, leaf, 0, Int, 0, Int, Int) :
      use \in Uses, known \in { {}, {1, 2} }, leaf \in Leaves }

\* Two levels of operators over a few leaves.
Nested ==
  { TreeOf(use, {}, one, Count(one.kind), two, Count(two.kind), three, four) :
      use \in Uses, one \in Inner, two \in Inner,
      three \in { Int, Node("Expr", ""), Node("DeclRefExpr", "Function") },
      four \in { Parameter, Node("Expr", ""), Node("DeclRefExpr", "Variable") } }

OfCalls ==
  { TreeOf(use, {}, Node("CXXOperatorCallExpr", call[2]), call[1],
           two, Count(two.kind), Int, four) :
      use \in Uses, call \in Calls, two \in Inner,
      four \in { Parameter, Node("Expr", "") } }
  \cup
  { TreeOf(use, {}, one, Count(one.kind),
           Node("CXXOperatorCallExpr", call[2]), call[1], Int, four) :
      use \in Uses, one \in Inner, call \in Calls,
      four \in { Parameter, Node("Expr", "") } }

MCTrees == References1 \cup Nested \cup OfCalls
=============================================================================
