------------------------------ MODULE Expressions ------------------------------
(***************************************************************************)
(* Template arguments, default values and array lengths that are C++       *)
(* expressions: how clang's expressions are wrapped (cpp_expr.hpp,         *)
(* cpp_expr.cpp), translated (translate/expr.d) and printed (dast/expr.d). *)
(*                                                                         *)
(* translateExpression recurses over the expression; the calls of visit in *)
(* progress are the variable calls.  A visit leaves a D expression or null *)
(* in its visitor's result, but only the caller of the outermost one looks *)
(* for null: in any other expression a null operand becomes a hole, which  *)
(* nobody sees until the tree is printed.                                  *)
(*                                                                         *)
(* Literals are abstracted from their values, declarations and types to    *)
(* what the translation asks of them.                                      *)
(***************************************************************************)
EXTENDS Naturals, Sequences, FiniteSets

CONSTANTS
  Expr,    \* the nodes of an expression tree
  Root,    \* its root
  Trees    \* the trees to consider

\* The classes of clang that ClangExpressionVisitor tells apart.
Literals == { "IntegerLiteral", "CXXBoolLiteralExpr" }

Arity ==
  [ IntegerLiteral |-> {0}, CXXBoolLiteralExpr |-> {0}, DeclRefExpr |-> {0},
    DependentScopeDeclRefExpr |-> {0}, CastExpr |-> {1}, ParenExpr |-> {1},
    SubstNonTypeTemplateParmExpr |-> {1}, BinaryOperator |-> {2},
    UnaryOperator |-> {1}, CXXOperatorCallExpr |-> {1, 2, 3}, Expr |-> {0} ]

(***************************************************************************)
(* detail: the operator; the kind of declaration that a reference names    *)
(* ("null" if none is found); whether a cast is to a type that can be      *)
(* translated.  use: what the expression is for.  translated: references   *)
(* to a declaration that has a node before the expression is translated.   *)
(***************************************************************************)
Operators == { "<", ">", "+", "!", ">=", "<<", "-" }
Referents == { "TemplateNonTypeArgument", "Variable", "EnumConstant",
               "Function", "null" }
CastTypes == { "wrappable", "unwrappable" }

Tree == [ use        : {"default value", "argument or array length"},
          kind       : [Expr -> DOMAIN Arity],
          operands   : [Expr -> Seq(Expr)],
          detail     : [Expr -> Operators \cup Referents \cup CastTypes \cup {""}],
          translated : SUBSET Expr ]

WellFormed(t) ==
  \A e \in Expr : Len(t.operands[e]) \in Arity[t.kind[e]]

ASSUME ExpressionsAssumption ==
  /\ IsFiniteSet(Expr)
  /\ Root \in Expr
  /\ Trees \subseteq Tree
  /\ \A t \in Trees : WellFormed(t)

VARIABLES
  tree,        \* the C++ expression; never changes
  calls,       \* the calls of visit in progress, the innermost last
  result,      \* ExpressionTranslator.result of each visit; "" if not visited
  translated,  \* the references whose declaration has a node in the table
  outcome      \* how it ended

exprVars == << tree, calls, result, translated, outcome >>

DClass == { "Literal", "Declaration", "Dependent", "Cast", "Paren", "Binary" }

Outcome == { "running",
             "translated",    \* and not yet printed
             "printed",
             "left out",      \* the template goes without its default value
             "rejected",      \* a D exception: the declaration is left out
             "C++ exception", \* which no D code catches
             "aborted",       \* an assertion or a null pointer, while translating
             "no output" }    \* an assertion or a null pointer, while printing

-----------------------------------------------------------------------------
(***************************************************************************)
(* wrapClangExpression.  A substituted parameter is wrapped as what        *)
(* replaces it; an operator call with three arguments, f(a, b), as null.   *)
(***************************************************************************)
Unsubstituted[n \in Nat] ==
  [e \in Expr |-> IF n > 0 /\ tree.kind[e] = "SubstNonTypeTemplateParmExpr"
                    THEN Unsubstituted[n - 1][tree.operands[e][1]]
                    ELSE e]

Wrapped(e) == Unsubstituted[Cardinality(Expr)][e]

Operands(e) ==
  [i \in DOMAIN tree.operands[e] |-> Wrapped(tree.operands[e][i])]

Wrapper(e) ==
  CASE tree.kind[e] \in Literals -> "Literal"
    [] tree.kind[e] = "DeclRefExpr" -> "Declared"
    [] tree.kind[e] = "DependentScopeDeclRefExpr" -> "Delayed"
    [] tree.kind[e] = "CastExpr" -> "Cast"
    [] tree.kind[e] = "ParenExpr" -> "Paren"
    [] tree.kind[e] = "BinaryOperator" -> "TwoSidedBinary"
    [] tree.kind[e] = "UnaryOperator" -> "OneSidedUnary"
    [] tree.kind[e] = "CXXOperatorCallExpr" /\ Len(tree.operands[e]) = 1 ->
         "ExplicitOperatorUnary"
    [] tree.kind[e] = "CXXOperatorCallExpr" /\ Len(tree.operands[e]) = 2 ->
         "ExplicitOperatorBinary"
    [] tree.kind[e] = "CXXOperatorCallExpr" /\ Len(tree.operands[e]) = 3 -> "null"
    [] OTHER -> "Unwrappable"

Binaries == { "TwoSidedBinary", "ExplicitOperatorBinary" }
Unaries == { "OneSidedUnary", "ExplicitOperatorUnary" }

(***************************************************************************)
(* The four methods getOperator, of the operators in Operators: the one    *)
(* for unary operator calls knows none, and asserts even for "!".          *)
(***************************************************************************)
GetOperator(wrapper, op) ==
  CASE wrapper = "TwoSidedBinary" /\ op \in {"<", ">", "+", ">=", "-"} -> "known"
    [] wrapper = "ExplicitOperatorBinary" /\ op \in {"<", ">", "+", ">=", "-"} ->
         "known"
    [] wrapper = "ExplicitOperatorBinary" /\ op = "!" -> "C++ exception"
    [] wrapper = "OneSidedUnary" /\ op = "!" -> "known"
    [] wrapper = "ExplicitOperatorUnary" /\ op = ">=" -> "C++ exception"
    [] OTHER -> "aborted"

(***************************************************************************)
(* What a visit of e does before it looks at the operands of e.  A         *)
(* reference takes the node that its declaration has or starts one:        *)
(* startDeclExprBuild for a DeclaredExpression, startDeclBuild for a       *)
(* DelayedExpression.                                                      *)
(***************************************************************************)
Prologue(e) ==
  LET w == Wrapper(e)
      d == tree.detail[e]
  IN  CASE w = "null" -> "aborted"
        [] w = "Declared" /\ d \in {"Function", "null"} -> "aborted"
        [] w = "Delayed" /\ (d = "null" \/ ~(d = "Variable" \/ e \in translated)) ->
             "aborted"
        [] w = "Cast" /\ d = "unwrappable" -> "rejected"
        [] w \in Binaries \cup Unaries -> GetOperator(w, d)
        [] OTHER -> "known"

-----------------------------------------------------------------------------
Init ==
  /\ tree \in Trees
  /\ calls = << >>
  /\ result = [e \in Expr |-> ""]
  /\ translated = tree.translated
  /\ outcome = "running"

End(how) ==
  /\ outcome' = how
  /\ calls' = << >>
  /\ UNCHANGED << tree, result, translated >>

Cur == calls[Len(calls)]

\* The operands are visited in order; those of an expression form a tree.
Pending(e) == { i \in DOMAIN Operands(e) : result[Operands(e)[i]] = "" }

\* The expression whose visit begins next.
Due(e) ==
  IF calls = << >>
    THEN result[Wrapped(Root)] = "" /\ e = Wrapped(Root)
    ELSE \E i \in Pending(Cur) :
           e = Operands(Cur)[i] /\ \A j \in Pending(Cur) : i <= j

References(e) == Wrapper(e) \in {"Declared", "Delayed"}

Visit(e) ==
  /\ outcome = "running"
  /\ Due(e)
  /\ Prologue(e) = "known"
  /\ calls' = Append(calls, e)
  /\ translated' = IF References(e) THEN translated \cup {e} ELSE translated
  /\ UNCHANGED << tree, result, outcome >>

VisitFails(e) ==
  /\ outcome = "running"
  /\ Due(e)
  /\ Prologue(e) # "known"
  /\ End(Prologue(e))

\* Variant: visit(UnaryExpression) hands its operand on, without the operator.
ResultWithoutOperator(e) ==
  CASE Wrapper(e) \in Unaries -> result[Operands(e)[1]]
    [] Wrapper(e) = "Literal" -> "Literal"
    [] Wrapper(e) = "Declared" -> "Declaration"
    [] Wrapper(e) = "Delayed" -> "Dependent"
    [] Wrapper(e) = "Cast" -> "Cast"
    [] Wrapper(e) = "Paren" -> "Paren"
    [] Wrapper(e) \in Binaries -> "Binary"
    [] OTHER -> "null"

\* Variant: a visit hands the C++ expression on.
ResultUntranslated(e) == Wrapper(e)

\* What a visit leaves in result: visit(UnaryExpression) never assigns it.
ResultOf(e) ==
  CASE Wrapper(e) = "Literal" -> "Literal"
    [] Wrapper(e) = "Declared" -> "Declaration"
    [] Wrapper(e) = "Delayed" -> "Dependent"
    [] Wrapper(e) = "Cast" -> "Cast"
    [] Wrapper(e) = "Paren" -> "Paren"
    [] Wrapper(e) \in Binaries -> "Binary"
    [] OTHER -> "null"

VisitReturns ==
  /\ calls # << >>
  /\ Pending(Cur) = {}
  /\ result' = [result EXCEPT ![Cur] = ResultOf(Cur)]
  /\ calls' = SubSeq(calls, 1, Len(calls) - 1)
  /\ UNCHANGED << tree, translated, outcome >>

RootResult == result[Wrapped(Root)]

Finished == outcome = "running" /\ calls = << >> /\ RootResult # ""

(***************************************************************************)
(* ExpressionTranslationFailure is caught where a default value is         *)
(* translated, and there only.                                             *)
(***************************************************************************)
TranslationFailure ==
  /\ Finished
  /\ RootResult = "null"
  /\ End(IF tree.use = "default value" THEN "left out" ELSE "rejected")

TranslateExpression ==
  /\ Finished
  /\ RootResult # "null"
  /\ End("translated")

(***************************************************************************)
(* buildConcreteExpression, in at most n nested calls: of the declarations *)
(* only a template argument has a form, of the operators "<" and ">".      *)
(***************************************************************************)
Prints[n \in Nat] ==
  [e \in Expr |->
     \/ result[e] = "Literal"
     \/ result[e] = "Declaration" /\ tree.detail[e] = "TemplateNonTypeArgument"
     \/ /\ \/ result[e] = "Paren"
           \/ result[e] = "Binary" /\ tree.detail[e] \in {"<", ">"}
        /\ n > 0
        /\ \A i \in DOMAIN Operands(e) : Prints[n - 1][Operands(e)[i]]]

BuildConcreteExpression ==
  /\ outcome = "translated"
  /\ End(IF Prints[Cardinality(Expr)][Wrapped(Root)] THEN "printed" ELSE "no output")

Next ==
  \/ \E e \in Expr : Visit(e) \/ VisitFails(e)
  \/ VisitReturns
  \/ TranslationFailure \/ TranslateExpression \/ BuildConcreteExpression

Spec == Init /\ [][Next]_exprVars

-----------------------------------------------------------------------------
TypeOK ==
  /\ tree \in Tree
  /\ calls \in Seq(Expr)
  /\ result \in [Expr -> DClass \cup {"", "null"}]
  /\ translated \subseteq Expr
  /\ outcome \in Outcome

\* The expressions that D output exists for, by clang's view of them alone.
HasDForm[n \in Nat] ==
  [e \in Expr |->
     \/ tree.kind[e] \in Literals
     \/ /\ tree.kind[e] = "DeclRefExpr"
        /\ tree.detail[e] = "TemplateNonTypeArgument"
     \/ /\ \/ tree.kind[e] \in {"ParenExpr", "SubstNonTypeTemplateParmExpr"}
           \/ /\ tree.kind[e] \in {"BinaryOperator", "CXXOperatorCallExpr"}
              /\ tree.detail[e] \in {"<", ">"}
              /\ Len(tree.operands[e]) = 2
        /\ n > 0
        /\ \A i \in DOMAIN tree.operands[e] :
             HasDForm[n - 1][tree.operands[e][i]]]

(***************************************************************************)
(* Exactly the expressions that D output exists for, operand by operand,   *)
(* are printed: no operator is dropped on the way, none is left out that   *)
(* could be printed, and nothing is printed around a hole.                 *)
(***************************************************************************)
PrintedExactly ==
  /\ outcome = "printed" => HasDForm[Cardinality(Expr)][Root]
  /\ outcome \in Outcome \ {"running", "translated", "printed"}
       => ~HasDForm[Cardinality(Expr)][Root]

(***************************************************************************)
(* What a comment (translate/decls.d:1009) says of default values, and the *)
(* code does not do: one of which a part has no translation is left out,   *)
(* and no more is lost than that.                                          *)
(***************************************************************************)
DefaultsLeftOut ==
  tree.use = "default value" /\ (\E e \in Expr : result[e] = "null") =>
    outcome # "no output"
=============================================================================
