--------------------------- MODULE ExpressionsProofs ---------------------------
(***************************************************************************)
(* Proofs about Expressions: its type invariant, and that exactly those    *)
(* expressions are printed that D output exists for.                       *)
(***************************************************************************)
EXTENDS Expressions, Induction, FiniteSetTheorems, SequenceTheorems, TLAPS

N == Cardinality(Expr)

LEMMA NumberOfExpressions == IsFiniteSet(Expr) /\ N \in Nat \ {0}
<1>1. IsFiniteSet(Expr) /\ Expr # {}
  BY ExpressionsAssumption
<1> QED
  BY <1>1, FS_CardinalityType, FS_EmptySet DEF N

LEMMA TreeFacts ==
  ASSUME tree \in Trees
  PROVE  /\ tree \in Tree
         /\ \A e \in Expr :
              /\ tree.kind[e] \in DOMAIN Arity
              /\ tree.operands[e] \in Seq(Expr)
              /\ Len(tree.operands[e]) \in Arity[tree.kind[e]]
<1>1. tree \in Tree /\ WellFormed(tree)
  BY ExpressionsAssumption
<1>2. /\ tree.kind \in [Expr -> DOMAIN Arity]
      /\ tree.operands \in [Expr -> Seq(Expr)]
  BY <1>1 DEF Tree
<1> QED
  BY <1>1, <1>2 DEF WellFormed

IsSubstitution(e) == tree.kind[e] = "SubstNonTypeTemplateParmExpr"

Replacement(e) == tree.operands[e][1]

LEMMA Substitution ==
  ASSUME tree \in Trees, NEW e \in Expr, IsSubstitution(e)
  PROVE  /\ Replacement(e) \in Expr
         /\ DOMAIN tree.operands[e] = {1}
<1>1. tree.operands[e] \in Seq(Expr) /\ Len(tree.operands[e]) = 1
  <2>1. Arity["SubstNonTypeTemplateParmExpr"] = {1}
    BY DEF Arity
  <2> QED
    BY <2>1, TreeFacts DEF IsSubstitution
<1> QED
  BY <1>1 DEF Replacement

-----------------------------------------------------------------------------
(***************************************************************************)
(* The three recursive functions are what their definitions say.           *)
(***************************************************************************)
Unfolded(h) ==
  [e \in Expr |-> IF IsSubstitution(e) THEN h[Replacement(e)] ELSE e]

LEMMA UnsubstitutedIs ==
  ASSUME tree \in Trees
  PROVE  /\ Unsubstituted[0] = [e \in Expr |-> e]
         /\ \A n \in Nat : Unsubstituted[n + 1] = Unfolded(Unsubstituted[n])
         /\ \A n \in Nat : Unsubstituted[n] \in [Expr -> Expr]
<1> DEFINE X == [Expr -> Expr]
           F == [h \in X |-> Unfolded(h)]
           x == [e \in Expr |-> e]
           Body(u, n) ==
             [e \in Expr |-> IF n > 0 /\ tree.kind[e] = "SubstNonTypeTemplateParmExpr"
                               THEN u[n - 1][tree.operands[e][1]]
                               ELSE e]
           Is(u) == u = [n \in Nat |-> Body(u, n)]
<1>1. x \in X /\ F \in [X -> X]
  <2>1. \A h \in X : Unfolded(h) \in X
    BY Substitution DEF Unfolded
  <2> QED
    BY <2>1
<1>2. \A u : Body(u, 0) = x
  OBVIOUS
<1>3. \A u : \A n \in Nat : n # 0 => Body(u, n) = Unfolded(u[n - 1])
  BY DEF Unfolded, IsSubstitution, Replacement
<1>4. \A h \in X : F[h] = Unfolded(h)
  OBVIOUS
<1> HIDE DEF X, F, x, Body
<1>5. PICK g : Recursion(g, X, F, x)
  BY <1>1, Recursive
<1>6. \A n \in Nat : g[n] = Body(g, n)
  <2> TAKE n \in Nat
  <2>1. g[n] = IF n = 0 THEN x ELSE F[g[n - 1]]
    BY <1>5 DEF Recursion
  <2>2. n # 0 => g[n - 1] \in X
    BY <1>5 DEF Recursion
  <2> QED
    BY <1>2, <1>3, <1>4, <2>1, <2>2
<1>7. Is(g)
  BY <1>5, <1>6 DEF Recursion
<1>8. Unsubstituted = CHOOSE u : Is(u)
  BY DEF Unsubstituted, Body
<1>9. Is(Unsubstituted)
  <2> HIDE DEF Is
  <2> QED
    BY <1>7, <1>8
<1>10. Unsubstituted[0] = x
  BY <1>2, <1>9
<1>11. \A n \in Nat : Unsubstituted[n + 1] = Unfolded(Unsubstituted[n])
  <2> TAKE n \in Nat
  <2>1. n + 1 \in Nat /\ n + 1 # 0 /\ (n + 1) - 1 = n
    OBVIOUS
  <2> QED
    BY <1>3, <1>9, <2>1
<1>12. \A n \in Nat : Unsubstituted[n] \in X
  <2> DEFINE S == { n \in Nat : Unsubstituted[n] \in X }
  <2>1. 0 \in S
    BY <1>1, <1>10
  <2>2. \A n \in S : n + 1 \in S
    BY <1>1, <1>4, <1>11
  <2>3. S = Nat
    <3> HIDE DEF S
    <3>1. S \in SUBSET Nat
      BY DEF S
    <3> QED
      BY <2>1, <2>2, <3>1, Induct
  <2> QED
    BY <2>3
<1> QED
  BY <1>10, <1>11, <1>12 DEF X, x

\* An expression that D output exists for, whatever its operands are.
IsLeaf(e) ==
  \/ tree.kind[e] \in Literals
  \/ tree.kind[e] = "DeclRefExpr" /\ tree.detail[e] = "TemplateNonTypeArgument"

\* An expression that D output exists for if it exists for its operands.
IsInner(e) ==
  \/ tree.kind[e] \in {"ParenExpr", "SubstNonTypeTemplateParmExpr"}
  \/ /\ tree.kind[e] \in {"BinaryOperator", "CXXOperatorCallExpr"}
     /\ tree.detail[e] \in {"<", ">"}
     /\ Len(tree.operands[e]) = 2

Formed(n) == { e \in Expr : HasDForm[n][e] }

OperandsIn(e, S) == \A i \in DOMAIN tree.operands[e] : tree.operands[e][i] \in S

LEMMA FormedIs ==
  ASSUME tree \in Trees
  PROVE  /\ Formed(0) = { e \in Expr : IsLeaf(e) }
         /\ \A n \in Nat : Formed(n + 1) =
              { e \in Expr : IsLeaf(e) \/ (IsInner(e) /\ OperandsIn(e, Formed(n))) }
<1> DEFINE X == [Expr -> BOOLEAN]
           Each(h, e) ==
             \A i \in DOMAIN tree.operands[e] : h[tree.operands[e][i]]
           F == [h \in X |-> [e \in Expr |-> IsLeaf(e) \/ (IsInner(e) /\ Each(h, e))]]
           x == [e \in Expr |-> IsLeaf(e)]
           Body(u, n) ==
             [e \in Expr |->
                \/ tree.kind[e] \in Literals
                \/ /\ tree.kind[e] = "DeclRefExpr"
                   /\ tree.detail[e] = "TemplateNonTypeArgument"
                \/ /\ \/ tree.kind[e] \in {"ParenExpr", "SubstNonTypeTemplateParmExpr"}
                      \/ /\ tree.kind[e] \in {"BinaryOperator", "CXXOperatorCallExpr"}
                         /\ tree.detail[e] \in {"<", ">"}
                         /\ Len(tree.operands[e]) = 2
                   /\ n > 0
                   /\ \A i \in DOMAIN tree.operands[e] :
                        u[n - 1][tree.operands[e][i]]]
           Is(u) == u = [n \in Nat |-> Body(u, n)]
<1>1. x \in X /\ F \in [X -> X]
  BY DEF IsLeaf, IsInner
<1>2. \A u : Body(u, 0) = x
  BY DEF IsLeaf
<1>3. \A u : \A n \in Nat : n # 0 =>
        Body(u, n) = [e \in Expr |-> IsLeaf(e) \/ (IsInner(e) /\ Each(u[n - 1], e))]
  <2> TAKE u
  <2> TAKE n \in Nat
  <2> HAVE n # 0
  <2>1. (n > 0) = TRUE
    OBVIOUS
  <2> DEFINE IsLeft(e) ==
               \/ tree.kind[e] \in Literals
               \/ /\ tree.kind[e] = "DeclRefExpr"
                  /\ tree.detail[e] = "TemplateNonTypeArgument"
               \/ /\ \/ tree.kind[e] \in {"ParenExpr", "SubstNonTypeTemplateParmExpr"}
                     \/ /\ tree.kind[e] \in {"BinaryOperator", "CXXOperatorCallExpr"}
                        /\ tree.detail[e] \in {"<", ">"}
                        /\ Len(tree.operands[e]) = 2
                  /\ n > 0
                  /\ \A i \in DOMAIN tree.operands[e] :
                       u[n - 1][tree.operands[e][i]]
             IsRight(e) == IsLeaf(e) \/ (IsInner(e) /\ Each(u[n - 1], e))
  <2>2. \A e \in Expr : IsLeft(e) = IsRight(e)
    BY <2>1, Zenon DEF IsLeaf, IsInner
  <2>3. [e \in Expr |-> IsLeft(e)] = [e \in Expr |-> IsRight(e)]
    <3> HIDE DEF IsLeft, IsRight
    <3> QED
      BY <2>2
  <2> QED
    BY <2>3
<1>4. \A h \in X : F[h] = [e \in Expr |-> IsLeaf(e) \/ (IsInner(e) /\ Each(h, e))]
  OBVIOUS
<1>5. \A e \in Expr : x[e] = IsLeaf(e)
  OBVIOUS
<1> HIDE DEF X, F, x, Body, Each
<1>6. PICK g : Recursion(g, X, F, x)
  BY <1>1, Recursive
<1>7. \A n \in Nat : g[n] = Body(g, n)
  <2> TAKE n \in Nat
  <2>1. g[n] = IF n = 0 THEN x ELSE F[g[n - 1]]
    BY <1>6 DEF Recursion
  <2>2. n # 0 => g[n - 1] \in X
    BY <1>6 DEF Recursion
  <2> QED
    BY <1>2, <1>3, <1>4, <2>1, <2>2
<1>8. Is(g)
  BY <1>6, <1>7 DEF Recursion
<1>9. HasDForm = CHOOSE u : Is(u)
  BY DEF HasDForm, Body
<1>10. Is(HasDForm)
  <2> HIDE DEF Is
  <2> QED
    BY <1>8, <1>9
<1>11. \A e \in Expr : HasDForm[0][e] <=> IsLeaf(e)
  <2>1. HasDForm[0] = x
    BY <1>2, <1>10
  <2> QED
    BY <1>5, <2>1
<1>12. ASSUME NEW n \in Nat
       PROVE  \A e \in Expr : HasDForm[n + 1][e] <=>
                IsLeaf(e) \/ (IsInner(e) /\ Each(HasDForm[n], e))
  <2>1. n + 1 \in Nat /\ n + 1 # 0 /\ (n + 1) - 1 = n
    OBVIOUS
  <2>2. HasDForm[n + 1] =
          [e \in Expr |-> IsLeaf(e) \/ (IsInner(e) /\ Each(HasDForm[n], e))]
    BY <1>3, <1>10, <2>1
  <2> QED
    BY <2>2
<1>13. \A n : \A e \in Expr : Each(HasDForm[n], e) <=> OperandsIn(e, Formed(n))
  <2>1. \A e \in Expr : \A i \in DOMAIN tree.operands[e] :
          tree.operands[e][i] \in Expr
    BY TreeFacts
  <2> QED
    BY <2>1 DEF Each, OperandsIn, Formed
<1>14. Formed(0) = { e \in Expr : IsLeaf(e) }
  BY <1>11 DEF Formed
<1>15. ASSUME NEW n \in Nat
       PROVE  Formed(n + 1) =
                { e \in Expr : IsLeaf(e) \/ (IsInner(e) /\ OperandsIn(e, Formed(n))) }
  BY <1>12, <1>13 DEF Formed
<1> QED
  BY <1>14, <1>15

LEMMA OperandFacts ==
  ASSUME tree \in Trees
  PROVE  /\ \A e \in Expr : Wrapped(e) \in Expr
         /\ \A e \in Expr :
              /\ DOMAIN Operands(e) = DOMAIN tree.operands[e]
              /\ \A i \in DOMAIN Operands(e) :
                   /\ tree.operands[e][i] \in Expr
                   /\ Operands(e)[i] = Wrapped(tree.operands[e][i])
                   /\ Operands(e)[i] \in Expr
<1>1. \A e \in Expr : Wrapped(e) \in Expr
  BY UnsubstitutedIs, NumberOfExpressions DEF Wrapped, N
<1>2. \A e \in Expr : \A i \in DOMAIN tree.operands[e] : tree.operands[e][i] \in Expr
  BY TreeFacts
<1> QED
  BY <1>1, <1>2 DEF Operands

\* What is printed, whatever its operands are.
PrintsLeaf(e) ==
  \/ result[e] = "Literal"
  \/ result[e] = "Declaration" /\ tree.detail[e] = "TemplateNonTypeArgument"

\* What is printed if its operands are.
PrintsInner(e) ==
  \/ result[e] = "Paren"
  \/ result[e] = "Binary" /\ tree.detail[e] \in {"<", ">"}

Printed(n) == { e \in Expr : Prints[n][e] }

WrappedIn(e, S) == \A i \in DOMAIN Operands(e) : Operands(e)[i] \in S

LEMMA PrintedIs ==
  ASSUME tree \in Trees
  PROVE  /\ Printed(0) = { e \in Expr : PrintsLeaf(e) }
         /\ \A n \in Nat : Printed(n + 1) =
              { e \in Expr :
                  PrintsLeaf(e) \/ (PrintsInner(e) /\ WrappedIn(e, Printed(n))) }
<1> DEFINE X == [Expr -> BOOLEAN]
           Each(h, e) == \A i \in DOMAIN Operands(e) : h[Operands(e)[i]]
           F == [h \in X |->
                   [e \in Expr |-> PrintsLeaf(e) \/ (PrintsInner(e) /\ Each(h, e))]]
           x == [e \in Expr |-> PrintsLeaf(e)]
           Body(u, n) ==
             [e \in Expr |->
                \/ result[e] = "Literal"
                \/ result[e] = "Declaration" /\ tree.detail[e] = "TemplateNonTypeArgument"
                \/ /\ \/ result[e] = "Paren"
                      \/ result[e] = "Binary" /\ tree.detail[e] \in {"<", ">"}
                   /\ n > 0
                   /\ \A i \in DOMAIN Operands(e) : u[n - 1][Operands(e)[i]]]
           Is(u) == u = [n \in Nat |-> Body(u, n)]
<1>1. x \in X /\ F \in [X -> X]
  BY DEF PrintsLeaf, PrintsInner
<1>2. \A u : Body(u, 0) = x
  BY DEF PrintsLeaf
<1>3. \A u : \A n \in Nat : n # 0 =>
        Body(u, n) =
          [e \in Expr |-> PrintsLeaf(e) \/ (PrintsInner(e) /\ Each(u[n - 1], e))]
  <2> TAKE u
  <2> TAKE n \in Nat
  <2> HAVE n # 0
  <2>1. (n > 0) = TRUE
    OBVIOUS
  <2> DEFINE IsLeft(e) ==
               \/ result[e] = "Literal"
               \/ result[e] = "Declaration" /\ tree.detail[e] = "TemplateNonTypeArgument"
               \/ /\ \/ result[e] = "Paren"
                     \/ result[e] = "Binary" /\ tree.detail[e] \in {"<", ">"}
                  /\ n > 0
                  /\ \A i \in DOMAIN Operands(e) : u[n - 1][Operands(e)[i]]
             IsRight(e) == PrintsLeaf(e) \/ (PrintsInner(e) /\ Each(u[n - 1], e))
  <2>2. \A e \in Expr : IsLeft(e) = IsRight(e)
    BY <2>1, Zenon DEF PrintsLeaf, PrintsInner
  <2>3. [e \in Expr |-> IsLeft(e)] = [e \in Expr |-> IsRight(e)]
    <3> HIDE DEF IsLeft, IsRight
    <3> QED
      BY <2>2
  <2> QED
    BY <2>3
<1>4. \A h \in X :
        F[h] = [e \in Expr |-> PrintsLeaf(e) \/ (PrintsInner(e) /\ Each(h, e))]
  OBVIOUS
<1>5. \A e \in Expr : x[e] = PrintsLeaf(e)
  OBVIOUS
<1> HIDE DEF X, F, x, Body, Each
<1>6. PICK g : Recursion(g, X, F, x)
  BY <1>1, Recursive
<1>7. \A n \in Nat : g[n] = Body(g, n)
  <2> TAKE n \in Nat
  <2>1. g[n] = IF n = 0 THEN x ELSE F[g[n - 1]]
    BY <1>6 DEF Recursion
  <2>2. n # 0 => g[n - 1] \in X
    BY <1>6 DEF Recursion
  <2> QED
    BY <1>2, <1>3, <1>4, <2>1, <2>2
<1>8. Is(g)
  BY <1>6, <1>7 DEF Recursion
<1>9. Prints = CHOOSE u : Is(u)
  BY DEF Prints, Body
<1>10. Is(Prints)
  <2> HIDE DEF Is
  <2> QED
    BY <1>8, <1>9
<1>11. \A e \in Expr : Prints[0][e] <=> PrintsLeaf(e)
  <2>1. Prints[0] = x
    BY <1>2, <1>10
  <2> QED
    BY <1>5, <2>1
<1>12. ASSUME NEW n \in Nat
       PROVE  \A e \in Expr : Prints[n + 1][e] <=>
                PrintsLeaf(e) \/ (PrintsInner(e) /\ Each(Prints[n], e))
  <2>1. n + 1 \in Nat /\ n + 1 # 0 /\ (n + 1) - 1 = n
    OBVIOUS
  <2>2. Prints[n + 1] =
          [e \in Expr |-> PrintsLeaf(e) \/ (PrintsInner(e) /\ Each(Prints[n], e))]
    BY <1>3, <1>10, <2>1
  <2> QED
    BY <2>2
<1>13. \A n : \A e \in Expr : Each(Prints[n], e) <=> WrappedIn(e, Printed(n))
  BY OperandFacts DEF Each, WrappedIn, Printed
<1>14. Printed(0) = { e \in Expr : PrintsLeaf(e) }
  BY <1>11 DEF Printed
<1>15. ASSUME NEW n \in Nat
       PROVE  Printed(n + 1) =
                { e \in Expr :
                    PrintsLeaf(e) \/ (PrintsInner(e) /\ WrappedIn(e, Printed(n))) }
  BY <1>12, <1>13 DEF Printed
<1> QED
  BY <1>14, <1>15

-----------------------------------------------------------------------------
(***************************************************************************)
(* What has a D form in some number of levels has one in as many levels as *)
(* there are expressions: the sets Formed(n) grow until they stay the same.*)
(***************************************************************************)
FormedBy(S) == { e \in Expr : IsLeaf(e) \/ (IsInner(e) /\ OperandsIn(e, S)) }

LEMMA FormedGrows ==
  ASSUME tree \in Trees
  PROVE  /\ \A n \in Nat : /\ Formed(n) \subseteq Formed(n + 1)
                          /\ Formed(n + 1) = FormedBy(Formed(n))
         /\ Formed(N) = FormedBy(Formed(N))
<1> DEFINE s == [n \in Nat |-> Formed(n)]
           F == [S \in SUBSET Expr |-> FormedBy(S)]
<1>1. \A n \in Nat : Formed(n + 1) = FormedBy(Formed(n))
  BY FormedIs DEF FormedBy
<1>2. \A S, T : S \subseteq T => FormedBy(S) \subseteq FormedBy(T)
  BY DEF FormedBy, OperandsIn
<1>3. \A S : FormedBy(S) \subseteq Expr
  BY DEF FormedBy
<1>4. \A n : Formed(n) \in SUBSET Expr
  BY DEF Formed
<1>5. Formed(0) \subseteq Formed(1)
  <2>1. Formed(0 + 1) = FormedBy(Formed(0)) /\ 0 + 1 = 1
    BY <1>1
  <2> QED
    BY <2>1, FormedIs DEF FormedBy
<1>6. \A S \in SUBSET Expr : F[S] = FormedBy(S)
  OBVIOUS
<1>7. \A n \in Nat : s[n] = Formed(n)
  OBVIOUS
<1>8. s \in [Nat -> SUBSET Expr] /\ F \in [SUBSET Expr -> SUBSET Expr]
  BY <1>3, <1>4
<1> HIDE DEF s, F
<1>9. Chain(s, Expr, F)
  BY <1>1, <1>2, <1>4, <1>5, <1>6, <1>7, <1>8 DEF Chain
<1>10. F[s[N]] = s[N] /\ \A n \in Nat : s[n] \subseteq s[n + 1]
  BY <1>9, NumberOfExpressions, ChainGrows, ChainSettles DEF N
<1>11. N \in Nat
  BY NumberOfExpressions
<1> QED
  BY <1>1, <1>4, <1>6, <1>7, <1>10, <1>11

-----------------------------------------------------------------------------
(***************************************************************************)
(* An expression has a D form if and only if what wraps it has one, which  *)
(* is found in as many steps as the form has levels.                       *)
(***************************************************************************)
LEMMA FormOfSubstitution ==
  ASSUME tree \in Trees, NEW e \in Expr, IsSubstitution(e)
  PROVE  /\ ~IsLeaf(e)
         /\ \A S : e \in FormedBy(S) <=> Replacement(e) \in S
<1>1. ~IsLeaf(e) /\ IsInner(e)
  BY DEF IsSubstitution, IsLeaf, IsInner, Literals
<1>2. \A S : OperandsIn(e, S) <=> Replacement(e) \in S
  BY Substitution DEF OperandsIn, Replacement
<1> QED
  BY <1>1, <1>2 DEF FormedBy

LEMMA WrappedAsItIs ==
  ASSUME tree \in Trees, NEW e \in Expr, ~IsSubstitution(e)
  PROVE  \A n \in Nat : Unsubstituted[n][e] = e
<1> TAKE n \in Nat
<1>1. CASE n = 0
  BY <1>1, UnsubstitutedIs
<1>2. CASE n # 0
  <2>1. n - 1 \in Nat /\ (n - 1) + 1 = n
    BY <1>2
  <2>2. Unsubstituted[n] = Unfolded(Unsubstituted[n - 1])
    BY <2>1, UnsubstitutedIs
  <2> QED
    BY <2>2 DEF Unfolded
<1> QED
  BY <1>1, <1>2

LEMMA WrappedDeeper ==
  ASSUME tree \in Trees, NEW e \in Expr, IsSubstitution(e), NEW n \in Nat
  PROVE  Unsubstituted[n + 1][e] = Unsubstituted[n][Replacement(e)]
  BY UnsubstitutedIs DEF Unfolded

LEMMA FormOfWrapped ==
  ASSUME tree \in Trees
  PROVE  \A e \in Expr : Wrapped(e) \in Formed(N) <=> e \in Formed(N)
<1> DEFINE P(n) == \A e \in Expr : Unsubstituted[n][e] \in Formed(N) <=> e \in Formed(N)
           S == { n \in Nat : P(n) }
<1>1. 0 \in S
  BY UnsubstitutedIs
<1>2. ASSUME NEW n \in S PROVE n + 1 \in S
  <2>1. n \in Nat /\ n + 1 \in Nat /\ P(n)
    BY <1>2
  <2>2. ASSUME NEW e \in Expr
        PROVE  Unsubstituted[n + 1][e] \in Formed(N) <=> e \in Formed(N)
    <3>1. CASE IsSubstitution(e)
      <4>1. Unsubstituted[n + 1][e] = Unsubstituted[n][Replacement(e)]
        BY <2>1, <3>1, WrappedDeeper
      <4>2. Replacement(e) \in Expr
        BY <3>1, Substitution
      <4>3. e \in Formed(N) <=> Replacement(e) \in Formed(N)
        BY <3>1, FormOfSubstitution, FormedGrows
      <4> QED
        BY <2>1, <4>1, <4>2, <4>3
    <3>2. CASE ~IsSubstitution(e)
      BY <2>1, <3>2, WrappedAsItIs
    <3> QED
      BY <3>1, <3>2
  <2> QED
    BY <2>1, <2>2
<1>3. S = Nat
  <2>1. S \in SUBSET Nat
    OBVIOUS
  <2> HIDE DEF S
  <2> QED
    BY <1>1, <1>2, <2>1, Induct
<1>4. P(N)
  BY <1>3, NumberOfExpressions
<1> QED
  BY <1>4 DEF Wrapped, N

LEMMA WrappedInTime ==
  ASSUME tree \in Trees
  PROVE  \A n \in 0 .. N : \A e \in Formed(n) :
           Wrapped(e) \in Formed(n) /\ ~IsSubstitution(Wrapped(e))
<1> DEFINE Settled(n, e) ==
             /\ \A m \in Nat : m >= n => Unsubstituted[m][e] = Unsubstituted[n][e]
             /\ Unsubstituted[n][e] \in Formed(n)
             /\ ~IsSubstitution(Unsubstituted[n][e])
           S == { n \in Nat : \A e \in Formed(n) : Settled(n, e) }
<1>1. \A n : Formed(n) \subseteq Expr
  BY DEF Formed
<1>2. \A n \in Nat : \A e \in Formed(n) : ~IsSubstitution(e) => Settled(n, e)
  BY <1>1, WrappedAsItIs
<1>3. 0 \in S
  <2>1. \A e \in Formed(0) : IsLeaf(e) /\ ~IsSubstitution(e)
    BY FormedIs, FormOfSubstitution
  <2> HIDE DEF Settled
  <2> QED
    BY <1>2, <2>1
<1>4. ASSUME NEW n \in S PROVE n + 1 \in S
  <2>1. n \in Nat /\ n + 1 \in Nat /\ \A e \in Formed(n) : Settled(n, e)
    BY <1>4
  <2>2. ASSUME NEW e \in Formed(n + 1), IsSubstitution(e)
        PROVE  Settled(n + 1, e)
    <3> DEFINE r == Replacement(e)
    <3>1. e \in Expr /\ r \in Formed(n)
      BY <1>1, <2>1, <2>2, FormedGrows, FormOfSubstitution
    <3>2. Settled(n, r)
      BY <2>1, <3>1
    <3>3. \A m \in Nat : Unsubstituted[m + 1][e] = Unsubstituted[m][r]
      BY <2>2, <3>1, WrappedDeeper
    <3>4. ASSUME NEW m \in Nat, m >= n + 1
          PROVE  Unsubstituted[m][e] = Unsubstituted[n + 1][e]
      <4>1. m - 1 \in Nat /\ (m - 1) + 1 = m /\ m - 1 >= n
        BY <2>1, <3>4
      <4>2. Unsubstituted[m][e] = Unsubstituted[m - 1][r]
        BY <3>3, <4>1
      <4>3. Unsubstituted[m - 1][r] = Unsubstituted[n][r]
        BY <3>2, <4>1
      <4>4. Unsubstituted[n + 1][e] = Unsubstituted[n][r]
        BY <2>1, <3>3
      <4> QED
        BY <4>2, <4>3, <4>4
    <3>5. Unsubstituted[n + 1][e] = Unsubstituted[n][r]
      BY <2>1, <3>3
    <3>6. Formed(n) \subseteq Formed(n + 1)
      BY <2>1, FormedGrows
    <3> QED
      BY <3>2, <3>4, <3>5, <3>6
  <2>3. \A e \in Formed(n + 1) : Settled(n + 1, e)
    BY <1>2, <2>1, <2>2
  <2> QED
    BY <2>1, <2>3
<1>5. S = Nat
  <2>1. S \in SUBSET Nat
    OBVIOUS
  <2> HIDE DEF S
  <2> QED
    BY <1>3, <1>4, <2>1, Induct
<1> TAKE n \in 0 .. N
<1> TAKE e \in Formed(n)
<1>6. N \in Nat /\ n \in Nat /\ N >= n
  BY NumberOfExpressions
<1>7. Settled(n, e)
  BY <1>5, <1>6
<1>8. Unsubstituted[N][e] = Unsubstituted[n][e]
  BY <1>6, <1>7
<1> QED
  BY <1>7, <1>8 DEF Wrapped, N

-----------------------------------------------------------------------------
(***************************************************************************)
(* What visits leave: the result of an expression that was visited says    *)
(* what it is, and its operands were visited before.                       *)
(***************************************************************************)
ResultsFollow ==
  \A e \in Expr : result[e] # "" =>
    /\ result[e] = ResultOf(e)
    /\ \A i \in DOMAIN Operands(e) : result[Operands(e)[i]] # ""

LEMMA WrapperIs ==
  ASSUME tree \in Trees, NEW e \in Expr
  PROVE  /\ Wrapper(e) = "Literal" <=> tree.kind[e] \in Literals
         /\ Wrapper(e) = "Declared" <=> tree.kind[e] = "DeclRefExpr"
         /\ Wrapper(e) = "Paren" <=> tree.kind[e] = "ParenExpr"
         /\ Wrapper(e) = "TwoSidedBinary" <=> tree.kind[e] = "BinaryOperator"
         /\ Wrapper(e) = "ExplicitOperatorBinary" <=>
              tree.kind[e] = "CXXOperatorCallExpr" /\ Len(tree.operands[e]) = 2
  BY DEF Wrapper, Literals

LEMMA ResultIs ==
  ASSUME tree \in Trees, NEW e \in Expr
  PROVE  /\ ResultOf(e) = "Literal" <=> Wrapper(e) = "Literal"
         /\ ResultOf(e) = "Declaration" <=> Wrapper(e) = "Declared"
         /\ ResultOf(e) = "Paren" <=> Wrapper(e) = "Paren"
         /\ ResultOf(e) = "Binary" <=> Wrapper(e) \in Binaries
         /\ ResultOf(e) \in DClass \cup {"null"}
  BY DEF ResultOf, Binaries, DClass

\* The operators and references that D output exists for raise nothing.
LEMMA FormedGoesWell ==
  ASSUME tree \in Trees, NEW e \in Formed(N), ~IsSubstitution(e)
  PROVE  Prologue(e) = "known" /\ ResultOf(e) # "null"
<1>1. e \in Expr /\ (IsLeaf(e) \/ IsInner(e))
  BY FormedGrows DEF Formed, FormedBy
<1>2. CASE IsLeaf(e)
  <2>1. \/ Wrapper(e) = "Literal"
        \/ Wrapper(e) = "Declared" /\ tree.detail[e] = "TemplateNonTypeArgument"
    BY <1>1, <1>2, WrapperIs DEF IsLeaf
  <2>2. Prologue(e) = "known"
    BY <2>1 DEF Prologue, Binaries, Unaries
  <2> QED
    BY <1>1, <2>1, <2>2, ResultIs
<1>3. CASE IsInner(e)
  <2>1. \/ Wrapper(e) = "Paren"
        \/ Wrapper(e) \in Binaries /\ tree.detail[e] \in {"<", ">"}
    BY <1>1, <1>3, WrapperIs DEF IsInner, IsSubstitution, Binaries
  <2>2. Prologue(e) = "known"
    BY <2>1 DEF Prologue, Binaries, Unaries, GetOperator
  <2> QED
    BY <1>1, <2>1, <2>2, ResultIs DEF Binaries
<1> QED
  BY <1>1, <1>2, <1>3

\* What is printed has a D form.
LEMMA PrintedIsFormed ==
  ASSUME tree \in Trees, ResultsFollow
  PROVE  \A n \in Nat : Printed(n) \subseteq Formed(N)
<1> DEFINE S == { n \in Nat : Printed(n) \subseteq Formed(N) }
<1>1. ASSUME NEW e \in Expr, PrintsLeaf(e) PROVE e \in Formed(N)
  <2>1. result[e] = ResultOf(e)
    BY <1>1 DEF PrintsLeaf, ResultsFollow
  <2>2. IsLeaf(e)
    BY <1>1, <2>1, ResultIs, WrapperIs DEF PrintsLeaf, IsLeaf
  <2> QED
    BY <2>2, FormedGrows DEF FormedBy
<1>2. ASSUME NEW e \in Expr, PrintsInner(e), WrappedIn(e, Formed(N)) PROVE e \in Formed(N)
  <2>1. result[e] = ResultOf(e)
    BY <1>2 DEF PrintsInner, ResultsFollow
  <2>2. \/ Wrapper(e) = "Paren"
        \/ Wrapper(e) \in Binaries /\ tree.detail[e] \in {"<", ">"}
    BY <1>2, <2>1, ResultIs DEF PrintsInner
  <2>3. IsInner(e)
    <3>1. tree.kind[e] = "BinaryOperator" => Len(tree.operands[e]) = 2
      <4>1. Arity["BinaryOperator"] = {2}
        BY DEF Arity
      <4> QED
        BY <4>1, TreeFacts
    <3> QED
      BY <2>2, <3>1, WrapperIs DEF IsInner, Binaries
  <2>4. OperandsIn(e, Formed(N))
    BY <1>2, OperandFacts, FormOfWrapped DEF WrappedIn, OperandsIn
  <2> QED
    BY <2>3, <2>4, FormedGrows DEF FormedBy
<1>3. 0 \in S
  BY <1>1, PrintedIs
<1>4. ASSUME NEW n \in S PROVE n + 1 \in S
  <2>1. n \in Nat /\ n + 1 \in Nat /\ Printed(n) \subseteq Formed(N)
    BY <1>4
  <2>2. \A e \in Printed(n + 1) :
          e \in Expr /\ (PrintsLeaf(e) \/ (PrintsInner(e) /\ WrappedIn(e, Printed(n))))
    BY <2>1, PrintedIs
  <2>3. \A e \in Expr : WrappedIn(e, Printed(n)) => WrappedIn(e, Formed(N))
    BY <2>1 DEF WrappedIn
  <2>4. Printed(n + 1) \subseteq Formed(N)
    BY <1>1, <1>2, <2>2, <2>3
  <2> QED
    BY <2>1, <2>4
<1>5. S = Nat
  <2>1. S \in SUBSET Nat
    OBVIOUS
  <2> HIDE DEF S
  <2> QED
    BY <1>3, <1>4, <2>1, Induct
<1> QED
  BY <1>5

\* What has a D form is printed, once it was visited.
LEMMA FormedIsPrinted ==
  ASSUME tree \in Trees, ResultsFollow
  PROVE  \A e \in Formed(N) : result[Wrapped(e)] # "" => Wrapped(e) \in Printed(N)
<1> DEFINE P(n) == \A e \in Formed(n) :
                     result[Wrapped(e)] # "" => Wrapped(e) \in Printed(n)
           S == { n \in Nat : n <= N => P(n) }
<1>1. N \in Nat
  BY NumberOfExpressions
<1>2. ASSUME NEW n \in 0 .. N, NEW e \in Formed(n), result[Wrapped(e)] # ""
      PROVE  /\ Wrapped(e) \in Formed(n) /\ Wrapped(e) \in Expr
             /\ ~IsSubstitution(Wrapped(e))
             /\ result[Wrapped(e)] = ResultOf(Wrapped(e))
             /\ WrappedIn(Wrapped(e), { x \in Expr : result[x] # "" })
  <2>1. Wrapped(e) \in Formed(n) /\ ~IsSubstitution(Wrapped(e))
    BY <1>2, WrappedInTime
  <2>2. Wrapped(e) \in Expr
    BY <2>1 DEF Formed
  <2> QED
    BY <1>2, <2>1, <2>2, OperandFacts DEF ResultsFollow, WrappedIn
<1>3. ASSUME NEW e \in Expr, IsLeaf(e), result[e] = ResultOf(e) PROVE PrintsLeaf(e)
  BY <1>3, ResultIs, WrapperIs DEF IsLeaf, PrintsLeaf
<1>4. ASSUME NEW e \in Expr, IsInner(e), ~IsSubstitution(e), result[e] = ResultOf(e)
      PROVE  PrintsInner(e)
  BY <1>4, ResultIs, WrapperIs DEF IsInner, IsSubstitution, PrintsInner, Binaries
<1>5. 0 \in S
  <2>1. 0 \in 0 .. N
    BY <1>1
  <2>2. \A e \in Formed(0) : IsLeaf(e)
    BY FormedIs
  <2>3. P(0)
    BY <1>2, <1>3, <2>1, <2>2, PrintedIs
  <2> QED
    BY <2>3
<1>6. ASSUME NEW n \in Nat, n + 1 <= N, P(n) PROVE P(n + 1)
  <2>1. n \in Nat /\ n + 1 \in 0 .. N /\ n \in 0 .. N
    <3> HIDE DEF P
    <3>1. n + 1 <= N
      BY <1>6
    <3> QED
      BY <1>1, <3>1
  <2>2. ASSUME NEW e \in Formed(n + 1), result[Wrapped(e)] # ""
        PROVE  Wrapped(e) \in Printed(n + 1)
    <3> DEFINE w == Wrapped(e)
    <3>1. /\ w \in Formed(n + 1) /\ w \in Expr /\ ~IsSubstitution(w)
          /\ result[w] = ResultOf(w)
          /\ WrappedIn(w, { x \in Expr : result[x] # "" })
      BY <1>2, <2>1, <2>2
    <3>2. IsLeaf(w) \/ (IsInner(w) /\ OperandsIn(w, Formed(n)))
      BY <2>1, <3>1, FormedIs
    <3>3. CASE IsLeaf(w)
      BY <1>3, <2>1, <3>1, <3>3, PrintedIs
    <3>4. CASE IsInner(w) /\ OperandsIn(w, Formed(n))
      <4>1. PrintsInner(w)
        BY <1>4, <3>1, <3>4
      <4>2. WrappedIn(w, Printed(n))
        <5> HIDE DEF w
        <5>1. \A i \in DOMAIN Operands(w) :
                /\ tree.operands[w][i] \in Formed(n)
                /\ Operands(w)[i] = Wrapped(tree.operands[w][i])
                /\ result[Operands(w)[i]] # ""
          BY <3>1, <3>4, OperandFacts DEF OperandsIn, WrappedIn
        <5> QED
          BY <1>6, <5>1 DEF WrappedIn
      <4> QED
        BY <2>1, <3>1, <4>1, <4>2, PrintedIs
    <3> QED
      BY <3>2, <3>3, <3>4
  <2> QED
    BY <2>2
<1>7. P(N)
  <2> HIDE DEF P
  <2>1. \A n \in S : n + 1 \in S
    BY <1>1, <1>6
  <2>2. S \in SUBSET Nat
    OBVIOUS
  <2>3. S = Nat
    <3> HIDE DEF S
    <3> QED
      BY <1>5, <2>1, <2>2, Induct
  <2> QED
    BY <1>1, <2>3
<1> QED
  BY <1>7

-----------------------------------------------------------------------------
(***************************************************************************)
(* The invariant.  While the root has a D form, so have the expressions    *)
(* whose visits are in progress, so that none of them can fail.            *)
(***************************************************************************)
VisitsFormed ==
  Root \in Formed(N) =>
    \A i \in DOMAIN calls : calls[i] \in Formed(N) /\ ~IsSubstitution(calls[i])

IInv ==
  /\ TypeOK
  /\ tree \in Trees
  /\ ResultsFollow
  /\ outcome # "running" => calls = << >>
  /\ outcome = "translated" => RootResult # ""
  /\ VisitsFormed
  /\ PrintedExactly

LEMMA RootIsFormed == HasDForm[Cardinality(Expr)][Root] <=> Root \in Formed(N)
  BY ExpressionsAssumption DEF Formed, N

LEMMA InitInv == Init => IInv
<1> SUFFICES ASSUME Init PROVE IInv
  OBVIOUS
<1>1. tree \in Trees /\ calls = << >> /\ outcome = "running"
  BY DEF Init
<1>2. TypeOK
  <2>1. tree \in Tree
    BY <1>1, ExpressionsAssumption
  <2>2. tree.translated \subseteq Expr
    BY <2>1 DEF Tree
  <2>3. /\ result = [e \in Expr |-> ""]
        /\ translated = tree.translated
    BY DEF Init
  <2>4. result \in [Expr -> DClass \cup {"", "null"}]
    BY <2>3
  <2>5. calls \in Seq(Expr) /\ outcome \in Outcome
    BY <1>1 DEF Outcome
  <2> QED
    BY <2>1, <2>2, <2>3, <2>4, <2>5 DEF TypeOK
<1>3. ResultsFollow
  BY DEF Init, ResultsFollow
<1>4. VisitsFormed
  BY <1>1 DEF VisitsFormed
<1> QED
  BY <1>1, <1>2, <1>3, <1>4 DEF IInv, PrintedExactly

LEMMA TreeStays ==
  tree' = tree =>
    /\ \A e : /\ Operands(e)' = Operands(e)
             /\ Wrapped(e)' = Wrapped(e)
             /\ ResultOf(e)' = ResultOf(e)
             /\ IsSubstitution(e)' = IsSubstitution(e)
    /\ Formed(N)' = Formed(N)
<1> SUFFICES ASSUME tree' = tree
             PROVE  /\ \A e : /\ Operands(e)' = Operands(e)
                             /\ Wrapped(e)' = Wrapped(e)
                             /\ ResultOf(e)' = ResultOf(e)
                             /\ IsSubstitution(e)' = IsSubstitution(e)
                    /\ Formed(N)' = Formed(N)
  OBVIOUS
<1>1. \A e : Wrapped(e)' = Wrapped(e)
  BY DEF Wrapped, Unsubstituted
<1>2. \A e : Operands(e)' = Operands(e)
  BY DEF Operands, Wrapped, Unsubstituted
<1>3. \A e : ResultOf(e)' = ResultOf(e) /\ IsSubstitution(e)' = IsSubstitution(e)
  BY DEF ResultOf, Wrapper, IsSubstitution
<1>4. Formed(N)' = Formed(N)
  BY DEF Formed, HasDForm, N
<1> QED
  BY <1>1, <1>2, <1>3, <1>4

\* Visits of formed expressions are followed by visits of such expressions.
LEMMA OperandIsFormed ==
  ASSUME tree \in Trees, NEW e \in Formed(N), NEW i \in DOMAIN Operands(e)
  PROVE  Operands(e)[i] \in Formed(N) /\ ~IsSubstitution(Operands(e)[i])
<1>1. e \in Expr /\ (IsLeaf(e) \/ (IsInner(e) /\ OperandsIn(e, Formed(N))))
  BY FormedGrows DEF Formed, FormedBy
<1>2. ~IsLeaf(e)
  <2>1. /\ tree.operands[e] \in Seq(Expr)
        /\ Len(tree.operands[e]) \in Arity[tree.kind[e]]
        /\ i \in DOMAIN tree.operands[e]
    BY <1>1, TreeFacts, OperandFacts
  <2>2. Len(tree.operands[e]) # 0
    BY <2>1
  <2>3. IsLeaf(e) => Arity[tree.kind[e]] = {0}
    BY DEF IsLeaf, Literals, Arity
  <2> QED
    BY <2>1, <2>2, <2>3
<1>3. tree.operands[e][i] \in Formed(N)
  BY <1>1, <1>2, OperandFacts DEF OperandsIn
<1>4. N \in 0 .. N
  BY NumberOfExpressions
<1> QED
  BY <1>1, <1>3, <1>4, OperandFacts, WrappedInTime

LEMMA DueIsFormed ==
  ASSUME IInv, NEW e \in Expr, Due(e), Root \in Formed(N)
  PROVE  e \in Formed(N) /\ ~IsSubstitution(e)
<1>1. tree \in Trees
  BY DEF IInv
<1>2. CASE calls = << >>
  <2>1. e = Wrapped(Root)
    BY <1>2 DEF Due
  <2>2. N \in 0 .. N
    BY NumberOfExpressions
  <2> QED
    BY <1>1, <2>1, <2>2, WrappedInTime
<1>3. CASE calls # << >>
  <2>1. PICK i \in DOMAIN Operands(Cur) : e = Operands(Cur)[i]
    BY <1>3 DEF Due, Pending
  <2>2. Cur \in Formed(N)
    <3>1. Len(calls) \in DOMAIN calls
      <4>1. calls \in Seq(Expr)
        BY DEF IInv, TypeOK
      <4> QED
        BY <1>3, <4>1
    <3> QED
      BY <3>1 DEF IInv, VisitsFormed, Cur
  <2> QED
    BY <1>1, <2>1, <2>2, OperandIsFormed
<1> QED
  BY <1>2, <1>3

-----------------------------------------------------------------------------
(***************************************************************************)
(* The steps keep the invariant.                                           *)
(***************************************************************************)
LEMMA NoCalls == << >> \in Seq(Expr) /\ DOMAIN << >> = {}
  OBVIOUS

\* The stack of calls without its top.
LEMMA PopFacts ==
  ASSUME calls \in Seq(Expr), calls # << >>, calls' = SubSeq(calls, 1, Len(calls) - 1)
  PROVE  /\ Cur \in Expr
         /\ calls' \in Seq(Expr)
         /\ \A i \in DOMAIN calls' : i \in DOMAIN calls /\ calls'[i] = calls[i]
<1>1. Len(calls) \in Nat /\ Len(calls) > 0
  OBVIOUS
<1> QED
  BY <1>1 DEF Cur

LEMMA FormStays ==
  tree' = tree =>
    (HasDForm[Cardinality(Expr)][Root])' = HasDForm[Cardinality(Expr)][Root]
<1> SUFFICES ASSUME tree' = tree
             PROVE  (HasDForm[Cardinality(Expr)][Root])' = HasDForm[Cardinality(Expr)][Root]
  OBVIOUS
<1> QED
  BY DEF HasDForm

LEMMA EndStep ==
  ASSUME IInv, NEW how \in Outcome, End(how),
         how # "running",
         how = "translated" => RootResult # "",
         how = "printed" => Root \in Formed(N),
         how \notin {"translated", "printed"} => Root \notin Formed(N)
  PROVE  IInv'
<1>1. /\ tree' = tree /\ result' = result /\ translated' = translated
      /\ outcome' = how /\ calls' = << >>
  BY DEF End
<1>2. TypeOK'
  BY <1>1, NoCalls DEF IInv, TypeOK
<1>3. ResultsFollow'
  BY <1>1, TreeStays DEF IInv, ResultsFollow
<1>4. VisitsFormed'
  <2>1. DOMAIN calls' = {}
    BY <1>1, NoCalls
  <2> QED
    BY <2>1 DEF VisitsFormed
<1>5. RootResult' = RootResult
  BY <1>1, TreeStays DEF RootResult
<1>6. PrintedExactly'
  BY <1>1, FormStays, RootIsFormed DEF PrintedExactly
<1> QED
  BY <1>1, <1>2, <1>3, <1>4, <1>5, <1>6 DEF IInv

\* A step that does not end anything.
LEMMA GoOnStep ==
  ASSUME IInv, tree' = tree, outcome' = outcome, outcome = "running",
         TypeOK', ResultsFollow', VisitsFormed'
  PROVE  IInv'
  BY DEF IInv, PrintedExactly, Outcome

LEMMA VisitStep == IInv /\ (\E e \in Expr : Visit(e)) => IInv'
<1> SUFFICES ASSUME IInv, NEW e \in Expr, Visit(e) PROVE IInv'
  OBVIOUS
<1>1. /\ outcome = "running" /\ Due(e) /\ calls' = Append(calls, e)
      /\ tree' = tree /\ result' = result /\ outcome' = outcome
      /\ translated' \in { translated, translated \cup {e} }
  BY DEF Visit
<1>2. calls \in Seq(Expr)
  BY DEF IInv, TypeOK
<1>3. TypeOK'
  <2>1. calls' \in Seq(Expr)
    BY <1>1, <1>2
  <2>2. translated' \subseteq Expr
    BY <1>1 DEF IInv, TypeOK
  <2> QED
    BY <1>1, <2>1, <2>2 DEF IInv, TypeOK
<1>4. ResultsFollow'
  BY <1>1, TreeStays DEF IInv, ResultsFollow
<1>5. VisitsFormed'
  <2> SUFFICES ASSUME Root \in Formed(N), NEW i \in DOMAIN calls'
               PROVE  calls'[i] \in Formed(N) /\ ~IsSubstitution(calls'[i])
    BY <1>1, TreeStays DEF VisitsFormed
  <2>1. \/ i \in DOMAIN calls /\ calls'[i] = calls[i]
        \/ calls'[i] = e
    BY <1>1, <1>2
  <2> QED
    BY <1>1, <2>1, DueIsFormed DEF IInv, VisitsFormed
<1> QED
  BY <1>1, <1>3, <1>4, <1>5, GoOnStep

LEMMA VisitFailsStep == IInv /\ (\E e \in Expr : VisitFails(e)) => IInv'
<1> SUFFICES ASSUME IInv, NEW e \in Expr, VisitFails(e) PROVE IInv'
  OBVIOUS
<1>1. Due(e) /\ Prologue(e) # "known" /\ End(Prologue(e)) /\ tree \in Trees
  BY DEF VisitFails, IInv
<1>2. Prologue(e) \in {"aborted", "rejected", "C++ exception"}
  BY <1>1 DEF Prologue, GetOperator
<1>3. Root \notin Formed(N)
  BY <1>1, DueIsFormed, FormedGoesWell
<1> QED
  BY <1>1, <1>2, <1>3, EndStep DEF Outcome

LEMMA VisitReturnsStep == IInv /\ VisitReturns => IInv'
<1> SUFFICES ASSUME IInv, VisitReturns PROVE IInv'
  OBVIOUS
<1>1. /\ calls # << >> /\ Pending(Cur) = {}
      /\ result' = [result EXCEPT ![Cur] = ResultOf(Cur)]
      /\ calls' = SubSeq(calls, 1, Len(calls) - 1)
      /\ tree' = tree /\ translated' = translated /\ outcome' = outcome
  BY DEF VisitReturns
<1>2. calls \in Seq(Expr) /\ result \in [Expr -> DClass \cup {"", "null"}]
  BY DEF IInv, TypeOK
<1>3. /\ Cur \in Expr
      /\ calls' \in Seq(Expr)
      /\ \A i \in DOMAIN calls' : i \in DOMAIN calls /\ calls'[i] = calls[i]
  BY <1>1, <1>2, PopFacts
<1>4. tree \in Trees /\ outcome = "running"
  BY <1>1 DEF IInv
<1>5. ResultOf(Cur) \in DClass \cup {"null"} /\ ResultOf(Cur) # ""
  BY <1>3, <1>4, ResultIs DEF DClass
<1>6. TypeOK'
  <2>1. result' \in [Expr -> DClass \cup {"", "null"}]
    BY <1>1, <1>2, <1>5
  <2> QED
    BY <1>1, <1>3, <2>1 DEF IInv, TypeOK
<1>7. ResultsFollow'
  <2> SUFFICES ASSUME NEW e \in Expr, result'[e] # ""
               PROVE  /\ result'[e] = ResultOf(e)
                      /\ \A i \in DOMAIN Operands(e) : result'[Operands(e)[i]] # ""
    BY <1>1, TreeStays DEF ResultsFollow
  <2>1. \A x \in Expr : result[x] # "" => result'[x] # ""
    BY <1>1, <1>2, <1>5
  <2>2. \A i \in DOMAIN Operands(e) : Operands(e)[i] \in Expr
    BY <1>4, OperandFacts
  <2>3. CASE e = Cur
    <3>1. \A i \in DOMAIN Operands(e) : result[Operands(e)[i]] # ""
      BY <1>1, <2>3 DEF Pending
    <3> QED
      BY <1>1, <1>2, <1>3, <2>1, <2>2, <2>3, <3>1
  <2>4. CASE e # Cur
    <3>1. result'[e] = result[e]
      BY <1>1, <1>2, <2>4
    <3> QED
      BY <2>1, <2>2, <3>1 DEF IInv, ResultsFollow
  <2> QED
    BY <2>3, <2>4
<1>8. VisitsFormed'
  BY <1>1, <1>3, TreeStays DEF IInv, VisitsFormed
<1> QED
  BY <1>1, <1>4, <1>6, <1>7, <1>8, GoOnStep

LEMMA RootIsGood ==
  ASSUME IInv, Finished, Root \in Formed(N)
  PROVE  RootResult # "null"
<1>1. tree \in Trees
  BY DEF IInv
<1>2. Wrapped(Root) \in Formed(N) /\ ~IsSubstitution(Wrapped(Root))
  <2>1. N \in 0 .. N
    BY NumberOfExpressions
  <2> QED
    BY <1>1, <2>1, WrappedInTime
<1>3. ResultOf(Wrapped(Root)) # "null" /\ Wrapped(Root) \in Expr
  BY <1>1, <1>2, FormedGoesWell DEF Formed
<1> QED
  BY <1>3 DEF IInv, ResultsFollow, Finished, RootResult

LEMMA FinishStep == IInv /\ (TranslationFailure \/ TranslateExpression) => IInv'
<1> SUFFICES ASSUME IInv, TranslationFailure \/ TranslateExpression PROVE IInv'
  OBVIOUS
<1>1. CASE TranslationFailure
  <2>1. PICK how \in {"left out", "rejected"} : End(how)
    BY <1>1 DEF TranslationFailure
  <2>2. Root \notin Formed(N)
    BY <1>1, RootIsGood DEF TranslationFailure
  <2> QED
    BY <2>1, <2>2, EndStep DEF Outcome
<1>2. CASE TranslateExpression
  <2>1. End("translated") /\ RootResult # ""
    BY <1>2 DEF TranslateExpression, Finished
  <2> QED
    BY <2>1, EndStep DEF Outcome
<1> QED
  BY <1>1, <1>2

LEMMA PrintStep == IInv /\ BuildConcreteExpression => IInv'
<1> SUFFICES ASSUME IInv, BuildConcreteExpression PROVE IInv'
  OBVIOUS
<1> DEFINE prints == Prints[Cardinality(Expr)][Wrapped(Root)]
<1>1. /\ outcome = "translated"
      /\ End(IF prints THEN "printed" ELSE "no output")
  BY DEF BuildConcreteExpression
<1>2. tree \in Trees /\ ResultsFollow /\ RootResult # "" /\ N \in Nat /\ Root \in Expr
  BY <1>1, NumberOfExpressions, ExpressionsAssumption DEF IInv
<1>3. prints <=> Wrapped(Root) \in Printed(N)
  BY <1>2, OperandFacts DEF Printed, N
<1>4. prints <=> Root \in Formed(N)
  <2>1. Wrapped(Root) \in Printed(N) => Wrapped(Root) \in Formed(N)
    BY <1>2, PrintedIsFormed
  <2>2. Root \in Formed(N) => Wrapped(Root) \in Printed(N)
    BY <1>2, FormedIsPrinted DEF RootResult
  <2> QED
    BY <1>2, <1>3, <2>1, <2>2, FormOfWrapped
<1> HIDE DEF prints
<1>5. CASE prints
  BY <1>1, <1>4, <1>5, EndStep DEF Outcome
<1>6. CASE ~prints
  BY <1>1, <1>4, <1>6, EndStep DEF Outcome
<1> QED
  BY <1>5, <1>6

LEMMA StepInv == IInv /\ [Next]_exprVars => IInv'
<1> SUFFICES ASSUME IInv, [Next]_exprVars PROVE IInv'
  OBVIOUS
<1>1. CASE UNCHANGED exprVars
  <2>1. /\ tree' = tree /\ calls' = calls /\ result' = result
        /\ translated' = translated /\ outcome' = outcome
    BY <1>1 DEF exprVars
  <2>2. TypeOK' /\ ResultsFollow' /\ VisitsFormed'
    BY <2>1, TreeStays DEF IInv, TypeOK, ResultsFollow, VisitsFormed
  <2>3. RootResult' = RootResult
    BY <2>1, TreeStays DEF RootResult
  <2>4. PrintedExactly'
    BY <2>1, FormStays DEF IInv, PrintedExactly
  <2> QED
    BY <2>1, <2>2, <2>3, <2>4 DEF IInv
<1> QED
  BY <1>1, VisitStep, VisitFailsStep, VisitReturnsStep, FinishStep, PrintStep DEF Next

-----------------------------------------------------------------------------
(***************************************************************************)
(* Results are D expressions, holes, or not there yet, and the program     *)
(* ends in one of the ways that Outcome lists.                             *)
(***************************************************************************)
THEOREM TypeCorrect == Spec => []TypeOK
<1>1. IInv => TypeOK
  BY DEF IInv
<1> QED
  BY <1>1, InitInv, StepInv, PTL DEF Spec

(***************************************************************************)
(* Whatever the expression, how deep it is and what parts it shares: if it *)
(* is printed, every part of it has a D form; if it is not, or anything    *)
(* fails on the way, there is a part that has none.                        *)
(***************************************************************************)
THEOREM PrintedExactlyCorrect == Spec => []PrintedExactly
<1>1. IInv => PrintedExactly
  BY DEF IInv
<1> QED
  BY <1>1, InitInv, StepInv, PTL DEF Spec
================================================================================
