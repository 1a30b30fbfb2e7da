------------------------------- MODULE Induction -------------------------------
(***************************************************************************)
(* Induction over the natural numbers, for sets of them: the theorems of   *)
(* the library are for operators.  What holds of 0 and of the successor of *)
(* each number that it holds of holds of all, and a function can be        *)
(* iterated, so that functions defined by recursion exist.  A set that     *)
(* grows inside a finite one settles in as many steps as that has members. *)
(***************************************************************************)
EXTENDS Naturals, FiniteSets, WellFoundedInduction, FiniteSetTheorems, TLAPS

LEMMA Least ==
  ASSUME NEW S \in SUBSET Nat, S # {}
  PROVE  \E n \in S : \A m \in S : n <= m
<1> DEFINE R == {p \in Nat \X Nat : p[1] < p[2]}
<1>1. IsWellFoundedOn(R, Nat)
  BY NatLessThanWellFounded DEF OpToRel
<1>2. \E x \in S : \A y \in S : ~ (<<y, x>> \in R)
  <2> HIDE DEF R
  <2> QED BY <1>1, WFMin
<1>3. \A x, y \in Nat : <<y, x>> \in R <=> y < x
  OBVIOUS
<1> HIDE DEF R
<1>4. PICK n \in S : \A y \in S : ~ (<<y, n>> \in R)
  BY <1>2
<1>5. \A y \in S : ~(y < n)
  BY <1>3, <1>4
<1>6. \A y \in S : n <= y
  <2>1. \A y, x \in Nat : ~(y < x) => x <= y
    OBVIOUS
  <2> QED BY <1>5, <2>1
<1> QED BY <1>6

LEMMA Induct ==
  ASSUME NEW S \in SUBSET Nat, 0 \in S, \A n \in S : n + 1 \in S
  PROVE  S = Nat
<1>1. SUFFICES ASSUME Nat \ S # {} PROVE FALSE
  OBVIOUS
<1>2. PICK n \in Nat \ S : \A m \in Nat \ S : n <= m
  BY <1>1, Least
<1>3. n # 0 /\ n - 1 \in Nat
  BY <1>2
<1> QED BY <1>2, <1>3

Iteration(g, X, F, x0) ==
  g \in [Nat -> X] /\ g[0] = x0 /\ \A n \in Nat : g[n + 1] = F[g[n]]

LEMMA Iterates ==
  \A X, F, x0 : F \in [X -> X] /\ x0 \in X => \E g : Iteration(g, X, F, x0)
<1> TAKE X, F, x0
<1> HAVE F \in [X -> X] /\ x0 \in X
<1> DEFINE Good(n, h) == /\ h \in [0 .. n -> X] /\ h[0] = x0
                         /\ \A i \in 0 .. n : i > 0 => h[i] = F[h[i - 1]]
<1>1. {n \in Nat : \E h : Good(n, h)} = Nat
  <2> DEFINE S == {n \in Nat : \E h : Good(n, h)}
  <2>1. 0 \in S
    <3>1. Good(0, [i \in 0 .. 0 |-> x0])
      OBVIOUS
    <3> HIDE DEF Good
    <3> QED BY <3>1
  <2>2. ASSUME NEW n \in S PROVE n + 1 \in S
    <3>1. n \in Nat /\ \E h : Good(n, h)
      OBVIOUS
    <3>2. PICK h : Good(n, h)
      BY <3>1
    <3> DEFINE k == [i \in 0 .. n + 1 |-> IF i = n + 1 THEN F[h[n]] ELSE h[i]]
    <3>3. Good(n + 1, k)
      BY <3>1, <3>2
    <3> HIDE DEF Good
    <3> QED BY <3>1, <3>3
  <2> HIDE DEF S
  <2>3. S \in SUBSET Nat
    BY DEF S
  <2>4. S = Nat
    BY <2>1, <2>2, <2>3, Induct
  <2> QED BY <2>4 DEF S
<1> DEFINE G(n) == CHOOSE h : Good(n, h)
<1>2. \A n \in Nat : Good(n, G(n))
  BY <1>1
<1>3. \A n \in Nat : \A i \in 0 .. n : G(n + 1)[i] = G(n)[i]
  <2> TAKE n \in Nat
  <2> DEFINE S == {i \in Nat : i > n \/ G(n + 1)[i] = G(n)[i]}
  <2> HIDE DEF G
  <2>1. Good(n, G(n)) /\ Good(n + 1, G(n + 1))
    BY <1>2
  <2>2. 0 \in S
    BY <2>1
  <2>3. \A i \in S : i + 1 \in S
    BY <2>1
  <2>4. S = Nat
    <3> HIDE DEF S
    <3>1. S \in SUBSET Nat
      BY DEF S
    <3> QED BY <2>2, <2>3, <3>1, Induct
  <2> QED BY <2>4
<1> DEFINE g == [n \in Nat |-> G(n)[n]]
<1> HIDE DEF G
<1>4. g \in [Nat -> X]
  <2>1. \A n \in Nat : G(n)[n] \in X
    BY <1>2
  <2> QED BY <2>1
<1>5. g[0] = x0
  BY <1>2
<1>6. \A n \in Nat : g[n + 1] = F[g[n]]
  <2> TAKE n \in Nat
  <2>1. Good(n + 1, G(n + 1)) /\ n + 1 \in Nat
    BY <1>2
  <2>2. G(n + 1)[n + 1] = F[G(n + 1)[n]]
    BY <2>1
  <2>3. G(n + 1)[n] = G(n)[n]
    BY <1>3
  <2> QED BY <2>2, <2>3, <2>1
<1>7. Iteration(g, X, F, x0)
  BY <1>4, <1>5, <1>6 DEF Iteration
<1> QED BY <1>7

-----------------------------------------------------------------------------
\* A function defined by recursion, and one whose steps depend on their number.
Recursion(g, X, F, x) ==
  /\ g \in [Nat -> X]
  /\ g = [n \in Nat |-> IF n = 0 THEN x ELSE F[g[n - 1]]]

LEMMA Recursive ==
  \A X, F, x : x \in X /\ F \in [X -> X] => \E g : Recursion(g, X, F, x)
<1> TAKE X, F, x
<1> HAVE x \in X /\ F \in [X -> X]
<1>1. PICK g : Iteration(g, X, F, x)
  BY Iterates
<1>2. /\ g \in [Nat -> X]
      /\ g[0] = x
      /\ \A n \in Nat : g[n + 1] = F[g[n]]
  BY <1>1 DEF Iteration
<1>3. \A n \in Nat : g[n] = IF n = 0 THEN x ELSE F[g[n - 1]]
  <2> TAKE n \in Nat
  <2>1. CASE n = 0
    BY <1>2, <2>1
  <2>2. CASE n # 0
    <3>1. n - 1 \in Nat /\ (n - 1) + 1 = n
      BY <2>2
    <3> QED
      BY <1>2, <2>2, <3>1
  <2> QED
    BY <2>1, <2>2
<1>4. g = [n \in Nat |-> IF n = 0 THEN x ELSE F[g[n - 1]]]
  BY <1>2, <1>3
<1>5. Recursion(g, X, F, x)
  BY <1>2, <1>4 DEF Recursion
<1> QED
  BY <1>5

IndexedRecursion(g, X, F, x) ==
  /\ g \in [Nat -> X]
  /\ g = [n \in Nat |-> IF n = 0 THEN x ELSE F[n][g[n - 1]]]

LEMMA RecursiveByIndex ==
  \A X, F, x : x \in X /\ F \in [Nat -> [X -> X]] => \E g : IndexedRecursion(g, X, F, x)
<1> TAKE X, F, x
<1> HAVE x \in X /\ F \in [Nat -> [X -> X]]
<1> DEFINE Y == Nat \X X
           G == [p \in Y |-> << p[1] + 1, F[p[1] + 1][p[2]] >>]
           y == << 0, x >>
<1>1. y \in Y /\ G \in [Y -> Y]
  <2>1. \A p \in Y : p[1] + 1 \in Nat /\ p[2] \in X
    OBVIOUS
  <2>2. \A p \in Y : << p[1] + 1, F[p[1] + 1][p[2]] >> \in Y
    BY <2>1
  <2> QED
    BY <2>2
<1>2. \A p \in Y : G[p] = << p[1] + 1, F[p[1] + 1][p[2]] >>
  OBVIOUS
<1>3. y[1] = 0 /\ y[2] = x
  OBVIOUS
<1> HIDE DEF G, y
<1>4. PICK h : Iteration(h, Y, G, y)
  <2> HIDE DEF Y
  <2> QED
    BY <1>1, Iterates
<1>5. /\ h \in [Nat -> Y]
      /\ h[0] = y
      /\ \A n \in Nat : h[n + 1] = G[h[n]]
  BY <1>4 DEF Iteration
<1>6. \A n \in Nat : /\ h[n][1] \in Nat /\ h[n][2] \in X
                    /\ h[n + 1][1] = h[n][1] + 1
                    /\ h[n + 1][2] = F[h[n][1] + 1][h[n][2]]
  <2> TAKE n \in Nat
  <2>1. h[n] \in Y /\ h[n + 1] = << h[n][1] + 1, F[h[n][1] + 1][h[n][2]] >>
    BY <1>2, <1>5
  <2> QED
    BY <2>1
<1>7. \A n \in Nat : h[n][1] = n
  <2> DEFINE S == { n \in Nat : h[n][1] = n }
  <2>1. 0 \in S
    BY <1>3, <1>5
  <2>2. \A n \in S : n + 1 \in S
    BY <1>6
  <2>3. S = Nat
    <3> HIDE DEF S
    <3>1. S \in SUBSET Nat
      BY DEF S
    <3> QED
      BY <2>1, <2>2, <3>1, Induct
  <2> QED
    BY <2>3
<1> DEFINE g == [n \in Nat |-> h[n][2]]
<1>8. g \in [Nat -> X]
  BY <1>6
<1>9. \A n \in Nat : g[n] = IF n = 0 THEN x ELSE F[n][g[n - 1]]
  <2> TAKE n \in Nat
  <2>1. CASE n = 0
    BY <1>3, <1>5, <2>1
  <2>2. CASE n # 0
    <3>1. n - 1 \in Nat /\ (n - 1) + 1 = n
      BY <2>2
    <3>2. h[n][2] = F[n][h[n - 1][2]]
      BY <1>6, <1>7, <3>1
    <3> QED
      BY <2>2, <3>1, <3>2
  <2> QED
    BY <2>1, <2>2
<1>10. g = [n \in Nat |-> IF n = 0 THEN x ELSE F[n][g[n - 1]]]
  <2> HIDE DEF g
  <2> QED
    BY <1>8, <1>9
<1>11. IndexedRecursion(g, X, F, x)
  <2> HIDE DEF g
  <2> QED
    BY <1>8, <1>10 DEF IndexedRecursion
<1> QED
  BY <1>11

-----------------------------------------------------------------------------
\* Sets that grow, each made from the one before.
Chain(s, V, F) ==
  /\ s \in [Nat -> SUBSET V]
  /\ F \in [SUBSET V -> SUBSET V]
  /\ \A S, T \in SUBSET V : S \subseteq T => F[S] \subseteq F[T]
  /\ s[0] \subseteq s[1]
  /\ \A n \in Nat : s[n + 1] = F[s[n]]

LEMMA ChainGrows == \A s, V, F : Chain(s, V, F) => \A n \in Nat : s[n] \subseteq s[n + 1]
<1> TAKE s, V, F
<1> HAVE Chain(s, V, F)
<1> DEFINE S == { n \in Nat : s[n] \subseteq s[n + 1] }
<1>1. 0 \in S
  BY DEF Chain
<1>2. ASSUME NEW n \in S PROVE n + 1 \in S
  <2>1. n \in Nat /\ n + 1 \in Nat /\ s[n] \subseteq s[n + 1]
    BY <1>2
  <2>2. s[n] \in SUBSET V /\ s[n + 1] \in SUBSET V
    BY <2>1 DEF Chain
  <2>3. s[n + 1] = F[s[n]] /\ s[(n + 1) + 1] = F[s[n + 1]]
    BY <2>1 DEF Chain
  <2> QED
    BY <2>1, <2>2, <2>3 DEF Chain
<1>3. S = Nat
  <2>1. S \in SUBSET Nat
    OBVIOUS
  <2> HIDE DEF S
  <2> QED
    BY <1>1, <1>2, <2>1, Induct
<1> QED
  BY <1>3

LEMMA ChainStays ==
  \A s, V, F : \A m \in Nat :
    Chain(s, V, F) /\ s[m] = s[m + 1] => \A k \in Nat : s[m + k] = s[m]
<1> TAKE s, V, F
<1> TAKE m \in Nat
<1> HAVE Chain(s, V, F) /\ s[m] = s[m + 1]
<1> DEFINE S == { k \in Nat : s[m + k] = s[m] }
<1>1. 0 \in S
  <2>1. m + 0 = m
    OBVIOUS
  <2> QED
    BY <2>1
<1>2. ASSUME NEW k \in S PROVE k + 1 \in S
  <2>1. k \in Nat /\ k + 1 \in Nat /\ m + k \in Nat /\ (m + k) + 1 = m + (k + 1)
    BY <1>2
  <2>2. s[m + k] = s[m]
    BY <1>2
  <2>3. s[(m + k) + 1] = F[s[m + k]] /\ s[m + 1] = F[s[m]]
    BY <2>1 DEF Chain
  <2>4. s[m + (k + 1)] = s[m]
    BY <2>1, <2>2, <2>3
  <2> QED
    BY <2>1, <2>4
<1>3. S = Nat
  <2>1. S \in SUBSET Nat
    OBVIOUS
  <2> HIDE DEF S
  <2> QED
    BY <1>1, <1>2, <2>1, Induct
<1> QED
  BY <1>3

LEMMA ChainSettles ==
  \A s, V, F : IsFiniteSet(V) /\ Chain(s, V, F) =>
    F[s[Cardinality(V)]] = s[Cardinality(V)]
<1> TAKE s, V, F
<1> HAVE IsFiniteSet(V) /\ Chain(s, V, F)
<1> DEFINE Full(n) == Cardinality(s[n]) >= n
           Settled(n) == \E m \in Nat : m < n /\ s[m] = s[m + 1]
           S == { n \in Nat : Full(n) \/ Settled(n) }
           N == Cardinality(V)
<1>1. \A n \in Nat : /\ IsFiniteSet(s[n])
                    /\ Cardinality(s[n]) \in Nat
                    /\ s[n] \subseteq V
  <2>1. \A n \in Nat : s[n] \subseteq V
    BY DEF Chain
  <2> QED
    BY <2>1, FS_Subset, FS_CardinalityType
<1>2. 0 \in S
  BY <1>1
<1>3. ASSUME NEW n \in S PROVE n + 1 \in S
  <2>1. n \in Nat /\ n + 1 \in Nat /\ n < n + 1
    BY <1>3
  <2>2. CASE Settled(n)
    <3>1. Settled(n + 1)
      BY <2>1, <2>2
    <3> QED
      BY <2>1, <3>1
  <2>3. CASE s[n] = s[n + 1]
    <3>1. Settled(n + 1)
      BY <2>1, <2>3
    <3> QED
      BY <2>1, <3>1
  <2>4. CASE Full(n) /\ s[n] # s[n + 1]
    <3>1. s[n] \subseteq s[n + 1]
      BY <2>1, ChainGrows
    <3>2. /\ Cardinality(s[n]) <= Cardinality(s[n + 1])
          /\ Cardinality(s[n]) # Cardinality(s[n + 1])
      BY <1>1, <2>1, <2>4, <3>1, FS_Subset
    <3>3. Full(n + 1)
      BY <1>1, <2>1, <2>4, <3>2
    <3> QED
      BY <2>1, <3>3
  <2>5. Full(n) \/ Settled(n)
    BY <1>3
  <2> QED
    BY <2>2, <2>3, <2>4, <2>5
<1>4. S = Nat
  <2>1. S \in SUBSET Nat
    OBVIOUS
  <2> HIDE DEF S
  <2> QED
    BY <1>2, <1>3, <2>1, Induct
<1>5. N \in Nat
  BY FS_CardinalityType
<1>6. s[N] \subseteq s[N + 1] /\ s[N + 1] = F[s[N]]
  <2> HIDE DEF N
  <2>1. s[N] \subseteq s[N + 1]
    BY <1>5, ChainGrows
  <2> QED
    BY <1>5, <2>1 DEF Chain
<1>7. CASE Full(N)
  <2>1. Cardinality(s[N]) <= N
    BY <1>1, <1>5, FS_Subset
  <2>2. Cardinality(s[N]) = Cardinality(V)
    BY <1>1, <1>5, <1>7, <2>1
  <2>3. s[N] = V
    BY <1>1, <1>5, <2>2, FS_Subset
  <2>4. s[N + 1] \subseteq V
    BY <1>1, <1>5
  <2> QED
    BY <1>6, <2>3, <2>4
<1>8. CASE Settled(N)
  <2>1. PICK m \in Nat : m < N /\ s[m] = s[m + 1]
    BY <1>8
  <2> HIDE DEF N
  <2>2. /\ N - m \in Nat /\ m + (N - m) = N
        /\ (N - m) + 1 \in Nat /\ m + ((N - m) + 1) = N + 1
    BY <1>5, <2>1
  <2>3. s[m + (N - m)] = s[m] /\ s[m + ((N - m) + 1)] = s[m]
    BY <2>1, <2>2, ChainStays
  <2> QED
    BY <1>6, <2>2, <2>3 DEF N
<1>9. Full(N) \/ Settled(N)
  BY <1>4, <1>5
<1> QED
  BY <1>6, <1>7, <1>8, <1>9
================================================================================
