--------------------------- MODULE TraversalProofs ---------------------------
(***************************************************************************)
(* Proofs about Traversal: its type invariant, that all redeclarations of  *)
(* an entity share one Declaration object, that every root declaration is  *)
(* handed to the translation, that what is emitted follows from what the   *)
(* files on the command line declare, and that whatever the translation    *)
(* reads has been visited, for all well formed syntax trees.               *)
(***************************************************************************)
EXTENDS Traversal, Induction, SequenceTheorems, TLAPS

-----------------------------------------------------------------------------
\* What a syntax tree says of one declaration.
LEMMA ProgramFacts ==
  ASSUME TypeOK, NEW d \in Decl
  PROVE  /\ KindOf(d) \in Kind
         /\ Canonical(d) \in Decl
         /\ Canonical(Canonical(d)) = Canonical(d)
         /\ Parts(d) \in Seq(Decl)
<1>1. WellFormed(prog)
  BY TraversalAssumption DEF TypeOK
<1>2. /\ prog.kind[d] \in Kind
      /\ prog.canonical[d] \in Decl
      /\ prog.parts[d] \in Seq(Decl)
  BY <1>1 DEF WellFormed, Program
<1>3. Parts(d) \in Seq(Decl)
  BY <1>2 DEF Parts
<1> QED
  BY <1>1, <1>2, <1>3 DEF WellFormed, KindOf, Canonical

\* The visitor at work and those that wait for it.
LEMMA VisitorFacts ==
  ASSUME TypeOK, Visiting
  PROVE  /\ Cur \in Visitor
         /\ Cur.decl \in Decl
         /\ Cur.next \in Nat
         /\ CurDone \in Visitor
         /\ Callers \in Seq(Visitor)
<1>1. visitors \in Seq(Visitor) /\ visitors # << >>
  BY DEF TypeOK, Visiting
<1>2. Len(visitors) \in Nat /\ Len(visitors) > 0 /\ DOMAIN visitors = 1 .. Len(visitors)
  BY <1>1
<1>3. Cur \in Visitor
  BY <1>1, <1>2 DEF Cur
<1>4. CurDone \in Visitor
  BY <1>3 DEF CurDone, Visitor
<1>5. Callers \in Seq(Visitor)
  <2> DEFINE n == Len(visitors) - 1
  <2>1. 1 \in Int /\ n \in Int
    BY <1>2
  <2>2. \A i \in 1 .. n : visitors[i] \in Visitor
    BY <1>1, <1>2
  <2>3. SubSeq(visitors, 1, n) \in Seq(Visitor)
    <3> HIDE DEF n
    <3> QED
      BY <2>1, <2>2, SubSeqProperties
  <2> QED
    BY <2>3 DEF Callers
<1> QED
  BY <1>3, <1>4, <1>5 DEF Visitor

\* The part of a declaration that is next.
LEMMA PartFacts ==
  ASSUME TypeOK, Visiting, Cur.next < Len(Parts(Cur.decl))
  PROVE  Part \in Decl
<1>1. Cur.decl \in Decl /\ Cur.next \in Nat
  BY VisitorFacts
<1>2. Parts(Cur.decl) \in Seq(Decl)
  BY <1>1, ProgramFacts
<1>3. Cur.next + 1 \in 1 .. Len(Parts(Cur.decl))
  BY <1>1, <1>2
<1> QED
  BY <1>2, <1>3 DEF Part

\* What is known of a declaration is a declaration; the object for one is.
LEMMA ObjectFacts ==
  ASSUME TypeOK, NEW d \in Decl
  PROVE  /\ Known(d) => declarations[d] \in Decl
         /\ ObjectFor(d) \in Decl
         /\ ObjectFor(d) # NoDecl
<1>1. Canonical(d) \in Decl
  BY ProgramFacts
<1> QED
  BY <1>1, TraversalAssumption DEF TypeOK, Known, ObjectFor

-----------------------------------------------------------------------------
LEMMA InitType == Init => TypeOK
<1> SUFFICES ASSUME Init PROVE TypeOK
  OBVIOUS
<1>1. NewVisitor(Unit, FALSE) \in Visitor
  BY TraversalAssumption DEF NewVisitor, Visitor
<1>2. visitors \in Seq(Visitor)
  <2>1. \A v \in Visitor : << v >> \in Seq(Visitor)
    OBVIOUS
  <2> QED
    BY <1>1, <2>1 DEF Init
<1>3. << >> \in Seq(Decl)
  OBVIOUS
<1>4. lists \in [Decl -> Seq(Decl)] /\ declarations \in [Decl -> Decl \cup {NoDecl}]
  BY <1>3 DEF Init
<1> QED
  BY <1>2, <1>4 DEF Init, TypeOK

LEMMA NextType == TypeOK /\ [Next]_vars => TypeOK'
<1> SUFFICES ASSUME TypeOK, [Next]_vars PROVE TypeOK'
  OBVIOUS
<1> USE DEF TypeOK
<1>1. CASE Allocate
  <2>1. Cur \in Visitor /\ Cur.decl \in Decl /\ Callers \in Seq(Visitor)
    BY <1>1, VisitorFacts DEF Allocate
  <2>2. ObjectFor(Cur.decl) \in Decl
    BY <2>1, ObjectFacts
  <2>3. declarations' \in [Decl -> Decl \cup {NoDecl}]
    BY <1>1, <2>2 DEF Allocate, Entered
  <2>4. visitors' \in Seq(Visitor)
    <3>1. [Cur EXCEPT !.entered = TRUE] \in Visitor
      BY <2>1 DEF Visitor
    <3> QED
      BY <1>1, <2>1, <3>1 DEF Allocate
  <2>5. lists' \in [Decl -> Seq(Decl)]
    BY <1>1, <2>1, <2>2 DEF Allocate
  <2>6. free' \subseteq Decl /\ visited' \subseteq Decl
    BY <1>1, <2>1, <2>2 DEF Allocate
  <2> QED
    BY <1>1, <2>3, <2>4, <2>5, <2>6 DEF Allocate
<1>2. CASE EnterContext
  <2>1. Cur \in Visitor /\ Cur.decl \in Decl /\ Callers \in Seq(Visitor)
    BY <1>2, VisitorFacts DEF EnterContext
  <2>2. [Cur EXCEPT !.entered = TRUE] \in Visitor
    BY <2>1 DEF Visitor
  <2>3. visitors' \in Seq(Visitor)
    BY <1>2, <2>1, <2>2 DEF EnterContext
  <2> QED
    BY <1>2, <2>1, <2>3 DEF EnterContext
<1>3. CASE Terminate
  BY <1>3 DEF Terminate
<1>4. CASE SkipPart
  <2>1. CurDone \in Visitor /\ Callers \in Seq(Visitor)
    BY <1>4, VisitorFacts DEF SkipPart
  <2>2. Part \in Decl
    BY <1>4, PartFacts DEF SkipPart
  <2>3. visitors' \in Seq(Visitor)
    BY <1>4, <2>1 DEF SkipPart
  <2>4. free' \subseteq Decl
    BY <1>4, <2>2, ObjectFacts DEF SkipPart
  <2> QED
    BY <1>4, <2>3, <2>4 DEF SkipPart
<1>5. CASE VisitPart
  <2>1. CurDone \in Visitor /\ Callers \in Seq(Visitor)
    BY <1>5, VisitorFacts DEF VisitPart
  <2>2. Part \in Decl
    BY <1>5, PartFacts DEF VisitPart
  <2>3. NewVisitor(Part, TraversesTop(Cur, Part)) \in Visitor
    <3>1. TraversesTop(Cur, Part) \in BOOLEAN
      BY <2>1, <1>5, VisitorFacts DEF TraversesTop, RegistersTop, Visitor, VisitPart
    <3> QED
      BY <2>2, <3>1 DEF NewVisitor, Visitor
  <2>4. visitors' \in Seq(Visitor)
    <3>1. << CurDone, NewVisitor(Part, TraversesTop(Cur, Part)) >> \in Seq(Visitor)
      BY <2>1, <2>3
    <3> QED
      BY <1>5, <2>1, <3>1 DEF VisitPart
  <2> QED
    BY <1>5, <2>4 DEF VisitPart
<1>6. CASE EndVisitor
  <2>1. Cur.decl \in Decl /\ Callers \in Seq(Visitor)
    BY <1>6, VisitorFacts DEF EndVisitor
  <2>2. free' \subseteq Decl
    BY <1>6, <2>1, ObjectFacts DEF EndVisitor
  <2>3. phase' \in {"enable", "traverse"}
    BY <1>6 DEF EndVisitor
  <2> QED
    BY <1>6, <2>1, <2>2, <2>3 DEF EndVisitor
<1>7. CASE EnableDeclarationsInFiles
  <2>1. emit' \subseteq Decl
    BY <1>7, ObjectFacts DEF EnableDeclarationsInFiles
  <2> QED
    BY <1>7, <2>1 DEF EnableDeclarationsInFiles
<1>8. CASE UNCHANGED vars
  BY <1>8 DEF vars
<1> QED
  BY <1>1, <1>2, <1>3, <1>4, <1>5, <1>6, <1>7, <1>8 DEF Next

(***************************************************************************)
(* Every variable of the first pass keeps its type, for all syntax trees.  *)
(***************************************************************************)
THEOREM TypeCorrect == Spec => []TypeOK
<1>1. Init => TypeOK
  BY InitType
<1>2. TypeOK /\ [Next]_vars => TypeOK'
  BY NextType
<1> QED
  BY <1>1, <1>2, PTL DEF Spec

-----------------------------------------------------------------------------
(***************************************************************************)
(* The table changes in allocateDeclaration only.  A new entry is for the  *)
(* declaration that is visited or for the canonical one; where the latter  *)
(* has an entry, the other one gets the same, and where it has none, no    *)
(* declaration of the entity has one.                                      *)
(***************************************************************************)
LEMMA AllocateOneObject ==
  ASSUME TypeOK, OneObject, Allocate
  PROVE  OneObject'
<1> DEFINE v == Cur.decl
           c == Canonical(v)
           o == ObjectFor(v)
<1>1. v \in Decl /\ c \in Decl /\ Canonical(c) = c
  BY VisitorFacts, ProgramFacts DEF Allocate
<1>2. o \in Decl /\ o # NoDecl
  BY <1>1, ObjectFacts
<1>3. Canonical(o) = c
  <2>1. CASE Known(c)
    BY <1>1, <2>1 DEF OneObject, ObjectFor
  <2>2. CASE ~Known(c)
    BY <2>2 DEF ObjectFor
  <2> QED
    BY <2>1, <2>2
<1>4. /\ declarations' =
          [ e \in Decl |-> IF ~Known(e) /\ e \in {v, c} THEN o ELSE declarations[e] ]
      /\ prog' = prog
  BY DEF Allocate, Entered
<1>5. \A e \in Decl : Known(e) => declarations'[e] = declarations[e]
  BY <1>4
<1>6. declarations'[v] = o /\ declarations'[c] = o
  <2>1. Known(v) => declarations[v] = o
    BY <1>1 DEF OneObject, ObjectFor, Known
  <2>2. Known(c) => declarations[c] = o
    BY DEF ObjectFor
  <2> QED
    BY <1>1, <1>4, <2>1, <2>2
<1>7. declarations'[o] = o
  <2>1. CASE Known(c)
    <3>1. o = declarations[c] /\ declarations[o] = o
      BY <1>1, <2>1 DEF ObjectFor, OneObject
    <3> QED
      BY <1>2, <1>5, <3>1 DEF Known
  <2>2. CASE ~Known(c)
    BY <2>2, <1>6 DEF ObjectFor
  <2> QED
    BY <2>1, <2>2
<1>8. SUFFICES ASSUME NEW d \in Decl, declarations'[d] # NoDecl
               PROVE  /\ declarations'[Canonical(d)] = declarations'[d]
                      /\ Canonical(declarations'[d]) = Canonical(d)
                      /\ declarations'[declarations'[d]] = declarations'[d]
  BY <1>4 DEF OneObject, Known, Canonical
<1>9. CASE Known(d)
  <2>1. /\ declarations[Canonical(d)] = declarations[d]
        /\ Canonical(declarations[d]) = Canonical(d)
        /\ declarations[declarations[d]] = declarations[d]
    BY <1>9 DEF OneObject
  <2>2. /\ Canonical(d) \in Decl /\ declarations[d] \in Decl
        /\ Known(Canonical(d)) /\ Known(declarations[d])
    BY <1>9, <2>1, ProgramFacts, ObjectFacts DEF Known
  <2> QED
    BY <1>5, <1>9, <2>1, <2>2
<1>10. CASE ~Known(d)
  <2>1. d \in {v, c}
    BY <1>4, <1>8, <1>10 DEF Known
  <2>2. Canonical(d) = c /\ declarations'[d] = o
    BY <1>1, <1>6, <2>1
  <2> QED
    BY <1>3, <1>6, <1>7, <2>2
<1> QED
  BY <1>9, <1>10

LEMMA NextOneObject == TypeOK /\ OneObject /\ [Next]_vars => OneObject'
<1> SUFFICES ASSUME TypeOK, OneObject, [Next]_vars PROVE OneObject'
  OBVIOUS
<1>1. CASE Allocate
  BY <1>1, AllocateOneObject
<1>2. CASE UNCHANGED << prog, declarations >>
  BY <1>2 DEF OneObject, Known, Canonical
<1>3. Next => Allocate \/ UNCHANGED << prog, declarations >>
  BY DEF Next, EnterContext, Terminate, SkipPart, VisitPart, EndVisitor,
         EnableDeclarationsInFiles
<1> QED
  BY <1>1, <1>2, <1>3 DEF vars

(***************************************************************************)
(* All redeclarations of an entity have one object, and it is found        *)
(* through any of them, for all syntax trees and orders of redeclaration.  *)
(***************************************************************************)
THEOREM OneObjectCorrect == Spec => []OneObject
<1>1. Init => OneObject
  BY DEF Init, OneObject, Known
<1>2. TypeOK /\ OneObject /\ [Next]_vars => OneObject'
  BY NextOneObject
<1> QED
  BY <1>1, <1>2, TypeCorrect, PTL DEF Spec

-----------------------------------------------------------------------------
(***************************************************************************)
(* What the visitors on the stack have done so far.  Found: the part of a  *)
(* declaration that a visitor is done with has an object, or has been      *)
(* visited if it never gets one.  Settled: it has been entered in free_declarations, too.           *)
(***************************************************************************)
Context == {"TranslationUnit", "LinkageSpec"}

Found(d) == Known(d) \/ (KindOf(d) \in Context /\ d \in visited)
Settled(d) == KindOf(d) \in Context \/ (Known(d) /\ declarations[d] \in free)
Deep(d) ==
  /\ Settled(d)
  /\ KindOf(d) = "LinkageSpec" => \A i \in 1 .. Len(Parts(d)) : Settled(Parts(d)[i])

Handled(v, i) ==
  Found(Parts(v.decl)[i]) /\ (RegistersTop(v) => Deep(Parts(v.decl)[i]))

\* A visitor has dealt with the parts before the one it has got to.
Fits(v) ==
  /\ v.next <= Len(Parts(v.decl))
  /\ v.entered => v.decl \in visited /\ (Known(v.decl) \/ KindOf(v.decl) \in Context)
  /\ ~v.entered => v.next = 0
  /\ \A i \in 1 .. (v.next - 1) : Handled(v, i)

\* v waits for w, the visitor of its part v.next.
WaitsFor(v, w) ==
  /\ v.entered /\ v.next > 0
  /\ w.decl = Parts(v.decl)[v.next]
  /\ w.top = TraversesTop(v, w.decl)

Fitting == {v \in Visitor : Fits(v)}
Waiting == {c \in Visitor \X Visitor : WaitsFor(c[1], c[2])}
UpToDate == {v \in Visitor : v.next > 0 => Handled(v, v.next)}

Stacked ==
  /\ \A k \in 1 .. Len(visitors) : visitors[k] \in Fitting
  /\ \A k \in 1 .. (Len(visitors) - 1) : << visitors[k], visitors[k + 1] >> \in Waiting
  /\ Len(visitors) > 0 => visitors[1].decl = Unit /\ visitors[Len(visitors)] \in UpToDate

\* Who has an object: what was visited, and the canonical declaration of it.
Justified ==
  \A e \in Decl : Known(e) =>
    /\ KindOf(e) \notin NotAllocated
    /\ \E v \in visited : e = v \/ e = Canonical(v)

Walked(v) == \A i \in 1 .. Len(Parts(v)) : Found(Parts(v)[i])
AtWork(v) == \E k \in 1 .. Len(visitors) : visitors[k].decl = v /\ visitors[k].entered

\* What was visited is part of something visited, and is being walked
\* through or has been.
Accounted ==
  \A v \in visited : (v = Unit \/ Met(v)) /\ (Walked(v) \/ AtWork(v))

AtEnd ==
  /\ phase \in {"enable", "done"} =>
       /\ visitors = << >> /\ Unit \in visited
       /\ \A i \in 1 .. Len(Parts(Unit)) : Deep(Parts(Unit)[i])
  /\ phase = "done" =>
       emit = { declarations[d] : d \in { e \in Decl : Known(e) /\ Enables(e) } }

Walk == Stacked /\ Justified /\ Accounted /\ AtEnd

-----------------------------------------------------------------------------
\* Nothing that is known, free or visited is forgotten.
LEMMA Grows ==
  ASSUME TypeOK, [Next]_vars
  PROVE  /\ prog' = prog
         /\ \A e \in Decl : Known(e) => declarations'[e] = declarations[e]
         /\ free \subseteq free' /\ visited \subseteq visited'
<1>1. CASE Allocate
  BY <1>1 DEF Allocate, Entered, TypeOK
<1>2. CASE ~Allocate
  BY <1>2 DEF Next, vars, EnterContext, Terminate, SkipPart, VisitPart, EndVisitor,
     EnableDeclarationsInFiles
<1> QED
  BY <1>1, <1>2

LEMMA HandledKept ==
  ASSUME TypeOK, [Next]_vars
  PROVE  /\ \A d \in Decl : Found(d) => Found(d)'
         /\ \A d \in Decl : Settled(d) => Settled(d)'
         /\ \A d \in Decl : Deep(d) => Deep(d)'
         /\ \A v \in Visitor : RegistersTop(v)' = RegistersTop(v)
         /\ \A v \in Visitor : \A i \in 1 .. Len(Parts(v.decl)) :
              Handled(v, i) => Handled(v, i)'
<1>1. /\ prog' = prog /\ free \subseteq free'
      /\ \A e \in Decl : Known(e) => declarations'[e] = declarations[e]
  BY Grows
<1>2. /\ \A d : KindOf(d)' = KindOf(d)
      /\ \A d : Parts(d)' = Parts(d)
  BY <1>1 DEF KindOf, Parts
<1>3. \A d \in Decl : Found(d) => Found(d)'
  BY <1>1, <1>2, Grows DEF Found, Known
<1>4. \A d \in Decl : Settled(d) => Settled(d)'
  BY <1>1, <1>2 DEF Settled, Known
<1>5. ASSUME NEW d \in Decl, Deep(d)
      PROVE  Deep(d)'
  <2>1. \A i \in 1 .. Len(Parts(d)) : Parts(d)[i] \in Decl
    BY ProgramFacts
  <2> QED
    BY <1>2, <1>4, <1>5, <2>1 DEF Deep
<1>6. \A v \in Visitor : RegistersTop(v)' = RegistersTop(v)
  BY <1>2 DEF RegistersTop
<1>7. ASSUME NEW v \in Visitor, NEW i \in 1 .. Len(Parts(v.decl)), Handled(v, i)
      PROVE  Handled(v, i)'
  <2>1. Parts(v.decl)[i] \in Decl
    BY ProgramFacts DEF Visitor
  <2> QED
    BY <1>2, <1>3, <1>5, <1>6, <1>7, <2>1 DEF Handled
<1> QED
  BY <1>3, <1>4, <1>5, <1>6, <1>7

-----------------------------------------------------------------------------
LEMMA AppendedAt ==
  ASSUME NEW S, NEW s \in Seq(S), NEW n \in Nat, Len(s) = n - 1, NEW x \in S
  PROVE  /\ Len(Append(s, x)) = n /\ Append(s, x)[n] = x
         /\ \A k \in 1 .. (n - 1) : Append(s, x)[k] = s[k]
OBVIOUS

LEMMA PairAppended ==
  ASSUME NEW S, NEW s \in Seq(S), NEW n \in Nat, Len(s) = n - 1,
         NEW t \in Seq(S), Len(t) = 2
  PROVE  /\ Len(s \o t) = n + 1
         /\ (s \o t)[n] = t[1] /\ (s \o t)[n + 1] = t[2]
         /\ \A k \in 1 .. (n - 1) : (s \o t)[k] = s[k]
<1>1. /\ Len(s \o t) = Len(s) + Len(t)
      /\ \A i \in 1 .. (Len(s) + Len(t)) :
           (s \o t)[i] = IF i <= Len(s) THEN s[i] ELSE t[i - Len(s)]
  BY ConcatProperties, Zenon
<1>2. \A i \in 1 .. (n + 1) : (s \o t)[i] = IF i <= n - 1 THEN s[i] ELSE t[i - (n - 1)]
  <2>1. Len(s) + Len(t) = n + 1
    OBVIOUS
  <2> QED
    BY <1>1, <2>1
<1>3. /\ n - (n - 1) = 1 /\ (n + 1) - (n - 1) = 2
      /\ ~(n <= n - 1) /\ ~(n + 1 <= n - 1)
  OBVIOUS
<1>4. n \in 1 .. (n + 1) => (s \o t)[n] = t[1]
  BY <1>2, <1>3
<1>5. n + 1 \in 1 .. (n + 1) => (s \o t)[n + 1] = t[2]
  BY <1>2, <1>3
<1>6. ASSUME NEW k \in 1 .. (n - 1)
      PROVE  (s \o t)[k] = s[k]
  BY <1>2
<1>7. n \in 1 .. (n + 1) /\ n + 1 \in 1 .. (n + 1)
  <2>1. n > 0
    OBVIOUS
  <2> QED
    BY <2>1
<1> QED
  BY <1>1, <1>4, <1>5, <1>6, <1>7

\* What Append, a concatenation and SubSeq make of the stack.
LEMMA StackShapes ==
  ASSUME TypeOK, Visiting
  PROVE  LET n == Len(visitors)
         IN  /\ n \in Nat \ {0} /\ Cur = visitors[n]
             /\ Len(Callers) = n - 1
             /\ \A k \in 1 .. (n - 1) : Callers[k] = visitors[k]
             /\ \A x \in Visitor :
                  /\ Len(Append(Callers, x)) = n /\ Append(Callers, x)[n] = x
                  /\ \A k \in 1 .. (n - 1) : Append(Callers, x)[k] = visitors[k]
             /\ \A x, y \in Visitor :
                  /\ Len(Callers \o << x, y >>) = n + 1
                  /\ (Callers \o << x, y >>)[n] = x
                  /\ (Callers \o << x, y >>)[n + 1] = y
                  /\ \A k \in 1 .. (n - 1) : (Callers \o << x, y >>)[k] = visitors[k]
<1> DEFINE n == Len(visitors)
<1>1. visitors \in Seq(Visitor) /\ n \in Nat \ {0} /\ Cur = visitors[n]
  BY DEF TypeOK, Visiting, Cur
<1>2. Callers \in Seq(Visitor)
  BY VisitorFacts
<1>3. Len(Callers) = n - 1 /\ \A k \in 1 .. (n - 1) : Callers[k] = visitors[k]
  <2>1. 1 \in Int /\ n - 1 \in Int /\ \A k \in 1 .. (n - 1) : visitors[k] \in Visitor
    BY <1>1
  <2>2. Callers = SubSeq(visitors, 1, n - 1)
    BY DEF Callers
  <2> HIDE DEF n
  <2>3. /\ Len(Callers) = IF 1 <= n - 1 THEN (n - 1) - 1 + 1 ELSE 0
        /\ \A i \in 1 .. (n - 1) - 1 + 1 : Callers[i] = visitors[1 + i - 1]
    <3>1. /\ Len(SubSeq(visitors, 1, n - 1)) = IF 1 <= n - 1 THEN (n - 1) - 1 + 1 ELSE 0
          /\ \A i \in 1 .. (n - 1) - 1 + 1 :
               SubSeq(visitors, 1, n - 1)[i] = visitors[1 + i - 1]
      BY <2>1, SubSeqProperties
    <3> QED
      BY <2>2, <3>1, Zenon
  <2>4. n \in Nat \ {0}
    BY <1>1
  <2>5. (n - 1) - 1 + 1 = n - 1 /\ (1 <= n - 1 \/ n - 1 = 0)
    BY <2>4
  <2>6. \A i \in 1 .. (n - 1) : 1 + i - 1 = i
    BY <2>4
  <2> QED
    BY <2>3, <2>5, <2>6
<1>4. ASSUME NEW x \in Visitor
      PROVE  /\ Len(Append(Callers, x)) = n /\ Append(Callers, x)[n] = x
             /\ \A k \in 1 .. (n - 1) : Append(Callers, x)[k] = visitors[k]
  <2>1. n \in Nat /\ Len(Callers) = n - 1
    BY <1>1, <1>3
  <2>2. /\ Len(Append(Callers, x)) = n /\ Append(Callers, x)[n] = x
        /\ \A k \in 1 .. (n - 1) : Append(Callers, x)[k] = Callers[k]
    <3> HIDE DEF n
    <3> QED
      BY <1>2, <2>1, AppendedAt
  <2> HIDE DEF n
  <2> QED
    BY <1>3, <2>2
<1>5. ASSUME NEW x \in Visitor, NEW y \in Visitor
      PROVE  /\ Len(Callers \o << x, y >>) = n + 1
             /\ (Callers \o << x, y >>)[n] = x
             /\ (Callers \o << x, y >>)[n + 1] = y
             /\ \A k \in 1 .. (n - 1) : (Callers \o << x, y >>)[k] = visitors[k]
  <2>1. n \in Nat /\ Len(Callers) = n - 1
    BY <1>1, <1>3
  <2> DEFINE t == << x, y >>
  <2>2. t \in Seq(Visitor) /\ Len(t) = 2 /\ t[1] = x /\ t[2] = y
    OBVIOUS
  <2> HIDE DEF n, t
  <2>3. /\ Len(Callers \o t) = n + 1
        /\ (Callers \o t)[n] = t[1] /\ (Callers \o t)[n + 1] = t[2]
        /\ \A k \in 1 .. (n - 1) : (Callers \o t)[k] = Callers[k]
    BY <1>2, <2>1, <2>2, PairAppended, Zenon
  <2>4. /\ Len(Callers \o t) = n + 1
        /\ (Callers \o t)[n] = x /\ (Callers \o t)[n + 1] = y
        /\ \A k \in 1 .. (n - 1) : (Callers \o t)[k] = visitors[k]
    BY <1>3, <2>2, <2>3
  <2> QED
    BY <2>4, Zenon DEF t
<1> QED
  BY <1>1, <1>3, <1>4, <1>5

\* A visitor that has been left alone still fits.
LEMMA FitsKept ==
  ASSUME TypeOK, [Next]_vars
  PROVE  Fitting \subseteq Fitting' /\ Waiting \subseteq Waiting'
<1>1. /\ prog' = prog /\ visited \subseteq visited'
      /\ \A e \in Decl : Known(e) => declarations'[e] = declarations[e]
  BY Grows
<1>2. /\ \A d : KindOf(d)' = KindOf(d)
      /\ \A d : Parts(d)' = Parts(d)
  BY <1>1 DEF KindOf, Parts
<1>3. ASSUME NEW v \in Visitor, Fits(v)
      PROVE  Fits(v)'
  <2>1. v.decl \in Decl /\ v.next \in Nat /\ Len(Parts(v.decl)) \in Nat
    BY ProgramFacts DEF Visitor
  <2>2. \A i \in 1 .. (v.next - 1) : Handled(v, i)'
    BY <1>3, <2>1, HandledKept DEF Fits
  <2>3. Known(v.decl) => Known(v.decl)'
    BY <1>1, <2>1 DEF Known
  <2> QED
    BY <1>1, <1>2, <1>3, <2>1, <2>2, <2>3 DEF Fits
<1>4. \A v, w : WaitsFor(v, w) => WaitsFor(v, w)'
  BY <1>2 DEF WaitsFor, TraversesTop, RegistersTop
<1> QED
  BY <1>3, <1>4 DEF Fitting, Waiting

-----------------------------------------------------------------------------
\* The visitor at work is the last one; it is done with the parts up to next.
LEMMA CurFacts ==
  ASSUME TypeOK, Visiting, Stacked
  PROVE  /\ Fits(Cur)
         /\ \A i \in 1 .. Cur.next : Handled(Cur, i)
         /\ Cur.next \in Nat /\ Len(Parts(Cur.decl)) \in Nat
<1>1. Len(visitors) \in 1 .. Len(visitors) /\ Cur = visitors[Len(visitors)]
  BY StackShapes
<1>2. Cur.next \in Nat /\ Len(Parts(Cur.decl)) \in Nat
  BY VisitorFacts, ProgramFacts
<1>3. Fits(Cur) /\ (Cur.next > 0 => Handled(Cur, Cur.next))
  BY <1>1 DEF Stacked, Fitting, UpToDate
<1>4. ASSUME NEW i \in 1 .. Cur.next
      PROVE  Handled(Cur, i)
  <2>1. i \in 1 .. (Cur.next - 1) \/ (i = Cur.next /\ Cur.next > 0)
    BY <1>2
  <2> QED
    BY <1>3, <2>1 DEF Fits
<1> QED
  BY <1>2, <1>3, <1>4

\* A step that puts x in the place of the visitor at work.
LEMMA StackedReplace ==
  ASSUME TypeOK, Visiting, Stacked, [Next]_vars, NEW x \in Visitor,
         visitors' = Append(Callers, x), x.decl = Cur.decl, x.top = Cur.top,
         x \in Fitting', x \in UpToDate'
  PROVE  Stacked'
<1> DEFINE n == Len(visitors)
<1>1. /\ n \in Nat \ {0} /\ Cur = visitors[n] /\ Len(visitors') = n /\ visitors'[n] = x
      /\ \A k \in 1 .. (n - 1) : visitors'[k] = visitors[k] /\ visitors[k] \in Visitor
  BY StackShapes DEF TypeOK
<1>2. /\ \A k \in 1 .. n : visitors[k] \in Fitting
      /\ \A k \in 1 .. (n - 1) : << visitors[k], visitors[k + 1] >> \in Waiting
      /\ visitors[1].decl = Unit
  BY <1>1 DEF Stacked
<1>3. Fitting \subseteq Fitting' /\ Waiting \subseteq Waiting'
  BY FitsKept
<1> HIDE DEF n
<1>4. \A k \in 1 .. n : visitors'[k] \in Fitting'
  <2>1. \A k \in 1 .. n : k \in 1 .. (n - 1) \/ k = n
    BY <1>1
  <2> QED
    BY <1>1, <1>2, <1>3, <2>1
<1>5. ASSUME NEW k \in 1 .. (n - 1)
      PROVE  << visitors'[k], visitors'[k + 1] >> \in Waiting'
  <2>1. << visitors[k], visitors[k + 1] >> \in Waiting /\ visitors'[k] = visitors[k]
    BY <1>1, <1>2
  <2>2. CASE k + 1 = n
    <3>1. << visitors[k], x >> \in Waiting
      BY <1>1, <2>1, <2>2 DEF Waiting, WaitsFor
    <3> QED
      BY <1>1, <1>3, <2>1, <2>2, <3>1
  <2>3. CASE k + 1 # n
    <3>1. k + 1 \in 1 .. (n - 1)
      BY <1>1, <2>3
    <3> QED
      BY <1>1, <1>3, <2>1, <3>1
  <2> QED
    BY <2>2, <2>3
<1>6. visitors'[1].decl = Unit
  <2>1. n = 1 \/ 1 \in 1 .. (n - 1)
    BY <1>1
  <2> QED
    BY <1>1, <1>2, <2>1
<1> QED
  BY <1>1, <1>4, <1>5, <1>6 DEF Stacked

\* A step of the visitor at work that calls another one, y.
LEMMA StackedPush ==
  ASSUME TypeOK, Visiting, Stacked, [Next]_vars, NEW x \in Visitor, NEW y \in Visitor,
         visitors' = Callers \o << x, y >>, x.decl = Cur.decl, x.top = Cur.top,
         x \in Fitting', y \in Fitting', y \in UpToDate', << x, y >> \in Waiting'
  PROVE  Stacked'
<1> DEFINE n == Len(visitors)
<1>1. /\ n \in Nat \ {0} /\ Cur = visitors[n] /\ Len(visitors') = n + 1
      /\ visitors'[n] = x /\ visitors'[n + 1] = y
      /\ \A k \in 1 .. (n - 1) : visitors'[k] = visitors[k] /\ visitors[k] \in Visitor
  BY StackShapes DEF TypeOK
<1>2. /\ \A k \in 1 .. n : visitors[k] \in Fitting
      /\ \A k \in 1 .. (n - 1) : << visitors[k], visitors[k + 1] >> \in Waiting
      /\ visitors[1].decl = Unit
  BY <1>1 DEF Stacked
<1>3. Fitting \subseteq Fitting' /\ Waiting \subseteq Waiting'
  BY FitsKept
<1> HIDE DEF n
<1>4. \A k \in 1 .. (n + 1) : visitors'[k] \in Fitting'
  <2>1. \A k \in 1 .. (n + 1) : (k \in 1 .. (n - 1) /\ k \in 1 .. n) \/ k = n \/ k = n + 1
    BY <1>1
  <2> QED
    BY <1>1, <1>2, <1>3, <2>1
<1>5. ASSUME NEW k \in 1 .. n
      PROVE  << visitors'[k], visitors'[k + 1] >> \in Waiting'
  <2>1. CASE k = n
    BY <1>1, <2>1
  <2>2. CASE k # n
    <3>1. k \in 1 .. (n - 1) /\ << visitors[k], visitors[k + 1] >> \in Waiting
      BY <1>1, <1>2, <2>2
    <3>2. CASE k + 1 = n
      <4>1. visitors[k + 1].decl = x.decl /\ visitors[k + 1].top = x.top
        BY <1>1, <3>2
      <4>2. << visitors[k], x >> \in Waiting
        BY <3>1, <4>1 DEF Waiting, WaitsFor
      <4> QED
        BY <1>1, <1>3, <3>1, <3>2, <4>2
    <3>3. CASE k + 1 # n
      <4>1. k + 1 \in 1 .. (n - 1)
        <5>1. n \in Nat /\ k \in 1 .. (n - 1)
          BY <1>1, <3>1
        <5> QED
          BY <3>3, <5>1
      <4> QED
        BY <1>1, <1>3, <3>1, <4>1
    <3> QED
      BY <3>2, <3>3
  <2> QED
    BY <2>1, <2>2
<1>6. visitors'[1].decl = Unit
  <2>1. n = 1 \/ 1 \in 1 .. (n - 1)
    BY <1>1
  <2> QED
    BY <1>1, <1>2, <2>1
<1>7. (n + 1) - 1 = n
  BY <1>1
<1> QED
  BY <1>1, <1>4, <1>5, <1>6, <1>7 DEF Stacked

\* The visitor at work ends; its caller is up to date with it.
LEMMA StackedPop ==
  ASSUME TypeOK, Visiting, Stacked, [Next]_vars, visitors' = Callers,
         Len(visitors) > 1 => visitors[Len(visitors) - 1] \in UpToDate'
  PROVE  Stacked'
<1> DEFINE n == Len(visitors)
<1>1. /\ n \in Nat \ {0} /\ Len(visitors') = n - 1
      /\ \A k \in 1 .. (n - 1) : visitors'[k] = visitors[k]
  BY StackShapes
<1>2. /\ \A k \in 1 .. n : visitors[k] \in Fitting
      /\ \A k \in 1 .. (n - 1) : << visitors[k], visitors[k + 1] >> \in Waiting
      /\ visitors[1].decl = Unit
      /\ n > 1 => visitors[n - 1] \in UpToDate'
  BY <1>1 DEF Stacked
<1>3. Fitting \subseteq Fitting' /\ Waiting \subseteq Waiting'
  BY FitsKept
<1> HIDE DEF n
<1>4. \A k \in 1 .. (n - 1) : visitors'[k] \in Fitting'
  BY <1>1, <1>2, <1>3
<1>5. \A k \in 1 .. (n - 1 - 1) : << visitors'[k], visitors'[k + 1] >> \in Waiting'
  <2>1. \A k \in 1 .. (n - 1 - 1) : k \in 1 .. (n - 1) /\ k + 1 \in 1 .. (n - 1)
    BY <1>1
  <2> QED
    BY <1>1, <1>2, <1>3, <2>1
<1>6. n - 1 > 0 => visitors'[1].decl = Unit /\ visitors'[n - 1] \in UpToDate'
  <2>1. n - 1 > 0 => n > 1 /\ 1 \in 1 .. (n - 1) /\ n - 1 \in 1 .. (n - 1)
    BY <1>1
  <2> QED
    BY <1>1, <1>2, <2>1
<1> QED
  BY <1>1, <1>4, <1>5, <1>6 DEF Stacked

\* What has no object but a visitor of it may end.
LEMMA EnteredFacts ==
  ASSUME TypeOK, Visiting, Stacked, Cur.entered
  PROVE  /\ Cur.decl \in visited /\ Found(Cur.decl)
         /\ Known(Cur.decl) \/ KindOf(Cur.decl) \in Context
BY CurFacts DEF Fits, Found, Context, NotAllocated

\* A visitor x that has got as far as the one at work, or one part further.
LEMMA FitsFurther ==
  ASSUME TypeOK, Visiting, Stacked, [Next]_vars, NEW x, x \in Visitor,
         x.decl = Cur.decl, x.top = Cur.top, x.entered,
         x.next <= Len(Parts(x.decl)), x.next \in {Cur.next, Cur.next + 1},
         x.decl \in visited', Known(x.decl)' \/ KindOf(x.decl) \in Context
  PROVE  /\ x \in Fitting'
         /\ x.next = Cur.next => x \in UpToDate'
<1>1. /\ \A i \in 1 .. Cur.next : Handled(Cur, i)
      /\ Cur.next \in Nat /\ Len(Parts(Cur.decl)) \in Nat
      /\ Cur.next <= Len(Parts(Cur.decl)) /\ Cur \in Visitor
  BY CurFacts, VisitorFacts DEF Fits
<1>2. \A i \in 1 .. Cur.next : Handled(x, i)
  BY <1>1 DEF Handled, RegistersTop
<1>3. \A i \in 1 .. Cur.next : Handled(x, i)'
  BY <1>1, <1>2, HandledKept
<1>4. \A i \in 1 .. (x.next - 1) : i \in 1 .. Cur.next
  BY <1>1
<1>5. Parts(x.decl)' = Parts(x.decl) /\ KindOf(x.decl)' = KindOf(x.decl)
  BY Grows DEF Parts, KindOf
<1>6. Fits(x)'
  BY <1>3, <1>4, <1>5 DEF Fits
<1>7. x.next = Cur.next /\ x.next > 0 => Handled(x, x.next)'
  <2>1. Cur.next > 0 => Cur.next \in 1 .. Cur.next
    BY <1>1
  <2> QED
    BY <1>3, <2>1
<1> QED
  BY <1>6, <1>7 DEF Fitting, UpToDate

LEMMA StackedEnter ==
  ASSUME TypeOK, Stacked, [Next]_vars, Allocate \/ EnterContext
  PROVE  Stacked'
<1>1. PICK x : x = [Cur EXCEPT !.entered = TRUE]
  OBVIOUS
<1>2. Visiting /\ visitors' = Append(Callers, x)
  BY <1>1 DEF Allocate, EnterContext
<1>3. Cur \in Visitor /\ Cur.next <= Len(Parts(Cur.decl))
  BY <1>2, VisitorFacts, CurFacts DEF Fits
<1>4. /\ x \in Visitor /\ x.decl = Cur.decl /\ x.top = Cur.top /\ x.entered
      /\ x.next = Cur.next /\ x.decl \in Decl
  BY <1>1, <1>3 DEF Visitor
<1>5. x.decl \in visited'
  BY <1>4 DEF Allocate, EnterContext
<1>6. Known(x.decl)' \/ KindOf(x.decl) \in Context
  <2>1. CASE Allocate
    <3>1. ObjectFor(x.decl) # NoDecl
      BY <1>4, ObjectFacts
    <3> QED
      BY <1>4, <2>1, <3>1 DEF Allocate, Entered, Known
  <2>2. CASE EnterContext
    BY <1>4, <2>2 DEF EnterContext, Context
  <2> QED
    BY <2>1, <2>2
<1>7. x \in Fitting' /\ x \in UpToDate'
  BY <1>2, <1>3, <1>4, <1>5, <1>6, FitsFurther
<1> QED
  BY <1>2, <1>4, <1>7, StackedReplace

\* What SkipPart and VisitPart make of the visitor at work.
LEMMA OnePartFurther ==
  ASSUME TypeOK, Stacked, [Next]_vars, SkipPart \/ VisitPart,
         NEW x, x = CurDone
  PROVE  /\ Visiting /\ x \in Visitor /\ x.decl = Cur.decl /\ x.top = Cur.top
         /\ x.entered /\ x.next = Cur.next + 1
         /\ x.next \in 1 .. Len(Parts(x.decl)) /\ Part = Parts(x.decl)[x.next]
         /\ Part \in Decl /\ x \in Fitting'
<1>1. Visiting /\ Cur.next < Len(Parts(Cur.decl)) /\ Cur.entered
  BY DEF SkipPart, VisitPart
<1>2. Cur \in Visitor /\ Cur.next \in Nat /\ Len(Parts(Cur.decl)) \in Nat
  BY <1>1, VisitorFacts, CurFacts
<1>3. /\ x \in Visitor /\ x.decl = Cur.decl /\ x.top = Cur.top
      /\ x.entered /\ x.next = Cur.next + 1
  BY <1>1, <1>2, VisitorFacts DEF CurDone, Visitor
<1>4. Part \in Decl /\ Part = Parts(x.decl)[x.next]
  BY <1>1, <1>3, PartFacts DEF Part
<1>5. x.next \in 1 .. Len(Parts(x.decl))
  BY <1>1, <1>2, <1>3
<1>6. x.decl \in visited' /\ (Known(x.decl)' \/ KindOf(x.decl) \in Context)
  <2>1. x.decl \in visited /\ (Known(x.decl) \/ KindOf(x.decl) \in Context)
    BY <1>1, <1>3, EnteredFacts
  <2>2. x.decl \in Decl
    BY <1>3 DEF Visitor
  <2> QED
    BY <2>1, <2>2, Grows DEF Known
<1>7. x.next <= Len(Parts(x.decl))
  BY <1>5
<1>8. x \in Fitting'
  BY <1>1, <1>3, <1>6, <1>7, FitsFurther
<1> QED
  BY <1>1, <1>3, <1>4, <1>5, <1>8

LEMMA StackedSkip ==
  ASSUME TypeOK, Stacked, Justified, [Next]_vars, SkipPart
  PROVE  Stacked'
<1>1. PICK x, p : x = CurDone /\ p = Part
  OBVIOUS
<1>2. /\ Visiting /\ x \in Visitor /\ x.decl = Cur.decl /\ x.top = Cur.top
      /\ p = Parts(x.decl)[x.next] /\ p \in Decl /\ x \in Fitting'
  BY <1>1, OnePartFurther
<1>3. visitors' = Append(Callers, x) /\ Known(p)
  BY <1>1 DEF SkipPart, TraversedBefore
<1>4. KindOf(p) \notin NotAllocated
  BY <1>2, <1>3 DEF Justified
<1>5. Known(p)' /\ (RegistersTop(x) => declarations'[p] \in free')
  BY <1>1, <1>2, <1>3, Grows DEF SkipPart, Known, RegistersTop
<1>6. /\ Parts(x.decl)' = Parts(x.decl) /\ KindOf(p)' = KindOf(p)
      /\ RegistersTop(x)' = RegistersTop(x)
  BY <1>2, Grows, HandledKept DEF Parts, KindOf
<1>7. Handled(x, x.next)'
  BY <1>2, <1>4, <1>5, <1>6 DEF Handled, Found, Deep, Settled, NotAllocated
<1> QED
  BY <1>2, <1>3, <1>7, StackedReplace DEF UpToDate

LEMMA StackedVisit ==
  ASSUME TypeOK, Stacked, [Next]_vars, VisitPart
  PROVE  Stacked'
<1>1. PICK x, p, y : /\ x = CurDone /\ p = Part
                     /\ y = NewVisitor(Part, TraversesTop(Cur, Part))
  OBVIOUS
<1>2. /\ Visiting /\ x \in Visitor /\ x.decl = Cur.decl /\ x.top = Cur.top
      /\ x.entered /\ x.next \in 1 .. Len(Parts(x.decl))
      /\ p = Parts(x.decl)[x.next] /\ p \in Decl /\ x \in Fitting'
  BY <1>1, OnePartFurther
<1>3. visitors' = Callers \o << x, y >>
  BY <1>1 DEF VisitPart
<1>4. TraversesTop(Cur, p) = TraversesTop(x, p) /\ TraversesTop(x, p) \in BOOLEAN
  BY <1>2 DEF TraversesTop, RegistersTop, Visitor
<1>5. /\ y \in Visitor /\ y.decl = p /\ y.top = TraversesTop(x, p)
      /\ ~y.entered /\ y.next = 0
  BY <1>1, <1>2, <1>4 DEF NewVisitor, Visitor
<1>6. /\ \A d : Parts(d)' = Parts(d)
      /\ TraversesTop(x, p)' = TraversesTop(x, p)
  BY Grows DEF Parts, KindOf, TraversesTop, RegistersTop
<1>7. y \in Fitting' /\ y \in UpToDate'
  <2>1. Len(Parts(p)) \in Nat /\ 0 <= Len(Parts(p))
    BY <1>2, ProgramFacts
  <2> QED
    BY <1>5, <1>6, <2>1 DEF Fitting, UpToDate, Fits
<1>8. << x, y >> \in Waiting'
  <2>1. WaitsFor(x, y)'
    BY <1>2, <1>5, <1>6 DEF WaitsFor
  <2> QED
    BY <1>2, <1>5, <2>1 DEF Waiting
<1> QED
  BY <1>2, <1>3, <1>5, <1>7, <1>8, StackedPush

LEMMA StackedEnd ==
  ASSUME TypeOK, Stacked, [Next]_vars, EndVisitor
  PROVE  Stacked'
<1>1. Visiting /\ Cur.entered /\ Cur.next = Len(Parts(Cur.decl)) /\ visitors' = Callers
  BY DEF EndVisitor
<1>2. SUFFICES ASSUME Len(visitors) > 1,
                      NEW v, v = visitors[Len(visitors) - 1], NEW w, w = Cur
               PROVE  v \in UpToDate'
  BY <1>1, StackedPop
<1>3. /\ v \in Visitor /\ w \in Visitor /\ w.decl \in Decl
      /\ << v, w >> \in Waiting
  <2>1. Len(visitors) - 1 \in 1 .. (Len(visitors) - 1) /\ Len(visitors) \in Nat
    BY <1>1, <1>2, StackShapes
  <2>2. (Len(visitors) - 1) + 1 = Len(visitors)
    BY <2>1
  <2>3. << v, w >> \in Waiting
    BY <1>2, <2>1, <2>2 DEF Stacked, Cur
  <2> QED
    BY <1>1, <1>2, <2>3, VisitorFacts DEF Waiting
<1>4. w.decl = Parts(v.decl)[v.next] /\ w.top = TraversesTop(v, w.decl)
  BY <1>3 DEF Waiting, WaitsFor
<1>5. \A i \in 1 .. Len(Parts(w.decl)) : Handled(w, i)
  BY <1>1, <1>2, CurFacts
<1>6. Found(w.decl) /\ (Known(w.decl) \/ KindOf(w.decl) \in Context)
  BY <1>1, <1>2, EnteredFacts
<1>7. Found(w.decl)'
  BY <1>3, <1>6, HandledKept
<1>8. ASSUME RegistersTop(v)
      PROVE  Deep(w.decl)'
  <2>1. w.top
    BY <1>4, <1>8 DEF TraversesTop
  <2>2. Settled(w.decl)'
    <3>1. Known(w.decl) => Known(w.decl)' /\ declarations'[w.decl] \in free'
      BY <1>2, <1>3, <2>1, Grows DEF EndVisitor, Known
    <3>2. KindOf(w.decl)' = KindOf(w.decl)
      BY Grows DEF KindOf
    <3> QED
      BY <1>6, <3>1, <3>2 DEF Settled
  <2>4. Parts(w.decl)' = Parts(w.decl) /\ KindOf(w.decl)' = KindOf(w.decl)
    BY Grows DEF Parts, KindOf
  <2>3. ASSUME KindOf(w.decl) = "LinkageSpec",
               NEW i \in 1 .. Len(Parts(w.decl))
        PROVE  Settled(Parts(w.decl)[i])'
    <3>1. RegistersTop(w)
      BY <2>1, <2>3 DEF RegistersTop
    <3>2. PICK e : e = Parts(w.decl)[i]
      OBVIOUS
    <3>3. Settled(e) /\ e \in Decl
      BY <1>3, <1>5, <2>3, <3>1, <3>2, ProgramFacts DEF Handled, Deep
    <3>4. Settled(e)'
      BY <3>3, HandledKept
    <3>5. Parts(w.decl)'[i] = e
      BY <2>4, <3>2
    <3> QED
      BY <3>4, <3>5
  <2> QED
    BY <2>2, <2>3, <2>4 DEF Deep
<1>9. Parts(v.decl)' = Parts(v.decl) /\ RegistersTop(v)' = RegistersTop(v)
  BY <1>3, Grows, HandledKept DEF Parts, KindOf
<1>10. Handled(v, v.next)'
  BY <1>4, <1>7, <1>8, <1>9 DEF Handled
<1> QED
  BY <1>3, <1>10 DEF UpToDate

LEMMA StackedStep == TypeOK /\ Stacked /\ Justified /\ [Next]_vars => Stacked'
<1> SUFFICES ASSUME TypeOK, Stacked, Justified, [Next]_vars
             PROVE  Stacked'
  OBVIOUS
<1>1. CASE UNCHANGED visitors
  <2>1. Fitting \cap UpToDate \subseteq UpToDate'
    <3>1. \A v \in Fitting : v.next > 0 => v.next \in 1 .. Len(Parts(v.decl))
      BY ProgramFacts DEF Fitting, Fits, Visitor
    <3> QED
      BY <3>1, HandledKept DEF Fitting, UpToDate
  <2>2. Len(visitors) > 0 => Len(visitors) \in 1 .. Len(visitors)
    BY DEF TypeOK
  <2> QED
    BY <1>1, <2>1, <2>2, FitsKept DEF Stacked
<1>2. CASE ~UNCHANGED visitors
  <2>1. Allocate \/ EnterContext \/ SkipPart \/ VisitPart \/ EndVisitor
    BY <1>2 DEF Next, vars, Terminate, EnableDeclarationsInFiles
  <2> QED
    BY <2>1, StackedEnter, StackedSkip, StackedVisit, StackedEnd
<1> QED
  BY <1>1, <1>2

-----------------------------------------------------------------------------
LEMMA JustifiedStep == TypeOK /\ Justified /\ [Next]_vars => Justified'
<1> SUFFICES ASSUME TypeOK, Justified, [Next]_vars
             PROVE  Justified'
  OBVIOUS
<1>1. \A d : KindOf(d)' = KindOf(d) /\ Canonical(d)' = Canonical(d)
  BY Grows DEF KindOf, Canonical
<1>2. CASE Allocate
  <2>1. Visiting /\ Cur.decl \in Decl /\ KindOf(Cur.decl) \notin NotAllocated
    BY <1>2, VisitorFacts DEF Allocate
  <2>2. KindOf(Canonical(Cur.decl)) = KindOf(Cur.decl)
    BY <2>1, TraversalAssumption DEF TypeOK, WellFormed, KindOf, Canonical
  <2>3. \A e \in Decl : e \in {Cur.decl, Canonical(Cur.decl)} \/ Known(e)' = Known(e)
    BY <1>2 DEF Allocate, Entered, Known
  <2>4. Cur.decl \in visited' /\ visited \subseteq visited'
    BY <1>2 DEF Allocate
  <2> QED
    BY <1>1, <2>1, <2>2, <2>3, <2>4 DEF Justified
<1>3. CASE ~Allocate
  <2>1. UNCHANGED declarations /\ visited \subseteq visited'
    BY <1>3 DEF Next, vars, EnterContext, Terminate, SkipPart, VisitPart, EndVisitor,
       EnableDeclarationsInFiles
  <2> QED
    BY <1>1, <2>1 DEF Justified, Known
<1> QED
  BY <1>2, <1>3

\* A visitor goes on until it ends.
LEMMA AtWorkKept ==
  ASSUME TypeOK, [Next]_vars, NEW v, AtWork(v)
  PROVE  AtWork(v)' \/ (EndVisitor /\ v = Cur.decl)
<1>1. PICK k \in 1 .. Len(visitors) : visitors[k].decl = v /\ visitors[k].entered
  BY DEF AtWork
<1>2. CASE UNCHANGED visitors
  BY <1>1, <1>2 DEF AtWork
<1>3. ASSUME Visiting,
             Len(visitors') >= Len(visitors),
             \A i \in 1 .. (Len(visitors) - 1) : visitors'[i] = visitors[i],
             visitors'[Len(visitors)].decl = Cur.decl,
             Cur.entered => visitors'[Len(visitors)].entered
      PROVE  AtWork(v)'
  <2>1. /\ Len(visitors) \in Nat /\ Cur = visitors[Len(visitors)]
        /\ k \in 1 .. (Len(visitors) - 1) \/ k = Len(visitors)
    BY <1>3, StackShapes
  <2>2. k \in 1 .. Len(visitors')
    <3>1. Len(visitors') \in Int
      BY NextType DEF TypeOK
    <3> QED
      BY <1>3, <2>1, <3>1
  <2>3. visitors'[k].decl = v /\ visitors'[k].entered
    BY <1>1, <1>3, <2>1
  <2> QED
    BY <2>2, <2>3 DEF AtWork
<1>4. CASE Allocate \/ EnterContext \/ SkipPart
  <2>1. PICK x \in Visitor : /\ visitors' = Append(Callers, x) /\ x.decl = Cur.decl
                             /\ Cur.entered => x.entered
    BY <1>4, VisitorFacts DEF Allocate, EnterContext, SkipPart, CurDone, Visitor
  <2> QED
    BY <1>3, <1>4, <2>1, StackShapes DEF Allocate, EnterContext, SkipPart
<1>5. CASE VisitPart
  <2>1. CurDone.decl = Cur.decl /\ (Cur.entered => CurDone.entered)
    BY <1>5, VisitorFacts DEF VisitPart, CurDone, Visitor
  <2>2. CurDone \in Visitor /\ NewVisitor(Part, TraversesTop(Cur, Part)) \in Visitor
    BY <1>5, VisitorFacts, PartFacts
       DEF VisitPart, NewVisitor, Visitor, TraversesTop, RegistersTop
  <2>3. /\ Visiting /\ Len(visitors) \in Nat /\ Len(visitors') = Len(visitors) + 1
        /\ visitors'[Len(visitors)] = CurDone
        /\ \A i \in 1 .. (Len(visitors) - 1) : visitors'[i] = visitors[i]
    BY <1>5, <2>2, StackShapes DEF VisitPart
  <2>4. Len(visitors') >= Len(visitors)
    BY <2>3
  <2> QED
    BY <1>3, <2>1, <2>3, <2>4
<1>6. CASE EndVisitor
  <2>1. /\ Visiting /\ Len(visitors) \in Nat /\ Cur = visitors[Len(visitors)]
        /\ Len(visitors') = Len(visitors) - 1
        /\ \A i \in 1 .. (Len(visitors) - 1) : visitors'[i] = visitors[i]
    BY <1>6, StackShapes DEF EndVisitor
  <2>2. CASE k = Len(visitors)
    BY <1>1, <1>6, <2>1, <2>2
  <2>3. CASE k # Len(visitors)
    <3>1. k \in 1 .. Len(visitors')
      BY <2>1, <2>3
    <3> QED
      BY <1>1, <2>1, <2>3, <3>1 DEF AtWork
  <2> QED
    BY <2>2, <2>3
<1> QED
  BY <1>2, <1>4, <1>5, <1>6 DEF Next, vars, Terminate, EnableDeclarationsInFiles

\* Who is visited was met as a part of something visited, the Unit apart.
LEMMA CurMet ==
  ASSUME TypeOK, Visiting, Stacked
  PROVE  Cur.decl = Unit \/ Met(Cur.decl)
<1> DEFINE n == Len(visitors)
<1>1. n \in Nat \ {0} /\ Cur = visitors[n]
  BY StackShapes
<1>2. CASE n = 1
  BY <1>1, <1>2 DEF Stacked
<1>3. CASE n # 1
  <2>1. n - 1 \in 1 .. (n - 1) /\ n - 1 \in 1 .. n /\ (n - 1) + 1 = n
    <3> HIDE DEF n
    <3> QED
      BY <1>1, <1>3
  <2>2. PICK v : v = visitors[n - 1]
    OBVIOUS
  <2>3. v \in Fitting /\ << v, Cur >> \in Waiting
    <3>1. v \in Fitting /\ << v, visitors[(n - 1) + 1] >> \in Waiting
      BY <2>1, <2>2 DEF Stacked
    <3> QED
      BY <1>1, <2>1, <3>1
  <2>4. /\ v.decl \in visited /\ Cur.decl = Parts(v.decl)[v.next]
        /\ v.next > 0 /\ v.next <= Len(Parts(v.decl)) /\ v \in Visitor
    BY <2>3 DEF Fitting, Fits, Waiting, WaitsFor
  <2>5. v.next \in Nat /\ Parts(v.decl) \in Seq(Decl) /\ Len(Parts(v.decl)) \in Nat
    BY <2>4, ProgramFacts DEF Visitor
  <2>6. v.next \in DOMAIN Parts(v.decl)
    BY <2>4, <2>5
  <2> QED
    BY <2>4, <2>6 DEF Met
<1> QED
  BY <1>2, <1>3

LEMMA AccountedStep == TypeOK /\ Stacked /\ Accounted /\ [Next]_vars => Accounted'
<1> SUFFICES ASSUME TypeOK, Stacked, Accounted, [Next]_vars,
                    NEW v \in visited'
             PROVE  (v = Unit \/ Met(v)') /\ (Walked(v)' \/ AtWork(v)')
  BY DEF Accounted
<1>1. prog' = prog /\ visited \subseteq visited' /\ \A d : Parts(d)' = Parts(d)
  BY Grows DEF Parts, KindOf
<1>2. \A d : Met(d) => Met(d)'
  BY <1>1 DEF Met
<1>3. ASSUME NEW d \in Decl, Walked(d)
      PROVE  Walked(d)'
  <2>1. \A i \in 1 .. Len(Parts(d)) : Parts(d)[i] \in Decl
    BY ProgramFacts
  <2> QED
    BY <1>1, <1>3, <2>1, HandledKept DEF Walked
<1>4. CASE v \in visited
  <2>1. v \in Decl
    BY <1>4 DEF TypeOK
  <2>2. CASE Walked(v)
    BY <1>2, <1>3, <1>4, <2>1, <2>2 DEF Accounted
  <2>3. CASE AtWork(v)
    <3>1. CASE EndVisitor /\ v = Cur.decl
      <4>1. Visiting /\ Cur.next = Len(Parts(Cur.decl))
        BY <3>1 DEF EndVisitor
      <4>2. Walked(v)
        BY <3>1, <4>1, CurFacts DEF Walked, Handled
      <4> QED
        BY <1>2, <1>3, <1>4, <2>1, <4>2 DEF Accounted
    <3> QED
      BY <1>2, <1>4, <2>3, <3>1, AtWorkKept DEF Accounted
  <2> QED
    BY <1>4, <2>2, <2>3 DEF Accounted
<1>5. CASE v \notin visited
  <2>1. (Allocate \/ EnterContext) /\ v = Cur.decl /\ Visiting
    BY <1>5 DEF Next, vars, Allocate, EnterContext, Terminate, SkipPart, VisitPart,
       EndVisitor, EnableDeclarationsInFiles
  <2>2. v = Unit \/ Met(v)
    BY <2>1, CurMet
  <2>3. AtWork(v)'
    <3>1. PICK x : x = [Cur EXCEPT !.entered = TRUE]
      OBVIOUS
    <3>2. visitors' = Append(Callers, x)
      BY <2>1, <3>1 DEF Allocate, EnterContext
    <3>3. x \in Visitor /\ x.decl = v /\ x.entered
      BY <2>1, <3>1, VisitorFacts DEF Visitor
    <3>4. /\ Len(visitors') \in 1 .. Len(visitors')
          /\ visitors'[Len(visitors')] = x
      BY <2>1, <3>2, <3>3, StackShapes
    <3> QED
      BY <3>3, <3>4 DEF AtWork
  <2> QED
    BY <1>2, <2>2, <2>3
<1> QED
  BY <1>4, <1>5

LEMMA AtEndStep == TypeOK /\ Stacked /\ AtEnd /\ [Next]_vars => AtEnd'
<1> SUFFICES ASSUME TypeOK, Stacked, AtEnd, [Next]_vars
             PROVE  AtEnd'
  OBVIOUS
<1>1. /\ prog' = prog /\ \A d : Parts(d)' = Parts(d) /\ KindOf(d)' = KindOf(d)
      /\ Unit \in Decl /\ visited \subseteq visited'
  BY Grows, TraversalAssumption DEF Parts, KindOf
<1>2. ASSUME NEW i \in 1 .. Len(Parts(Unit)), Deep(Parts(Unit)[i])
      PROVE  Deep(Parts(Unit)[i])'
  <2>1. PICK d : d = Parts(Unit)[i]
    OBVIOUS
  <2>2. d \in Decl
    BY <1>1, <2>1, ProgramFacts
  <2>3. Deep(d)' /\ Parts(Unit)'[i] = d
    BY <1>1, <1>2, <2>1, <2>2, HandledKept
  <2> QED
    BY <2>3
<1>3. CASE EndVisitor
  <2>1. Visiting /\ Cur.entered /\ Cur.next = Len(Parts(Cur.decl)) /\ visitors' = Callers
    BY <1>3 DEF EndVisitor
  <2>2. phase' = IF Callers = << >> THEN "enable" ELSE "traverse"
    BY <1>3 DEF EndVisitor
  <2>3. CASE Callers = << >>
    <3>1. Len(visitors) = 1
      <4>1. Len(visitors) - 1 = 0 /\ Len(visitors) \in Nat
        BY <2>1, <2>3, StackShapes
      <4> QED
        BY <4>1
    <3>2. Cur.decl = Unit
      BY <3>1 DEF Stacked, Cur
    <3>3. RegistersTop(Cur)
      BY <3>2, TraversalAssumption DEF TypeOK, WellFormed, RegistersTop, KindOf
    <3>4. /\ \A i \in 1 .. Len(Parts(Unit)) : Deep(Parts(Unit)[i])
          /\ Unit \in visited
      BY <2>1, <3>2, <3>3, CurFacts, EnteredFacts DEF Handled
    <3> QED
      BY <1>1, <1>2, <2>1, <2>2, <2>3, <3>4 DEF AtEnd
  <2> QED
    BY <2>2, <2>3 DEF AtEnd
<1>4. CASE EnableDeclarationsInFiles
  <2>1. /\ phase = "enable" /\ UNCHANGED << prog, visitors, declarations >>
        /\ emit' = { declarations[d] : d \in { e \in Decl : Known(e) /\ Enables(e) } }
    BY <1>4 DEF EnableDeclarationsInFiles
  <2>2. \A e \in Decl : Known(e)' = Known(e) /\ Enables(e)' = Enables(e)
    BY <1>1, <2>1 DEF Known, Enables
  <2>3. emit' = { declarations'[d] : d \in { e \in Decl : Known(e)' /\ Enables(e)' } }
    BY <2>1, <2>2
  <2> QED
    BY <1>1, <1>2, <2>1, <2>3 DEF AtEnd
<1>5. CASE Visiting /\ ~EndVisitor
  <2>1. phase' \in {"traverse", "terminated"}
    BY <1>5 DEF Next, vars, Visiting, Allocate, EnterContext, Terminate, SkipPart,
       VisitPart, EnableDeclarationsInFiles
  <2> QED
    BY <2>1 DEF AtEnd
<1>6. CASE UNCHANGED vars
  <2>1. UNCHANGED << prog, phase, visitors, declarations, emit >>
    BY <1>6 DEF vars
  <2>2. \A e \in Decl : Known(e)' = Known(e) /\ Enables(e)' = Enables(e)
    BY <1>1, <2>1 DEF Known, Enables
  <2> QED
    BY <1>1, <1>2, <2>1, <2>2 DEF AtEnd
<1> QED
  BY <1>3, <1>4, <1>5, <1>6 DEF Next, Allocate, EnterContext, Terminate, SkipPart,
     VisitPart

LEMMA WalkInit == Init => Walk
<1> SUFFICES ASSUME Init PROVE Walk
  OBVIOUS
<1>1. TypeOK
  BY InitType
<1>2. PICK v : v = NewVisitor(Unit, FALSE)
  BY DEF NewVisitor
<1>3. /\ v \in Visitor /\ v.decl = Unit /\ ~v.entered /\ v.next = 0
      /\ visitors = << v >> /\ Unit \in Decl
  BY <1>2, TraversalAssumption DEF Init, NewVisitor, Visitor
<1>4. Len(visitors) = 1 /\ visitors[1] = v
  BY <1>3
<1>5. v \in Fitting /\ v \in UpToDate
  <2>1. Len(Parts(v.decl)) \in Nat
    BY <1>1, <1>3, ProgramFacts
  <2> QED
    BY <1>3, <2>1 DEF Fitting, UpToDate, Fits
<1>6. Stacked
  BY <1>3, <1>4, <1>5 DEF Stacked
<1>7. Justified /\ Accounted /\ AtEnd
  BY DEF Init, Justified, Accounted, AtEnd, Known
<1> QED
  BY <1>6, <1>7 DEF Walk

LEMMA WalkStep == TypeOK /\ Walk /\ [Next]_vars => Walk'
BY StackedStep, JustifiedStep, AccountedStep, AtEndStep DEF Walk

(***************************************************************************)
(* A root declaration that has an object is free when the traversal is     *)
(* over, whether it is in a linkage specification or not, whether it was   *)
(* visited as a root or met before.                                        *)
(***************************************************************************)
THEOREM RootsAreFreeCorrect == Spec => []RootsAreFree
<1>1. TypeOK /\ Walk => RootsAreFree
  <2> SUFFICES ASSUME TypeOK, Walk, phase \in {"enable", "done"},
                      NEW d \in Decl, Root(d), Known(d)
               PROVE  declarations[d] \in free
    BY DEF RootsAreFree
  <2>1. KindOf(d) \notin Context
    BY DEF Walk, Justified, Context, NotAllocated
  <2>2. Unit \in Decl /\ \A e \in Decl : DOMAIN Parts(e) = 1 .. Len(Parts(e))
    BY ProgramFacts, TraversalAssumption
  <2>3. \A i \in 1 .. Len(Parts(Unit)) :
          Deep(Parts(Unit)[i]) /\ Parts(Unit)[i] \in Decl
    BY <2>2, ProgramFacts DEF Walk, AtEnd
  <2>4. Settled(d)
    BY <2>2, <2>3 DEF Root, Deep
  <2> QED
    BY <2>1, <2>4 DEF Settled
<1> QED
  BY <1>1, InitType, NextType, WalkInit, WalkStep, PTL DEF Spec

\* What was met has an object, as the traversal is through.
LEMMA MetIsKnown ==
  ASSUME TypeOK, Walk, phase \in {"enable", "done"}, NEW e \in Decl, Met(e),
         KindOf(e) \notin NotAllocated
  PROVE  Known(e)
<1>1. PICK v \in visited : \E i \in DOMAIN Parts(v) : Parts(v)[i] = e
  BY DEF Met
<1>2. v \in Decl /\ DOMAIN Parts(v) = 1 .. Len(Parts(v))
  BY <1>1, ProgramFacts DEF TypeOK
<1>3. ~AtWork(v)
  <2>1. Len(visitors) = 0
    BY DEF Walk, AtEnd
  <2> QED
    BY <2>1 DEF AtWork
<1>4. Walked(v)
  BY <1>1, <1>3 DEF Walk, Accounted
<1> QED
  BY <1>1, <1>2, <1>4 DEF Walked, Found, Context, NotAllocated

(***************************************************************************)
(* An object is to be emitted exactly if a file on the command line        *)
(* declares the entity, or defines it if it is a type, by a declaration    *)
(* that the traversal met or that is the canonical one.                    *)
(***************************************************************************)
THEOREM EmittedWhereDefinedCorrect == Spec => []EmittedWhereDefined
<1>1. TypeOK /\ OneObject /\ Walk => EmittedWhereDefined
  <2> SUFFICES ASSUME TypeOK, OneObject, Walk, phase = "done", NEW d \in Decl, Known(d)
               PROVE  declarations[d] \in emit <=>
                        \E e \in prog.inFiles \ prog.implicit :
                          /\ Canonical(e) = Canonical(d)
                          /\ Met(e) \/ e = Canonical(d)
                          /\ KindOf(e) \in Tags => e \in prog.defined
    BY DEF EmittedWhereDefined
  <2>1. emit = { declarations[e] : e \in { e \in Decl : Known(e) /\ Enables(e) } }
    BY DEF Walk, AtEnd
  <2>2. prog.inFiles \subseteq Decl
    BY TraversalAssumption DEF TypeOK, WellFormed, Program
  <2>3. \A e \in Decl : KindOf(Canonical(e)) = KindOf(e)
    BY TraversalAssumption DEF TypeOK, WellFormed, KindOf, Canonical
  <2>4. ASSUME NEW e \in Decl, Known(e), Enables(e), declarations[e] = declarations[d]
        PROVE  /\ Canonical(e) = Canonical(d) /\ (Met(e) \/ e = Canonical(d))
               /\ e \in prog.inFiles \ prog.implicit
               /\ KindOf(e) \in Tags => e \in prog.defined
    <3>1. Canonical(e) = Canonical(d)
      BY <2>4 DEF OneObject
    <3>2. PICK v \in visited : e = v \/ e = Canonical(v)
      BY <2>4 DEF Walk, Justified
    <3>3. CASE e = v
      <4>1. e # Unit
        BY <2>4, TraversalAssumption
           DEF Walk, Justified, NotAllocated, TypeOK, WellFormed, KindOf
      <4> QED
        BY <2>4, <3>1, <3>2, <3>3, <4>1 DEF Walk, Accounted, Enables
    <3>4. CASE e = Canonical(v)
      <4>1. Canonical(e) = e
        BY <3>2, <3>4, ProgramFacts DEF TypeOK
      <4> QED
        BY <2>4, <3>1, <4>1 DEF Enables
    <3> QED
      BY <3>2, <3>3, <3>4
  <2>5. ASSUME NEW e \in prog.inFiles \ prog.implicit,
               Canonical(e) = Canonical(d), Met(e) \/ e = Canonical(d),
               KindOf(e) \in Tags => e \in prog.defined
        PROVE  Known(e) /\ Enables(e) /\ declarations[e] = declarations[d]
    <3>1. e \in Decl /\ KindOf(e) \notin NotAllocated
      BY <2>2, <2>3, <2>5 DEF Walk, Justified
    <3>2. Known(e)
      BY <2>5, <3>1, MetIsKnown DEF OneObject, Known
    <3> QED
      BY <2>5, <3>1, <3>2 DEF OneObject, Enables
  <2> QED
    BY <2>1, <2>2, <2>4, <2>5
<1> QED
  BY <1>1, InitType, NextType, WalkInit, WalkStep, OneObjectCorrect, PTL DEF Spec

-----------------------------------------------------------------------------
\* What stands in a declaration is one of its parts.
LEMMA StandsInParts ==
  ASSUME TypeOK, NEW x \in Decl, NEW c \in Decl
  PROVE  StandsIn(prog, x, c) <=> \E i \in 1 .. Len(Parts(c)) : Parts(c)[i] = x
<1>1. Parts(c) \in Seq(Decl) /\ DOMAIN Parts(c) = 1 .. Len(Parts(c))
  BY ProgramFacts
<1>2. CASE KindOf(c) = "Unwrappable"
  <2>1. Len(Parts(c)) = 0
    BY <1>2 DEF Parts
  <2> QED
    BY <1>2, <2>1 DEF StandsIn, KindOf
<1>3. CASE KindOf(c) # "Unwrappable"
  BY <1>1, <1>3 DEF StandsIn, Parts, KindOf
<1> QED
  BY <1>2, <1>3

LEMMA PlaceFacts ==
  ASSUME TypeOK
  PROVE  OnePlace(prog) /\ InOrderOfSource(prog) /\ DefinitionsReached(prog)
BY TraversalAssumption DEF TypeOK, WellFormed

LEMMA SameKind ==
  ASSUME TypeOK, NEW d \in Decl
  PROVE  KindOf(Canonical(d)) = KindOf(d)
BY TraversalAssumption DEF TypeOK, WellFormed, KindOf, Canonical

LEMMA LineFacts ==
  ASSUME TypeOK, NEW d \in Decl
  PROVE  prog.line[d] \in Nat /\ prog.end[d] \in Nat
BY TraversalAssumption DEF TypeOK, WellFormed, Program

\* A visitor of something is called by the visitor of what it stands in.
LEMMA CallerFacts ==
  ASSUME TypeOK, Stacked, NEW k \in 1 .. (Len(visitors) - 1)
  PROVE  /\ k \in 1 .. Len(visitors) /\ k + 1 \in 1 .. Len(visitors)
         /\ visitors[k] \in Visitor /\ visitors[k + 1] \in Visitor
         /\ visitors[k].decl \in Decl /\ visitors[k + 1].decl \in Decl
         /\ visitors[k + 1].decl # Unit
         /\ Fits(visitors[k]) /\ visitors[k].entered
         /\ visitors[k].next \in 1 .. Len(Parts(visitors[k].decl))
         /\ visitors[k + 1].decl = Parts(visitors[k].decl)[visitors[k].next]
         /\ StandsIn(prog, visitors[k + 1].decl, visitors[k].decl)
<1>1. visitors \in Seq(Visitor) /\ Len(visitors) \in Nat
  BY DEF TypeOK
<1>2. k \in 1 .. Len(visitors) /\ k + 1 \in 1 .. Len(visitors)
  BY <1>1
<1>3. PICK v, w : v = visitors[k] /\ w = visitors[k + 1]
  OBVIOUS
<1>4. v \in Visitor /\ w \in Visitor /\ Fits(v) /\ WaitsFor(v, w)
  BY <1>1, <1>2, <1>3 DEF Stacked, Fitting, Waiting
<1>5. v.decl \in Decl /\ w.decl \in Decl /\ v.next \in Nat
  BY <1>4 DEF Visitor
<1>6. Parts(v.decl) \in Seq(Decl) /\ Len(Parts(v.decl)) \in Nat
  BY <1>5, ProgramFacts
<1>7. /\ v.entered /\ v.next \in 1 .. Len(Parts(v.decl))
      /\ w.decl = Parts(v.decl)[v.next]
  BY <1>4, <1>5, <1>6 DEF Fits, WaitsFor
<1>8. StandsIn(prog, w.decl, v.decl)
  BY <1>5, <1>7, StandsInParts
<1>9. w.decl # Unit
  BY <1>5, <1>8, TraversalAssumption DEF TypeOK, WellFormed, StandsIn
<1> QED
  BY <1>2, <1>3, <1>4, <1>5, <1>7, <1>8, <1>9

-----------------------------------------------------------------------------
(***************************************************************************)
(* Where the visitors on the stack are in the source.  Those that wait for *)
(* the visitor of a scope are visitors of scopes; what they are at stands  *)
(* before the end of each of these; and no visitor waits for one of its    *)
(* own declaration.                                                        *)
(***************************************************************************)
At(k) == visitors[k].decl

Outside(k, m) ==
  /\ KindOf(At(m)) \in Scopes => KindOf(At(k)) \in Scopes
  /\ 1 < k /\ KindOf(At(m - 1)) \in Scopes =>
       /\ prog.line[At(m)] <= prog.end[At(k)]
       /\ KindOf(At(m)) \in Nested => prog.end[At(m)] <= prog.end[At(k)]
  /\ KindOf(At(k)) \notin Scopes => At(k) # At(m)

Layered == \A m \in 1 .. Len(visitors) : \A k \in 1 .. (m - 1) : Outside(k, m)

LEMMA ScopeFacts ==
  ASSUME TypeOK, NEW x \in Decl, NEW c \in Decl, StandsIn(prog, x, c)
  PROVE  /\ KindOf(x) \in Scopes => KindOf(c) \in Scopes
         /\ KindOf(c) \in Scopes /\ c # Unit =>
              /\ prog.line[x] # 0 => prog.line[c] < prog.line[x]
              /\ prog.line[x] <= prog.end[c]
              /\ KindOf(x) \in Nested => prog.end[x] <= prog.end[c]
         /\ KindOf(c) \in Scopes /\ KindOf(x) \in Nested => prog.line[x] # 0
         /\ x # Unit
<1>1. x # Unit
  BY TraversalAssumption DEF TypeOK, WellFormed, StandsIn
<1>2. KindOf(x) \in Scopes => KindOf(x) \in Nested
  BY <1>1, TraversalAssumption DEF TypeOK, WellFormed, KindOf, Scopes, Nested
<1>3. PICK i \in DOMAIN prog.parts[c] : x = prog.parts[c][i]
  BY DEF StandsIn
<1> QED
  BY <1>1, <1>2, <1>3, PlaceFacts DEF OnePlace, InOrderOfSource, KindOf

LEMMA SiblingOrder ==
  ASSUME TypeOK, NEW c \in Decl, KindOf(c) \in Scopes,
         NEW i \in 1 .. Len(Parts(c)), NEW j \in 1 .. Len(Parts(c)), i < j,
         HasOrder(prog, Parts(c)[j])
  PROVE  /\ prog.line[Parts(c)[i]] < prog.line[Parts(c)[j]]
         /\ KindOf(Parts(c)[i]) \in Nested =>
              prog.end[Parts(c)[i]] < prog.line[Parts(c)[j]]
<1>1. Parts(c) = prog.parts[c] /\ DOMAIN Parts(c) = 1 .. Len(Parts(c))
  BY ProgramFacts DEF Parts, KindOf, Scopes, Nested
<1>2. i \in DOMAIN prog.parts[c] /\ j \in DOMAIN prog.parts[c]
  BY <1>1
<1>3. InOrderOfSource(prog) /\ prog.kind[c] \in Scopes
  BY PlaceFacts DEF KindOf
<1> QED
  BY <1>1, <1>2, <1>3 DEF InOrderOfSource, KindOf

\* The declarations of the stack change by one at the end.
LEMMA PathStep ==
  ASSUME TypeOK, Stacked, [Next]_vars, NEW k \in 1 .. Len(visitors')
  PROVE  \/ k \in 1 .. Len(visitors) /\ At(k)' = At(k)
         \/ /\ VisitPart /\ k = Len(visitors) + 1 /\ At(k)' = Part
            /\ Part \in Decl /\ ~Known(Part) /\ StandsIn(prog, Part, Cur.decl)
<1>0. Len(visitors) \in Nat /\ Len(visitors') \in Nat
  BY NextType DEF TypeOK
<1>1. CASE UNCHANGED visitors
  BY <1>1 DEF At
<1>2. CASE Allocate \/ EnterContext \/ SkipPart
  <2>1. Visiting
    BY <1>2 DEF Allocate, EnterContext, SkipPart
  <2>2. PICK x \in Visitor : visitors' = Append(Callers, x) /\ x.decl = Cur.decl
    <3>1. /\ CurDone \in Visitor /\ CurDone.decl = Cur.decl
          /\ [Cur EXCEPT !.entered = TRUE] \in Visitor
          /\ [Cur EXCEPT !.entered = TRUE].decl = Cur.decl
      BY <2>1, VisitorFacts DEF CurDone, Visitor
    <3> QED
      BY <1>2, <3>1 DEF Allocate, EnterContext, SkipPart
  <2>3. /\ Len(visitors') = Len(visitors) /\ visitors'[Len(visitors)] = x
        /\ \A j \in 1 .. (Len(visitors) - 1) : visitors'[j] = visitors[j]
        /\ Cur = visitors[Len(visitors)]
    BY <2>1, <2>2, StackShapes
  <2>4. k \in 1 .. (Len(visitors) - 1) \/ k = Len(visitors)
    BY <1>0, <2>3
  <2> QED
    BY <2>2, <2>3, <2>4 DEF At
<1>3. CASE VisitPart
  <2>1. PICK x, y : x = CurDone /\ y = NewVisitor(Part, TraversesTop(Cur, Part))
    OBVIOUS
  <2>2. /\ Visiting /\ x \in Visitor /\ x.decl = Cur.decl /\ Part \in Decl
        /\ x.next \in 1 .. Len(Parts(x.decl)) /\ Part = Parts(x.decl)[x.next]
    BY <1>3, <2>1, OnePartFurther
  <2>3. y \in Visitor /\ y.decl = Part
    <3>1. TraversesTop(Cur, Part) \in BOOLEAN
      BY <2>2, VisitorFacts DEF TraversesTop, RegistersTop, Visitor
    <3> QED
      BY <2>1, <2>2, <3>1 DEF NewVisitor, Visitor
  <2>4. /\ Len(visitors') = Len(visitors) + 1
        /\ visitors'[Len(visitors)] = x /\ visitors'[Len(visitors) + 1] = y
        /\ \A j \in 1 .. (Len(visitors) - 1) : visitors'[j] = visitors[j]
        /\ Cur = visitors[Len(visitors)] /\ Len(visitors) > 0
    BY <1>3, <2>1, <2>2, <2>3, StackShapes DEF VisitPart
  <2>5. k \in 1 .. (Len(visitors) - 1) \/ k = Len(visitors) \/ k = Len(visitors) + 1
    BY <1>0, <2>4
  <2>6. ~Known(Part) /\ StandsIn(prog, Part, Cur.decl)
    <3>1. Cur.decl \in Decl
      BY <2>2, VisitorFacts
    <3> QED
      BY <1>3, <2>2, <3>1, StandsInParts DEF VisitPart, TraversedBefore
  <2> QED
    BY <1>0, <1>3, <2>2, <2>3, <2>4, <2>5, <2>6 DEF At
<1>4. CASE EndVisitor
  <2>1. /\ Len(visitors') = Len(visitors) - 1
        /\ \A j \in 1 .. (Len(visitors) - 1) : visitors'[j] = visitors[j]
    BY <1>4, StackShapes DEF EndVisitor
  <2>2. k \in 1 .. (Len(visitors) - 1) /\ k \in 1 .. Len(visitors)
    BY <1>0, <2>1
  <2> QED
    BY <2>1, <2>2 DEF At
<1> QED
  BY <1>1, <1>2, <1>3, <1>4 DEF Next, vars, Terminate, EnableDeclarationsInFiles

-----------------------------------------------------------------------------
LEMMA LayeredStep == TypeOK /\ Stacked /\ Layered /\ [Next]_vars => Layered'
<1> SUFFICES ASSUME TypeOK, Stacked, Layered, [Next]_vars,
                    NEW m \in 1 .. Len(visitors'), NEW k \in 1 .. (m - 1)
             PROVE  Outside(k, m)'
  BY DEF Layered
<1>0. /\ Len(visitors) \in Nat /\ Len(visitors') \in Nat
      /\ \A d : KindOf(d)' = KindOf(d) /\ prog' = prog
  BY NextType, Grows DEF TypeOK, KindOf
<1>1. k \in 1 .. Len(visitors') /\ (1 < k => m - 1 \in 1 .. Len(visitors'))
  BY <1>0
<1>2. CASE m \in 1 .. Len(visitors)
  <2>1. \A j \in 1 .. m : At(j)' = At(j)
    <3> TAKE j \in 1 .. m
    <3>1. j \in 1 .. Len(visitors') /\ j # Len(visitors) + 1
      BY <1>0, <1>2
    <3> QED
      BY <3>1, PathStep
  <2>2. k \in 1 .. m /\ m \in 1 .. m /\ (1 < k => m - 1 \in 1 .. m)
    BY <1>0, <1>2
  <2>3. At(k)' = At(k) /\ At(m)' = At(m) /\ (1 < k => At(m - 1)' = At(m - 1))
    BY <2>1, <2>2
  <2>4. Outside(k, m)
    BY <1>2 DEF Layered
  <2> QED
    BY <1>0, <2>3, <2>4 DEF Outside
<1>3. CASE m \notin 1 .. Len(visitors)
  <2>0. PICK n \in Nat : n = Len(visitors)
    BY <1>0
  <2>1. /\ m = n + 1 /\ At(m)' = Part /\ VisitPart
        /\ Part \in Decl /\ ~Known(Part) /\ StandsIn(prog, Part, Cur.decl)
    BY <1>3, <2>0, PathStep
  <2>2. Visiting /\ Cur.entered /\ n \in Nat \ {0} /\ Cur = visitors[n]
    BY <2>0, <2>1, StackShapes DEF VisitPart
  <2>3. At(n) = Cur.decl /\ At(n) \in Decl
    BY <2>2, VisitorFacts DEF At
  <2>4. k \in 1 .. n /\ m - 1 = n /\ At(k)' = At(k) /\ At(n)' = At(n)
    <3>1. k \in 1 .. n /\ m - 1 = n /\ n \in 1 .. n
      BY <2>1, <2>2, <1>0
    <3>2. \A j \in 1 .. n : At(j)' = At(j)
      <4> TAKE j \in 1 .. n
      <4>1. j \in 1 .. Len(visitors') /\ j # n + 1
        BY <2>0, <2>1, <2>2, <1>0
      <4> QED
        BY <2>0, <4>1, PathStep
    <3> QED
      BY <3>1, <3>2
  <2>5. Known(At(k)) \/ KindOf(At(k)) \in Context
    <3>1. CASE k = n
      BY <2>2, <2>3, <3>1, EnteredFacts
    <3>2. CASE k # n
      <4>1. k \in 1 .. (n - 1)
        BY <2>2, <2>4, <3>2
      <4> QED
        BY <2>0, <4>1, CallerFacts DEF At, Fits
    <3> QED
      BY <3>1, <3>2
  <2>6. /\ KindOf(Part) \in Scopes => KindOf(At(n)) \in Scopes
        /\ KindOf(At(n)) \in Scopes /\ At(n) # Unit =>
             /\ prog.line[Part] <= prog.end[At(n)]
             /\ KindOf(Part) \in Nested => prog.end[Part] <= prog.end[At(n)]
    BY <2>1, <2>3, ScopeFacts
  <2>7. KindOf(At(k)) \notin Scopes => At(k) # Part
    BY <2>1, <2>5 DEF Context, Scopes, Nested
  <2>8. k # n => Outside(k, n)
    <3>1. k # n => n \in 1 .. n /\ k \in 1 .. (n - 1)
      BY <2>2, <2>4
    <3> QED
      BY <2>0, <3>1 DEF Layered
  <2>9. KindOf(Part) \in Scopes => KindOf(At(k)) \in Scopes
    BY <2>6, <2>8 DEF Outside
  <2>10. ASSUME 1 < k, KindOf(At(n)) \in Scopes
         PROVE  /\ prog.line[Part] <= prog.end[At(k)]
                /\ KindOf(Part) \in Nested => prog.end[Part] <= prog.end[At(k)]
    <3>1. n - 1 \in 1 .. (n - 1) /\ (n - 1) + 1 = n
      BY <2>2, <2>4, <2>10
    <3>2. /\ At(n) # Unit /\ At(n - 1) \in Decl
          /\ StandsIn(prog, At(n), At(n - 1))
      BY <2>0, <3>1, CallerFacts DEF At
    <3>3. /\ prog.line[Part] <= prog.end[At(n)]
          /\ KindOf(Part) \in Nested => prog.end[Part] <= prog.end[At(n)]
      BY <2>6, <2>10, <3>2
    <3>4. CASE k = n
      BY <3>3, <3>4
    <3>5. CASE k # n
      <4>1. KindOf(At(n - 1)) \in Scopes
        BY <2>3, <2>10, <3>2, ScopeFacts
      <4>2. KindOf(At(n)) \in Nested
        BY <2>3, <2>10, <3>2, TraversalAssumption
           DEF TypeOK, WellFormed, KindOf, Scopes, Nested
      <4>3. prog.end[At(n)] <= prog.end[At(k)]
        BY <2>8, <2>10, <3>5, <4>1, <4>2 DEF Outside
      <4>4. /\ prog.end[At(n)] \in Nat /\ prog.end[At(k)] \in Nat
            /\ prog.line[Part] \in Nat /\ prog.end[Part] \in Nat
        <5>1. k \in 1 .. (n - 1)
          BY <2>2, <2>4, <3>5
        <5>2. At(k) \in Decl
          BY <2>0, <5>1, CallerFacts DEF At
        <5> QED
          BY <2>1, <2>3, <5>2, LineFacts
      <4> QED
        BY <3>3, <4>3, <4>4
    <3> QED
      BY <3>4, <3>5
  <2>11. At(m - 1)' = At(n) /\ At(m)' = Part /\ At(k)' = At(k)
    BY <2>1, <2>4
  <2> QED
    BY <1>0, <2>7, <2>9, <2>10, <2>11 DEF Outside
<1> QED
  BY <1>2, <1>3

-----------------------------------------------------------------------------
(***************************************************************************)
(* A first declaration that is met is visited, and not only entered in the *)
(* table on behalf of another one: the definition of a class or a class    *)
(* template, and a namespace.                                              *)
(***************************************************************************)
Leading(x) ==
  /\ x = Canonical(x)
  /\ \/ x \in prog.defined /\ KindOf(x) \in {"Record", "RecordTemplate"}
     \/ KindOf(x) = "Namespace" /\ InScope(prog, x)

Reached == \A x \in Decl : Known(x) /\ Leading(x) => x \in visited

LEMMA ScopeVisited ==
  ASSUME TypeOK, Justified, Reached, NEW h \in Decl,
         KindOf(h) \in Nested, InScope(prog, h), Found(h)
  PROVE  h \in visited
<1>1. CASE KindOf(h) = "LinkageSpec"
  BY <1>1 DEF Found, Justified, NotAllocated
<1>2. CASE KindOf(h) = "Namespace"
  <2>1. Known(h)
    BY <1>2 DEF Found, Context
  <2>2. CASE h = Canonical(h)
    BY <1>2, <2>1, <2>2 DEF Reached, Leading
  <2>3. CASE h # Canonical(h)
    <3>1. PICK v \in visited : h = v \/ h = Canonical(v)
      BY <2>1 DEF Justified
    <3>2. v \in Decl
      BY <3>1 DEF TypeOK
    <3> QED
      BY <2>3, <3>1, <3>2, ProgramFacts
  <2> QED
    BY <2>2, <2>3
<1> QED
  BY <1>1, <1>2 DEF Nested

(***************************************************************************)
(* A visitor of something in a scope begins: what stands in a scope and    *)
(* before it has been dealt with.  Were there anything that has not, take  *)
(* the first: the scope that it stands in comes before it, and so has been *)
(* visited.  If all of that was walked through, it was dealt with, too; if *)
(* a visitor is at work in it, then in a part that comes later.            *)
(***************************************************************************)
LEMMA FoundBefore ==
  ASSUME TypeOK, Walk, Layered, Reached, Visiting, ~Cur.entered,
         Len(visitors) > 1, KindOf(At(Len(visitors) - 1)) \in Scopes,
         NEW x0 \in Decl, HasOrder(prog, x0), InScope(prog, x0),
         prog.line[x0] < prog.line[Cur.decl]
  PROVE  Found(x0)
<1>1. PICK n \in Nat \ {0}, y \in Decl :
        n = Len(visitors) /\ y = Cur.decl /\ Cur = visitors[n] /\ At(n) = y
  BY StackShapes, VisitorFacts DEF At
<1> DEFINE Missed(x) == /\ HasOrder(prog, x) /\ InScope(prog, x)
                        /\ prog.line[x] < prog.line[y] /\ ~Found(x)
           Lines == { prog.line[x] : x \in { x \in Decl : Missed(x) } }
<1>2. SUFFICES ASSUME Missed(x0) PROVE FALSE
  BY <1>1
<1>3. PICK x \in Decl : Missed(x) /\ \A z \in Decl : Missed(z) => prog.line[x] <= prog.line[z]
  <2>1. Lines \subseteq Nat /\ Lines # {}
    BY <1>2, LineFacts
  <2>2. PICK l \in Lines : \A m \in Lines : l <= m
    <3> HIDE DEF Lines
    <3> QED
      BY <2>1, Least
  <2> QED
    BY <2>2
<1>4. /\ HasOrder(prog, x) /\ InScope(prog, x) /\ ~Found(x)
      /\ prog.line[x] < prog.line[y]
      /\ prog.line[x] # 0 /\ prog.line[x] \in Nat /\ prog.line[y] \in Nat
  BY <1>3, LineFacts DEF HasOrder
<1>5. PICK h \in Decl : KindOf(h) \in Scopes /\ StandsIn(prog, x, h)
  BY <1>4 DEF InScope, KindOf
<1>6. PICK j \in 1 .. Len(Parts(h)) : Parts(h)[j] = x
  BY <1>5, StandsInParts
<1>7. n > 1 /\ n - 1 \in 1 .. (n - 1)
  BY <1>1
<1>8. h \in visited
  <2>1. CASE h = Unit
    <3>1. 1 \in 1 .. (n - 1) /\ visitors[1].decl = Unit
      BY <1>1 DEF Walk, Stacked
    <3> QED
      BY <1>1, <2>1, <3>1, CallerFacts DEF Fits, Walk
  <2>2. CASE h # Unit
    <3>1. KindOf(h) \in Nested
      BY <1>5, <2>2, TraversalAssumption DEF TypeOK, WellFormed, KindOf, Scopes, Nested
    <3>2. prog.parts[h] # << >>
      BY <1>5 DEF StandsIn
    <3>3. InScope(prog, h)
      BY <3>1, <3>2, PlaceFacts DEF OnePlace, KindOf
    <3>4. prog.line[h] # 0
      BY <3>1, <3>3, ScopeFacts DEF InScope, KindOf
    <3>5. prog.line[h] < prog.line[x] /\ prog.line[h] \in Nat
      BY <1>4, <1>5, <2>2, ScopeFacts, LineFacts
    <3>6. Found(h)
      BY <1>3, <1>4, <3>1, <3>3, <3>4, <3>5 DEF HasOrder, KindOf
    <3> QED
      BY <3>1, <3>3, <3>6, ScopeVisited DEF Walk
  <2> QED
    BY <2>1, <2>2
<1>9. AtWork(h)
  BY <1>4, <1>6, <1>8 DEF Walk, Accounted, Walked
<1>10. PICK k \in 1 .. (n - 1) : At(k) = h
  <2>1. PICK k \in 1 .. n : visitors[k].decl = h /\ visitors[k].entered
    BY <1>1, <1>9 DEF AtWork
  <2>2. k # n
    BY <1>1, <2>1
  <2> QED
    BY <2>1, <2>2 DEF At
<1>11. /\ visitors[k].next \in 1 .. Len(Parts(h)) /\ k + 1 \in 1 .. n
       /\ At(k + 1) = Parts(h)[visitors[k].next] /\ At(k + 1) \in Decl
       /\ \A i \in 1 .. (visitors[k].next - 1) : Found(Parts(h)[i])
       /\ visitors[k].next \in Nat /\ Len(Parts(h)) \in Nat
  <2>1. /\ visitors[k].next \in 1 .. Len(Parts(h)) /\ k + 1 \in 1 .. n
        /\ At(k + 1) = Parts(h)[visitors[k].next] /\ At(k + 1) \in Decl
        /\ Fits(visitors[k])
    BY <1>1, <1>10, CallerFacts DEF At, Walk
  <2>2. Len(Parts(h)) \in Nat
    BY ProgramFacts
  <2> QED
    BY <1>10, <2>1, <2>2 DEF Fits, Handled, At
<1>12. CASE k + 1 = n
  <2>1. j # visitors[k].next
    BY <1>1, <1>4, <1>6, <1>11, <1>12
  <2>2. visitors[k].next < j
    <3>1. ~(j \in 1 .. (visitors[k].next - 1))
      BY <1>4, <1>6, <1>11
    <3> QED
      BY <1>6, <1>11, <2>1, <3>1
  <2>3. prog.line[y] < prog.line[x]
    BY <1>1, <1>4, <1>5, <1>6, <1>11, <1>12, <2>2, SiblingOrder
  <2> QED
    BY <1>4, <2>3
<1>13. CASE k + 1 # n
  <2>1. k + 1 \in 1 .. (n - 1)
    BY <1>1, <1>11, <1>13
  <2>2. Found(At(k + 1))
    BY <1>1, <2>1, CallerFacts DEF At, Fits, Found, Walk
  <2>3. visitors[k].next < j
    <3>1. ~(j \in 1 .. (visitors[k].next - 1)) /\ j # visitors[k].next
      BY <1>4, <1>6, <1>11, <2>2
    <3> QED
      BY <1>6, <1>11, <3>1
  <2>4. KindOf(At(k + 1)) \in Nested /\ KindOf(At(n - 1)) \in Scopes
    <3>1. KindOf(At(n - 1)) \in Scopes
      BY <1>1
    <3>2. k + 1 = n - 1 \/ (n - 1 \in 1 .. n /\ k + 1 \in 1 .. ((n - 1) - 1))
      BY <1>1, <2>1
    <3>3. KindOf(At(k + 1)) \in Scopes
      BY <1>1, <3>1, <3>2 DEF Layered, Outside
    <3>4. At(k + 1) # Unit
      BY <1>1, <1>10, CallerFacts DEF At, Walk
    <3> QED
      BY <1>11, <3>1, <3>3, <3>4, TraversalAssumption
         DEF TypeOK, WellFormed, KindOf, Scopes, Nested
  <2>5. prog.line[y] <= prog.end[At(k + 1)]
    <3>1. 1 < k + 1 /\ k + 1 \in 1 .. (n - 1) /\ n \in 1 .. n
      BY <1>1, <1>10, <2>1
    <3> QED
      BY <1>1, <2>4, <3>1 DEF Layered, Outside
  <2>6. prog.end[At(k + 1)] < prog.line[x]
    BY <1>4, <1>5, <1>6, <1>11, <2>3, <2>4, SiblingOrder
  <2>7. prog.end[At(k + 1)] \in Nat
    BY <1>11, LineFacts
  <2> QED
    BY <1>4, <2>5, <2>6, <2>7
<1> QED
  BY <1>12, <1>13

(***************************************************************************)
(* No template is met again inside itself.                                 *)
(***************************************************************************)
LEMMA NotInItself ==
  ASSUME TypeOK, Walk, Layered,
         NEW m \in 2 .. Len(visitors), NEW k \in 1 .. (m - 1),
         KindOf(At(k)) = "RecordTemplate", At(k) \in prog.defined,
         At(k) = Canonical(At(k)), Canonical(At(m)) = At(k)
  PROVE  FALSE
<1>1. PICK n \in Nat : n = Len(visitors)
  BY DEF TypeOK
<1>2. PICK c \in Decl, d \in Decl, e \in Decl :
        /\ c = At(k) /\ d = At(m) /\ e = At(m - 1) /\ StandsIn(prog, d, e)
  <2>1. /\ m - 1 \in 1 .. (n - 1) /\ k \in 1 .. (n - 1) /\ (m - 1) + 1 = m
    BY <1>1
  <2> QED
    BY <1>1, <2>1, CallerFacts DEF At, Walk
<1>3. KindOf(c) = "RecordTemplate" /\ KindOf(d) = "RecordTemplate" /\ c = prog.canonical[d]
      /\ c = prog.canonical[c] /\ c \in prog.defined
  BY <1>2, TraversalAssumption DEF TypeOK, WellFormed, KindOf, Canonical
<1>4. c # d
  <2>1. m \in 1 .. Len(visitors)
    BY <1>1
  <2> QED
    BY <1>2, <1>3, <2>1 DEF Layered, Outside, Scopes, Nested
<1>5. KindOf(e) \notin Scopes
  <2>1. k = m - 1 \/ (m - 1 \in 1 .. Len(visitors) /\ k \in 1 .. ((m - 1) - 1))
    BY <1>1
  <2> QED
    BY <1>2, <1>3, <2>1 DEF Layered, Outside, Scopes, Nested
<1>6. StandsIn(prog, c, e)
  <2>1. DefinedWithin(prog, c, d, e)
    BY <1>2, <1>3, <1>4, PlaceFacts DEF DefinitionsReached, Redeclares, KindOf
  <2> QED
    BY <1>3, <1>5, <2>1 DEF DefinedWithin, KindOf
<1>7. k > 1
  <2>1. c # Unit
    BY <1>2, <1>6, TraversalAssumption DEF TypeOK, WellFormed, StandsIn
  <2>2. Len(visitors) > 0 => At(1) = Unit
    BY DEF Walk, Stacked, At
  <2> QED
    BY <1>1, <1>2, <2>1, <2>2
<1>8. At(k - 1) = e
  <2>1. k - 1 \in 1 .. (n - 1) /\ (k - 1) + 1 = k
    BY <1>1, <1>7
  <2>2. StandsIn(prog, c, At(k - 1)) /\ At(k - 1) \in Decl
    BY <1>1, <1>2, <2>1, CallerFacts DEF At, Walk
  <2> QED
    BY <1>3, <1>6, <2>2, PlaceFacts DEF OnePlace, KindOf
<1>9. m - 1 \in 1 .. Len(visitors) /\ k - 1 \in 1 .. ((m - 1) - 1)
  BY <1>1, <1>7
<1> QED
  BY <1>2, <1>5, <1>8, <1>9 DEF Layered, Outside

\* Nothing is met before the first declaration of it that Leading speaks of.
LEMMA FirstIsFound ==
  ASSUME TypeOK, OneObject, Walk, Layered, Reached, Visiting, ~Cur.entered,
         NEW x \in Decl, x = Canonical(Cur.decl), x # Cur.decl, Leading(x)
  PROVE  Known(x)
<1>1. PICK n \in Nat \ {0}, y \in Decl :
        n = Len(visitors) /\ y = Cur.decl /\ Cur = visitors[n] /\ At(n) = y
  BY StackShapes, VisitorFacts DEF At
<1>2. /\ KindOf(x) = KindOf(y) /\ KindOf(x) \in {"Record", "RecordTemplate", "Namespace"}
      /\ Redeclares(prog, x, y) /\ prog.canonical[x] = x
  BY <1>1, TraversalAssumption DEF TypeOK, WellFormed, KindOf, Canonical, Leading, Redeclares
<1>3. n > 1
  <2>1. KindOf(y) # "TranslationUnit"
    BY <1>2
  <2>2. y # Unit
    BY <2>1, TraversalAssumption DEF TypeOK, WellFormed, KindOf
  <2>3. visitors[1].decl = Unit
    BY <1>1 DEF Walk, Stacked
  <2> QED
    BY <1>1, <2>2, <2>3
<1>4. PICK d \in Decl : d = At(n - 1) /\ StandsIn(prog, y, d)
  <2>1. n - 1 \in 1 .. (n - 1) /\ (n - 1) + 1 = n
    BY <1>1, <1>3
  <2> QED
    BY <1>1, <2>1, CallerFacts DEF At, Walk
<1>5. Found(x) => Known(x)
  BY <1>2 DEF Found, Context
<1>6. ASSUME KindOf(d) \in Scopes, InScope(prog, x), prog.line[x] \in 1 .. (prog.line[y] - 1),
             HasOrder(prog, x)
      PROVE  Known(x)
  <2>1. prog.line[x] < prog.line[y]
    BY <1>6, LineFacts
  <2> QED
    BY <1>1, <1>3, <1>4, <1>5, <1>6, <2>1, FoundBefore
<1>7. CASE KindOf(x) = "Namespace"
  <2>1. InScope(prog, x) /\ KindOf(d) \in Scopes
    BY <1>2, <1>4, <1>7, PlaceFacts DEF Leading, OnePlace, KindOf, Nested
  <2>2. prog.line[x] \in 1 .. (prog.line[y] - 1)
    BY <1>2, <1>4, <1>7, <2>1, PlaceFacts DEF DefinitionsReached, KindOf
  <2>3. HasOrder(prog, x)
    BY <1>7, <2>2, LineFacts DEF HasOrder, KindOf, Nested
  <2> QED
    BY <1>6, <2>1, <2>2, <2>3
<1>8. CASE KindOf(x) # "Namespace"
  <2>1. x \in prog.defined /\ KindOf(x) \in {"Record", "RecordTemplate"}
    BY <1>8 DEF Leading
  <2>2. DefinedWithin(prog, x, y, d)
    BY <1>2, <1>4, <2>1, PlaceFacts DEF DefinitionsReached, KindOf
  <2>3. PICK c \in Decl :
          /\ StandsIn(prog, x, c)
          /\ \/ /\ KindOf(c) \in Scopes /\ KindOf(d) \in Scopes
                /\ prog.line[x] \in 1 .. (prog.line[y] - 1)
             \/ /\ c = d
                /\ \A j \in DOMAIN prog.parts[d] : prog.parts[d][j] = y =>
                      \E i \in 1 .. (j - 1) : prog.parts[d][i] = x
             \/ /\ KindOf(c) = "RecordTemplate" /\ c \in prog.defined
                /\ c # d /\ prog.canonical[c] = prog.canonical[d] /\ prog.canonical[c] = c
    BY <1>2, <2>2 DEF DefinedWithin, KindOf
  <2>4. CASE KindOf(c) \in Scopes /\ KindOf(d) \in Scopes
             /\ prog.line[x] \in 1 .. (prog.line[y] - 1)
    <3>1. InScope(prog, x)
      BY <2>3, <2>4 DEF InScope, KindOf
    <3>2. HasOrder(prog, x)
      BY <2>1, <2>4, LineFacts DEF HasOrder, KindOf
    <3> QED
      BY <1>6, <2>4, <3>1, <3>2
  <2>5. CASE \A j \in DOMAIN prog.parts[d] : prog.parts[d][j] = y =>
               \E i \in 1 .. (j - 1) : prog.parts[d][i] = x
    <3>1. PICK v \in Visitor, j \in 1 .. Len(Parts(d)) :
            /\ v.decl = d /\ v.next = j /\ Fits(v) /\ Parts(d)[j] = y
      <4>1. n - 1 \in 1 .. (n - 1) /\ (n - 1) + 1 = n
        BY <1>1, <1>3
      <4> QED
        BY <1>1, <1>4, <4>1, CallerFacts DEF At, Walk
    <3>2. Parts(d) = prog.parts[d] /\ DOMAIN Parts(d) = 1 .. Len(Parts(d))
      BY <1>4, ProgramFacts DEF Parts, StandsIn, KindOf
    <3>3. PICK i \in 1 .. (j - 1) : Parts(d)[i] = x
      BY <2>5, <3>1, <3>2
    <3> QED
      BY <1>5, <3>1, <3>3 DEF Fits, Handled
  <2>6. CASE /\ KindOf(c) = "RecordTemplate" /\ c \in prog.defined
             /\ c # d /\ prog.canonical[c] = prog.canonical[d] /\ prog.canonical[c] = c
    <3>1. Canonical(d) = c /\ Canonical(c) = c /\ KindOf(d) = "RecordTemplate"
      BY <2>6, SameKind DEF Canonical
    <3>2. Known(d)
      <4>1. n - 1 \in 1 .. (n - 1) /\ (n - 1) + 1 = n
        BY <1>1, <1>3
      <4> QED
        BY <1>1, <1>4, <3>1, <4>1, CallerFacts DEF At, Walk, Fits, Context
    <3>3. Known(c)
      BY <3>1, <3>2 DEF OneObject, Known
    <3>4. c \in visited
      BY <2>6, <3>1, <3>3 DEF Reached, Leading
    <3>5. ~AtWork(c)
      <4>1. SUFFICES ASSUME NEW k \in 1 .. n, At(k) = c, visitors[k].entered
                     PROVE  FALSE
        BY <1>1 DEF AtWork, At
      <4>2. k \in 1 .. ((n - 1) - 1) /\ n - 1 \in 2 .. n
        <5>1. k # n /\ k # n - 1
          BY <1>1, <1>4, <2>6, <4>1
        <5> QED
          BY <5>1
      <4> QED
        BY <1>1, <1>4, <2>6, <3>1, <4>1, <4>2, NotInItself
    <3>6. Walked(c)
      BY <3>4, <3>5 DEF Walk, Accounted
    <3> QED
      BY <1>5, <2>3, <3>6, StandsInParts DEF Walked
  <2> QED
    BY <2>3, <2>4, <2>5, <2>6
<1> QED
  BY <1>7, <1>8

LEMMA ReachedStep ==
  TypeOK /\ OneObject /\ Walk /\ Layered /\ Reached /\ [Next]_vars => Reached'
<1> SUFFICES ASSUME TypeOK, OneObject, Walk, Layered, Reached, [Next]_vars,
                    NEW x \in Decl, Known(x)', Leading(x)'
             PROVE  x \in visited'
  BY DEF Reached
<1>1. Leading(x) /\ visited \subseteq visited'
  BY Grows DEF Leading, KindOf, Canonical
<1>2. CASE Known(x)
  BY <1>1, <1>2 DEF Reached
<1>3. CASE ~Known(x)
  <2>1. Allocate
    BY <1>3 DEF Next, vars, EnterContext, Terminate, SkipPart, VisitPart, EndVisitor,
       EnableDeclarationsInFiles, Known
  <2>2. x = Cur.decl \/ x = Canonical(Cur.decl)
    BY <1>3, <2>1 DEF Allocate, Entered, Known
  <2>3. x = Cur.decl
    BY <1>1, <1>3, <2>1, <2>2, FirstIsFound DEF Allocate
  <2> QED
    BY <2>1, <2>3 DEF Allocate
<1> QED
  BY <1>2, <1>3

-----------------------------------------------------------------------------
(***************************************************************************)
(* The objects: what one was made from has been visited, what was visited  *)
(* has one, and the parameters of a template that was visited are in the   *)
(* list of the object.                                                     *)
(***************************************************************************)
Listed(v) == \E i \in 1 .. Len(lists[declarations[v]]) : lists[declarations[v]][i] = v

Made ==
  /\ \A d \in Decl : Known(d) => declarations[d] \in visited
  /\ \A v \in visited : KindOf(v) \notin Context => Known(v)
  /\ \A v \in visited : KindOf(v) \in Templates => Listed(v)

LEMMA MadeStep == TypeOK /\ OneObject /\ Made /\ [Next]_vars => Made'
<1> SUFFICES ASSUME TypeOK, OneObject, Made, [Next]_vars
             PROVE  Made'
  OBVIOUS
<1>1. /\ \A d : KindOf(d)' = KindOf(d) /\ Canonical(d)' = Canonical(d)
      /\ \A d \in Decl : Known(d) => declarations'[d] = declarations[d]
      /\ visited \subseteq visited' /\ visited \subseteq Decl
  BY Grows DEF KindOf, Canonical, TypeOK
<1>2. CASE Allocate
  <2>1. PICK y \in Decl, o \in Decl :
          /\ y = Cur.decl /\ o = ObjectFor(y) /\ KindOf(y) \notin NotAllocated
          /\ declarations' = Entered(y) /\ visited' = visited \cup {y}
          /\ lists' = IF KindOf(y) \in Templates
                        THEN [lists EXCEPT ![o] = Append(@, y)] ELSE lists
    BY <1>2, VisitorFacts, ObjectFacts DEF Allocate
  <2>2. o # NoDecl /\ o \in visited'
    <3>1. CASE Known(Canonical(y))
      <4>1. Canonical(y) \in Decl
        BY ProgramFacts
      <4> QED
        BY <2>1, <3>1, <4>1, ObjectFacts DEF Made, ObjectFor
    <3>2. CASE ~Known(Canonical(y))
      BY <2>1, <3>2, ObjectFacts DEF ObjectFor
    <3> QED
      BY <3>1, <3>2
  <2>3. declarations'[y] = o
    <3>1. Known(y) => declarations[y] = o
      BY <2>1 DEF OneObject, ObjectFor, Known
    <3> QED
      BY <2>1, <3>1 DEF Entered
  <2>4. \A d \in Decl : declarations'[d] = declarations[d] \/ declarations'[d] = o
    BY <2>1 DEF Entered
  <2>5. \A d \in Decl : Known(d)' => declarations'[d] \in visited'
    <3> SUFFICES ASSUME NEW d \in Decl, Known(d)'
                 PROVE  declarations'[d] \in visited'
      OBVIOUS
    <3>1. CASE declarations'[d] = declarations[d]
      BY <1>1, <3>1 DEF Made, Known
    <3> QED
      BY <2>2, <2>4, <3>1
  <2>6. \A v \in visited' : KindOf(v) \notin Context => Known(v)'
    BY <1>1, <2>1, <2>2, <2>3 DEF Made, Known
  <2>7. ASSUME NEW v \in visited', KindOf(v) \in Templates
        PROVE  Listed(v)'
    <3>1. lists \in [Decl -> Seq(Decl)]
      BY DEF TypeOK
    <3>2. CASE v = y
      <4>1. lists'[o] = Append(lists[o], y) /\ lists[o] \in Seq(Decl)
        BY <2>1, <2>7, <3>1, <3>2
      <4>2. /\ Len(Append(lists[o], y)) \in 1 .. Len(Append(lists[o], y))
            /\ Append(lists[o], y)[Len(Append(lists[o], y))] = y
        BY <4>1
      <4> QED
        BY <2>3, <3>2, <4>1, <4>2 DEF Listed
    <3>3. CASE v # y
      <4>1. v \in visited /\ v \in Decl /\ Known(v)
        BY <1>1, <2>1, <2>7, <3>3 DEF Made, Templates, Context
      <4>2. PICK p \in Decl : p = declarations[v] /\ \E i \in 1 .. Len(lists[p]) : lists[p][i] = v
        BY <2>7, <4>1, ObjectFacts DEF Made, Listed
      <4> PICK i \in 1 .. Len(lists[p]) : lists[p][i] = v
        BY <4>2
      <4>3. lists[p] \in Seq(Decl) /\ lists'[p] \in {lists[p], Append(lists[p], y)}
        BY <2>1, <3>1
      <4>4. i \in 1 .. Len(lists'[p]) /\ lists'[p][i] = v
        <5>1. /\ i \in 1 .. Len(Append(lists[p], y))
              /\ Append(lists[p], y)[i] = lists[p][i]
          BY <2>1, <4>2, <4>3
        <5> QED
          BY <4>2, <4>3, <5>1
      <4>5. declarations'[v] = p
        BY <1>1, <4>1, <4>2
      <4> QED
        BY <4>4, <4>5 DEF Listed
    <3> QED
      BY <3>2, <3>3
  <2> QED
    BY <1>1, <2>5, <2>6, <2>7 DEF Made
<1>3. CASE ~Allocate
  <2>1. /\ UNCHANGED << declarations, lists >>
        /\ visited' = visited \/ (EnterContext /\ visited' = visited \cup {Cur.decl})
    BY <1>3 DEF Next, vars, EnterContext, Terminate, SkipPart, VisitPart, EndVisitor,
       EnableDeclarationsInFiles
  <2>2. \A v \in visited' : v \in visited \/ KindOf(v) \in Context
    BY <2>1 DEF EnterContext, Context
  <2>3. \A v : Listed(v)' = Listed(v) /\ Known(v)' = Known(v)
    BY <2>1 DEF Listed, Known
  <2>4. Context \cap Templates = {}
    BY DEF Context, Templates
  <2> QED
    BY <1>1, <2>1, <2>2, <2>3, <2>4 DEF Made
<1> QED
  BY <1>2, <1>3

-----------------------------------------------------------------------------
Through == phase \in {"enable", "done"}

WalkInv == TypeOK /\ OneObject /\ Walk /\ Layered /\ Reached /\ Made

LEMMA WalkInvInit == Init => WalkInv
<1> SUFFICES ASSUME Init PROVE WalkInv
  OBVIOUS
<1>1. TypeOK /\ Walk
  BY InitType, WalkInit
<1>2. OneObject /\ Reached /\ Made
  BY DEF Init, OneObject, Reached, Made, Known
<1>3. Layered
  <2>1. Len(visitors) = 1
    BY DEF Init
  <2> QED
    BY <2>1 DEF Layered
<1> QED
  BY <1>1, <1>2, <1>3 DEF WalkInv

LEMMA WalkInvStep == WalkInv /\ [Next]_vars => WalkInv'
BY NextType, NextOneObject, WalkStep, LayeredStep, ReachedStep, MadeStep DEF WalkInv, Walk

\* When the traversal is over, what was visited has been walked through.
LEMMA AllWalked ==
  ASSUME WalkInv, Through, NEW v \in visited, NEW x \in Decl, StandsIn(prog, x, v)
  PROVE  Found(x)
<1>1. ~AtWork(v)
  <2>1. Len(visitors) = 0
    BY DEF WalkInv, Walk, AtEnd, Through
  <2> QED
    BY <2>1 DEF AtWork
<1>2. v \in Decl /\ Walked(v)
  BY <1>1 DEF WalkInv, Walk, Accounted, TypeOK
<1> QED
  BY <1>2, StandsInParts DEF Walked, WalkInv

\* Every scope has been visited then: the first that was not stands in one
\* that was, and that one has been walked through.
LEMMA AllScopesVisited ==
  ASSUME WalkInv, Through, NEW c0 \in Decl, KindOf(c0) \in Scopes, prog.parts[c0] # << >>
  PROVE  c0 \in visited
<1> USE DEF WalkInv
<1> DEFINE Missed(c) == KindOf(c) \in Scopes /\ prog.parts[c] # << >> /\ c \notin visited
           Lines == { prog.line[c] : c \in { c \in Decl : Missed(c) } }
<1>1. SUFFICES ASSUME Missed(c0) PROVE FALSE
  OBVIOUS
<1>2. PICK c \in Decl : Missed(c) /\ \A z \in Decl : Missed(z) => prog.line[c] <= prog.line[z]
  <2>1. Lines \subseteq Nat /\ Lines # {}
    BY <1>1, LineFacts
  <2>2. PICK l \in Lines : \A m \in Lines : l <= m
    <3> HIDE DEF Lines
    <3> QED
      BY <2>1, Least
  <2> QED
    BY <2>2
<1>3. Unit \in visited
  BY DEF Walk, AtEnd, Through
<1>4. KindOf(c) \in Nested /\ InScope(prog, c)
  <2>1. KindOf(c) \in Nested
    BY <1>2, <1>3, TraversalAssumption DEF TypeOK, WellFormed, KindOf, Scopes, Nested
  <2> QED
    BY <1>2, <2>1, PlaceFacts DEF OnePlace, KindOf
<1>5. PICK h \in Decl : KindOf(h) \in Scopes /\ StandsIn(prog, c, h)
  BY <1>4 DEF InScope, KindOf
<1>6. h \in visited
  <2>1. CASE h = Unit
    BY <1>3, <2>1
  <2>2. CASE h # Unit
    <3>1. prog.line[h] < prog.line[c]
      BY <1>4, <1>5, <2>2, ScopeFacts
    <3>2. prog.parts[h] # << >>
      BY <1>5 DEF StandsIn
    <3>3. prog.line[h] \in Nat /\ prog.line[c] \in Nat
      BY LineFacts
    <3> QED
      BY <1>2, <1>5, <3>1, <3>2, <3>3
  <2> QED
    BY <2>1, <2>2
<1>7. c \in visited
  BY <1>4, <1>5, <1>6, AllWalked, ScopeVisited DEF Walk
<1> QED
  BY <1>2, <1>7

\* What stands in a scope has an object then.
LEMMA InScopeFound ==
  ASSUME WalkInv, Through, NEW x \in Decl, InScope(prog, x)
  PROVE  Found(x)
<1>1. PICK c \in Decl : KindOf(c) \in Scopes /\ StandsIn(prog, x, c)
  BY DEF InScope, KindOf
<1>2. prog.parts[c] # << >>
  BY <1>1 DEF StandsIn
<1> QED
  BY <1>1, <1>2, AllScopesVisited, AllWalked

\* A definition that has an object is visited, unless it is the first
\* declaration of a specialization.
LEMMA KnownIsVisited ==
  ASSUME WalkInv, NEW e \in Decl, Known(e),
         e = Canonical(e) => e \in prog.defined /\ KindOf(e) \in {"Record", "RecordTemplate"}
  PROVE  e \in visited
<1> USE DEF WalkInv
<1>1. CASE e = Canonical(e)
  BY <1>1 DEF Reached, Leading
<1>2. CASE e # Canonical(e)
  <2>1. PICK v \in visited : e = v \/ e = Canonical(v)
    BY DEF Walk, Justified
  <2>2. v \in Decl
    BY <2>1 DEF TypeOK
  <2> QED
    BY <1>2, <2>1, <2>2, ProgramFacts
<1> QED
  BY <1>1, <1>2

(***************************************************************************)
(* The definition of a class or class template has been visited if another *)
(* declaration of it has: it stands in a scope, or where that one does, or *)
(* it is the class of a template, whose definition has been visited.       *)
(***************************************************************************)
LEMMA DefinitionVisited ==
  ASSUME WalkInv, Through, NEW o \in visited, NEW e \in Decl, Defines(e, o),
         KindOf(o) \in {"Record", "RecordTemplate"}
  PROVE  e \in visited
<1> USE DEF WalkInv
<1>1. ASSUME NEW x \in visited, NEW z \in Decl, Defines(z, x),
             KindOf(x) \in {"Record", "RecordTemplate"},
             KindOf(x) = "Record" =>
               \A v \in visited, c \in Decl :
                 KindOf(v) = "RecordTemplate" /\ Defines(c, v) => c \in visited
      PROVE  z \in visited
  <2>1. SUFFICES ASSUME z # x PROVE z \in visited
    OBVIOUS
  <2>2. x \in Decl /\ KindOf(z) = KindOf(x) /\ z \in prog.defined /\ Redeclares(prog, z, x)
    <3>1. x \in Decl
      BY DEF TypeOK
    <3> QED
      BY <1>1, <2>1, <3>1, SameKind DEF Defines, Redeclares, Canonical
  <2>3. PICK v \in visited : v \in Decl /\ StandsIn(prog, x, v)
    <3>1. x # Unit
      BY <1>1, TraversalAssumption DEF TypeOK, WellFormed, KindOf
    <3>2. PICK v \in visited : \E i \in DOMAIN Parts(v) : Parts(v)[i] = x
      BY <3>1 DEF Walk, Accounted, Met
    <3>3. v \in Decl /\ DOMAIN Parts(v) = 1 .. Len(Parts(v))
      BY ProgramFacts DEF TypeOK
    <3> QED
      BY <2>2, <3>2, <3>3, StandsInParts
  <2>4. DefinedWithin(prog, z, x, v)
    BY <1>1, <2>2, <2>3, PlaceFacts DEF DefinitionsReached, KindOf
  <2>5. PICK c \in Decl :
          /\ StandsIn(prog, z, c)
          /\ \/ KindOf(c) \in Scopes
             \/ c = v
             \/ /\ KindOf(z) = "Record" /\ KindOf(c) = "RecordTemplate"
                /\ Defines(c, v)
    BY <2>4 DEF DefinedWithin, Defines, KindOf, Canonical
  <2>6. Found(z)
    <3>1. CASE KindOf(c) \in Scopes
      BY <2>5, <3>1, InScopeFound DEF InScope, KindOf
    <3>2. CASE c = v
      BY <2>3, <2>5, <3>2, AllWalked
    <3>3. CASE KindOf(z) = "Record" /\ KindOf(c) = "RecordTemplate" /\ Defines(c, v)
      <4>1. KindOf(v) = "RecordTemplate"
        BY <2>3, <3>3, SameKind DEF Defines
      <4>2. c \in visited
        BY <1>1, <2>2, <2>3, <3>3, <4>1
      <4> QED
        BY <2>5, <4>2, AllWalked
    <3> QED
      BY <2>5, <3>1, <3>2, <3>3
  <2>7. Known(z)
    BY <1>1, <2>2, <2>6 DEF Found, Context
  <2> QED
    BY <1>1, <2>2, <2>7, KnownIsVisited
<1>2. \A v \in visited, c \in Decl :
        KindOf(v) = "RecordTemplate" /\ Defines(c, v) => c \in visited
  BY <1>1
<1> QED
  BY <1>1, <1>2

(***************************************************************************)
(* When the traversal is over, whatever the translation reads of an object *)
(* has been visited, of a namespace every declaration that opens it again, *)
(* and the parameters of a template are found in the list of that          *)
(* declaration, for all syntax trees; a specialization that is declared    *)
(* again after its definition apart.                                       *)
(***************************************************************************)
THEOREM ContentsKnownCorrect == Spec => []ContentsKnown
<1>1. WalkInv => ContentsKnown
  <2> SUFFICES ASSUME WalkInv, Through, NEW d \in Decl, Known(d), ~Shadowed(declarations[d])
               PROVE  LET o == declarations[d]
                      IN  /\ Reads(o) \in visited
                          /\ KindOf(o) \in Templates =>
                               \E i \in DOMAIN lists[o] : lists[o][i] = Reads(o)
                          /\ KindOf(o) = "Namespace" =>
                               \A e \in Decl :
                                 Canonical(e) = Canonical(o) /\ prog.parts[e] # << >>
                                 => e \in visited
    BY DEF ContentsKnown, Through
  <2> USE DEF WalkInv
  <2>1. PICK o \in Decl : o = declarations[d]
    BY ObjectFacts
  <2>2. o \in visited /\ declarations[o] = o /\ ~Shadowed(o)
    BY <2>1 DEF Made, OneObject
  <2>3. PICK r : r = Reads(o)
    OBVIOUS
  <2>4. r = o \/ (r \in Decl /\ Defines(r, o)
                  /\ KindOf(o) \in {"Record", "SpecializedRecord", "RecordTemplate"})
    BY <2>3 DEF Reads
  <2>5. r \in visited
    <3>1. CASE r = o
      BY <2>2, <3>1
    <3>2. CASE KindOf(o) \in {"Record", "RecordTemplate"}
      BY <2>2, <2>4, <3>2, DefinitionVisited
    <3>3. CASE KindOf(o) = "SpecializedRecord" /\ r # o
      <4>1. Redeclares(prog, r, o) /\ r \in prog.defined /\ KindOf(r) = "SpecializedRecord"
        BY <2>4, <3>3, SameKind DEF Defines, Redeclares, Canonical
      <4>2. PICK v \in visited : v \in Decl /\ StandsIn(prog, o, v)
        <5>1. o # Unit
          BY <3>3, TraversalAssumption DEF TypeOK, WellFormed, KindOf
        <5>2. PICK v \in visited : \E i \in DOMAIN Parts(v) : Parts(v)[i] = o
          BY <2>2, <5>1 DEF Walk, Accounted, Met
        <5>3. v \in Decl /\ DOMAIN Parts(v) = 1 .. Len(Parts(v))
          BY ProgramFacts DEF TypeOK
        <5> QED
          BY <5>2, <5>3, StandsInParts
      <4>3. InScope(prog, r)
        BY <2>4, <4>1, <4>2, PlaceFacts DEF DefinitionsReached, KindOf
      <4>4. Known(r)
        BY <2>4, <3>3, <4>1, <4>3, InScopeFound DEF Found, Context
      <4>5. r # Canonical(r)
        BY <2>2, <2>4, <3>3, <4>1 DEF Shadowed, Defines
      <4> QED
        BY <2>4, <3>3, <4>4, <4>5, KnownIsVisited
    <3> QED
      BY <2>4, <3>1, <3>2, <3>3
  <2>6. ASSUME KindOf(o) \in Templates
        PROVE  \E i \in DOMAIN lists[o] : lists[o][i] = r
    <3>1. r \in Decl /\ Canonical(r) = Canonical(o)
      BY <2>4 DEF Defines
    <3>2. KindOf(r) \in Templates
      BY <2>6, <3>1, SameKind
    <3>3. Listed(r) /\ Known(r)
      BY <2>5, <3>2 DEF Made, Templates, Context
    <3>4. declarations[r] = o
      <4>1. Known(o)
        BY <2>1, <2>2 DEF Known
      <4> QED
        BY <2>2, <3>1, <3>3, <4>1 DEF OneObject
    <3>5. lists[o] \in Seq(Decl)
      BY DEF TypeOK
    <3> QED
      BY <3>3, <3>4, <3>5 DEF Listed
  <2>7. ASSUME KindOf(o) = "Namespace", NEW e \in Decl,
               Canonical(e) = Canonical(o), prog.parts[e] # << >>
        PROVE  e \in visited
    BY <2>7, SameKind, AllScopesVisited DEF Scopes, Nested
  <2> QED
    BY <2>1, <2>3, <2>5, <2>6, <2>7
<1> QED
  BY <1>1, WalkInvInit, WalkInvStep, PTL DEF Spec
=============================================================================
