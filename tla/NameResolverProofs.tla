-------------------------- MODULE NameResolverProofs --------------------------
(***************************************************************************)
(* Proofs about NameResolver, for all graphs, names and depths of the      *)
(* stack: its type invariant, that what is found is what C++ finds, and    *)
(* that only a class that inherits from itself exhausts the stack.         *)
(***************************************************************************)
EXTENDS NameResolver, Induction, SequenceTheorems, FiniteSetTheorems, TLAPS

-----------------------------------------------------------------------------
(***************************************************************************)
(* What clang guarantees of a graph, node by node.                         *)
(***************************************************************************)
Leads(t) ==
  program.kind[t] \in Sugar \cup {"TemplateSpecializationType", "ClassTemplateDecl"}

IsRecord(t) == program.kind[t] = "CXXRecordDecl"

IsType(t) == program.kind[t] \in Types

LEMMA KindFacts ==
  ASSUME program \in Programs, NEW n \in Node
  PROVE  /\ program.kind[n] \in Kind
         /\ program.target[n] \in Node \cup {NoNode}
         /\ program.special[n] \in Node \cup {NoNode}
         /\ program.bases[n] \in Seq(Node)
         /\ \A x \in Name : program.members[n][x] \in Seq(Node)
         /\ Leads(n) \/ program.kind[n] \in TypeDecls \cup LooksThrough =>
              program.target[n] \in Node
         /\ program.target[n] # NoNode =>
              program.kind[program.target[n]] \in TargetKinds(program.kind[n])
         /\ program.special[n] # NoNode =>
              /\ program.kind[n] = "TemplateSpecializationType"
              /\ program.kind[program.target[n]] = "ClassTemplateDecl"
              /\ IsRecord(program.special[n])
         /\ \A i \in DOMAIN program.bases[n] :
              program.bases[n][i] \in Node /\ IsType(program.bases[n][i])
<1>1. WellFormed(program) /\ program \in Program
  BY NameResolverAssumption
<1>2. /\ program.kind \in [Node -> Kind]
      /\ program.target \in [Node -> Node \cup {NoNode}]
      /\ program.special \in [Node -> Node \cup {NoNode}]
      /\ program.members \in [Node -> [Name -> Seq(Node)]]
      /\ program.bases \in [Node -> Seq(Node)]
  BY <1>1 DEF Program
<1>3. /\ program.kind[n] \in Kind
      /\ program.target[n] \in Node \cup {NoNode}
      /\ program.special[n] \in Node \cup {NoNode}
      /\ program.bases[n] \in Seq(Node)
      /\ \A x \in Name : program.members[n][x] \in Seq(Node)
  BY <1>2
<1>4. Leads(n) \/ program.kind[n] \in TypeDecls \cup LooksThrough =>
        program.target[n] # NoNode
  BY <1>1 DEF WellFormed, Leads, LooksThrough
<1>5. program.target[n] # NoNode =>
        program.kind[program.target[n]] \in TargetKinds(program.kind[n])
  BY <1>1 DEF WellFormed
<1>6. program.special[n] # NoNode =>
        /\ program.kind[n] = "TemplateSpecializationType"
        /\ program.kind[program.target[n]] = "ClassTemplateDecl"
        /\ IsRecord(program.special[n])
  BY <1>1 DEF WellFormed, IsRecord
<1>7. \A i \in DOMAIN program.bases[n] :
        program.bases[n][i] \in Node /\ IsType(program.bases[n][i])
  BY <1>1, <1>3 DEF WellFormed, IsType
<1> QED
  BY <1>3, <1>4, <1>5, <1>6, <1>7

\* The resolver at work and the node it is at.
LEMMA TopFacts ==
  ASSUME TypeOK, resolvers # << >>
  PROVE  /\ Top \in Resolver
         /\ Len(resolvers) \in 1 .. Len(resolvers)
<1>1. resolvers \in Seq(Resolver)
  BY DEF TypeOK
<1>2. Len(resolvers) \in 1 .. Len(resolvers)
  BY <1>1
<1> QED
  BY <1>1, <1>2 DEF Top

LEMMA HereFacts ==
  ASSUME TypeOK, resolvers # << >>, Top.todo # << >>
  PROVE  /\ Here \in Node
         /\ Current.depth \in 0 .. MaxDepth
         /\ Tail(Top.todo) \in Seq(Item)
<1>1. Top.todo \in Seq(Item)
  BY TopFacts DEF Resolver
<1>2. Current \in Item
  BY <1>1 DEF Current
<1>3. Tail(Top.todo) \in Seq(Item)
  BY <1>1
<1> QED
  BY <1>2, <1>3 DEF Here, Item

\* The nodes that take the place of the current one.
LEMMA GoOnFacts ==
  ASSUME TypeOK, resolvers # << >>, Top.todo # << >>, HasRoom,
         NEW nodes \in Seq(Node)
  PROVE  GoOnWith(nodes) \in Resolver
<1>1. Current.depth + 1 \in 0 .. MaxDepth
  BY HereFacts, NameResolverAssumption DEF HasRoom
<1>2. Deeper(nodes) \in Seq(Item)
  <2>1. Len(nodes) \in Nat /\ DOMAIN nodes = 1 .. Len(nodes)
    BY DEF Deeper
  <2>2. \A i \in 1 .. Len(nodes) :
          [node |-> nodes[i], depth |-> Current.depth + 1] \in Item
    BY <1>1, <2>1 DEF Item
  <2> QED
    BY <2>1, <2>2, IsASeq DEF Deeper
<1>3. Deeper(nodes) \o Tail(Top.todo) \in Seq(Item)
  BY <1>2, HereFacts, ConcatProperties
<1> QED
  BY <1>3, TopFacts DEF GoOnWith, Resolver

LEMMA ResultFacts ==
  ASSUME TypeOK, resolvers # << >>, Top.todo # << >>,
         NEW result \in Node \cup {NoNode}
  PROVE  Result(result) \in Resolver
<1>1. CASE result = NoNode
  <2>1. Result(result) = [Top EXCEPT !.result = result, !.todo = Tail(Top.todo)]
    BY <1>1 DEF Result
  <2> QED
    BY <2>1, TopFacts, HereFacts DEF Resolver
<1>2. CASE result # NoNode
  <2>1. Result(result) = [Top EXCEPT !.result = result, !.todo = << >>]
    BY <1>2 DEF Result
  <2>2. << >> \in Seq(Item)
    BY EmptySeq
  <2> QED
    BY <2>1, <2>2, TopFacts DEF Resolver
<1> QED
  BY <1>1, <1>2

\* A step that only changes the resolver at work.
LEMMA SetTopTypes ==
  ASSUME TypeOK, resolvers # << >>, NEW r \in Resolver, SetTop(r)
  PROVE  TypeOK'
<1>1. resolvers \in Seq(Resolver)
  BY DEF TypeOK
<1>2. resolvers' \in Seq(Resolver)
  BY <1>1, ExceptSeq DEF SetTop
<1> QED
  BY <1>2 DEF SetTop, TypeOK

\* The end of a call.
LEMMA FinishTypes ==
  ASSUME TypeOK, NEW how \in Outcome, NEW result \in Node \cup {NoNode},
         Finish(how, result)
  PROVE  TypeOK'
BY DEF Finish, TypeOK

\* A new resolver for the name that is next.
LEMMA NewResolverFacts ==
  ASSUME NEW name \in Name, NEW node \in Node, NEW depth \in 0 .. MaxDepth
  PROVE  NewResolver(name, node, depth) \in Resolver
<1>1. [node |-> node, depth |-> depth] \in Item
  BY DEF Item
<1>2. << [node |-> node, depth |-> depth] >> \in Seq(Item)
  BY <1>1
<1> QED
  BY <1>2 DEF NewResolver, Resolver

LEMMA StartTypes ==
  ASSUME TypeOK, Start
  PROVE  TypeOK'
<1>1. query.names \in Seq(Name) /\ query.names # << >> /\ query.container \in Node
  BY DEF TypeOK, Query
<1>2. Head(query.names) \in Name /\ Tail(query.names) \in Seq(Name)
  BY <1>1
<1>3. 1 \in 0 .. MaxDepth
  BY NameResolverAssumption
<1>4. NewResolver(Head(query.names), query.container, 1) \in Resolver
  BY <1>1, <1>2, <1>3, NewResolverFacts
<1>5. resolvers' \in Seq(Resolver) /\ path' \in Seq(Name)
  BY <1>2, <1>4 DEF Start
<1> QED
  BY <1>5 DEF Start, TypeOK

\* What a class has under the name that is looked up.
LEMMA FoundFacts ==
  ASSUME TypeOK, program \in Programs, resolvers # << >>, Top.todo # << >>
  PROVE  /\ Found \in Seq(Node)
         /\ FoundOne => Found[1] \in Node
<1>1. Here \in Node /\ Top.identifier \in Name
  BY HereFacts, TopFacts DEF Resolver
<1>2. Found \in Seq(Node)
  BY <1>1, KindFacts DEF Found
<1>3. FoundOne => Found[1] \in Node
  BY <1>2 DEF FoundOne
<1> QED
  BY <1>2, <1>3

-----------------------------------------------------------------------------
\* A resolver that waits for another one is at the class it found a name in.
Waiting ==
  \A i \in 1 .. Len(resolvers) - 1 : resolvers[i].todo # << >>

\* The graph is given, so it stays one of those to consider.
TypeInv == TypeOK /\ program \in Programs /\ Waiting

\* Most steps leave the resolvers that wait alone, or all of them.
LEMMA SetTopWaits ==
  ASSUME TypeInv, resolvers # << >>, NEW r \in Resolver, SetTop(r)
  PROVE  Waiting'
<1>1. resolvers \in Seq(Resolver)
  BY DEF TypeInv, TypeOK
<1>2. Len(resolvers') = Len(resolvers)
  BY <1>1, ExceptSeq DEF SetTop
<1>3. \A i \in 1 .. Len(resolvers) - 1 : resolvers'[i] = resolvers[i]
  BY <1>1 DEF SetTop
<1> QED
  BY <1>2, <1>3 DEF TypeInv, Waiting

LEMMA SetTopInv ==
  ASSUME TypeInv, resolvers # << >>, NEW r \in Resolver, SetTop(r)
  PROVE  TypeInv'
BY SetTopTypes, SetTopWaits DEF TypeInv, SetTop

LEMMA FinishInv ==
  ASSUME TypeInv, NEW how \in Outcome, NEW result \in Node \cup {NoNode},
         Finish(how, result)
  PROVE  TypeInv'
<1>1. resolvers' = << >> /\ program' = program
  BY DEF Finish
<1>2. Waiting'
  BY <1>1 DEF Waiting
<1> QED
  BY <1>1, <1>2, FinishTypes DEF TypeInv

LEMMA StartInv ==
  ASSUME TypeInv, Start
  PROVE  TypeInv'
<1>1. Len(resolvers') = 1 /\ program' = program
  BY DEF Start
<1>2. Waiting'
  BY <1>1 DEF Waiting
<1> QED
  BY <1>1, <1>2, StartTypes DEF TypeInv

\* A resolver that gets a result from the one it created goes on with it.
LEMMA ReturnIs ==
  ASSUME TypeInv, ReturnToOuter
  PROVE  LET outer == Len(resolvers) - 1
         IN  /\ outer \in Nat \ {0}
             /\ resolvers[outer] \in Resolver /\ resolvers[outer].todo # << >>
             /\ resolvers' \in Seq(Resolver) /\ Len(resolvers') = outer
             /\ \A k \in 1 .. outer : k # outer => resolvers'[k] = resolvers[k]
             /\ resolvers'[outer] \in Resolver
             /\ resolvers'[outer].identifier = resolvers[outer].identifier
             /\ resolvers'[outer].result = Top.result
             /\ resolvers'[outer].todo = IF Top.result = NoNode
                                           THEN Tail(resolvers[outer].todo) ELSE << >>
<1> DEFINE outer == Len(resolvers) - 1
           rest == SubSeq(resolvers, 1, outer)
           todo == IF Top.result = NoNode THEN Tail(rest[outer].todo) ELSE << >>
           back == [rest[outer] EXCEPT !.result = Top.result, !.todo = todo]
<1>1. resolvers \in Seq(Resolver) /\ outer \in Nat \ {0}
  BY DEF ReturnToOuter, TypeInv, TypeOK
<1>2. /\ rest \in Seq(Resolver) /\ Len(rest) = outer
      /\ \A i \in 1 .. outer : rest[i] = resolvers[i]
  <2>1. \A i \in 1 .. outer : resolvers[i] \in Resolver
    BY <1>1
  <2>2. \A i \in 1 .. outer : SubSeq(resolvers, 1, outer)[i] = resolvers[i]
    BY <1>1
  <2> HIDE DEF outer
  <2> QED
    BY <1>1, <2>1, <2>2, SubSeqProperties
<1>3. rest[outer] \in Resolver /\ rest[outer] = resolvers[outer]
  BY <1>1, <1>2
<1>4. rest[outer].todo \in Seq(Item) /\ rest[outer].todo # << >>
  <2>1. resolvers[outer].todo # << >>
    <3>1. \A i \in 1 .. outer : resolvers[i].todo # << >>
      BY DEF TypeInv, Waiting
    <3> HIDE DEF outer
    <3>2. outer \in 1 .. outer
      BY <1>1
    <3> QED
      BY <3>1, <3>2
  <2>2. rest[outer].todo \in Seq(Item)
    BY <1>3 DEF Resolver
  <2> QED
    BY <1>3, <2>1, <2>2
<1>5. todo \in Seq(Item)
  <2>1. Tail(rest[outer].todo) \in Seq(Item)
    BY <1>4, HeadTailProperties
  <2>2. << >> \in Seq(Item)
    BY EmptySeq
  <2> QED
    BY <2>1, <2>2
<1>6. Top.result \in Node \cup {NoNode}
  BY TopFacts DEF ReturnToOuter, Exhausted, Resolver, TypeInv
<1>7. /\ back \in Resolver
      /\ back.identifier = rest[outer].identifier
      /\ back.result = Top.result /\ back.todo = todo
  BY <1>3, <1>5, <1>6 DEF Resolver
<1>8. resolvers' = [rest EXCEPT ![outer] = back]
  BY <1>1, <1>2 DEF ReturnToOuter
<1>9. todo = IF Top.result = NoNode THEN Tail(resolvers[outer].todo) ELSE << >>
  BY <1>3
<1> HIDE DEF rest, back, todo
<1>10. /\ resolvers' \in Seq(Resolver) /\ Len(resolvers') = outer
       /\ resolvers'[outer] = back
       /\ \A k \in 1 .. outer : k # outer => resolvers'[k] = resolvers[k]
  <2> HIDE DEF outer
  <2> QED
    BY <1>1, <1>2, <1>7, <1>8, ExceptSeq
<1> QED
  BY <1>1, <1>3, <1>4, <1>7, <1>9, <1>10

LEMMA NextTypes ==
  ASSUME TypeInv, Next
  PROVE  TypeInv'
<1> USE DEF TypeInv
<1>1. CASE ResolveType
  BY <1>1, StartInv, FinishInv DEF ResolveType, Outcome
<1>2. CASE GetDeclaration
  BY <1>2, StartInv, FinishInv DEF GetDeclaration, Outcome
<1>3. CASE WalkUpFromSugar
  <2>1. program.target[Here] \in Node
    BY <1>3, HereFacts, KindFacts DEF WalkUpFromSugar, At, Leads
  <2>2. << program.target[Here] >> \in Seq(Node)
    BY <2>1
  <2>3. GoOnWith(<< program.target[Here] >>) \in Resolver
    BY <1>3, <2>2, GoOnFacts DEF WalkUpFromSugar, At
  <2> QED
    BY <1>3, <2>3, SetTopInv DEF WalkUpFromSugar, At
<1>4. CASE WalkUpFromTemplateSpecializationType
  <2>1. program.target[Here] \in Node /\ Here \in Node
    BY <1>4, HereFacts, KindFacts DEF WalkUpFromTemplateSpecializationType, At, Leads
  <2>2. << program.target[Here] >> \in Seq(Node)
    BY <2>1
  <2>3. GoOnWith(<< program.target[Here] >>) \in Resolver
    BY <1>4, <2>2, GoOnFacts DEF WalkUpFromTemplateSpecializationType, At
  <2>4. [GoOnWith(<< program.target[Here] >>) EXCEPT !.template_args = Here]
          \in Resolver
    BY <2>1, <2>3 DEF Resolver
  <2> QED
    BY <1>4, <2>4, SetTopInv DEF WalkUpFromTemplateSpecializationType, At
<1>5. CASE WalkUpFromClassTemplateDecl
  <2> DEFINE node == IF Top.template_args # NoNode
                          /\ program.special[Top.template_args] # NoNode
                       THEN program.special[Top.template_args]
                       ELSE program.target[Here]
  <2>1. program.target[Here] \in Node
    BY <1>5, HereFacts, KindFacts DEF WalkUpFromClassTemplateDecl, At, Leads
  <2>2. Top.template_args \in Node \cup {NoNode}
    BY <1>5, TopFacts DEF WalkUpFromClassTemplateDecl, At, Resolver
  <2>3. Top.template_args \in Node =>
          program.special[Top.template_args] \in Node \cup {NoNode}
    BY KindFacts
  <2>4. node \in Node
    BY <2>1, <2>2, <2>3
  <2>5. << node >> \in Seq(Node)
    BY <2>4
  <2>6. GoOnWith(<< node >>) \in Resolver
    BY <1>5, <2>5, GoOnFacts DEF WalkUpFromClassTemplateDecl, At
  <2>7. SetTop(GoOnWith(<< node >>))
    BY <1>5 DEF WalkUpFromClassTemplateDecl
  <2> QED
    BY <1>5, <2>6, <2>7, SetTopInv DEF WalkUpFromClassTemplateDecl, At
<1>6. CASE WalkUpFromUnresolved
  BY <1>6, ResultFacts, SetTopInv DEF WalkUpFromUnresolved, At
<1>7. CASE WalkUpFromOther
  BY <1>7, FinishInv DEF WalkUpFromOther, Outcome
<1>8. CASE LookInBases
  <2>1. program.bases[Here] \in Seq(Node)
    BY <1>8, HereFacts, KindFacts DEF LookInBases, At
  <2>2. GoOnWith(program.bases[Here]) \in Resolver
    BY <1>8, <2>1, GoOnFacts DEF LookInBases, At
  <2> QED
    BY <1>8, <2>2, SetTopInv DEF LookInBases, At
<1>9. CASE FoundSeveral
  BY <1>9, FinishInv DEF FoundSeveral, Outcome
<1>10. CASE NotUnderstood
  BY <1>10, FinishInv DEF NotUnderstood, Outcome
<1>11. CASE FoundResult
  <2>1. Found[1] \in Node
    BY <1>11, FoundFacts DEF FoundResult, FoundOne, At
  <2>2. program.target[Found[1]] \in Node \cup {NoNode}
    BY <2>1, KindFacts
  <2>3. Result(FoundAnswer) \in Resolver
    BY <1>11, <2>1, <2>2, ResultFacts DEF FoundResult, FoundAnswer, FoundOne, At
  <2>4. SetTop(Result(FoundAnswer))
    BY <1>11 DEF FoundResult
  <2> QED
    BY <1>11, <2>3, <2>4, SetTopInv DEF FoundResult, FoundOne, At
<1>12. CASE FollowPath
  <2>1. Found[1] \in Node
    BY <1>12, FoundFacts DEF FollowPath, FoundOne, At
  <2>2. program.target[Found[1]] \in Node
    BY <1>12, <2>1, KindFacts DEF FollowPath, PathGoesOn, FoundKind, TypeDecls
  <2>3. path \in Seq(Name) /\ path # << >>
    BY <1>12 DEF FollowPath, PathGoesOn, TypeOK
  <2>4. Head(path) \in Name /\ Tail(path) \in Seq(Name)
    BY <2>3
  <2>5. Current.depth + 1 \in 0 .. MaxDepth
    BY <1>12, HereFacts, NameResolverAssumption
       DEF FollowPath, FoundOne, At, HasRoom
  <2>6. NewResolver(Head(path), program.target[Found[1]], Current.depth + 1)
          \in Resolver
    BY <2>2, <2>4, <2>5, NewResolverFacts
  <2>7. resolvers' \in Seq(Resolver)
    BY <1>12, <2>6, AppendProperties DEF FollowPath, TypeOK
  <2>8. \A i \in 1 .. Len(resolvers) :
          resolvers'[i] = resolvers[i] /\ resolvers[i].todo # << >>
    <3>1. resolvers \in Seq(Resolver) /\ Top.todo # << >>
      BY <1>12 DEF FollowPath, FoundOne, At, TypeOK
    <3> QED
      BY <1>12, <3>1, <2>6 DEF FollowPath, Waiting, Top
  <2>9. Len(resolvers') - 1 = Len(resolvers)
    BY <1>12, <2>6 DEF FollowPath, TypeOK
  <2> QED
    BY <1>12, <2>4, <2>7, <2>8, <2>9 DEF FollowPath, TypeOK, Waiting
<1>13. CASE ReturnToOuter
  <2>1. /\ resolvers' \in Seq(Resolver)
        /\ Len(resolvers') = Len(resolvers) - 1
        /\ \A k \in 1 .. Len(resolvers) - 1 :
             k # Len(resolvers) - 1 => resolvers'[k] = resolvers[k]
    BY <1>13, ReturnIs
  <2>2. Len(resolvers) \in Nat \ {0}
    BY <1>13 DEF ReturnToOuter, Exhausted, TypeOK
  <2>3. Waiting'
    BY <2>1, <2>2 DEF Waiting
  <2> QED
    BY <1>13, <2>1, <2>3 DEF ReturnToOuter, TypeOK
<1>14. CASE Return
  BY <1>14, TopFacts, FinishInv DEF Return, Exhausted, Resolver, Outcome
<1>15. CASE RunOutOfStack
  BY <1>15, FinishInv DEF RunOutOfStack, Outcome
<1> QED
  BY <1>1, <1>2, <1>3, <1>4, <1>5, <1>6, <1>7, <1>8, <1>9, <1>10, <1>11, <1>12,
     <1>13, <1>14, <1>15 DEF Next, WalkUp

(***************************************************************************)
(* The variables of a lookup keep their types: every node in progress is   *)
(* one of the graph, no resolver lacks a name, and no more calls nest than *)
(* the stack has room for.                                                 *)
(***************************************************************************)
THEOREM TypeCorrect == Spec => []TypeOK
<1>1. Init => TypeInv
  BY NameResolverAssumption DEF Init, TypeInv, TypeOK, Outcome, Waiting
<1>2. TypeInv /\ [Next]_resolverVars => TypeInv'
  <2> SUFFICES ASSUME TypeInv, UNCHANGED resolverVars PROVE TypeInv'
    BY NextTypes
  <2> QED
    BY DEF TypeInv, TypeOK, Waiting, resolverVars
<1>3. TypeInv => TypeOK
  BY DEF TypeInv
<1> QED
  BY <1>1, <1>2, <1>3, PTL DEF Spec

-----------------------------------------------------------------------------
\* What types of each kind stand for.
LEMMA StandsForFacts ==
  ASSUME program \in Programs, NEW t \in Node, Leads(t)
  PROVE  /\ StandsFor(t) \in Node
         /\ program.kind[t] # "TemplateSpecializationType" =>
              StandsFor(t) = program.target[t]
         /\ program.kind[t] \in {"RecordType", "ClassTemplateDecl"} =>
              IsRecord(StandsFor(t))
         /\ program.kind[t] \in {"TypedefType", "ElaboratedType"} => IsType(StandsFor(t))
<1>1. StandsFor(t) \in Node
  BY KindFacts DEF StandsFor
<1>2. program.kind[t] # "TemplateSpecializationType" => StandsFor(t) = program.target[t]
  BY KindFacts DEF StandsFor
<1>3. program.kind[program.target[t]] \in TargetKinds(program.kind[t])
  BY KindFacts, NameResolverAssumption
<1>4. ASSUME program.kind[t] \in {"RecordType", "ClassTemplateDecl"}
      PROVE  IsRecord(StandsFor(t))
  <2>1. TargetKinds(program.kind[t]) = {"CXXRecordDecl"}
    BY <1>4 DEF TargetKinds, TypeDecls
  <2>2. StandsFor(t) = program.target[t]
    BY <1>2, <1>4
  <2> QED
    BY <1>3, <2>1, <2>2 DEF IsRecord
<1>5. ASSUME program.kind[t] \in {"TypedefType", "ElaboratedType"}
      PROVE  IsType(StandsFor(t))
  <2>1. TargetKinds(program.kind[t]) = Types
    BY <1>5 DEF TargetKinds, TypeDecls
  <2>2. StandsFor(t) = program.target[t]
    BY <1>2, <1>5
  <2> QED
    BY <1>3, <2>1, <2>2 DEF IsType
<1> QED
  BY <1>1, <1>2, <1>4, <1>5

-----------------------------------------------------------------------------
(***************************************************************************)
(* ClassOf is what its recursion promises: enough steps are allowed.       *)
(***************************************************************************)
ClassBy(h) ==
  [t \in Node |-> IF IsRecord(t) THEN t
                  ELSE IF Leads(t) THEN h[StandsFor(t)] ELSE NoNode]

LEMMA ClassInIs ==
  ASSUME program \in Programs
  PROVE  /\ ClassIn[0] = [t \in Node |-> IF IsRecord(t) THEN t ELSE NoNode]
         /\ \A n \in Nat : ClassIn[n + 1] = ClassBy(ClassIn[n])
         /\ \A n \in Nat : ClassIn[n] \in [Node -> Node \cup {NoNode}]
<1> DEFINE X == [Node -> Node \cup {NoNode}]
           F == [h \in X |-> ClassBy(h)]
           x == [t \in Node |-> IF IsRecord(t) THEN t ELSE NoNode]
           Body(u, n) ==
             [t \in Node |->
                IF program.kind[t] = "CXXRecordDecl"
                  THEN t
                  ELSE IF n > 0 /\ program.kind[t] \in Sugar \cup
                                      {"TemplateSpecializationType", "ClassTemplateDecl"}
                         THEN u[n - 1][StandsFor(t)]
                         ELSE NoNode]
           Is(u) == u = [n \in Nat |-> Body(u, n)]
<1>1. x \in X /\ F \in [X -> X]
  <2>1. \A h \in X : ClassBy(h) \in X
    BY StandsForFacts DEF ClassBy
  <2> QED
    BY <2>1
<1>2. \A u : Body(u, 0) = x
  BY DEF IsRecord
<1>3. \A u : \A n \in Nat : n # 0 => Body(u, n) = ClassBy(u[n - 1])
  BY DEF ClassBy, IsRecord, Leads
<1>4. \A h \in X : F[h] = ClassBy(h)
  OBVIOUS
<1> HIDE DEF X, F, x, Body
<1>5. PICK g : Recursion(g, X, F, x)
  BY <1>1, Recursive
<1>6. \A n \in Nat : g[n] = Body(g, n)
  <2> TAKE n \in Nat
  <2>1. g[n] = IF n = 0 THEN x ELSE F[g[n - 1]]
    BY <1>5 DEF Recursion
  <2>2. n # 0 => g[n - 1] \in X
    BY <1>5 DEF Recursion
  <2> QED
    BY <1>2, <1>3, <1>4, <2>1, <2>2
<1>7. Is(g)
  BY <1>5, <1>6 DEF Recursion
<1>8. ClassIn = CHOOSE u : Is(u)
  BY DEF ClassIn, Body
<1>9. Is(ClassIn)
  <2> HIDE DEF Is
  <2> QED
    BY <1>7, <1>8
<1>10. ClassIn[0] = x
  BY <1>2, <1>9
<1>11. \A n \in Nat : ClassIn[n + 1] = ClassBy(ClassIn[n])
  <2> TAKE n \in Nat
  <2>1. n + 1 \in Nat /\ n + 1 # 0 /\ (n + 1) - 1 = n
    OBVIOUS
  <2> QED
    BY <1>3, <1>9, <2>1
<1>12. \A n \in Nat : ClassIn[n] \in X
  <2> DEFINE S == { n \in Nat : ClassIn[n] \in X }
  <2>1. 0 \in S
    BY <1>1, <1>10
  <2>2. \A n \in S : n + 1 \in S
    BY <1>1, <1>4, <1>11
  <2>3. S = Nat
    <3> HIDE DEF S
    <3>1. S \in SUBSET Nat
      BY DEF S
    <3> QED
      BY <2>1, <2>2, <3>1, Induct
  <2> QED
    BY <2>3
<1> QED
  BY <1>10, <1>11, <1>12 DEF X, x

NumberOfNodes == Cardinality(Node)

LEMMA NodesAreFinite == IsFiniteSet(Node) /\ NumberOfNodes \in Nat
  BY NameResolverAssumption, FS_CardinalityType DEF NumberOfNodes

LEMMA ClassOfIs ==
  ASSUME program \in Programs, NEW t \in Node
  PROVE  /\ ClassOf(t) \in Node \cup {NoNode}
         /\ IsRecord(t) => ClassOf(t) = t
         /\ Leads(t) => ClassOf(t) = ClassOf(StandsFor(t))
         /\ ~IsRecord(t) /\ ~Leads(t) => ClassOf(t) = NoNode
<1>1. \A u \in Node : ClassOf(u) \in Node \cup {NoNode}
  BY ClassInIs, NodesAreFinite DEF ClassOf, NumberOfNodes
<1>2. ASSUME NEW k \in Node, NEW u \in Node
      PROVE  ClassOf(u) = k <=> \/ IsRecord(u) /\ u = k
                                \/ ~IsRecord(u) /\ Leads(u) /\ ClassOf(StandsFor(u)) = k
  <2> DEFINE Step(S) == { v \in Node : \/ IsRecord(v) /\ v = k
                                       \/ ~IsRecord(v) /\ Leads(v) /\ StandsFor(v) \in S }
             s == [n \in Nat |-> { v \in Node : ClassIn[n][v] = k }]
             F == [S \in SUBSET Node |-> Step(S)]
  <2>1. \A n \in Nat : s[n + 1] = Step(s[n])
    <3> TAKE n \in Nat
    <3>1. s[n] = { v \in Node : ClassIn[n][v] = k }
          /\ s[n + 1] = { v \in Node : ClassIn[n + 1][v] = k }
      OBVIOUS
    <3>2. \A v \in Node : ClassIn[n + 1][v] = k <=>
            \/ IsRecord(v) /\ v = k
            \/ ~IsRecord(v) /\ Leads(v) /\ ClassIn[n][StandsFor(v)] = k
      <4>1. ClassIn[n + 1] = ClassBy(ClassIn[n])
        BY ClassInIs
      <4>2. k # NoNode
        BY NameResolverAssumption
      <4> QED
        BY <4>1, <4>2 DEF ClassBy
    <3>3. \A v \in Node : Leads(v) => StandsFor(v) \in Node
      BY StandsForFacts
    <3> HIDE DEF s
    <3> QED
      BY <3>1, <3>2, <3>3
  <2>2. s[0] \subseteq s[1]
    <3>1. s[0 + 1] = Step(s[0])
      BY <2>1
    <3>2. \A v \in s[0] : v \in Node /\ IsRecord(v) /\ v = k
      BY ClassInIs, NameResolverAssumption
    <3> HIDE DEF s
    <3> QED
      BY <3>1, <3>2
  <2>3. \A S, T : S \subseteq T => Step(S) \subseteq Step(T)
    OBVIOUS
  <2>4. s \in [Nat -> SUBSET Node] /\ F \in [SUBSET Node -> SUBSET Node]
    OBVIOUS
  <2>5. \A S \in SUBSET Node : F[S] = Step(S)
    OBVIOUS
  <2>6. s[NumberOfNodes] = { v \in Node : ClassOf(v) = k }
    BY NodesAreFinite DEF ClassOf, NumberOfNodes
  <2>7. u \in { v \in Node : ClassOf(v) = k } <=>
          u \in Step({ v \in Node : ClassOf(v) = k })
    <3> HIDE DEF s, F, Step
    <3>1. Chain(s, Node, F)
      BY <2>1, <2>2, <2>3, <2>4, <2>5 DEF Chain
    <3>2. F[s[NumberOfNodes]] = s[NumberOfNodes]
      BY <3>1, NodesAreFinite, ChainSettles DEF NumberOfNodes
    <3>3. s[NumberOfNodes] \in SUBSET Node
      BY <2>4, NodesAreFinite
    <3> QED
      BY <2>5, <2>6, <3>2, <3>3
  <2>8. Leads(u) => StandsFor(u) \in Node
    BY StandsForFacts
  <2> QED
    BY <2>7, <2>8
<1>3. IsRecord(t) => ~Leads(t)
  BY DEF IsRecord, Leads, Sugar
<1>4. Leads(t) => StandsFor(t) \in Node
  BY StandsForFacts
<1>5. NoNode \notin Node
  BY NameResolverAssumption
<1> QED
  BY <1>1, <1>2, <1>3, <1>4, <1>5

-----------------------------------------------------------------------------
(***************************************************************************)
(* A function over classes and names that is defined by recursion on the   *)
(* number of steps allowed, with the steps given by B.                     *)
(***************************************************************************)
Member(c, x) == program.members[c][x]

Base(c, i) == program.bases[c][i]

Class == [Node -> [Name -> SUBSET Node]]

LookupBy(h) ==
  [c \in Node |-> [x \in Name |->
     IF Member(c, x) # << >> THEN Elements(Member(c, x))
                             ELSE UNION { h[b][x] : b \in BasesOf(c) }]]

LEMMA ElementsFacts ==
  ASSUME program \in Programs, NEW c \in Node
  PROVE  /\ \A x \in Name : Elements(Member(c, x)) \subseteq Node
         /\ BasesOf(c) \subseteq Node
<1>1. \A x \in Name : Member(c, x) \in Seq(Node)
  BY KindFacts DEF Member
<1>2. \A i \in DOMAIN program.bases[c] : ClassOf(program.bases[c][i]) \in Node \cup {NoNode}
  BY KindFacts, ClassOfIs
<1> QED
  BY <1>1, <1>2 DEF Elements, BasesOf

LEMMA LookupInIs ==
  ASSUME program \in Programs
  PROVE  /\ LookupIn[0] = LookupBy([c \in Node |-> [x \in Name |-> {}]])
         /\ \A n \in Nat : LookupIn[n + 1] = LookupBy(LookupIn[n])
         /\ \A n \in Nat : LookupIn[n] \in Class
<1> DEFINE F == [h \in Class |-> LookupBy(h)]
           none == [c \in Node |-> [x \in Name |-> {}]]
           first == LookupBy(none)
           Body(u, n) ==
             [c \in Node |-> [x \in Name |->
                IF program.members[c][x] # << >>
                  THEN Elements(program.members[c][x])
                  ELSE IF n = 0 THEN {}
                       ELSE UNION { u[n - 1][b][x] : b \in BasesOf(c) }]]
           Is(u) == u = [n \in Nat |-> Body(u, n)]
<1>1. \A h \in Class : LookupBy(h) \in Class
  <2> TAKE h \in Class
  <2>1. ASSUME NEW c \in Node, NEW x \in Name
        PROVE  (IF Member(c, x) # << >> THEN Elements(Member(c, x))
                  ELSE UNION { h[b][x] : b \in BasesOf(c) }) \in SUBSET Node
    <3>1. \A b \in BasesOf(c) : h[b][x] \in SUBSET Node
      BY ElementsFacts DEF Class
    <3> QED
      BY <3>1, ElementsFacts
  <2> QED
    BY <2>1 DEF LookupBy, Class
<1>2. none \in Class
  BY DEF Class
<1>3. first \in Class /\ F \in [Class -> Class]
  BY <1>1, <1>2
<1>4. \A u : Body(u, 0) = first
  <2> TAKE u
  <2>1. ASSUME NEW c \in Node, NEW x \in Name
        PROVE  UNION { none[b][x] : b \in BasesOf(c) } = {}
    BY ElementsFacts
  <2> QED
    BY <2>1 DEF LookupBy, Member
<1>5. \A u : \A n \in Nat : n # 0 => Body(u, n) = LookupBy(u[n - 1])
  BY DEF LookupBy, Member
<1>6. \A h \in Class : F[h] = LookupBy(h)
  OBVIOUS
<1> HIDE DEF F, first, Body
<1>7. PICK g : Recursion(g, Class, F, first)
  <2> HIDE DEF none
  <2> QED
    BY <1>3, Recursive
<1>8. \A n \in Nat : g[n] = Body(g, n)
  <2> TAKE n \in Nat
  <2>1. g[n] = IF n = 0 THEN first ELSE F[g[n - 1]]
    BY <1>7 DEF Recursion
  <2>2. n # 0 => g[n - 1] \in Class
    BY <1>7 DEF Recursion
  <2> QED
    BY <1>4, <1>5, <1>6, <2>1, <2>2
<1>9. Is(g)
  BY <1>7, <1>8 DEF Recursion
<1>10. LookupIn = CHOOSE u : Is(u)
  BY DEF LookupIn, Body
<1>11. Is(LookupIn)
  <2> HIDE DEF Is
  <2> QED
    BY <1>9, <1>10
<1>12. LookupIn[0] = first
  BY <1>4, <1>11
<1>13. \A n \in Nat : LookupIn[n + 1] = LookupBy(LookupIn[n])
  <2> TAKE n \in Nat
  <2>1. n + 1 \in Nat /\ n + 1 # 0 /\ (n + 1) - 1 = n
    OBVIOUS
  <2> QED
    BY <1>5, <1>11, <2>1
<1>14. \A n \in Nat : LookupIn[n] \in Class
  <2> DEFINE S == { n \in Nat : LookupIn[n] \in Class }
  <2>1. 0 \in S
    BY <1>3, <1>12
  <2>2. \A n \in S : n + 1 \in S
    BY <1>1, <1>13
  <2>3. S = Nat
    <3> HIDE DEF S
    <3>1. S \in SUBSET Nat
      BY DEF S
    <3> QED
      BY <2>1, <2>2, <3>1, Induct
  <2> QED
    BY <2>3
<1> QED
  BY <1>12, <1>13, <1>14 DEF first

\* What a search of the class c finds, and whether it meets the name twice.
Finds(c, x) == IF c = NoNode THEN {} ELSE LookupIn[NumberOfNodes][c][x]

Forks(c, x) == c # NoNode /\ SeveralIn[NumberOfNodes][c][x]

LEMMA LookupFinds ==
  ASSUME NEW t, NEW x
  PROVE  Lookup(t, x) = Finds(ClassOf(t), x) /\ Several(t, x) = Forks(ClassOf(t), x)
BY DEF Lookup, Several, Finds, Forks, NumberOfNodes

\* Names in a class hide those in its bases.
LEMMA FindsIs ==
  ASSUME program \in Programs, NEW c \in Node, NEW x \in Name
  PROVE  /\ Finds(c, x) \subseteq Node
         /\ Member(c, x) # << >> => Finds(c, x) = Elements(Member(c, x))
         /\ Member(c, x) = << >> => Finds(c, x) = UNION { Finds(b, x) : b \in BasesOf(c) }
<1>1. NoNode \notin Node /\ IsFiniteSet(Node) /\ NumberOfNodes \in Nat
  BY NameResolverAssumption, NodesAreFinite
<1>2. \A b \in Node : Finds(b, x) = LookupIn[NumberOfNodes][b][x]
  BY <1>1 DEF Finds
<1>3. \A b \in Node : Finds(b, x) \subseteq Node
  <2>1. LookupIn[NumberOfNodes] \in [Node -> [Name -> SUBSET Node]]
    BY <1>1, LookupInIs DEF Class
  <2> QED
    BY <1>2, <2>1
<1>4. ASSUME NEW d \in Node
      PROVE  d \in Finds(c, x) <=>
               IF Member(c, x) # << >> THEN d \in Elements(Member(c, x))
                                       ELSE \E b \in BasesOf(c) : d \in Finds(b, x)
  <2> DEFINE Step(S) ==
               { k \in Node : IF Member(k, x) # << >> THEN d \in Elements(Member(k, x))
                                                      ELSE \E b \in BasesOf(k) : b \in S }
             s == [n \in Nat |-> { k \in Node : d \in LookupIn[n][k][x] }]
             F == [S \in SUBSET Node |-> Step(S)]
  <2>1. \A n \in Nat : s[n + 1] = Step(s[n])
    <3> TAKE n \in Nat
    <3>1. s[n] = { k \in Node : d \in LookupIn[n][k][x] }
          /\ s[n + 1] = { k \in Node : d \in LookupIn[n + 1][k][x] }
      OBVIOUS
    <3>2. \A k \in Node : d \in LookupIn[n + 1][k][x] <=>
            IF Member(k, x) # << >> THEN d \in Elements(Member(k, x))
              ELSE \E b \in BasesOf(k) : d \in LookupIn[n][b][x]
      <4>1. LookupIn[n + 1] = LookupBy(LookupIn[n])
        BY LookupInIs
      <4> QED
        BY <4>1 DEF LookupBy
    <3>3. \A k \in Node : BasesOf(k) \subseteq Node
      BY ElementsFacts
    <3> HIDE DEF s
    <3> QED
      BY <3>1, <3>2, <3>3
  <2>2. s[0] \subseteq s[1]
    <3>1. s[0 + 1] = Step(s[0])
      BY <2>1
    <3>2. \A k \in s[0] : k \in Node /\ Member(k, x) # << >> /\ d \in Elements(Member(k, x))
      <4>1. \A k \in Node : BasesOf(k) \subseteq Node
        BY ElementsFacts
      <4> QED
        BY <4>1, LookupInIs DEF LookupBy
    <3> HIDE DEF s
    <3> QED
      BY <3>1, <3>2
  <2>3. \A S, T : S \subseteq T => Step(S) \subseteq Step(T)
    OBVIOUS
  <2>4. s \in [Nat -> SUBSET Node] /\ F \in [SUBSET Node -> SUBSET Node]
    OBVIOUS
  <2>5. \A S \in SUBSET Node : F[S] = Step(S)
    OBVIOUS
  <2>6. s[NumberOfNodes] = { k \in Node : d \in Finds(k, x) }
    BY <1>1, <1>2
  <2>7. c \in { k \in Node : d \in Finds(k, x) } <=>
          c \in Step({ k \in Node : d \in Finds(k, x) })
    <3> HIDE DEF s, F, Step
    <3>1. Chain(s, Node, F)
      BY <2>1, <2>2, <2>3, <2>4, <2>5 DEF Chain
    <3>2. F[s[NumberOfNodes]] = s[NumberOfNodes]
      BY <3>1, <1>1, ChainSettles DEF NumberOfNodes
    <3>3. s[NumberOfNodes] \in SUBSET Node
      BY <2>4, <1>1
    <3> QED
      BY <2>5, <2>6, <3>2, <3>3
  <2>8. BasesOf(c) \subseteq Node
    BY ElementsFacts
  <2> QED
    BY <2>7, <2>8
<1>5. Elements(Member(c, x)) \subseteq Node /\ BasesOf(c) \subseteq Node
  BY ElementsFacts
<1>6. Member(c, x) # << >> => Finds(c, x) = Elements(Member(c, x))
  BY <1>3, <1>4, <1>5
<1>7. Member(c, x) = << >> => Finds(c, x) = UNION { Finds(b, x) : b \in BasesOf(c) }
  BY <1>3, <1>4, <1>5
<1> QED
  BY <1>3, <1>6, <1>7

-----------------------------------------------------------------------------
\* Whether two bases of a class lead to declarations of a name.
Clash(c, x) ==
  \E i, j \in DOMAIN program.bases[c] :
    i # j /\ Lookup(Base(c, i), x) # {} /\ Lookup(Base(c, j), x) # {}

Relations == [Node -> [Name -> BOOLEAN]]

SeveralBy(h) ==
  [c \in Node |-> [x \in Name |->
     /\ Member(c, x) = << >>
     /\ Clash(c, x) \/ \E b \in BasesOf(c) : h[b][x]]]

LEMMA SeveralInIs ==
  ASSUME program \in Programs
  PROVE  /\ SeveralIn[0] = SeveralBy([c \in Node |-> [x \in Name |-> FALSE]])
         /\ \A n \in Nat : SeveralIn[n + 1] = SeveralBy(SeveralIn[n])
         /\ \A n \in Nat : SeveralIn[n] \in Relations
<1> DEFINE F == [h \in Relations |-> SeveralBy(h)]
           none == [c \in Node |-> [x \in Name |-> FALSE]]
           first == SeveralBy(none)
           Raw(u, n, c, x) ==
             /\ program.members[c][x] = << >>
             /\ \/ \E i, j \in DOMAIN program.bases[c] :
                     /\ i # j
                     /\ Lookup(program.bases[c][i], x) # {}
                     /\ Lookup(program.bases[c][j], x) # {}
                \/ n > 0 /\ \E b \in BasesOf(c) : u[n - 1][b][x]
           Body(u, n) == [c \in Node |-> [x \in Name |-> Raw(u, n, c, x)]]
           Is(u) == u = [n \in Nat |-> Body(u, n)]
           Stops(u, n, c, x) ==
             /\ Member(c, x) = << >>
             /\ Clash(c, x) \/ (n > 0 /\ \E b \in BasesOf(c) : u[n - 1][b][x])
<1>1. \A h \in Relations : SeveralBy(h) \in Relations
  <2> TAKE h \in Relations
  <2> DEFINE By(c, x) == /\ Member(c, x) = << >>
                         /\ Clash(c, x) \/ \E b \in BasesOf(c) : h[b][x]
  <2>1. SeveralBy(h) = [c \in Node |-> [x \in Name |-> By(c, x)]]
    BY DEF SeveralBy
  <2>2. \A c \in Node, x \in Name : By(c, x) \in BOOLEAN
    OBVIOUS
  <2> HIDE DEF By
  <2> QED
    BY <2>1, <2>2 DEF Relations
<1>2. none \in Relations
  BY DEF Relations
<1>3. first \in Relations /\ F \in [Relations -> Relations]
  BY <1>1, <1>2
<1>4. \A u, n : Body(u, n) = [c \in Node |-> [x \in Name |-> Stops(u, n, c, x)]]
  <2> TAKE u, n
  <2>1. \A c \in Node, x \in Name : Raw(u, n, c, x) <=> Stops(u, n, c, x)
    BY Zenon DEF Clash, Member, Base
  <2>2. \A c \in Node, x \in Name :
          Raw(u, n, c, x) \in BOOLEAN /\ Stops(u, n, c, x) \in BOOLEAN
    OBVIOUS
  <2> HIDE DEF Raw, Stops
  <2> QED
    BY <2>1, <2>2
<1>5. \A u : Body(u, 0) = first
  <2> TAKE u
  <2>1. \A c \in Node, x \in Name : \A b \in BasesOf(c) : ~none[b][x]
    BY ElementsFacts
  <2> DEFINE By(c, x) == /\ Member(c, x) = << >>
                         /\ Clash(c, x) \/ \E b \in BasesOf(c) : none[b][x]
  <2>2. first = [c \in Node |-> [x \in Name |-> By(c, x)]]
    BY DEF SeveralBy
  <2>3. ~(0 > 0)
    OBVIOUS
  <2>4. \A c \in Node, x \in Name : Stops(u, 0, c, x) <=> By(c, x)
    <3> HIDE DEF none
    <3> QED
      BY <2>1, <2>3, Zenon
  <2>5. \A c \in Node, x \in Name :
          Stops(u, 0, c, x) \in BOOLEAN /\ By(c, x) \in BOOLEAN
    OBVIOUS
  <2> HIDE DEF By, Stops, first, Body
  <2> QED
    BY <1>4, <2>2, <2>4, <2>5
<1>6. \A u : \A n \in Nat : n # 0 => Body(u, n) = SeveralBy(u[n - 1])
  <2> TAKE u
  <2> TAKE n \in Nat
  <2> HAVE n # 0
  <2> DEFINE h == u[n - 1]
             By(c, x) == /\ Member(c, x) = << >>
                         /\ Clash(c, x) \/ \E b \in BasesOf(c) : h[b][x]
  <2>1. SeveralBy(h) = [c \in Node |-> [x \in Name |-> By(c, x)]]
    BY DEF SeveralBy
  <2>2. n > 0
    OBVIOUS
  <2>3. \A c \in Node, x \in Name : Stops(u, n, c, x) <=> By(c, x)
    BY <2>2, Zenon
  <2>4. \A c \in Node, x \in Name :
          Stops(u, n, c, x) \in BOOLEAN /\ By(c, x) \in BOOLEAN
    OBVIOUS
  <2> HIDE DEF By, Stops, Body
  <2> QED
    BY <1>4, <2>1, <2>3, <2>4
<1>7. \A h \in Relations : F[h] = SeveralBy(h)
  OBVIOUS
<1>8. SeveralIn = CHOOSE u : Is(u)
  BY DEF SeveralIn, Body, Raw
<1> HIDE DEF F, first, Body, Raw, Stops
<1>9. PICK g : Recursion(g, Relations, F, first)
  <2> HIDE DEF none
  <2> QED
    BY <1>3, Recursive
<1>10. \A n \in Nat : g[n] = Body(g, n)
  <2> TAKE n \in Nat
  <2>1. g[n] = IF n = 0 THEN first ELSE F[g[n - 1]]
    BY <1>9 DEF Recursion
  <2>2. n # 0 => g[n - 1] \in Relations
    BY <1>9 DEF Recursion
  <2> QED
    BY <1>5, <1>6, <1>7, <2>1, <2>2
<1>11. Is(g)
  BY <1>9, <1>10 DEF Recursion
<1>12. Is(SeveralIn)
  <2> HIDE DEF Is
  <2> QED
    BY <1>8, <1>11
<1>13. SeveralIn[0] = first
  BY <1>5, <1>12
<1>14. \A n \in Nat : SeveralIn[n + 1] = SeveralBy(SeveralIn[n])
  <2> TAKE n \in Nat
  <2>1. n + 1 \in Nat /\ n + 1 # 0 /\ (n + 1) - 1 = n
    OBVIOUS
  <2> QED
    BY <1>6, <1>12, <2>1
<1>15. \A n \in Nat : SeveralIn[n] \in Relations
  <2> DEFINE S == { n \in Nat : SeveralIn[n] \in Relations }
  <2>1. 0 \in S
    BY <1>3, <1>13
  <2>2. \A n \in S : n + 1 \in S
    BY <1>1, <1>14
  <2>3. S = Nat
    <3> HIDE DEF S
    <3>1. S \in SUBSET Nat
      BY DEF S
    <3> QED
      BY <2>1, <2>2, <3>1, Induct
  <2> QED
    BY <2>3
<1> QED
  BY <1>13, <1>14, <1>15 DEF first

\* What a class without the name says of its bases.
LEMMA ForksIs ==
  ASSUME program \in Programs, NEW c \in Node, NEW x \in Name
  PROVE  Forks(c, x) <=> /\ Member(c, x) = << >>
                         /\ Clash(c, x) \/ \E b \in BasesOf(c) : Forks(b, x)
<1>1. NoNode \notin Node /\ IsFiniteSet(Node) /\ NumberOfNodes \in Nat
  BY NameResolverAssumption, NodesAreFinite
<1>2. \A b \in Node : Forks(b, x) <=> SeveralIn[NumberOfNodes][b][x]
  BY <1>1 DEF Forks
<1> DEFINE Step(S) ==
             { k \in Node : /\ Member(k, x) = << >>
                            /\ Clash(k, x) \/ \E b \in BasesOf(k) : b \in S }
           s == [n \in Nat |-> { k \in Node : SeveralIn[n][k][x] }]
           F == [S \in SUBSET Node |-> Step(S)]
<1>3. \A n \in Nat : s[n + 1] = Step(s[n])
  <2> TAKE n \in Nat
  <2>1. s[n] = { k \in Node : SeveralIn[n][k][x] }
        /\ s[n + 1] = { k \in Node : SeveralIn[n + 1][k][x] }
    OBVIOUS
  <2>2. \A k \in Node : SeveralIn[n + 1][k][x] <=>
          /\ Member(k, x) = << >>
          /\ Clash(k, x) \/ \E b \in BasesOf(k) : SeveralIn[n][b][x]
    <3>1. SeveralIn[n + 1] = SeveralBy(SeveralIn[n])
      BY SeveralInIs
    <3> QED
      BY <3>1, Zenon DEF SeveralBy
  <2>3. \A k \in Node : BasesOf(k) \subseteq Node
    BY ElementsFacts
  <2> HIDE DEF s
  <2> QED
    BY <2>1, <2>2, <2>3
<1>4. s[0] \subseteq s[1]
  <2>1. s[0 + 1] = Step(s[0])
    BY <1>3
  <2>2. \A k \in s[0] : k \in Node /\ SeveralIn[0][k][x]
    OBVIOUS
  <2>3. \A k \in s[0] : k \in Node /\ Member(k, x) = << >> /\ Clash(k, x)
    <3>1. \A k \in Node : BasesOf(k) \subseteq Node
      BY ElementsFacts
    <3> DEFINE none == [e \in Node |-> [y \in Name |-> FALSE]]
    <3>2. SeveralIn[0] = SeveralBy(none)
      BY SeveralInIs
    <3>3. \A b \in Node : ~none[b][x]
      OBVIOUS
    <3> HIDE DEF s, none
    <3>4. \A k \in Node :
            SeveralIn[0][k][x] <=>
              /\ Member(k, x) = << >>
              /\ Clash(k, x) \/ \E b \in BasesOf(k) : none[b][x]
      BY <3>2, Zenon DEF SeveralBy
    <3> QED
      BY <2>2, <3>1, <3>3, <3>4
  <2> HIDE DEF s
  <2> QED
    BY <2>1, <2>3
<1>5. \A S, T : S \subseteq T => Step(S) \subseteq Step(T)
  OBVIOUS
<1>6. s \in [Nat -> SUBSET Node] /\ F \in [SUBSET Node -> SUBSET Node]
  OBVIOUS
<1>7. \A S \in SUBSET Node : F[S] = Step(S)
  OBVIOUS
<1>8. s[NumberOfNodes] = { k \in Node : Forks(k, x) }
  BY <1>1, <1>2
<1>9. c \in { k \in Node : Forks(k, x) } <=> c \in Step({ k \in Node : Forks(k, x) })
  <2> HIDE DEF s, F, Step
  <2>1. Chain(s, Node, F)
    BY <1>3, <1>4, <1>5, <1>6, <1>7 DEF Chain
  <2>2. F[s[NumberOfNodes]] = s[NumberOfNodes]
    BY <2>1, <1>1, ChainSettles DEF NumberOfNodes
  <2>3. s[NumberOfNodes] \in SUBSET Node
    BY <1>6, <1>1
  <2> QED
    BY <1>7, <1>8, <2>2, <2>3
<1>10. BasesOf(c) \subseteq Node
  BY ElementsFacts
<1> QED
  BY <1>9, <1>10

-----------------------------------------------------------------------------
(***************************************************************************)
(* Where a query leads, name by name.                                      *)
(***************************************************************************)
LEMMA PathIs ==
  ASSUME TypeOK
  PROVE  /\ Path[0] = {query.container}
         /\ \A n \in Nat : Path[n + 1] = TypesOf(Declared(Path[n], query.names[n + 1]))
         /\ \A n \in Nat : Path[n] \subseteq Node
<1> DEFINE X == SUBSET Node
           Step(i, S) == TypesOf(Declared(S, query.names[i]))
           F == [i \in Nat |-> [S \in X |-> Step(i, S)]]
           x == {query.container}
           Body(u, i) ==
             IF i = 0 THEN {query.container}
                      ELSE TypesOf(Declared(u[i - 1], query.names[i]))
           Is(u) == u = [i \in Nat |-> Body(u, i)]
<1>1. \A i, S : Step(i, S) \in X
  BY DEF TypesOf
<1>2. x \in X /\ F \in [Nat -> [X -> X]]
  BY <1>1 DEF TypeOK, Query
<1>3. \A i \in Nat, S \in X : F[i][S] = Step(i, S)
  OBVIOUS
<1>4. \A u : Body(u, 0) = x
  OBVIOUS
<1>5. \A u : \A n \in Nat : n # 0 => Body(u, n) = Step(n, u[n - 1])
  OBVIOUS
<1>6. Path = CHOOSE u : Is(u)
  BY DEF Path
<1> HIDE DEF X, F, x, Body, Step
<1>7. PICK g : IndexedRecursion(g, X, F, x)
  BY <1>2, RecursiveByIndex
<1>8. \A n \in Nat : g[n] = Body(g, n)
  <2> TAKE n \in Nat
  <2>1. g[n] = IF n = 0 THEN x ELSE F[n][g[n - 1]]
    BY <1>7 DEF IndexedRecursion
  <2>2. n # 0 => g[n - 1] \in X
    BY <1>7 DEF IndexedRecursion
  <2> QED
    BY <1>3, <1>4, <1>5, <2>1, <2>2
<1>9. Is(g)
  BY <1>7, <1>8 DEF IndexedRecursion
<1>10. Is(Path)
  <2> HIDE DEF Is
  <2> QED
    BY <1>6, <1>9
<1>11. Path[0] = x
  BY <1>4, <1>10
<1>12. \A n \in Nat : Path[n + 1] = Step(n + 1, Path[n])
  <2> TAKE n \in Nat
  <2>1. n + 1 \in Nat /\ n + 1 # 0 /\ (n + 1) - 1 = n
    OBVIOUS
  <2> QED
    BY <1>5, <1>10, <2>1
<1>13. \A n \in Nat : Path[n] \in X
  <2> TAKE n \in Nat
  <2>1. CASE n = 0
    BY <1>2, <1>11, <2>1
  <2>2. CASE n # 0
    <3>1. n - 1 \in Nat /\ (n - 1) + 1 = n
      BY <2>2
    <3> QED
      BY <1>1, <1>12, <3>1
  <2> QED
    BY <2>1, <2>2
<1> QED
  BY <1>11, <1>12, <1>13 DEF X, x, Step

\* What leads nowhere goes on leading nowhere.
LEMMA PathEnds ==
  ASSUME TypeOK, NEW m \in Nat, Path[m] = {}, NEW n \in Nat, m <= n
  PROVE  Path[n] = {}
<1> DEFINE S == { k \in Nat : Path[m + k] = {} }
<1>1. 0 \in S
  <2>1. m + 0 = m
    OBVIOUS
  <2> QED
    BY <2>1
<1>2. ASSUME NEW k \in S PROVE k + 1 \in S
  <2>1. k \in Nat /\ k + 1 \in Nat /\ m + k \in Nat /\ (m + k) + 1 = m + (k + 1)
    BY <1>2
  <2>2. Path[m + (k + 1)] = TypesOf(Declared({}, query.names[m + (k + 1)]))
    BY <1>2, <2>1, PathIs
  <2>3. Path[m + (k + 1)] = {}
    BY <2>2 DEF TypesOf, Declared
  <2> QED
    BY <2>1, <2>3
<1>3. S = Nat
  <2>1. S \in SUBSET Nat
    OBVIOUS
  <2> HIDE DEF S
  <2> QED
    BY <1>1, <1>2, <2>1, Induct
<1>4. n - m \in Nat /\ m + (n - m) = n
  OBVIOUS
<1> QED
  BY <1>3, <1>4

-----------------------------------------------------------------------------
(***************************************************************************)
(* The graph and the query stay, and with them all that is said of them.   *)
(***************************************************************************)
LEMMA Steady ==
  ASSUME program' = program, query' = query
  PROVE  /\ \A t : ClassOf(t)' = ClassOf(t)
         /\ \A c, x : Finds(c, x)' = Finds(c, x)
         /\ \A c, x : Forks(c, x)' = Forks(c, x)
         /\ \A ts, x : Declared(ts, x)' = Declared(ts, x)
         /\ ClassIn' = ClassIn /\ LookupIn' = LookupIn /\ SeveralIn' = SeveralIn
         /\ Path' = Path
         /\ Answers' = Answers
         /\ Ambiguous' = Ambiguous
<1>1. ClassIn' = ClassIn
  BY DEF ClassIn, StandsFor
<1>2. \A t : ClassOf(t)' = ClassOf(t)
  BY <1>1 DEF ClassOf
<1>3. LookupIn' = LookupIn
  BY <1>1 DEF LookupIn, Elements, BasesOf, ClassOf
<1>4. \A c, x : Finds(c, x)' = Finds(c, x)
  BY <1>3 DEF Finds, NumberOfNodes
<1>5. \A t, x : Lookup(t, x)' = Lookup(t, x)
  BY <1>2, <1>3 DEF Lookup
<1>6. SeveralIn' = SeveralIn
  BY <1>1, <1>3 DEF SeveralIn, BasesOf, ClassOf, Lookup
<1>7. \A c, x : Forks(c, x)' = Forks(c, x)
  BY <1>6 DEF Forks, NumberOfNodes
<1>8. \A t, x : Several(t, x)' = Several(t, x)
  BY <1>2, <1>6 DEF Several
<1>9. \A ts, x : Declared(ts, x)' = Declared(ts, x)
  BY <1>5 DEF Declared
<1>10. Path' = Path
  BY <1>1, <1>3 DEF Path, TypesOf, Declared, Lookup, ClassOf
<1>11. Answers' = Answers
  BY <1>9, <1>10 DEF Answers
<1>12. Ambiguous' = Ambiguous
  BY <1>8, <1>10 DEF Ambiguous
<1> QED
  BY <1>1, <1>2, <1>3, <1>4, <1>6, <1>7, <1>9, <1>10, <1>11, <1>12

-----------------------------------------------------------------------------
(***************************************************************************)
(* What the resolvers still have to search: the classes of the nodes that  *)
(* they will traverse.  A class template is searched for the arguments of  *)
(* the specialization type that led to it.                                 *)
(***************************************************************************)
View(r, i) ==
  IF program.kind[r.todo[i].node] = "ClassTemplateDecl" THEN r.template_args
                                                        ELSE r.todo[i].node

Classes(r) == [i \in 1 .. Len(r.todo) |-> ClassOf(View(r, i))]

\* What a search of the classes cs finds.
All(cs, x) == UNION { Finds(cs[i], x) : i \in DOMAIN cs }

\* The search finds x in one of the classes at most.
Clear(cs, x) ==
  /\ \A i \in DOMAIN cs : ~Forks(cs[i], x)
  /\ \A i, j \in DOMAIN cs : i = j \/ Finds(cs[i], x) = {} \/ Finds(cs[j], x) = {}

\* Only the node that is next can be something else than a type.
FormedAt(r, i) ==
  /\ i > 1 => IsType(r.todo[i].node)
  /\ program.kind[r.todo[i].node] = "ClassTemplateDecl" =>
       /\ r.template_args \in Node
       /\ program.kind[r.template_args] = "TemplateSpecializationType"
       /\ program.target[r.template_args] = r.todo[i].node

Formed(r) == \A i \in 1 .. Len(r.todo) : FormedAt(r, i)

\* The next node is a class that has one declaration of the name.
HasFound(r) ==
  /\ IsRecord(r.todo[1].node)
  /\ Len(Member(r.todo[1].node, r.identifier)) = 1

AllFormed(rs) ==
  /\ query.wanted = "declaration" => Len(query.names) = 1
  /\ \A k \in 1 .. Len(rs) : Formed(rs[k])

\* The resolvers look up the names of the query in their order.
Named(rs) ==
  /\ Len(rs) <= Len(query.names)
  /\ \A k \in 1 .. Len(rs) : rs[k].identifier = query.names[k]

NoneTwice(rs) ==
  /\ \A k \in 1 .. Len(rs) : Clear(Classes(rs[k]), query.names[k])
  /\ \A k \in 1 .. Len(rs) - 1 : HasFound(rs[k])

\* The innermost resolver has yet to find whatever the name declares.
Searching(rs, names) ==
  /\ rs[Len(rs)].result = NoNode
  /\ names = SubSeq(query.names, Len(rs) + 1, Len(query.names))
  /\ All(Classes(rs[Len(rs)]), query.names[Len(rs)])
       = Declared(Path[Len(rs) - 1], query.names[Len(rs)])

\* There is nothing to find, and nothing will be found.
Hopeless(rs) ==
  /\ rs[Len(rs)].result = NoNode
  /\ Answers = {}
  /\ All(Classes(rs[Len(rs)]), query.names[Len(rs)]) = {}

Answered(rs) ==
  /\ rs[Len(rs)].result # NoNode
  /\ rs[Len(rs)].todo = << >>
  /\ rs[Len(rs)].result \in Answers

OnTheWay(rs, names) ==
  rs # << >> =>
    /\ AllFormed(rs)
    /\ \/ Ambiguous
       \/ /\ Named(rs)
          /\ NoneTwice(rs)
          /\ Searching(rs, names) \/ Hopeless(rs) \/ Answered(rs)

\* The first n of them are searched without finding x twice.
ClearUpTo(cs, n, x) ==
  /\ \A i \in 1 .. n : ~Forks(cs[i], x)
  /\ \A i, j \in 1 .. n : i = j \/ Finds(cs[i], x) = {} \/ Finds(cs[j], x) = {}

\* In ds, n classes are in the place of the first of cs and find no more than it.
HeadReplaced(cs, ds, L, n, x) ==
  /\ DOMAIN cs = 1 .. L
  /\ DOMAIN ds = 1 .. n + L - 1
  /\ \A i \in 2 .. L : ds[i + n - 1] = cs[i]
  /\ \A i \in 1 .. n : Finds(ds[i], x) \subseteq Finds(cs[1], x)

LEMMA ReplaceHead ==
  ASSUME NEW L \in Nat \ {0}, NEW n \in Nat, NEW cs, NEW ds, NEW x,
         HeadReplaced(cs, ds, L, n, x)
  PROVE  /\ All(ds, x) \subseteq All(cs, x)
         /\ (\A d \in Finds(cs[1], x) : \E i \in 1 .. n : d \in Finds(ds[i], x)) =>
              All(ds, x) = All(cs, x)
         /\ Clear(cs, x) /\ ClearUpTo(ds, n, x) => Clear(ds, x)
<1> USE DEF HeadReplaced, ClearUpTo
<1>1. \A i \in DOMAIN ds : \/ i \in 1 .. n
                           \/ i - n + 1 \in 2 .. L /\ ds[i] = cs[i - n + 1]
  <2> TAKE i \in DOMAIN ds
  <2>1. CASE i <= n
    BY <2>1
  <2>2. CASE i > n
    <3>1. i - n + 1 \in 2 .. L /\ (i - n + 1) + n - 1 = i
      BY <2>2
    <3>2. ds[(i - n + 1) + n - 1] = cs[i - n + 1]
      BY <3>1
    <3> QED
      BY <3>1, <3>2
  <2> QED
    BY <2>1, <2>2
<1>2. \A i \in 1 .. n : i \in DOMAIN ds
  OBVIOUS
<1>3. \A i \in 2 .. L : i \in DOMAIN cs /\ i + n - 1 \in DOMAIN ds
  OBVIOUS
<1>4. 1 \in DOMAIN cs
  OBVIOUS
<1>5. ASSUME NEW i \in DOMAIN ds
      PROVE  \E k \in DOMAIN cs : /\ Finds(ds[i], x) \subseteq Finds(cs[k], x)
                                  /\ IF i \in 1 .. n THEN k = 1
                                     ELSE k = i - n + 1 /\ k # 1 /\ ds[i] = cs[k]
  <2>1. CASE i \in 1 .. n
    BY <1>4, <2>1
  <2>2. CASE i \notin 1 .. n
    BY <1>1, <1>3, <2>2
  <2> QED
    BY <2>1, <2>2
<1>6. All(ds, x) \subseteq All(cs, x)
  BY <1>5 DEF All
<1>7. ASSUME \A d \in Finds(cs[1], x) : \E i \in 1 .. n : d \in Finds(ds[i], x)
      PROVE  All(cs, x) \subseteq All(ds, x)
  <2> SUFFICES ASSUME NEW k \in DOMAIN cs, NEW d \in Finds(cs[k], x)
               PROVE  \E i \in DOMAIN ds : d \in Finds(ds[i], x)
    BY DEF All
  <2>1. CASE k = 1
    BY <1>2, <1>7, <2>1
  <2>2. CASE k # 1
    <3>1. k \in 2 .. L
      BY <2>2
    <3> QED
      BY <1>3, <3>1
  <2> QED
    BY <2>1, <2>2
<1>8. ASSUME Clear(cs, x), ClearUpTo(ds, n, x)
      PROVE  Clear(ds, x)
  <2>1. \A i \in DOMAIN ds : ~Forks(ds[i], x)
    BY <1>1, <1>3, <1>8 DEF Clear
  <2>2. ASSUME NEW i \in DOMAIN ds, NEW j \in DOMAIN ds, i # j
        PROVE  Finds(ds[i], x) = {} \/ Finds(ds[j], x) = {}
    <3>1. PICK k \in DOMAIN cs : /\ Finds(ds[i], x) \subseteq Finds(cs[k], x)
                                 /\ IF i \in 1 .. n THEN k = 1
                                    ELSE k = i - n + 1 /\ k # 1 /\ ds[i] = cs[k]
      BY <1>5
    <3>2. PICK l \in DOMAIN cs : /\ Finds(ds[j], x) \subseteq Finds(cs[l], x)
                                 /\ IF j \in 1 .. n THEN l = 1
                                    ELSE l = j - n + 1 /\ l # 1 /\ ds[j] = cs[l]
      BY <1>5
    <3>3. CASE i \in 1 .. n /\ j \in 1 .. n
      BY <1>8, <2>2, <3>3
    <3>4. CASE ~(i \in 1 .. n /\ j \in 1 .. n)
      <4>1. i \in Int /\ j \in Int
        BY DEF Clear
      <4>2. k # l
        BY <2>2, <3>1, <3>2, <3>4, <4>1
      <4>3. Finds(cs[k], x) = {} \/ Finds(cs[l], x) = {}
        BY <1>8, <4>2 DEF Clear
      <4> QED
        BY <3>1, <3>2, <4>3
    <3> QED
      BY <3>3, <3>4
  <2> QED
    BY <2>1, <2>2 DEF Clear
<1> QED
  BY <1>6, <1>7, <1>8

\* A step leaves everything but the path and the resolvers alone.
LEMMA OnTheWayNext ==
  ASSUME program' = program, query' = query, OnTheWay(resolvers', path')
  PROVE  OnTheWay(resolvers, path)'
<1>1. /\ ClassIn' = ClassIn /\ LookupIn' = LookupIn /\ SeveralIn' = SeveralIn
      /\ Path' = Path /\ Answers' = Answers /\ Ambiguous' = Ambiguous
  BY Steady
<1>2. AllFormed(resolvers') => AllFormed(resolvers)'
  BY DEF AllFormed, Formed, FormedAt, IsType
<1>3. Named(resolvers') => Named(resolvers)'
  BY DEF Named
<1>4. \A r : Classes(r)' = Classes(r)
  BY <1>1 DEF Classes, View, ClassOf
<1>5. \A cs, x : Clear(cs, x)' = Clear(cs, x)
  BY <1>1 DEF Clear, Finds, Forks, NumberOfNodes
<1>6. \A cs, x : All(cs, x)' = All(cs, x)
  BY <1>1 DEF All, Finds, NumberOfNodes
<1>7. NoneTwice(resolvers') => NoneTwice(resolvers)'
  BY <1>4, <1>5 DEF NoneTwice, HasFound, Member, IsRecord
<1>8. Searching(resolvers', path') => Searching(resolvers, path)'
  BY <1>1, <1>4, <1>6, Steady DEF Searching
<1>9. Hopeless(resolvers') => Hopeless(resolvers)'
  BY <1>1, <1>4, <1>6 DEF Hopeless
<1>10. Answered(resolvers') => Answered(resolvers)'
  BY <1>1 DEF Answered
<1> QED
  BY <1>1, <1>2, <1>3, <1>7, <1>8, <1>9, <1>10 DEF OnTheWay

\* A type is searched itself, whatever the arguments are.
LEMMA ViewIs ==
  ASSUME TypeInv, NEW r \in Resolver, NEW i \in 1 .. Len(r.todo)
  PROVE  /\ r.todo[i].node \in Node
         /\ program.kind[r.todo[i].node] # "ClassTemplateDecl" => View(r, i) = r.todo[i].node
         /\ IsType(r.todo[i].node) => View(r, i) = r.todo[i].node
         /\ Classes(r)[i] = ClassOf(View(r, i))
         /\ FormedAt(r, i) => View(r, i) \in Node /\ Classes(r)[i] \in Node \cup {NoNode}
<1>1. r.todo[i] \in Item
  BY DEF Resolver
<1>2. r.todo[i].node \in Node
  BY <1>1 DEF Item
<1>3. IsType(r.todo[i].node) => program.kind[r.todo[i].node] # "ClassTemplateDecl"
  BY DEF IsType, Types, Unresolved, Sugar
<1>4. Classes(r)[i] = ClassOf(View(r, i))
  BY DEF Classes
<1>5. FormedAt(r, i) => View(r, i) \in Node
  BY <1>2 DEF FormedAt, View
<1>6. FormedAt(r, i) => Classes(r)[i] \in Node \cup {NoNode}
  BY <1>4, <1>5, ClassOfIs DEF TypeInv
<1> QED
  BY <1>2, <1>3, <1>4, <1>5, <1>6 DEF View

\* What the innermost resolver has to search is all that a step changes.
LEMMA SetTopWay ==
  ASSUME TypeInv, resolvers # << >>, Top.todo # << >>, OnTheWay(resolvers, path),
         NEW r \in Resolver, SetTop(r), r.identifier = Top.identifier, Formed(r),
         ~Ambiguous /\ Named(resolvers) /\ NoneTwice(resolvers)
           /\ (Searching(resolvers, path) \/ Hopeless(resolvers))
           => /\ Clear(Classes(r), Top.identifier)
              /\ \/ /\ r.result = NoNode
                    /\ All(Classes(r), Top.identifier) = All(Classes(Top), Top.identifier)
                 \/ /\ r.result = NoNode /\ Answers = {}
                    /\ All(Classes(r), Top.identifier) = {}
                 \/ r.result # NoNode /\ r.todo = << >> /\ r.result \in Answers
  PROVE  OnTheWay(resolvers', path')
<1> DEFINE m == Len(resolvers)
<1>1. /\ resolvers \in Seq(Resolver) /\ m \in Nat \ {0} /\ Top = resolvers[m]
      /\ Len(resolvers) = m
  BY DEF TypeInv, TypeOK, Top
<1>2. /\ resolvers' = [resolvers EXCEPT ![m] = r]
      /\ path' = path /\ program' = program /\ query' = query
  BY DEF SetTop
<1>3. Len(resolvers') = m /\ resolvers'[m] = r
      /\ \A k \in 1 .. m : k # m => resolvers'[k] = resolvers[k]
  BY <1>1, <1>2
<1> HIDE DEF m
<1>4. AllFormed(resolvers')
  BY <1>1, <1>3 DEF OnTheWay, AllFormed
<1>5. ASSUME ~Ambiguous
      PROVE  /\ Named(resolvers') /\ NoneTwice(resolvers')
             /\ \/ Searching(resolvers', path')
                \/ Hopeless(resolvers') \/ Answered(resolvers')
  <2>1. /\ Named(resolvers) /\ NoneTwice(resolvers)
        /\ Searching(resolvers, path) \/ Hopeless(resolvers)
    BY <1>1, <1>5 DEF OnTheWay, Answered
  <2>2. Top.identifier = query.names[m]
    BY <1>1, <2>1 DEF Named
  <2>3. Named(resolvers')
    BY <1>1, <1>3, <2>1, <2>2 DEF Named
  <2>4. NoneTwice(resolvers')
    BY <1>1, <1>3, <1>5, <2>1, <2>2 DEF NoneTwice
  <2> SUFFICES Searching(resolvers', path') \/ Hopeless(resolvers') \/ Answered(resolvers')
    BY <2>3, <2>4
  <2>5. CASE /\ r.result = NoNode
             /\ All(Classes(r), Top.identifier) = All(Classes(Top), Top.identifier)
    <3>1. CASE Searching(resolvers, path)
      <4>1. /\ path = SubSeq(query.names, m + 1, Len(query.names))
            /\ All(Classes(Top), query.names[m])
                 = Declared(Path[m - 1], query.names[m])
        BY <1>1, <3>1 DEF Searching
      <4> QED
        BY <1>2, <1>3, <2>2, <2>5, <4>1 DEF Searching
    <3>2. CASE Hopeless(resolvers)
      <4>1. Answers = {} /\ All(Classes(Top), query.names[m]) = {}
        BY <1>1, <3>2 DEF Hopeless
      <4> QED
        BY <1>3, <2>2, <2>5, <4>1 DEF Hopeless
    <3> QED
      BY <2>1, <3>1, <3>2
  <2>6. CASE /\ r.result = NoNode /\ Answers = {}
             /\ All(Classes(r), Top.identifier) = {}
    BY <1>3, <2>2, <2>6 DEF Hopeless
  <2>7. CASE r.result # NoNode /\ r.todo = << >> /\ r.result \in Answers
    BY <1>3, <2>7 DEF Answered
  <2> QED
    BY <1>5, <2>1, <2>3, <2>4, <2>5, <2>6, <2>7
<1> QED
  BY <1>4, <1>5 DEF OnTheWay

\* The first n nodes of r take the place of the node that is traversed.
Replaces(r, n) ==
  /\ r.identifier = Top.identifier
  /\ Len(r.todo) = n + Len(Top.todo) - 1
  /\ \A i \in 2 .. Len(Top.todo) : r.todo[i + n - 1].node = Top.todo[i].node

LEMMA ReplacedFormed ==
  ASSUME TypeInv, resolvers # << >>, Top.todo # << >>, OnTheWay(resolvers, path),
         NEW r \in Resolver, NEW n \in Nat, Replaces(r, n),
         \A i \in 1 .. n : FormedAt(r, i)
  PROVE  /\ Formed(r)
         /\ Len(Top.todo) \in Nat \ {0}
         /\ \A i \in 2 .. Len(Top.todo) : Classes(r)[i + n - 1] = Classes(Top)[i]
<1>1. Top \in Resolver /\ Formed(Top)
  BY TopFacts DEF OnTheWay, AllFormed, TypeInv, TypeOK, Top
<1>2. Top.todo \in Seq(Item) /\ Len(Top.todo) \in Nat \ {0}
  BY <1>1 DEF Resolver
<1>3. ASSUME NEW i \in 2 .. Len(Top.todo)
      PROVE  /\ i + n - 1 \in 1 .. Len(r.todo)
             /\ FormedAt(r, i + n - 1)
             /\ Classes(r)[i + n - 1] = Classes(Top)[i]
  <2>1. i + n - 1 \in 1 .. Len(r.todo) /\ i \in 1 .. Len(Top.todo)
    BY <1>2 DEF Replaces
  <2>2. r.todo[i + n - 1].node = Top.todo[i].node /\ IsType(Top.todo[i].node)
    BY <1>1, <2>1 DEF Replaces, Formed, FormedAt
  <2>3. View(r, i + n - 1) = View(Top, i)
    BY <1>1, <2>1, <2>2, ViewIs
  <2>4. Classes(r)[i + n - 1] = Classes(Top)[i]
    BY <1>1, <2>1, <2>3, ViewIs
  <2>5. FormedAt(r, i + n - 1)
    BY <2>2 DEF FormedAt, IsType, Types, Unresolved, Sugar
  <2> QED
    BY <2>1, <2>4, <2>5
<1>4. ASSUME NEW j \in 1 .. Len(r.todo)
      PROVE  FormedAt(r, j)
  <2>1. CASE j <= n
    BY <2>1
  <2>2. CASE j > n
    <3>1. j - n + 1 \in 2 .. Len(Top.todo) /\ (j - n + 1) + n - 1 = j
      BY <1>2, <2>2 DEF Replaces
    <3> QED
      BY <1>3, <3>1
  <2> QED
    BY <2>1, <2>2
<1> QED
  BY <1>2, <1>3, <1>4 DEF Formed

LEMMA ReplacedWay ==
  ASSUME TypeInv, resolvers # << >>, Top.todo # << >>, OnTheWay(resolvers, path),
         NEW r \in Resolver, SetTop(r), NEW n \in Nat, Replaces(r, n),
         \A i \in 1 .. n : FormedAt(r, i),
         NEW x, x = Top.identifier,
         Top.result = NoNode => r.result = NoNode,
         \A d : d \in Finds(Classes(Top)[1], x) <=>
                  \E i \in 1 .. n : d \in Finds(Classes(r)[i], x),
         ~Forks(Classes(Top)[1], x) => ClearUpTo(Classes(r), n, x)
  PROVE  OnTheWay(resolvers', path')
<1> DEFINE L == Len(Top.todo)
           cs == Classes(Top)
           ds == Classes(r)
<1>1. /\ Formed(r) /\ L \in Nat \ {0}
      /\ \A i \in 2 .. L : ds[i + n - 1] = cs[i]
  BY ReplacedFormed
<1>2. DOMAIN cs = 1 .. L /\ DOMAIN ds = 1 .. n + L - 1
  BY DEF Classes, Replaces
<1>3. \A i \in 1 .. n : Finds(ds[i], x) \subseteq Finds(cs[1], x)
  OBVIOUS
<1>4. \A d \in Finds(cs[1], x) : \E i \in 1 .. n : d \in Finds(ds[i], x)
  OBVIOUS
<1>5. Clear(cs, x) => ~Forks(cs[1], x)
  BY <1>1, <1>2 DEF Clear
<1>6. All(ds, x) = All(cs, x) /\ (Clear(cs, x) => Clear(ds, x))
  <2> HIDE DEF L, cs, ds
  <2>1. HeadReplaced(cs, ds, L, n, x)
    BY <1>1, <1>2, <1>3 DEF HeadReplaced
  <2>2. All(ds, x) = All(cs, x)
    BY <1>1, <1>4, <2>1, ReplaceHead
  <2>3. ASSUME Clear(cs, x) PROVE Clear(ds, x)
    <3>1. ClearUpTo(ds, n, x)
      BY <1>5, <2>3 DEF cs, ds
    <3> QED
      BY <1>1, <2>1, <2>3, <3>1, ReplaceHead
  <2> QED
    BY <2>2, <2>3
<1>7. Named(resolvers) /\ NoneTwice(resolvers) => Clear(cs, x)
  BY TopFacts DEF Named, NoneTwice, Top, TypeInv
<1>8. Searching(resolvers, path) \/ Hopeless(resolvers) => r.result = NoNode
  BY DEF Searching, Hopeless, Top
<1> QED
  BY <1>1, <1>6, <1>7, <1>8, SetTopWay DEF Replaces

-----------------------------------------------------------------------------
(***************************************************************************)
(* The nodes that take the place of the current one, action by action.     *)
(***************************************************************************)
AtWork == TypeInv /\ resolvers # << >> /\ Top.todo # << >> /\ OnTheWay(resolvers, path)

LEMMA HeadIs ==
  ASSUME AtWork
  PROVE  /\ Top \in Resolver /\ 1 \in 1 .. Len(Top.todo)
         /\ Here = Top.todo[1].node /\ Here \in Node
         /\ FormedAt(Top, 1)
         /\ Classes(Top)[1] = ClassOf(View(Top, 1))
         /\ program.kind[Here] # "ClassTemplateDecl" => View(Top, 1) = Here
         /\ Top.identifier \in Name
<1>1. Top \in Resolver /\ Formed(Top)
  BY TopFacts DEF AtWork, OnTheWay, AllFormed, TypeInv, TypeOK, Top
<1>2. Top.todo \in Seq(Item) /\ 1 \in 1 .. Len(Top.todo) /\ Top.identifier \in Name
  BY <1>1 DEF AtWork, Resolver
<1>3. Here = Top.todo[1].node
  BY <1>2 DEF Here, Current
<1> QED
  BY <1>1, <1>2, <1>3, ViewIs DEF AtWork, Formed

LEMMA GoOnIs ==
  ASSUME AtWork, NEW r \in Resolver, NEW nodes \in Seq(Node),
         r.identifier = Top.identifier, r.todo = Deeper(nodes) \o Tail(Top.todo)
  PROVE  /\ Len(nodes) \in Nat
         /\ Replaces(r, Len(nodes))
         /\ \A i \in 1 .. Len(nodes) : i \in 1 .. Len(r.todo) /\ r.todo[i].node = nodes[i]
<1> DEFINE n == Len(nodes)
           new == Deeper(nodes)
           rest == Tail(Top.todo)
<1>1. Top.todo \in Seq(Item) /\ Len(Top.todo) \in Nat \ {0}
  BY HeadIs DEF Resolver
<1>2. n \in Nat /\ DOMAIN new = 1 .. n /\ \A i \in 1 .. n : new[i].node = nodes[i]
  BY DEF Deeper
<1>3. Len(new) = n
  BY <1>2 DEF Deeper
<1>4. Len(rest) = Len(Top.todo) - 1 /\ \A i \in 1 .. Len(rest) : rest[i] = Top.todo[i + 1]
  BY <1>1
<1>5. \E S : new \in Seq(S) /\ rest \in Seq(S)
  <2> DEFINE S == { new[i] : i \in 1 .. n } \cup Item
  <2>1. new \in Seq(S)
    <3>1. \A i \in 1 .. n : new[i] \in S
      OBVIOUS
    <3>2. new = [i \in 1 .. n |-> new[i]]
      BY <1>2 DEF Deeper
    <3> HIDE DEF new, S
    <3> QED
      BY <1>2, <3>1, <3>2, IsASeq
  <2>2. rest \in Seq(S)
    BY <1>1
  <2> QED
    BY <2>1, <2>2
<1> HIDE DEF n, new, rest
<1>6. /\ Len(r.todo) = n + Len(rest)
      /\ \A i \in 1 .. n : r.todo[i] = new[i]
      /\ \A i \in 1 .. Len(rest) : r.todo[i + n] = rest[i]
  <2>1. PICK S : new \in Seq(S) /\ rest \in Seq(S)
    BY <1>5
  <2>2. /\ Len(new \o rest) = n + Len(rest)
        /\ \A i \in 1 .. n + Len(rest) :
             (new \o rest)[i] = IF i <= n THEN new[i] ELSE rest[i - n]
    BY <1>3, <2>1, ConcatProperties
  <2>3. Len(rest) \in Nat
    BY <1>1, <1>4
  <2>4. \A i \in 1 .. Len(rest) : i + n \in 1 .. n + Len(rest) /\ ~(i + n <= n) /\ (i + n) - n = i
    BY <1>2, <2>3
  <2>5. \A i \in 1 .. n : i \in 1 .. n + Len(rest) /\ i <= n
    BY <1>2, <2>3
  <2> QED
    BY <2>2, <2>4, <2>5 DEF new, rest
<1>7. ASSUME NEW i \in 2 .. Len(Top.todo)
      PROVE  r.todo[i + n - 1].node = Top.todo[i].node
  <2>1. i - 1 \in 1 .. Len(rest) /\ (i - 1) + n = i + n - 1 /\ (i - 1) + 1 = i
    BY <1>1, <1>2, <1>4
  <2> QED
    BY <1>4, <1>6, <2>1
<1>8. Len(r.todo) = n + Len(Top.todo) - 1
  BY <1>1, <1>2, <1>4, <1>6
<1>9. \A i \in 1 .. n : i \in 1 .. Len(r.todo)
  BY <1>1, <1>2, <1>8
<1> QED
  BY <1>2, <1>6, <1>7, <1>8, <1>9 DEF Replaces, n

\* A node that is searched as the same class.
LEMMA OneWay ==
  ASSUME AtWork, NEW r \in Resolver, NEW node \in Node, SetTop(r),
         r.identifier = Top.identifier, r.result = Top.result,
         r.todo = Deeper(<< node >>) \o Tail(Top.todo),
         IF program.kind[node] = "ClassTemplateDecl"
           THEN /\ r.template_args \in Node
                /\ program.kind[r.template_args] = "TemplateSpecializationType"
                /\ program.target[r.template_args] = node
                /\ Classes(Top)[1] = ClassOf(r.template_args)
           ELSE Classes(Top)[1] = ClassOf(node)
  PROVE  OnTheWay(resolvers', path')
<1>1. << node >> \in Seq(Node) /\ Len(<< node >>) = 1 /\ << node >>[1] = node
  OBVIOUS
<1>2. /\ Replaces(r, Len(<< node >>))
      /\ \A i \in 1 .. Len(<< node >>) :
           i \in 1 .. Len(r.todo) /\ r.todo[i].node = << node >>[i]
  BY <1>1, GoOnIs
<1>3. Replaces(r, 1) /\ 1 \in 1 .. Len(r.todo) /\ r.todo[1].node = node
  BY <1>1, <1>2
<1>4. FormedAt(r, 1)
  BY <1>3 DEF FormedAt
<1>5. Classes(r)[1] = Classes(Top)[1]
  BY <1>3, ViewIs DEF AtWork, View
<1>6. \A i \in 1 .. 1 : FormedAt(r, i)
  BY <1>4
<1>7. ~Forks(Classes(Top)[1], Top.identifier) => ClearUpTo(Classes(r), 1, Top.identifier)
  BY <1>5 DEF ClearUpTo
<1>8. \A d : d \in Finds(Classes(Top)[1], Top.identifier) <=>
             \E i \in 1 .. 1 : d \in Finds(Classes(r)[i], Top.identifier)
  BY <1>5
<1> QED
  BY <1>3, <1>6, <1>7, <1>8, ReplacedWay DEF AtWork

LEMMA SugarWay ==
  ASSUME AtWork, WalkUpFromSugar
  PROVE  OnTheWay(resolvers', path')
<1> DEFINE node == program.target[Here]
           r == GoOnWith(<< node >>)
<1>1. program.kind[Here] \in Sugar /\ HasRoom /\ SetTop(r)
  BY DEF WalkUpFromSugar, At
<1>2. Leads(Here) /\ program.kind[Here] # "TemplateSpecializationType"
      /\ program.kind[Here] # "ClassTemplateDecl"
  BY <1>1 DEF Leads, Sugar
<1>3. node = StandsFor(Here) /\ node \in Node
      /\ (IsRecord(node) \/ IsType(node))
  BY <1>1, <1>2, HeadIs, StandsForFacts DEF Sugar, AtWork, TypeInv
<1>4. r \in Resolver
  <2>1. << node >> \in Seq(Node)
    BY <1>3
  <2> QED
    BY <1>1, <2>1, GoOnFacts DEF AtWork, TypeInv
<1>5. /\ r.identifier = Top.identifier /\ r.result = Top.result
      /\ r.todo = Deeper(<< node >>) \o Tail(Top.todo)
  BY HeadIs DEF GoOnWith, Resolver
<1> HIDE DEF r
<1>6. program.kind[node] # "ClassTemplateDecl"
  BY <1>3 DEF IsRecord, IsType, Types, Unresolved, Sugar
<1>7. Classes(Top)[1] = ClassOf(Here) /\ ClassOf(Here) = ClassOf(StandsFor(Here))
  BY <1>2, HeadIs, ClassOfIs DEF AtWork, TypeInv
<1> QED
  BY <1>1, <1>3, <1>4, <1>5, <1>6, <1>7, OneWay

LEMMA SpecializationWay ==
  ASSUME AtWork, WalkUpFromTemplateSpecializationType
  PROVE  OnTheWay(resolvers', path')
<1> DEFINE node == program.target[Here]
           on == GoOnWith(<< node >>)
           r == [on EXCEPT !.template_args = Here]
<1>1. program.kind[Here] = "TemplateSpecializationType" /\ HasRoom /\ SetTop(r)
  BY DEF WalkUpFromTemplateSpecializationType, At
<1>2. Leads(Here) /\ program.kind[Here] # "ClassTemplateDecl"
  BY <1>1 DEF Leads
<1>3. node \in Node
  BY <1>2, HeadIs, KindFacts DEF AtWork, TypeInv
<1>4. on \in Resolver
  <2>1. << node >> \in Seq(Node)
    BY <1>3
  <2> QED
    BY <1>1, <2>1, GoOnFacts DEF AtWork, TypeInv
<1>5. /\ on.identifier = Top.identifier /\ on.result = Top.result
      /\ on.todo = Deeper(<< node >>) \o Tail(Top.todo)
  BY HeadIs DEF GoOnWith, Resolver
<1> HIDE DEF on
<1>6. /\ r \in Resolver
      /\ r.identifier = Top.identifier /\ r.result = Top.result
      /\ r.todo = Deeper(<< node >>) \o Tail(Top.todo)
      /\ r.template_args = Here
  BY <1>4, <1>5, HeadIs DEF Resolver
<1>7. Classes(Top)[1] = ClassOf(Here) /\ ClassOf(Here) = ClassOf(StandsFor(Here))
  BY <1>2, HeadIs, ClassOfIs DEF AtWork, TypeInv
<1>8. program.kind[node] # "ClassTemplateDecl" => StandsFor(Here) = node
  BY HeadIs, KindFacts DEF StandsFor, AtWork, TypeInv
<1>9. IF program.kind[node] = "ClassTemplateDecl"
        THEN /\ r.template_args \in Node
             /\ program.kind[r.template_args] = "TemplateSpecializationType"
             /\ program.target[r.template_args] = node
             /\ Classes(Top)[1] = ClassOf(r.template_args)
        ELSE Classes(Top)[1] = ClassOf(node)
  BY <1>1, <1>6, <1>7, <1>8, HeadIs
<1> HIDE DEF r
<1> QED
  BY <1>1, <1>3, <1>6, <1>9, OneWay

LEMMA TemplateWay ==
  ASSUME AtWork, WalkUpFromClassTemplateDecl
  PROVE  OnTheWay(resolvers', path')
<1> DEFINE args == Top.template_args
           node == IF program.special[args] # NoNode THEN program.special[args]
                                                     ELSE program.target[Here]
           r == GoOnWith(<< node >>)
<1>1. program.kind[Here] = "ClassTemplateDecl" /\ HasRoom
  BY DEF WalkUpFromClassTemplateDecl, At
<1>2. /\ args \in Node /\ args # NoNode
      /\ program.kind[args] = "TemplateSpecializationType"
      /\ program.target[args] = Here
      /\ View(Top, 1) = args
  BY <1>1, HeadIs, NameResolverAssumption DEF FormedAt, View
<1>3. SetTop(r)
  BY <1>2 DEF WalkUpFromClassTemplateDecl
<1>4. Leads(Here) /\ Leads(args)
  BY <1>1, <1>2 DEF Leads
<1>5. program \in Programs
  BY DEF AtWork, TypeInv
<1>6. /\ StandsFor(Here) = program.target[Here] /\ StandsFor(Here) \in Node
      /\ IsRecord(StandsFor(Here))
  BY <1>1, <1>4, <1>5, HeadIs, StandsForFacts
<1>7. /\ program.special[args] # NoNode =>
           /\ node = StandsFor(args) /\ IsRecord(node)
      /\ program.special[args] = NoNode =>
           /\ StandsFor(args) = Here /\ node = StandsFor(Here)
  BY <1>2, <1>5, <1>6, KindFacts DEF StandsFor
<1>8. node \in Node
  BY <1>2, <1>4, <1>5, <1>6, <1>7, StandsForFacts
<1>9. program.kind[node] # "ClassTemplateDecl"
  BY <1>6, <1>7 DEF IsRecord
<1>10. ClassOf(args) = ClassOf(StandsFor(args)) /\ ClassOf(Here) = ClassOf(StandsFor(Here))
  BY <1>2, <1>4, <1>5, HeadIs, ClassOfIs
<1>11. ClassOf(args) = ClassOf(node)
  BY <1>7, <1>10
<1>12. Classes(Top)[1] = ClassOf(node)
  BY <1>2, <1>11, HeadIs
<1>13. r \in Resolver
  <2>1. << node >> \in Seq(Node)
    BY <1>8
  <2> QED
    BY <1>1, <2>1, GoOnFacts DEF AtWork, TypeInv
<1>14. /\ r.identifier = Top.identifier /\ r.result = Top.result
       /\ r.todo = Deeper(<< node >>) \o Tail(Top.todo)
  BY HeadIs DEF GoOnWith, Resolver
<1> HIDE DEF r, node
<1> QED
  BY <1>3, <1>8, <1>9, <1>12, <1>13, <1>14, OneWay

\* A class without the name is as much as its bases.
LEMMA BasesAre ==
  ASSUME program \in Programs, NEW c \in Node, NEW x \in Name, IsRecord(c),
         Member(c, x) = << >>
  PROVE  LET n == Len(program.bases[c])
         IN  /\ \A d : d \in Finds(c, x) <=>
                         \E i \in 1 .. n : d \in Finds(ClassOf(Base(c, i)), x)
             /\ ~Forks(c, x) =>
                  /\ \A i \in 1 .. n : ~Forks(ClassOf(Base(c, i)), x)
                  /\ \A i, j \in 1 .. n : \/ i = j
                                          \/ Finds(ClassOf(Base(c, i)), x) = {}
                                          \/ Finds(ClassOf(Base(c, j)), x) = {}
<1> DEFINE n == Len(program.bases[c])
<1>1. program.bases[c] \in Seq(Node)
  BY KindFacts
<1>2. DOMAIN program.bases[c] = 1 .. n
  BY <1>1
<1> HIDE DEF n
<1>3. BasesOf(c) = { ClassOf(Base(c, i)) : i \in 1 .. n } \ {NoNode}
  BY <1>2 DEF BasesOf, Base
<1>4. Finds(NoNode, x) = {} /\ ~Forks(NoNode, x)
  BY DEF Finds, Forks
<1>5. Finds(c, x) = UNION { Finds(b, x) : b \in BasesOf(c) }
  BY FindsIs
<1>6. \A d : d \in Finds(c, x) <=>
               \E i \in 1 .. n : d \in Finds(ClassOf(Base(c, i)), x)
  BY <1>3, <1>4, <1>5
<1>7. ASSUME ~Forks(c, x)
      PROVE  /\ \A i \in 1 .. n : ~Forks(ClassOf(Base(c, i)), x)
             /\ \A i, j \in 1 .. n : \/ i = j
                                     \/ Finds(ClassOf(Base(c, i)), x) = {}
                                     \/ Finds(ClassOf(Base(c, j)), x) = {}
  <2>1. ~Clash(c, x) /\ \A b \in BasesOf(c) : ~Forks(b, x)
    BY <1>7, ForksIs
  <2>2. \A i \in 1 .. n : ~Forks(ClassOf(Base(c, i)), x)
    BY <1>3, <1>4, <2>1
  <2>3. \A i, j \in 1 .. n : \/ i = j
                             \/ Lookup(Base(c, i), x) = {}
                             \/ Lookup(Base(c, j), x) = {}
    BY <1>2, <2>1 DEF Clash
  <2> QED
    BY <2>2, <2>3, LookupFinds
<1> QED
  BY <1>6, <1>7 DEF n

LEMMA BasesWay ==
  ASSUME AtWork, LookInBases
  PROVE  OnTheWay(resolvers', path')
<1> DEFINE nodes == program.bases[Here]
           n == Len(nodes)
           x == Top.identifier
           r == GoOnWith(nodes)
<1>1. program.kind[Here] = "CXXRecordDecl" /\ HasRoom /\ Len(Found) = 0 /\ SetTop(r)
  BY DEF LookInBases, At
<1>2. program \in Programs /\ Here \in Node /\ x \in Name /\ IsRecord(Here)
  BY <1>1, HeadIs DEF AtWork, TypeInv, IsRecord
<1>3. Member(Here, x) = << >>
  <2>1. Found \in Seq(Node)
    BY <1>2, FoundFacts DEF AtWork, TypeInv
  <2> QED
    BY <1>1, <2>1 DEF Found, Member
<1>4. nodes \in Seq(Node) /\ \A i \in 1 .. n : nodes[i] \in Node /\ IsType(nodes[i])
  BY <1>2, KindFacts
<1>5. r \in Resolver
  BY <1>1, <1>4, GoOnFacts DEF AtWork, TypeInv
<1>6. /\ r.identifier = Top.identifier /\ r.result = Top.result
      /\ r.todo = Deeper(nodes) \o Tail(Top.todo)
  BY HeadIs DEF GoOnWith, Resolver
<1> HIDE DEF r
<1>7. /\ n \in Nat /\ Replaces(r, n)
      /\ \A i \in 1 .. n : i \in 1 .. Len(r.todo) /\ r.todo[i].node = nodes[i]
  BY <1>4, <1>5, <1>6, GoOnIs
<1>8. \A i \in 1 .. n : FormedAt(r, i)
  BY <1>4, <1>7 DEF FormedAt, IsType, Types, Unresolved, Sugar
<1>9. \A i \in 1 .. n : Classes(r)[i] = ClassOf(Base(Here, i))
  <2> TAKE i \in 1 .. n
  <2>1. i \in 1 .. Len(r.todo) /\ r.todo[i].node = nodes[i] /\ IsType(nodes[i])
    BY <1>4, <1>7
  <2>2. View(r, i) = nodes[i] /\ Classes(r)[i] = ClassOf(View(r, i))
    BY <1>5, <2>1, ViewIs DEF AtWork
  <2> QED
    BY <2>2 DEF Base
<1>10. Classes(Top)[1] = Here
  BY <1>1, <1>2, HeadIs, ClassOfIs
<1>11. /\ \A d : d \in Finds(Here, x) <=>
                   \E i \in 1 .. n : d \in Finds(ClassOf(Base(Here, i)), x)
       /\ ~Forks(Here, x) =>
            /\ \A i \in 1 .. n : ~Forks(ClassOf(Base(Here, i)), x)
            /\ \A i, j \in 1 .. n : \/ i = j
                                    \/ Finds(ClassOf(Base(Here, i)), x) = {}
                                    \/ Finds(ClassOf(Base(Here, j)), x) = {}
  BY <1>2, <1>3, BasesAre
<1> HIDE DEF n, nodes, x
<1>12. \A d : d \in Finds(Classes(Top)[1], x) <=>
                \E i \in 1 .. n : d \in Finds(Classes(r)[i], x)
  BY <1>9, <1>10, <1>11
<1>13. ~Forks(Classes(Top)[1], x) => ClearUpTo(Classes(r), n, x)
  BY <1>9, <1>10, <1>11 DEF ClearUpTo
<1> QED
  BY <1>1, <1>5, <1>6, <1>7, <1>8, <1>12, <1>13, ReplacedWay DEF AtWork, x

\* A node that is left behind.
LEMMA TailReplaces ==
  ASSUME AtWork, NEW r \in Resolver,
         r.identifier = Top.identifier, r.todo = Tail(Top.todo)
  PROVE  Replaces(r, 0)
<1>1. Top.todo \in Seq(Item) /\ Top.todo # << >>
  BY HeadIs DEF AtWork, Resolver
<1>2. Len(Tail(Top.todo)) = Len(Top.todo) - 1
      /\ \A i \in 1 .. Len(Top.todo) - 1 : Tail(Top.todo)[i] = Top.todo[i + 1]
  BY <1>1
<1>3. \A i \in 2 .. Len(Top.todo) :
        i - 1 \in 1 .. Len(Top.todo) - 1 /\ i + 0 - 1 = i - 1 /\ (i - 1) + 1 = i
  BY <1>1
<1>4. 0 + Len(Top.todo) - 1 = Len(Top.todo) - 1
  BY <1>1
<1> QED
  BY <1>2, <1>3, <1>4 DEF Replaces

LEMMA UnresolvedWay ==
  ASSUME AtWork, WalkUpFromUnresolved
  PROVE  OnTheWay(resolvers', path')
<1> DEFINE r == Result(NoNode)
           x == Top.identifier
<1>1. /\ program.kind[Here] \in Unresolved \cup {"TypeAliasTemplateDecl"}
      /\ SetTop(r)
  BY DEF WalkUpFromUnresolved, At
<1>2. r \in Resolver
  BY ResultFacts DEF AtWork, TypeInv
<1>3. r.identifier = x /\ r.todo = Tail(Top.todo) /\ r.result = NoNode
  BY HeadIs DEF Result, Resolver
<1>4. ~IsRecord(Here) /\ ~Leads(Here) /\ program.kind[Here] # "ClassTemplateDecl"
  BY <1>1 DEF IsRecord, Leads, Unresolved, Sugar
<1>5. Classes(Top)[1] = NoNode
  BY <1>4, HeadIs, ClassOfIs DEF AtWork, TypeInv
<1>6. \A d : d \in Finds(Classes(Top)[1], x) <=>
               \E i \in 1 .. 0 : d \in Finds(Classes(r)[i], x)
  BY <1>5 DEF Finds
<1>7. ClearUpTo(Classes(r), 0, x)
  BY DEF ClearUpTo
<1>8. \A i \in 1 .. 0 : FormedAt(r, i)
  OBVIOUS
<1> HIDE DEF r
<1>9. Replaces(r, 0)
  BY <1>2, <1>3, TailReplaces
<1> QED
  BY <1>1, <1>2, <1>3, <1>6, <1>7, <1>8, <1>9, ReplacedWay DEF AtWork

-----------------------------------------------------------------------------
(***************************************************************************)
(* A class with one declaration of the name.  It is all there is to find.  *)
(***************************************************************************)
LEMMA HasFoundIs ==
  ASSUME TypeInv, NEW r \in Resolver, r.todo # << >>, HasFound(r)
  PROVE  /\ 1 \in 1 .. Len(r.todo)
         /\ Classes(r)[1] = r.todo[1].node
         /\ Finds(Classes(r)[1], r.identifier)
              = { Member(r.todo[1].node, r.identifier)[1] }
         /\ Member(r.todo[1].node, r.identifier)[1] \in Node
<1> DEFINE c == r.todo[1].node
           x == r.identifier
<1>1. r.todo \in Seq(Item) /\ x \in Name
  BY DEF Resolver
<1>2. 1 \in 1 .. Len(r.todo)
  BY <1>1
<1>3. c \in Node /\ IsRecord(c) /\ Len(Member(c, x)) = 1
  BY <1>2, ViewIs DEF HasFound
<1>4. Classes(r)[1] = ClassOf(c)
  BY <1>2, <1>3, ViewIs DEF IsRecord
<1>5. ClassOf(c) = c
  BY <1>3, ClassOfIs DEF TypeInv
<1>6. Member(c, x) \in Seq(Node)
  BY <1>1, <1>3, KindFacts DEF TypeInv, Member
<1>7. DOMAIN Member(c, x) = {1} /\ Member(c, x)[1] \in Node /\ Member(c, x) # << >>
  <2> DEFINE s == Member(c, x)
  <2>1. s \in Seq(Node) /\ Len(s) = 1
    BY <1>3, <1>6
  <2> HIDE DEF s
  <2>2. DOMAIN s = {1} /\ s[1] \in Node /\ s # << >>
    BY <2>1
  <2> QED
    BY <2>2 DEF s
<1>8. Finds(c, x) = Elements(Member(c, x))
  BY <1>1, <1>3, <1>7, FindsIs DEF TypeInv
<1>9. Elements(Member(c, x)) = { Member(c, x)[1] }
  BY <1>7 DEF Elements
<1> QED
  BY <1>2, <1>4, <1>5, <1>7, <1>8, <1>9

\* The nodes behind it have nothing else.
LEMMA BehindFound ==
  ASSUME TypeInv, NEW q \in Resolver, NEW r \in Resolver, NEW x, x = q.identifier,
         Formed(q), q.todo # << >>, r.todo = Tail(q.todo)
  PROVE  /\ Formed(r)
         /\ HasFound(q) /\ Clear(Classes(q), x) =>
              /\ Clear(Classes(r), x)
              /\ All(Classes(r), x) = {}
              /\ All(Classes(q), x) = { Member(q.todo[1].node, x)[1] }
<1> DEFINE L == Len(q.todo)
           cs == Classes(q)
           ds == Classes(r)
<1>1. q.todo \in Seq(Item) /\ L \in Nat \ {0}
  BY DEF Resolver
<1>2. Len(r.todo) = L - 1 /\ \A i \in 1 .. L - 1 : r.todo[i] = q.todo[i + 1]
  BY <1>1
<1>3. DOMAIN cs = 1 .. L /\ DOMAIN ds = 1 .. L - 1
  BY <1>2 DEF Classes
<1>4. ASSUME NEW i \in 1 .. L - 1
      PROVE  /\ i + 1 \in 1 .. L
             /\ ds[i] = cs[i + 1]
             /\ FormedAt(r, i)
  <2>1. i + 1 \in 1 .. L /\ i + 1 > 1 /\ i \in 1 .. Len(r.todo)
    BY <1>1, <1>2
  <2>2. r.todo[i].node = q.todo[i + 1].node /\ IsType(q.todo[i + 1].node)
    BY <1>2, <2>1 DEF Formed, FormedAt
  <2>3. /\ View(r, i) = r.todo[i].node
        /\ ds[i] = ClassOf(View(r, i))
    BY <2>1, <2>2, ViewIs
  <2>4. /\ View(q, i + 1) = q.todo[i + 1].node
        /\ cs[i + 1] = ClassOf(View(q, i + 1))
    BY <2>1, <2>2, ViewIs
  <2>5. FormedAt(r, i)
    BY <2>2 DEF FormedAt, IsType, Types, Unresolved, Sugar
  <2> QED
    BY <2>1, <2>2, <2>3, <2>4, <2>5
<1>5. Formed(r)
  BY <1>2, <1>4 DEF Formed
<1>6. ASSUME HasFound(q), Clear(cs, x)
      PROVE  /\ Clear(ds, x) /\ All(ds, x) = {}
             /\ All(cs, x) = { Member(q.todo[1].node, x)[1] }
  <2>1. Finds(cs[1], x) = { Member(q.todo[1].node, x)[1] }
    BY <1>6, HasFoundIs
  <2> HIDE DEF L, cs, ds
  <2>2. \A k \in 1 .. L : k # 1 => Finds(cs[k], x) = {}
    <3>1. 1 \in DOMAIN cs /\ Finds(cs[1], x) # {}
      BY <1>1, <1>3, <2>1
    <3> QED
      BY <1>3, <1>6, <3>1 DEF Clear
  <2>3. \A i \in 1 .. L - 1 : i + 1 # 1
    OBVIOUS
  <2>4. \A i \in 1 .. L - 1 : Finds(ds[i], x) = {} /\ ~Forks(ds[i], x)
    BY <1>3, <1>4, <1>6, <2>2, <2>3 DEF Clear
  <2>5. Clear(ds, x) /\ All(ds, x) = {}
    BY <1>3, <2>4 DEF Clear, All
  <2>6. All(cs, x) = Finds(cs[1], x)
    BY <1>1, <1>3, <2>2 DEF All
  <2> QED
    BY <2>1, <2>5, <2>6
<1> QED
  BY <1>5, <1>6

\* It is what the name means where the path has led, and it leads the path on.
LEMMA FoundLeads ==
  ASSUME AtWork, FoundOne, ~Ambiguous, NEW m, m = Len(resolvers)
  PROVE  /\ m \in Nat \ {0} /\ m <= Len(query.names) /\ Len(query.names) \in Nat
         /\ Top.identifier = query.names[m]
         /\ Named(resolvers) /\ NoneTwice(resolvers) /\ Searching(resolvers, path)
         /\ Clear(Classes(Top), Top.identifier)
         /\ HasFound(Top) /\ Formed(Top)
         /\ Found[1] \in Node
         /\ Declared(Path[m - 1], query.names[m]) = { Found[1] }
         /\ FoundKind \in TypeDecls =>
              program.target[Found[1]] \in Node /\ Path[m] = { program.target[Found[1]] }
         /\ FoundKind = "ImplicitDecl" => Path[m] = {}
<1>1. resolvers \in Seq(Resolver) /\ m \in Nat \ {0} /\ Top = resolvers[m]
  BY DEF AtWork, TypeInv, TypeOK, Top
<1>2. query.names \in Seq(Name) /\ Len(query.names) \in Nat
  BY DEF AtWork, TypeInv, TypeOK, Query
<1>3. /\ Named(resolvers) /\ NoneTwice(resolvers) /\ Formed(Top)
      /\ Searching(resolvers, path) \/ Hopeless(resolvers)
  <2>1. ~Answered(resolvers)
    BY DEF AtWork, Answered, Top
  <2> QED
    BY <1>1, <2>1 DEF AtWork, OnTheWay, AllFormed
<1>4. m <= Len(query.names) /\ Top.identifier = query.names[m]
      /\ Clear(Classes(Top), Top.identifier)
  BY <1>1, <1>3 DEF Named, NoneTwice
<1>5. Top \in Resolver /\ Top.todo # << >> /\ Here = Top.todo[1].node
  BY HeadIs DEF AtWork
<1>6. Found = Member(Here, Top.identifier)
  BY DEF Found, Member
<1>7. HasFound(Top)
  BY <1>5, <1>6 DEF FoundOne, At, HasFound, IsRecord
<1>8. All(Classes(Top), Top.identifier) = { Found[1] } /\ Found[1] \in Node
  <2>1. Member(Top.todo[1].node, Top.identifier)[1] = Found[1]
    BY <1>5, <1>6
  <2>2. Tail(Top.todo) \in Seq(Item)
    BY HereFacts DEF AtWork, TypeInv
  <2>3. [Top EXCEPT !.todo = Tail(Top.todo)] \in Resolver
        /\ [Top EXCEPT !.todo = Tail(Top.todo)].todo = Tail(Top.todo)
    BY <1>5, <2>2 DEF Resolver
  <2>4. All(Classes(Top), Top.identifier) = { Member(Top.todo[1].node, Top.identifier)[1] }
    BY <1>3, <1>4, <1>5, <1>7, <2>3, BehindFound DEF AtWork
  <2>5. Member(Top.todo[1].node, Top.identifier)[1] \in Node
    BY <1>5, <1>7, HasFoundIs DEF AtWork
  <2> QED
    BY <2>1, <2>4, <2>5
<1>9. Searching(resolvers, path)
  BY <1>1, <1>3, <1>4, <1>8 DEF Hopeless
<1>10. Declared(Path[m - 1], query.names[m]) = { Found[1] }
  BY <1>1, <1>4, <1>8, <1>9 DEF Searching
<1>11. Path[m] = TypesOf({ Found[1] })
  <2>1. m - 1 \in Nat /\ (m - 1) + 1 = m
    BY <1>1
  <2>2. Path[(m - 1) + 1] = TypesOf(Declared(Path[m - 1], query.names[(m - 1) + 1]))
    BY <2>1, PathIs DEF AtWork, TypeInv
  <2> QED
    BY <1>10, <2>1, <2>2
<1>12. /\ FoundKind \in TypeDecls =>
            program.target[Found[1]] \in Node /\ Path[m] = { program.target[Found[1]] }
       /\ FoundKind = "ImplicitDecl" => Path[m] = {}
  <2>1. FoundKind \in TypeDecls => program.target[Found[1]] \in Node
    BY <1>8, KindFacts DEF FoundKind, AtWork, TypeInv
  <2> QED
    BY <1>11, <2>1 DEF TypesOf, FoundKind, TypeDecls
<1> QED
  BY <1>1, <1>2, <1>3, <1>4, <1>7, <1>8, <1>9, <1>10, <1>12

\* The one declaration is the result, or leaves nothing to be found.
LEMMA ResultWay ==
  ASSUME AtWork, FoundResult
  PROVE  OnTheWay(resolvers', path')
<1> DEFINE m == Len(resolvers)
           L == Len(query.names)
           inner == Inner = "InnerDeclResolver"
           result == FoundAnswer
           r == Result(result)
<1>1. /\ FoundOne /\ Understood(Inner, FoundKind) /\ ~PathGoesOn /\ SetTop(r)
  BY DEF FoundResult
<1>2. /\ Top \in Resolver /\ Formed(Top) /\ Top.todo # << >>
      /\ program \in Programs /\ NoNode \notin Node
      /\ Found[1] \in Node
  BY <1>1, HeadIs, FoundFacts, NameResolverAssumption
     DEF AtWork, TypeInv, OnTheWay, AllFormed, TypeOK, Top
<1>3. result \in Node \cup {NoNode}
  BY <1>2, KindFacts DEF FoundAnswer
<1>4. r \in Resolver
  BY <1>3, ResultFacts DEF AtWork, TypeInv
<1>5. /\ r.identifier = Top.identifier /\ r.result = result
      /\ r.todo = IF result = NoNode THEN Tail(Top.todo) ELSE << >>
  BY <1>2 DEF Result, Resolver
<1> HIDE DEF r
<1>6. Formed(r)
  <2>1. CASE result = NoNode
    BY <1>2, <1>4, <1>5, <2>1, BehindFound DEF AtWork
  <2>2. CASE result # NoNode
    BY <1>5, <2>2 DEF Formed
  <2> QED
    BY <2>1, <2>2
<1>7. ASSUME ~Ambiguous
      PROVE  /\ Clear(Classes(r), Top.identifier)
             /\ \/ /\ r.result = NoNode /\ Answers = {}
                   /\ All(Classes(r), Top.identifier) = {}
                \/ r.result # NoNode /\ r.todo = << >> /\ r.result \in Answers
  <2>1. /\ m \in Nat \ {0} /\ m <= L /\ L \in Nat
        /\ Clear(Classes(Top), Top.identifier) /\ HasFound(Top)
        /\ Searching(resolvers, path)
        /\ Declared(Path[m - 1], query.names[m]) = { Found[1] }
        /\ FoundKind \in TypeDecls =>
             program.target[Found[1]] \in Node /\ Path[m] = { program.target[Found[1]] }
        /\ FoundKind = "ImplicitDecl" => Path[m] = {}
        /\ inner \/ FoundKind = "ImplicitDecl" \/ FoundKind \in TypeDecls
    BY <1>1, <1>7, FoundLeads DEF Understood, TypeDecls
  <2> HIDE DEF m, L
  <2>2. CASE result = NoNode
    <3>1. ~inner /\ FoundKind = "ImplicitDecl"
      BY <1>2, <2>1, <2>2 DEF FoundAnswer
    <3>2. query.wanted = "type"
      BY <3>1 DEF Inner, AtWork, TypeInv, TypeOK, Query
    <3>3. Answers = {}
      BY <2>1, <3>1, <3>2, PathEnds DEF Answers, L, AtWork, TypeInv
    <3>4. Clear(Classes(r), Top.identifier) /\ All(Classes(r), Top.identifier) = {}
      BY <1>2, <1>4, <1>5, <2>1, <2>2, BehindFound DEF AtWork
    <3> QED
      BY <1>5, <2>2, <3>3, <3>4
  <2>3. CASE result # NoNode
    <3>1. r.todo = << >> /\ r.result = result
      BY <1>5, <2>3
    <3>2. Clear(Classes(r), Top.identifier)
      BY <3>1 DEF Clear, Classes
    <3>3. CASE inner
      <4>1. query.wanted = "declaration"
        BY <3>3 DEF Inner
      <4>2. L = 1 /\ m = 1
        BY <2>1, <4>1 DEF AtWork, OnTheWay, AllFormed, L
      <4>3. Path[m - 1] = {query.container}
        BY <4>2, PathIs DEF AtWork, TypeInv
      <4>4. Answers = { Found[1] }
        BY <2>1, <4>1, <4>2, <4>3 DEF Answers
      <4> QED
        BY <2>3, <3>1, <3>2, <3>3, <4>4 DEF FoundAnswer
    <3>4. CASE ~inner
      <4>1. query.wanted = "type"
        BY <3>4 DEF Inner, AtWork, TypeInv, TypeOK, Query
      <4>2. FoundKind # "ImplicitDecl"
        BY <2>3, <3>4 DEF FoundAnswer
      <4>3. result = program.target[Found[1]] /\ FoundKind \in TypeDecls
        BY <2>1, <3>4, <4>2 DEF FoundAnswer
      <4>4. m = L
        <5>1. CASE Inner = "InnerNameResolver"
          <6>1. L = 1
            BY <5>1 DEF Inner, L
          <6> QED
            BY <2>1, <6>1
        <5>2. CASE Inner = "IdentifierPathResolver"
          <6>1. path = << >>
            BY <1>1, <4>2, <5>2 DEF Understood, PathGoesOn
          <6>2. path = SubSeq(query.names, m + 1, L)
            BY <2>1 DEF Searching, m, L
          <6>3. query.names \in Seq(Name)
            BY DEF AtWork, TypeInv, TypeOK, Query
          <6>4. m < L => Len(SubSeq(query.names, m + 1, L)) = L - m
            BY <2>1, <6>3, SubSeqProperties DEF L
          <6>5. Len(<< >>) = 0
            OBVIOUS
          <6> QED
            BY <2>1, <6>1, <6>2, <6>4, <6>5
        <5> QED
          BY <3>4, <5>1, <5>2 DEF Inner
      <4>5. Answers = { result }
        BY <2>1, <4>1, <4>3, <4>4 DEF Answers, L
      <4> QED
        BY <2>3, <3>1, <3>2, <4>5
    <3> QED
      BY <3>3, <3>4
  <2> QED
    BY <2>2, <2>3
<1> QED
  BY <1>1, <1>4, <1>5, <1>6, <1>7, SetTopWay DEF AtWork

\* The names that are left, one by one.
LEMMA NamesLeft ==
  ASSUME NEW names \in Seq(Name), NEW m \in Nat, NEW rest,
         rest = SubSeq(names, m + 1, Len(names))
  PROVE  rest # << >> => /\ m + 1 <= Len(names)
                         /\ Head(rest) = names[m + 1]
                         /\ Tail(rest) = SubSeq(names, m + 2, Len(names))
<1> DEFINE L == Len(names)
<1>1. L \in Nat /\ \A i \in 1 .. L : names[i] \in Name
  OBVIOUS
<1> HIDE DEF L
<1>2. ASSUME rest # << >>
      PROVE  m + 1 <= L
  <2>1. L < m + 1 => rest = << >>
    BY <1>1, SubSeqEmpty DEF L
  <2> QED
    BY <1>1, <1>2, <2>1
<1>3. ASSUME m + 1 <= L
      PROVE  /\ Head(rest) = names[m + 1]
             /\ Tail(rest) = SubSeq(names, m + 2, L)
  <2>1. \A k \in 1 .. m + 2 : \A i \in k .. L : names[i] \in Name
    BY <1>1
  <2>2. /\ rest \in Seq(Name) /\ Len(rest) = L - m
        /\ \A i \in 1 .. L - m : rest[i] = names[m + i]
    <3>1. /\ m + 1 \in Int /\ L \in Int /\ m + 1 \in 1 .. m + 2
          /\ L - (m + 1) + 1 = L - m /\ \A i \in Int : (m + 1) + i - 1 = m + i
      BY <1>1
    <3>2. /\ rest \in Seq(Name)
          /\ Len(rest) = IF m + 1 <= L THEN L - (m + 1) + 1 ELSE 0
          /\ \A i \in 1 .. L - (m + 1) + 1 : rest[i] = names[(m + 1) + i - 1]
      BY <2>1, <3>1, SubSeqProperties DEF L
    <3> QED
      BY <1>3, <3>1, <3>2
  <2> DEFINE next == SubSeq(names, m + 2, L)
  <2>3. /\ next \in Seq(Name) /\ Len(next) = L - m - 1
        /\ \A i \in 1 .. L - m - 1 : next[i] = names[m + 1 + i]
    <3>1. /\ m + 2 \in Int /\ L \in Int /\ m + 2 \in 1 .. m + 2
          /\ L - (m + 2) + 1 = L - m - 1 /\ \A i \in Int : (m + 2) + i - 1 = m + 1 + i
      BY <1>1
    <3>2. /\ next \in Seq(Name)
          /\ Len(next) = IF m + 2 <= L THEN L - (m + 2) + 1 ELSE 0
          /\ \A i \in 1 .. L - (m + 2) + 1 : next[i] = names[(m + 2) + i - 1]
      BY <2>1, <3>1, SubSeqProperties
    <3>3. (IF m + 2 <= L THEN L - m - 1 ELSE 0) = L - m - 1
      BY <1>1, <1>3
    <3> QED
      BY <3>1, <3>2, <3>3
  <2>4. 1 \in 1 .. L - m /\ L - m - 1 \in Nat /\ rest # << >>
    <3>1. L - m >= 1 /\ L - m - 1 \in Nat
      BY <1>1, <1>3
    <3>2. Len(<< >>) = 0
      OBVIOUS
    <3> QED
      BY <2>2, <3>1, <3>2
  <2>5. Head(rest) = names[m + 1]
    BY <2>2, <2>4
  <2> HIDE DEF next
  <2>6. /\ Tail(rest) \in Seq(Name) /\ Len(Tail(rest)) = L - m - 1
        /\ \A i \in 1 .. L - m - 1 : Tail(rest)[i] = rest[i + 1]
    BY <1>1, <2>2, <2>4
  <2>7. \A i \in 1 .. L - m - 1 : i + 1 \in 1 .. L - m /\ m + (i + 1) = m + 1 + i
    BY <1>1
  <2>8. \A i \in 1 .. Len(Tail(rest)) : Tail(rest)[i] = next[i]
    <3> TAKE i \in 1 .. Len(Tail(rest))
    <3>1. Tail(rest)[i] = rest[i + 1] /\ rest[i + 1] = names[m + (i + 1)]
      BY <2>2, <2>6, <2>7
    <3> QED
      BY <2>3, <2>6, <2>7, <3>1
  <2>9. Tail(rest) = next
    BY <2>3, <2>6, <2>8, SeqEqual
  <2> QED
    BY <2>5, <2>9 DEF next
<1> QED
  BY <1>2, <1>3 DEF L

\* A resolver for the next name has one type to search, the one the path led to.
LEMMA NewWay ==
  ASSUME TypeOK, program \in Programs, NEW t \in Node, IsType(t), NEW x, NEW depth \in Nat
  PROVE  LET r == NewResolver(x, t, depth)
         IN  /\ Formed(r)
             /\ r.identifier = x /\ r.result = NoNode
             /\ All(Classes(r), x) = Lookup(t, x)
             /\ ~Several(t, x) => Clear(Classes(r), x)
<1> DEFINE r == NewResolver(x, t, depth)
<1>1. /\ r.identifier = x /\ r.result = NoNode
      /\ Len(r.todo) = 1 /\ r.todo[1].node = t
  BY DEF NewResolver
<1> HIDE DEF r
<1>2. program.kind[t] # "ClassTemplateDecl"
  BY DEF IsType, Types, Unresolved, Sugar
<1>3. Formed(r)
  BY <1>1, <1>2 DEF Formed, FormedAt
<1>4. DOMAIN Classes(r) = {1} /\ Classes(r)[1] = ClassOf(t)
  BY <1>1, <1>2 DEF Classes, View
<1>5. All(Classes(r), x) = Lookup(t, x)
  BY <1>4, LookupFinds DEF All
<1>6. ~Several(t, x) => Clear(Classes(r), x)
  BY <1>4, LookupFinds DEF Clear
<1> QED
  BY <1>1, <1>3, <1>5, <1>6 DEF r

LEMMA FollowWay ==
  ASSUME AtWork, FollowPath
  PROVE  OnTheWay(resolvers', path')
<1> DEFINE m == Len(resolvers)
           L == Len(query.names)
           t == program.target[Found[1]]
           x == Head(path)
           r == NewResolver(x, t, Current.depth + 1)
<1>1. /\ FoundOne /\ PathGoesOn /\ FoundKind = "TypedefDecl" /\ path # << >>
      /\ path' = Tail(path) /\ resolvers' = Append(resolvers, r)
  BY DEF FollowPath, PathGoesOn
<1>2. query.wanted = "type"
  BY <1>1 DEF PathGoesOn, Inner, AtWork, TypeInv, TypeOK, Query
<1>3. Found[1] \in Node /\ program \in Programs
  BY <1>1, FoundFacts DEF AtWork, TypeInv
<1>4. t \in Node /\ IsType(t)
  <2>1. program.kind[Found[1]] = "TypedefDecl"
    BY <1>1 DEF FoundKind
  <2>2. t \in Node
    BY <1>3, <2>1, KindFacts DEF TypeDecls
  <2>3. program.kind[t] \in TargetKinds(program.kind[Found[1]])
    BY <1>3, <2>2, KindFacts, NameResolverAssumption
  <2>4. TargetKinds(program.kind[Found[1]]) = Types
    BY <2>1 DEF TargetKinds, TypeDecls
  <2> QED
    BY <2>2, <2>3, <2>4 DEF IsType
<1>5. Current.depth + 1 \in Nat
  BY HereFacts, NameResolverAssumption DEF AtWork, TypeInv
<1>6. /\ Formed(r)
      /\ r.identifier = x /\ r.result = NoNode
      /\ All(Classes(r), x) = Lookup(t, x)
      /\ ~Several(t, x) => Clear(Classes(r), x)
  BY <1>3, <1>4, <1>5, NewWay DEF AtWork, TypeInv
<1> HIDE DEF t, r
<1>7. resolvers \in Seq(Resolver) /\ m \in Nat \ {0} /\ Top = resolvers[m]
  BY DEF AtWork, TypeInv, TypeOK, Top
<1>8. /\ Len(resolvers') = m + 1 /\ resolvers'[m + 1] = r
      /\ \A k \in 1 .. m : resolvers'[k] = resolvers[k]
  BY <1>1, <1>7
<1>9. AllFormed(resolvers')
  BY <1>2, <1>6, <1>7, <1>8 DEF AllFormed, AtWork, OnTheWay
<1>10. ASSUME ~Ambiguous
       PROVE  Named(resolvers') /\ NoneTwice(resolvers') /\ Searching(resolvers', path')
  <2>1. /\ Named(resolvers) /\ NoneTwice(resolvers) /\ Searching(resolvers, path)
        /\ HasFound(Top)
        /\ Path[m] = { t }
    BY <1>1, <1>4, <1>10, FoundLeads DEF t, TypeDecls
  <2>2. query.names \in Seq(Name) /\ L \in Nat
    BY DEF AtWork, TypeInv, TypeOK, Query
  <2>3. path = SubSeq(query.names, m + 1, L)
    BY <2>1 DEF Searching
  <2>4. m + 1 <= L /\ x = query.names[m + 1] /\ path' = SubSeq(query.names, m + 2, L)
    BY <1>1, <1>7, <2>2, <2>3, NamesLeft
  <2>5. m + 1 \in DOMAIN query.names /\ (m + 1) - 1 = m
    BY <1>7, <2>2, <2>4
  <2>6. ~Several(t, x)
    BY <1>10, <2>1, <2>4, <2>5 DEF Ambiguous
  <2> HIDE DEF m, L, x
  <2>7. Named(resolvers')
    BY <1>6, <1>7, <1>8, <2>1, <2>4 DEF Named, m, L
  <2>8. NoneTwice(resolvers')
    BY <1>6, <1>7, <1>8, <2>1, <2>4, <2>6 DEF NoneTwice, m
  <2>9. Declared(Path[m], x) = Lookup(t, x)
    BY <2>1 DEF Declared
  <2>10. (m + 1) + 1 = m + 2
    BY <1>7
  <2>11. Searching(resolvers', path')
    BY <1>6, <1>8, <2>4, <2>5, <2>9, <2>10 DEF Searching, L
  <2> QED
    BY <2>7, <2>8, <2>11
<1> QED
  BY <1>9, <1>10 DEF OnTheWay

\* A result is the answer of the resolvers that wait for it, and so is none.
LEMMA ReturnWay ==
  ASSUME TypeInv, OnTheWay(resolvers, path), ReturnToOuter
  PROVE  OnTheWay(resolvers', path')
<1> DEFINE m == Len(resolvers) - 1
           q == resolvers[m]
           r == resolvers'[m]
<1>1. /\ m \in Nat \ {0} /\ Len(resolvers) = m + 1
      /\ q \in Resolver /\ q.todo # << >>
      /\ Len(resolvers') = m
      /\ \A k \in 1 .. m : k # m => resolvers'[k] = resolvers[k]
      /\ r \in Resolver /\ r.identifier = q.identifier
      /\ r.result = Top.result
      /\ r.todo = IF Top.result = NoNode THEN Tail(q.todo) ELSE << >>
  BY ReturnIs DEF ReturnToOuter, TypeInv, TypeOK
<1>2. Top = resolvers[m + 1] /\ resolvers # << >> /\ Top.todo = << >>
  BY <1>1 DEF Top, ReturnToOuter, Exhausted
<1> HIDE DEF m, r
<1>3. AllFormed(resolvers) /\ Formed(q)
  BY <1>1, <1>2 DEF OnTheWay, AllFormed
<1>4. Formed(r)
  <2>1. CASE Top.result = NoNode
    BY <1>1, <1>3, <2>1, BehindFound
  <2>2. CASE Top.result # NoNode
    BY <1>1, <2>2 DEF Formed
  <2> QED
    BY <2>1, <2>2
<1>5. AllFormed(resolvers')
  BY <1>1, <1>3, <1>4 DEF AllFormed, r
<1>6. ASSUME ~Ambiguous
      PROVE  Named(resolvers') /\ NoneTwice(resolvers')
             /\ (Hopeless(resolvers') \/ Answered(resolvers'))
  <2>1. /\ Named(resolvers) /\ NoneTwice(resolvers)
        /\ Searching(resolvers, path) \/ Hopeless(resolvers) \/ Answered(resolvers)
    BY <1>2, <1>6 DEF OnTheWay
  <2>2. query.names \in Seq(Name) /\ Len(query.names) \in Nat
    BY DEF TypeInv, TypeOK, Query
  <2>3. /\ m + 1 <= Len(query.names)
        /\ q.identifier = query.names[m]
        /\ Clear(Classes(q), query.names[m])
        /\ HasFound(q)
    BY <1>1, <2>1 DEF Named, NoneTwice
  <2>4. Named(resolvers')
    BY <1>1, <2>1, <2>2, <2>3 DEF Named, r
  <2>5. Top.result = NoNode => /\ Clear(Classes(r), query.names[m])
                              /\ All(Classes(r), query.names[m]) = {}
    BY <1>1, <1>3, <2>3, BehindFound
  <2>6. Top.result # NoNode => Clear(Classes(r), query.names[m])
    BY <1>1 DEF Clear, Classes
  <2>7. NoneTwice(resolvers')
    BY <1>1, <2>1, <2>5, <2>6 DEF NoneTwice, r
  <2>8. CASE Top.result # NoNode
    <3>1. Answered(resolvers)
      BY <1>1, <1>2, <2>1, <2>8 DEF Searching, Hopeless
    <3>2. Answered(resolvers')
      BY <1>1, <1>2, <2>8, <3>1 DEF Answered, r
    <3> QED
      BY <2>4, <2>7, <3>2
  <2>9. CASE Top.result = NoNode
    <3>1. Answers = {}
      <4>1. CASE Hopeless(resolvers)
        BY <4>1 DEF Hopeless
      <4>2. CASE Searching(resolvers, path)
        <5>1. All(Classes(Top), query.names[m + 1]) = {}
          BY <1>2 DEF All, Classes
        <5>2. Declared(Path[m], query.names[m + 1]) = {}
          <6>1. (m + 1) - 1 = m
            BY <1>1
          <6> QED
            BY <1>1, <1>2, <4>2, <5>1, <6>1 DEF Searching
        <5>3. Path[m + 1] = {}
          BY <1>1, <5>2, PathIs DEF TypeInv, TypesOf
        <5>4. Path[Len(query.names)] = {}
          BY <1>1, <2>2, <2>3, <5>3, PathEnds DEF TypeInv
        <5>5. query.wanted = "type"
          <6>1. Len(query.names) # 1
            <7>1. m \in Nat /\ m # 0 /\ m + 1 <= Len(query.names)
              BY <1>1, <2>3
            <7>2. \A k, l \in Nat : k # 0 /\ k + 1 <= l => l # 1
              OBVIOUS
            <7> QED
              BY <2>2, <7>1, <7>2
          <6>2. query.wanted \in {"type", "declaration"}
            BY DEF TypeInv, TypeOK, Query
          <6> QED
            BY <1>3, <6>1, <6>2 DEF AllFormed
        <5> QED
          BY <5>4, <5>5 DEF Answers
      <4>3. ~Answered(resolvers)
        BY <1>1, <1>2, <2>9 DEF Answered
      <4> QED
        BY <2>1, <4>1, <4>2, <4>3
    <3>2. Hopeless(resolvers')
      BY <1>1, <2>5, <2>9, <3>1 DEF Hopeless, r
    <3> QED
      BY <2>4, <2>7, <3>2
  <2> QED
    BY <2>8, <2>9
<1> QED
  BY <1>5, <1>6 DEF OnTheWay

\* The search begins with the type that the qualifier ends with.
LEMMA StartWay ==
  ASSUME TypeInv, query \in Queries, Start,
         query.wanted = "declaration" => Len(query.names) = 1
  PROVE  OnTheWay(resolvers', path')
<1> DEFINE t == query.container
           x == Head(query.names)
           r == NewResolver(x, t, 1)
<1>1. /\ t \in Node /\ query.names \in Seq(Name) /\ query.names # << >>
      /\ query.wanted \in {"type", "declaration"}
  BY DEF TypeInv, TypeOK, Query
<1>2. /\ Len(query.names) \in Nat \ {0} /\ x = query.names[1]
      /\ Tail(query.names) = SubSeq(query.names, 2, Len(query.names))
  BY <1>1
<1>3. IsType(t)
  BY NameResolverAssumption DEF TypeInv, IsType
<1>4. /\ Formed(r)
      /\ r.identifier = x /\ r.result = NoNode
      /\ All(Classes(r), x) = Lookup(t, x)
      /\ ~Several(t, x) => Clear(Classes(r), x)
  BY <1>1, <1>3, NewWay DEF TypeInv
<1> HIDE DEF r
<1>5. resolvers' = << r >> /\ path' = Tail(query.names)
  BY DEF Start, r
<1>6. Len(resolvers') = 1 /\ resolvers'[1] = r
  BY <1>5
<1>7. AllFormed(resolvers')
  BY <1>4, <1>6 DEF AllFormed
<1>8. Path[0] = {t}
  BY PathIs DEF TypeInv
<1>9. ~Ambiguous => ~Several(t, x)
  <2>1. 1 \in DOMAIN query.names /\ 1 - 1 = 0
    BY <1>1
  <2> QED
    BY <1>2, <1>8, <2>1 DEF Ambiguous
<1>10. Named(resolvers')
  BY <1>2, <1>4, <1>6 DEF Named
<1>11. ~Ambiguous => NoneTwice(resolvers')
  BY <1>2, <1>4, <1>6, <1>9 DEF NoneTwice
<1>12. Searching(resolvers', path')
  <2>1. Declared(Path[1 - 1], query.names[1]) = Lookup(t, x)
    BY <1>2, <1>8 DEF Declared
  <2> QED
    BY <1>2, <1>4, <1>5, <1>6, <2>1 DEF Searching
<1> QED
  BY <1>7, <1>10, <1>11, <1>12 DEF OnTheWay

-----------------------------------------------------------------------------
(***************************************************************************)
(* The lookup of C++ has enough steps as well, and finds what is found     *)
(* where the code goes.                                                    *)
(***************************************************************************)
CxxBy(h) ==
  [t \in Node |-> [x \in Name |->
     IF HasMember(t, x) THEN Elements(Member(t, x))
                        ELSE UNION { h[u][x] : u \in CxxNext(t) }]]

LEMMA CxxNextFacts ==
  ASSUME program \in Programs, NEW t \in Node
  PROVE  CxxNext(t) \subseteq Node
<1>1. Elements(program.bases[t]) \subseteq Node
  BY KindFacts DEF Elements
<1>2. program.kind[t] \in LooksThrough => StandsFor(t) \in Node
  BY KindFacts DEF StandsFor
<1> QED
  BY <1>1, <1>2 DEF CxxNext

LEMMA CxxLookupInIs ==
  ASSUME program \in Programs
  PROVE  /\ CxxLookupIn[0] = CxxBy([t \in Node |-> [x \in Name |-> {}]])
         /\ \A n \in Nat : CxxLookupIn[n + 1] = CxxBy(CxxLookupIn[n])
         /\ \A n \in Nat : CxxLookupIn[n] \in Class
<1> DEFINE F == [h \in Class |-> CxxBy(h)]
           none == [t \in Node |-> [x \in Name |-> {}]]
           first == CxxBy(none)
           Body(f, n) ==
             [t \in Node |-> [x \in Name |->
                IF HasMember(t, x)
                  THEN Elements(program.members[t][x])
                  ELSE IF n = 0 THEN {}
                       ELSE UNION { f[n - 1][u][x] : u \in CxxNext(t) }]]
           Is(f) == f = [n \in Nat |-> Body(f, n)]
<1>1. \A h \in Class : CxxBy(h) \in Class
  <2> TAKE h \in Class
  <2>1. ASSUME NEW t \in Node, NEW x \in Name
        PROVE  (IF HasMember(t, x) THEN Elements(Member(t, x))
                  ELSE UNION { h[u][x] : u \in CxxNext(t) }) \in SUBSET Node
    <3>1. \A u \in CxxNext(t) : h[u][x] \in SUBSET Node
      BY CxxNextFacts DEF Class
    <3> QED
      BY <3>1, ElementsFacts
  <2> QED
    BY <2>1 DEF CxxBy, Class
<1>2. none \in Class
  BY DEF Class
<1>3. first \in Class /\ F \in [Class -> Class]
  BY <1>1, <1>2
<1>4. \A f : Body(f, 0) = first
  <2> TAKE f
  <2>1. ASSUME NEW t \in Node, NEW x \in Name
        PROVE  UNION { none[u][x] : u \in CxxNext(t) } = {}
    BY CxxNextFacts
  <2> QED
    BY <2>1 DEF CxxBy, Member
<1>5. \A f : \A n \in Nat : n # 0 => Body(f, n) = CxxBy(f[n - 1])
  BY DEF CxxBy, Member
<1>6. \A h \in Class : F[h] = CxxBy(h)
  OBVIOUS
<1> HIDE DEF F, first, Body
<1>7. PICK g : Recursion(g, Class, F, first)
  <2> HIDE DEF none
  <2> QED
    BY <1>3, Recursive
<1>8. \A n \in Nat : g[n] = Body(g, n)
  <2> TAKE n \in Nat
  <2>1. g[n] = IF n = 0 THEN first ELSE F[g[n - 1]]
    BY <1>7 DEF Recursion
  <2>2. n # 0 => g[n - 1] \in Class
    BY <1>7 DEF Recursion
  <2> QED
    BY <1>4, <1>5, <1>6, <2>1, <2>2
<1>9. Is(g)
  BY <1>7, <1>8 DEF Recursion
<1>10. CxxLookupIn = CHOOSE f : Is(f)
  BY DEF CxxLookupIn, Body
<1>11. Is(CxxLookupIn)
  <2> HIDE DEF Is
  <2> QED
    BY <1>9, <1>10
<1>12. CxxLookupIn[0] = first
  BY <1>4, <1>11
<1>13. \A n \in Nat : CxxLookupIn[n + 1] = CxxBy(CxxLookupIn[n])
  <2> TAKE n \in Nat
  <2>1. n + 1 \in Nat /\ n + 1 # 0 /\ (n + 1) - 1 = n
    OBVIOUS
  <2> QED
    BY <1>5, <1>11, <2>1
<1>14. \A n \in Nat : CxxLookupIn[n] \in Class
  <2> DEFINE S == { n \in Nat : CxxLookupIn[n] \in Class }
  <2>1. 0 \in S
    BY <1>3, <1>12
  <2>2. \A n \in S : n + 1 \in S
    BY <1>1, <1>13
  <2>3. S = Nat
    <3> HIDE DEF S
    <3>1. S \in SUBSET Nat
      BY DEF S
    <3> QED
      BY <2>1, <2>2, <3>1, Induct
  <2> QED
    BY <2>3
<1> QED
  BY <1>12, <1>13, <1>14 DEF first

LEMMA CxxLookupIs ==
  ASSUME program \in Programs, NEW t \in Node, NEW x \in Name
  PROVE  /\ HasMember(t, x) => CxxLookup(t, x) = Elements(Member(t, x))
         /\ ~HasMember(t, x) => \A u \in CxxNext(t) : CxxLookup(u, x) \subseteq CxxLookup(t, x)
<1>1. IsFiniteSet(Node) /\ NumberOfNodes \in Nat
  BY NodesAreFinite
<1>2. \A u \in Node : CxxLookup(u, x) = CxxLookupIn[NumberOfNodes][u][x]
  BY DEF CxxLookup, NumberOfNodes
<1>3. \A u \in Node : CxxLookup(u, x) \subseteq Node
  <2>1. CxxLookupIn[NumberOfNodes] \in [Node -> [Name -> SUBSET Node]]
    BY <1>1, CxxLookupInIs DEF Class
  <2> QED
    BY <1>2, <2>1
<1>4. ASSUME NEW d \in Node
      PROVE  d \in CxxLookup(t, x) <=>
               IF HasMember(t, x) THEN d \in Elements(Member(t, x))
                                  ELSE \E u \in CxxNext(t) : d \in CxxLookup(u, x)
  <2> DEFINE Step(S) ==
               { k \in Node : IF HasMember(k, x) THEN d \in Elements(Member(k, x))
                                                 ELSE \E u \in CxxNext(k) : u \in S }
             s == [n \in Nat |-> { k \in Node : d \in CxxLookupIn[n][k][x] }]
             F == [S \in SUBSET Node |-> Step(S)]
  <2>1. \A n \in Nat : s[n + 1] = Step(s[n])
    <3> TAKE n \in Nat
    <3>1. s[n] = { k \in Node : d \in CxxLookupIn[n][k][x] }
          /\ s[n + 1] = { k \in Node : d \in CxxLookupIn[n + 1][k][x] }
      OBVIOUS
    <3>2. \A k \in Node : d \in CxxLookupIn[n + 1][k][x] <=>
            IF HasMember(k, x) THEN d \in Elements(Member(k, x))
              ELSE \E u \in CxxNext(k) : d \in CxxLookupIn[n][u][x]
      <4>1. CxxLookupIn[n + 1] = CxxBy(CxxLookupIn[n])
        BY CxxLookupInIs
      <4> QED
        BY <4>1 DEF CxxBy
    <3>3. \A k \in Node : CxxNext(k) \subseteq Node
      BY CxxNextFacts
    <3> HIDE DEF s
    <3> QED
      BY <3>1, <3>2, <3>3
  <2>2. s[0] \subseteq s[1]
    <3>1. s[0 + 1] = Step(s[0])
      BY <2>1
    <3>2. \A k \in s[0] : k \in Node /\ HasMember(k, x) /\ d \in Elements(Member(k, x))
      <4>1. \A k \in Node : CxxNext(k) \subseteq Node
        BY CxxNextFacts
      <4> QED
        BY <4>1, CxxLookupInIs DEF CxxBy
    <3> HIDE DEF s
    <3> QED
      BY <3>1, <3>2
  <2>3. \A S, T : S \subseteq T => Step(S) \subseteq Step(T)
    OBVIOUS
  <2>4. s \in [Nat -> SUBSET Node] /\ F \in [SUBSET Node -> SUBSET Node]
    OBVIOUS
  <2>5. \A S \in SUBSET Node : F[S] = Step(S)
    OBVIOUS
  <2>6. s[NumberOfNodes] = { k \in Node : d \in CxxLookup(k, x) }
    BY <1>1, <1>2
  <2>7. t \in { k \in Node : d \in CxxLookup(k, x) } <=>
          t \in Step({ k \in Node : d \in CxxLookup(k, x) })
    <3> HIDE DEF s, F, Step
    <3>1. Chain(s, Node, F)
      BY <2>1, <2>2, <2>3, <2>4, <2>5 DEF Chain
    <3>2. F[s[NumberOfNodes]] = s[NumberOfNodes]
      BY <3>1, <1>1, ChainSettles DEF NumberOfNodes
    <3>3. s[NumberOfNodes] \in SUBSET Node
      BY <2>4, <1>1
    <3> QED
      BY <2>5, <2>6, <3>2, <3>3
  <2>8. CxxNext(t) \subseteq Node
    BY CxxNextFacts
  <2> QED
    BY <2>7, <2>8
<1>5. Elements(Member(t, x)) \subseteq Node /\ CxxNext(t) \subseteq Node
  BY ElementsFacts, CxxNextFacts
<1> QED
  BY <1>3, <1>4, <1>5

\* What the class has that a type is, the type has.
LEMMA ClassHas ==
  ASSUME program \in Programs, NEW x \in Name
  PROVE  \A t \in Node : ClassOf(t) # NoNode =>
           /\ ClassOf(t) \in Node /\ IsRecord(ClassOf(t))
           /\ CxxLookup(ClassOf(t), x) \subseteq CxxLookup(t, x)
<1> DEFINE Good(n) ==
             \A t \in Node : ClassIn[n][t] # NoNode =>
               /\ ClassIn[n][t] \in Node /\ IsRecord(ClassIn[n][t])
               /\ CxxLookup(ClassIn[n][t], x) \subseteq CxxLookup(t, x)
           S == { n \in Nat : Good(n) }
<1>1. 0 \in S
  BY ClassInIs
<1>2. ASSUME NEW n \in S PROVE n + 1 \in S
  <2>1. n \in Nat /\ n + 1 \in Nat /\ Good(n)
    BY <1>2
  <2>2. ClassIn[n + 1] = ClassBy(ClassIn[n])
    BY <2>1, ClassInIs
  <2>3. ASSUME NEW t \in Node, ClassIn[n + 1][t] # NoNode
        PROVE  /\ ClassIn[n + 1][t] \in Node /\ IsRecord(ClassIn[n + 1][t])
               /\ CxxLookup(ClassIn[n + 1][t], x) \subseteq CxxLookup(t, x)
    <3>1. CASE IsRecord(t)
      BY <2>2, <3>1 DEF ClassBy
    <3>2. CASE ~IsRecord(t)
      <4>1. Leads(t) /\ ClassIn[n + 1][t] = ClassIn[n][StandsFor(t)]
        BY <2>2, <2>3, <3>2 DEF ClassBy
      <4>2. StandsFor(t) \in Node
        BY <4>1, StandsForFacts
      <4>3. CxxNext(t) = {StandsFor(t)} /\ ~HasMember(t, x)
        BY <3>2, <4>1 DEF CxxNext, HasMember, IsRecord, Leads, LooksThrough
      <4>4. CxxLookup(StandsFor(t), x) \subseteq CxxLookup(t, x)
        BY <4>3, CxxLookupIs
      <4> QED
        BY <2>1, <2>3, <4>1, <4>2, <4>4
    <3> QED
      BY <3>1, <3>2
  <2> QED
    BY <2>1, <2>3
<1>3. S = Nat
  <2>1. S \in SUBSET Nat
    OBVIOUS
  <2> HIDE DEF S
  <2> QED
    BY <1>1, <1>2, <2>1, Induct
<1>4. Good(NumberOfNodes)
  BY <1>3, NodesAreFinite
<1> QED
  BY <1>4 DEF ClassOf, NumberOfNodes

LEMMA LookupWithin ==
  ASSUME program \in Programs, NEW t \in Node, NEW x \in Name
  PROVE  Lookup(t, x) \subseteq CxxLookup(t, x)
<1> DEFINE Good(n) ==
             \A c \in Node : IsRecord(c) => LookupIn[n][c][x] \subseteq CxxLookup(c, x)
           S == { n \in Nat : Good(n) }
<1>1. ASSUME NEW h \in Class, NEW c \in Node, IsRecord(c),
             \A b \in Node : IsRecord(b) => h[b][x] \subseteq CxxLookup(b, x)
      PROVE  LookupBy(h)[c][x] \subseteq CxxLookup(c, x)
  <2>1. CASE Member(c, x) # << >>
    <3>1. HasMember(c, x)
      BY <1>1, <2>1 DEF HasMember, Member, IsRecord
    <3> QED
      BY <2>1, <3>1, CxxLookupIs DEF LookupBy
  <2>2. CASE Member(c, x) = << >>
    <3>1. ~HasMember(c, x) /\ CxxNext(c) = Elements(program.bases[c])
      BY <1>1, <2>2 DEF HasMember, Member, IsRecord, CxxNext
    <3>2. ASSUME NEW b \in BasesOf(c) PROVE h[b][x] \subseteq CxxLookup(c, x)
      <4>1. PICK i \in DOMAIN program.bases[c] :
              b = ClassOf(program.bases[c][i]) /\ b # NoNode
        BY DEF BasesOf
      <4>2. program.bases[c][i] \in Node /\ program.bases[c][i] \in CxxNext(c)
        BY <3>1, <4>1, KindFacts DEF Elements
      <4>3. /\ b \in Node /\ IsRecord(b)
            /\ CxxLookup(b, x) \subseteq CxxLookup(program.bases[c][i], x)
        BY <4>1, <4>2, ClassHas
      <4>4. CxxLookup(program.bases[c][i], x) \subseteq CxxLookup(c, x)
        BY <3>1, <4>2, CxxLookupIs
      <4> QED
        BY <1>1, <4>3, <4>4
    <3>3. LookupBy(h)[c][x] = UNION { h[b][x] : b \in BasesOf(c) }
      BY <2>2 DEF LookupBy
    <3> QED
      BY <3>2, <3>3
  <2> QED
    BY <2>1, <2>2
<1>2. 0 \in S
  <2> DEFINE none == [c \in Node |-> [y \in Name |-> {}]]
  <2>1. none \in Class /\ \A b \in Node : none[b][x] = {}
    BY DEF Class
  <2>2. LookupIn[0] = LookupBy(none)
    BY LookupInIs
  <2> HIDE DEF none
  <2> QED
    BY <1>1, <2>1, <2>2
<1>3. ASSUME NEW n \in S PROVE n + 1 \in S
  <2>1. n \in Nat /\ n + 1 \in Nat /\ Good(n)
    BY <1>3
  <2>2. LookupIn[n] \in Class /\ LookupIn[n + 1] = LookupBy(LookupIn[n])
    BY <2>1, LookupInIs
  <2> QED
    BY <1>1, <2>1, <2>2
<1>4. S = Nat
  <2>1. S \in SUBSET Nat
    OBVIOUS
  <2> HIDE DEF S
  <2> QED
    BY <1>2, <1>3, <2>1, Induct
<1>5. Good(NumberOfNodes)
  BY <1>4, NodesAreFinite
<1> HIDE DEF Good
<1>6. CASE ClassOf(t) = NoNode
  BY <1>6 DEF Lookup
<1>7. CASE ClassOf(t) # NoNode
  <2>1. /\ ClassOf(t) \in Node /\ IsRecord(ClassOf(t))
        /\ CxxLookup(ClassOf(t), x) \subseteq CxxLookup(t, x)
    BY <1>7, ClassHas
  <2>2. Lookup(t, x) = LookupIn[NumberOfNodes][ClassOf(t)][x]
    BY <1>7 DEF Lookup, NumberOfNodes
  <2>3. LookupIn[NumberOfNodes][ClassOf(t)][x] \subseteq CxxLookup(ClassOf(t), x)
    BY <1>5, <2>1 DEF Good
  <2> QED
    BY <2>1, <2>2, <2>3
<1> QED
  BY <1>6, <1>7

LEMMA CxxPathIs ==
  ASSUME TypeOK
  PROVE  /\ CxxPath[0] = {query.container}
         /\ \A n \in Nat :
              CxxPath[n + 1] = CxxTypesOf(CxxDeclared(CxxPath[n], query.names[n + 1]))
<1> DEFINE X == SUBSET Node
           Step(i, S) == CxxTypesOf(CxxDeclared(S, query.names[i]))
           F == [i \in Nat |-> [S \in X |-> Step(i, S)]]
           x == {query.container}
           Body(f, i) ==
             IF i = 0 THEN {query.container}
                      ELSE CxxTypesOf(CxxDeclared(f[i - 1], query.names[i]))
           Is(f) == f = [i \in Nat |-> Body(f, i)]
<1>1. \A i, S : Step(i, S) \in X
  BY DEF CxxTypesOf
<1>2. x \in X /\ F \in [Nat -> [X -> X]]
  BY <1>1 DEF TypeOK, Query
<1>3. \A i \in Nat, S \in X : F[i][S] = Step(i, S)
  OBVIOUS
<1>4. \A f : Body(f, 0) = x
  OBVIOUS
<1>5. \A f : \A n \in Nat : n # 0 => Body(f, n) = Step(n, f[n - 1])
  OBVIOUS
<1>6. CxxPath = CHOOSE f : Is(f)
  BY DEF CxxPath
<1> HIDE DEF X, F, x, Body, Step
<1>7. PICK g : IndexedRecursion(g, X, F, x)
  BY <1>2, RecursiveByIndex
<1>8. \A n \in Nat : g[n] = Body(g, n)
  <2> TAKE n \in Nat
  <2>1. g[n] = IF n = 0 THEN x ELSE F[n][g[n - 1]]
    BY <1>7 DEF IndexedRecursion
  <2>2. n # 0 => g[n - 1] \in X
    BY <1>7 DEF IndexedRecursion
  <2> QED
    BY <1>3, <1>4, <1>5, <2>1, <2>2
<1>9. Is(g)
  BY <1>7, <1>8 DEF IndexedRecursion
<1>10. Is(CxxPath)
  <2> HIDE DEF Is
  <2> QED
    BY <1>6, <1>9
<1>11. CxxPath[0] = x
  BY <1>4, <1>10
<1>12. \A n \in Nat : CxxPath[n + 1] = Step(n + 1, CxxPath[n])
  <2> TAKE n \in Nat
  <2>1. n + 1 \in Nat /\ n + 1 # 0 /\ (n + 1) - 1 = n
    OBVIOUS
  <2> QED
    BY <1>5, <1>10, <2>1
<1> QED
  BY <1>11, <1>12 DEF x, Step

\* So what the code can find is what C++ finds, or a part of it.
LEMMA AnswersWithin ==
  ASSUME TypeInv
  PROVE  Answers \subseteq CxxAnswers
<1>1. /\ TypeOK /\ program \in Programs
      /\ query.names \in Seq(Name) /\ Len(query.names) \in Nat \ {0}
      /\ query.container \in Node
  BY EmptySeq DEF TypeInv, TypeOK, Query
<1>2. ASSUME NEW T \in SUBSET Node, NEW U \in SUBSET Node, T \subseteq U, NEW x \in Name
      PROVE  Declared(T, x) \subseteq CxxDeclared(U, x)
  BY <1>1, <1>2, LookupWithin DEF Declared, CxxDeclared
<1> DEFINE L == Len(query.names)
           S == { n \in Nat : n > L \/ Path[n] \subseteq CxxPath[n] }
<1>3. 0 \in S
  BY <1>1, PathIs, CxxPathIs
<1>4. ASSUME NEW n \in S PROVE n + 1 \in S
  <2>1. n \in Nat /\ n + 1 \in Nat
    BY <1>4
  <2>2. CASE n + 1 > L
    BY <2>1, <2>2
  <2>3. CASE n + 1 <= L
    <3>1. Path[n] \subseteq CxxPath[n] /\ query.names[n + 1] \in Name
      BY <1>1, <1>4, <2>1, <2>3
    <3>2. Path[n] \subseteq Node /\ CxxPath[n] \cap Node \subseteq Node
      BY <1>1, <2>1, PathIs
    <3>3. Declared(Path[n], query.names[n + 1])
            \subseteq CxxDeclared(CxxPath[n], query.names[n + 1])
      BY <1>1, <3>1, <3>2, LookupWithin DEF Declared, CxxDeclared
    <3>4. Path[n + 1] \subseteq CxxPath[n + 1]
      <4>1. Path[n + 1] = TypesOf(Declared(Path[n], query.names[n + 1]))
        BY <1>1, <2>1, PathIs
      <4>2. CxxPath[n + 1] = CxxTypesOf(CxxDeclared(CxxPath[n], query.names[n + 1]))
        BY <1>1, <2>1, CxxPathIs
      <4> QED
        BY <3>3, <4>1, <4>2 DEF TypesOf, CxxTypesOf
    <3> QED
      BY <2>1, <3>4
  <2> QED
    BY <1>1, <2>1, <2>2, <2>3
<1>5. S = Nat
  <2>1. S \in SUBSET Nat
    OBVIOUS
  <2> HIDE DEF S
  <2> QED
    BY <1>3, <1>4, <2>1, Induct
<1>6. Path[L] \subseteq CxxPath[L]
  <2>1. L \in S /\ ~(L > L)
    BY <1>1, <1>5
  <2> QED
    BY <2>1
<1>7. Declared({query.container}, query.names[1])
        \subseteq CxxDeclared({query.container}, query.names[1])
  BY <1>1, <1>2
<1> QED
  BY <1>6, <1>7 DEF Answers, CxxAnswers

-----------------------------------------------------------------------------
(***************************************************************************)
(* The answer.  It is given by the last resolver when it has nothing left  *)
(* to search.                                                              *)
(***************************************************************************)
PlainAnswer ==
  /\ outcome = "found" => answer \in Answers \/ Ambiguous
  /\ outcome = "null" =>
       \/ Answers = {} \/ Ambiguous
       \/ query.wanted = "declaration" /\ Len(query.names) > 1

LookupInv ==
  /\ TypeInv
  /\ query \in Queries
  /\ OnTheWay(resolvers, path)
  /\ PlainAnswer

\* A step that goes on with the lookup, and one that ends it without an answer.
LEMMA GoingOn ==
  ASSUME LookupInv, program' = program, query' = query, TypeInv',
         outcome' = outcome, answer' = answer, OnTheWay(resolvers', path')
  PROVE  LookupInv'
<1>1. OnTheWay(resolvers, path)'
  BY OnTheWayNext
<1>2. Answers' = Answers /\ Ambiguous' = Ambiguous
  BY Steady
<1>3. PlainAnswer'
  BY <1>2 DEF LookupInv, PlainAnswer
<1> QED
  BY <1>1, <1>3 DEF LookupInv

LEMMA Ending ==
  ASSUME LookupInv, TypeInv', NEW how, NEW result, Finish(how, result),
         how = "found" => result \in Answers \/ Ambiguous,
         how = "null" => \/ Answers = {} \/ Ambiguous
                         \/ query.wanted = "declaration" /\ Len(query.names) > 1
  PROVE  LookupInv'
<1>1. /\ program' = program /\ query' = query /\ resolvers' = << >>
      /\ outcome' = how /\ answer' = result
  BY DEF Finish
<1>2. OnTheWay(resolvers', path')
  BY <1>1 DEF OnTheWay
<1>3. OnTheWay(resolvers, path)'
  BY <1>1, <1>2, OnTheWayNext
<1>4. Answers' = Answers /\ Ambiguous' = Ambiguous
  BY <1>1, Steady
<1>5. PlainAnswer'
  BY <1>1, <1>4 DEF PlainAnswer
<1> QED
  BY <1>1, <1>3, <1>5 DEF LookupInv

LEMMA ReturnAnswers ==
  ASSUME LookupInv, Return
  PROVE  /\ Top.result # NoNode => Top.result \in Answers \/ Ambiguous
         /\ Top.result = NoNode => Answers = {} \/ Ambiguous
<1>1. Len(resolvers) = 1 /\ resolvers # << >> /\ Top = resolvers[1] /\ Top.todo = << >>
  BY DEF Return, Exhausted, Top
<1>2. Ambiguous \/ Searching(resolvers, path) \/ Hopeless(resolvers) \/ Answered(resolvers)
  BY <1>1 DEF LookupInv, OnTheWay
<1>3. CASE Searching(resolvers, path)
  <2>1. All(Classes(Top), query.names[1]) = {}
    BY <1>1 DEF All, Classes
  <2>2. Declared(Path[0], query.names[1]) = {}
    <3>1. 1 - 1 = 0
      OBVIOUS
    <3> QED
      BY <1>1, <1>3, <2>1, <3>1 DEF Searching
  <2>3. /\ Path[0] = {query.container}
        /\ Path[0 + 1] = TypesOf(Declared(Path[0], query.names[0 + 1]))
    BY PathIs DEF LookupInv, TypeInv
  <2>4. Path[1] = {}
    <3>1. 0 + 1 = 1
      OBVIOUS
    <3>2. Path[1] = TypesOf({})
      BY <2>2, <2>3, <3>1
    <3> QED
      BY <3>2 DEF TypesOf
  <2>5. Len(query.names) \in Nat /\ 1 <= Len(query.names)
    BY DEF LookupInv, TypeInv, TypeOK, Query
  <2>6. Path[Len(query.names)] = {}
    BY <2>4, <2>5, PathEnds DEF LookupInv, TypeInv
  <2>7. Answers = {}
    BY <2>2, <2>3, <2>6 DEF Answers
  <2> QED
    BY <1>1, <1>3, <2>7 DEF Searching
<1>4. CASE Hopeless(resolvers)
  BY <1>1, <1>4 DEF Hopeless
<1>5. CASE Answered(resolvers)
  BY <1>1, <1>5 DEF Answered
<1> QED
  BY <1>2, <1>3, <1>4, <1>5

LEMMA NextLookup ==
  ASSUME LookupInv, Next
  PROVE  LookupInv'
<1>1. TypeInv'
  BY NextTypes DEF LookupInv
<1>2. ASSUME resolvers # << >> /\ Top.todo # << >>
      PROVE  AtWork
  BY <1>2 DEF AtWork, LookupInv
<1>3. ASSUME NEW r, SetTop(r)
      PROVE  /\ program' = program /\ query' = query
             /\ outcome' = outcome /\ answer' = answer
  BY <1>3 DEF SetTop
<1>4. CASE ResolveType
  <2>1. CASE query.qualifier = "Other"
    BY <1>1, <1>4, <2>1, Ending DEF ResolveType
  <2>2. CASE query.qualifier # "Other"
    BY <1>1, <1>4, <2>2, StartWay, GoingOn DEF ResolveType, Start, LookupInv
  <2> QED
    BY <2>1, <2>2
<1>5. CASE GetDeclaration
  <2>1. Len(query.names) = 1 \/ (Len(query.names) > 1 /\ Len(query.names) # 1)
    <3>1. query.names \in Seq(Name) /\ query.names # << >>
      BY DEF LookupInv, TypeInv, TypeOK, Query
    <3>2. Len(query.names) \in Nat \ {0}
      BY <3>1, EmptySeq
    <3>3. \A n \in Nat \ {0} : n = 1 \/ (n > 1 /\ n # 1)
      OBVIOUS
    <3> QED
      BY <3>2, <3>3
  <2>2. /\ query.wanted = "declaration"
        /\ \/ Len(query.names) > 1 /\ Finish("null", NoNode)
           \/ Len(query.names) = 1 /\ Start
           \/ Finish("logic_error", NoNode)
    <3>1. ~(1 > 1)
      OBVIOUS
    <3> QED
      BY <1>5, <2>1, <3>1 DEF GetDeclaration
  <2>3. CASE Len(query.names) > 1 /\ Finish("null", NoNode)
    BY <1>1, <2>2, <2>3, Ending
  <2>4. CASE Len(query.names) = 1 /\ Start
    BY <1>1, <2>4, StartWay, GoingOn DEF Start, LookupInv
  <2>5. CASE Finish("logic_error", NoNode)
    BY <1>1, <2>5, Ending
  <2> QED
    BY <2>2, <2>3, <2>4, <2>5
<1>6. CASE WalkUpFromSugar
  BY <1>1, <1>2, <1>3, <1>6, SugarWay, GoingOn DEF WalkUpFromSugar, At
<1>7. CASE WalkUpFromTemplateSpecializationType
  BY <1>1, <1>2, <1>3, <1>7, SpecializationWay, GoingOn
     DEF WalkUpFromTemplateSpecializationType, At
<1>8. CASE WalkUpFromClassTemplateDecl
  BY <1>1, <1>2, <1>3, <1>8, TemplateWay, GoingOn DEF WalkUpFromClassTemplateDecl, At
<1>9. CASE WalkUpFromUnresolved
  BY <1>1, <1>2, <1>3, <1>9, UnresolvedWay, GoingOn DEF WalkUpFromUnresolved, At
<1>10. CASE WalkUpFromOther
  BY <1>1, <1>10, Ending DEF WalkUpFromOther
<1>11. CASE LookInBases
  BY <1>1, <1>2, <1>3, <1>11, BasesWay, GoingOn DEF LookInBases, At
<1>12. CASE FoundSeveral
  BY <1>1, <1>12, Ending DEF FoundSeveral
<1>13. CASE NotUnderstood
  BY <1>1, <1>13, Ending DEF NotUnderstood
<1>14. CASE FoundResult
  BY <1>1, <1>2, <1>3, <1>14, ResultWay, GoingOn DEF FoundResult, FoundOne, At
<1>15. CASE FollowPath
  BY <1>1, <1>2, <1>15, FollowWay, GoingOn DEF FollowPath, FoundOne, At
<1>16. CASE ReturnToOuter
  BY <1>1, <1>16, ReturnWay, GoingOn DEF ReturnToOuter, LookupInv
<1>17. CASE Return
  BY <1>1, <1>17, ReturnAnswers, Ending DEF Return
<1>18. CASE RunOutOfStack
  BY <1>1, <1>18, Ending DEF RunOutOfStack
<1> QED
  BY <1>4, <1>5, <1>6, <1>7, <1>8, <1>9, <1>10, <1>11, <1>12, <1>13, <1>14, <1>15,
     <1>16, <1>17, <1>18 DEF Next, WalkUp

(***************************************************************************)
(* What NestedNameResolver finds is what C++ finds, in any graph of types, *)
(* classes, templates and bases and for paths of any length; and a null    *)
(* answer means that nothing is found without an alias template or the     *)
(* name of a class inside the class (Answers), unless a name is met twice  *)
(* or the path leads to a value.                                           *)
(***************************************************************************)
THEOREM AnswerFollowsLookupCorrect == Spec => []AnswerFollowsLookup
<1>1. Init => LookupInv
  <2> SUFFICES ASSUME Init PROVE LookupInv
    OBVIOUS
  <2>1. TypeInv
    BY NameResolverAssumption DEF Init, TypeInv, TypeOK, Outcome, Waiting
  <2>2. OnTheWay(resolvers, path)
    BY DEF Init, OnTheWay
  <2> QED
    BY <2>1, <2>2 DEF Init, LookupInv, PlainAnswer
<1>2. LookupInv /\ [Next]_resolverVars => LookupInv'
  <2>1. ASSUME LookupInv, UNCHANGED resolverVars PROVE LookupInv'
    <3>1. /\ program' = program /\ query' = query /\ outcome' = outcome
          /\ answer' = answer /\ resolvers' = resolvers /\ path' = path
      BY <2>1 DEF resolverVars
    <3>2. TypeInv'
      BY <2>1, <3>1 DEF LookupInv, TypeInv, TypeOK, Waiting
    <3>3. OnTheWay(resolvers', path')
      BY <2>1, <3>1 DEF LookupInv
    <3> QED
      BY <2>1, <3>1, <3>2, <3>3, GoingOn
  <2> QED
    BY <2>1, NextLookup
<1>3. LookupInv => AnswerFollowsLookup
  BY AnswersWithin DEF LookupInv, PlainAnswer, AnswerFollowsLookup
<1> QED
  BY <1>1, <1>2, <1>3, PTL DEF Spec

-----------------------------------------------------------------------------
(***************************************************************************)
(* AncestorsIn with as many steps as there are nodes: what the bases of a  *)
(* class inherit from, the class does, too.                                *)
(***************************************************************************)
Families == [Node -> SUBSET Node]

AncestorsBy(h) == [c \in Node |-> BasesOf(c) \cup UNION { h[b] : b \in BasesOf(c) }]

LEMMA AncestorsInIs ==
  ASSUME program \in Programs
  PROVE  /\ AncestorsIn[0] = [c \in Node |-> BasesOf(c)]
         /\ \A n \in Nat : AncestorsIn[n + 1] = AncestorsBy(AncestorsIn[n])
         /\ \A n \in Nat : AncestorsIn[n] \in Families
<1> DEFINE F == [h \in Families |-> AncestorsBy(h)]
           first == [c \in Node |-> BasesOf(c)]
           Body(u, n) ==
             [c \in Node |->
                BasesOf(c) \cup
                  IF n = 0 THEN {} ELSE UNION { u[n - 1][b] : b \in BasesOf(c) }]
           Is(u) == u = [n \in Nat |-> Body(u, n)]
<1>1. \A h \in Families : AncestorsBy(h) \in Families
  <2> TAKE h \in Families
  <2>1. ASSUME NEW c \in Node
        PROVE  BasesOf(c) \cup UNION { h[b] : b \in BasesOf(c) } \in SUBSET Node
    <3>1. \A b \in BasesOf(c) : h[b] \in SUBSET Node
      BY ElementsFacts DEF Families
    <3> QED
      BY <3>1, ElementsFacts
  <2> QED
    BY <2>1 DEF AncestorsBy, Families
<1>2. first \in Families /\ F \in [Families -> Families]
  <2>1. \A c \in Node : BasesOf(c) \in SUBSET Node
    BY ElementsFacts
  <2> QED
    BY <1>1, <2>1 DEF Families
<1>3. \A u : Body(u, 0) = first
  OBVIOUS
<1>4. \A u : \A n \in Nat : n # 0 => Body(u, n) = AncestorsBy(u[n - 1])
  BY DEF AncestorsBy
<1>5. \A h \in Families : F[h] = AncestorsBy(h)
  OBVIOUS
<1> HIDE DEF F, first, Body
<1>6. PICK g : Recursion(g, Families, F, first)
  BY <1>2, Recursive
<1>7. \A n \in Nat : g[n] = Body(g, n)
  <2> TAKE n \in Nat
  <2>1. g[n] = IF n = 0 THEN first ELSE F[g[n - 1]]
    BY <1>6 DEF Recursion
  <2>2. n # 0 => g[n - 1] \in Families
    BY <1>6 DEF Recursion
  <2> QED
    BY <1>3, <1>4, <1>5, <2>1, <2>2
<1>8. Is(g)
  BY <1>6, <1>7 DEF Recursion
<1>9. AncestorsIn = CHOOSE u : Is(u)
  BY DEF AncestorsIn, Body
<1>10. Is(AncestorsIn)
  <2> HIDE DEF Is
  <2> QED
    BY <1>8, <1>9
<1>11. AncestorsIn[0] = first
  BY <1>3, <1>10
<1>12. \A n \in Nat : AncestorsIn[n + 1] = AncestorsBy(AncestorsIn[n])
  <2> TAKE n \in Nat
  <2>1. n + 1 \in Nat /\ n + 1 # 0 /\ (n + 1) - 1 = n
    OBVIOUS
  <2> QED
    BY <1>4, <1>10, <2>1
<1>13. \A n \in Nat : AncestorsIn[n] \in Families
  <2> DEFINE S == { n \in Nat : AncestorsIn[n] \in Families }
  <2>1. 0 \in S
    BY <1>2, <1>11
  <2>2. \A n \in S : n + 1 \in S
    BY <1>1, <1>12
  <2>3. S = Nat
    <3> HIDE DEF S
    <3>1. S \in SUBSET Nat
      BY DEF S
    <3> QED
      BY <2>1, <2>2, <3>1, Induct
  <2> QED
    BY <2>3
<1> QED
  BY <1>11, <1>12, <1>13 DEF first

Ancestors(c) == AncestorsIn[NumberOfNodes][c]

LEMMA AncestorsAre ==
  ASSUME program \in Programs, NEW c \in Node
  PROVE  /\ Ancestors(c) \subseteq Node
         /\ BasesOf(c) \subseteq Node
         /\ Ancestors(c) = BasesOf(c) \cup UNION { Ancestors(b) : b \in BasesOf(c) }
<1>1. \A d \in Node : Ancestors(d) \in SUBSET Node /\ BasesOf(d) \subseteq Node
  BY AncestorsInIs, ElementsFacts, NodesAreFinite DEF Ancestors, Families
<1>2. ASSUME NEW k \in Node
      PROVE  k \in Ancestors(c) <=>
               k \in BasesOf(c) \/ \E b \in BasesOf(c) : k \in Ancestors(b)
  <2> DEFINE Step(S) == { d \in Node : k \in BasesOf(d) \/ \E b \in BasesOf(d) : b \in S }
             s == [n \in Nat |-> { d \in Node : k \in AncestorsIn[n][d] }]
             F == [S \in SUBSET Node |-> Step(S)]
  <2>1. \A n \in Nat : s[n + 1] = Step(s[n])
    <3> TAKE n \in Nat
    <3>1. s[n] = { d \in Node : k \in AncestorsIn[n][d] }
          /\ s[n + 1] = { d \in Node : k \in AncestorsIn[n + 1][d] }
      OBVIOUS
    <3>2. \A d \in Node : k \in AncestorsIn[n + 1][d] <=>
            k \in BasesOf(d) \/ \E b \in BasesOf(d) : k \in AncestorsIn[n][b]
      <4>1. AncestorsIn[n + 1] = AncestorsBy(AncestorsIn[n])
        BY AncestorsInIs
      <4> QED
        BY <4>1 DEF AncestorsBy
    <3> HIDE DEF s
    <3> QED
      BY <1>1, <3>1, <3>2
  <2>2. s[0] \subseteq s[1]
    <3>1. s[0 + 1] = Step(s[0])
      BY <2>1
    <3>2. \A d \in s[0] : d \in Node /\ k \in BasesOf(d)
      BY AncestorsInIs
    <3> HIDE DEF s
    <3> QED
      BY <3>1, <3>2
  <2>3. \A S, T : S \subseteq T => Step(S) \subseteq Step(T)
    OBVIOUS
  <2>4. s \in [Nat -> SUBSET Node] /\ F \in [SUBSET Node -> SUBSET Node]
    OBVIOUS
  <2>5. \A S \in SUBSET Node : F[S] = Step(S)
    OBVIOUS
  <2>6. s[NumberOfNodes] = { d \in Node : k \in Ancestors(d) }
    BY NodesAreFinite DEF Ancestors
  <2>7. c \in { d \in Node : k \in Ancestors(d) } <=>
          c \in Step({ d \in Node : k \in Ancestors(d) })
    <3> HIDE DEF s, F, Step
    <3>1. Chain(s, Node, F)
      BY <2>1, <2>2, <2>3, <2>4, <2>5 DEF Chain
    <3>2. F[s[NumberOfNodes]] = s[NumberOfNodes]
      BY <3>1, NodesAreFinite, ChainSettles DEF NumberOfNodes
    <3>3. s[NumberOfNodes] \in SUBSET Node
      BY <2>4, NodesAreFinite
    <3> QED
      BY <2>5, <2>6, <3>2, <3>3
  <2> QED
    BY <1>1, <2>7
<1>3. ASSUME NEW b \in BasesOf(c)
      PROVE  Ancestors(b) \subseteq Node
  BY <1>1
<1> QED
  BY <1>1, <1>2, <1>3

\* What a class inherits from is inherited with all that it inherits from.
LEMMA AncestorsClosed ==
  ASSUME program \in Programs, NEW c \in Node, NEW a \in Ancestors(c)
  PROVE  BasesOf(a) \subseteq Ancestors(c)
<1> DEFINE S == { n \in Nat : \A d \in Node : \A x \in AncestorsIn[n][d] :
                                BasesOf(x) \subseteq Ancestors(d) }
<1>1. 0 \in S
  <2>1. ASSUME NEW d \in Node, NEW x \in AncestorsIn[0][d]
        PROVE  BasesOf(x) \subseteq Ancestors(d)
    <3>1. x \in BasesOf(d) /\ x \in Node
      BY AncestorsInIs, AncestorsAre
    <3>2. BasesOf(x) \subseteq Ancestors(x) /\ Ancestors(x) \subseteq Ancestors(d)
      BY <3>1, AncestorsAre
    <3> QED
      BY <3>2
  <2> QED
    BY <2>1
<1>2. ASSUME NEW n \in S PROVE n + 1 \in S
  <2>1. ASSUME NEW d \in Node, NEW x \in AncestorsIn[n + 1][d]
        PROVE  BasesOf(x) \subseteq Ancestors(d)
    <3>1. x \in BasesOf(d) \/ \E b \in BasesOf(d) : x \in AncestorsIn[n][b]
      <4>1. n \in Nat
        BY <1>2
      <4>2. AncestorsIn[n + 1] = AncestorsBy(AncestorsIn[n])
        BY <4>1, AncestorsInIs
      <4> QED
        BY <2>1, <4>2 DEF AncestorsBy
    <3>2. CASE x \in BasesOf(d)
      BY <3>2, AncestorsAre
    <3>3. CASE x \notin BasesOf(d)
      <4>1. PICK b \in BasesOf(d) : x \in AncestorsIn[n][b]
        BY <3>1, <3>3
      <4>2. b \in Node
        BY AncestorsAre
      <4>3. BasesOf(x) \subseteq Ancestors(b) /\ Ancestors(b) \subseteq Ancestors(d)
        BY <1>2, <4>1, <4>2, AncestorsAre
      <4> QED
        BY <4>3
    <3> QED
      BY <3>2, <3>3
  <2> QED
    BY <2>1
<1>3. S = Nat
  <2>1. S \in SUBSET Nat
    OBVIOUS
  <2> HIDE DEF S
  <2> QED
    BY <1>1, <1>2, <2>1, Induct
<1>4. NumberOfNodes \in S
  BY <1>3, NodesAreFinite
<1> QED
  BY <1>4 DEF Ancestors

-----------------------------------------------------------------------------
(***************************************************************************)
(* The traversal of a node goes on with those that come after it: the type *)
(* or class that it stands for, or the bases.  Where no class inherits     *)
(* from itself, no node comes, in any number of steps, after itself, so    *)
(* that the number of nodes after it is a measure that every step lowers.  *)
(***************************************************************************)
After(t) ==
  IF IsRecord(t) THEN Elements(program.bases[t])
                 ELSE IF Leads(t) THEN { StandsFor(t) } ELSE {}

Closed(S) == \A x \in S : After(x) \subseteq S

Ahead(t) == { x \in Node : \A S \in SUBSET Node : Closed(S) /\ After(t) \subseteq S => x \in S }

OwnAncestor == \E c \in Node : IsRecord(c) /\ c \in Ancestors(c)

LEMMA AfterFacts ==
  ASSUME program \in Programs, NEW t \in Node
  PROVE  /\ After(t) \subseteq Node
         /\ IsRecord(t) => \A x \in After(t) : ClassOf(x) \in BasesOf(t) \cup {NoNode}
         /\ ~IsRecord(t) => \A x \in After(t) : ClassOf(x) = ClassOf(t)
<1>1. CASE IsRecord(t)
  <2>1. program.bases[t] \in Seq(Node) /\ After(t) = Elements(program.bases[t])
    BY <1>1, KindFacts DEF After
  <2>2. \A i \in DOMAIN program.bases[t] :
          ClassOf(program.bases[t][i]) \in BasesOf(t) \cup {NoNode}
    BY DEF BasesOf
  <2> QED
    BY <1>1, <2>1, <2>2 DEF Elements
<1>2. CASE ~IsRecord(t) /\ Leads(t)
  BY <1>2, StandsForFacts, ClassOfIs DEF After
<1>3. CASE ~IsRecord(t) /\ ~Leads(t)
  BY <1>3 DEF After
<1> QED
  BY <1>1, <1>2, <1>3

LEMMA AheadFacts ==
  ASSUME program \in Programs, NEW t \in Node
  PROVE  /\ Ahead(t) \subseteq Node /\ After(t) \subseteq Ahead(t)
         /\ Closed(Ahead(t))
         /\ \A S \in SUBSET Node : Closed(S) /\ After(t) \subseteq S => Ahead(t) \subseteq S
         /\ \A x \in Ahead(t) : Ahead(x) \subseteq Ahead(t)
<1>1. Ahead(t) \subseteq Node /\ After(t) \subseteq Ahead(t)
  BY AfterFacts DEF Ahead
<1>2. ASSUME NEW x \in Ahead(t), NEW y \in After(x)
      PROVE  y \in Ahead(t)
  <2>1. x \in Node /\ y \in Node
    BY <1>1, AfterFacts
  <2>2. ASSUME NEW S \in SUBSET Node, Closed(S), After(t) \subseteq S
        PROVE  y \in S
    <3>1. x \in S
      BY <2>2 DEF Ahead
    <3> QED
      BY <2>2, <3>1 DEF Closed
  <2> QED
    BY <2>1, <2>2 DEF Ahead
<1>3. Closed(Ahead(t))
  BY <1>2 DEF Closed
<1>4. \A S \in SUBSET Node : Closed(S) /\ After(t) \subseteq S => Ahead(t) \subseteq S
  BY DEF Ahead
<1>5. \A x \in Ahead(t) : Ahead(x) \subseteq Ahead(t)
  BY <1>1, <1>3 DEF Ahead, Closed
<1> QED
  BY <1>1, <1>3, <1>4, <1>5

\* What is ahead of t is what comes after it, or is ahead of that.
LEMMA AheadIs ==
  ASSUME program \in Programs, NEW t \in Node, NEW x \in Ahead(t)
  PROVE  \E y \in After(t) : x = y \/ x \in Ahead(y)
<1> DEFINE S == After(t) \cup UNION { Ahead(y) : y \in After(t) }
<1>1. After(t) \subseteq Node /\ \A y \in After(t) : Ahead(y) \subseteq Node
  BY AfterFacts, AheadFacts
<1>2. S \in SUBSET Node
  BY <1>1
<1>3. Closed(S)
  <2>1. ASSUME NEW z \in S PROVE After(z) \subseteq S
    <3>1. CASE z \in After(t)
      <4>1. After(z) \subseteq Ahead(z)
        BY <1>1, <3>1, AheadFacts
      <4> QED
        BY <3>1, <4>1
    <3>2. CASE \E y \in After(t) : z \in Ahead(y)
      <4>1. PICK y \in After(t) : z \in Ahead(y)
        BY <3>2
      <4>2. After(z) \subseteq Ahead(y)
        BY <1>1, <4>1, AheadFacts DEF Closed
      <4> QED
        BY <4>2
    <3> QED
      BY <3>1, <3>2
  <2> HIDE DEF S
  <2> QED
    BY <2>1 DEF Closed
<1>4. x \in S
  <2> HIDE DEF S
  <2>1. After(t) \subseteq S
    BY DEF S
  <2> QED
    BY <1>2, <1>3, <2>1, AheadFacts
<1> QED
  BY <1>4

\* A class is ahead of itself only by inheritance.
LEMMA RecordAhead ==
  ASSUME program \in Programs, NEW c \in Node, IsRecord(c), c \in Ahead(c)
  PROVE  OwnAncestor
<1> DEFINE S == { x \in Node : ClassOf(x) \in Ancestors(c) \cup {NoNode} }
<1>1. Closed(S)
  <2>1. ASSUME NEW x \in S, NEW y \in After(x)
        PROVE  y \in S
    <3>1. x \in Node /\ y \in Node /\ ClassOf(x) \in Ancestors(c) \cup {NoNode}
      BY AfterFacts
    <3>2. CASE IsRecord(x)
      <4>1. ClassOf(x) = x /\ x # NoNode
        BY <3>1, <3>2, ClassOfIs, NameResolverAssumption
      <4>2. BasesOf(x) \subseteq Ancestors(c)
        BY <3>1, <4>1, AncestorsClosed
      <4>3. ClassOf(y) \in BasesOf(x) \cup {NoNode}
        BY <3>1, <3>2, AfterFacts
      <4> QED
        BY <3>1, <4>2, <4>3
    <3>3. CASE ~IsRecord(x)
      BY <3>1, <3>3, AfterFacts
    <3> QED
      BY <3>2, <3>3
  <2> HIDE DEF S
  <2> QED
    BY <2>1 DEF Closed
<1>2. After(c) \subseteq S
  <2>1. BasesOf(c) \subseteq Ancestors(c)
    BY AncestorsAre
  <2> QED
    BY <2>1, AfterFacts
<1>3. c \in S
  <2>1. S \in SUBSET Node
    OBVIOUS
  <2> HIDE DEF S
  <2> QED
    BY <1>1, <1>2, <2>1, AheadFacts
<1>4. ClassOf(c) = c /\ c # NoNode
  BY ClassOfIs, NameResolverAssumption
<1> QED
  BY <1>3, <1>4 DEF OwnAncestor

LEMMA NeverAheadOfItself ==
  ASSUME program \in Programs, ~OwnAncestor, NEW t \in Node
  PROVE  t \notin Ahead(t)
<1> SUFFICES ASSUME t \in Ahead(t) PROVE FALSE
  OBVIOUS
<1> DEFINE Circle == { x \in Ahead(t) : t \in Ahead(x) }
           Alias == { n \in Node : program.kind[n] \in Sugar \ {"RecordType"} }
<1>1. Circle \subseteq Node /\ t \in Circle
  BY AheadFacts
\* One step on is in the circle as well.
<1>2. \A x \in Circle : \E y \in After(x) : y \in Circle
  <2> TAKE x \in Circle
  <2>1. x \in Node /\ x \in Ahead(t) /\ t \in Ahead(x)
    BY <1>1
  <2>2. PICK y \in After(x) : t = y \/ t \in Ahead(y)
    BY <2>1, AheadIs
  <2>3. y \in Ahead(t)
    BY <2>1, AheadFacts DEF Closed
  <2>4. t \in Ahead(y)
    BY <2>2
  <2> QED
    BY <2>3, <2>4
<1>3. \A x \in Circle : ~IsRecord(x)
  <2>1. ASSUME NEW x \in Circle, IsRecord(x) PROVE FALSE
    <3>1. x \in Node /\ x \in Ahead(t) /\ t \in Ahead(x)
      BY <1>1
    <3>2. x \in Ahead(x)
      BY <3>1, AheadFacts
    <3> QED
      BY <2>1, <3>1, <3>2, RecordAhead
  <2> QED
    BY <2>1
<1>4. \A x \in Circle : Leads(x) /\ StandsFor(x) \in Circle
  BY <1>1, <1>2, <1>3 DEF After
<1>5. \A x \in Circle : program.kind[x] \notin {"RecordType", "ClassTemplateDecl"}
  BY <1>1, <1>3, <1>4, StandsForFacts
<1>6. \A x \in Circle : program.kind[x] # "TemplateSpecializationType"
  <2>1. ASSUME NEW x \in Circle, program.kind[x] = "TemplateSpecializationType"
        PROVE  FALSE
    <3>1. x \in Node /\ StandsFor(x) \in Circle /\ Leads(x)
      BY <1>1, <1>4
    <3>2. CASE program.special[x] # NoNode
      BY <1>3, <3>1, <3>2, KindFacts DEF StandsFor
    <3>3. CASE program.special[x] = NoNode
      <4>1. StandsFor(x) = program.target[x]
        BY <3>3 DEF StandsFor
      <4>2. program.kind[program.target[x]] \in
              {"ClassTemplateDecl", "TypeAliasTemplateDecl", "OtherDecl"}
        <5>1. program.kind[program.target[x]] \in TargetKinds(program.kind[x])
          BY <3>1, KindFacts, NameResolverAssumption
        <5>2. TargetKinds("TemplateSpecializationType") =
                {"ClassTemplateDecl", "TypeAliasTemplateDecl", "OtherDecl"}
          BY DEF TargetKinds, TypeDecls
        <5> QED
          BY <2>1, <5>1, <5>2
      <4> QED
        BY <1>4, <1>5, <3>1, <4>1, <4>2 DEF Leads, Sugar
    <3> QED
      BY <3>2, <3>3
  <2> QED
    BY <2>1
<1>7. Circle \subseteq Alias
  BY <1>1, <1>4, <1>5, <1>6 DEF Leads
<1>8. \A x \in Circle : program.target[x] \in Circle
  BY <1>1, <1>4, <1>6, StandsForFacts
<1> HIDE DEF Circle
<1>9. PICK x \in Circle : program.target[x] \notin Circle
  <2>1. WellFormed(program)
    BY NameResolverAssumption
  <2>2. Circle \in (SUBSET Alias) \ {{}}
    BY <1>1, <1>7
  <2> QED
    BY <2>1, <2>2 DEF WellFormed
<1> QED
  BY <1>8, <1>9

Measure(t) == Cardinality(Ahead(t))

LEMMA MeasureFacts ==
  ASSUME program \in Programs, ~OwnAncestor, NEW t \in Node
  PROVE  /\ Measure(t) \in Nat /\ Measure(t) < NumberOfNodes
         /\ \A x \in After(t) : Measure(x) \in Nat /\ Measure(x) < Measure(t)
<1>1. ASSUME NEW x \in Node
      PROVE  /\ IsFiniteSet(Ahead(x)) /\ Measure(x) \in Nat
             /\ x \notin Ahead(x) /\ Ahead(x) \subseteq Node
  BY NodesAreFinite, AheadFacts, FS_Subset, FS_CardinalityType, NeverAheadOfItself DEF Measure
<1>2. \A S, T, x : IsFiniteSet(T) /\ S \subseteq T /\ x \in T /\ x \notin S =>
        Cardinality(S) < Cardinality(T)
  <2> TAKE S, T, x
  <2> HAVE IsFiniteSet(T) /\ S \subseteq T /\ x \in T /\ x \notin S
  <2>1. /\ IsFiniteSet(S) /\ Cardinality(S) <= Cardinality(T)
        /\ Cardinality(S) = Cardinality(T) => S = T
        /\ Cardinality(S) \in Nat /\ Cardinality(T) \in Nat
    BY FS_Subset, FS_CardinalityType
  <2>2. S # T
    OBVIOUS
  <2> QED
    BY <2>1, <2>2
<1>3. Measure(t) < NumberOfNodes
  BY <1>1, <1>2, NodesAreFinite DEF Measure, NumberOfNodes
<1>4. ASSUME NEW x \in After(t)
      PROVE  Measure(x) \in Nat /\ Measure(x) < Measure(t)
  <2>1. x \in Node /\ x \in Ahead(t) /\ Ahead(x) \subseteq Ahead(t)
    BY AfterFacts, AheadFacts
  <2> QED
    BY <1>1, <1>2, <2>1 DEF Measure
<1> QED
  BY <1>1, <1>3, <1>4

-----------------------------------------------------------------------------
(***************************************************************************)
(* How deep the calls for the nodes of a resolver can nest: what a node    *)
(* has ahead of it is visited at most once on the way down, in two calls,  *)
(* for a specialization type and for the template that it is of.           *)
(***************************************************************************)
IsTemplate(t) == program.kind[t] = "ClassTemplateDecl"

Reach(r, i) ==
  r.todo[i].depth + 2 * Measure(View(r, i)) + (IF IsTemplate(r.todo[i].node) THEN 0 ELSE 1)

Within(r, k) == \A i \in 1 .. Len(r.todo) : Reach(r, i) <= 2 * NumberOfNodes * k

NamesRemain == resolvers # << >> => Len(resolvers) + Len(path) <= Len(query.names)

AllWithin(rs) == OwnAncestor \/ \A k \in 1 .. Len(rs) : Within(rs[k], k)

DepthInv == LookupInv /\ NamesRemain /\ AllWithin(resolvers)

\* Items that a resolver has kept, wherever they are now.
LEMMA ReachKept ==
  ASSUME TypeInv, NEW r \in Resolver, NEW s \in Resolver,
         NEW i \in 1 .. Len(r.todo), NEW j \in 1 .. Len(s.todo),
         r.todo[i] = s.todo[j], IsType(s.todo[j].node)
  PROVE  Reach(r, i) = Reach(s, j)
<1>1. View(r, i) = r.todo[i].node /\ View(s, j) = s.todo[j].node
  BY ViewIs
<1> QED
  BY <1>1 DEF Reach

LEMMA WithinTail ==
  ASSUME TypeInv, NEW r \in Resolver, NEW s \in Resolver, NEW k \in Nat,
         s.todo # << >>, Formed(s), Within(s, k), r.todo = Tail(s.todo)
  PROVE  Within(r, k)
<1>1. s.todo \in Seq(Item) /\ Len(s.todo) \in Nat \ {0}
  BY DEF Resolver
<1>2. /\ Len(r.todo) = Len(s.todo) - 1
      /\ \A i \in 1 .. Len(r.todo) : r.todo[i] = s.todo[i + 1]
  BY <1>1
<1>3. \A i \in 1 .. Len(r.todo) : i + 1 \in 1 .. Len(s.todo) /\ i + 1 > 1
  BY <1>1, <1>2
<1>4. ASSUME NEW i \in 1 .. Len(r.todo)
      PROVE  Reach(r, i) <= 2 * NumberOfNodes * k
  <2>1. r.todo[i] = s.todo[i + 1] /\ i + 1 \in 1 .. Len(s.todo) /\ IsType(s.todo[i + 1].node)
    BY <1>2, <1>3 DEF Formed, FormedAt
  <2>2. Reach(r, i) = Reach(s, i + 1)
    BY <2>1, ReachKept
  <2> QED
    BY <2>1, <2>2 DEF Within
<1> QED
  BY <1>4 DEF Within

\* Where the items of a resolver are that goes on with other nodes.
LEMMA GoOnItems ==
  ASSUME AtWork, NEW r \in Resolver, NEW nodes \in Seq(Node),
         r.todo = Deeper(nodes) \o Tail(Top.todo)
  PROVE  \A i \in 1 .. Len(r.todo) :
           \/ /\ i \in 1 .. Len(nodes)
              /\ r.todo[i] = [node |-> nodes[i], depth |-> Current.depth + 1]
           \/ \E j \in 1 .. Len(Top.todo) : j > 1 /\ r.todo[i] = Top.todo[j]
<1> DEFINE n == Len(nodes)
           new == Deeper(nodes)
           rest == Tail(Top.todo)
<1>1. Top.todo \in Seq(Item) /\ Len(Top.todo) \in Nat \ {0}
  BY HeadIs DEF Resolver
<1>2. /\ n \in Nat /\ DOMAIN new = 1 .. n
      /\ \A i \in 1 .. n : new[i] = [node |-> nodes[i], depth |-> Current.depth + 1]
  BY DEF Deeper
<1>3. Len(rest) = Len(Top.todo) - 1 /\ \A i \in 1 .. Len(rest) : rest[i] = Top.todo[i + 1]
  BY <1>1
<1>4. \E S : new \in Seq(S) /\ rest \in Seq(S)
  <2> DEFINE S == { new[i] : i \in 1 .. n } \cup Item
  <2>1. new \in Seq(S)
    <3>1. \A i \in 1 .. n : new[i] \in S
      OBVIOUS
    <3>2. new = [i \in 1 .. n |-> new[i]]
      BY <1>2 DEF Deeper
    <3> HIDE DEF new, S
    <3> QED
      BY <1>2, <3>1, <3>2, IsASeq
  <2>2. rest \in Seq(S)
    BY <1>1
  <2> QED
    BY <2>1, <2>2
<1>5. Len(new) = n
  BY <1>2 DEF Deeper
<1> HIDE DEF n, new, rest
<1>6. PICK S : new \in Seq(S) /\ rest \in Seq(S)
  BY <1>4
<1>7. /\ Len(new \o rest) = n + Len(rest)
      /\ \A i \in 1 .. n + Len(rest) :
           (new \o rest)[i] = IF i <= n THEN new[i] ELSE rest[i - n]
  BY <1>5, <1>6, ConcatProperties
<1>8. ASSUME NEW i \in 1 .. Len(r.todo)
      PROVE  \/ i \in 1 .. n /\ r.todo[i] = new[i]
             \/ \E j \in 1 .. Len(Top.todo) : j > 1 /\ r.todo[i] = Top.todo[j]
  <2>1. r.todo = new \o rest /\ i \in 1 .. n + Len(rest) /\ Len(rest) \in Nat
    BY <1>1, <1>3, <1>7 DEF new, rest
  <2>2. CASE i <= n
    BY <1>2, <1>7, <2>1, <2>2
  <2>3. CASE ~(i <= n)
    <3>1. i - n \in 1 .. Len(rest) /\ (i - n) + 1 \in 1 .. Len(Top.todo) /\ (i - n) + 1 > 1
      BY <1>1, <1>2, <1>3, <2>1, <2>3
    <3>2. r.todo[i] = Top.todo[(i - n) + 1]
      BY <1>3, <1>7, <2>1, <2>3, <3>1
    <3> QED
      BY <3>1, <3>2
  <2> QED
    BY <2>2, <2>3
<1> QED
  BY <1>2, <1>8 DEF n

LEMMA WithinGoOn ==
  ASSUME AtWork, ~OwnAncestor, NEW k \in Nat, Within(Top, k),
         NEW r \in Resolver, NEW nodes \in Seq(Node),
         r.todo = Deeper(nodes) \o Tail(Top.todo),
         \A i \in 1 .. Len(nodes) :
           IF IsTemplate(nodes[i])
             THEN r.template_args = View(Top, 1) /\ ~IsTemplate(Here)
             ELSE Measure(nodes[i]) < Measure(View(Top, 1))
  PROVE  Within(r, k)
<1> DEFINE b == 2 * NumberOfNodes * k
           V == View(Top, 1)
<1>1. /\ program \in Programs /\ V \in Node /\ 1 \in 1 .. Len(Top.todo)
      /\ Here = Top.todo[1].node /\ Current = Top.todo[1] /\ Formed(Top)
  <2>1. Top.todo \in Seq(Item) /\ Top.todo # << >>
    BY HeadIs DEF AtWork, Resolver
  <2>2. Current = Top.todo[1]
    BY <2>1 DEF Current
  <2>3. Formed(Top)
    BY TopFacts DEF AtWork, OnTheWay, AllFormed, TypeInv, TypeOK, Top
  <2>4. V \in Node
    BY HeadIs, ViewIs DEF AtWork, TypeInv
  <2> QED
    BY <2>2, <2>3, <2>4, HeadIs DEF AtWork, TypeInv
<1>2. Current.depth \in Nat
  BY HereFacts, NameResolverAssumption DEF AtWork, TypeInv
<1>3. Measure(V) \in Nat /\ \A t \in Node : Measure(t) \in Nat
  BY <1>1, MeasureFacts
<1>4. Reach(Top, 1) <= b /\ b \in Nat
  <2>1. 2 * NumberOfNodes \in Nat
    BY NodesAreFinite
  <2> QED
    BY <1>1, <2>1 DEF Within
<1>5. Reach(Top, 1) = Current.depth + 2 * Measure(V) + (IF IsTemplate(Here) THEN 0 ELSE 1)
  BY <1>1 DEF Reach
<1> HIDE DEF b, V
<1>6. ASSUME NEW i \in 1 .. Len(r.todo), i \in 1 .. Len(nodes),
             r.todo[i] = [node |-> nodes[i], depth |-> Current.depth + 1]
      PROVE  Reach(r, i) <= b
  <2>1. r.todo[i].node = nodes[i] /\ r.todo[i].depth = Current.depth + 1 /\ nodes[i] \in Node
    BY <1>6
  <2>2. CASE IsTemplate(nodes[i])
    <3>1. View(r, i) = V /\ ~IsTemplate(Here)
      BY <1>6, <2>1, <2>2 DEF View, IsTemplate, V
    <3>2. Reach(r, i) = Current.depth + 1 + 2 * Measure(V) + 0
      BY <2>1, <2>2, <3>1 DEF Reach
    <3> QED
      BY <1>2, <1>3, <1>4, <1>5, <3>1, <3>2
  <2>3. CASE ~IsTemplate(nodes[i])
    <3>1. View(r, i) = nodes[i] /\ Measure(nodes[i]) < Measure(V)
      BY <1>6, <2>1, <2>3 DEF View, IsTemplate, V
    <3>2. Reach(r, i) = Current.depth + 1 + 2 * Measure(nodes[i]) + 1
      BY <2>1, <2>3, <3>1 DEF Reach
    <3>3. Current.depth + 2 * Measure(V) <= b
      BY <1>2, <1>3, <1>4, <1>5
    <3>4. Measure(nodes[i]) \in Nat
      BY <1>3, <2>1
    <3> QED
      BY <1>2, <1>3, <1>4, <3>1, <3>2, <3>3, <3>4
  <2> QED
    BY <2>2, <2>3
<1>7. ASSUME NEW i \in 1 .. Len(r.todo), NEW j \in 1 .. Len(Top.todo), j > 1,
             r.todo[i] = Top.todo[j]
      PROVE  Reach(r, i) <= b
  <2>1. IsType(Top.todo[j].node) /\ Top \in Resolver
    BY <1>1, <1>7, HeadIs DEF Formed, FormedAt
  <2>2. Reach(r, i) = Reach(Top, j)
    BY <1>7, <2>1, ReachKept DEF AtWork
  <2> QED
    BY <2>2 DEF Within, b
<1>8. \A i \in 1 .. Len(r.todo) : Reach(r, i) <= b
  BY <1>6, <1>7, GoOnItems
<1> QED
  BY <1>8 DEF Within, b

-----------------------------------------------------------------------------
\* Each step that goes on with other nodes.
LEMMA SugarWithin ==
  ASSUME AtWork, ~OwnAncestor, NEW k \in Nat, Within(Top, k), WalkUpFromSugar
  PROVE  \E r \in Resolver : SetTop(r) /\ Within(r, k)
<1> DEFINE node == program.target[Here]
           nodes == << node >>
           r == GoOnWith(nodes)
<1>1. program.kind[Here] \in Sugar /\ HasRoom /\ SetTop(r)
  BY DEF WalkUpFromSugar, At
<1>2. /\ Leads(Here) /\ ~IsRecord(Here)
      /\ program.kind[Here] # "TemplateSpecializationType"
      /\ program.kind[Here] # "ClassTemplateDecl"
  BY <1>1 DEF Leads, Sugar, IsRecord
<1>3. /\ Here \in Node /\ program \in Programs /\ View(Top, 1) = Here
  BY <1>2, HeadIs DEF AtWork, TypeInv
<1>4. node = StandsFor(Here) /\ node \in Node /\ (IsRecord(node) \/ IsType(node))
  BY <1>1, <1>2, <1>3, StandsForFacts DEF Sugar
<1>5. nodes \in Seq(Node) /\ Len(nodes) = 1 /\ nodes[1] = node
  BY <1>4
<1>6. r \in Resolver
  BY <1>1, <1>5, GoOnFacts DEF AtWork, TypeInv
<1>7. r.todo = Deeper(nodes) \o Tail(Top.todo)
  BY HeadIs DEF GoOnWith, Resolver
<1>8. ~IsTemplate(node)
  BY <1>4 DEF IsTemplate, IsRecord, IsType, Types, Unresolved, Sugar
<1>9. Measure(node) < Measure(Here)
  BY <1>2, <1>3, <1>4, MeasureFacts DEF After
<1> HIDE DEF r, nodes, node
<1>10. Within(r, k)
  BY <1>3, <1>5, <1>6, <1>7, <1>8, <1>9, WithinGoOn
<1> QED
  BY <1>1, <1>6, <1>10

LEMMA SpecializationWithin ==
  ASSUME AtWork, ~OwnAncestor, NEW k \in Nat, Within(Top, k),
         WalkUpFromTemplateSpecializationType
  PROVE  \E r \in Resolver : SetTop(r) /\ Within(r, k)
<1> DEFINE node == program.target[Here]
           nodes == << node >>
           on == GoOnWith(nodes)
           r == [on EXCEPT !.template_args = Here]
<1>1. program.kind[Here] = "TemplateSpecializationType" /\ HasRoom /\ SetTop(r)
  BY DEF WalkUpFromTemplateSpecializationType, At
<1>2. Leads(Here) /\ ~IsRecord(Here) /\ program.kind[Here] # "ClassTemplateDecl"
  BY <1>1 DEF Leads, IsRecord
<1>3. /\ Here \in Node /\ program \in Programs /\ View(Top, 1) = Here
  BY <1>2, HeadIs DEF AtWork, TypeInv
<1>4. node \in Node
  BY <1>2, <1>3, KindFacts
<1>5. nodes \in Seq(Node) /\ Len(nodes) = 1 /\ nodes[1] = node
  BY <1>4
<1>6. on \in Resolver
  BY <1>1, <1>5, GoOnFacts DEF AtWork, TypeInv
<1>7. on.todo = Deeper(nodes) \o Tail(Top.todo)
  BY HeadIs DEF GoOnWith, Resolver
<1> HIDE DEF on, nodes
<1>8. /\ r \in Resolver /\ r.template_args = Here
      /\ r.todo = Deeper(nodes) \o Tail(Top.todo)
  BY <1>3, <1>6, <1>7 DEF Resolver
<1>9. ~IsTemplate(node) => Measure(node) < Measure(Here)
  <2>1. ~IsTemplate(node) => StandsFor(Here) = node
    BY <1>3, KindFacts DEF StandsFor, IsTemplate
  <2> QED
    BY <1>2, <1>3, <2>1, MeasureFacts DEF After
<1>10. ~IsTemplate(Here)
  BY <1>2 DEF IsTemplate
<1> HIDE DEF r, node
<1>11. Within(r, k)
  BY <1>3, <1>5, <1>8, <1>9, <1>10, WithinGoOn
<1> QED
  BY <1>1, <1>8, <1>11

LEMMA TemplateWithin ==
  ASSUME AtWork, ~OwnAncestor, NEW k \in Nat, Within(Top, k), WalkUpFromClassTemplateDecl
  PROVE  \E r \in Resolver : SetTop(r) /\ Within(r, k)
<1> DEFINE args == Top.template_args
           node == IF program.special[args] # NoNode THEN program.special[args]
                                                     ELSE program.target[Here]
           nodes == << node >>
           r == GoOnWith(nodes)
<1>1. program.kind[Here] = "ClassTemplateDecl" /\ HasRoom
  BY DEF WalkUpFromClassTemplateDecl, At
<1>2. /\ args \in Node /\ args # NoNode
      /\ program.kind[args] = "TemplateSpecializationType"
      /\ program.target[args] = Here
      /\ View(Top, 1) = args
  BY <1>1, HeadIs, NameResolverAssumption DEF FormedAt, View
<1>3. SetTop(r)
  BY <1>2 DEF WalkUpFromClassTemplateDecl
<1>4. /\ Leads(Here) /\ Leads(args) /\ ~IsRecord(Here) /\ ~IsRecord(args)
      /\ program \in Programs /\ Here \in Node
  BY <1>1, <1>2, HeadIs DEF Leads, IsRecord, AtWork, TypeInv
<1>5. /\ StandsFor(Here) = program.target[Here] /\ StandsFor(Here) \in Node
      /\ IsRecord(StandsFor(Here))
  BY <1>1, <1>4, StandsForFacts
<1>6. /\ program.special[args] # NoNode =>
           /\ node = StandsFor(args) /\ IsRecord(node)
      /\ program.special[args] = NoNode =>
           /\ StandsFor(args) = Here /\ node = StandsFor(Here)
  BY <1>2, <1>4, <1>5, KindFacts DEF StandsFor
<1>7. node \in Node /\ ~IsTemplate(node)
  BY <1>2, <1>4, <1>5, <1>6, StandsForFacts DEF IsTemplate, IsRecord
<1>8. nodes \in Seq(Node) /\ Len(nodes) = 1 /\ nodes[1] = node
  BY <1>7
<1>9. r \in Resolver
  BY <1>1, <1>8, GoOnFacts DEF AtWork, TypeInv
<1>10. r.todo = Deeper(nodes) \o Tail(Top.todo)
  BY HeadIs DEF GoOnWith, Resolver
<1> HIDE DEF r, nodes, node
<1>11. Measure(node) < Measure(args)
  <2>1. /\ Measure(StandsFor(args)) \in Nat /\ Measure(StandsFor(args)) < Measure(args)
        /\ Measure(StandsFor(Here)) \in Nat /\ Measure(StandsFor(Here)) < Measure(Here)
        /\ Measure(args) \in Nat /\ Measure(Here) \in Nat
    BY <1>2, <1>4, MeasureFacts DEF After
  <2> QED
    BY <1>6, <2>1
<1>12. Within(r, k)
  BY <1>2, <1>7, <1>8, <1>9, <1>10, <1>11, WithinGoOn
<1> QED
  BY <1>3, <1>9, <1>12

LEMMA BasesWithin ==
  ASSUME AtWork, ~OwnAncestor, NEW k \in Nat, Within(Top, k), LookInBases
  PROVE  \E r \in Resolver : SetTop(r) /\ Within(r, k)
<1> DEFINE nodes == program.bases[Here]
           r == GoOnWith(nodes)
<1>1. program.kind[Here] = "CXXRecordDecl" /\ HasRoom /\ SetTop(r)
  BY DEF LookInBases, At
<1>2. /\ Here \in Node /\ program \in Programs /\ View(Top, 1) = Here /\ IsRecord(Here)
  BY <1>1, HeadIs DEF AtWork, TypeInv, IsRecord
<1>3. nodes \in Seq(Node) /\ \A i \in 1 .. Len(nodes) : nodes[i] \in Node /\ IsType(nodes[i])
  BY <1>2, KindFacts
<1>4. r \in Resolver
  BY <1>1, <1>3, GoOnFacts DEF AtWork, TypeInv
<1>5. r.todo = Deeper(nodes) \o Tail(Top.todo)
  BY HeadIs DEF GoOnWith, Resolver
<1>6. \A i \in 1 .. Len(nodes) : ~IsTemplate(nodes[i])
  BY <1>3 DEF IsTemplate, IsType, Types, Unresolved, Sugar
<1>7. \A i \in 1 .. Len(nodes) : Measure(nodes[i]) < Measure(Here)
  <2>1. After(Here) = Elements(nodes)
    BY <1>2 DEF After
  <2>2. \A i \in 1 .. Len(nodes) : nodes[i] \in After(Here)
    BY <1>3, <2>1 DEF Elements
  <2> QED
    BY <1>2, <2>2, MeasureFacts
<1> HIDE DEF r, nodes
<1>8. Within(r, k)
  BY <1>2, <1>3, <1>4, <1>5, <1>6, <1>7, WithinGoOn
<1> QED
  BY <1>1, <1>4, <1>8

LEMMA ResultWithin ==
  ASSUME AtWork, NEW k \in Nat, Within(Top, k), NEW result \in Node \cup {NoNode},
         SetTop(Result(result))
  PROVE  \E r \in Resolver : SetTop(r) /\ Within(r, k)
<1> DEFINE r == Result(result)
<1>1. r \in Resolver
  BY ResultFacts DEF AtWork, TypeInv
<1>2. r.todo = IF result = NoNode THEN Tail(Top.todo) ELSE << >>
  BY HeadIs DEF Result, Resolver
<1> HIDE DEF r
<1>3. CASE result = NoNode
  <2>1. Formed(Top) /\ Top \in Resolver /\ Top.todo # << >>
    BY TopFacts DEF AtWork, OnTheWay, AllFormed, TypeInv, TypeOK, Top
  <2>2. Within(r, k)
    BY <1>1, <1>2, <1>3, <2>1, WithinTail DEF AtWork
  <2> QED
    BY <1>1, <2>2 DEF r
<1>4. CASE result # NoNode
  <2>1. Within(r, k)
    BY <1>2, <1>4 DEF Within
  <2> QED
    BY <1>1, <2>1 DEF r
<1> QED
  BY <1>3, <1>4

-----------------------------------------------------------------------------
\* The graph never changes, so the bound of a resolver does not either.
LEMMA WithinNext ==
  ASSUME program' = program, AllWithin(resolvers')
  PROVE  AllWithin(resolvers)' /\ OwnAncestor' = OwnAncestor
<1>1. ClassIn' = ClassIn
  BY DEF ClassIn, StandsFor
<1>2. AncestorsIn' = AncestorsIn
  BY <1>1 DEF AncestorsIn, BasesOf, ClassOf
<1>3. OwnAncestor' = OwnAncestor
  BY <1>2 DEF OwnAncestor, Ancestors, NumberOfNodes, IsRecord
<1>4. \A t : After(t)' = After(t)
  BY DEF After, IsRecord, Leads, Elements, StandsFor
<1>5. \A S : Closed(S)' = Closed(S)
  BY <1>4 DEF Closed
<1>6. \A t : Ahead(t)' = Ahead(t)
  BY <1>4, <1>5 DEF Ahead
<1>7. \A t : Measure(t)' = Measure(t)
  BY <1>6 DEF Measure
<1>8. \A r, i : View(r, i)' = View(r, i)
  BY DEF View
<1>9. \A t : IsTemplate(t)' = IsTemplate(t)
  BY DEF IsTemplate
<1>10. \A r, i : Reach(r, i)' = Reach(r, i)
  BY <1>7, <1>8, <1>9 DEF Reach
<1>11. \A r, k : Within(r, k)' = Within(r, k)
  BY <1>10 DEF Within, NumberOfNodes
<1> QED
  BY <1>3, <1>11 DEF AllWithin

LEMMA TopWithin ==
  ASSUME DepthInv, resolvers # << >>, Top.todo # << >>
  PROVE  /\ AtWork
         /\ resolvers \in Seq(Resolver) /\ Len(resolvers) \in Nat \ {0}
         /\ ~OwnAncestor => Within(Top, Len(resolvers))
<1>1. resolvers \in Seq(Resolver) /\ Len(resolvers) \in 1 .. Len(resolvers)
  BY TopFacts DEF DepthInv, LookupInv, TypeInv, TypeOK
<1>2. AtWork
  BY DEF DepthInv, LookupInv, AtWork
<1> QED
  BY <1>1, <1>2 DEF DepthInv, AllWithin, Top

\* A step that only changes the resolver at work.
LEMMA SetTopDepth ==
  ASSUME DepthInv, resolvers # << >>, LookupInv',
         NEW s, SetTop(s),
         ~OwnAncestor => \E r \in Resolver : SetTop(r) /\ Within(r, Len(resolvers))
  PROVE  DepthInv'
<1>1. /\ program' = program /\ query' = query /\ path' = path
  BY DEF SetTop
<1>2. resolvers \in Seq(Resolver) /\ Len(resolvers) \in 1 .. Len(resolvers)
  BY TopFacts DEF DepthInv, LookupInv, TypeInv, TypeOK
<1>3. Len(resolvers') = Len(resolvers)
  BY <1>2 DEF SetTop
<1>4. NamesRemain'
  BY <1>1, <1>3 DEF NamesRemain, DepthInv
<1>5. AllWithin(resolvers')
  <2> SUFFICES ASSUME ~OwnAncestor PROVE AllWithin(resolvers')
    BY DEF AllWithin
  <2>1. PICK r \in Resolver : SetTop(r) /\ Within(r, Len(resolvers))
    OBVIOUS
  <2>2. \A k \in 1 .. Len(resolvers) :
          resolvers'[k] = IF k = Len(resolvers) THEN r ELSE resolvers[k]
    BY <1>2, <2>1 DEF SetTop
  <2>3. \A k \in 1 .. Len(resolvers) : Within(resolvers[k], k)
    BY DEF DepthInv, AllWithin
  <2> QED
    BY <1>3, <2>1, <2>2, <2>3 DEF AllWithin
<1> QED
  BY <1>1, <1>4, <1>5, WithinNext DEF DepthInv

\* The end of a call, other than for want of room.
LEMMA FinishDepth ==
  ASSUME DepthInv, LookupInv', NEW how, NEW result, Finish(how, result)
  PROVE  DepthInv'
<1>1. program' = program /\ resolvers' = << >>
  BY DEF Finish
<1>2. NamesRemain'
  BY <1>1 DEF NamesRemain
<1>3. AllWithin(resolvers')
  BY <1>1 DEF AllWithin
<1> QED
  BY <1>1, <1>2, <1>3, WithinNext DEF DepthInv

\* The one node of a new resolver.
LEMMA NewWithin ==
  ASSUME program \in Programs, ~OwnAncestor, NEW t \in Node, IsType(t), NEW x,
         NEW depth \in Nat, NEW k \in Nat \ {0},
         depth <= 2 * NumberOfNodes * (k - 1) + 1
  PROVE  Within(NewResolver(x, t, depth), k)
<1> DEFINE r == NewResolver(x, t, depth)
           n == NumberOfNodes
           m == Measure(t)
<1>1. Len(r.todo) = 1 /\ r.todo[1].node = t /\ r.todo[1].depth = depth
  BY DEF NewResolver
<1>2. ~IsTemplate(t)
  BY DEF IsTemplate, IsType, Types, Unresolved, Sugar
<1>3. m \in Nat /\ n \in Nat /\ m < n
  BY MeasureFacts, NodesAreFinite
<1> HIDE DEF r
<1>4. Reach(r, 1) = depth + 2 * m + 1
  BY <1>1, <1>2 DEF Reach, View, IsTemplate
<1>5. 2 * n * k = 2 * n * (k - 1) + 2 * n
  BY <1>3
<1>6. 2 * n * (k - 1) \in Nat
  BY <1>3
<1> HIDE DEF n, m
<1>7. Reach(r, 1) <= 2 * n * k
  BY <1>3, <1>4, <1>5, <1>6 DEF n
<1> QED
  BY <1>1, <1>7 DEF Within, r, n

LEMMA StartDepth ==
  ASSUME DepthInv, LookupInv', Start
  PROVE  DepthInv'
<1> DEFINE r == NewResolver(Head(query.names), query.container, 1)
<1>1. /\ program' = program /\ query' = query
      /\ resolvers' = << r >> /\ path' = Tail(query.names)
  BY DEF Start
<1>2. query.names \in Seq(Name) /\ query.names # << >> /\ query.container \in Node
  BY DEF DepthInv, LookupInv, TypeInv, TypeOK, Query
<1>3. NamesRemain'
  <2>1. Len(resolvers') = 1 /\ Len(path') = Len(query.names) - 1
    BY <1>1, <1>2
  <2>2. 1 + (Len(query.names) - 1) <= Len(query.names)
    BY <1>2
  <2> QED
    BY <1>1, <2>1, <2>2 DEF NamesRemain
<1>4. IsType(query.container) /\ program \in Programs
  BY NameResolverAssumption DEF DepthInv, LookupInv, TypeInv, IsType
<1>5. ~OwnAncestor => Within(r, 1)
  <2>1. 1 <= 2 * NumberOfNodes * (1 - 1) + 1
    BY NodesAreFinite
  <2> QED
    BY <1>2, <1>4, <2>1, NewWithin
<1> HIDE DEF r
<1>6. AllWithin(resolvers')
  BY <1>1, <1>5 DEF AllWithin
<1> QED
  BY <1>1, <1>3, <1>6, WithinNext DEF DepthInv

\* The next name is looked up in the type that the one before it declares.
LEMMA FollowDepth ==
  ASSUME DepthInv, LookupInv', FollowPath
  PROVE  DepthInv'
<1> DEFINE n == Len(resolvers)
           t == program.target[Found[1]]
           x == Head(path)
           r == NewResolver(x, t, Current.depth + 1)
<1>1. /\ program' = program /\ query' = query
      /\ resolvers' = Append(resolvers, r) /\ path' = Tail(path)
      /\ FoundOne /\ FoundKind = "TypedefDecl" /\ path # << >>
      /\ resolvers # << >> /\ Top.todo # << >> /\ IsRecord(Here)
  BY DEF FollowPath, FoundOne, PathGoesOn, At, IsRecord
<1>2. /\ AtWork /\ resolvers \in Seq(Resolver) /\ n \in Nat \ {0}
      /\ ~OwnAncestor => Within(Top, n)
  BY <1>1, TopWithin
<1>3. t \in Node /\ IsType(t) /\ program \in Programs
  <2>1. Found[1] \in Node /\ program \in Programs
    BY <1>1, <1>2, FoundFacts DEF AtWork, TypeInv
  <2>2. program.kind[Found[1]] = "TypedefDecl"
    BY <1>1 DEF FoundKind
  <2>3. t \in Node
    BY <2>1, <2>2, KindFacts DEF TypeDecls
  <2>4. program.kind[t] \in TargetKinds(program.kind[Found[1]])
    BY <2>1, <2>3, KindFacts, NameResolverAssumption
  <2>5. TargetKinds(program.kind[Found[1]]) = Types
    BY <2>2 DEF TargetKinds, TypeDecls, Sugar
  <2> QED
    BY <2>1, <2>3, <2>4, <2>5 DEF IsType
<1>4. Current.depth \in Nat /\ Current.depth + 1 \in Nat
  <2>1. Current.depth \in 0 .. MaxDepth
    BY <1>1, <1>2, HereFacts DEF AtWork, TypeInv
  <2> QED
    BY <2>1, NameResolverAssumption
<1> HIDE DEF r, t
<1>5. /\ Len(resolvers') = n + 1 /\ resolvers'[n + 1] = r
      /\ \A k \in 1 .. n : resolvers'[k] = resolvers[k]
  BY <1>1, <1>2
<1>6. NamesRemain'
  <2>1. /\ path \in Seq(Name) /\ Len(path) \in Nat \ {0} /\ Len(path') = Len(path) - 1
        /\ Len(query.names) \in Nat
    BY <1>1, <1>2 DEF AtWork, TypeInv, TypeOK, Query
  <2>2. n + Len(path) <= Len(query.names)
    BY <1>1 DEF DepthInv, NamesRemain
  <2> HIDE DEF n
  <2>3. Len(resolvers') + Len(path') <= Len(query.names)
    BY <1>2, <1>5, <2>1, <2>2
  <2> QED
    BY <1>1, <2>3 DEF NamesRemain
<1>7. ASSUME ~OwnAncestor
      PROVE  Within(r, n + 1)
  <2>1. /\ 1 \in 1 .. Len(Top.todo) /\ Here = Top.todo[1].node /\ Current = Top.todo[1]
        /\ View(Top, 1) = Here /\ Here \in Node
    <3>1. Top.todo \in Seq(Item) /\ Top.todo # << >>
      BY <1>1, <1>2, HeadIs DEF Resolver
    <3> QED
      BY <1>1, <1>2, <3>1, HeadIs DEF Current, IsRecord
  <2>2. Reach(Top, 1) = Current.depth + 2 * Measure(Here) + 1
    BY <1>1, <2>1 DEF Reach, IsTemplate, IsRecord
  <2>3. Reach(Top, 1) <= 2 * NumberOfNodes * n
    BY <1>2, <1>7, <2>1 DEF Within
  <2>4. Measure(Here) \in Nat
    BY <1>3, <1>7, <2>1, MeasureFacts
  <2>5. 2 * NumberOfNodes * n \in Nat
    BY <1>2, NodesAreFinite
  <2> HIDE DEF n
  <2>6. Current.depth + 1 <= 2 * NumberOfNodes * n + 1
    <3>1. \A d, m, b \in Nat : d + 2 * m + 1 <= b => d + 1 <= b + 1
      OBVIOUS
    <3> QED
      BY <1>4, <2>2, <2>3, <2>4, <2>5, <3>1
  <2>7. n + 1 \in Nat \ {0} /\ (n + 1) - 1 = n
    BY <1>2
  <2> QED
    BY <1>3, <1>4, <1>7, <2>6, <2>7, NewWithin DEF r
<1>8. AllWithin(resolvers')
  <2> SUFFICES ASSUME ~OwnAncestor, NEW k \in 1 .. n + 1 PROVE Within(resolvers'[k], k)
    BY <1>5 DEF AllWithin
  <2>1. CASE k = n + 1
    BY <1>5, <1>7, <2>1
  <2>2. CASE k # n + 1
    <3>1. k \in 1 .. n
      BY <1>2, <2>2
    <3> QED
      BY <1>5, <3>1 DEF DepthInv, AllWithin
  <2> QED
    BY <2>1, <2>2
<1> QED
  BY <1>1, <1>6, <1>8, WithinNext DEF DepthInv

LEMMA ReturnDepth ==
  ASSUME DepthInv, LookupInv', ReturnToOuter
  PROVE  DepthInv'
<1> DEFINE n == Len(resolvers) - 1
           q == resolvers[n]
           r == resolvers'[n]
<1>1. /\ n \in Nat \ {0} /\ Len(resolvers) = n + 1
      /\ q \in Resolver /\ q.todo # << >> /\ r \in Resolver
      /\ Len(resolvers') = n
      /\ \A k \in 1 .. n : k # n => resolvers'[k] = resolvers[k]
      /\ r.todo = IF Top.result = NoNode THEN Tail(q.todo) ELSE << >>
  BY ReturnIs DEF DepthInv, LookupInv, TypeInv, TypeOK, ReturnToOuter
<1>2. program' = program /\ query' = query /\ path' = path /\ resolvers # << >>
  BY DEF ReturnToOuter, Exhausted
<1> HIDE DEF n, q, r
<1>3. NamesRemain'
  <2>1. Len(path) \in Nat /\ Len(query.names) \in Nat
    BY DEF DepthInv, LookupInv, TypeInv, TypeOK, Query
  <2>2. (n + 1) + Len(path) <= Len(query.names)
    BY <1>1, <1>2 DEF DepthInv, NamesRemain
  <2>3. n + Len(path) <= Len(query.names)
    BY <1>1, <2>1, <2>2
  <2> QED
    BY <1>1, <1>2, <2>3 DEF NamesRemain
<1>4. ASSUME ~OwnAncestor
      PROVE  Within(r, n)
  <2>1. Within(q, n) /\ Formed(q) /\ TypeInv
    <3>1. n \in 1 .. Len(resolvers)
      BY <1>1
    <3> QED
      BY <1>2, <1>4, <3>1 DEF DepthInv, AllWithin, LookupInv, OnTheWay, AllFormed, q
  <2>2. CASE Top.result = NoNode
    BY <1>1, <2>1, <2>2, WithinTail
  <2>3. CASE Top.result # NoNode
    BY <1>1, <2>3 DEF Within
  <2> QED
    BY <2>2, <2>3
<1>5. AllWithin(resolvers')
  <2> SUFFICES ASSUME ~OwnAncestor, NEW k \in 1 .. n PROVE Within(resolvers'[k], k)
    BY <1>1 DEF AllWithin
  <2>1. CASE k = n
    BY <1>4, <2>1 DEF r
  <2>2. CASE k # n
    <3>1. k \in 1 .. Len(resolvers)
      BY <1>1
    <3> QED
      BY <1>1, <2>2, <3>1 DEF DepthInv, AllWithin
  <2> QED
    BY <2>1, <2>2
<1> QED
  BY <1>2, <1>3, <1>5, WithinNext DEF DepthInv

LEMMA NextDepth ==
  ASSUME DepthInv, Next
  PROVE  DepthInv'
<1>1. LookupInv'
  BY NextLookup DEF DepthInv
<1>2. ASSUME resolvers # << >>, Top.todo # << >>
      PROVE  /\ AtWork /\ Len(resolvers) \in Nat
             /\ ~OwnAncestor => Within(Top, Len(resolvers))
  BY <1>2, TopWithin
<1>3. CASE ResolveType
  BY <1>1, <1>3, StartDepth, FinishDepth DEF ResolveType
<1>4. CASE GetDeclaration
  BY <1>1, <1>4, StartDepth, FinishDepth DEF GetDeclaration
<1>5. CASE WalkUpFromSugar
  BY <1>1, <1>2, <1>5, SugarWithin, SetTopDepth DEF WalkUpFromSugar, At
<1>6. CASE WalkUpFromTemplateSpecializationType
  BY <1>1, <1>2, <1>6, SpecializationWithin, SetTopDepth
     DEF WalkUpFromTemplateSpecializationType, At
<1>7. CASE WalkUpFromClassTemplateDecl
  BY <1>1, <1>2, <1>7, TemplateWithin, SetTopDepth DEF WalkUpFromClassTemplateDecl, At
<1>8. CASE WalkUpFromUnresolved
  BY <1>1, <1>2, <1>8, ResultWithin, SetTopDepth DEF WalkUpFromUnresolved, At
<1>9. CASE WalkUpFromOther
  BY <1>1, <1>9, FinishDepth DEF WalkUpFromOther
<1>10. CASE LookInBases
  BY <1>1, <1>2, <1>10, BasesWithin, SetTopDepth DEF LookInBases, At
<1>11. CASE FoundSeveral
  BY <1>1, <1>11, FinishDepth DEF FoundSeveral
<1>12. CASE NotUnderstood
  BY <1>1, <1>12, FinishDepth DEF NotUnderstood
<1>13. CASE FoundResult
  <2>1. /\ resolvers # << >> /\ Top.todo # << >> /\ FoundOne
        /\ SetTop(Result(FoundAnswer))
    BY <1>13 DEF FoundResult, FoundOne, At
  <2>2. Found[1] \in Node /\ program \in Programs
    BY <2>1, <1>2, FoundFacts DEF AtWork, TypeInv
  <2>3. FoundAnswer \in Node \cup {NoNode}
    BY <2>2, KindFacts DEF FoundAnswer
  <2> QED
    BY <1>1, <1>2, <2>1, <2>3, ResultWithin, SetTopDepth
<1>14. CASE FollowPath
  BY <1>1, <1>14, FollowDepth
<1>15. CASE ReturnToOuter
  BY <1>1, <1>15, ReturnDepth
<1>16. CASE Return
  BY <1>1, <1>16, FinishDepth DEF Return
<1>17. CASE RunOutOfStack
  BY <1>1, <1>17, FinishDepth DEF RunOutOfStack
<1> QED
  BY <1>3, <1>4, <1>5, <1>6, <1>7, <1>8, <1>9, <1>10, <1>11, <1>12, <1>13, <1>14,
     <1>15, <1>16, <1>17 DEF Next, WalkUp

-----------------------------------------------------------------------------
\* Room for two calls per node and name of the path.
HasEnoughRoom == \A q \in Queries : MaxDepth > 2 * Cardinality(Node) * Len(q.names)

LEMMA RoomSuffices ==
  ASSUME HasEnoughRoom, DepthInv, RunOutOfStack
  PROVE  OwnAncestor
<1> SUFFICES ASSUME ~OwnAncestor PROVE FALSE
  OBVIOUS
<1> DEFINE n == Len(resolvers)
           L == Len(query.names)
           V == View(Top, 1)
           N == 2 * NumberOfNodes
<1>1. resolvers # << >> /\ Top.todo # << >> /\ ~(Current.depth < MaxDepth)
  BY DEF RunOutOfStack, HasRoom
<1>2. /\ AtWork /\ n \in Nat \ {0} /\ Within(Top, n)
      /\ program \in Programs /\ query \in Queries
  BY <1>1, TopWithin DEF DepthInv, LookupInv, TypeInv
<1>3. L \in Nat /\ Len(path) \in Nat /\ n + Len(path) <= L
  BY <1>1 DEF DepthInv, NamesRemain, LookupInv, TypeInv, TypeOK, Query
<1>4. /\ 1 \in 1 .. Len(Top.todo) /\ Current = Top.todo[1] /\ V \in Node
  <2>1. Top.todo \in Seq(Item) /\ Top.todo # << >> /\ FormedAt(Top, 1)
    BY <1>1, <1>2, HeadIs DEF Resolver
  <2> QED
    BY <1>2, <2>1, HeadIs, ViewIs DEF AtWork, Current
<1>5. Reach(Top, 1) <= N * n /\ N \in Nat
  <2>1. N \in Nat
    BY NodesAreFinite
  <2> QED
    BY <1>2, <1>4, <2>1 DEF Within
<1>6. Measure(V) \in Nat
  BY <1>2, <1>4, MeasureFacts
<1>7. Current.depth \in Nat
  BY <1>1, <1>2, HereFacts, NameResolverAssumption DEF AtWork, TypeInv
<1>8. Reach(Top, 1) = Current.depth + 2 * Measure(V) + (IF IsTemplate(Current.node) THEN 0 ELSE 1)
  BY <1>4 DEF Reach
<1>9. MaxDepth > N * L /\ MaxDepth \in Nat
  BY <1>2, NameResolverAssumption DEF HasEnoughRoom, NumberOfNodes
<1> HIDE DEF n, L, N, V
<1>10. Current.depth <= N * n
  <2>1. N * n \in Nat
    BY <1>2, <1>5
  <2>2. CASE IsTemplate(Current.node)
    BY <1>5, <1>6, <1>7, <1>8, <2>1, <2>2
  <2>3. CASE ~IsTemplate(Current.node)
    BY <1>5, <1>6, <1>7, <1>8, <2>1, <2>3
  <2> QED
    BY <2>2, <2>3
<1>11. N * n <= N * L
  <2>1. n <= L
    BY <1>2, <1>3
  <2>2. \E d \in Nat : L = n + d
    <3>1. L - n \in Nat /\ L = n + (L - n)
      BY <1>2, <1>3, <2>1
    <3> QED
      BY <3>1
  <2>3. PICK d \in Nat : L = n + d
    BY <2>2
  <2>4. N * L = N * n + N * d
    BY <1>2, <1>5, <2>3
  <2>5. N * d \in Nat /\ N * n \in Nat
    BY <1>2, <1>5, <2>3
  <2> QED
    BY <2>4, <2>5
<1>12. N * n \in Nat /\ N * L \in Nat
  BY <1>2, <1>3, <1>5
<1> QED
  BY <1>1, <1>7, <1>9, <1>10, <1>11, <1>12

LEMMA OverflowIs ==
  OverflowByInheritance <=> (outcome = "overflow" => OwnAncestor)
BY DEF OverflowByInheritance, OwnAncestor, Ancestors, NumberOfNodes, IsRecord

LEMMA NextOverflow ==
  ASSUME HasEnoughRoom, DepthInv, OverflowByInheritance, Next
  PROVE  OverflowByInheritance'
<1>1. program' = program
  BY DEF Next, WalkUp, ResolveType, GetDeclaration, Start, Finish, WalkUpFromSugar,
     WalkUpFromTemplateSpecializationType, WalkUpFromClassTemplateDecl,
     WalkUpFromUnresolved, WalkUpFromOther, LookInBases, FoundSeveral, NotUnderstood,
     FoundResult, FollowPath, ReturnToOuter, Return, RunOutOfStack, SetTop
<1>2. OwnAncestor' = OwnAncestor
  <2>1. ClassIn' = ClassIn
    BY <1>1 DEF ClassIn, StandsFor
  <2>2. AncestorsIn' = AncestorsIn
    BY <1>1, <2>1 DEF AncestorsIn, BasesOf, ClassOf
  <2> QED
    BY <1>1, <2>2 DEF OwnAncestor, Ancestors, NumberOfNodes, IsRecord
<1>3. RunOutOfStack \/ outcome' = outcome \/ outcome' # "overflow"
  BY DEF Next, WalkUp, ResolveType, GetDeclaration, Start, Finish, WalkUpFromSugar,
     WalkUpFromTemplateSpecializationType, WalkUpFromClassTemplateDecl,
     WalkUpFromUnresolved, WalkUpFromOther, LookInBases, FoundSeveral, NotUnderstood,
     FoundResult, FollowPath, ReturnToOuter, Return, SetTop
<1>4. outcome' = "overflow" => OwnAncestor
  BY <1>3, RoomSuffices, OverflowIs
<1> QED
  BY <1>2, <1>4 DEF OverflowByInheritance, OwnAncestor, Ancestors, NumberOfNodes, IsRecord

(***************************************************************************)
(* A stack with room for two calls per type, class or template of the      *)
(* program and name of the path is exhausted only by a class that inherits *)
(* from itself: neither sugar, nor specializations, nor bases, nor the     *)
(* resolvers that a path stacks up make the recursion of NestedNameResolver*)
(* endless otherwise.                                                      *)
(***************************************************************************)
THEOREM OverflowByInheritanceWithRoom ==
  ASSUME \A q \in Queries : MaxDepth > 2 * Cardinality(Node) * Len(q.names)
  PROVE  Spec => []OverflowByInheritance
<1>1. HasEnoughRoom
  BY DEF HasEnoughRoom
<1> DEFINE Inv == DepthInv /\ OverflowByInheritance
<1>2. Init => Inv
  <2> SUFFICES ASSUME Init PROVE Inv
    OBVIOUS
  <2>1. TypeInv
    BY NameResolverAssumption DEF Init, TypeInv, TypeOK, Outcome, Waiting
  <2>2. OnTheWay(resolvers, path)
    BY DEF Init, OnTheWay
  <2>3. LookupInv
    BY <2>1, <2>2 DEF Init, LookupInv, PlainAnswer
  <2>4. NamesRemain /\ AllWithin(resolvers)
    BY DEF Init, NamesRemain, AllWithin
  <2>5. OverflowByInheritance
    BY DEF Init, OverflowByInheritance
  <2> QED
    BY <2>3, <2>4, <2>5 DEF DepthInv
<1>3. Inv /\ [Next]_resolverVars => Inv'
  <2>1. ASSUME Inv, UNCHANGED resolverVars PROVE Inv'
    <3>1. /\ program' = program /\ query' = query /\ outcome' = outcome
          /\ answer' = answer /\ resolvers' = resolvers /\ path' = path
      BY <2>1 DEF resolverVars
    <3>2. LookupInv'
      <4>1. TypeInv'
        BY <2>1, <3>1 DEF DepthInv, LookupInv, TypeInv, TypeOK, Waiting
      <4>2. OnTheWay(resolvers', path') /\ LookupInv
        BY <2>1, <3>1 DEF DepthInv, LookupInv
      <4> QED
        BY <3>1, <4>1, <4>2, GoingOn
    <3>3. NamesRemain' /\ AllWithin(resolvers')
      BY <2>1, <3>1 DEF DepthInv, NamesRemain
    <3>4. DepthInv' /\ OwnAncestor' = OwnAncestor
      BY <3>1, <3>2, <3>3, WithinNext DEF DepthInv
    <3>5. OverflowByInheritance'
      BY <2>1, <3>1, <3>4
         DEF OverflowByInheritance, OwnAncestor, Ancestors, NumberOfNodes, IsRecord
    <3> QED
      BY <3>4, <3>5
  <2>2. ASSUME Inv, Next PROVE Inv'
    BY <1>1, <2>2, NextDepth, NextOverflow
  <2> QED
    BY <2>1, <2>2
<1>4. Inv => OverflowByInheritance
  OBVIOUS
<1> QED
  BY <1>2, <1>3, <1>4, PTL DEF Spec
=============================================================================
