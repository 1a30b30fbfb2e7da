----------------------------- MODULE NameResolver -----------------------------
(***************************************************************************)
(* How a dependent name, the X of A<T>::X, is looked up: NestedNameResolver*)
(* (nested_name_resolver.hpp) with the three visitors that finish a lookup *)
(* (InnerNameResolver, IdentifierPathResolver, InnerDeclResolver), called  *)
(* by DelayedType::resolveType and DelayedExpression::getDeclaration.      *)
(*                                                                         *)
(* A resolver is a recursive visitor that stops at its first result.  What *)
(* it has yet to traverse is a sequence, todo: a class without the name    *)
(* puts its bases in front of it, a result empties it.  In a path X::Y a   *)
(* resolver for X creates a resolver for Y, so resolvers form a stack;     *)
(* all of them take their names from one shared stack, path.               *)
(*                                                                         *)
(* Types and declarations are nodes of a graph.  Whatever Type::get does   *)
(* with the type that is found is left to the module TypeMap.              *)
(***************************************************************************)
EXTENDS Naturals, Sequences, FiniteSets

CONSTANTS
  Node,      \* the types and declarations of a program
  NoNode,    \* a null pointer
  Name,      \* identifiers
  Programs,  \* the graphs to consider
  Queries,   \* the dependent names to look up in them
  MaxDepth   \* bound: nested calls that the stack has room for

\* Types in which a resolver looks no further, without an error.
Unresolved == { "TemplateTypeParmType", "DependentTemplateSpecializationType",
                "DependentNameType" }

Sugar == { "RecordType", "TypedefType", "ElaboratedType" }

Types == Unresolved \cup Sugar
           \cup { "TemplateSpecializationType", "InjectedClassNameType", "OtherType" }

\* The declarations that are a TypeDecl to clang.
TypeDecls == { "TypedefDecl", "TypeAliasDecl", "CXXRecordDecl", "EnumDecl" }

\* ImplicitDecl: the name of a class inside the class, which clang adds to it.
Kind == Types \cup TypeDecls
          \cup { "ClassTemplateDecl", "TypeAliasTemplateDecl", "ImplicitDecl", "OtherDecl" }

(***************************************************************************)
(* target:  the declaration or the type a type stands for, the type that a *)
(*          declaration declares, the pattern of a class template, the     *)
(*          type that an alias template is for.                            *)
(* special: findSpecialization for the arguments of a specialization type. *)
(* members, bases: of a class; a class without a definition has none.      *)
(***************************************************************************)
Program == [ kind    : [Node -> Kind],
             target  : [Node -> Node \cup {NoNode}],
             special : [Node -> Node \cup {NoNode}],
             members : [Node -> [Name -> Seq(Node)]],
             bases   : [Node -> Seq(Node)] ]

\* names is what follows the type that the qualifier begins with.
Query == [ wanted    : {"type", "declaration"},
           qualifier : {"TypeSpec", "TypeSpecWithTemplate", "Other"},
           container : Node,
           names     : Seq(Name) \ { << >> } ]

\* The kinds of what a node of each kind leads to.
TargetKinds(kind) ==
  CASE kind \in {"RecordType", "InjectedClassNameType", "ClassTemplateDecl"} ->
         {"CXXRecordDecl"}
    [] kind \in {"TypedefType", "ElaboratedType", "TypeAliasTemplateDecl"}
                 \cup TypeDecls -> Types
    [] kind = "ImplicitDecl" -> {"RecordType", "InjectedClassNameType"}
    [] kind = "TemplateSpecializationType" ->
         {"ClassTemplateDecl", "TypeAliasTemplateDecl", "OtherDecl"}
    [] OTHER -> Kind

(***************************************************************************)
(* What clang guarantees of a graph.  A type that stands for another is    *)
(* never, by however many steps, that other type.                          *)
(***************************************************************************)
WellFormed(p) ==
  /\ \A n \in Node :
       /\ p.kind[n] \in Sugar \cup TypeDecls
                          \cup {"TemplateSpecializationType", "InjectedClassNameType",
                                "ClassTemplateDecl", "TypeAliasTemplateDecl",
                                "ImplicitDecl"}
            => p.target[n] # NoNode
       /\ p.target[n] # NoNode => p.kind[p.target[n]] \in TargetKinds(p.kind[n])
       /\ p.special[n] # NoNode => /\ p.kind[n] = "TemplateSpecializationType"
                                   /\ p.kind[p.target[n]] = "ClassTemplateDecl"
                                   /\ p.kind[p.special[n]] = "CXXRecordDecl"
       /\ \A i \in DOMAIN p.bases[n] : p.kind[p.bases[n][i]] \in Types
  /\ \A S \in (SUBSET { n \in Node : p.kind[n] \in Sugar \ {"RecordType"} }) \ {{}} :
       \E n \in S : p.target[n] \notin S

ASSUME NameResolverAssumption ==
  /\ NoNode \notin Node
  /\ IsFiniteSet(Node)
  /\ MaxDepth \in Nat \ {0}
  /\ Programs \subseteq Program
  /\ \A p \in Programs : WellFormed(p)
  /\ Queries \subseteq Query
  /\ \A p \in Programs, q \in Queries : p.kind[q.container] \in Types

VARIABLES
  program,    \* the graph; never changes
  query,      \* the name to resolve; never changes
  path,       \* identifier_path: the names not yet looked up, the top first
  resolvers,  \* the NestedNameResolvers that are running, the innermost last
  outcome,    \* "called" until the call returns or throws
  answer      \* what it returned

resolverVars == << program, query, path, resolvers, outcome, answer >>

Outcome == {"called", "found", "null", "logic_error", "overflow"}

(***************************************************************************)
(* One NestedNameResolver: identifier, template_args (the type that has    *)
(* them), result, and the nodes to traverse, each with the number of calls *)
(* that are in progress when it is.                                        *)
(***************************************************************************)
Item == [node : Node, depth : 0 .. MaxDepth]

Resolver == [ identifier    : Name,
              template_args : Node \cup {NoNode},
              result        : Node \cup {NoNode},
              todo          : Seq(Item) ]

NewResolver(name, node, depth) ==
  [ identifier |-> name, template_args |-> NoNode, result |-> NoNode,
    todo |-> << [node |-> node, depth |-> depth] >> ]

\* The visitor that turns the declaration found into a result.
Inner == CASE query.wanted = "declaration" -> "InnerDeclResolver"
           [] query.wanted = "type" /\ Len(query.names) = 1 -> "InnerNameResolver"
           [] OTHER -> "IdentifierPathResolver"

-----------------------------------------------------------------------------
Init ==
  /\ program \in Programs
  /\ query \in Queries
  /\ path = << >>
  /\ resolvers = << >>
  /\ outcome = "called"
  /\ answer = NoNode

Start ==
  /\ resolvers' = << NewResolver(Head(query.names), query.container, 1) >>
  /\ path' = Tail(query.names)
  /\ UNCHANGED << program, query, outcome, answer >>

Finish(how, result) ==
  /\ outcome' = how
  /\ answer' = result
  /\ resolvers' = << >>
  /\ UNCHANGED << program, query, path >>

\* The call: resolveType of a DelayedType.
ResolveType ==
  /\ outcome = "called" /\ resolvers = << >>
  /\ query.wanted = "type"
  /\ IF query.qualifier = "Other" THEN Finish("logic_error", NoNode) ELSE Start

\* The call: getDeclaration of a DelayedExpression, which follows no path.
GetDeclaration ==
  /\ outcome = "called" /\ resolvers = << >>
  /\ query.wanted = "declaration"
  /\ CASE Len(query.names) > 1 -> Finish("null", NoNode)
       [] Len(query.names) = 1 /\ query.qualifier = "TypeSpec" -> Start
       [] OTHER -> Finish("logic_error", NoNode)

-----------------------------------------------------------------------------
Top == resolvers[Len(resolvers)]
Current == Head(Top.todo)
Here == Current.node

At(kinds) ==
  /\ resolvers # << >>
  /\ Top.todo # << >>
  /\ program.kind[Here] \in kinds

SetTop(resolver) ==
  /\ resolvers' = [resolvers EXCEPT ![Len(resolvers)] = resolver]
  /\ UNCHANGED << program, query, path, outcome, answer >>

Deeper(nodes) ==
  [i \in DOMAIN nodes |-> [node |-> nodes[i], depth |-> Current.depth + 1]]

\* Variant: room for one call more than there is.
HasRoomAndMore == Current.depth <= MaxDepth

HasRoom == Current.depth < MaxDepth

\* The traversal of the current node goes on with nodes in its place.
GoOnWith(nodes) == [Top EXCEPT !.todo = Deeper(nodes) \o Tail(@)]

\* A result ends every loop over bases that is in progress; without one they go on.
Result(result) ==
  [Top EXCEPT !.result = result,
              !.todo = IF result = NoNode THEN Tail(@) ELSE << >>]

WalkUpFromSugar ==
  /\ At(Sugar) /\ HasRoom
  /\ SetTop(GoOnWith(<< program.target[Here] >>))

WalkUpFromTemplateSpecializationType ==
  /\ At({"TemplateSpecializationType"}) /\ HasRoom
  /\ SetTop([GoOnWith(<< program.target[Here] >>)
               EXCEPT !.template_args = Here])

\* Of the specializations only the one with these very arguments is considered.
WalkUpFromClassTemplateDecl ==
  /\ At({"ClassTemplateDecl"}) /\ HasRoom
  /\ LET args == Top.template_args
     IN  SetTop(GoOnWith(
           IF args # NoNode /\ program.special[args] # NoNode
             THEN << program.special[args] >>
             ELSE << program.target[Here] >>))

WalkUpFromUnresolved ==
  /\ At(Unresolved \cup {"TypeAliasTemplateDecl"})
  /\ SetTop(Result(NoNode))

WalkUpFromOther ==
  /\ At({"InjectedClassNameType", "OtherType", "OtherDecl"})
  /\ Finish("logic_error", NoNode)

-----------------------------------------------------------------------------
(***************************************************************************)
(* WalkUpFromCXXRecordDecl: lookupInContext and, where the class itself    *)
(* does not have the name, the same for its bases.                         *)
(***************************************************************************)
Found == program.members[Here][Top.identifier]

\* Variant: the bases are searched after a failure in the class itself, too.
LookInAnyBases ==
  /\ At({"CXXRecordDecl"}) /\ HasRoom
  /\ \A i \in DOMAIN Found : program.kind[Found[i]] = "ImplicitDecl"
  /\ SetTop(GoOnWith(program.bases[Here]))

LookInBases ==
  /\ At({"CXXRecordDecl"}) /\ HasRoom
  /\ Len(Found) = 0
  /\ SetTop(GoOnWith(program.bases[Here]))

FoundSeveral ==
  /\ At({"CXXRecordDecl"})
  /\ Len(Found) > 1
  /\ Finish("logic_error", NoNode)

FoundOne == At({"CXXRecordDecl"}) /\ Len(Found) = 1

FoundKind == program.kind[Found[1]]

\* What the inner visitor can do with a declaration; any other one it throws at.
Understood(inner, kind) ==
  \/ inner = "InnerDeclResolver"
  \/ kind = "ImplicitDecl"
  \/ inner = "InnerNameResolver" /\ kind \in TypeDecls
  \/ inner = "IdentifierPathResolver" /\ kind = "TypedefDecl"

NotUnderstood ==
  /\ FoundOne
  /\ ~Understood(Inner, FoundKind)
  /\ Finish("logic_error", NoNode)

\* Whether there are names left to look up in the type that the path led to.
PathGoesOn == /\ Inner = "IdentifierPathResolver"
              /\ FoundKind = "TypedefDecl"
              /\ path # << >>

(***************************************************************************)
(* The name of a class inside the class is an implicit declaration, which  *)
(* the two inner visitors skip, as RecursiveASTVisitor does by default.    *)
(***************************************************************************)
FoundAnswer ==
  IF Inner = "InnerDeclResolver" THEN Found[1]
  ELSE IF FoundKind = "ImplicitDecl" THEN NoNode ELSE program.target[Found[1]]

FoundResult ==
  /\ FoundOne
  /\ Understood(Inner, FoundKind)
  /\ ~PathGoesOn
  /\ SetTop(Result(FoundAnswer))

\* Variant: the next name is looked at and not popped.
FollowPathNoPop ==
  /\ FoundOne /\ PathGoesOn /\ HasRoom
  /\ path' = path
  /\ resolvers' = Append(resolvers, NewResolver(Head(path),
                           program.target[Found[1]], Current.depth + 1))
  /\ UNCHANGED << program, query, outcome, answer >>

FollowPath ==
  /\ FoundOne /\ PathGoesOn /\ HasRoom
  /\ path' = Tail(path)
  /\ resolvers' = Append(resolvers, NewResolver(Head(path),
                           program.target[Found[1]], Current.depth + 1))
  /\ UNCHANGED << program, query, outcome, answer >>

-----------------------------------------------------------------------------
Exhausted == resolvers # << >> /\ Top.todo = << >>

\* A resolver created for a path returns into the one that created it.
ReturnToOuter ==
  /\ Exhausted /\ Len(resolvers) > 1
  /\ LET outer == Len(resolvers) - 1
         result == Top.result
     IN  resolvers' =
           [SubSeq(resolvers, 1, outer) EXCEPT
              ![outer].result = result,
              ![outer].todo = IF result = NoNode THEN Tail(@) ELSE << >>]
  /\ UNCHANGED << program, query, path, outcome, answer >>

Return ==
  /\ Exhausted /\ Len(resolvers) = 1
  /\ Finish(IF Top.result = NoNode THEN "null" ELSE "found", Top.result)

\* A class that inherits from itself without end exhausts the stack.
RunOutOfStack ==
  /\ resolvers # << >> /\ Top.todo # << >> /\ ~HasRoom
  /\ Finish("overflow", NoNode)

WalkUp ==
  \/ WalkUpFromSugar \/ WalkUpFromTemplateSpecializationType
  \/ WalkUpFromClassTemplateDecl \/ WalkUpFromUnresolved \/ WalkUpFromOther
  \/ LookInBases \/ FoundSeveral \/ NotUnderstood \/ FoundResult \/ FollowPath
  \/ ReturnToOuter \/ Return \/ RunOutOfStack

Next == ResolveType \/ GetDeclaration \/ WalkUp

Spec == Init /\ [][Next]_resolverVars

-----------------------------------------------------------------------------
\* A lookup that goes only where the code goes: not through an alias template,
\* and not from the name of a class inside the class to the class.

\* What a type stands for: a specialization is preferred to the pattern.
StandsFor(t) ==
  IF program.special[t] # NoNode THEN program.special[t] ELSE program.target[t]

\* The class that a type is, in at most n steps; none for an unresolved type.
ClassIn[n \in Nat] ==
  [t \in Node |->
     IF program.kind[t] = "CXXRecordDecl"
       THEN t
       ELSE IF n > 0 /\ program.kind[t] \in Sugar \cup
                           {"TemplateSpecializationType", "ClassTemplateDecl"}
              THEN ClassIn[n - 1][StandsFor(t)]
              ELSE NoNode]

ClassOf(t) == ClassIn[Cardinality(Node)][t]

BasesOf(c) ==
  { ClassOf(program.bases[c][i]) : i \in DOMAIN program.bases[c] } \ {NoNode}

Elements(s) == { s[i] : i \in DOMAIN s }

\* The declarations of x in c or, where c has none, in its bases.
LookupIn[n \in Nat] ==
  [c \in Node |-> [x \in Name |->
     IF program.members[c][x] # << >>
       THEN Elements(program.members[c][x])
       ELSE IF n = 0 THEN {} ELSE UNION { LookupIn[n - 1][b][x] : b \in BasesOf(c) }]]

Lookup(t, x) ==
  IF ClassOf(t) = NoNode THEN {} ELSE LookupIn[Cardinality(Node)][ClassOf(t)][x]

\* Whether the search for x finds it in two bases, or in one that is inherited twice.
SeveralIn[n \in Nat] ==
  [c \in Node |-> [x \in Name |->
     /\ program.members[c][x] = << >>
     /\ \/ \E i, j \in DOMAIN program.bases[c] :
             /\ i # j
             /\ Lookup(program.bases[c][i], x) # {}
             /\ Lookup(program.bases[c][j], x) # {}
        \/ n > 0 /\ \E b \in BasesOf(c) : SeveralIn[n - 1][b][x]]]

Several(t, x) ==
  ClassOf(t) # NoNode /\ SeveralIn[Cardinality(Node)][ClassOf(t)][x]

\* The types that declarations stand for.
TypesOf(decls) ==
  { t \in Node : \E d \in decls : program.kind[d] \in TypeDecls /\ program.target[d] = t }

\* What x is in any of the types ts.
Declared(ts, x) == UNION { Lookup(t, x) : t \in ts }

\* The types that the first i names of the query lead to.
Path[i \in Nat] ==
  IF i = 0 THEN {query.container}
           ELSE TypesOf(Declared(Path[i - 1], query.names[i]))

Answers ==
  IF query.wanted = "declaration" THEN Declared({query.container}, query.names[1])
                                  ELSE Path[Len(query.names)]

Ambiguous ==
  \E i \in DOMAIN query.names : \E t \in Path[i - 1] : Several(t, query.names[i])

-----------------------------------------------------------------------------
(***************************************************************************)
(* The lookup of C++, which does both.  Left aside is only what the graph  *)
(* does not have: partial specializations, and arguments put in place of   *)
(* the parameters of a template.                                           *)
(***************************************************************************)
LooksThrough == Sugar \cup { "TemplateSpecializationType", "InjectedClassNameType",
                            "ClassTemplateDecl", "TypeAliasTemplateDecl" }

\* Where a name is looked up that t itself does not have.
CxxNext(t) ==
  IF program.kind[t] = "CXXRecordDecl" THEN Elements(program.bases[t])
  ELSE IF program.kind[t] \in LooksThrough THEN {StandsFor(t)} ELSE {}

HasMember(t, x) == program.kind[t] = "CXXRecordDecl" /\ program.members[t][x] # << >>

\* The declarations that x finds in the type or class t in at most n steps.
CxxLookupIn[n \in Nat] ==
  [t \in Node |-> [x \in Name |->
     IF HasMember(t, x)
       THEN Elements(program.members[t][x])
       ELSE IF n = 0 THEN {} ELSE UNION { CxxLookupIn[n - 1][u][x] : u \in CxxNext(t) }]]

CxxLookup(t, x) == CxxLookupIn[Cardinality(Node)][t][x]

CxxDeclared(ts, x) == UNION { CxxLookup(t, x) : t \in ts }

CxxTypesOf(decls) ==
  { t \in Node : \E d \in decls : /\ program.kind[d] \in TypeDecls \cup {"ImplicitDecl"}
                                 /\ program.target[d] = t }

CxxPath[i \in Nat] ==
  IF i = 0 THEN {query.container}
           ELSE CxxTypesOf(CxxDeclared(CxxPath[i - 1], query.names[i]))

CxxAnswers ==
  IF query.wanted = "declaration" THEN CxxDeclared({query.container}, query.names[1])
                                  ELSE CxxPath[Len(query.names)]

-----------------------------------------------------------------------------
\* The classes from which c inherits in at most n steps.
AncestorsIn[n \in Nat] ==
  [c \in Node |->
     BasesOf(c) \cup
       IF n = 0 THEN {} ELSE UNION { AncestorsIn[n - 1][b] : b \in BasesOf(c) }]

-----------------------------------------------------------------------------
TypeOK ==
  /\ program \in Program
  /\ query \in Query
  /\ path \in Seq(Name)
  /\ resolvers \in Seq(Resolver)
  /\ outcome \in Outcome
  /\ answer \in Node \cup {NoNode}

(***************************************************************************)
(* What is found is what C++ finds: names in a class hide those in its     *)
(* bases, the names of a path are looked up one in the other.  A null      *)
(* answer, with which DelayedType::isWrappable rejects every use of the    *)
(* type, does not mean that C++ finds nothing (CxxAnswers), but that there *)
(* is nothing to find unless one looks through an alias template, or takes *)
(* the name of a class inside the class for the class; and a path to a     *)
(* value is never followed.  Where two bases have the name, or one base    *)
(* that is inherited twice, the resolver may answer with something that    *)
(* the path does not name at all, or with nothing: a failed attempt in the *)
(* first base has taken names off the shared stack that the attempt in the *)
(* second then lacks.                                                      *)
(***************************************************************************)
AnswerFollowsLookup ==
  /\ outcome = "found" => answer \in CxxAnswers \/ Ambiguous
  /\ outcome = "null" =>
       \/ Answers = {} \/ Ambiguous
       \/ query.wanted = "declaration" /\ Len(query.names) > 1

(***************************************************************************)
(* The recursion over types, classes and bases can exhaust the stack only  *)
(* through a class that inherits from itself, such as the pattern of a     *)
(* template A<N> : A<N - 1> whose specialization A<0> is not found.        *)
(***************************************************************************)
OverflowByInheritance ==
  outcome = "overflow" =>
    \E c \in Node : /\ program.kind[c] = "CXXRecordDecl"
                    /\ c \in AncestorsIn[Cardinality(Node)][c]
=============================================================================
