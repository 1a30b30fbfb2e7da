----------------------------- MODULE Translator -----------------------------
(***************************************************************************)
(* The second pass of cpp_binder: populateDAST and the visitors of         *)
(* translate/decls.d, which walk the C++ declarations once, in source      *)
(* order, and build the D syntax tree.                                     *)
(*                                                                         *)
(* A D node is built in up to three moments that need not be consecutive:  *)
(* it is REGISTERED in the table `translated`, FILLED with its name, types *)
(* and members, and PLACED in the output module.  Registration can be      *)
(* forced by a mere reference from another declaration                     *)
(* (startDeclTypeBuild); filling can be cut short by an exception, which   *)
(* every loop over children catches; placement is guarded by a table of    *)
(* its own.  This module keeps all three and the call stack that           *)
(* interleaves them.  The C++ program is a state variable that never       *)
(* changes, chosen in the initial state from the constant Programs.        *)
(***************************************************************************)
EXTENDS Integers, Sequences, FiniteSets

CONSTANTS
  Decl,            \* the C++ declarations (unknown.Declaration objects)
  Builtin,         \* a type replaced by name: no declaration is involved
  Untranslatable,  \* a type translateType rejects (vector, unmapped builtin)
  Programs         \* the C++ programs to translate

Kind == {"namespace", "record", "union", "enum", "enumerator", "typedef",
         "function", "method", "field", "variable", "ignored"}

(* Strategy of a record, as determineRecordStrategy or the configuration   *)
(* left it; "CLASS" stands for CLASS and OPAQUE_CLASS, which no visitor    *)
(* implements.                                                             *)
Strategy == {"STRUCT", "INTERFACE", "REPLACE", "CLASS"}

(* wrappable: isWrappable(); emit: shouldEmit(); defined: the record has a *)
(* definition; overrides: the method overrides a method that is emitted.   *)
Flag == {"wrappable", "emit", "defined", "virtual", "static", "operator",
         "overrides"}

(* One use of a type: of the declaration itself, through a pointer or      *)
(* through a reference.                                                    *)
Form == {"value", "pointer", "ref"}
Use == [form : Form, to : Decl \cup {Builtin, Untranslatable}]
Base == [to : Decl, public : BOOLEAN, virtual : BOOLEAN]

(* free: the free declarations sorted by location.  children: what         *)
(* getChildren() yields; a redeclared child of a namespace or record       *)
(* occurs once per redeclaration.  uses: the types in the order the        *)
(* visitors translate them (return type before arguments).                 *)
Program ==
  [kind : [Decl -> Kind], flags : [Decl -> SUBSET Flag],
   free : Seq(Decl), children : [Decl -> Seq(Decl)],
   uses : [Decl -> Seq(Use)], bases : [Decl -> Seq(Base)],
   strategy : [Decl -> Strategy]]

(* What the isWrappable() of methods, enums and typedefs demands: a method *)
(* is no operator and has a wrappable result, a typedef does not name a    *)
(* reference type and its target is wrappable.                             *)
WrappableOnlyIf(p, d) ==
  /\ p.kind[d] = "method" => "operator" \notin p.flags[d]
  /\ p.kind[d] \in {"method", "typedef", "enum"} =>
       /\ Len(p.uses[d]) > 0 /\ p.uses[d][1].to # Untranslatable
       /\ p.uses[d][1].to \in Decl /\ p.uses[d][1].form # "ref"
            => "wrappable" \in p.flags[p.uses[d][1].to]
  /\ p.kind[d] = "typedef" => p.uses[d][1].form # "ref"

(* A base, and a record held by value, is complete; an incomplete record   *)
(* has no members.                                                         *)
CompleteTypes(p, d) ==
  /\ \A i \in 1..Len(p.bases[d]) : "defined" \in p.flags[p.bases[d][i].to]
  /\ p.kind[d] \in {"field", "variable"} /\ p.uses[d][1].form = "value" =>
       \/ p.uses[d][1].to \in {Builtin, Untranslatable}
       \/ "defined" \in p.flags[p.uses[d][1].to]
       \/ p.kind[p.uses[d][1].to] # "record"
  /\ p.kind[d] = "record" /\ "defined" \notin p.flags[d] => p.children[d] = <<>>

(* What clang guarantees of a program and the model relies on: a           *)
(* declaration has one parent, or is free, and a record may list itself    *)
(* (the injected class name); only types are used; fields and methods live *)
(* in records and unions, namespaces in namespaces; a record is emitted    *)
(* only if it is defined                                                   *)
(* (RecordDeclaration::shouldEmit).  A member that is declared again out   *)
(* of its class, which Traversal lists as free as well, is left out.       *)
WellFormed(p) ==
  /\ \A i, j \in 1..Len(p.free) : p.free[i] = p.free[j] => i = j
  /\ \A d, e \in Decl :
       \A i \in 1..Len(p.children[d]), j \in 1..Len(p.children[e]) :
         p.children[d][i] = p.children[e][j]
           => d = e \/ p.children[d][i] \in {d, e}
  /\ \A d \in Decl : \A i \in 1..Len(p.children[d]) :
       /\ p.children[d][i] = d => p.kind[d] = "record"
       /\ p.children[d][i] # d =>
            \A j \in 1..Len(p.free) : p.children[d][i] # p.free[j]
       /\ p.kind[p.children[d][i]] \in {"field", "method"}
            => p.kind[d] \in {"record", "union"}
       /\ p.kind[p.children[d][i]] = "namespace" => p.kind[d] = "namespace"
       /\ p.kind[d] = "enum" <=> p.kind[p.children[d][i]] = "enumerator"
  /\ \A i \in 1..Len(p.free) :
       p.kind[p.free[i]] \notin {"field", "method", "enumerator"}
  /\ \A d \in Decl :
       /\ p.kind[d] \in {"typedef", "enum", "variable", "field"}
            => Len(p.uses[d]) = 1
       /\ \A i \in 1..Len(p.uses[d]) : p.uses[d][i].to \in Decl =>
            p.kind[p.uses[d][i].to] \in {"record", "union", "enum", "typedef"}
       /\ \A i \in 1..Len(p.bases[d]) : p.kind[p.bases[d][i].to] = "record"
       /\ "wrappable" \in p.flags[d] => WrappableOnlyIf(p, d)
       /\ CompleteTypes(p, d)
       /\ p.kind[d] = "record" /\ "emit" \in p.flags[d]
            => "defined" \in p.flags[d]

NoNode == "none"
NoUse == [form |-> "none", to |-> Builtin]

(* The classes of dast that a declaration can be translated to.            *)
NodeClass == {"FunctionDeclaration", "MethodDeclaration",
  "VariableDeclaration", "AliasTypeDeclaration", "EnumDeclaration",
  "EnumMember", "UnionDeclaration", "StructDeclaration",
  "InterfaceDeclaration"}

ASSUME TranslatorAssumption ==
  /\ Programs \subseteq Program
  /\ \A p \in Programs : WellFormed(p)
  /\ Builtin \notin Decl /\ Untranslatable \notin Decl
  /\ Builtin # Untranslatable

VARIABLES
  prog,        \* the C++ program (constant after Init)
  next,        \* index into prog.free of the loop of populateDAST
  stack,       \* the visitors being executed, innermost last
  status,      \* "running", "done" or "aborted" (an assert(0) was reached)
  translated,  \* class of the node registered for a declaration, or NoNode
  named,       \* declarations whose node has been given a name
  typed,       \* number of the type slots of a node that have been set
  members,     \* what has been added to a node, in order
  placed,      \* placedDeclarations
  output,      \* the calls destination.addDeclaration(node, namespace)
  started,     \* history: registered by startDeclTypeBuild
  built,       \* history: the node was filled to the end at least once
  threw        \* history: an exception left the visitor of the declaration; of a
               \* member variable: static_ was not set

vars == <<prog, next, stack, status, translated, named, typed, members,
          placed, output, started, built, threw>>

nodes == <<translated, named, typed>>
emitted == <<placed, output>>
history == <<started, built, threw>>

Phase == {"enter", "types", "bases", "body"}

(* A visitor at work on decl: pos is its loop index in the current phase,  *)
(* via the type that the typedef fallback of translateType has reached (or *)
(* NoUse), ns the namespace_path the visitor was created with.             *)
Frame == [decl : Decl, phase : Phase, pos : Nat \ {0},
          via : Use \cup {NoUse}, ns : Seq(Decl)]

Member == [role : {"child", "base", "alias"}, decl : Decl]
Placement == [decl : Decl, ns : Seq(Decl)]

KindOf(d) == prog.kind[d]
Has(d, flag) == flag \in prog.flags[d]
Children(d) == prog.children[d]
StrategyOf(d) == prog.strategy[d]

Top == stack[Len(stack)]
Caller == stack[Len(stack) - 1]
Pop == SubSeq(stack, 1, Len(stack) - 1)

InPhase(phase, kinds) ==
  /\ status = "running"
  /\ Len(stack) > 0
  /\ Top.phase = phase
  /\ KindOf(Top.decl) \in kinds

-----------------------------------------------------------------------------
(* Decisions the visitors take from the C++ program alone.                 *)

TypedKinds == {"variable", "field", "typedef", "enum"}

InInterface ==
  /\ Len(stack) > 1
  /\ KindOf(Caller.decl) = "record" /\ StrategyOf(Caller.decl) = "INTERFACE"

(* The node class each visitor of TranslatorVisitor asks CHECK_FOR_DECL    *)
(* and registerDeclaration for.                                            *)
BuildClass(d) ==
  CASE KindOf(d) = "function" -> "FunctionDeclaration"
    [] KindOf(d) = "method" /\ Has(d, "static") -> "FunctionDeclaration"
    [] KindOf(d) = "method" /\ ~Has(d, "static") -> "MethodDeclaration"
    [] KindOf(d) \in {"variable", "field"} -> "VariableDeclaration"
    [] KindOf(d) = "typedef" -> "AliasTypeDeclaration"
    [] KindOf(d) = "enum" -> "EnumDeclaration"
    [] KindOf(d) = "enumerator" -> "EnumMember"
    [] KindOf(d) = "union" -> "UnionDeclaration"
    [] KindOf(d) = "record" /\ StrategyOf(d) = "STRUCT"
         -> "StructDeclaration"
    [] KindOf(d) = "record" /\ StrategyOf(d) = "INTERFACE"
         -> "InterfaceDeclaration"
    [] OTHER -> NoNode

(* The node class StarterVisitor registers for a type that is referenced   *)
(* before its declaration has been visited; NoNode where the reference     *)
(* becomes a ReplacedType and registers nothing.                           *)
StartClass(t) ==
  CASE KindOf(t) = "record" /\ StrategyOf(t) = "STRUCT"
         -> "StructDeclaration"
    [] KindOf(t) = "record" /\ StrategyOf(t) = "INTERFACE"
         -> "InterfaceDeclaration"
    [] KindOf(t) = "typedef" -> "AliasTypeDeclaration"
    [] KindOf(t) = "enum" -> "EnumDeclaration"
    [] KindOf(t) = "union" -> "UnionDeclaration"
    [] OTHER -> NoNode

(* isReferenceType() of the type of t: interfaces and classes, and the     *)
(* typedefs that name one, through any number of typedefs or references.   *)
Typedefs == {t \in Decl : KindOf(t) = "typedef"}
RefLikeWithin[n \in Nat] ==
  IF n = 0
    THEN {t \in Decl : KindOf(t) = "record"
                         /\ StrategyOf(t) \in {"INTERFACE", "CLASS"}}
    ELSE LET nearer == RefLikeWithin[n - 1]
         IN  nearer \cup {t \in Typedefs : prog.uses[t][1].form # "pointer"
                                           /\ prog.uses[t][1].to \in nearer}
RefLike(t) == t \in RefLikeWithin[Cardinality(Typedefs)]

(* The use of a type that the visitor on top of the stack is translating.  *)
CurrentUse == IF Top.via # NoUse THEN Top.via ELSE prog.uses[Top.decl][Top.pos]

(* A D ref is only possible on a parameter or a result: translateReference *)
(* throws RefTypeException, and only translateFunction, translateMethod    *)
(* and translateArgument handle it.                                        *)
RefAllowed(u) ==
  u.form = "ref" => \/ KindOf(Top.decl) \in {"function", "method"}
                    \/ u.to \in Decl /\ RefLike(u.to)

(* translateType on a typedef whose declaration is not wrappable goes on   *)
(* with the target of the typedef; behind a pointer the pointer type is    *)
(* not wrappable itself.                                                   *)
FallsBack(u) ==
  /\ u.form # "pointer" /\ RefAllowed(u) /\ u.to \in Decl
  /\ KindOf(u.to) = "typedef" /\ ~Has(u.to, "wrappable")

(* Records whose strategy no visitor implements have no D type.            *)
Resolvable(t) ==
  Has(t, "wrappable") /\ (KindOf(t) = "record" => StrategyOf(t) # "CLASS")

Translatable(u) ==
  /\ u.to # Untranslatable
  /\ u.to \in Decl => Resolvable(u.to)
  /\ RefAllowed(u)

-----------------------------------------------------------------------------
(* What the visitors do to the nodes.                                      *)

(* Slip: registerDeclaration instantiated with the wrong class.            *)
RegisterWrongClass(d) == translated' = [translated EXCEPT ![d] = KindOf(d)]

(* CHECK_FOR_DECL followed, if it finds nothing, by registerDeclaration.   *)
Register(d) ==
  translated' = IF translated[d] = NoNode
                  THEN [translated EXCEPT ![d] = BuildClass(d)]
                  ELSE translated

(* startDeclTypeBuild: the node of a referenced type, bare if it is new.   *)
StartDeclTypeBuild(t) ==
  IF translated[t] = NoNode /\ StartClass(t) # NoNode
    THEN /\ translated' = [translated EXCEPT ![t] = StartClass(t)]
         /\ started' = started \cup {t}
    ELSE UNCHANGED <<translated, started>>

(* Slip: placedDeclarations is not consulted.                              *)
PlaceUnchecked(d, ns) ==
  /\ placed' = placed \cup {d}
  /\ output' = Append(output, [decl |-> d, ns |-> ns])

(* placeIntoTargetModule and the addDeclaration of the destination.        *)
PlaceIntoTargetModule(d, ns) ==
  IF d \in placed
    THEN UNCHANGED emitted
    ELSE /\ placed' = placed \cup {d}
         /\ output' = Append(output, [decl |-> d, ns |-> ns])

(* A variable belongs to each object: a field does, and so does, to D, a   *)
(* static member whose type threw, as StructBodyTranslator.translateVariable*)
(* sets static_ only once that is over.                                    *)
PerObject(d) == KindOf(d) = "field" \/ (KindOf(d) = "variable" /\ d \in threw)

(* The nodes that UnionDeclaration.addDeclaration has a place for; its     *)
(* addClassLevelDeclaration is an assert(0).                               *)
UnionTakes(d) == PerObject(d) \/ (KindOf(d) = "method" /\ ~Has(d, "static"))

(* InterfaceDeclaration.addDeclaration throws, and translateStructBody     *)
(* goes on with the next child.                                            *)
Refuses(parent, d) ==
  KindOf(parent) = "record" /\ StrategyOf(parent) = "INTERFACE" /\ PerObject(d)

(* addDeclaration of the struct, interface or union that parent became,    *)
(* which appends to its members.                                           *)
AddTo(parent, d, longer) ==
  IF KindOf(parent) = "union" /\ ~UnionTakes(d)
    THEN status' = "aborted" /\ UNCHANGED members
    ELSE /\ members' = IF Refuses(parent, d) THEN members
                                            ELSE [members EXCEPT ![parent] = longer]
         /\ UNCHANGED status

(* Slip: the member goes in front.                                         *)
AddInFront(parent, d) ==
  AddTo(parent, d, <<[role |-> "child", decl |-> d]>> \o members[parent])

AddDeclaration(parent, d) ==
  AddTo(parent, d, Append(members[parent], [role |-> "child", decl |-> d]))

-----------------------------------------------------------------------------
(* Control: how a visitor moves on, returns and throws.                    *)

Step(frame) == stack' = [stack EXCEPT ![Len(stack)] = frame]

Push(callers, d, ns) ==
  stack' = Append(callers, [decl |-> d, phase |-> "enter", pos |-> 1,
                            via |-> NoUse, ns |-> ns])

(* The visitor on top ends with a result (last_result is not empty) or     *)
(* without.  The caller places or adds the result if shouldEmit():         *)
(* populateDAST and translateNamespace in the module, translateStructBody  *)
(* in the node of the enclosing type.                                      *)
Return(result) ==
  /\ stack' = Pop
  /\ \/ /\ ~(result /\ Has(Top.decl, "emit"))
        /\ UNCHANGED <<status, members, emitted>>
     \/ /\ result /\ Has(Top.decl, "emit")
        /\ Len(stack) > 1 /\ KindOf(Caller.decl) # "namespace"
        /\ AddDeclaration(Caller.decl, Top.decl)
        /\ UNCHANGED emitted
     \/ /\ result /\ Has(Top.decl, "emit")
        /\ Len(stack) > 1 => KindOf(Caller.decl) = "namespace"
        /\ PlaceIntoTargetModule(Top.decl, Top.ns)
        /\ UNCHANGED <<status, members>>

(* An exception leaves the visitor on top.  Every caller is a loop over    *)
(* children or free declarations that catches it and goes on.              *)
Throw ==
  /\ stack' = Pop
  /\ threw' = threw \cup {Top.decl}

-----------------------------------------------------------------------------
(* populateDAST: the loop over the free declarations.                      *)

Init ==
  /\ prog \in Programs
  /\ next = 1
  /\ stack = <<>>
  /\ status = "running"
  /\ translated = [d \in Decl |-> NoNode]
  /\ named = {}
  /\ typed = [d \in Decl |-> 0]
  /\ members = [d \in Decl |-> <<>>]
  /\ placed = {}
  /\ output = <<>>
  /\ started = {} /\ built = {} /\ threw = {}

AtFree == status = "running" /\ stack = <<>> /\ next <= Len(prog.free)

(* Slip: the loop goes on without advancing.                               *)
PopulateSkipStuck ==
  /\ AtFree /\ ~Has(prog.free[next], "wrappable")
  /\ UNCHANGED vars

PopulateSkip ==
  /\ AtFree /\ ~Has(prog.free[next], "wrappable")
  /\ next' = next + 1
  /\ UNCHANGED <<prog, stack, status, nodes, members, emitted, history>>

(* A free declaration that is already in the table is placed as it is.     *)
PopulateTranslated ==
  /\ AtFree /\ Has(prog.free[next], "wrappable")
  /\ translated[prog.free[next]] # NoNode
  /\ next' = next + 1
  /\ IF Has(prog.free[next], "emit")
       THEN PlaceIntoTargetModule(prog.free[next], <<>>)
       ELSE UNCHANGED emitted
  /\ UNCHANGED <<prog, stack, status, nodes, members, history>>

PopulateVisit ==
  /\ AtFree /\ Has(prog.free[next], "wrappable")
  /\ translated[prog.free[next]] = NoNode
  /\ next' = next + 1
  /\ Push(stack, prog.free[next], <<>>)
  /\ UNCHANGED <<prog, status, nodes, members, emitted, history>>

PopulateEnd ==
  /\ status = "running" /\ stack = <<>> /\ next > Len(prog.free)
  /\ status' = "done"
  /\ UNCHANGED <<prog, next, stack, nodes, members, emitted, history>>

-----------------------------------------------------------------------------
(* Entering a visitor.                                                     *)

(* Visitors that build nothing: constructors and other ignored kinds,      *)
(* overloaded operators, the fields of an interface, and buildRecord on a  *)
(* record without a definition or with strategy REPLACE.                   *)
BuildsNothing(d) ==
  \/ KindOf(d) = "ignored"
  \/ KindOf(d) = "function" /\ Has(d, "operator")
  \/ KindOf(d) = "field" /\ InInterface
  \/ KindOf(d) = "record"
       /\ (~Has(d, "defined") \/ StrategyOf(d) = "REPLACE")

(* visitRecord looks for a node even if buildRecord did nothing.           *)
VisitNothing ==
  /\ InPhase("enter", Kind) /\ BuildsNothing(Top.decl)
  /\ Return(/\ KindOf(Top.decl) = "record"
            /\ translated[Top.decl] # NoNode /\ Top.decl \notin placed)
  /\ UNCHANGED <<prog, next, nodes, history>>

(* Slip: the early return of translateFunction in the other visitors too.  *)
VisitMemoisedAny ==
  /\ InPhase("enter", Kind) /\ ~BuildsNothing(Top.decl)
  /\ translated[Top.decl] # NoNode
  /\ Return(TRUE)
  /\ UNCHANGED <<prog, next, nodes, history>>

(* translateFunction and CHECK_FOR_DECL: the second declaration of a       *)
(* function yields the node of the first, however far that got.            *)
VisitMemoised ==
  /\ InPhase("enter", {"function"}) /\ ~BuildsNothing(Top.decl)
  /\ translated[Top.decl] # NoNode
  /\ Return(TRUE)
  /\ UNCHANGED <<prog, next, nodes, history>>

(* translateMethod throws on a virtual method of a struct or union, after  *)
(* it has registered it.  (An operator is not wrappable and not visited.)  *)
RejectedMethod(d) ==
  /\ KindOf(d) = "method"
  /\ Has(d, "virtual") /\ ~Has(d, "static") /\ ~InInterface

VisitRejectedMethod ==
  /\ InPhase("enter", {"method"}) /\ RejectedMethod(Top.decl)
  /\ Register(Top.decl)
  /\ Throw
  /\ UNCHANGED <<prog, next, status, named, typed, members, emitted, started,
                 built>>

VisitCallable ==
  /\ InPhase("enter", {"function", "method"}) /\ ~BuildsNothing(Top.decl)
  /\ ~RejectedMethod(Top.decl) /\ translated[Top.decl] = NoNode
  /\ Register(Top.decl)
  /\ named' = named \cup {Top.decl}
  /\ Step([Top EXCEPT !.phase = "types"])
  /\ UNCHANGED <<prog, next, status, typed, members, emitted, history>>

(* translateVariable, translateTypedef, translateEnum and translateField:  *)
(* one type; a field gets its name after it.                               *)
VisitTyped ==
  /\ InPhase("enter", TypedKinds) /\ ~BuildsNothing(Top.decl)
  /\ Register(Top.decl)
  /\ named' = IF KindOf(Top.decl) = "field" THEN named ELSE named \cup {Top.decl}
  /\ Step([Top EXCEPT !.phase = "types"])
  /\ UNCHANGED <<prog, next, status, typed, members, emitted, history>>

(* buildRecord on a record that gets a node; CLASS has no case in it.      *)
VisitRecord ==
  /\ InPhase("enter", {"record"}) /\ ~BuildsNothing(Top.decl)
  /\ StrategyOf(Top.decl) # "CLASS"
  /\ Register(Top.decl)
  /\ named' = named \cup {Top.decl}
  /\ Step([Top EXCEPT !.phase = "bases"])
  /\ UNCHANGED <<prog, next, status, typed, members, emitted, history>>

VisitClass ==
  /\ InPhase("enter", {"record"}) /\ ~BuildsNothing(Top.decl)
  /\ StrategyOf(Top.decl) = "CLASS"
  /\ Throw
  /\ UNCHANGED <<prog, next, status, nodes, members, emitted, started, built>>

VisitUnion ==
  /\ InPhase("enter", {"union"})
  /\ Register(Top.decl)
  /\ named' = named \cup {Top.decl}
  /\ Step([Top EXCEPT !.phase = "body"])
  /\ UNCHANGED <<prog, next, status, typed, members, emitted, history>>

VisitNamespace ==
  /\ InPhase("enter", {"namespace"})
  /\ Step([Top EXCEPT !.phase = "body"])
  /\ UNCHANGED <<prog, next, status, nodes, members, emitted, history>>

-----------------------------------------------------------------------------
(* The types of a declaration: result and parameters, or the one type of a *)
(* variable, field, typedef or enum.                                       *)

AtType ==
  /\ InPhase("types", Kind)
  /\ Top.pos <= Len(prog.uses[Top.decl])

TypeFallback ==
  /\ AtType /\ FallsBack(CurrentUse)
  /\ Step([Top EXCEPT !.via = prog.uses[CurrentUse.to][1]])
  /\ UNCHANGED <<prog, next, status, nodes, members, emitted, history>>

TypeReject ==
  /\ AtType /\ ~FallsBack(CurrentUse) /\ ~Translatable(CurrentUse)
  /\ Throw
  /\ UNCHANGED <<prog, next, status, nodes, members, emitted, started, built>>

(* resolveOrDefer: the type is the node of its declaration.                *)
TypeResolve ==
  /\ AtType /\ ~FallsBack(CurrentUse) /\ Translatable(CurrentUse)
  /\ IF CurrentUse.to = Builtin
       THEN UNCHANGED <<translated, started>>
       ELSE StartDeclTypeBuild(CurrentUse.to)
  /\ typed' = [typed EXCEPT ![Top.decl] = Top.pos]
  /\ Step([Top EXCEPT !.pos = @ + 1, !.via = NoUse])
  /\ UNCHANGED <<prog, next, status, named, members, emitted, built, threw>>

(* visitMethod returns no result for a method of an interface whose base   *)
(* interface has it already.                                               *)
TypesEnd ==
  /\ InPhase("types", Kind \ {"enum"})
  /\ Top.pos > Len(prog.uses[Top.decl])
  /\ named' = named \cup {Top.decl}
  /\ built' = built \cup {Top.decl}
  /\ Return(~(/\ KindOf(Top.decl) = "method" /\ InInterface
              /\ Has(Top.decl, "overrides")))
  /\ UNCHANGED <<prog, next, translated, typed, started, threw>>

EnumTypeEnd ==
  /\ InPhase("types", {"enum"})
  /\ Top.pos > Len(prog.uses[Top.decl])
  /\ Step([Top EXCEPT !.phase = "body", !.pos = 1])
  /\ UNCHANGED <<prog, next, status, nodes, members, emitted, history>>

-----------------------------------------------------------------------------
(* The superclasses of a record: buildStruct looks at the first one only,  *)
(* translateAllBaseClasses at all public ones.                             *)

AtBase(strategy) ==
  /\ InPhase("bases", {"record"})
  /\ StrategyOf(Top.decl) = strategy
  /\ Top.pos <= Len(prog.bases[Top.decl])

CurrentBase == prog.bases[Top.decl][Top.pos]

AsMember(role) == [role |-> role, decl |-> CurrentBase.to]

AddBase(added) == members' = [members EXCEPT ![Top.decl] = @ \o added]

(* The field _superclass, and alias this if the base is public.            *)
StructMembers ==
  IF CurrentBase.public THEN <<AsMember("base"), AsMember("alias")>>
                        ELSE <<AsMember("base")>>

(* Virtual inheritance, or a superclass that has no D type: nothing done.  *)
BaseReject ==
  /\ \/ AtBase("STRUCT")
     \/ AtBase("INTERFACE") /\ CurrentBase.public
  /\ CurrentBase.virtual \/ ~Resolvable(CurrentBase.to)
  /\ Throw
  /\ UNCHANGED <<prog, next, status, nodes, members, emitted, started, built>>

(* The superclass is translated first and its strategy compared after.     *)
BaseFits(strategies) ==
  /\ ~CurrentBase.virtual /\ Resolvable(CurrentBase.to)
  /\ StrategyOf(CurrentBase.to) \in strategies

BaseMismatch ==
  /\ \/ AtBase("STRUCT") /\ ~BaseFits({"STRUCT"})
     \/ AtBase("INTERFACE") /\ CurrentBase.public
          /\ ~BaseFits({"INTERFACE", "REPLACE"})
  /\ ~CurrentBase.virtual /\ Resolvable(CurrentBase.to)
  /\ StartDeclTypeBuild(CurrentBase.to)
  /\ Throw
  /\ UNCHANGED <<prog, next, status, named, typed, members, emitted, built>>

StructBase ==
  /\ AtBase("STRUCT") /\ BaseFits({"STRUCT"})
  /\ Len(prog.bases[Top.decl]) = 1
  /\ StartDeclTypeBuild(CurrentBase.to)
  /\ AddBase(StructMembers)
  /\ Step([Top EXCEPT !.pos = @ + 1])
  /\ UNCHANGED <<prog, next, status, named, typed, emitted, built, threw>>

(* A second superclass makes buildStruct give up after the first is in.    *)
StructSurplusBase ==
  /\ AtBase("STRUCT") /\ BaseFits({"STRUCT"})
  /\ Len(prog.bases[Top.decl]) > 1
  /\ StartDeclTypeBuild(CurrentBase.to)
  /\ AddBase(StructMembers)
  /\ Throw
  /\ UNCHANGED <<prog, next, status, named, typed, emitted, built>>

InterfaceBase ==
  /\ AtBase("INTERFACE") /\ CurrentBase.public
  /\ BaseFits({"INTERFACE", "REPLACE"})
  /\ StartDeclTypeBuild(CurrentBase.to)
  /\ AddBase(<<AsMember("base")>>)
  /\ Step([Top EXCEPT !.pos = @ + 1])
  /\ UNCHANGED <<prog, next, status, named, typed, emitted, built, threw>>

InterfaceHiddenBase ==
  /\ AtBase("INTERFACE") /\ ~CurrentBase.public
  /\ Step([Top EXCEPT !.pos = @ + 1])
  /\ UNCHANGED <<prog, next, status, nodes, members, emitted, history>>

BasesEnd ==
  /\ InPhase("bases", {"record"})
  /\ Top.pos > Len(prog.bases[Top.decl])
  /\ Step([Top EXCEPT !.phase = "body", !.pos = 1])
  /\ UNCHANGED <<prog, next, status, nodes, members, emitted, history>>

-----------------------------------------------------------------------------
(* Bodies: translateStructBody, translateNamespace and the constants of an *)
(* enum, one child per step.                                               *)

AtChild(kinds) ==
  /\ InPhase("body", kinds)
  /\ Top.pos <= Len(Children(Top.decl))

CurrentChild == Children(Top.decl)[Top.pos]

NextChild == [Top EXCEPT !.pos = @ + 1]

(* Slip: children that have a node are passed over.                        *)
PassedOverIfKnown(parent, child) ==
  ~Has(child, "wrappable") \/ child = parent \/ translated[child] # NoNode

(* Not wrappable, or the record itself: clang lists the injected class     *)
(* name among its children.                                                *)
PassedOver(parent, child) == ~Has(child, "wrappable") \/ child = parent

ChildSkip ==
  /\ AtChild({"record", "union"}) /\ PassedOver(Top.decl, CurrentChild)
  /\ Step(NextChild)
  /\ UNCHANGED <<prog, next, status, nodes, members, emitted, history>>

(* A child that has a node is added to the parent as it is, again if the   *)
(* body has been through here before, whether or not it should be emitted. *)
ChildAddAgain ==
  /\ AtChild({"record", "union"}) /\ ~PassedOver(Top.decl, CurrentChild)
  /\ translated[CurrentChild] # NoNode
  /\ AddDeclaration(Top.decl, CurrentChild)
  /\ Step(NextChild)
  /\ UNCHANGED <<prog, next, nodes, emitted, history>>

ChildVisit ==
  /\ AtChild({"record", "union"}) /\ ~PassedOver(Top.decl, CurrentChild)
  /\ translated[CurrentChild] = NoNode
  /\ Push([stack EXCEPT ![Len(stack)] = NextChild], CurrentChild, Top.ns)
  /\ UNCHANGED <<prog, next, status, nodes, members, emitted, history>>

(* Slip: only a node that the visitor itself registered is a result.       *)
BodyResultIfNotStarted == Top.decl \notin started

(* visitRecord has a result unless the node is placed already; visitUnion  *)
(* always has one.                                                         *)
BodyResult == KindOf(Top.decl) = "union" \/ Top.decl \notin placed

BodyEnd ==
  /\ InPhase("body", {"record", "union"})
  /\ Top.pos > Len(Children(Top.decl))
  /\ built' = built \cup {Top.decl}
  /\ Return(BodyResult)
  /\ UNCHANGED <<prog, next, nodes, started, threw>>

(* Slip: the path of the enclosing namespaces is forgotten.                *)
OwnNameOnly == <<Top.decl>>

ThisNamespacePath == Append(Top.ns, Top.decl)

(* Every child of a namespace is visited, whatever is known of it.         *)
NamespaceChild ==
  /\ AtChild({"namespace"})
  /\ Push([stack EXCEPT ![Len(stack)] = NextChild], CurrentChild,
          ThisNamespacePath)
  /\ UNCHANGED <<prog, next, status, nodes, members, emitted, history>>

NamespaceEnd ==
  /\ InPhase("body", {"namespace"})
  /\ Top.pos > Len(Children(Top.decl))
  /\ Return(FALSE)
  /\ UNCHANGED <<prog, next, nodes, history>>

EnumConstant ==
  /\ AtChild({"enum"})
  /\ Register(CurrentChild)
  /\ named' = named \cup {CurrentChild}
  /\ members' = [members EXCEPT ![Top.decl] =
                   Append(@, [role |-> "child", decl |-> CurrentChild])]
  /\ built' = built \cup {CurrentChild}
  /\ Step(NextChild)
  /\ UNCHANGED <<prog, next, status, typed, emitted, started, threw>>

EnumEnd ==
  /\ InPhase("body", {"enum"})
  /\ Top.pos > Len(Children(Top.decl))
  /\ built' = built \cup {Top.decl}
  /\ Return(TRUE)
  /\ UNCHANGED <<prog, next, nodes, started, threw>>

-----------------------------------------------------------------------------
Populate == PopulateSkip \/ PopulateTranslated \/ PopulateVisit \/ PopulateEnd

Enter ==
  \/ VisitNothing \/ VisitMemoised \/ VisitRejectedMethod \/ VisitCallable
  \/ VisitTyped \/ VisitRecord \/ VisitClass \/ VisitUnion \/ VisitNamespace

Types == TypeFallback \/ TypeReject \/ TypeResolve \/ TypesEnd \/ EnumTypeEnd

Bases ==
  \/ BaseReject \/ BaseMismatch \/ StructBase \/ StructSurplusBase
  \/ InterfaceBase \/ InterfaceHiddenBase \/ BasesEnd

Body ==
  \/ ChildSkip \/ ChildAddAgain \/ ChildVisit \/ BodyEnd
  \/ NamespaceChild \/ NamespaceEnd \/ EnumConstant \/ EnumEnd

Next == Populate \/ Enter \/ Types \/ Bases \/ Body

(* One thread runs the visitors; nothing makes it wait.                    *)
Spec == Init /\ [][Next]_vars /\ WF_vars(Next)

-----------------------------------------------------------------------------
(* Properties.                                                             *)

TypeOK ==
  /\ next \in Nat \ {0}
  /\ stack \in Seq(Frame)
  /\ status \in {"running", "done", "aborted"}
  /\ translated \in [Decl -> NodeClass \cup {NoNode}]
  /\ named \subseteq Decl
  /\ typed \in [Decl -> Nat]
  /\ members \in [Decl -> Seq(Member)]
  /\ placed \subseteq Decl
  /\ output \in Seq(Placement)
  /\ started \subseteq Decl /\ built \subseteq Decl /\ threw \subseteq Decl

IsChild(d, parent) ==
  \E i \in 1..Len(Children(parent)) : Children(parent)[i] = d
IsFree(d) == \E i \in 1..Len(prog.free) : prog.free[i] = d

(* Where a sequence of members mentions d as a child.                      *)
ChildAt(parent, d) ==
  {i \in 1..Len(members[parent]) :
     members[parent][i] = [role |-> "child", decl |-> d]}

(* No node is added to the output module twice, and placedDeclarations is  *)
(* exactly what has been added: a name that C++ declares several times,    *)
(* in reopened namespaces or again after its definition, is bound once     *)
(* (the FIXME in placeIntoTargetModule fears the opposite).                *)
PlacedOnce ==
  /\ \A i, j \in 1..Len(output) : output[i].decl = output[j].decl => i = j
  /\ placed = {output[i].decl : i \in 1..Len(output)}

(* What is placed is filled, with exactly two exceptions: a free           *)
(* declaration that an earlier one referred to (populateDAST finds it in   *)
(* the table and never visits it), and a function of a namespace whose     *)
(* translation threw and that is declared again (translateFunction then    *)
(* returns what the first attempt registered).                             *)
PlacedMeansFilled ==
  \A i \in 1..Len(output) :
    LET d == output[i].decl
    IN  \/ d \in built
        \/ output[i].ns = <<>> /\ d \in started
        \/ output[i].ns # <<>> /\ KindOf(d) = "function" /\ d \in threw

(* Nothing that should be emitted and has a node gets lost: when the loop  *)
(* of populateDAST is through, the free declarations and the members of    *)
(* the namespaces that were visited are placed, except those whose visitor *)
(* threw.  Everything is lost, by an assert(0), only for a union with a    *)
(* member that is no part of its storage, and that should be emitted or    *)
(* has a node already.                                                     *)
NothingLost ==
  /\ status = "done" =>
       \A d \in Decl :
         /\ translated[d] # NoNode /\ Has(d, "emit") /\ d \notin threw
         /\ \/ IsFree(d) /\ Has(d, "wrappable")
            \/ \E p \in Decl :
                 /\ KindOf(p) = "namespace" /\ IsFree(p) /\ Has(p, "wrappable")
                 /\ IsChild(d, p)
         => d \in placed
  /\ status = "aborted" =>
       \E u, c \in Decl :
         /\ KindOf(u) = "union" /\ IsChild(c, u)
         /\ Has(c, "wrappable") /\ (Has(c, "emit") \/ translated[c] # NoNode)
         /\ KindOf(c) \in {"field", "method"} => Has(c, "static")

(* A declaration whose body can be walked at most once: neither its        *)
(* members nor it itself nor a namespace or class around it is listed      *)
(* twice, however far out.                                                 *)
ListedOnce(d) ==
  \A p \in Decl : \A i, j \in 1..Len(Children(p)) :
    Children(p)[i] = d /\ Children(p)[j] = d => i = j
Enclosing == {p \in Decl : Children(p) # <<>>}
WalkedOnce(d) ==
  /\ \E around \in SUBSET Enclosing :
       /\ d \in around
       /\ \A e \in around :
            ListedOnce(e) /\ \A p \in Enclosing : IsChild(e, p) => p \in around
  /\ \A c \in Decl : IsChild(c, d) => ListedOnce(c)

(* The order of the source: the global part of the output follows the      *)
(* source locations, and the nodes of a struct, interface, union or enum   *)
(* that is walked once have each member once and in the order of the C++   *)
(* declarations, whether it was visited on the way or had a node before.   *)
SourceOrder ==
  /\ \A i, j \in 1..Len(output) :
       i < j /\ output[i].ns = <<>> /\ output[j].ns = <<>> =>
         \E a, b \in 1..Len(prog.free) :
           a < b /\ prog.free[a] = output[i].decl /\ prog.free[b] = output[j].decl
  /\ \A d \in Decl : Len(members[d]) > 1 /\ WalkedOnce(d) =>
       \A c1, c2 \in Decl :
         \A i \in ChildAt(d, c1), j \in ChildAt(d, c2) :
           i < j => \E a, b \in 1..Len(Children(d)) :
                      a < b /\ Children(d)[a] = c1 /\ Children(d)[b] = c2

(* A record whose body was walked to the end has every child that got a    *)
(* node without an exception, except the methods an interface inherits;    *)
(* conversely a member that should not be emitted is there only because    *)
(* something referred to it before or the body lists it a second time (the *)
(* shortcut for children that have a node does not ask shouldEmit).        *)
MembersComplete ==
  \A d \in built : KindOf(d) \in {"record", "union"} =>
    \A c \in Decl \ {d} :
      IsChild(c, d) /\ Has(c, "wrappable") =>
        /\ Has(c, "emit") /\ translated[c] # NoNode /\ c \notin threw
             /\ ~Has(c, "overrides")
             => ChildAt(d, c) # {}
        /\ ChildAt(d, c) # {} =>
             Has(c, "emit") \/ c \in started \/ ~WalkedOnce(d)

(* A node has one home: it is placed under the namespace path that C++     *)
(* nests its declaration in, which is what its mangled name depends on, or *)
(* it is a member of the node of its C++ parent, never both and never of   *)
(* itself: the qualified name of a node follows its parents and must end.  *)
AtHome(d, ns) ==
  /\ \A j \in 1..Len(ns) : KindOf(ns[j]) = "namespace"
  /\ \A j \in 1..(Len(ns) - 1) : IsChild(ns[j + 1], ns[j])
  /\ IF ns = <<>> THEN IsFree(d) ELSE IsFree(ns[1]) /\ IsChild(d, ns[Len(ns)])
OneHome ==
  /\ \A i \in 1..Len(output) : AtHome(output[i].decl, output[i].ns)
  /\ \A p \in Decl : \A i \in 1..Len(members[p]) :
       LET d == members[p][i].decl
       IN  members[p][i].role = "child" => d # p /\ IsChild(d, p) /\ d \notin placed

(* populateDAST ends, or the assert(0) of UnionDeclaration stops it.       *)
Termination == <>(status # "running")

(* What the design says of the output and the code does not achieve.       *)

(* "The struct will have the same members ... as the C++ instance"         *)
(* (doc/design.md): every field of a placed struct that can be translated  *)
(* is in it.                                                               *)
StructsHaveTheirFields ==
  status = "done" =>
    \A d \in placed \ threw : KindOf(d) = "record" /\ StrategyOf(d) = "STRUCT" =>
      \A c \in Decl :
        /\ IsChild(c, d) /\ KindOf(c) = "field" /\ c \notin threw
        /\ Has(c, "wrappable") /\ Has(c, "emit")
        => ChildAt(d, c) # {}

-----------------------------------------------------------------------------
(* The promise of the pass as Bindings states it, see there.               *)
Life == [d \in Decl |-> IF translated[d] = NoNode THEN "absent"
                        ELSE IF d \in built THEN "filled" ELSE "bare"]

Exports == [i \in 1..Len(output) |-> output[i].decl]

Promise == INSTANCE Bindings WITH life <- Life, exports <- Exports,
                                  running <- (status = "running")

BindingsSpec == Promise!Spec
=============================================================================
