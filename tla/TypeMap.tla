-------------------------------- MODULE TypeMap --------------------------------
(***************************************************************************)
(* How clang's types become the Type objects of the other modules:         *)
(* Type::get and ClangTypeVisitor (cpp_type.cpp), which fill type_map, the *)
(* calls of DeclVisitor that they answer and make (cpp_decl.cpp), and the  *)
(* getters by which the translation later finds the parts of a type.       *)
(*                                                                         *)
(* Everything is one recursion, over types that refer to each other; its   *)
(* calls in progress are the variable frames.  A ClangTypeVisitor remembers*)
(* whether it has made an object (type_in_progress): Type::get and most    *)
(* kinds of types begin a new visitor, but some parts of a type are        *)
(* traversed by the same one, and with an object in progress that one      *)
(* makes none for a record.  A traversal that returns false ends those     *)
(* that it is part of, up to the next call of Type::get.                   *)
(*                                                                         *)
(* Expressions inside types (array lengths, decltype, typeof) and template *)
(* arguments that are no types are left out.                               *)
(***************************************************************************)
EXTENDS Naturals, Sequences, FiniteSets

CONSTANTS
  QType,     \* the clang::QualTypes of a program
  NullType,  \* the QualType without a type
  Programs,  \* the programs to consider
  MaxDepth   \* bound: nested calls that the stack has room for

\* The kinds whose only part gets a visitor of its own.
Around == { "Pointer", "LValueReference", "ConstantArray", "IncompleteArray",
            "DependentSizedArray", "Typedef" }

\* The kinds that have no object: they share that of the type they stand for.
Found == { "Decayed", "Paren", "Decltype" }
Gotten == { "Elaborated", "TypeOfExpr", "SubstTemplateTypeParm", "Auto" }
Sugar == Found \cup Gotten \cup {"Restrict"}

\* The kinds that are not wrapped: an InvalidType, and the traversal fails.
Failing == { "RValueReference", "FunctionNoProto", "UnaryTransform",
             "DependentTemplateSpecialization", "MemberPointer", "PackExpansion" }

\* Qualified is a type with qualifiers other than const and restrict.
Invalid == Failing \cup { "Qualified", "DependentBuiltin" }

Records == { "Record", "Union" }

Object == Around \cup { "Const", "FunctionProto", "Vector", "Enum", "Builtin",
                        "InjectedClassName", "DependentName",
                        "TemplateSpecialization", "TemplateTypeParm" }

\* Other: the kinds that ClangTypeVisitor does not know, like complex numbers.
Kind == Sugar \cup Invalid \cup Records \cup Object \cup {"Other"}

(***************************************************************************)
(* inner:   the pointee, element, return type, unqualified, desugared or   *)
(*          underlying type; what a dependent name resolves to             *)
(* parts:   parameters, type arguments, the types of fields, the type that *)
(*          qualifies a name, the array type that a parameter decays from  *)
(* members: the types that DeclVisitor gets when it traverses the          *)
(*          declaration of a record or of a template parameter             *)
(* roots:   the types that it gets in the translation unit, in order       *)
(***************************************************************************)
Program == [ kind    : [QType -> Kind],
             inner   : [QType -> QType \cup {NullType}],
             parts   : [QType -> Seq(QType)],
             members : [QType -> Seq(QType)],
             roots   : Seq(QType) ]

(***************************************************************************)
(* What clang guarantees of a program; auto may be undeduced.  A type that *)
(* stands for another is never, by however many steps, that other type.    *)
(***************************************************************************)
WellFormed(p) ==
  /\ \A t \in QType :
       /\ p.kind[t] \in Around \cup Found \cup {"Const", "Restrict", "FunctionProto",
                          "Vector", "Elaborated", "TypeOfExpr", "SubstTemplateTypeParm"}
            => p.inner[t] # NullType
       /\ p.kind[t] = "Decayed" => p.kind[p.inner[t]] = "Pointer"
       /\ p.kind[t] = "Const" => p.kind[p.inner[t]] # "Const"
  /\ \A S \in (SUBSET { t \in QType : p.kind[t] \in Sugar \cup {"Other"} }) \ {{}} :
       \E t \in S : p.inner[t] \notin S

ASSUME TypeMapAssumption ==
  /\ NullType \notin QType
  /\ "unmapped" \notin QType \cup {NullType}
  /\ MaxDepth \in Nat
  /\ Programs \subseteq Program
  /\ \A p \in Programs : WellFormed(p)

VARIABLES
  program,   \* the types of the program; never changes
  type_map,  \* Type::type_map; an object is named after the type it was made for
  traversed, \* the declarations in DeclVisitor::declarations
  frames,    \* the calls of TraverseType in progress, the innermost last
  requested, \* how many of the roots were asked for
  reached,   \* the types that the translation has seen
  outcome    \* "running", or how the program ended

typeMapVars ==
  << program, type_map, traversed, frames, requested, reached, outcome >>

Outcome == { "running",
             "terminated",   \* a C++ exception: "Can not wrap type!", "Found a NULL type!"
             "no policy",    \* assert(printPolicy != nullptr)
             "end()",        \* type_map.find(...)->second of a type that is not there
             "not placed",   \* "FATAL: Traversing ... did not place it into the type map!"
             "overflow" }    \* out of stack

(***************************************************************************)
(* What is left to do in a call: to get a type, with the printing policy   *)
(* of the visitor or (get late) without, to traverse it with a new visitor *)
(* or the same one, to enter the object of another type for this one.      *)
(***************************************************************************)
Op == { "get", "get late", "new", "same", "alias" }

Step(op, t) == [op |-> op, type |-> t]
Each(op, ts) == [i \in DOMAIN ts |-> Step(op, ts[i])]

Part == [op : Op, type : QType \cup {NullType}]

Frame == [ type   : QType,
           how    : Op,
           set    : BOOLEAN,    \* type_in_progress of the visitor is not null
           policy : BOOLEAN,    \* neither is its printPolicy
           todo   : Seq(Part),
           result : BOOLEAN ]

KindOf(t) == program.kind[t]
Inner(t) == program.inner[t]
Parts(t) == program.parts[t]

\* Variant: nothing is done for a pointer, as VisitPointerType were missing.
TodoWithoutPointee(t) ==
  CASE KindOf(t) \in Around \ {"Pointer"} -> << Step("new", Inner(t)) >>
    [] KindOf(t) = "Const" -> << Step("same", Inner(t)) >>
    [] OTHER -> << >>

(***************************************************************************)
(* The body of the method TraverseFooType of RecursiveASTVisitor, with the *)
(* WalkUpFromFooType and VisitFooType that it calls.                       *)
(***************************************************************************)
Todo(t) ==
  LET Decl == IF t \in traversed THEN << >> ELSE Each("get", program.members[t])
  IN CASE KindOf(t) \in Around -> << Step("new", Inner(t)) >>
       [] KindOf(t) = "FunctionProto" ->
            << Step("new", Inner(t)) >> \o Each("same", Parts(t))
       [] KindOf(t) \in {"Const", "Vector"} -> << Step("same", Inner(t)) >>
       [] KindOf(t) \in {"TemplateSpecialization", "DependentName"} ->
            Each("same", Parts(t))
       [] KindOf(t) \in Records -> Decl \o Each("new", Parts(t))
       [] KindOf(t) = "TemplateTypeParm" -> Decl
       [] KindOf(t) = "Restrict" ->
            << Step("same", Inner(t)), Step("get late", Inner(t)),
               Step("alias", Inner(t)) >>
       [] KindOf(t) \in Found ->
            << Step("same", Inner(t)), Step("alias", Inner(t)) >>
              \o Each("same", Parts(t))
       [] KindOf(t) = "Elaborated" ->
            << Step("get", Inner(t)), Step("alias", Inner(t)) >>
              \o Each("same", Parts(t))
       [] KindOf(t) = "Auto" ->
            << Step("get", Inner(t)), Step("alias", Inner(t)),
               Step("same", Inner(t)) >>
       [] KindOf(t) \in Gotten \ {"Elaborated", "Auto"} ->
            << Step("get", Inner(t)), Step("alias", Inner(t)) >>
       [] KindOf(t) = "Other" /\ Inner(t) # NullType -> << Step("same", Inner(t)) >>
       [] OTHER -> << >>

\* The steps that are taken even after an earlier one has failed.
Regardless(step) == step.op \in {"get late", "alias"}

Mapped(t) == type_map[t] # "unmapped"

\* What type_map holds for a type, or Type::get returns for it.
ObjectOf(t) == IF t = NullType THEN NullType ELSE type_map[t]

\* Variant: the visitor makes nothing for the kinds that are not wrapped.
PlacesWrapped(t, set) == \/ KindOf(t) \in Object
                         \/ KindOf(t) \in Records \cup {"Other"} /\ ~set

\* Variant: a visitor with an object in progress makes no built-in type, either.
PlacesIfUnset(t, set) == \/ KindOf(t) \in (Object \cup Invalid) \ {"Builtin"}
                         \/ KindOf(t) \in Records \cup {"Other", "Builtin"} /\ ~set

\* Variant: an elaborated type gets an object of its own.
PlacesElaborated(t, set) == \/ KindOf(t) \in Object \cup Invalid \cup {"Elaborated"}
                            \/ KindOf(t) \in Records \cup {"Other"} /\ ~set

\* Whether an object is made for t, by a visitor with or without one in progress.
Places(t, set) == \/ KindOf(t) \in Object \cup Invalid
                  \/ KindOf(t) \in Records \cup {"Other"} /\ ~set

-----------------------------------------------------------------------------
Init ==
  /\ program \in Programs
  /\ type_map = [t \in QType |-> "unmapped"]
  /\ traversed = {}
  /\ frames = << >>
  /\ requested = 0
  /\ reached = {}
  /\ outcome = "running"

End(how) == outcome' = how /\ frames' = << >>

\* Variant: the object is not entered before the parts have been traversed.
PlaceLate(t, set) ==
  IF Places(t, set) /\ KindOf(t) \notin Around \cup Records
    THEN [type_map EXCEPT ![t] = t] ELSE type_map

\* allocateType, allocateQualType, allocateInvalidType.
Place(t, set) == IF Places(t, set) THEN [type_map EXCEPT ![t] = t] ELSE type_map

Call(t, how, set, policy) ==
  [ type |-> t, how |-> how, set |-> set \/ Places(t, set), policy |-> policy,
    todo |-> Todo(t), result |-> KindOf(t) \notin Failing ]

(***************************************************************************)
(* TraverseType of a type that is not in the map, on top of the given      *)
(* calls; VisitRecordType and VisitTemplateTypeParmType have DeclVisitor   *)
(* traverse the declaration, if it was not.                                *)
(***************************************************************************)
TraverseType(t, how, set, policy, below) ==
  /\ type_map' = Place(t, set)
  /\ traversed' = IF KindOf(t) \in Records \cup {"TemplateTypeParm"}
                    THEN traversed \cup {t} ELSE traversed
  /\ CASE Len(below) >= MaxDepth -> End("overflow")
       [] KindOf(t) = "Builtin" /\ ~policy -> End("no policy")
       [] KindOf(t) = "Other" /\ ~set -> End("terminated")
       [] OTHER ->
            /\ frames' = Append(below, Call(t, how, set, policy))
            /\ UNCHANGED outcome

Top == frames[Len(frames)]
Below == SubSeq(frames, 1, Len(frames) - 1)
Current == Head(Top.todo)

Busy(ops) ==
  /\ frames # << >>
  /\ Top.todo # << >>
  /\ Current.op \in ops
  /\ Top.result \/ Regardless(Current)

\* The call on top after its first step, which left the visitor in the given state.
Stepped(frame, result, set) ==
  [frame EXCEPT !.todo = Tail(@), !.result = @ /\ result, !.set = @ \/ set]

StepTop(result, set) ==
  frames' = [frames EXCEPT ![Len(frames)] = Stepped(@, result, set)]

\* A call that has failed leaves out the rest of the traversal.
SkipPart ==
  /\ frames # << >>
  /\ Top.todo # << >>
  /\ ~Top.result /\ ~Regardless(Current)
  /\ StepTop(FALSE, FALSE)
  /\ UNCHANGED << program, type_map, traversed, requested, reached, outcome >>

\* A type that is in the map already, or for Type::get the null type.
KnownPart ==
  /\ Busy(Op \ {"alias"})
  /\ IF Current.type = NullType THEN Current.op = "get" ELSE Mapped(Current.type)
  /\ StepTop(TRUE, FALSE)
  /\ UNCHANGED << program, type_map, traversed, requested, reached, outcome >>

UnknownPart ==
  /\ Busy(Op \ {"alias"})
  /\ Current.type # NullType
  /\ ~Mapped(Current.type)
  /\ TraverseType(Current.type, Current.op,
                  Current.op = "same" /\ Top.set,
                  Current.op # "get late" /\ Top.policy, frames)
  /\ UNCHANGED << program, requested, reached >>

NullPart ==
  /\ Busy({"new", "same"})
  /\ Current.type = NullType
  /\ End("terminated")
  /\ UNCHANGED << program, type_map, traversed, requested, reached >>

\* An entry that the steps before have made already is kept.
Alias ==
  /\ Busy({"alias"})
  /\ ObjectOf(Current.type) # "unmapped"
  /\ type_map' = [type_map EXCEPT ![Top.type] =
                    IF @ = "unmapped" THEN ObjectOf(Current.type) ELSE @]
  /\ StepTop(TRUE, KindOf(Top.type) = "Elaborated")
  /\ UNCHANGED << program, traversed, requested, reached, outcome >>

AliasOfUnmapped ==
  /\ Busy({"alias"})
  /\ ObjectOf(Current.type) = "unmapped"
  /\ End("end()")
  /\ UNCHANGED << program, type_map, traversed, requested, reached >>

Done == frames # << >> /\ Top.todo = << >>

ReturnToVisitor ==
  /\ Done
  /\ Top.how \in {"new", "same"}
  /\ frames' = [Below EXCEPT ![Len(Below)] =
                  Stepped(@, Top.result, Top.how = "same" /\ Top.set)]
  /\ UNCHANGED << program, type_map, traversed, requested, reached, outcome >>

\* Type::get does not look at what the traversal returned, but at the map.
ReturnFromGet ==
  /\ Done
  /\ Top.how \in {"get", "get late"}
  /\ IF Mapped(Top.type)
       THEN /\ frames' = IF Below = << >> THEN << >>
                         ELSE [Below EXCEPT ![Len(Below)] = Stepped(@, TRUE, FALSE)]
            /\ UNCHANGED outcome
       ELSE End("not placed")
  /\ UNCHANGED << program, type_map, traversed, requested, reached >>

-----------------------------------------------------------------------------
Idle == outcome = "running" /\ frames = << >>

\* A call of Type::get from outside.
Get(t, policy) ==
  IF Mapped(t)
    THEN UNCHANGED << type_map, traversed, frames, outcome >>
    ELSE TraverseType(t, "get", FALSE, policy, << >>)

\* DeclVisitor::TraverseType, for the declarations of the translation unit.
Request ==
  /\ Idle
  /\ requested < Len(program.roots)
  /\ requested' = requested + 1
  /\ Get(program.roots[requested + 1], TRUE)
  /\ UNCHANGED << program, reached >>

AllRequested == Idle /\ requested = Len(program.roots)

Elements(s) == { s[i] : i \in DOMAIN s }

\* The translation begins with the types of declarations.
Reach ==
  /\ AllRequested
  /\ reached = {}
  /\ reached' = Elements(program.roots)
                   \cup UNION { Elements(program.members[t]) : t \in traversed }
  /\ UNCHANGED << program, type_map, traversed, frames, requested, outcome >>

(***************************************************************************)
(* The getters, in the order in which the translation calls them: pointee, *)
(* element, target and unqualified type, then what a dependent name        *)
(* resolves to; the type arguments; the return type and the parameters.    *)
(***************************************************************************)
Components(t) ==
  CASE KindOf(t) \in Around \cup {"Const"} -> << Inner(t) >>
    [] KindOf(t) = "DependentName" /\ Inner(t) # NullType -> << Inner(t) >>
    [] KindOf(t) = "FunctionProto" -> << Inner(t) >> \o Parts(t)
    [] KindOf(t) = "TemplateSpecialization" -> Parts(t)
    [] OTHER -> << >>

(***************************************************************************)
(* Whether the answer for a component lets the caller go on to the next:   *)
(* a specialization asks whether the argument isWrappable, which every     *)
(* function type is; a function translates it, all the way down.           *)
(***************************************************************************)
GoesOn[n \in 0 .. Cardinality(QType), t \in QType, deep \in BOOLEAN] ==
  LET object == type_map[t]
  IN  /\ n > 0
      /\ object \in QType
      /\ KindOf(object) \notin Invalid \cup {"Other", "Vector"}
      /\ \/ KindOf(object) = "FunctionProto" /\ ~deep
         \/ \A i \in DOMAIN Components(object) :
              GoesOn[n - 1, Components(object)[i], deep]

AskFor(t, i) ==
  /\ AllRequested
  /\ t \in reached
  /\ Mapped(t)
  /\ type_map[t] # NullType
  /\ LET object == type_map[t]
         part == Components(object)[i]
     IN  /\ i \in DOMAIN Components(object)
         /\ KindOf(object) \notin Invalid
         /\ part \notin reached
         /\ \A j \in 1 .. i - 1 :
              GoesOn[Cardinality(QType), Components(object)[j],
                     KindOf(object) = "FunctionProto"]
         /\ reached' = reached \cup {part}
         /\ Get(part, FALSE)
  /\ UNCHANGED << program, requested >>

Ask == \E t \in reached, i \in 1 .. Cardinality(QType) : AskFor(t, i)

Traverse ==
  \/ SkipPart \/ KnownPart \/ UnknownPart \/ NullPart \/ Alias \/ AliasOfUnmapped
  \/ ReturnToVisitor \/ ReturnFromGet

Next == Request \/ Reach \/ Ask \/ Traverse

Spec == Init /\ [][Next]_typeMapVars

-----------------------------------------------------------------------------
TypeOK ==
  /\ program \in Program /\ WellFormed(program)
  /\ type_map \in [QType -> { t \in QType : KindOf(t) \notin Sugar }
                                 \cup {NullType, "unmapped"}]
  /\ traversed \subseteq QType
  /\ frames \in Seq(Frame)
  /\ requested \in 0 .. Len(program.roots)
  /\ reached \subseteq QType
  /\ outcome \in Outcome

(***************************************************************************)
(* Type::get finds in the map whatever it has had traversed: its own check *)
(* for that never throws, although the visitor has no method for some kinds*)
(* of types and makes nothing for records when an object is in progress.   *)
(***************************************************************************)
AlwaysPlaced == outcome # "not placed"

(***************************************************************************)
(* Types that refer to each other, like a record with a pointer to itself, *)
(* do not make the recursion endless: an object is in the map before the   *)
(* parts of its type are traversed.                                        *)
(***************************************************************************)
NoOverflow == outcome # "overflow"

(***************************************************************************)
(* The iterator that WalkUpFromParenType and its like use unchecked is the *)
(* end of the map only where a record itself is in parentheses or behind   *)
(* decltype, as in const decltype(S()): the visitor that made the object   *)
(* for const makes none for S.                                             *)
(***************************************************************************)
EndOnlyAtRecords ==
  outcome = "end()" =>
    \E t \in QType : /\ KindOf(t) \in Found
                     /\ KindOf(Inner(t)) \in Records \cup {"Other"}

\* The types in which a traversal returns false: the least set with the failing
\* kinds and with every type that has a part in it.
Spoiled ==
  { t \in QType : \A S \in SUBSET QType :
      (\A u \in QType : \/ KindOf(u) \in Failing
                        \/ (Elements(Parts(u)) \cup {Inner(u)}) \cap S # {}
                      => u \in S)
        => t \in S }

(***************************************************************************)
(* What the getters of a type ask for is in the map when the translation   *)
(* unit has been traversed.  It has to be: the getters have no printing    *)
(* policy, without which a built-in type cannot be made.  The exceptions   *)
(* are a record in an object like const S, which is made when it is asked  *)
(* for; what a dependent name resolves to; and the parts that come after   *)
(* one whose traversal failed, like long in V<int &&(), long>.             *)
(***************************************************************************)
ComponentsMapped ==
  Idle =>
    \A t \in QType :
      \/ type_map[t] # t
      \/ KindOf(t) = "DependentName"
      \/ t \in Spoiled
      \/ \A c \in Elements(Components(t)) :
           Mapped(c) \/ KindOf(c) \in Records \cup {"Other"}
=============================================================================
