---------------------------- MODULE TypeTranslator ----------------------------
(***************************************************************************)
(* translateType (translate/types.d) and the functions it calls: how a C++ *)
(* type becomes a D type.  It memoises its answers in translated_types,    *)
(* whatever qualifiers were asked for, lets TypeTable choose strategies in *)
(* the middle of its work, and starts the nodes of the declarations it     *)
(* meets (startDeclTypeBuild and StarterVisitor, translate/decls.d).       *)
(*                                                                         *)
(* Data that is abstracted: a D type is what wraps it (const, pointer,     *)
(* fixed array) and what is inside; results of arguments are not kept; the *)
(* node of an alias template is not told from its specializations.         *)
(***************************************************************************)
EXTENDS TypeTable

VARIABLES
  memo,        \* translated_types
  registered,  \* translated: the class of the node of each type's declaration
  frames,      \* the calls in progress
  result,      \* what the last call returned
  asked,       \* the type whose translation was asked for
  retried,     \* it is asked for again, without its reference
  outcome      \* how that went

transVars == << memo, registered, frames, result, asked, retried, outcome >>
vars == << tableVars, transVars >>

Class == { "null", "replaced", "struct", "interface", "alias", "enum", "union",
           "argument", "function", "specialized struct",
           "specialized interface" }

DType == [wraps : Seq({"const", "pointer", "array"}), class : Class,
          of : Type \cup {NoType}]

Leaf(class, t) == [wraps |-> << >>, class |-> class, of |-> t]
Null == Leaf("null", NoType)

\* Variant: what wraps nothing is written down too.
WrapAlways(w, d) == [d EXCEPT !.wraps = << w >> \o @]

Wrap(w, d) == IF w = "none" THEN d ELSE [d EXCEPT !.wraps = << w >> \o @]

Function == { "translateType", "replaceType", "translateStruct" }

\* next counts the calls a frame has made, wrap is for what its call returns.
Frame == [call : Function, type : Type, const : BOOLEAN, next : Nat,
          wrap : {"none", "const", "pointer", "array"}]

\* An Error, a failed assertion or an exception of C++: nothing catches it.
Abort == { "undecided", "interface", "unresolved", "error", "wrong strategy" }

Call(f, t, const) ==
  [call |-> f, type |-> t, const |-> const, next |-> 0, wrap |-> "none"]

-----------------------------------------------------------------------------
(***************************************************************************)
(* Type::isReferenceType in at most n nested calls: "yes", "no", or        *)
(* "undecided" for an exception.                                           *)
(***************************************************************************)
RefAnswerIn[n \in Nat] ==
  [ t \in Type |->
      IF n = 0 \/ KindOf(t) = "Invalid" THEN "undecided"
      ELSE IF KindOf(t) \in {"Reference", "Typedef", "Qualified"}
             THEN RefAnswerIn[n - 1][Target(t)]
      ELSE IF KindOf(t) \notin {"Record", "TemplateRecord"} THEN "no"
      ELSE IF Undecided(t) THEN "undecided"
      ELSE IF strategy[t] \in {"INTERFACE", "CLASS"} THEN "yes"
      ELSE "no" ]

RefAnswer == RefAnswerIn[Cardinality(Type)]

\* handleReferenceType: what a reference refers to, or a null pointer, in at
\* most n nested calls.
ReferredIn[n \in Nat] ==
  [ t \in Type |->
      IF n = 0 THEN NoType
      ELSE IF KindOf(t) = "Reference" THEN Target(t)
      ELSE IF KindOf(t) \in {"Typedef", "Delayed"} /\ Target(t) # NoType
             THEN ReferredIn[n - 1][Target(t)]
      ELSE NoType ]

HandleReference == ReferredIn[Cardinality(Type)]

(***************************************************************************)
(* The node that startDeclTypeBuild gives for the declaration of a type,   *)
(* "null" when StarterVisitor throws.  A replaced record gets a node that  *)
(* is not registered; a replaced template is registered as a struct.       *)
(***************************************************************************)
Specialized(t) == \E g \in Type : /\ KindOf(g) = "TemplateRecord"
                                  /\ \E i \in DOMAIN graph.args[g] :
                                       graph.args[g][i] = t

NodeClass(t) ==
  IF registered[t] # "null" THEN registered[t]
  ELSE CASE KindOf(t) = "Typedef" -> "alias"
         [] KindOf(t) = "Enum"    -> "enum"
         [] KindOf(t) = "Union"   -> "union"
         [] KindOf(t) = "TemplateArgument" -> "argument"
         [] KindOf(t) \in {"Record", "TemplateRecord"} ->
              CASE strategy[t] = "STRUCT"    -> "struct"
                [] strategy[t] = "INTERFACE" -> "interface"
                [] strategy[t] = "REPLACE" /\ KindOf(t) = "TemplateRecord" -> "struct"
                [] strategy[t] = "REPLACE" /\ KindOf(t) = "Record" ->
                     IF Specialized(t) THEN "null" ELSE "replaced"
                [] OTHER -> "null"

\* Variant: the node is given away without being registered.
StartUnregistered(t) == UNCHANGED registered

StartDeclTypeBuild(t) ==
  registered' = IF NodeClass(t) = "replaced" THEN registered
                ELSE [registered EXCEPT ![t] = NodeClass(t)]

-----------------------------------------------------------------------------
TransInit ==
  /\ Init
  /\ memo = [t \in Type |-> Null]
  /\ registered = [t \in Type |-> "null"]
  /\ frames = << >>
  /\ result = Null
  /\ asked = NoType
  /\ retried = FALSE
  /\ outcome = "none"

Configure ==
  /\ \/ \E t \in Type : ConfigureReplace(t)
     \/ \E t \in Type, s \in {"STRUCT", "INTERFACE", "CLASS"} :
          ConfigureStrategy(t, s)
     \/ BeginTranslation
  /\ UNCHANGED transVars

Idle == /\ phase = "translate"
        /\ deciding = << >>
        /\ frames = << >>
        /\ outcome \notin Abort

\* A declaration needs the type t.
AskType(t) ==
  /\ Idle
  /\ outcome = "ref" => retried \/ HandleReference[asked] = NoType
  /\ frames' = << Call("translateType", t, FALSE) >>
  /\ asked' = t
  /\ retried' = FALSE
  /\ outcome' = "none"
  /\ result' = Null
  /\ UNCHANGED << tableVars, memo, registered >>

\* It caught a RefTypeException: it takes what is referred to, by ref.
RetryWithoutReference ==
  /\ Idle
  /\ outcome = "ref"
  /\ ~retried
  /\ HandleReference[asked] # NoType
  /\ frames' = << Call("translateType", HandleReference[asked], FALSE) >>
  /\ retried' = TRUE
  /\ outcome' = "none"
  /\ UNCHANGED << tableVars, memo, registered, result, asked >>

\* The visitor of the translation pass reaches the declaration of t.
VisitDeclaration(t) ==
  /\ Idle
  /\ outcome = "ref" => retried \/ HandleReference[asked] = NoType
  /\ KindOf(t) \in {"Record", "TemplateRecord", "Union", "Enum", "Typedef"}
  /\ DeclWrappable(t)
  /\ registered[t] = "null"
  /\ KindOf(t) \in {"Record", "TemplateRecord"} =>
       Has(t, "defined") /\ strategy[t] \in {"STRUCT", "INTERFACE"}
  /\ registered' = [registered EXCEPT ![t] = NodeClass(t)]
  /\ UNCHANGED << tableVars, memo, frames, result, asked, retried, outcome >>

\* Before that, it chooses the strategy of a record.
VisitUndecided(t) ==
  /\ Idle
  /\ outcome = "ref" => retried \/ HandleReference[asked] = NoType
  /\ KindOf(t) \in {"Record", "TemplateRecord"}
  /\ Has(t, "defined")
  /\ DeclWrappable(t)
  /\ DetermineStrategy(t)
  /\ UNCHANGED transVars

-----------------------------------------------------------------------------
Cur == frames[Len(frames)]
T == Cur.type
Below == SubSeq(frames, 1, Len(frames) - 1)

Running == phase = "translate" /\ deciding = << >> /\ frames # << >>
Fresh == Running /\ result = Null
Received == Running /\ result # Null

Stays == UNCHANGED << tableVars, asked, retried >>

\* translateType and replaceType remember what they return, and so does
\* resolveOrDefer for translateStruct; a configured name is looked up again.
Remembers ==
  \/ Cur.call = "translateType"
  \/ Cur.call = "replaceType" /\ T \notin named
  \/ Cur.call = "translateStruct" /\ KindOf(T) \in {"Record", "TemplateRecord"}

Return(d) ==
  /\ frames' = Below
  /\ result' = d
  /\ memo' = IF Remembers THEN [memo EXCEPT ![T] = d] ELSE memo
  /\ outcome' = IF Below = << >> THEN "returned" ELSE outcome
  /\ Stays

\* An exception: it goes through every caller up to the one that asked.
Unwind(how) ==
  /\ frames' = << >>
  /\ result' = Null
  /\ outcome' = how

Raise(how) == Unwind(how) /\ UNCHANGED << memo, registered >> /\ Stays

CallFor(f, t, const, w) ==
  /\ frames' = Append([frames EXCEPT ![Len(frames)].next = @ + 1,
                                     ![Len(frames)].wrap = w],
                      Call(f, t, const))
  /\ result' = Null
  /\ UNCHANGED << memo, outcome >>
  /\ Stays

-----------------------------------------------------------------------------
(***************************************************************************)
(* translateType, up to the switch on the strategy.                        *)
(***************************************************************************)
LooksUp ==
  \/ Cur.call = "translateType"
  \/ Cur.call = "replaceType" /\ strategy[T] = "REPLACE" /\ T \notin named
  \/ Cur.call = "translateStruct" /\ KindOf(T) \in {"Record", "TemplateRecord"}

MemoHit ==
  /\ Fresh /\ Cur.next = 0
  /\ LooksUp /\ memo[T] # Null
  /\ frames' = Below
  /\ result' = memo[T]
  /\ outcome' = IF Below = << >> THEN "returned" ELSE outcome
  /\ UNCHANGED << memo, registered >>
  /\ Stays

Unknown == Fresh /\ Cur.next = 0 /\ ~(LooksUp /\ memo[T] # Null)

FallBackToTarget ==
  /\ Unknown
  /\ Cur.call = "translateType"
  /\ ~IsWrappable(T, TRUE)
  /\ KindOf(T) = "Typedef"
  /\ frames' = Append(Below, Call("translateType", Target(T), Cur.const))
  /\ UNCHANGED << memo, registered, result, outcome >>
  /\ Stays

RejectUnwrappable ==
  /\ Unknown
  /\ Cur.call = "translateType"
  /\ ~IsWrappable(T, TRUE)
  /\ KindOf(T) # "Typedef"
  /\ Raise("rejected")

\* Variant: the strategy is chosen without asking whether that is allowed.
DecideAnyType ==
  /\ Unknown
  /\ Cur.call = "translateType"
  /\ DetermineStrategy(T)
  /\ UNCHANGED transVars

DecideType ==
  /\ Unknown
  /\ Cur.call = "translateType"
  /\ IsWrappable(T, TRUE)
  /\ DetermineStrategy(T)
  /\ UNCHANGED transVars

Doing(s) ==
  /\ Unknown
  /\ CASE Cur.call = "translateType" -> IsWrappable(T, TRUE) /\ strategy[T] = s
       [] Cur.call = "replaceType" -> strategy[T] = "REPLACE" /\ s = "REPLACE"
       [] Cur.call = "translateStruct" -> s = "STRUCT"

Replacing(kinds) == /\ Doing("REPLACE")
                    /\ T \notin named
                    /\ KindOf(T) \in kinds

\* getReplacement of a type that has another strategy by now.
WrongStrategy ==
  /\ Unknown
  /\ Cur.call = "replaceType"
  /\ strategy[T] # "REPLACE"
  /\ Raise("wrong strategy")

RejectClass == Doing("CLASS") /\ Raise("rejected")

\* Only records and what stands for them can be structs or interfaces.
FailOnKind ==
  /\ Doing("STRUCT") \/ Doing("INTERFACE")
  /\ KindOf(T) \notin { "Record", "TemplateRecord", "TemplateSpecialization",
                        "Delayed" }
  /\ Raise("error")

ReturnReplacement ==
  /\ Doing("REPLACE")
  /\ T \in named
  /\ Return(Leaf("replaced", T))
  /\ UNCHANGED registered

-----------------------------------------------------------------------------
(***************************************************************************)
(* translatePointerOrReference and replaceArray.                           *)
(***************************************************************************)
Around == Replacing({"Pointer", "Reference", "Array"})

DecideTarget ==
  /\ Around
  /\ DetermineStrategy(Target(T))
  /\ UNCHANGED transVars

\* Variant: isReferenceType is called before determineStrategy.
FailUndecidedEarly ==
  /\ Around
  /\ RefAnswer[Target(T)] = "undecided"
  /\ Raise("undecided")

FailUndecided ==
  /\ Around
  /\ ~Undecided(Target(T))
  /\ RefAnswer[Target(T)] = "undecided"
  /\ Raise("undecided")

\* Variant: the reference itself is tried again, not what it refers to.
TryReferenceAgain ==
  /\ Around
  /\ ~Undecided(Target(T))
  /\ KindOf(T) = "Reference"
  /\ RefAnswer[Target(T)] = "no"
  /\ frames' = Append(Below, Call("translateType", T, Cur.const))
  /\ UNCHANGED << memo, registered, result, outcome >>
  /\ Stays

RaiseReference ==
  /\ Around
  /\ ~Undecided(Target(T))
  /\ KindOf(T) = "Reference"
  /\ RefAnswer[Target(T)] = "no"
  /\ Raise("ref")

RejectArray ==
  /\ Around
  /\ ~Undecided(Target(T))
  /\ KindOf(T) = "Array"
  /\ RefAnswer[Target(T)] = "yes"
  /\ Raise("rejected")

\* Variant: a class is not told from a struct.
TranslateTargetAlike ==
  /\ Around
  /\ ~Undecided(Target(T))
  /\ KindOf(T) # "Reference" /\ RefAnswer[Target(T)] \in {"yes", "no"}
  /\ CallFor("translateType", Target(T), Cur.const,
             IF KindOf(Target(T)) = "Function" THEN "none" ELSE "pointer")
  /\ UNCHANGED registered

TranslateTarget ==
  /\ Around
  /\ ~Undecided(Target(T))
  /\ \/ KindOf(T) = "Pointer" /\ RefAnswer[Target(T)] \in {"yes", "no"}
     \/ KindOf(T) = "Reference" /\ RefAnswer[Target(T)] = "yes"
     \/ KindOf(T) = "Array" /\ RefAnswer[Target(T)] = "no"
  /\ CallFor("translateType", Target(T), Cur.const,
             IF KindOf(T) = "Array"
               THEN IF Has(T, "variable") THEN "pointer" ELSE "array"
               ELSE IF \/ RefAnswer[Target(T)] = "yes"
                       \/ KindOf(Target(T)) = "Function"
                      THEN "none" ELSE "pointer")
  /\ UNCHANGED registered

\* resolveOrDeferType of a qualified type.
TranslateUnqualified ==
  /\ Replacing({"Qualified"})
  /\ CallFor("translateType", Target(T), TRUE,
             IF Cur.const THEN "none" ELSE "const")
  /\ UNCHANGED registered

-----------------------------------------------------------------------------
(***************************************************************************)
(* replaceFunction: the result, then the parameters.  The RefTypeException *)
(* of a parameter is about that parameter, never about the function, so it *)
(* is thrown again.                                                        *)
(***************************************************************************)
TranslatePart ==
  /\ \/ Replacing({"Function"})
     \/ Received /\ KindOf(T) = "Function"
  /\ Cur.next < Len(graph.args[T])
  /\ CallFor("translateType", graph.args[T][Cur.next + 1], FALSE, "none")
  /\ UNCHANGED registered

FunctionEnd ==
  /\ Received
  /\ KindOf(T) = "Function"
  /\ Cur.next = Len(graph.args[T])
  /\ Return(Leaf("function", T))
  /\ UNCHANGED registered

-----------------------------------------------------------------------------
(***************************************************************************)
(* resolveOrDefer: the node of the declaration of the type.                *)
(***************************************************************************)
Resolving ==
  \/ Replacing({ "Typedef", "Enum", "Union", "TemplateArgument", "Record",
                 "TemplateRecord" })
  \/ /\ Doing("STRUCT") \/ Doing("INTERFACE")
     /\ KindOf(T) \in {"Record", "TemplateRecord"}

\* UnwrappableTypeDeclaration, which translateType catches for a typedef.
ResolveTarget ==
  /\ Resolving
  /\ ~DeclWrappable(T)
  /\ KindOf(T) = "Typedef"
  /\ Cur.call = "translateType"
  /\ CallFor("translateType", Target(T), Cur.const, "none")
  /\ UNCHANGED registered

RejectDeclaration ==
  /\ Resolving
  /\ \/ ~DeclWrappable(T) /\ ~(KindOf(T) = "Typedef" /\ Cur.call = "translateType")
     \/ DeclWrappable(T) /\ ~IsWrappable(T, FALSE)
     \/ NodeClass(T) = "null"
  /\ Raise("rejected")

ResolveDeclaration ==
  /\ Resolving
  /\ DeclWrappable(T)
  /\ IsWrappable(T, FALSE)
  /\ NodeClass(T) # "null"
  /\ StartDeclTypeBuild(T)
  /\ Return(Leaf(NodeClass(T), T))

-----------------------------------------------------------------------------
(***************************************************************************)
(* Specializations: the template itself when it is replaced, otherwise     *)
(* resolveTemplateSpecializationTypeSymbol, which translates the arguments.*)
(***************************************************************************)
StartTemplate ==
  IF Has(T, "alias") THEN UNCHANGED registered ELSE StartDeclTypeBuild(Target(T))

ReplaceSpecialization ==
  /\ Replacing({"TemplateSpecialization"})
  /\ StartTemplate
  /\ Return(IF Has(T, "alias") THEN Leaf("alias", T)
            ELSE Leaf(NodeClass(Target(T)), Target(T)))

SpecializedAs(s) ==
  Leaf(IF s = "STRUCT" THEN "specialized struct" ELSE "specialized interface", T)

Specializing(s) ==
  /\ Running
  /\ KindOf(T) = "TemplateSpecialization"
  /\ Doing(s) \/ (Received /\ IF Cur.call = "translateStruct" THEN s = "STRUCT"
                                                          ELSE s = strategy[T])

TranslateArgument ==
  /\ Specializing("STRUCT") \/ Specializing("INTERFACE")
  /\ Cur.next < Len(graph.args[T])
  /\ CallFor("translateType", graph.args[T][Cur.next + 1], FALSE, "none")
  /\ IF Cur.next = 0 THEN StartTemplate ELSE UNCHANGED registered

SpecializationEnd(s) ==
  /\ Specializing(s)
  /\ Cur.next = Len(graph.args[T])
  /\ Return(SpecializedAs(s))
  /\ IF Cur.next = 0 THEN StartTemplate ELSE UNCHANGED registered

-----------------------------------------------------------------------------
(***************************************************************************)
(* Dependent names.                                                        *)
(***************************************************************************)
ReplaceBacking ==
  /\ Replacing({"Delayed"})
  /\ Target(T) # NoType
  /\ CallFor("replaceType", Target(T), Cur.const, "none")
  /\ UNCHANGED registered

TranslateBackingStruct ==
  /\ Doing("STRUCT")
  /\ KindOf(T) = "Delayed"
  /\ CallFor("translateStruct", Target(T), Cur.const, "none")
  /\ UNCHANGED registered

FailOnDelayed ==
  /\ Running
  /\ KindOf(T) = "Delayed"
  /\ \/ Doing("INTERFACE") /\ Raise("interface")
     \/ Replacing({"Delayed"}) /\ Target(T) = NoType /\ Raise("unresolved")

ReturnWrapped ==
  /\ Received
  /\ KindOf(T) \notin {"Function", "TemplateSpecialization"}
  /\ Return(Wrap(Cur.wrap, result))
  /\ UNCHANGED registered

-----------------------------------------------------------------------------
\* The steps of determineStrategy, called by the frame on top.
Strategies ==
  \/ /\ ChooseReplace \/ ChooseForRecord \/ ChooseForTemplate
        \/ ChooseForSpecialization \/ Descend \/ RunOutOfStack \/ ChooseAsTarget
     /\ UNCHANGED transVars
  \/ Reject /\ Unwind("rejected") /\ UNCHANGED << memo, registered, asked, retried >>

Translate ==
  \/ MemoHit \/ FallBackToTarget \/ RejectUnwrappable \/ DecideType
  \/ WrongStrategy \/ RejectClass \/ FailOnKind \/ ReturnReplacement
  \/ DecideTarget \/ FailUndecided \/ RaiseReference \/ RejectArray
  \/ TranslateTarget \/ TranslateUnqualified \/ TranslatePart \/ FunctionEnd
  \/ ResolveTarget \/ RejectDeclaration \/ ResolveDeclaration
  \/ ReplaceSpecialization \/ TranslateArgument
  \/ SpecializationEnd("STRUCT") \/ SpecializationEnd("INTERFACE")
  \/ ReplaceBacking \/ TranslateBackingStruct \/ FailOnDelayed \/ ReturnWrapped

TransNext ==
  \/ Configure
  \/ \E t \in Type : AskType(t)
  \/ RetryWithoutReference
  \/ \E t \in Type : VisitDeclaration(t)
  \/ \E t \in Type : VisitUndecided(t)
  \/ Strategies
  \/ Translate

TransSpec == TransInit /\ [][TransNext]_vars /\ WF_vars(Strategies \/ Translate)

-----------------------------------------------------------------------------
TransTypeOK ==
  /\ TypeOK
  /\ memo \in [Type -> DType]
  /\ registered \in [Type -> Class]
  /\ frames \in Seq(Frame)
  /\ result \in DType
  /\ asked \in Type \cup {NoType}
  /\ retried \in BOOLEAN
  /\ outcome \in {"none", "returned", "ref", "rejected"} \cup Abort

(***************************************************************************)
(* The table of types sees the translation as callers that ask for the     *)
(* strategies of types it allows them to ask for: what is proved of        *)
(* TypeTable holds while types are translated.                             *)
(***************************************************************************)
UsesTheTable == Spec

ConfiguredTemplate ==
  \E t \in Type : KindOf(t) = "TemplateRecord" /\ configured[t] # "UNKNOWN"

(***************************************************************************)
(* The node of a record that callers were given is the one registered for  *)
(* its declaration, and it is an interface just when the strategy says so. *)
(***************************************************************************)
NodeMatchesStrategy ==
  \A t \in Type :
    LET c == memo[t].class
        u == memo[t].of
    IN  c \in {"struct", "interface"} =>
          /\ registered[u] = c
          /\ ~ConfiguredTemplate =>
               (c = "interface" <=> strategy[u] = "INTERFACE")

\* A pointer that D has no use for: classes and functions are references.
Absorbed(t) ==
  KindOf(Target(t)) = "Function" \/ RefAnswer[Target(t)] = "yes"

IsIndirection(t) ==
  \/ KindOf(t) = "Pointer" /\ ~Absorbed(t)
  \/ KindOf(t) = "Array" /\ Has(t, "variable")

\* How many pointers there are between each type and leaf.
PointersIn[n \in Nat] ==
  [ leaf \in Type |-> [ t \in Type |->
      IF n = 0 \/ t = leaf \/ Target(t) = NoType THEN 0
      ELSE PointersIn[n - 1][leaf][Target(t)]
             + (IF IsIndirection(t) THEN 1 ELSE 0) ] ]

PointersTo(leaf) == PointersIn[Cardinality(Type)][leaf]

Count(w, d) == Cardinality({ i \in DOMAIN d.wraps : d.wraps[i] = w })

(***************************************************************************)
(* A type has as many pointers in D as in C++, but for those to a class or *)
(* to a function, whatever was memoised, retried or decided in between.    *)
(***************************************************************************)
IndirectionKept ==
  ~ConfiguredTemplate =>
    \A t \in Type :
      memo[t] # Null =>
        Count("pointer", memo[t]) = PointersTo(memo[t].of)[t]

\* The configuration gave a strategy of records to what is none.
Misconfigured ==
  \E t \in Type : /\ configured[t] # "UNKNOWN"
                  /\ KindOf(t) \in {"Builtin", "Enum", "Typedef", "Union"}

\* A strategy that was read is right for its type, and stays what it was.
RightStrategies ==
  /\ outcome = "wrong strategy" => ConfiguredTemplate
  /\ outcome = "error" => Misconfigured

(***************************************************************************)
(* Whatever the program, a translation that no configuration disturbed     *)
(* fails only where the code says that it is not written yet: strategies   *)
(* are known by the time they are needed, and are right for their types.   *)
(***************************************************************************)
FailsOnlyIfConfigured ==
  /\ outcome = "undecided" =>
       \E t \in Type : KindOf(t) = "Typedef" /\ configured[t] # "UNKNOWN"
  /\ RightStrategies

\* What t stands for after n steps: names that stand for others are followed.
StandsFor[n \in Nat] ==
  [ t \in Type |->
      IF n = 0 THEN t
      ELSE IF StandsForAnother(t) THEN StandsFor[n - 1][Target(t)] ELSE NoType ]

\* t stands for something that stands for itself.
InCircle(t) == StandsFor[Cardinality(Type)][t] # NoType

(***************************************************************************)
(* Translating a type ends, and so does choosing a strategy, though types  *)
(* refer to one another and nothing marks a call in progress: isWrappable  *)
(* has refused the types that stand for each other in a circle.  It does   *)
(* not look at what a reference refers to, so a reference to such a type   *)
(* is the one thing that exhausts the stack, in determineStrategy.         *)
(***************************************************************************)
Ends ==
  /\ frames # << >> \/ deciding # << >>
       ~> (frames = << >> /\ deciding = << >>) \/ phase = "overflow"
  /\ [](phase = "overflow" =>
          frames # << >> /\ KindOf(T) = "Reference" /\ InCircle(Target(T)))

(***************************************************************************)
(* What a test says, and the code does not do.                             *)
(***************************************************************************)

\* A pointer to a const type is translated to a pointer to a const type.
ConstKept ==
  ( /\ outcome = "returned"
    /\ KindOf(asked) = "Pointer"
    /\ KindOf(Target(asked)) = "Qualified"
    /\ result.wraps # << >> ) => Count("const", result) > 0
=============================================================================
