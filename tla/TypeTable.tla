------------------------------ MODULE TypeTable ------------------------------
(***************************************************************************)
(* The table of C++ types (cpp_type.hpp, cpp_type.cpp) and the choice of a *)
(* translation strategy for each of them (translate/types.d,               *)
(* translate/decls.d).                                                     *)
(*                                                                         *)
(* A strategy is either configured before the translation begins or chosen *)
(* lazily, when determineStrategy is called on the type.  The choice for   *)
(* one type may need the choice for another one, so determineStrategy is   *)
(* recursive; its calls in progress are the variable deciding.             *)
(*                                                                         *)
(* Data that is abstracted: types that share a declaration are one type,   *)
(* a qualified type is a const one, and OPAQUE_CLASS is CLASS.  What a     *)
(* declaration says of itself (isWrappable, isCXXRecord, ...) is a flag.   *)
(***************************************************************************)
EXTENDS Naturals, Sequences, FiniteSets

CONSTANTS
  Type,     \* the C++ types of a program
  NoType,   \* a null pointer to a type
  Graphs,   \* the type graphs to consider
  MaxConfigured  \* bound: how many types the configuration mentions

Kind == { "Invalid", "Builtin", "Pointer", "Reference", "Record",
          "TemplateRecord", "Union", "Array", "Function", "Typedef", "Vector",
          "Enum", "Qualified", "TemplateArgument", "TemplateSpecialization",
          "Delayed" }

Strategy == { "UNKNOWN", "REPLACE", "STRUCT", "INTERFACE", "CLASS" }

(***************************************************************************)
(* declared:  a record has a RecordDeclaration (not an Unwrappable one)    *)
(* wrappable: its declaration is wrappable                                 *)
(* cxx, defined, dynamic: isCXXRecord, hasDefinition, isDynamicClass       *)
(* implicit:  a typedef that the compiler declares                         *)
(* alias:     a specialization of an alias template; a parameter pack of   *)
(*            that goes unseen, as its list of parameters is never filled  *)
(* pack:      a specialization with a pack among its arguments             *)
(* variable:  an array without a length                                    *)
(***************************************************************************)
Flag == { "declared", "wrappable", "cxx", "defined", "dynamic", "implicit",
          "alias", "pack", "variable" }

(***************************************************************************)
(* target is the pointee, the element, the unqualified type, the target of *)
(* a typedef, the target type of the template of a specialization, what a  *)
(* dependent name resolves to, or the integer type of an enum (none, if    *)
(* that is a builtin type everyone configures); args are the type          *)
(* arguments of a specialization, the result and parameters of a function, *)
(* or the specializations of a record template.                            *)
(***************************************************************************)
Graph == [ kind   : [Type -> Kind],
           target : [Type -> Type \cup {NoType}],
           args   : [Type -> Seq(Type)],
           flags  : [Type -> SUBSET Flag] ]

Targeted == { "Pointer", "Reference", "Array", "Typedef", "Qualified",
              "TemplateSpecialization" }

\* The references, and their typedefs, are among R; nothing points to these.
ReferenceTypes(g, R) ==
  \A t \in Type :
    /\ g.kind[t] = "Reference" => t \in R
    /\ g.kind[t] \in {"Typedef", "Qualified"} /\ g.target[t] \in R => t \in R
    /\ g.kind[t] \in {"Pointer", "Reference", "Array"} => g.target[t] \notin R

\* What clang guarantees of a graph of types.
WellFormed(g) ==
  /\ g \in Graph
  /\ \A t \in Type :
       /\ g.kind[t] \in Targeted => g.target[t] # NoType
       /\ g.kind[t] \notin Targeted \cup {"Delayed", "Enum"} =>
            g.target[t] = NoType
       /\ g.kind[t] = "TemplateRecord" =>
            \A i \in DOMAIN g.args[t] : g.kind[g.args[t][i]] = "Record"
       /\ g.kind[t] = "TemplateSpecialization" /\ "alias" \notin g.flags[t] =>
            g.kind[g.target[t]] = "TemplateRecord"
       /\ g.kind[t] \in {"Record", "TemplateRecord", "Union"}
            /\ "wrappable" \in g.flags[t] => "declared" \in g.flags[t]
  /\ \A S \in SUBSET { t \in Type : g.kind[t] \in {"Typedef", "Qualified"} } \ {{}} :
       \E t \in S : g.target[t] \notin S
  /\ \E R \in SUBSET Type : ReferenceTypes(g, R)

ASSUME TypeTableAssumption ==
  /\ NoType \notin Type
  /\ IsFiniteSet(Type)
  /\ MaxConfigured \in Nat
  /\ \A g \in Graphs : WellFormed(g)

VARIABLES
  graph,       \* the types of the program; never changes
  phase,       \* "configure", "translate", or "overflow": out of stack
  strategy,    \* Type::strategy
  named,       \* the types with a target_name that is not empty
  configured,  \* history: the strategy that the configuration gave each type
  deciding     \* the calls of determineStrategy in progress

tableVars == << graph, phase, strategy, named, configured, deciding >>

KindOf(t) == graph.kind[t]
Target(t) == graph.target[t]
Has(t, f) == f \in graph.flags[t]

(***************************************************************************)
(* Type::isWrappable(refAllowed): for which t and refAllowed the answer is *)
(* yes in at most n nested calls.  The answer for a type depends on those  *)
(* for others, yes being the set of these, and a cycle (through a          *)
(* dependent name, which guards itself with the flag "wrapping") answers   *)
(* no, as does every bounded number of calls.                              *)
(***************************************************************************)
OfTemplate(t, yes) ==
  IF Has(t, "alias") THEN << Target(t), FALSE >> \in yes
  ELSE Has(Target(t), "wrappable")

AnswersYes(t, refAllowed, yes) ==
  \/ KindOf(t) \in {"Function", "TemplateArgument", "Enum"}
  \/ KindOf(t) = "Builtin" /\ t \in named
  \/ KindOf(t) \in {"Record", "TemplateRecord", "Union"} /\ Has(t, "wrappable")
  \/ KindOf(t) = "Reference" /\ refAllowed
  \/ KindOf(t) \in {"Pointer", "Array"} /\ << Target(t), FALSE >> \in yes
  \/ KindOf(t) \in {"Qualified", "Delayed"} /\ << Target(t), refAllowed >> \in yes
  \/ /\ KindOf(t) = "Typedef"
     /\ ~Has(t, "implicit")
     /\ << Target(t), refAllowed >> \in yes
  \/ /\ KindOf(t) = "TemplateSpecialization"
     /\ OfTemplate(t, yes)
     /\ ~Has(t, "pack")
     /\ \A i \in DOMAIN graph.args[t] : << graph.args[t][i], FALSE >> \in yes

Wrappable[n \in Nat] ==
  IF n = 0 THEN {}
  ELSE LET yes == Wrappable[n - 1]
       IN  { q \in Type \X BOOLEAN : AnswersYes(q[1], q[2], yes) }

IsWrappable(t, refAllowed) == << t, refAllowed >> \in Wrappable[Cardinality(Type)]

\* Declaration::isWrappable of the template of a specialization.
TemplateWrappable(t) ==
  IF Has(t, "alias")
    THEN IsWrappable(Target(t), FALSE)
    ELSE Has(Target(t), "wrappable")

\* Declaration::isWrappable, for the declarations that have a type.
DeclWrappable(t) ==
  CASE KindOf(t) \in {"Record", "TemplateRecord", "Union"} -> Has(t, "wrappable")
    [] KindOf(t) = "Typedef" ->
         ~Has(t, "implicit") /\ IsWrappable(Target(t), FALSE)
    [] KindOf(t) = "Enum" /\ Target(t) # NoType -> IsWrappable(Target(t), FALSE)
    [] OTHER -> TRUE

-----------------------------------------------------------------------------
Init ==
  /\ graph \in Graphs
  /\ phase = "configure"
  /\ strategy = [t \in Type |-> "UNKNOWN"]
  /\ named = {}
  /\ configured = [t \in Type |-> "UNKNOWN"]
  /\ deciding = << >>

(***************************************************************************)
(* One entry of the configuration: applyConfigToObject and                 *)
(* Type::applyAttributes.  A builtin type is found by its name, any other  *)
(* one through its declaration, which has to be wrappable by then.         *)
(***************************************************************************)
Configurable(t) ==
  /\ \/ KindOf(t) = "Builtin"
     \/ /\ KindOf(t) \in {"Record", "TemplateRecord", "Union", "Enum", "Typedef"}
        /\ DeclWrappable(t)
  /\ Cardinality({ u \in Type : configured[u] # "UNKNOWN" } \cup {t})
       <= MaxConfigured

ConfigureReplace(t) ==
  /\ phase = "configure"
  /\ Configurable(t)
  /\ strategy' = [strategy EXCEPT ![t] = "REPLACE"]
  /\ named' = named \cup {t}
  /\ configured' = [configured EXCEPT ![t] = "REPLACE"]
  /\ UNCHANGED << graph, phase, deciding >>

ConfigureStrategy(t, s) ==
  /\ phase = "configure"
  /\ Configurable(t)
  /\ strategy' = [strategy EXCEPT ![t] = s]
  /\ configured' = [configured EXCEPT ![t] = s]
  /\ UNCHANGED << graph, phase, named, deciding >>

BeginTranslation ==
  /\ phase = "configure"
  /\ phase' = "translate"
  /\ UNCHANGED << graph, strategy, named, configured, deciding >>

-----------------------------------------------------------------------------
Top == deciding[Len(deciding)]

Pop == SubSeq(deciding, 1, Len(deciding) - 1)

\* chooseReplaceStrategy("") or setStrategy(s).
Choose(t, s) ==
  /\ strategy' = [strategy EXCEPT ![t] = s]
  /\ named' = IF s = "REPLACE" THEN named \ {t} ELSE named

Deciding(kinds) ==
  phase = "translate" /\ deciding # << >> /\ KindOf(Top) \in kinds

\* The rest of the state, for an action that decides the type on top.
Decided == deciding' = Pop /\ UNCHANGED << graph, phase, configured >>

\* Variant: a replacement may still be chosen again.
UndecidedOrReplaced(t) == strategy[t] \in {"UNKNOWN", "REPLACE"}

(***************************************************************************)
(* A call of determineStrategy on a type whose strategy is not known; on   *)
(* any other it returns at once.                                           *)
(***************************************************************************)
Undecided(t) == strategy[t] = "UNKNOWN"

DetermineStrategy(t) ==
  /\ phase = "translate"
  /\ deciding = << >>
  /\ Undecided(t)
  /\ deciding' = << t >>
  /\ UNCHANGED << graph, phase, strategy, named, configured >>

ChooseReplace ==
  /\ Deciding({ "Pointer", "Reference", "Enum", "Function", "TemplateArgument",
                "Union", "Array", "Delayed" })
  /\ KindOf(Top) = "Delayed" => Target(Top) = NoType
  /\ Choose(Top, "REPLACE")
  /\ Decided

-----------------------------------------------------------------------------
(***************************************************************************)
(* determineRecordStrategy and determineRecordTemplateStrategy.            *)
(***************************************************************************)
\* Variant: an incomplete class gets a strategy that is not implemented.
RecordStrategyOpaque(t) ==
  IF Has(t, "cxx") /\ ~Has(t, "defined") THEN "OPAQUE_CLASS" ELSE "STRUCT"

RecordStrategy(t) ==
  CASE ~Has(t, "cxx")     -> "STRUCT"
    [] Has(t, "cxx") /\ ~Has(t, "defined") -> "REPLACE"
    [] Has(t, "cxx") /\ Has(t, "defined") ->
         IF Has(t, "dynamic") THEN "INTERFACE" ELSE "STRUCT"

ChooseForRecord ==
  /\ Deciding({"Record"})
  /\ Has(Top, "declared")
  /\ Choose(Top, RecordStrategy(Top))
  /\ Decided

\* A template without a definition looks at its specializations, in order,
\* and decides for those it looks at.
\* Variant: the choice for a record does not look at what it is already.
DecidedAnew(t) == RecordStrategy(t)

DecidedRecord(t) == IF Undecided(t) THEN RecordStrategy(t) ELSE strategy[t]

\* Variant: the strategies are read before anyone decides them.
TellingSoFar(g) == { i \in DOMAIN graph.args[g] :
                       strategy[graph.args[g][i]] \in {"INTERFACE", "STRUCT"} }

Telling(g) == { i \in DOMAIN graph.args[g] :
                  DecidedRecord(graph.args[g][i]) \in {"INTERFACE", "STRUCT"} }

LookedAt(g) ==
  { graph.args[g][i] :
      i \in { i \in DOMAIN graph.args[g] : \A j \in Telling(g) : i <= j } }

First(i, S) == i \in S /\ \A j \in S : i <= j

TemplateStrategy(g) ==
  IF Has(g, "cxx") /\ ~Has(g, "defined")
    THEN CASE \E i \in Telling(g) :
                /\ First(i, Telling(g))
                /\ DecidedRecord(graph.args[g][i]) = "INTERFACE" -> "INTERFACE"
           [] Telling(g) = {} ->
                IF Undecided(g) THEN "REPLACE" ELSE strategy[g]
           [] OTHER -> "STRUCT"
    ELSE RecordStrategy(g)

AfterTemplate(g) ==
  [ t \in Type |->
      IF t = g THEN TemplateStrategy(g)
      ELSE IF Has(g, "cxx") /\ ~Has(g, "defined") /\ t \in LookedAt(g)
             THEN DecidedRecord(t)
             ELSE strategy[t] ]

\* Only a type that is not decided becomes REPLACE here, and it has no name.
ChooseForTemplate ==
  /\ Deciding({"TemplateRecord"})
  /\ strategy' = AfterTemplate(Top)
  /\ UNCHANGED named
  /\ Decided

(***************************************************************************)
(* A specialization of a record template decides for the template again,   *)
(* whatever was decided before, and does as the template does.             *)
(***************************************************************************)
ChooseForSpecialization ==
  /\ Deciding({"TemplateSpecialization"})
  /\ ~Has(Top, "alias")
  /\ TemplateWrappable(Top)
  /\ strategy' = [AfterTemplate(Target(Top)) EXCEPT ![Top] =
                    TemplateStrategy(Target(Top))]
  /\ named' = IF strategy'[Top] = "REPLACE" THEN named \ {Top} ELSE named
  /\ Decided

-----------------------------------------------------------------------------
(***************************************************************************)
(* The types that are decided after the type they stand for: typedefs,     *)
(* qualified types, dependent names that resolve, specializations of alias *)
(* templates.                                                              *)
(***************************************************************************)
StandsForAnother(t) ==
  \/ KindOf(t) \in {"Typedef", "Qualified"}
  \/ KindOf(t) = "Delayed" /\ Target(t) # NoType
  \/ /\ KindOf(t) = "TemplateSpecialization"
     /\ Has(t, "alias")
     /\ TemplateWrappable(t)

InProgress == { deciding[i] : i \in DOMAIN deciding }

Descend ==
  /\ phase = "translate"
  /\ deciding # << >>
  /\ StandsForAnother(Top)
  /\ Undecided(Target(Top))
  /\ Target(Top) \notin InProgress
  /\ deciding' = Append(deciding, Target(Top))
  /\ UNCHANGED << graph, phase, strategy, named, configured >>

\* Nothing remembers that the call is in progress: it recurs for ever.
RunOutOfStack ==
  /\ phase = "translate"
  /\ deciding # << >>
  /\ StandsForAnother(Top)
  /\ Undecided(Target(Top))
  /\ Target(Top) \in InProgress
  /\ phase' = "overflow"
  /\ UNCHANGED << graph, strategy, named, configured, deciding >>

ChooseAsTarget ==
  /\ phase = "translate"
  /\ deciding # << >>
  /\ StandsForAnother(Top)
  /\ ~Undecided(Target(Top))
  /\ Choose(Top, IF KindOf(Top) \in {"Typedef", "Qualified"} THEN "REPLACE"
                 ELSE strategy[Target(Top)])
  /\ Decided

\* An exception: no caller inside determineStrategy catches it.
Rejects(t) ==
  \/ KindOf(t) \in {"Invalid", "Builtin", "Vector"}
  \/ KindOf(t) = "Record" /\ ~Has(t, "declared")
  \/ KindOf(t) = "TemplateSpecialization" /\ ~TemplateWrappable(t)

Reject ==
  /\ phase = "translate"
  /\ deciding # << >>
  /\ Rejects(Top)
  /\ deciding' = << >>
  /\ UNCHANGED << graph, phase, strategy, named, configured >>

-----------------------------------------------------------------------------
\* The steps of a call of determineStrategy.
Determine ==
  \/ ChooseReplace \/ ChooseForRecord \/ ChooseForTemplate
  \/ ChooseForSpecialization \/ Descend \/ RunOutOfStack \/ ChooseAsTarget
  \/ Reject

(***************************************************************************)
(* The types on which the translation calls determineStrategy: a wrappable *)
(* one, and the pointee or element of one whose own strategy is known.     *)
(***************************************************************************)
Askable(t) ==
  \/ IsWrappable(t, TRUE)
  \/ \E u \in Type : /\ Target(u) = t
                     /\ KindOf(u) \in {"Pointer", "Reference", "Array"}
                     /\ ~Undecided(u)
                     /\ IsWrappable(u, TRUE)

Ask(t) == Askable(t) /\ DetermineStrategy(t)

Next ==
  \/ \E t \in Type : ConfigureReplace(t)
  \/ \E t \in Type, s \in {"STRUCT", "INTERFACE", "CLASS"} :
       ConfigureStrategy(t, s)
  \/ BeginTranslation
  \/ \E t \in Type : Ask(t)
  \/ Determine

Spec == Init /\ [][Next]_tableVars

-----------------------------------------------------------------------------
TypeOK ==
  /\ graph \in Graphs
  /\ phase \in {"configure", "translate", "overflow"}
  /\ strategy \in [Type -> Strategy]
  /\ named \subseteq Type
  /\ configured \in [Type -> Strategy]
  /\ deciding \in Seq(Type)

(***************************************************************************)
(* The calls in progress are on different types, none of which is decided, *)
(* and only the last one can be on a type that needs no other one.         *)
(***************************************************************************)
CallsWait ==
  /\ phase = "configure" => deciding = << >>
  /\ \A i \in DOMAIN deciding : Undecided(deciding[i])
  /\ \A i, j \in DOMAIN deciding : deciding[i] = deciding[j] => i = j
  /\ \A i \in 1 .. Len(deciding) - 1 :
       KindOf(deciding[i]) \in { "Typedef", "Qualified", "Delayed",
                                 "TemplateSpecialization" }

(***************************************************************************)
(* The strategy of a template that the configuration does not mention is   *)
(* what a second look at the template and its specializations would give,  *)
(* whichever of the specializations were decided since.                    *)
(***************************************************************************)
TemplatesSettled ==
  \A t \in Type :
    ~Undecided(t) /\ configured[t] = "UNKNOWN" =>
      /\ phase # "configure"
      /\ KindOf(t) = "TemplateRecord" => strategy[t] = TemplateStrategy(t)

(***************************************************************************)
(* A strategy is chosen once: callers keep what they built from it.  The   *)
(* one exception is a record template whose strategy was configured.       *)
(***************************************************************************)
DecisionsStick ==
  [][ phase = "translate" =>
        \A t \in Type :
          ~Undecided(t) /\ strategy'[t] # strategy[t] =>
            KindOf(t) = "TemplateRecord" /\ configured[t] # "UNKNOWN" ]_tableVars

(***************************************************************************)
(* Choosing a strategy never wipes a name that the configuration gave: a   *)
(* builtin type is wrappable only because of its name.                     *)
(***************************************************************************)
NamesSurvive == [][ phase = "translate" => named' = named ]_tableVars
=============================================================================
