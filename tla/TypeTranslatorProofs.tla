------------------------- MODULE TypeTranslatorProofs -------------------------
(***************************************************************************)
(* Proofs about TypeTable: its type invariant, the invariant of the calls  *)
(* of determineStrategy in progress, that a strategy is chosen once, and   *)
(* that no name is wiped.                                                  *)
(*                                                                         *)
(* Proofs about TypeTranslator: its type invariant, that it implements     *)
(* TypeTable, so that what is proved there holds while types are           *)
(* translated, that nodes are those of the strategies, that what makes a   *)
(* translation fail is in the configuration, and that no pointer is lost.  *)
(***************************************************************************)
EXTENDS TypeTranslator, Induction, SequenceTheorems, FiniteSetTheorems, TLAPS

IInv == TypeOK /\ CallsWait

Unchanged == UNCHANGED << graph, phase, configured >>

-----------------------------------------------------------------------------
LEMMA InitInv == Init => IInv
  BY DEF Init, IInv, TypeOK, CallsWait, Strategy

\* The stack of calls without its top.
LEMMA PopFacts ==
  ASSUME deciding \in Seq(Type), deciding # << >>
  PROVE  /\ Top \in Type
         /\ Len(deciding) \in DOMAIN deciding
         /\ Pop \in Seq(Type)
         /\ Len(Pop) = Len(deciding) - 1
         /\ DOMAIN Pop = 1 .. Len(deciding) - 1
         /\ DOMAIN Pop \subseteq DOMAIN deciding
         /\ Len(deciding) \notin DOMAIN Pop
         /\ \A i \in DOMAIN Pop : Pop[i] = deciding[i]
<1>1. Len(deciding) \in Nat /\ Len(deciding) > 0
  OBVIOUS
<1>2. DOMAIN deciding = 1 .. Len(deciding)
  OBVIOUS
<1>3. Top \in Type /\ Len(deciding) \in DOMAIN deciding
  BY <1>1, <1>2 DEF Top
<1>4. /\ Pop \in Seq(Type)
      /\ Len(Pop) = Len(deciding) - 1
      /\ \A i \in 1 .. Len(deciding) - 1 : Pop[i] = deciding[i]
  <2> DEFINE n == Len(deciding) - 1
  <2>1. 1 \in Int /\ n \in Int /\ n \in Nat
    BY <1>1
  <2>2. \A i \in 1 .. n : deciding[i] \in Type
    BY <1>1, <1>2
  <2>3. /\ SubSeq(deciding, 1, n) \in Seq(Type)
        /\ Len(SubSeq(deciding, 1, n)) = IF 1 <= n THEN n - 1 + 1 ELSE 0
        /\ \A i \in 1 .. n - 1 + 1 : SubSeq(deciding, 1, n)[i] = deciding[1 + i - 1]
    <3> HIDE DEF n
    <3> QED
      BY <2>1, <2>2, SubSeqProperties
  <2>4. n - 1 + 1 = n /\ \A i \in 1 .. n : 1 + i - 1 = i
    BY <2>1
  <2> QED
    BY <2>1, <2>3, <2>4 DEF Pop
<1>5. DOMAIN Pop = 1 .. Len(deciding) - 1
  BY <1>4
<1> QED
  BY <1>1, <1>2, <1>3, <1>4, <1>5

\* What a graph says of one type.
LEMMA GraphFacts ==
  ASSUME TypeOK, NEW t \in Type
  PROVE  /\ graph \in Graph
         /\ graph.args[t] \in Seq(Type)
         /\ KindOf(t) \in Kind
         /\ Target(t) \in Type \cup {NoType}
         /\ KindOf(t) \in Targeted => Target(t) \in Type
         /\ KindOf(t) = "TemplateRecord" =>
              \A i \in DOMAIN graph.args[t] :
                KindOf(graph.args[t][i]) = "Record"
         /\ KindOf(t) = "TemplateSpecialization" /\ ~Has(t, "alias") =>
              KindOf(Target(t)) = "TemplateRecord"
<1>1. WellFormed(graph)
  BY TypeTableAssumption DEF TypeOK
<1>2. graph \in Graph
  BY <1>1 DEF WellFormed
<1>3. /\ graph.args[t] \in Seq(Type)
      /\ graph.kind[t] \in Kind
      /\ graph.target[t] \in Type \cup {NoType}
  BY <1>2 DEF Graph
<1> QED
  BY <1>1, <1>2, <1>3 DEF WellFormed, KindOf, Target, Has

-----------------------------------------------------------------------------
LEMMA RecordStrategyType == \A t : RecordStrategy(t) \in Strategy
  BY DEF RecordStrategy, Strategy

LEMMA TemplateStrategyType ==
  ASSUME TypeOK, NEW g \in Type
  PROVE  /\ TemplateStrategy(g) \in Strategy
         /\ AfterTemplate(g) \in [Type -> Strategy]
<1>1. TemplateStrategy(g) \in Strategy
  BY RecordStrategyType DEF TemplateStrategy, TypeOK, Strategy
<1>2. \A t \in Type : DecidedRecord(t) \in Strategy
  BY RecordStrategyType DEF DecidedRecord, TypeOK
<1> QED
  BY <1>1, <1>2 DEF AfterTemplate, TypeOK

\* A record template decides for itself and for records that are undecided.
LEMMA TemplateDecides ==
  ASSUME TypeOK, NEW g \in Type, KindOf(g) = "TemplateRecord", NEW t \in Type,
         AfterTemplate(g)[t] # strategy[t]
  PROVE  \/ t = g /\ AfterTemplate(g)[t] = TemplateStrategy(t)
         \/ /\ KindOf(t) = "Record" /\ Undecided(t)
            /\ AfterTemplate(g)[t] = RecordStrategy(t)
<1>1. CASE t # g
  <2>1. t \in LookedAt(g) /\ AfterTemplate(g)[t] = DecidedRecord(t)
    BY <1>1 DEF AfterTemplate
  <2>2. KindOf(t) = "Record"
    BY <2>1, GraphFacts DEF LookedAt
  <2> QED
    BY <2>1, <2>2 DEF DecidedRecord
<1> QED
  BY <1>1 DEF AfterTemplate

(***************************************************************************)
(* The types whose strategy a step of the translation may change, and how. *)
(***************************************************************************)
LEMMA StepDecides ==
  ASSUME IInv, Determine, NEW t \in Type, strategy'[t] # strategy[t]
  PROVE  /\ deciding # << >>
         /\ deciding' = Pop
         /\ \/ t = Top /\ KindOf(t) \notin {"Record", "TemplateRecord"}
            \/ /\ KindOf(t) = "Record" /\ Undecided(t)
               /\ strategy'[t] = RecordStrategy(t)
            \/ /\ KindOf(t) = "TemplateRecord"
               /\ strategy'[t] = TemplateStrategy(t)
<1> USE DEF IInv
<1>0. strategy \in [Type -> Strategy] /\ deciding \in Seq(Type)
  BY DEF TypeOK
<1>1. CASE ChooseReplace \/ ChooseAsTarget
  <2>1. deciding # << >> /\ deciding' = Pop
    BY <1>1 DEF ChooseReplace, ChooseAsTarget, Deciding, Decided
  <2>2. \E s : Choose(Top, s)
    BY <1>1 DEF ChooseReplace, ChooseAsTarget
  <2>3. t = Top
    BY <2>2, <1>0 DEF Choose
  <2>4. KindOf(Top) \notin {"Record", "TemplateRecord"}
    BY <1>1 DEF ChooseReplace, ChooseAsTarget, Deciding, StandsForAnother
  <2> QED
    BY <2>1, <2>3, <2>4
<1>2. CASE ChooseForRecord
  <2>1. /\ deciding # << >> /\ deciding' = Pop /\ KindOf(Top) = "Record"
        /\ strategy' = [strategy EXCEPT ![Top] = RecordStrategy(Top)]
    BY <1>2 DEF ChooseForRecord, Deciding, Decided, Choose
  <2>2. t = Top
    BY <2>1, <1>0
  <2>3. Len(deciding) \in DOMAIN deciding
    BY <2>1, <1>0, PopFacts
  <2>4. Undecided(Top)
    BY <2>3 DEF CallsWait, Top
  <2> QED
    BY <2>1, <2>2, <2>4, <1>0
<1>3. CASE ChooseForTemplate
  <2>1. /\ deciding # << >> /\ deciding' = Pop /\ KindOf(Top) = "TemplateRecord"
        /\ strategy' = AfterTemplate(Top)
    BY <1>3 DEF ChooseForTemplate, Deciding, Decided
  <2>2. Top \in Type
    BY <2>1, <1>0, PopFacts
  <2> QED
    BY <2>1, <2>2, TemplateDecides
<1>4. CASE ChooseForSpecialization
  <2> DEFINE g == Target(Top)
  <2>1. /\ deciding # << >> /\ deciding' = Pop
        /\ KindOf(Top) = "TemplateSpecialization" /\ ~Has(Top, "alias")
        /\ strategy' = [AfterTemplate(g) EXCEPT ![Top] = TemplateStrategy(g)]
    BY <1>4 DEF ChooseForSpecialization, Deciding, Decided
  <2>2. Top \in Type
    BY <2>1, <1>0, PopFacts
  <2>3. g \in Type /\ KindOf(g) = "TemplateRecord"
    BY <2>1, <2>2, GraphFacts DEF Targeted
  <2>4. AfterTemplate(g) \in [Type -> Strategy]
    BY <2>3, TemplateStrategyType
  <2>5. CASE t # Top
    <3>1. AfterTemplate(g)[t] # strategy[t] /\ strategy'[t] = AfterTemplate(g)[t]
      BY <2>1, <2>4, <2>5
    <3> QED
      BY <3>1, <2>1, <2>3, TemplateDecides
  <2> QED
    BY <2>1, <2>5
<1>5. CASE Descend \/ RunOutOfStack \/ Reject
  BY <1>5 DEF Descend, RunOutOfStack, Reject
<1> QED
  BY <1>1, <1>2, <1>3, <1>4, <1>5 DEF Determine

-----------------------------------------------------------------------------
LEMMA StepType == TypeOK /\ [Next]_tableVars => TypeOK'
<1> SUFFICES ASSUME TypeOK, [Next]_tableVars PROVE TypeOK'
  OBVIOUS
<1>1. /\ graph \in Graphs
      /\ phase \in {"configure", "translate", "overflow"}
      /\ strategy \in [Type -> Strategy]
      /\ named \subseteq Type
      /\ configured \in [Type -> Strategy]
      /\ deciding \in Seq(Type)
  BY DEF TypeOK
<1>2. ASSUME NEW t \in Type, ConfigureReplace(t) PROVE TypeOK'
  BY <1>1, <1>2 DEF ConfigureReplace, TypeOK, Strategy
<1>3. ASSUME NEW t \in Type, NEW s \in {"STRUCT", "INTERFACE", "CLASS"},
             ConfigureStrategy(t, s)
      PROVE  TypeOK'
  BY <1>1, <1>3 DEF ConfigureStrategy, TypeOK, Strategy
<1>4. CASE BeginTranslation
  BY <1>1, <1>4 DEF BeginTranslation, TypeOK
<1>5. ASSUME NEW t \in Type, Ask(t) PROVE TypeOK'
  BY <1>1, <1>5 DEF Ask, DetermineStrategy, TypeOK
<1>6. CASE Descend
  <2>1. deciding # << >> /\ StandsForAnother(Top)
    BY <1>6 DEF Descend
  <2>2. Top \in Type
    BY <1>1, <2>1, PopFacts
  <2>3. Target(Top) \in Type
    BY <2>1, <2>2, GraphFacts DEF StandsForAnother, Targeted
  <2> QED
    BY <1>1, <1>6, <2>3 DEF Descend, TypeOK
<1>7. CASE RunOutOfStack
  BY <1>1, <1>7 DEF RunOutOfStack, TypeOK
<1>8. CASE Reject
  BY <1>1, <1>8 DEF Reject, TypeOK
<1>9. ASSUME deciding # << >>, Decided, strategy' \in [Type -> Strategy],
             named' \subseteq Type
      PROVE  TypeOK'
  BY <1>1, <1>9, PopFacts DEF Decided, TypeOK
<1>10. ASSUME deciding # << >>, Decided, NEW s \in Strategy, Choose(Top, s)
       PROVE  TypeOK'
  <2>1. Top \in Type
    BY <1>1, <1>10, PopFacts
  <2>2. strategy' \in [Type -> Strategy] /\ named' \subseteq Type
    BY <1>1, <1>10, <2>1 DEF Choose
  <2> QED
    BY <1>9, <1>10, <2>2
<1>11. CASE ChooseReplace
  BY <1>10, <1>11 DEF ChooseReplace, Deciding, Strategy
<1>12. CASE ChooseForRecord
  BY <1>10, <1>12, RecordStrategyType DEF ChooseForRecord, Deciding
<1>13. CASE ChooseAsTarget
  <2>1. deciding # << >> /\ Decided /\ StandsForAnother(Top)
    BY <1>13 DEF ChooseAsTarget
  <2>2. Top \in Type
    BY <1>1, <2>1, PopFacts
  <2>3. Target(Top) \in Type
    BY <2>1, <2>2, GraphFacts DEF StandsForAnother, Targeted
  <2>4. strategy[Target(Top)] \in Strategy /\ "REPLACE" \in Strategy
    BY <1>1, <2>3 DEF Strategy
  <2> QED
    BY <1>10, <1>13, <2>1, <2>4 DEF ChooseAsTarget
<1>14. CASE ChooseForTemplate
  <2>1. deciding # << >> /\ Decided /\ strategy' = AfterTemplate(Top)
        /\ named' = named
    BY <1>14 DEF ChooseForTemplate, Deciding
  <2>2. Top \in Type
    BY <1>1, <2>1, PopFacts
  <2> QED
    BY <1>1, <1>9, <2>1, <2>2, TemplateStrategyType
<1>15. CASE ChooseForSpecialization
  <2> DEFINE g == Target(Top)
  <2>1. /\ deciding # << >> /\ Decided
        /\ KindOf(Top) = "TemplateSpecialization"
        /\ strategy' = [AfterTemplate(g) EXCEPT ![Top] = TemplateStrategy(g)]
        /\ named' \subseteq named
    BY <1>15 DEF ChooseForSpecialization, Deciding
  <2>2. Top \in Type
    BY <1>1, <2>1, PopFacts
  <2>3. g \in Type
    BY <2>1, <2>2, GraphFacts DEF Targeted
  <2>4. strategy' \in [Type -> Strategy]
    BY <2>1, <2>3, TemplateStrategyType
  <2> QED
    BY <1>1, <1>9, <2>1, <2>4
<1>16. CASE UNCHANGED tableVars
  BY <1>1, <1>16 DEF tableVars, TypeOK
<1> QED
  BY <1>2, <1>3, <1>4, <1>5, <1>6, <1>7, <1>8, <1>11, <1>12, <1>13, <1>14,
     <1>15, <1>16 DEF Next, Determine

-----------------------------------------------------------------------------
(***************************************************************************)
(* Taking the top off the stack leaves calls that wait, as long as none of *)
(* the types they are on has been decided meanwhile.                       *)
(***************************************************************************)
LEMMA PopWaits ==
  ASSUME IInv, deciding # << >>, deciding' = Pop, Unchanged,
         phase = "translate",
         \A i \in DOMAIN Pop : strategy'[deciding[i]] = strategy[deciding[i]]
  PROVE  CallsWait'
<1>0. deciding \in Seq(Type)
  BY DEF IInv, TypeOK
<1>1. /\ DOMAIN Pop = 1 .. Len(deciding) - 1
      /\ DOMAIN Pop \subseteq DOMAIN deciding
      /\ \A i \in DOMAIN Pop : Pop[i] = deciding[i]
      /\ Len(Pop) = Len(deciding) - 1
      /\ Len(deciding) \in Nat
  BY <1>0, PopFacts
<1>2. phase' = phase /\ graph' = graph
  BY DEF Unchanged
<1>3. \A i \in DOMAIN Pop : Undecided(deciding[i])
  BY <1>1 DEF IInv, CallsWait
<1>4. \A i \in DOMAIN Pop : strategy'[Pop[i]] = "UNKNOWN"
  BY <1>1, <1>3 DEF Undecided
<1>5. \A i, j \in DOMAIN Pop : Pop[i] = Pop[j] => i = j
  BY <1>1 DEF IInv, CallsWait
<1>6. \A i \in DOMAIN Pop :
        KindOf(deciding[i]) \in { "Typedef", "Qualified", "Delayed",
                                  "TemplateSpecialization" }
  BY <1>1 DEF IInv, CallsWait
<1>7. 1 .. Len(Pop) - 1 \subseteq DOMAIN Pop
  BY <1>1
<1> QED
  BY <1>1, <1>2, <1>4, <1>5, <1>6, <1>7 DEF CallsWait, Undecided, KindOf

LEMMA StepInv == IInv /\ [Next]_tableVars => IInv'
<1> SUFFICES ASSUME IInv, [Next]_tableVars PROVE CallsWait'
  BY StepType DEF IInv
<1>1. TypeOK /\ CallsWait /\ deciding \in Seq(Type)
  BY DEF IInv, TypeOK
<1>2. ASSUME NEW t \in Type, ConfigureReplace(t) PROVE CallsWait'
  BY <1>1, <1>2 DEF ConfigureReplace, CallsWait
<1>3. ASSUME NEW t \in Type, NEW s \in {"STRUCT", "INTERFACE", "CLASS"},
             ConfigureStrategy(t, s)
      PROVE  CallsWait'
  BY <1>1, <1>3 DEF ConfigureStrategy, CallsWait
<1>4. CASE BeginTranslation
  BY <1>1, <1>4 DEF BeginTranslation, CallsWait
<1>5. ASSUME NEW t \in Type, Ask(t) PROVE CallsWait'
  BY <1>1, <1>5 DEF Ask, DetermineStrategy, CallsWait, Undecided
<1>6. CASE Descend
  <2> DEFINE n == Len(deciding)
             d == Append(deciding, Target(Top))
  <2>1. /\ deciding # << >> /\ StandsForAnother(Top)
        /\ Undecided(Target(Top)) /\ Target(Top) \notin InProgress
        /\ deciding' = d
        /\ UNCHANGED << graph, phase, strategy >> /\ phase = "translate"
    BY <1>6 DEF Descend
  <2>2. Top \in Type
    BY <1>1, <2>1, PopFacts
  <2>3. Target(Top) \in Type
    BY <1>1, <2>1, <2>2, GraphFacts DEF StandsForAnother, Targeted
  <2>4. /\ n \in Nat /\ n > 0 /\ DOMAIN deciding = 1 .. n
        /\ Len(d) = n + 1 /\ DOMAIN d = 1 .. n + 1
        /\ d[n + 1] = Target(Top)
        /\ \A i \in 1 .. n : d[i] = deciding[i]
    BY <1>1, <2>1, <2>3
  <2>5. \A i \in DOMAIN d : Undecided(d[i])
    BY <1>1, <2>1, <2>4 DEF CallsWait
  <2>6. \A i, j \in DOMAIN d : d[i] = d[j] => i = j
    BY <1>1, <2>1, <2>4 DEF CallsWait, InProgress
  <2>7. \A i \in 1 .. n :
          KindOf(d[i]) \in { "Typedef", "Qualified", "Delayed",
                             "TemplateSpecialization" }
    <3>1. KindOf(Top) \in { "Typedef", "Qualified", "Delayed",
                            "TemplateSpecialization" }
      BY <2>1 DEF StandsForAnother
    <3>2. ASSUME NEW m \in Nat, NEW i \in 1 .. m PROVE i = m \/ i \in 1 .. m - 1
      OBVIOUS
    <3> QED
      BY <1>1, <2>4, <3>1, <3>2 DEF CallsWait, Top
  <2>8. \A i \in DOMAIN d : Undecided(d[i])'
    BY <2>1, <2>5 DEF Undecided
  <2>9. \A i \in 1 .. Len(d) - 1 :
          KindOf(d[i])' \in { "Typedef", "Qualified", "Delayed",
                             "TemplateSpecialization" }
    BY <2>1, <2>4, <2>7 DEF KindOf
  <2> QED
    BY <2>1, <2>6, <2>8, <2>9 DEF CallsWait, Undecided, KindOf
<1>7. CASE RunOutOfStack
  BY <1>1, <1>7 DEF RunOutOfStack, CallsWait, Undecided, KindOf
<1>8. CASE Reject
  BY <1>1, <1>8 DEF Reject, CallsWait
<1>9. CASE ChooseReplace \/ ChooseForRecord \/ ChooseForTemplate
           \/ ChooseForSpecialization \/ ChooseAsTarget
  <2>1. deciding # << >> /\ deciding' = Pop /\ Unchanged /\ phase = "translate"
    BY <1>9 DEF ChooseReplace, ChooseForRecord, ChooseForTemplate,
       ChooseForSpecialization, ChooseAsTarget, Deciding, Decided, Unchanged
  <2>2. ASSUME NEW i \in DOMAIN Pop
        PROVE  strategy'[deciding[i]] = strategy[deciding[i]]
    <3>1. /\ i \in DOMAIN deciding /\ i \in 1 .. Len(deciding) - 1
          /\ i # Len(deciding) /\ Len(deciding) \in DOMAIN deciding
      BY <1>1, <2>1, PopFacts
    <3>2. deciding[i] \in Type /\ deciding[i] # Top
      BY <1>1, <3>1 DEF CallsWait, Top
    <3>3. KindOf(deciding[i]) \in { "Typedef", "Qualified", "Delayed",
                                    "TemplateSpecialization" }
      BY <1>1, <3>1 DEF CallsWait
    <3>4. Determine
      BY <1>9 DEF Determine
    <3> QED
      BY <3>2, <3>3, <3>4, StepDecides
  <2> QED
    BY <2>1, <2>2, PopWaits
<1>10. CASE UNCHANGED tableVars
  BY <1>1, <1>10 DEF tableVars, CallsWait, Undecided, KindOf
<1> QED
  BY <1>2, <1>3, <1>4, <1>5, <1>6, <1>7, <1>8, <1>9, <1>10 DEF Next, Determine

-----------------------------------------------------------------------------
(***************************************************************************)
(* The variables always have values of their types.                        *)
(***************************************************************************)
THEOREM TypeCorrect == Spec => []TypeOK
<1>1. IInv => TypeOK
  BY DEF IInv
<1> QED
  BY <1>1, InitInv, StepInv, PTL DEF Spec

(***************************************************************************)
(* No call of determineStrategy in progress is on a type that is already   *)
(* decided, and no two of them are on the same type: what a call decides   *)
(* is not overruled when the calls below it return.                        *)
(***************************************************************************)
THEOREM CallsWaitCorrect == Spec => []CallsWait
<1>1. IInv => CallsWait
  BY DEF IInv
<1> QED
  BY <1>1, InitInv, StepInv, PTL DEF Spec

-----------------------------------------------------------------------------
(***************************************************************************)
(* A step of the translation does not change what a template looks at:     *)
(* deciding for a record only stores what would be decided for it.         *)
(***************************************************************************)
LEMMA RecordsSettle ==
  ASSUME IInv, Determine, NEW t \in Type, KindOf(t) = "Record"
  PROVE  DecidedRecord(t)' = DecidedRecord(t)
<1>1. graph' = graph
  BY DEF Determine, ChooseReplace, ChooseForRecord, ChooseForTemplate,
     ChooseForSpecialization, Descend, RunOutOfStack, ChooseAsTarget, Reject,
     Decided
<1>2. RecordStrategy(t)' = RecordStrategy(t)
  BY <1>1 DEF RecordStrategy, Has
<1>3. CASE strategy'[t] = strategy[t]
  BY <1>2, <1>3 DEF DecidedRecord, Undecided
<1>4. CASE strategy'[t] # strategy[t]
  <2>1. Undecided(t) /\ strategy'[t] = RecordStrategy(t)
    BY <1>4, StepDecides
  <2>2. RecordStrategy(t) # "UNKNOWN"
    BY DEF RecordStrategy
  <2> QED
    BY <1>2, <2>1, <2>2 DEF DecidedRecord, Undecided
<1> QED
  BY <1>3, <1>4

LEMMA TemplateSettles ==
  ASSUME IInv, Determine, NEW g \in Type, KindOf(g) = "TemplateRecord",
         strategy'[g] = strategy[g] \/ strategy'[g] = TemplateStrategy(g)
  PROVE  TemplateStrategy(g)' = TemplateStrategy(g)
<1>1. graph' = graph
  BY DEF Determine, ChooseReplace, ChooseForRecord, ChooseForTemplate,
     ChooseForSpecialization, Descend, RunOutOfStack, ChooseAsTarget, Reject,
     Decided
<1>2. \A i \in DOMAIN graph.args[g] :
        DecidedRecord(graph.args[g][i])' = DecidedRecord(graph.args[g][i])
  <2> SUFFICES ASSUME NEW i \in DOMAIN graph.args[g]
               PROVE  DecidedRecord(graph.args[g][i])'
                        = DecidedRecord(graph.args[g][i])
    OBVIOUS
  <2>1. graph.args[g][i] \in Type /\ KindOf(graph.args[g][i]) = "Record"
    BY GraphFacts DEF IInv
  <2>2. \A t \in Type : KindOf(t) = "Record" =>
                          DecidedRecord(t)' = DecidedRecord(t)
    BY RecordsSettle
  <2>3. \A t : DecidedRecord(t)' =
                 IF strategy'[t] = "UNKNOWN" THEN RecordStrategy(t)
                 ELSE strategy'[t]
    BY <1>1 DEF DecidedRecord, Undecided, RecordStrategy, Has
  <2> QED
    BY <1>1, <2>1, <2>2, <2>3 DEF DecidedRecord, Undecided, RecordStrategy, Has
<1>3. Telling(g)' = Telling(g)
  BY <1>1, <1>2 DEF Telling
<1>4. RecordStrategy(g)' = RecordStrategy(g)
  BY <1>1 DEF RecordStrategy, Has
<1>5. ~(Has(g, "cxx") /\ ~Has(g, "defined")) =>
        TemplateStrategy(g)' = TemplateStrategy(g)
  BY <1>1, <1>4 DEF TemplateStrategy, Has
<1>6. (\E i \in Telling(g) :
         First(i, Telling(g)) /\ DecidedRecord(graph.args[g][i]) = "INTERFACE")'
      = (\E i \in Telling(g) :
           First(i, Telling(g)) /\ DecidedRecord(graph.args[g][i]) = "INTERFACE")
  BY <1>1, <1>2, <1>3 DEF First, Telling
<1>7. CASE Telling(g) = {} /\ Has(g, "cxx") /\ ~Has(g, "defined")
  <2>1. /\ TemplateStrategy(g) = IF Undecided(g) THEN "REPLACE" ELSE strategy[g]
        /\ TemplateStrategy(g)'
             = (IF Undecided(g) THEN "REPLACE" ELSE strategy[g])'
    BY <1>1, <1>3, <1>7 DEF TemplateStrategy, Has
  <2> QED
    BY <2>1 DEF Undecided
<1>8. CASE Telling(g) # {} /\ Has(g, "cxx") /\ ~Has(g, "defined")
  BY <1>1, <1>3, <1>6, <1>8 DEF TemplateStrategy, Has
<1> QED
  BY <1>5, <1>7, <1>8

LEMMA StepSettled == IInv /\ TemplatesSettled /\ [Next]_tableVars
                       => TemplatesSettled'
<1> SUFFICES ASSUME IInv, TemplatesSettled, [Next]_tableVars
             PROVE  TemplatesSettled'
  OBVIOUS
<1>0. TypeOK /\ strategy \in [Type -> Strategy] /\ configured \in [Type -> Strategy]
  BY DEF IInv, TypeOK
<1>1. ASSUME NEW t \in Type, ConfigureReplace(t) PROVE TemplatesSettled'
  BY <1>0, <1>1 DEF ConfigureReplace, TemplatesSettled, Undecided
<1>2. ASSUME NEW t \in Type, NEW s \in {"STRUCT", "INTERFACE", "CLASS"},
             ConfigureStrategy(t, s)
      PROVE  TemplatesSettled'
  BY <1>0, <1>2 DEF ConfigureStrategy, TemplatesSettled, Undecided
<1>3. CASE BeginTranslation
  BY <1>3 DEF BeginTranslation, TemplatesSettled, Undecided
<1>4. CASE UNCHANGED << graph, strategy, configured >>
           /\ (phase' # "configure" \/ phase' = phase)
  <2>1. \A t : TemplateStrategy(t)' = TemplateStrategy(t)
    BY <1>4 DEF TemplateStrategy, Telling, First, DecidedRecord, Undecided,
       RecordStrategy, Has
  <2> QED
    BY <1>4, <2>1 DEF TemplatesSettled, Undecided, KindOf
<1>5. ASSUME NEW t \in Type, Ask(t) PROVE TemplatesSettled'
  BY <1>4, <1>5 DEF Ask, DetermineStrategy
<1>6. CASE Determine
  <2>1. UNCHANGED << graph, configured >> /\ phase = "translate"
        /\ phase' \in {"translate", "overflow"}
    BY <1>6 DEF Determine, ChooseReplace, ChooseForRecord, ChooseForTemplate,
       ChooseForSpecialization, Descend, RunOutOfStack, ChooseAsTarget, Reject,
       Decided, Deciding
  <2> SUFFICES ASSUME NEW t \in Type, strategy'[t] # "UNKNOWN",
                      configured[t] = "UNKNOWN", KindOf(t) = "TemplateRecord"
               PROVE  strategy'[t] = TemplateStrategy(t)'
    BY <2>1 DEF TemplatesSettled, Undecided, KindOf
  <2>2. strategy'[t] = TemplateStrategy(t)
    <3>1. CASE strategy'[t] = strategy[t]
      BY <2>1, <3>1 DEF TemplatesSettled, Undecided
    <3>2. CASE strategy'[t] # strategy[t]
      BY <1>6, <3>2, StepDecides
    <3> QED
      BY <3>1, <3>2
  <2> QED
    BY <1>6, <2>2, TemplateSettles
<1>7. CASE UNCHANGED tableVars
  BY <1>4, <1>7 DEF tableVars
<1> QED
  BY <1>1, <1>2, <1>3, <1>5, <1>6, <1>7 DEF Next

(***************************************************************************)
(* Looking at a template again gives the strategy it has, unless that was  *)
(* configured.                                                             *)
(***************************************************************************)
THEOREM TemplatesSettledCorrect == Spec => []TemplatesSettled
<1>1. Init => TemplatesSettled
  BY DEF Init, TemplatesSettled, Undecided
<1> QED
  BY <1>1, InitInv, StepInv, StepSettled, PTL DEF Spec

\* A step changes no strategy that was chosen, or that of such a template.
LEMMA StepSticks ==
  ASSUME IInv, TemplatesSettled, [Next]_tableVars, phase = "translate",
         NEW t \in Type, ~Undecided(t), strategy'[t] # strategy[t]
  PROVE  KindOf(t) = "TemplateRecord" /\ configured[t] # "UNKNOWN"
<1>1. CASE Determine
  <2>1. t = Top => deciding # << >> /\ Undecided(Top)
    <3>1. deciding # << >> /\ deciding \in Seq(Type)
      BY <1>1, StepDecides DEF IInv, TypeOK
    <3> QED
      BY <3>1, PopFacts DEF IInv, CallsWait, Top
  <2> QED
    BY <1>1, <2>1, StepDecides DEF TemplatesSettled
<1>2. CASE \E u \in Type : Ask(u)
  BY <1>2 DEF Ask, DetermineStrategy
<1> QED
  BY <1>1, <1>2 DEF Next, ConfigureReplace, ConfigureStrategy,
     BeginTranslation, tableVars

(***************************************************************************)
(* During the translation a strategy that was chosen is never changed,     *)
(* except that of a record template which was configured.                  *)
(***************************************************************************)
THEOREM DecisionsStickCorrect == Spec => DecisionsStick
<1> DEFINE Sticks ==
      phase = "translate" =>
        \A t \in Type :
          ~Undecided(t) /\ strategy'[t] # strategy[t] =>
            KindOf(t) = "TemplateRecord" /\ configured[t] # "UNKNOWN"
<1>1. IInv /\ TemplatesSettled /\ [Next]_tableVars => [Sticks]_tableVars
  BY StepSticks
<1>2. Init => TemplatesSettled
  BY DEF Init, TemplatesSettled, Undecided
<1> QED
  BY <1>1, <1>2, InitInv, StepInv, StepSettled, PTL DEF Spec, DecisionsStick

-----------------------------------------------------------------------------
(***************************************************************************)
(* What keeps the names: a type that has one has a strategy, so no call of *)
(* determineStrategy is ever made on it.                                   *)
(***************************************************************************)
NamedDecided == \A t \in named : ~Undecided(t)

\* What is chosen is not UNKNOWN, so a type stays decided.
LEMMA StaysDecided ==
  ASSUME IInv, [Next]_tableVars, NEW t \in Type, ~Undecided(t)
  PROVE  ~Undecided(t)'
<1>1. CASE Determine
  <2>1. deciding # << >> => Undecided(Top)
    <3>1. deciding # << >> => Len(deciding) \in DOMAIN deciding
      BY PopFacts DEF IInv, TypeOK
    <3> QED
      BY <3>1 DEF IInv, CallsWait, Top
  <2>2. RecordStrategy(t) # "UNKNOWN"
    BY DEF RecordStrategy
  <2>3. TemplateStrategy(t) # "UNKNOWN"
    BY <2>2 DEF TemplateStrategy, Undecided
  <2> QED
    BY <1>1, <2>1, <2>2, <2>3, StepDecides DEF Undecided
<1>2. ASSUME NEW u \in Type, NEW s \in {"REPLACE", "STRUCT", "INTERFACE", "CLASS"},
             strategy' = [strategy EXCEPT ![u] = s]
      PROVE  ~Undecided(t)'
  BY <1>2 DEF IInv, TypeOK, Undecided
<1>3. CASE UNCHANGED strategy
  BY <1>3 DEF Undecided
<1> QED
  BY <1>1, <1>2, <1>3 DEF Next, ConfigureReplace, ConfigureStrategy, BeginTranslation,
     Ask, DetermineStrategy, tableVars

\* Whatever a step of the translation names, it names no type that has a name.
LEMMA StepKeepsNames ==
  ASSUME IInv, NamedDecided, Determine
  PROVE  named' = named
<1>1. deciding # << >> => Top \notin named
  <2>1. deciding # << >> => Len(deciding) \in DOMAIN deciding
    BY PopFacts DEF IInv, TypeOK
  <2> QED
    BY <2>1 DEF IInv, CallsWait, Top, NamedDecided
<1> QED
  BY <1>1 DEF Determine, ChooseReplace, ChooseForRecord, ChooseForTemplate,
     ChooseForSpecialization, Descend, RunOutOfStack, ChooseAsTarget, Reject,
     Deciding, Choose, Decided

LEMMA StepNamed == IInv /\ NamedDecided /\ [Next]_tableVars => NamedDecided'
<1> SUFFICES ASSUME IInv, NamedDecided, [Next]_tableVars, NEW t \in named'
             PROVE  ~Undecided(t)'
  BY DEF NamedDecided
<1>1. named \subseteq Type /\ strategy \in [Type -> Strategy]
  BY DEF IInv, TypeOK
<1>2. CASE t \in named
  BY <1>1, <1>2, StaysDecided DEF NamedDecided
<1>3. CASE t \notin named
  <2>1. ~Determine
    BY <1>3, StepKeepsNames
  <2>2. PICK u \in Type : ConfigureReplace(u)
    BY <1>3, <2>1 DEF Next, ConfigureStrategy, BeginTranslation, Ask,
       DetermineStrategy, tableVars
  <2> QED
    BY <1>1, <1>3, <2>2 DEF ConfigureReplace, Undecided
<1> QED
  BY <1>2, <1>3

(***************************************************************************)
(* During the translation the names that the configuration gave stay, and  *)
(* none is added: choosing "" as a replacement happens to types without    *)
(* one only.                                                               *)
(***************************************************************************)
THEOREM NamesSurviveCorrect == Spec => NamesSurvive
<1> DEFINE Survive == phase = "translate" => named' = named
<1>1. Init => NamedDecided
  BY DEF Init, NamedDecided
<1>2. IInv /\ NamedDecided /\ [Next]_tableVars => [Survive]_tableVars
  BY StepKeepsNames DEF Next, ConfigureReplace, ConfigureStrategy, BeginTranslation,
     Ask, DetermineStrategy, tableVars
<1> QED
  BY <1>1, <1>2, InitInv, StepInv, StepNamed, PTL DEF Spec, NamesSurvive

-----------------------------------------------------------------------------
(***************************************************************************)
(* isWrappable is what its definition says, and more calls answer yes to   *)
(* no fewer questions.                                                     *)
(***************************************************************************)
Yes(yes) == { q \in Type \X BOOLEAN : AnswersYes(q[1], q[2], yes) }

LEMMA WrappableIs ==
  /\ Wrappable[0] = {}
  /\ \A n \in Nat : Wrappable[n + 1] = Yes(Wrappable[n])
<1> DEFINE X == SUBSET (Type \X BOOLEAN)
           F == [yes \in X |-> Yes(yes)]
           Is(w) == w = [n \in Nat |-> IF n = 0 THEN {} ELSE Yes(w[n - 1])]
<1>1. F \in [X -> X] /\ {} \in X
  BY DEF Yes
<1>2. PICK g : Iteration(g, X, F, {})
  <2> DEFINE none == {}
  <2>1. F \in [X -> X] /\ none \in X
    BY <1>1
  <2> HIDE DEF X, F, none
  <2>2. \E g : Iteration(g, X, F, none)
    BY <2>1, Iterates
  <2> QED
    BY <2>2 DEF none
<1> USE DEF Iteration
<1>3. Is(g)
  <2>1. \A n \in Nat : g[n] = IF n = 0 THEN {} ELSE Yes(g[n - 1])
    <3> TAKE n \in Nat
    <3>1. CASE n # 0
      <4>1. n - 1 \in Nat /\ (n - 1) + 1 = n
        BY <3>1
      <4>2. g[n] = F[g[n - 1]] /\ g[n - 1] \in X
        BY <1>2, <4>1
      <4> QED
        BY <3>1, <4>2
    <3> QED
      BY <1>2, <3>1
  <2> QED
    BY <1>2, <2>1
<1>4. Wrappable = CHOOSE w : Is(w)
  BY DEF Wrappable, Yes
<1>5. Is(Wrappable)
  <2> HIDE DEF Is
  <2> QED
    BY <1>3, <1>4
<1>6. Wrappable[0] = {}
  BY <1>5
<1>7. ASSUME NEW n \in Nat PROVE Wrappable[n + 1] = Yes(Wrappable[n])
  <2>1. n + 1 \in Nat /\ n + 1 # 0 /\ (n + 1) - 1 = n
    OBVIOUS
  <2> QED
    BY <1>5, <2>1
<1> QED
  BY <1>6, <1>7
LEMMA MoreCallsMoreAnswers ==
  \A n \in Nat : Wrappable[n] \subseteq Wrappable[n + 1]
<1> DEFINE S == {n \in Nat : Wrappable[n] \subseteq Wrappable[n + 1]}
<1>1. 0 \in S
  BY WrappableIs
<1>2. ASSUME NEW n \in S PROVE n + 1 \in S
  <2>1. n \in Nat /\ n + 1 \in Nat /\ Wrappable[n] \subseteq Wrappable[n + 1]
    OBVIOUS
  <2>2. /\ Wrappable[n + 1] = Yes(Wrappable[n])
        /\ Wrappable[(n + 1) + 1] = Yes(Wrappable[n + 1])
    BY <2>1, WrappableIs
  <2>3. ASSUME NEW less, NEW more, less \subseteq more
        PROVE  Yes(less) \subseteq Yes(more)
    BY <2>3 DEF Yes, AnswersYes, OfTemplate
  <2> QED
    BY <2>1, <2>2, <2>3
<1>3. S \in SUBSET Nat
  OBVIOUS
<1>4. S = Nat
  <2> HIDE DEF S
  <2> QED
    BY <1>1, <1>2, <1>3, Induct
<1> QED
  BY <1>4

\* A name is wrappable only if what it resolves to is.
LEMMA BackingWrappable ==
  ASSUME NEW t \in Type, KindOf(t) = "Delayed", IsWrappable(t, TRUE)
  PROVE  IsWrappable(Target(t), TRUE)
<1> DEFINE n == Cardinality(Type)
<1>1. n \in Nat
  BY TypeTableAssumption, FS_CardinalityType
<1>2. << t, TRUE >> \in Wrappable[n]
  BY DEF IsWrappable
<1>3. n # 0
  BY <1>2, WrappableIs
<1> HIDE DEF n
<1>4. n - 1 \in Nat /\ (n - 1) + 1 = n
  BY <1>1, <1>3
<1>5. Wrappable[n] = Yes(Wrappable[n - 1]) /\ Wrappable[n - 1] \subseteq Wrappable[n]
  BY <1>4, WrappableIs, MoreCallsMoreAnswers
<1>6. AnswersYes(t, TRUE, Wrappable[n - 1])
  BY <1>2, <1>5 DEF Yes
<1>7. << Target(t), TRUE >> \in Wrappable[n - 1]
  BY <1>6 DEF AnswersYes
<1> QED
  BY <1>5, <1>7 DEF IsWrappable, n

LEMMA RecordWrappable ==
  ASSUME NEW t \in Type, KindOf(t) \in {"Record", "TemplateRecord"},
         Has(t, "wrappable")
  PROVE  IsWrappable(t, TRUE)
<1> DEFINE n == Cardinality(Type)
<1>1. n \in Nat /\ n # 0
  BY TypeTableAssumption, FS_CardinalityType, FS_EmptySet
<1> HIDE DEF n
<1>2. n - 1 \in Nat /\ (n - 1) + 1 = n
  BY <1>1
<1>3. Wrappable[n] = Yes(Wrappable[n - 1])
  BY <1>2, WrappableIs
<1>4. AnswersYes(t, TRUE, Wrappable[n - 1])
  BY DEF AnswersYes
<1> QED
  BY <1>3, <1>4 DEF IsWrappable, Yes, n

\* The answers depend on the program and on the names only.
LEMMA AnswersStay ==
  UNCHANGED << graph, named >> =>
    \A t, refAllowed : IsWrappable(t, refAllowed)' = IsWrappable(t, refAllowed)
<1> SUFFICES ASSUME UNCHANGED << graph, named >>
             PROVE  \A t, refAllowed :
                      IsWrappable(t, refAllowed)' = IsWrappable(t, refAllowed)
  OBVIOUS
<1> QED
  BY DEF IsWrappable, Wrappable, AnswersYes, OfTemplate, KindOf, Target, Has

-----------------------------------------------------------------------------
(***************************************************************************)
(* What a reference refers to is a type, if it is anything.                *)
(***************************************************************************)
Referring(r) ==
  [ t \in Type |->
      IF KindOf(t) = "Reference" THEN Target(t)
      ELSE IF KindOf(t) \in {"Typedef", "Delayed"} /\ Target(t) # NoType
             THEN r[Target(t)]
      ELSE NoType ]

LEMMA ReferredType ==
  ASSUME TypeOK, NEW t \in Type
  PROVE  HandleReference[t] \in Type \cup {NoType}
<1> DEFINE X == [Type -> Type \cup {NoType}]
           F == [r \in X |-> Referring(r)]
           x == [u \in Type |-> NoType]
           Is(w) == w = [n \in Nat |->
                           [ u \in Type |->
                               IF n = 0 THEN NoType
                               ELSE IF KindOf(u) = "Reference" THEN Target(u)
                               ELSE IF KindOf(u) \in {"Typedef", "Delayed"}
                                         /\ Target(u) # NoType
                                      THEN w[n - 1][Target(u)]
                               ELSE NoType ]]
<1>0. \A u \in Type : Target(u) \in Type \cup {NoType}
  BY GraphFacts
<1>1. F \in [X -> X] /\ x \in X
  <2>1. \A r \in X : Referring(r) \in X
    BY <1>0 DEF Referring
  <2> QED
    BY <2>1
<1>2. PICK g : Iteration(g, X, F, x)
  <2> HIDE DEF X, F, x
  <2> QED
    BY <1>1, Iterates
<1>3. /\ g \in [Nat -> X] /\ g[0] = x
      /\ \A n \in Nat : g[n + 1] = Referring(g[n])
  BY <1>2 DEF Iteration
<1>4. Is(g)
  <2>1. \A n \in Nat : g[n] = [ u \in Type |->
                               IF n = 0 THEN NoType
                               ELSE IF KindOf(u) = "Reference" THEN Target(u)
                               ELSE IF KindOf(u) \in {"Typedef", "Delayed"}
                                         /\ Target(u) # NoType
                                      THEN g[n - 1][Target(u)]
                               ELSE NoType ]
    <3> TAKE n \in Nat
    <3>1. CASE n # 0
      <4>1. n - 1 \in Nat /\ (n - 1) + 1 = n
        BY <3>1
      <4>2. g[n] = Referring(g[n - 1])
        BY <1>3, <4>1
      <4> QED
        BY <3>1, <4>2 DEF Referring
    <3>2. CASE n = 0
      BY <1>3, <3>2
    <3> QED
      BY <3>1, <3>2
  <2> QED
    BY <1>3, <2>1
<1>5. ReferredIn = CHOOSE w : Is(w)
  BY DEF ReferredIn
<1>6. Is(ReferredIn)
  <2> HIDE DEF Is
  <2> QED
    BY <1>4, <1>5
<1>7. \A n \in Nat : ReferredIn[n] \in X
  <2> DEFINE S == {n \in Nat : ReferredIn[n] \in X}
  <2>1. 0 \in S
    <3>1. ReferredIn[0] = x
      BY <1>6
    <3> QED
      BY <1>1, <3>1
  <2>2. ASSUME NEW n \in S PROVE n + 1 \in S
    <3>1. n \in Nat /\ n + 1 \in Nat /\ n + 1 # 0 /\ (n + 1) - 1 = n
      OBVIOUS
    <3>2. ReferredIn[n + 1] = Referring(ReferredIn[n])
      BY <1>6, <3>1 DEF Referring
    <3> QED
      BY <1>1, <3>1, <3>2
  <2>3. S \in SUBSET Nat
    OBVIOUS
  <2>4. S = Nat
    <3> HIDE DEF S
    <3> QED
      BY <2>1, <2>2, <2>3, Induct
  <2> QED
    BY <2>4
<1>8. Cardinality(Type) \in Nat
  BY TypeTableAssumption, FS_CardinalityType
<1> QED
  BY <1>7, <1>8 DEF HandleReference

-----------------------------------------------------------------------------
(***************************************************************************)
(* The invariant.  A name takes its strategy from what it resolves to,     *)
(* which keeps it, so translateStruct finds structs and replaceType finds  *)
(* what is replaced, unless a template was configured.  What replaceType   *)
(* is called on is wrappable, so the strategies it asks for are those the  *)
(* table lets it ask for.                                                  *)
(***************************************************************************)
NamesFollow ==
  \A t \in Type :
    KindOf(t) = "Delayed" /\ ~Undecided(t) =>
      /\ phase # "configure"
      /\ \/ Target(t) = NoType /\ strategy[t] = "REPLACE"
         \/ /\ Target(t) \in Type /\ ~Undecided(Target(t))
            /\ strategy[Target(t)] # strategy[t] =>
                 KindOf(Target(t)) = "TemplateRecord" /\ ConfiguredTemplate

KindsFollow ==
  \A t \in Type :
    strategy[t] \in {"STRUCT", "INTERFACE", "CLASS"} =>
      \/ KindOf(t) \in { "Record", "TemplateRecord", "TemplateSpecialization",
                         "Delayed" }
      \/ /\ KindOf(t) \in {"Builtin", "Enum", "Typedef", "Union"}
         /\ configured[t] # "UNKNOWN"

TargetsDecided ==
  \A t \in Type :
    /\ KindOf(t) = "Invalid" => Undecided(t)
    /\ KindOf(t) \in {"Typedef", "Qualified"} /\ ~Undecided(t) =>
         \/ ~Undecided(Target(t))
         \/ KindOf(t) = "Typedef" /\ configured[t] # "UNKNOWN"

ConfiguredTypedef ==
  \E t \in Type : KindOf(t) = "Typedef" /\ configured[t] # "UNKNOWN"

Fits(call, t) ==
  /\ call = "replaceType" =>
       IsWrappable(t, TRUE) /\ (strategy[t] = "REPLACE" \/ ConfiguredTemplate)
  /\ call = "translateStruct" =>
       strategy[t] = "STRUCT" \/ KindOf(t) = "TemplateRecord"

FramesFit == \A i \in DOMAIN frames : Fits(frames[i].call, frames[i].type)

Nothing ==
  /\ frames = << >> /\ outcome = "none"
  /\ \A t \in Type : registered[t] = "null" /\ memo[t] = Null

Began ==
  /\ phase = "configure" => Nothing
  /\ outcome = "ref" => frames = << >> /\ result = Null
  /\ frames # << >> \/ outcome = "ref" => asked \in Type

(***************************************************************************)
(* A node that is registered as a struct or an interface stays registered, *)
(* and the strategy that it was made for stays chosen.                     *)
(***************************************************************************)
NodesFollow ==
  \A u \in Type :
    registered[u] \in {"struct", "interface"} =>
      /\ ~Undecided(u)
      /\ ~ConfiguredTemplate =>
           (registered[u] = "interface" <=> strategy[u] = "INTERFACE")

IsIn(nodes, d) ==
  d.class \in {"struct", "interface"} => d.of \in Type /\ nodes[d.of] = d.class

AllRegistered ==
  IsIn(registered, result) /\ \A t \in Type : IsIn(registered, memo[t])

NamedKinds ==
  \A t \in named :
    KindOf(t) \in { "Builtin", "Record", "TemplateRecord", "Union", "Enum", "Typedef" }

(***************************************************************************)
(* The types whose D type is that of their target, or wraps it.            *)
(***************************************************************************)
Passes(t) ==
  \/ KindOf(t) \in {"Pointer", "Reference", "Array", "Qualified", "Delayed"}
  \/ /\ KindOf(t) = "Typedef"
     /\ ~IsWrappable(t, TRUE) \/ (t \notin named /\ ~DeclWrappable(t))

\* It is known whether t is an indirection, and will not change.
Firm(t) ==
  KindOf(t) = "Pointer" =>
    KindOf(Target(t)) = "Function" \/ RefAnswer[Target(t)] # "undecided"

Moves(t) ==
  /\ Passes(t) \/ KindOf(t) = "TemplateSpecialization"
  /\ Target(t) \in Type
  /\ Firm(t)

\* X has the types that lead to leaf, with the pointers that are in between.
Closed(X, leaf) ==
  /\ << leaf, 0 >> \in X
  /\ \A u \in Type, j \in Nat :
       u # leaf /\ Moves(u) /\ << Target(u), j >> \in X =>
         << u, IF IsIndirection(u) THEN j + 1 ELSE j >> \in X

LeadsTo(t, leaf, k) ==
  \A X \in SUBSET (Type \X Nat) : Closed(X, leaf) => << t, k >> \in X

Leads(t, d) ==
  d.of \in Type /\ ~Passes(d.of) /\ LeadsTo(t, d.of, Count("pointer", d))

\* y is asked for instead of x, typedefs of it that are not wrappable.
Stands(x, y) ==
  \A X \in SUBSET Type :
    y \in X /\ (\A u \in Type : KindOf(u) = "Typedef" /\ ~IsWrappable(u, TRUE)
                                /\ Target(u) \in X => u \in X) => x \in X

\* Frames that give on what they get, and wrap it if need be.
Plain == {"Function", "TemplateSpecialization"}

Waits(f) ==
  KindOf(f.type) \notin Plain =>
    /\ Passes(f.type) /\ Target(f.type) \in Type /\ Firm(f.type)
    /\ f.wrap = "pointer" <=> IsIndirection(f.type)

(***************************************************************************)
(* What is remembered of a type counts the pointers on the way to what it  *)
(* is of; so does a result, from the target of the type that waits for it, *)
(* and a frame that waits adds one just if its type is an indirection.     *)
(***************************************************************************)
KeptBy(answers, calls, last) ==
  /\ \A t \in Type : answers[t] # Null => Leads(t, answers[t])
  /\ \A i \in 1 .. Len(calls) : i < Len(calls) \/ last # Null => Waits(calls[i])
  /\ \A i \in 1 .. Len(calls) - 1 :
       KindOf(calls[i].type) \notin Plain =>
         Stands(Target(calls[i].type), calls[i + 1].type)
  /\ calls # << >> /\ last # Null =>
       LET t == calls[Len(calls)].type
       IN  KindOf(t) \notin Plain => Leads(Target(t), last)

Kept == ~ConfiguredTemplate => KeptBy(memo, frames, result)

TransInv ==
  /\ IInv /\ NamedDecided /\ NamedKinds /\ TemplatesSettled /\ NamesFollow /\ KindsFollow
  /\ TargetsDecided /\ TransTypeOK /\ FramesFit /\ Began
  /\ FailsOnlyIfConfigured
  /\ NodesFollow /\ AllRegistered /\ Kept

LEMMA TransInitInv == TransInit => TransInv
<1> SUFFICES ASSUME TransInit PROVE TransInv
  OBVIOUS
<1>1. Init
  BY DEF TransInit
<1>2. /\ IInv /\ NamedDecided /\ TemplatesSettled /\ NamesFollow /\ KindsFollow
      /\ TargetsDecided /\ NamedKinds
  BY <1>1, InitInv DEF Init, NamedDecided, TemplatesSettled, Undecided, NamesFollow,
     KindsFollow, TargetsDecided, NamedKinds
<1>3. Null \in DType
  BY DEF Null, Leaf, DType, Class
<1>4. TransTypeOK
  <2>1. TypeOK
    BY <1>2 DEF IInv
  <2>2. "null" \in Class
    BY DEF Class
  <2>3. memo \in [Type -> DType] /\ registered \in [Type -> Class]
    BY <1>3, <2>2 DEF TransInit
  <2>4. << >> \in Seq(Frame)
    OBVIOUS
  <2> QED
    BY <1>3, <2>1, <2>3, <2>4 DEF TransInit, TransTypeOK
<1>5. FramesFit /\ Began /\ FailsOnlyIfConfigured /\ NodesFollow
  BY DEF TransInit, FramesFit, Began, Nothing, FailsOnlyIfConfigured, RightStrategies,
     NodesFollow
<1>6. AllRegistered
  BY DEF TransInit, AllRegistered, IsIn, Null, Leaf
<1>7. Kept
  BY DEF TransInit, Kept, KeptBy
<1> QED
  BY <1>2, <1>4, <1>5, <1>6, <1>7 DEF TransInv

-----------------------------------------------------------------------------
\* The frame on top, and those below it.
LEMMA FrameFacts ==
  ASSUME frames \in Seq(Frame), frames # << >>
  PROVE  /\ Cur \in Frame /\ T \in Type
         /\ Len(frames) \in DOMAIN frames
         /\ Below \in Seq(Frame) /\ Len(Below) = Len(frames) - 1
         /\ DOMAIN Below \subseteq DOMAIN frames
         /\ \A i \in DOMAIN Below : Below[i] = frames[i]
<1>1. Len(frames) \in Nat /\ Len(frames) > 0
  OBVIOUS
<1>2. DOMAIN frames = 1 .. Len(frames)
  OBVIOUS
<1>3. Len(frames) \in DOMAIN frames /\ Cur \in Frame
  BY <1>1, <1>2 DEF Cur
<1>4. T \in Type
  BY <1>3 DEF T, Frame
<1>5. /\ Below \in Seq(Frame)
      /\ Len(Below) = Len(frames) - 1
      /\ \A i \in 1 .. Len(frames) - 1 : Below[i] = frames[i]
  <2> DEFINE n == Len(frames) - 1
  <2>1. 1 \in Int /\ n \in Int /\ n \in Nat
    BY <1>1
  <2>2. \A i \in 1 .. n : frames[i] \in Frame
    BY <1>1, <1>2
  <2>3. /\ SubSeq(frames, 1, n) \in Seq(Frame)
        /\ Len(SubSeq(frames, 1, n)) = IF 1 <= n THEN n - 1 + 1 ELSE 0
        /\ \A i \in 1 .. n - 1 + 1 : SubSeq(frames, 1, n)[i] = frames[1 + i - 1]
    <3> HIDE DEF n
    <3> QED
      BY <2>1, <2>2, SubSeqProperties
  <2>4. n - 1 + 1 = n /\ \A i \in 1 .. n : 1 + i - 1 = i
    BY <2>1
  <2> QED
    BY <2>1, <2>3, <2>4 DEF Below
<1>6. DOMAIN Below = 1 .. Len(frames) - 1
  BY <1>5
<1> QED
  BY <1>1, <1>2, <1>3, <1>4, <1>5, <1>6

-----------------------------------------------------------------------------
(***************************************************************************)
(* The table.                                                              *)
(***************************************************************************)

\* Whatever the translation does, the table sees a step of its own.
LEMMA StepMaps == TransInv /\ [TransNext]_vars => [Next]_tableVars
<1> SUFFICES ASSUME TransInv, TransNext PROVE [Next]_tableVars
  BY DEF vars
<1>1. /\ TypeOK /\ frames \in Seq(Frame) /\ FramesFit
  BY DEF TransInv, TransTypeOK
<1>2. CASE Configure
  BY <1>2 DEF Configure, Next
<1>3. CASE DecideType
  <2>1. frames # << >> /\ IsWrappable(T, TRUE) /\ DetermineStrategy(T)
    BY <1>3 DEF DecideType, Unknown, Fresh, Running
  <2> QED
    BY <1>1, <2>1, FrameFacts DEF Ask, Askable, Next
<1>4. CASE DecideTarget
  <2>1. /\ frames # << >> /\ Doing("REPLACE")
        /\ KindOf(T) \in {"Pointer", "Reference", "Array"}
        /\ DetermineStrategy(Target(T))
    BY <1>4 DEF DecideTarget, Around, Replacing, Doing, Unknown, Fresh, Running
  <2>2. /\ Cur \in Frame /\ T \in Type
        /\ Len(frames) \in DOMAIN frames
    BY <1>1, <2>1, FrameFacts
  <2>3. Target(T) \in Type
    BY <1>1, <2>1, <2>2, GraphFacts DEF Targeted
  <2>4. Cur.call \in Function
    BY <2>2 DEF Frame
  <2>5. IsWrappable(T, TRUE) /\ strategy[T] = "REPLACE"
    BY <1>1, <2>1, <2>2, <2>4 DEF Doing, FramesFit, Fits, Cur, T, Function
  <2>6. ~Undecided(T)
    BY <2>5 DEF Undecided
  <2> QED
    BY <2>1, <2>2, <2>3, <2>5, <2>6 DEF Ask, Askable, Next
<1>5. ASSUME NEW t \in Type, VisitUndecided(t) PROVE Next
  <2>1. IsWrappable(t, TRUE)
    BY <1>5, RecordWrappable DEF VisitUndecided, DeclWrappable
  <2> QED
    BY <1>5, <2>1 DEF VisitUndecided, Ask, Askable, Next
<1>6. CASE Strategies
  BY <1>6 DEF Strategies, Determine, Next
<1>7. CASE UNCHANGED tableVars
  BY <1>7
<1>8. CASE Translate
  <2>1. CASE DecideType \/ DecideTarget
    BY <1>3, <1>4, <2>1
  <2>2. CASE ~(DecideType \/ DecideTarget)
    <3>1. Stays
      BY <1>8, <2>2 DEF Translate, MemoHit, FallBackToTarget, RejectUnwrappable,
         WrongStrategy, RejectClass, FailOnKind, ReturnReplacement, FailUndecided,
         RaiseReference, RejectArray, TranslateTarget, TranslateUnqualified,
         TranslatePart, FunctionEnd, ResolveTarget, RejectDeclaration,
         ResolveDeclaration, ReplaceSpecialization, TranslateArgument,
         SpecializationEnd, ReplaceBacking, TranslateBackingStruct,
         FailOnDelayed, ReturnWrapped, Return, Raise, CallFor
    <3> QED
      BY <3>1 DEF Stays
  <2> QED
    BY <2>1, <2>2
<1>9. ASSUME NEW t \in Type, AskType(t) \/ VisitDeclaration(t)
      PROVE  UNCHANGED tableVars
  BY <1>9 DEF AskType, VisitDeclaration
<1>10. CASE RetryWithoutReference
  BY <1>10 DEF RetryWithoutReference
<1> QED
  BY <1>2, <1>5, <1>6, <1>7, <1>8, <1>9, <1>10 DEF TransNext

\* Once types are translated, the program and the configuration stay.
LEMMA TableStays ==
  ASSUME IInv, NamedDecided, [Next]_tableVars, phase # "configure"
  PROVE  UNCHANGED << graph, named, configured >> /\ phase' # "configure"
<1>1. CASE Determine
  <2>1. named' = named
    BY <1>1, StepKeepsNames
  <2>2. UNCHANGED << graph, configured >> /\ phase' # "configure"
    BY <1>1 DEF Determine, ChooseReplace, ChooseForRecord, ChooseForTemplate,
       ChooseForSpecialization, Descend, RunOutOfStack, ChooseAsTarget, Reject,
       Decided, Deciding
  <2> QED
    BY <2>1, <2>2
<1> QED
  BY <1>1 DEF Next, ConfigureReplace, ConfigureStrategy, BeginTranslation,
     Ask, DetermineStrategy, tableVars

LEMMA StrategyStays ==
  ASSUME IInv, TemplatesSettled, [Next]_tableVars, phase # "configure",
         NEW t \in Type, ~Undecided(t), strategy'[t] # strategy[t]
  PROVE  KindOf(t) = "TemplateRecord" /\ ConfiguredTemplate
<1>1. CASE phase = "translate"
  BY <1>1, StepSticks DEF ConfiguredTemplate
<1>2. CASE phase # "translate"
  BY <1>2 DEF Next, ConfigureReplace, ConfigureStrategy, BeginTranslation, Ask,
     DetermineStrategy, Determine, ChooseReplace, ChooseForRecord,
     ChooseForTemplate, ChooseForSpecialization, Descend, RunOutOfStack,
     ChooseAsTarget, Reject, Deciding, tableVars
<1> QED
  BY <1>1, <1>2

LEMMA GraphStays == [Next]_tableVars => graph' = graph
  BY DEF Next, ConfigureReplace, ConfigureStrategy, BeginTranslation, Ask,
     DetermineStrategy, Determine, ChooseReplace, ChooseForRecord,
     ChooseForTemplate, ChooseForSpecialization, Descend, RunOutOfStack,
     ChooseAsTarget, Reject, Decided, tableVars

\* What is chosen for a type that is neither a record nor a specialization.
LEMMA StepChooses ==
  ASSUME IInv, Determine, NEW t \in Type, strategy'[t] # strategy[t],
         KindOf(t) \notin {"Record", "TemplateRecord", "TemplateSpecialization"}
  PROVE  /\ Undecided(t) /\ phase = "translate"
         /\ \/ /\ strategy'[t] = "REPLACE"
               /\ KindOf(t) = "Delayed" => Target(t) = NoType
            \/ /\ KindOf(t) = "Delayed"
               /\ Target(t) \in Type /\ ~Undecided(Target(t))
               /\ strategy'[t] = strategy[Target(t)]
<1>0. TypeOK /\ strategy \in [Type -> Strategy]
  BY DEF IInv, TypeOK
<1>1. t = Top /\ deciding # << >>
  BY StepDecides
<1>2. Undecided(t) /\ phase = "translate"
  <2>1. Len(deciding) \in DOMAIN deciding
    BY <1>0, <1>1, PopFacts DEF TypeOK
  <2> QED
    BY <1>1, <2>1 DEF IInv, CallsWait, Top, Determine, ChooseReplace,
       ChooseForRecord, ChooseForTemplate, ChooseForSpecialization, Descend,
       RunOutOfStack, ChooseAsTarget, Reject, Deciding
<1>3. CASE ChooseReplace
  BY <1>0, <1>1, <1>2, <1>3 DEF ChooseReplace, Choose
<1>4. CASE ChooseAsTarget
  <2>1. StandsForAnother(t) /\ ~Undecided(Target(t))
        /\ strategy'[t] = IF KindOf(t) \in {"Typedef", "Qualified"} THEN "REPLACE"
                          ELSE strategy[Target(t)]
    BY <1>0, <1>1, <1>4 DEF ChooseAsTarget, Choose
  <2>2. CASE KindOf(t) \in {"Typedef", "Qualified"}
    BY <1>2, <2>1, <2>2
  <2>3. CASE KindOf(t) = "Delayed" /\ Target(t) # NoType
    BY <1>0, <1>2, <2>1, <2>3, GraphFacts
  <2> QED
    BY <2>1, <2>2, <2>3 DEF StandsForAnother
<1> QED
  BY <1>1, <1>3, <1>4 DEF Determine, ChooseForRecord, ChooseForTemplate,
     ChooseForSpecialization, Descend, RunOutOfStack, Reject, Deciding

LEMMA NamesFollowOn ==
  ASSUME IInv, NamedDecided, TemplatesSettled, NamesFollow, [Next]_tableVars
  PROVE  NamesFollow'
<1> SUFFICES ASSUME NEW t \in Type, KindOf(t)' = "Delayed", ~Undecided(t)'
             PROVE  /\ phase' # "configure"
                    /\ \/ Target(t)' = NoType /\ strategy'[t] = "REPLACE"
                       \/ /\ Target(t)' \in Type /\ ~Undecided(Target(t))'
                          /\ strategy'[Target(t)'] # strategy'[t] =>
                               /\ KindOf(Target(t))' = "TemplateRecord"
                               /\ ConfiguredTemplate'
  BY DEF NamesFollow
<1>1. TypeOK /\ strategy \in [Type -> Strategy]
  BY DEF IInv, TypeOK
<1>2. /\ KindOf(t) = "Delayed" /\ Target(t)' = Target(t)
      /\ KindOf(Target(t))' = KindOf(Target(t))
  BY GraphStays DEF KindOf, Target
<1>3. CASE phase = "configure"
  <2>1. Undecided(t)
    BY <1>2, <1>3 DEF NamesFollow
  <2>2. ~Determine
    BY <1>3 DEF Determine, ChooseReplace, ChooseForRecord, ChooseForTemplate,
       ChooseForSpecialization, Descend, RunOutOfStack, ChooseAsTarget, Reject,
       Deciding
  <2>3. ASSUME NEW v \in Type, NEW s, Configurable(v),
               strategy' = [strategy EXCEPT ![v] = s]
        PROVE  Undecided(t)'
    BY <1>1, <1>2, <2>1, <2>3 DEF Configurable, Undecided
  <2>4. strategy' = strategy => Undecided(t)'
    BY <2>1 DEF Undecided
  <2> QED
    BY <2>2, <2>3, <2>4 DEF Next, ConfigureReplace, ConfigureStrategy,
       BeginTranslation, Ask, DetermineStrategy, tableVars
<1>4. CASE phase # "configure"
  <2>1. /\ UNCHANGED << graph, configured >> /\ phase' # "configure"
        /\ ConfiguredTemplate' <=> ConfiguredTemplate
    BY <1>4, TableStays DEF ConfiguredTemplate, KindOf
  <2>2. ASSUME NEW u \in Type, ~Undecided(u)
        PROVE  /\ strategy'[u] # "UNKNOWN"
               /\ strategy'[u] # strategy[u] =>
                    KindOf(u) = "TemplateRecord" /\ ConfiguredTemplate
    BY <1>4, <2>2, StaysDecided, StrategyStays DEF Undecided
  <2>3. CASE ~Undecided(t)
    <3>1. strategy'[t] = strategy[t]
      BY <1>2, <2>2, <2>3
    <3> QED
      BY <1>2, <2>1, <2>2, <2>3, <3>1 DEF NamesFollow, Undecided
  <2>4. CASE Undecided(t)
    <3>1. strategy'[t] # strategy[t]
      BY <2>4 DEF Undecided
    <3>2. Determine
      BY <1>4, <3>1 DEF Next, ConfigureReplace, ConfigureStrategy,
         BeginTranslation, Ask, DetermineStrategy, tableVars
    <3>3. KindOf(t) \notin {"Record", "TemplateRecord", "TemplateSpecialization"}
      BY <1>2
    <3>4. \/ strategy'[t] = "REPLACE" /\ Target(t) = NoType
          \/ /\ Target(t) \in Type /\ ~Undecided(Target(t))
             /\ strategy'[t] = strategy[Target(t)]
      BY <1>2, <3>1, <3>2, <3>3, StepChooses
    <3> QED
      BY <1>2, <2>1, <2>2, <3>4 DEF Undecided
  <2> QED
    BY <2>3, <2>4
<1> QED
  BY <1>3, <1>4

LEMMA KindsFollowOn ==
  ASSUME IInv, NamedDecided, KindsFollow, [Next]_tableVars
  PROVE  KindsFollow'
<1> DEFINE Shapely == { "Record", "TemplateRecord", "TemplateSpecialization",
                        "Delayed" }
<1> SUFFICES ASSUME NEW t \in Type, KindOf(t)' \notin Shapely,
                    strategy'[t] \in {"STRUCT", "INTERFACE", "CLASS"}
             PROVE  /\ KindOf(t)' \in {"Builtin", "Enum", "Typedef", "Union"}
                    /\ configured'[t] # "UNKNOWN"
  BY DEF KindsFollow
<1>1. /\ strategy \in [Type -> Strategy] /\ configured \in [Type -> Strategy]
      /\ KindOf(t)' = KindOf(t)
  BY GraphStays DEF IInv, TypeOK, KindOf
<1>2. ASSUME NEW v \in Type, NEW s \in Strategy \ {"UNKNOWN"}, Configurable(v),
             strategy' = [strategy EXCEPT ![v] = s],
             configured' = [configured EXCEPT ![v] = s]
      PROVE  /\ KindOf(t)' \in {"Builtin", "Enum", "Typedef", "Union"}
             /\ configured'[t] # "UNKNOWN"
  <2>1. CASE t = v
    BY <1>1, <1>2, <2>1 DEF Configurable
  <2>2. CASE t # v
    BY <1>1, <1>2, <2>2 DEF KindsFollow
  <2> QED
    BY <2>1, <2>2
<1>3. CASE Determine
  <2>1. strategy'[t] = strategy[t]
    <3>1. KindOf(t) \notin {"Record", "TemplateRecord", "TemplateSpecialization"}
          /\ KindOf(t) # "Delayed"
      BY <1>1
    <3>2. strategy'[t] # strategy[t] => strategy'[t] = "REPLACE"
      BY <1>3, <3>1, StepChooses
    <3> QED
      BY <3>2
  <2>2. configured' = configured
    BY <1>3 DEF Determine, ChooseReplace, ChooseForRecord, ChooseForTemplate,
       ChooseForSpecialization, Descend, RunOutOfStack, ChooseAsTarget, Reject,
       Decided
  <2> QED
    BY <1>1, <2>1, <2>2 DEF KindsFollow
<1>4. CASE UNCHANGED << strategy, configured >>
  BY <1>1, <1>4 DEF KindsFollow
<1> QED
  BY <1>2, <1>3, <1>4 DEF Next, ConfigureReplace, ConfigureStrategy,
     BeginTranslation, Ask, DetermineStrategy, Strategy, tableVars

LEMMA TargetsDecidedOn ==
  ASSUME IInv, NamedDecided, TargetsDecided, [Next]_tableVars
  PROVE  TargetsDecided'
<1> SUFFICES ASSUME NEW t \in Type
             PROVE  /\ KindOf(t) = "Invalid" => strategy'[t] = "UNKNOWN"
                    /\ KindOf(t) \in {"Typedef", "Qualified"} /\ strategy'[t] # "UNKNOWN" =>
                         \/ strategy'[Target(t)] # "UNKNOWN"
                         \/ KindOf(t) = "Typedef" /\ configured'[t] # "UNKNOWN"
  BY GraphStays DEF TargetsDecided, KindOf, Target, Undecided
<1>1. /\ TypeOK
      /\ strategy \in [Type -> Strategy] /\ configured \in [Type -> Strategy]
      /\ KindOf(t) \in {"Typedef", "Qualified"} => Target(t) \in Type
  BY GraphFacts DEF IInv, TypeOK, Targeted
<1>2. \A u \in Type : ~Undecided(u) => strategy'[u] # "UNKNOWN"
  BY StaysDecided DEF Undecided
<1>3. ASSUME NEW v \in Type, NEW s \in Strategy \ {"UNKNOWN"}, Configurable(v),
             strategy' = [strategy EXCEPT ![v] = s],
             configured' = [configured EXCEPT ![v] = s]
      PROVE  /\ KindOf(t) = "Invalid" => strategy'[t] = "UNKNOWN"
             /\ KindOf(t) \in {"Typedef", "Qualified"} /\ strategy'[t] # "UNKNOWN" =>
                  \/ strategy'[Target(t)] # "UNKNOWN"
                  \/ KindOf(t) = "Typedef" /\ configured'[t] # "UNKNOWN"
  <2>1. CASE t = v
    BY <1>1, <1>3, <2>1 DEF Configurable
  <2>2. CASE t # v
    <3>1. strategy'[t] = strategy[t] /\ configured'[t] = configured[t]
      BY <1>1, <1>3, <2>2
    <3> QED
      BY <1>1, <1>2, <3>1 DEF TargetsDecided, Undecided
  <2> QED
    BY <2>1, <2>2
<1>4. CASE Determine
  <2>1. configured' = configured
    BY <1>4 DEF Determine, ChooseReplace, ChooseForRecord, ChooseForTemplate,
       ChooseForSpecialization, Descend, RunOutOfStack, ChooseAsTarget, Reject,
       Decided
  <2>2. CASE strategy'[t] = strategy[t]
    BY <1>1, <1>2, <2>1, <2>2 DEF TargetsDecided, Undecided
  <2>3. CASE strategy'[t] # strategy[t]
            /\ KindOf(t) \in {"Invalid", "Typedef", "Qualified"}
    <3>1. t = Top /\ deciding # << >>
      BY <1>1, <1>4, <2>3, StepDecides
    <3>2. ChooseAsTarget
      BY <1>4, <2>3, <3>1 DEF Determine, ChooseReplace, ChooseForRecord,
         ChooseForTemplate, ChooseForSpecialization, Descend, RunOutOfStack, Reject,
         Deciding
    <3>3. StandsForAnother(t) /\ ~Undecided(Target(t))
      BY <3>1, <3>2 DEF ChooseAsTarget
    <3>4. KindOf(t) # "Invalid"
      BY <3>3 DEF StandsForAnother
    <3>5. strategy'[Target(t)] # "UNKNOWN"
      BY <1>1, <1>2, <2>3, <3>3, <3>4 DEF Undecided
    <3> QED
      BY <2>3, <3>4, <3>5
  <2> QED
    BY <2>2, <2>3
<1>5. CASE UNCHANGED << strategy, configured >>
  BY <1>5 DEF TargetsDecided, Undecided
<1> QED
  BY <1>3, <1>4, <1>5 DEF Next, ConfigureReplace, ConfigureStrategy,
     BeginTranslation, Ask, DetermineStrategy, Strategy, tableVars

-----------------------------------------------------------------------------
(***************************************************************************)
(* What isReferenceType answers, with one call more than h.                *)
(***************************************************************************)
Chained == {"Reference", "Typedef", "Qualified"}

RefAnswers(h) ==
  [ t \in Type |->
      IF KindOf(t) = "Invalid" THEN "undecided"
      ELSE IF KindOf(t) \in Chained THEN h[Target(t)]
      ELSE IF KindOf(t) \notin {"Record", "TemplateRecord"} THEN "no"
      ELSE IF Undecided(t) THEN "undecided"
      ELSE IF strategy[t] \in {"INTERFACE", "CLASS"} THEN "yes"
      ELSE "no" ]

RefAnswersFollow ==
  /\ \A t \in Type : RefAnswerIn[0][t] = "undecided"
  /\ \A n \in Nat : RefAnswerIn[n + 1] = RefAnswers(RefAnswerIn[n])

LEMMA RefAnswerIs == TypeOK => RefAnswersFollow
<1> SUFFICES ASSUME TypeOK PROVE RefAnswersFollow
  OBVIOUS
<1> DEFINE X == [Type -> {"yes", "no", "undecided"}]
           F == [h \in X |-> RefAnswers(h)]
           x == [t \in Type |-> "undecided"]
           Body(u, n) ==
             [ t \in Type |->
                 IF n = 0 \/ KindOf(t) = "Invalid" THEN "undecided"
                 ELSE IF KindOf(t) \in {"Reference", "Typedef", "Qualified"}
                        THEN u[n - 1][Target(t)]
                 ELSE IF KindOf(t) \notin {"Record", "TemplateRecord"} THEN "no"
                 ELSE IF Undecided(t) THEN "undecided"
                 ELSE IF strategy[t] \in {"INTERFACE", "CLASS"} THEN "yes"
                 ELSE "no" ]
           Is(u) == u = [n \in Nat |-> Body(u, n)]
<1>1. x \in X /\ F \in [X -> X]
  <2>1. \A t \in Type : KindOf(t) \in Chained => Target(t) \in Type
    BY GraphFacts DEF Chained, Targeted
  <2>2. \A h \in X : RefAnswers(h) \in X
    BY <2>1 DEF RefAnswers
  <2> QED
    BY <2>2
<1>2. \A u : Body(u, 0) = x
  OBVIOUS
<1>3. \A u : \A n \in Nat : n # 0 => Body(u, n) = RefAnswers(u[n - 1])
  BY DEF RefAnswers, Chained
<1>4. \A h \in X : F[h] = RefAnswers(h)
  OBVIOUS
<1> HIDE DEF X, F, x, Body
<1>5. PICK g : Recursion(g, X, F, x)
  BY <1>1, Recursive
<1>6. \A n \in Nat : g[n] = Body(g, n)
  <2> TAKE n \in Nat
  <2>1. g[n] = IF n = 0 THEN x ELSE F[g[n - 1]]
    BY <1>5 DEF Recursion
  <2>2. n # 0 => g[n - 1] \in X
    BY <1>5 DEF Recursion
  <2> QED
    BY <1>2, <1>3, <1>4, <2>1, <2>2
<1>7. Is(g)
  BY <1>5, <1>6 DEF Recursion
<1>8. RefAnswerIn = CHOOSE u : Is(u)
  BY DEF RefAnswerIn, Body
<1>9. Is(RefAnswerIn)
  <2> HIDE DEF Is
  <2> QED
    BY <1>7, <1>8
<1>10. RefAnswerIn[0] = x
  BY <1>2, <1>9
<1>11. \A n \in Nat : RefAnswerIn[n + 1] = RefAnswers(RefAnswerIn[n])
  <2> TAKE n \in Nat
  <2>1. n + 1 \in Nat /\ n + 1 # 0 /\ (n + 1) - 1 = n
    OBVIOUS
  <2> QED
    BY <1>3, <1>9, <2>1
<1> QED
  BY <1>10, <1>11 DEF x, RefAnswersFollow

LEMMA RefAnswerIsNext == TypeOK' => RefAnswersFollow'
  BY RefAnswerIs, PTL

LEMMA NumberOfTypes == IsFiniteSet(Type) /\ Cardinality(Type) \in Nat
  BY TypeTableAssumption, FS_CardinalityType

\* A type of which the answer is known keeps it, as strategies are kept.
LEMMA AnswersKept ==
  ASSUME IInv, NamedDecided, TemplatesSettled, [Next]_tableVars, phase # "configure",
         ~ConfiguredTemplate, NEW t \in Type, RefAnswer[t] # "undecided"
  PROVE  RefAnswer'[t] = RefAnswer[t]
<1> DEFINE S == { n \in Nat : \A u \in Type : RefAnswerIn[n][u] # "undecided" =>
                                  RefAnswerIn'[n][u] = RefAnswerIn[n][u] }
<1>1. RefAnswersFollow /\ RefAnswersFollow'
  BY StepInv, RefAnswerIs, RefAnswerIsNext DEF IInv
<1>2. graph' = graph
  BY GraphStays
<1>3. \A u \in Type : ~Undecided(u) => strategy'[u] = strategy[u]
  BY StrategyStays
<1>4. 0 \in S
  BY <1>1 DEF RefAnswersFollow
<1>5. ASSUME NEW n \in S PROVE n + 1 \in S
  <2>1. n \in Nat
    OBVIOUS
  <2>2. ASSUME NEW u \in Type, RefAnswerIn[n + 1][u] # "undecided"
        PROVE  RefAnswerIn'[n + 1][u] = RefAnswerIn[n + 1][u]
    <3>1. /\ RefAnswerIn[n + 1][u] = RefAnswers(RefAnswerIn[n])[u]
          /\ RefAnswerIn'[n + 1][u] = RefAnswers(RefAnswerIn[n])'[u]
      BY <1>1, <2>1 DEF RefAnswersFollow
    <3>2. CASE KindOf(u) \in Chained
      <4>1. Target(u) \in Type
        BY <3>2, GraphFacts DEF IInv, Chained, Targeted
      <4>2. /\ RefAnswerIn[n + 1][u] = RefAnswerIn[n][Target(u)]
            /\ RefAnswerIn'[n + 1][u] = RefAnswerIn'[n][Target(u)]
        BY <1>2, <3>1, <3>2 DEF RefAnswers, KindOf, Target, Chained
      <4> QED
        BY <1>5, <2>2, <4>1, <4>2
    <3>3. CASE KindOf(u) \notin Chained
      BY <1>2, <1>3, <2>2, <3>1, <3>3 DEF RefAnswers, KindOf, Undecided, Chained
    <3> QED
      BY <3>2, <3>3
  <2> QED
    BY <2>1, <2>2
<1>6. S = Nat
  <2>1. S \in SUBSET Nat
    OBVIOUS
  <2> HIDE DEF S
  <2> QED
    BY <1>4, <1>5, <2>1, Induct
<1> QED
  BY <1>6, NumberOfTypes DEF RefAnswer

(***************************************************************************)
(* A typedef or a qualified type is decided after what it stands for, and  *)
(* an invalid type never.  So if no typedef was configured, all of what a  *)
(* decided type stands for is decided, and isReferenceType has an answer.  *)
(* A reference is decided before what it refers to, but nothing points to  *)
(* references.                                                             *)
(***************************************************************************)
LEMMA DecidedAnswers ==
  ASSUME TypeOK, TargetsDecided, ~ConfiguredTypedef,
         NEW R \in SUBSET Type, ReferenceTypes(graph, R),
         NEW t \in Type \ R, ~Undecided(t)
  PROVE  RefAnswer[t] # "undecided"
<1> DEFINE V == SUBSET Type
           Reach(X) == { u \in Type : KindOf(u) \in {"Typedef", "Qualified"} =>
                                       Target(u) \in X }
           F == [X \in V |-> Reach(X)]
<1>0. \A u \in Type : KindOf(u) \in {"Typedef", "Qualified"} => Target(u) \in Type
  BY GraphFacts DEF Targeted
<1>1. {} \in V /\ F \in [V -> V] /\ \A X \in V : F[X] = Reach(X)
  OBVIOUS
<1>2. PICK s : Iteration(s, V, F, {})
  <2> HIDE DEF V, F
  <2> QED
    BY <1>1, Iterates
<1>3. /\ s \in [Nat -> V] /\ s[0] = {}
      /\ \A n \in Nat : s[n + 1] = Reach(s[n])
  BY <1>1, <1>2 DEF Iteration
<1> DEFINE N == Cardinality(Type)
           Left == Type \ s[N]
<1>4. s[N] \subseteq Type /\ Left = {}
  <2>1. Chain(s, Type, F)
    <3>1. \A X, Y \in V : X \subseteq Y => F[X] \subseteq F[Y]
      OBVIOUS
    <3>2. \A n \in Nat : s[n + 1] = F[s[n]]
      BY <1>2 DEF Iteration
    <3> QED
      BY <1>1, <1>3, <3>1, <3>2 DEF Chain
  <2>2. F[s[N]] = s[N] /\ s[N] \in V
    BY <1>3, <2>1, NumberOfTypes, ChainSettles
  <2>3. Reach(s[N]) = s[N]
    BY <1>1, <2>2
  <2>4. \A u \in Left : KindOf(u) \in {"Typedef", "Qualified"} /\ Target(u) \in Left
    BY <1>0, <2>3
  <2>5. WellFormed(graph)
    BY TypeTableAssumption DEF TypeOK
  <2>6. Left = {}
    <3>1. Left \subseteq Type
      OBVIOUS
    <3> HIDE DEF Left
    <3> QED
      BY <2>4, <2>5, <3>1 DEF WellFormed, KindOf, Target
  <2> QED
    BY <2>2, <2>6
<1> DEFINE S == { n \in Nat : \A u \in s[n] \ R :
                    ~Undecided(u) => RefAnswerIn[n][u] # "undecided" }
<1> HIDE DEF V, F
<1>5. 0 \in S
  BY <1>3
<1>6. ASSUME NEW n \in S PROVE n + 1 \in S
  <2>1. n \in Nat
    OBVIOUS
  <2>2. ASSUME NEW u \in s[n + 1] \ R, ~Undecided(u)
        PROVE  RefAnswerIn[n + 1][u] # "undecided"
    <3>1. u \in Type /\ (KindOf(u) \in {"Typedef", "Qualified"} => Target(u) \in s[n])
      BY <1>3, <2>1, <2>2
    <3>2. RefAnswerIn[n + 1][u] = RefAnswers(RefAnswerIn[n])[u]
      BY <2>1, RefAnswerIs DEF RefAnswersFollow
    <3>3. KindOf(u) # "Invalid" /\ KindOf(u) # "Reference"
      BY <2>2, <3>1 DEF TargetsDecided, ReferenceTypes, KindOf
    <3>4. CASE KindOf(u) \in {"Typedef", "Qualified"}
      <4>1. ~Undecided(Target(u))
        BY <2>2, <3>1, <3>4 DEF TargetsDecided, ConfiguredTypedef
      <4>2. Target(u) \notin R
        BY <2>2, <3>1, <3>4 DEF ReferenceTypes, KindOf, Target
      <4>3. RefAnswerIn[n][Target(u)] # "undecided"
        BY <1>6, <3>1, <3>4, <4>1, <4>2
      <4> QED
        BY <3>1, <3>2, <3>4, <4>3 DEF RefAnswers, Chained
    <3>5. CASE KindOf(u) \notin {"Typedef", "Qualified"}
      BY <2>2, <3>1, <3>2, <3>3, <3>5 DEF RefAnswers, Chained
    <3> QED
      BY <3>4, <3>5
  <2> QED
    BY <2>1, <2>2
<1>7. S = Nat
  <2>1. S \in SUBSET Nat
    OBVIOUS
  <2> HIDE DEF S
  <2> QED
    BY <1>5, <1>6, <2>1, Induct
<1> QED
  BY <1>4, <1>7, NumberOfTypes DEF RefAnswer

-----------------------------------------------------------------------------
(***************************************************************************)
(* How many pointers there are between a type and leaf, with one step more *)
(* than h.                                                                 *)
(***************************************************************************)
PointersOnce(h) ==
  [ leaf \in Type |-> [ t \in Type |->
      IF t = leaf \/ Target(t) = NoType THEN 0
      ELSE h[leaf][Target(t)] + (IF IsIndirection(t) THEN 1 ELSE 0) ] ]

LEMMA PointersInIs ==
  ASSUME TypeOK
  PROVE  /\ PointersIn \in [Nat -> [Type -> [Type -> Nat]]]
         /\ \A n \in Nat : PointersIn[n + 1] = PointersOnce(PointersIn[n])
<1> DEFINE X == [Type -> [Type -> Nat]]
           F == [h \in X |-> PointersOnce(h)]
           x == [leaf \in Type |-> [t \in Type |-> 0]]
           Body(u, n) ==
             [ leaf \in Type |-> [ t \in Type |->
                 IF n = 0 \/ t = leaf \/ Target(t) = NoType THEN 0
                 ELSE u[n - 1][leaf][Target(t)]
                        + (IF IsIndirection(t) THEN 1 ELSE 0) ] ]
           Is(u) == u = [n \in Nat |-> Body(u, n)]
<1>1. x \in X /\ F \in [X -> X]
  <2>1. \A t \in Type : Target(t) # NoType => Target(t) \in Type
    BY GraphFacts
  <2>2. \A h \in X : PointersOnce(h) \in X
    <3> TAKE h \in X
    <3>1. ASSUME NEW leaf \in Type, NEW t \in Type
          PROVE  (IF t = leaf \/ Target(t) = NoType THEN 0
                  ELSE h[leaf][Target(t)] + (IF IsIndirection(t) THEN 1 ELSE 0))
                    \in Nat
      <4>1. CASE t = leaf \/ Target(t) = NoType
        BY <4>1
      <4>2. CASE ~(t = leaf \/ Target(t) = NoType)
        <5>1. h[leaf][Target(t)] \in Nat
          BY <2>1, <4>2
        <5>2. (IF IsIndirection(t) THEN 1 ELSE 0) \in {0, 1}
          OBVIOUS
        <5> QED
          BY <4>2, <5>1, <5>2
      <4> QED
        BY <4>1, <4>2
    <3> QED
      BY <3>1 DEF PointersOnce
  <2> QED
    BY <2>2
<1>2. \A u : Body(u, 0) = x
  OBVIOUS
<1>3. \A u : \A n \in Nat : n # 0 => Body(u, n) = PointersOnce(u[n - 1])
  BY DEF PointersOnce
<1>4. \A h \in X : F[h] = PointersOnce(h)
  OBVIOUS
<1> HIDE DEF X, F, x, Body
<1>5. PICK g : Recursion(g, X, F, x)
  BY <1>1, Recursive
<1>6. \A n \in Nat : g[n] = Body(g, n)
  <2> TAKE n \in Nat
  <2>1. g[n] = IF n = 0 THEN x ELSE F[g[n - 1]]
    BY <1>5 DEF Recursion
  <2>2. n # 0 => g[n - 1] \in X
    BY <1>5 DEF Recursion
  <2> QED
    BY <1>2, <1>3, <1>4, <2>1, <2>2
<1>7. Is(g)
  BY <1>5, <1>6 DEF Recursion
<1>8. PointersIn = CHOOSE u : Is(u)
  BY DEF PointersIn, Body
<1>9. Is(PointersIn)
  <2> HIDE DEF Is
  <2> QED
    BY <1>7, <1>8
<1>10. \A n \in Nat : PointersIn[n + 1] = PointersOnce(PointersIn[n])
  <2> TAKE n \in Nat
  <2>1. n + 1 \in Nat /\ n + 1 # 0 /\ (n + 1) - 1 = n
    OBVIOUS
  <2> QED
    BY <1>3, <1>9, <2>1
<1>11. PointersIn \in [Nat -> X]
  <2> DEFINE S == { n \in Nat : PointersIn[n] \in X }
  <2>1. 0 \in S
    BY <1>1, <1>2, <1>9
  <2>2. ASSUME NEW n \in S PROVE n + 1 \in S
    BY <1>1, <1>4, <1>10, <2>2
  <2>3. S = Nat
    <3>1. S \in SUBSET Nat
      OBVIOUS
    <3> HIDE DEF S
    <3> QED
      BY <2>1, <2>2, <3>1, Induct
  <2>4. PointersIn = [n \in Nat |-> Body(PointersIn, n)]
    BY <1>9
  <2> HIDE DEF Is
  <2> QED
    BY <2>3, <2>4
<1> QED
  BY <1>10, <1>11 DEF X
-----------------------------------------------------------------------------
(***************************************************************************)
(* What a step of the translation does: it raises, it calls, it returns,   *)
(* or it asks the table; and it may give a declaration a node.             *)
(***************************************************************************)
Suits(nodes, u) ==
  /\ strategy[u] # "UNKNOWN"
  /\ nodes[u] = "interface" <=> strategy[u] = "INTERFACE"

\* Nodes stay, and a new one is of the strategy there is.
Registers ==
  /\ registered' \in [Type -> Class]
  /\ \A u \in Type :
       /\ registered[u] # "null" => registered'[u] = registered[u]
       /\ registered'[u] \in {"struct", "interface"} =>
            registered'[u] = registered[u] \/ Suits(registered', u)

How == {"ref", "rejected"} \cup Abort

\* The failures that a configuration is to blame for.
Blames(how) ==
  /\ how = "wrong strategy" => ConfiguredTemplate
  /\ how = "error" => Misconfigured
  /\ how = "undecided" => ConfiguredTypedef

Raises ==
  \E how \in How :
    Unwind(how) /\ UNCHANGED << memo, registered >> /\ Stays /\ Blames(how)

\* The next call is for what the type of this one stands for.
Onward(t, w) ==
  KindOf(T) \notin Plain =>
    /\ t = Target(T) /\ Passes(T) /\ Firm(T)
    /\ w = "pointer" <=> IsIndirection(T)

\* What is returned is as far from its leaf as the type that it is for.
Gives(d) ==
  \/ d = memo[T] /\ memo[T] # Null
  \/ d.wraps = << >> /\ d.of = T /\ ~Passes(T)
  \/ /\ d.wraps = << >> /\ d.of = Target(T)
     /\ KindOf(T) = "TemplateSpecialization"
     /\ Target(T) \in Type /\ KindOf(Target(T)) = "TemplateRecord"
  \/ d = Wrap(Cur.wrap, result) /\ result # Null /\ KindOf(T) \notin Plain

Calls ==
  \E f \in Function, t \in Type, const \in BOOLEAN,
     w \in {"none", "const", "pointer", "array"} :
    CallFor(f, t, const, w) /\ Fits(f, t) /\ Onward(t, w) /\ Registers

CallsInstead ==
  \E t \in Type, const \in BOOLEAN :
    /\ t = Target(T) /\ KindOf(T) = "Typedef" /\ ~IsWrappable(T, TRUE)
    /\ result = Null
    /\ frames' = Append(Below, Call("translateType", t, const))
    /\ UNCHANGED << memo, registered, result, outcome >>
    /\ Stays

Returns ==
  \E d \in DType : Return(d) /\ Gives(d) /\ Registers /\ IsIn(registered', d)

AsksTable == UNCHANGED transVars

Declared == { "Typedef", "Enum", "Union", "TemplateArgument", "Record",
              "TemplateRecord" }

LEMMA NodeClassType ==
  ASSUME TransTypeOK, NEW u \in Type, KindOf(u) \in Declared
  PROVE  /\ NodeClass(u) \in Class
         /\ registered[u] # "null" => NodeClass(u) = registered[u]
         /\ registered[u] = "null" /\ NodeClass(u) \in {"struct", "interface"} =>
              /\ strategy[u] # "UNKNOWN"
              /\ NodeClass(u) = "interface" <=> strategy[u] = "INTERFACE"
<1>1. registered[u] \in Class
  BY DEF TransTypeOK
<1>2. CASE registered[u] # "null"
  BY <1>1, <1>2 DEF NodeClass
<1>3. CASE registered[u] = "null" /\ KindOf(u) \notin {"Record", "TemplateRecord"}
  <2>1. NodeClass(u) \in {"alias", "enum", "union", "argument"}
    BY <1>3 DEF NodeClass, Declared
  <2> QED
    BY <1>3, <2>1 DEF Class
<1>4. CASE registered[u] = "null" /\ KindOf(u) \in {"Record", "TemplateRecord"}
  <2>1. /\ NodeClass(u) \in {"struct", "interface", "null", "replaced"}
        /\ NodeClass(u) \in {"struct", "interface"} => strategy[u] # "UNKNOWN"
        /\ NodeClass(u) \in {"struct", "interface"} =>
             (NodeClass(u) = "interface" <=> strategy[u] = "INTERFACE")
    BY <1>4 DEF NodeClass
  <2> QED
    BY <1>4, <2>1 DEF Class
<1> QED
  BY <1>2, <1>3, <1>4

LEMMA StartRegisters ==
  ASSUME TransTypeOK, NEW u \in Type, KindOf(u) \in Declared,
         StartDeclTypeBuild(u)
  PROVE  /\ Registers
         /\ NodeClass(u) \in {"struct", "interface"} =>
              registered'[u] = NodeClass(u)
<1>1. registered \in [Type -> Class]
  BY DEF TransTypeOK
<1> QED
  BY <1>1, NodeClassType DEF StartDeclTypeBuild, Registers, Suits

LEMMA SameRegisters ==
  ASSUME TransTypeOK, UNCHANGED registered
  PROVE  Registers
  BY DEF Registers, TransTypeOK

LEMMA LeafType == \A class \in Class, t \in Type : Leaf(class, t) \in DType
  BY DEF Leaf, DType

LEMMA WrapType ==
  ASSUME NEW w \in {"none", "const", "pointer", "array"}, NEW d \in DType
  PROVE  /\ Wrap(w, d) \in DType
         /\ Wrap(w, d).class = d.class /\ Wrap(w, d).of = d.of
<1> DEFINE W == {"const", "pointer", "array"}
<1>1. d.wraps \in Seq(W) /\ d.class \in Class /\ d.of \in Type \cup {NoType}
  BY DEF DType
<1>2. CASE w = "none"
  BY <1>2 DEF Wrap
<1>3. CASE w # "none"
  <2>1. << w >> \in Seq(W)
    BY <1>3
  <2>2. << w >> \o d.wraps \in Seq(W)
    <3> HIDE DEF W
    <3> QED
      BY <1>1, <2>1
  <2>3. Wrap(w, d) = [wraps |-> << w >> \o d.wraps, class |-> d.class, of |-> d.of]
    BY <1>3 DEF Wrap, DType
  <2> QED
    BY <1>1, <2>2, <2>3 DEF DType
<1> QED
  BY <1>2, <1>3

\* What is known of a frame that runs.
LEMMA RunFacts ==
  ASSUME TransInv, Running
  PROVE  /\ frames # << >> /\ Cur \in Frame /\ T \in Type
         /\ Cur.call \in Function /\ Cur.const \in BOOLEAN /\ Cur.next \in Nat
         /\ Cur.wrap \in {"none", "const", "pointer", "array"}
         /\ Fits(Cur.call, T)
         /\ memo[T] \in DType /\ result \in DType
         /\ graph.args[T] \in Seq(Type)
         /\ KindOf(T) \in Targeted => Target(T) \in Type
         /\ Target(T) # NoType => Target(T) \in Type
         /\ TypeOK /\ TransTypeOK
<1>1. /\ TypeOK /\ TransTypeOK /\ frames \in Seq(Frame) /\ FramesFit
      /\ frames # << >>
  BY DEF TransInv, TransTypeOK, Running
<1>2. Cur \in Frame /\ T \in Type /\ Len(frames) \in DOMAIN frames
  BY <1>1, FrameFacts
<1>3. Fits(Cur.call, T)
  BY <1>1, <1>2 DEF FramesFit, Cur, T
<1>4. memo[T] \in DType /\ result \in DType
  BY <1>1, <1>2 DEF TransTypeOK
<1>5. /\ graph.args[T] \in Seq(Type)
      /\ KindOf(T) \in Targeted => Target(T) \in Type
      /\ Target(T) # NoType => Target(T) \in Type
  BY <1>1, <1>2, GraphFacts
<1> QED
  BY <1>1, <1>2, <1>3, <1>4, <1>5 DEF Frame

LEMMA RaiseShape ==
  ASSUME TransInv, Running,
         \/ RejectUnwrappable \/ WrongStrategy \/ RejectClass \/ FailOnKind
         \/ FailUndecided \/ RaiseReference \/ RejectArray \/ RejectDeclaration
         \/ FailOnDelayed
  PROVE  Raises
<1>1. ASSUME NEW how \in How, Raise(how), Blames(how) PROVE Raises
  BY <1>1 DEF Raises, Raise
<1>2. CASE WrongStrategy
  <2>1. Cur.call = "replaceType" /\ strategy[T] # "REPLACE" /\ Raise("wrong strategy")
    BY <1>2 DEF WrongStrategy
  <2>2. Blames("wrong strategy")
    BY <2>1, RunFacts DEF Fits, Blames
  <2> QED
    BY <1>1, <2>1, <2>2 DEF How, Abort
<1>3. CASE FailOnKind
  <2>1. /\ Raise("error")
        /\ KindOf(T) \notin { "Record", "TemplateRecord", "TemplateSpecialization",
                              "Delayed" }
        /\ Doing("STRUCT") \/ Doing("INTERFACE")
    BY <1>3 DEF FailOnKind
  <2>2. Cur.call \in Function /\ Fits(Cur.call, T) /\ T \in Type
    BY RunFacts
  <2>3. strategy[T] \in {"STRUCT", "INTERFACE"}
    BY <2>1, <2>2 DEF Doing, Fits, Function
  <2>4. Misconfigured
    BY <2>1, <2>2, <2>3 DEF TransInv, KindsFollow, Misconfigured
  <2> QED
    BY <1>1, <2>1, <2>4 DEF How, Abort, Blames
<1>4. CASE FailUndecided
  <2>1. /\ Raise("undecided")
        /\ KindOf(T) \in {"Pointer", "Reference", "Array"}
        /\ ~Undecided(Target(T)) /\ RefAnswer[Target(T)] = "undecided"
    BY <1>4 DEF FailUndecided, Around, Replacing
  <2>2. TypeOK /\ TargetsDecided /\ T \in Type /\ Target(T) \in Type
    BY <2>1, RunFacts DEF TransInv, Targeted
  <2>3. PICK R \in SUBSET Type : ReferenceTypes(graph, R)
    BY <2>2, TypeTableAssumption DEF TypeOK, WellFormed
  <2>4. Target(T) \notin R
    BY <2>1, <2>2, <2>3 DEF ReferenceTypes, KindOf, Target
  <2>5. ConfiguredTypedef
    BY <2>1, <2>2, <2>3, <2>4, DecidedAnswers
  <2> QED
    BY <1>1, <2>1, <2>5 DEF How, Abort, Blames
<1>5. CASE \/ RejectUnwrappable \/ RejectClass \/ RaiseReference
           \/ RejectArray \/ RejectDeclaration \/ FailOnDelayed
  <2>1. PICK how \in How \ {"error", "wrong strategy", "undecided"} : Raise(how)
    BY <1>5 DEF How, Abort, RejectUnwrappable, RejectClass,
       RaiseReference, RejectArray, RejectDeclaration, FailOnDelayed
  <2> QED
    BY <1>1, <2>1 DEF Blames
<1> QED
  BY <1>2, <1>3, <1>4, <1>5

\* A part of a function, or an argument of a specialization, is a type.
LEMMA NextArgument ==
  ASSUME TransInv, Running, Cur.next < Len(graph.args[T])
  PROVE  graph.args[T][Cur.next + 1] \in Type
<1> DEFINE n == Cur.next
           a == graph.args[T]
<1>1. n \in Nat /\ n < Len(a) /\ a \in Seq(Type)
  BY RunFacts
<1> HIDE DEF n, a
<1>2. n + 1 \in 1 .. Len(a)
  BY <1>1
<1>3. a[n + 1] \in Type
  BY <1>1, <1>2
<1> QED
  BY <1>3 DEF n, a

\* The node of the template of a specialization.
LEMMA TemplateRegisters ==
  ASSUME TransInv, Running, KindOf(T) = "TemplateSpecialization", StartTemplate
  PROVE  Registers
<1>1. TypeOK /\ TransTypeOK /\ T \in Type /\ Target(T) \in Type
  BY RunFacts DEF Targeted
<1>2. CASE Has(T, "alias")
  BY <1>1, <1>2, SameRegisters DEF StartTemplate
<1>3. CASE ~Has(T, "alias")
  <2>1. KindOf(Target(T)) \in Declared
    BY <1>1, <1>3, GraphFacts DEF Declared
  <2> QED
    BY <1>1, <1>3, <2>1, StartRegisters DEF StartTemplate
<1> QED
  BY <1>2, <1>3

LEMMA CallShape ==
  ASSUME TransInv, Running,
         \/ TranslateTarget \/ TranslateUnqualified \/ TranslatePart
         \/ ResolveTarget \/ TranslateArgument \/ ReplaceBacking
         \/ TranslateBackingStruct
  PROVE  Calls
<1>0. /\ TransTypeOK /\ TypeOK /\ T \in Type /\ Cur.const \in BOOLEAN
      /\ Cur.call \in Function
      /\ KindOf(T) \in Targeted => Target(T) \in Type
      /\ Target(T) # NoType => Target(T) \in Type
      /\ Fits(Cur.call, T)
  BY RunFacts
<1>1. ASSUME NEW t \in Type, NEW const \in BOOLEAN,
             NEW w \in {"none", "const", "pointer", "array"},
             CallFor("translateType", t, const, w), Onward(t, w), Registers
      PROVE  Calls
  <2>1. Fits("translateType", t) /\ "translateType" \in Function
    BY DEF Fits, Function
  <2> QED
    BY <1>1, <2>1 DEF Calls
<1>2. UNCHANGED registered => Registers
  BY <1>0, SameRegisters
<1>3. CASE TranslateTarget
  <2>1. KindOf(T) \in {"Pointer", "Reference", "Array"}
    BY <1>3 DEF TranslateTarget
  <2>2. Target(T) \in Type
    BY <1>0, <2>1 DEF Targeted
  <2>3. Passes(T) /\ Firm(T)
    BY <1>3, <2>1 DEF TranslateTarget, Passes, Firm
  <2>4. \E w \in {"none", "const", "pointer", "array"} :
          /\ CallFor("translateType", Target(T), Cur.const, w)
          /\ w = "pointer" <=> IsIndirection(T)
    BY <1>3, <2>1 DEF TranslateTarget, IsIndirection, Absorbed
  <2>5. \E w \in {"none", "const", "pointer", "array"} :
          CallFor("translateType", Target(T), Cur.const, w) /\ Onward(Target(T), w)
    BY <2>3, <2>4 DEF Onward
  <2> QED
    BY <1>0, <1>1, <1>2, <1>3, <2>2, <2>5 DEF TranslateTarget
<1>4. CASE TranslateUnqualified
  <2>1. KindOf(T) = "Qualified"
    BY <1>4 DEF TranslateUnqualified, Replacing
  <2>2. Target(T) \in Type
    BY <1>0, <2>1 DEF Targeted
  <2>3. \E w \in {"none", "const", "pointer", "array"} :
          CallFor("translateType", Target(T), TRUE, w) /\ Onward(Target(T), w)
    BY <1>4, <2>1 DEF TranslateUnqualified, Onward, Passes, Firm, IsIndirection
  <2> QED
    BY <1>1, <1>2, <1>4, <2>2, <2>3 DEF TranslateUnqualified
<1>5. CASE TranslatePart
  <2>1. graph.args[T][Cur.next + 1] \in Type
    BY <1>5, NextArgument DEF TranslatePart
  <2>2. Onward(graph.args[T][Cur.next + 1], "none")
    BY <1>5 DEF TranslatePart, Replacing, Onward, Plain
  <2> QED
    BY <1>1, <1>2, <1>5, <2>1, <2>2 DEF TranslatePart
<1>6. CASE ResolveTarget
  <2>1. Target(T) \in Type
    BY <1>0, <1>6 DEF ResolveTarget, Targeted
  <2>2. Onward(Target(T), "none")
    BY <1>6 DEF ResolveTarget, Resolving, Replacing, Onward, Passes, Firm,
       IsIndirection
  <2> QED
    BY <1>0, <1>1, <1>2, <1>6, <2>1, <2>2 DEF ResolveTarget
<1>7. CASE TranslateArgument
  <2>1. graph.args[T][Cur.next + 1] \in Type
    BY <1>7, NextArgument DEF TranslateArgument
  <2>2. KindOf(T) = "TemplateSpecialization"
    BY <1>7 DEF TranslateArgument, Specializing
  <2>3. Registers
    BY <1>2, <1>7, <2>2, TemplateRegisters DEF TranslateArgument
  <2>4. Onward(graph.args[T][Cur.next + 1], "none")
    BY <2>2 DEF Onward, Plain
  <2> QED
    BY <1>1, <1>7, <2>1, <2>3, <2>4 DEF TranslateArgument
<1>8. CASE ReplaceBacking
  <2>1. /\ Target(T) \in Type /\ KindOf(T) = "Delayed" /\ Doing("REPLACE")
        /\ CallFor("replaceType", Target(T), Cur.const, "none")
        /\ Registers
    BY <1>0, <1>2, <1>8 DEF ReplaceBacking, Replacing
  <2>2. IsWrappable(T, TRUE) /\ strategy[T] = "REPLACE"
    BY <1>0, <2>1 DEF Doing, Fits, Function
  <2>3. IsWrappable(Target(T), TRUE)
    BY <1>0, <2>1, <2>2, BackingWrappable
  <2>4. strategy[Target(T)] = "REPLACE" \/ ConfiguredTemplate
    BY <1>0, <2>1, <2>2, TypeTableAssumption DEF TransInv, NamesFollow, Undecided
  <2>5. Fits("replaceType", Target(T)) /\ "replaceType" \in Function
    BY <2>3, <2>4 DEF Fits, Function
  <2>6. Onward(Target(T), "none")
    BY <2>1 DEF Onward, Passes, Firm, IsIndirection
  <2> QED
    BY <1>0, <2>1, <2>5, <2>6 DEF Calls
<1>9. CASE TranslateBackingStruct
  <2>1. /\ KindOf(T) = "Delayed" /\ Doing("STRUCT")
        /\ CallFor("translateStruct", Target(T), Cur.const, "none")
        /\ Registers
    BY <1>2, <1>9 DEF TranslateBackingStruct
  <2>2. strategy[T] = "STRUCT"
    BY <1>0, <2>1 DEF Doing, Fits, Function
  <2>3. /\ Target(T) \in Type
        /\ strategy[Target(T)] = "STRUCT" \/ KindOf(Target(T)) = "TemplateRecord"
    BY <1>0, <2>1, <2>2 DEF TransInv, NamesFollow, Undecided
  <2>4. Fits("translateStruct", Target(T)) /\ "translateStruct" \in Function
    BY <2>3 DEF Fits, Function
  <2>5. Onward(Target(T), "none")
    BY <2>1 DEF Onward, Passes, Firm, IsIndirection
  <2> QED
    BY <1>0, <2>1, <2>3, <2>4, <2>5 DEF Calls
<1> QED
  BY <1>3, <1>4, <1>5, <1>6, <1>7, <1>8, <1>9

LEMMA ReturnShape ==
  ASSUME TransInv, Running,
         \/ MemoHit \/ ReturnReplacement \/ FunctionEnd \/ ResolveDeclaration
         \/ ReplaceSpecialization \/ SpecializationEnd("STRUCT")
         \/ SpecializationEnd("INTERFACE") \/ ReturnWrapped
  PROVE  Returns
<1>0. /\ TransTypeOK /\ TypeOK /\ T \in Type
      /\ memo[T] \in DType /\ result \in DType
      /\ Cur.wrap \in {"none", "const", "pointer", "array"}
      /\ KindOf(T) \in Targeted => Target(T) \in Type
  BY RunFacts
<1>1. UNCHANGED registered => Registers
  BY <1>0, SameRegisters
<1>2. ASSUME NEW class \in Class \ {"struct", "interface"}, NEW t \in Type,
             Return(Leaf(class, t)), Gives(Leaf(class, t)), Registers
      PROVE  Returns
  <2>1. Leaf(class, t) \in DType
    BY LeafType
  <2>2. IsIn(registered', Leaf(class, t))
    BY DEF IsIn, Leaf
  <2> QED
    BY <1>2, <2>1, <2>2 DEF Returns
<1>3. ASSUME NEW t \in Type, KindOf(t) \in Declared,
             Return(Leaf(NodeClass(t), t)), Gives(Leaf(NodeClass(t), t)),
             StartDeclTypeBuild(t)
      PROVE  Returns
  <2>1. Leaf(NodeClass(t), t) \in DType
    BY <1>0, <1>3, NodeClassType, LeafType
  <2>2. Registers /\ (NodeClass(t) \in {"struct", "interface"} =>
                        registered'[t] = NodeClass(t))
    BY <1>0, <1>3, StartRegisters
  <2>3. IsIn(registered', Leaf(NodeClass(t), t))
    BY <2>2 DEF IsIn, Leaf
  <2> QED
    BY <1>3, <2>1, <2>2, <2>3 DEF Returns
<1>a. \A class : ~Passes(T) => Gives(Leaf(class, T))
  BY DEF Gives, Leaf
<1>b. KindOf(T) \in Plain => ~Passes(T)
  BY DEF Passes, Plain
<1>4. CASE MemoHit
  <2>1. Return(memo[T])
    <3>1. memo = IF Remembers THEN [memo EXCEPT ![T] = memo[T]] ELSE memo
      BY <1>0 DEF TransTypeOK
    <3> QED
      BY <1>4, <3>1 DEF MemoHit, Return
  <2>2. Registers
    BY <1>1, <1>4 DEF MemoHit
  <2>3. IsIn(registered', memo[T])
    BY <1>0, <1>4 DEF MemoHit, TransInv, AllRegistered
  <2>4. Gives(memo[T])
    BY <1>4 DEF MemoHit, Gives
  <2> QED
    BY <1>0, <2>1, <2>2, <2>3, <2>4 DEF Returns
<1>5. CASE ReturnReplacement
  <2>1. T \in named /\ Doing("REPLACE")
    BY <1>5 DEF ReturnReplacement
  <2>2. IsWrappable(T, TRUE)
    BY <1>0, <2>1, RunFacts DEF Doing, Fits, Function
  <2>3. ~Passes(T)
    BY <2>1, <2>2 DEF TransInv, NamedKinds, Passes
  <2> QED
    BY <1>0, <1>1, <1>2, <1>5, <1>a, <2>3 DEF ReturnReplacement, Class
<1>6. CASE FunctionEnd
  <2>1. ~Passes(T)
    BY <1>6, <1>b DEF FunctionEnd, Plain
  <2> QED
    BY <1>0, <1>1, <1>2, <1>6, <1>a, <2>1 DEF FunctionEnd, Class
<1>7. CASE ResolveDeclaration
  <2>1. KindOf(T) \in Declared
    BY <1>7 DEF ResolveDeclaration, Resolving, Replacing, Declared
  <2>2. KindOf(T) = "Typedef" => IsWrappable(T, TRUE)
    BY <1>0, <1>7, RunFacts DEF ResolveDeclaration, Resolving, Replacing, Doing, Fits,
       Function
  <2>3. ~Passes(T)
    BY <1>7, <2>1, <2>2 DEF ResolveDeclaration, Passes, Declared
  <2> QED
    BY <1>0, <1>3, <1>7, <1>a, <2>1, <2>3 DEF ResolveDeclaration
<1>8. CASE ReplaceSpecialization
  <2>1. KindOf(T) = "TemplateSpecialization" /\ Target(T) \in Type
    BY <1>0, <1>8 DEF ReplaceSpecialization, Replacing, Targeted
  <2>2. CASE Has(T, "alias")
    <3>1. Gives(Leaf("alias", T))
      BY <1>a, <1>b, <2>1 DEF Plain
    <3> QED
      BY <1>0, <1>1, <1>2, <1>8, <2>2, <3>1
         DEF ReplaceSpecialization, StartTemplate, Class
  <2>3. CASE ~Has(T, "alias")
    <3>1. KindOf(Target(T)) = "TemplateRecord"
      BY <1>0, <2>1, <2>3, GraphFacts
    <3>2. Gives(Leaf(NodeClass(Target(T)), Target(T)))
      BY <2>1, <3>1 DEF Gives, Leaf
    <3>3. KindOf(Target(T)) \in Declared
      BY <3>1 DEF Declared
    <3> QED
      BY <1>3, <1>8, <2>1, <2>3, <3>2, <3>3 DEF ReplaceSpecialization, StartTemplate
  <2> QED
    BY <2>2, <2>3
<1>9. ASSUME NEW s, SpecializationEnd(s) PROVE Returns
  <2>1. KindOf(T) = "TemplateSpecialization"
    BY <1>9 DEF SpecializationEnd, Specializing
  <2>2. Registers
    BY <1>1, <1>9, <2>1, TemplateRegisters DEF SpecializationEnd
  <2>3. PICK class \in {"specialized struct", "specialized interface"} :
          Return(Leaf(class, T))
    BY <1>9 DEF SpecializationEnd, SpecializedAs
  <2>4. class \in Class \ {"struct", "interface"}
    BY DEF Class
  <2>5. Gives(Leaf(class, T))
    BY <1>a, <1>b, <2>1 DEF Plain
  <2> QED
    BY <1>0, <1>2, <2>2, <2>3, <2>4, <2>5
<1>10. CASE ReturnWrapped
  <2> DEFINE d == Wrap(Cur.wrap, result)
  <2>1. d \in DType /\ d.class = result.class /\ d.of = result.of
    BY <1>0, WrapType
  <2>2. Return(d) /\ Registers /\ registered' = registered
    BY <1>1, <1>10 DEF ReturnWrapped
  <2>3. IsIn(registered', result)
    BY <2>2 DEF TransInv, AllRegistered
  <2>5. Gives(d)
    BY <1>10 DEF ReturnWrapped, Received, Gives, Plain
  <2> HIDE DEF d
  <2>4. IsIn(registered', d)
    BY <2>1, <2>3 DEF IsIn
  <2> QED
    BY <2>1, <2>2, <2>4, <2>5 DEF Returns
<1> QED
  BY <1>4, <1>5, <1>6, <1>7, <1>8, <1>9, <1>10

LEMMA Shape ==
  ASSUME TransInv, Translate
  PROVE  Running /\ (Raises \/ Calls \/ CallsInstead \/ Returns \/ AsksTable)
<1>1. Running
  BY DEF Translate, MemoHit, FallBackToTarget, RejectUnwrappable, DecideType,
     WrongStrategy, RejectClass, FailOnKind, ReturnReplacement, DecideTarget,
     FailUndecided, RaiseReference, RejectArray, TranslateTarget,
     TranslateUnqualified, TranslatePart, FunctionEnd, ResolveTarget,
     RejectDeclaration, ResolveDeclaration, ReplaceSpecialization,
     TranslateArgument, SpecializationEnd, ReplaceBacking,
     TranslateBackingStruct, FailOnDelayed, ReturnWrapped, Specializing,
     Resolving, Around, Replacing, Doing, Unknown, Fresh, Received
<1>2. FallBackToTarget => CallsInstead
  <2> SUFFICES ASSUME FallBackToTarget PROVE CallsInstead
    OBVIOUS
  <2>1. Target(T) \in Type /\ Cur.const \in BOOLEAN
    BY <1>1, RunFacts DEF FallBackToTarget, Targeted
  <2> QED
    BY <2>1 DEF FallBackToTarget, CallsInstead, Unknown, Fresh
<1>3. DecideType \/ DecideTarget => AsksTable
  BY DEF DecideType, DecideTarget, AsksTable
<1> QED
  BY <1>1, <1>2, <1>3, RaiseShape, CallShape, ReturnShape DEF Translate

-----------------------------------------------------------------------------
Unwinds ==
  /\ phase = "translate"
  /\ \E how \in How : /\ Unwind(how)
                      /\ how = "ref" => frames # << >>
                      /\ Blames(how)
                      /\ UNCHANGED << memo, registered, asked, retried >>

Starts ==
  /\ phase = "translate"
  /\ \E t \in Type : frames' = << Call("translateType", t, FALSE) >>
  /\ asked' \in Type /\ retried' \in BOOLEAN /\ outcome' = "none"
  /\ result' = Null
  /\ UNCHANGED << tableVars, memo, registered >>

Visits ==
  /\ phase = "translate"
  /\ Registers
  /\ UNCHANGED << tableVars, memo, frames, result, asked, retried, outcome >>

Proceeds == Running /\ (Calls \/ CallsInstead \/ Returns)

LEMMA StepShape ==
  TransInv /\ [TransNext]_vars =>
    AsksTable \/ Unwinds \/ Starts \/ Visits \/ Proceeds
<1> SUFFICES ASSUME TransInv, [TransNext]_vars
             PROVE  AsksTable \/ Unwinds \/ Starts \/ Visits \/ Proceeds
  OBVIOUS
<1>0. TransTypeOK /\ TypeOK
  BY DEF TransInv, TransTypeOK
<1>1. ASSUME NEW t \in Type, AskType(t) PROVE Starts
  BY <1>1 DEF AskType, Starts, Idle
<1>2. CASE RetryWithoutReference
  <2>1. asked \in Type
    BY <1>2 DEF RetryWithoutReference, TransInv, Began
  <2>2. HandleReference[asked] \in Type
    BY <1>0, <1>2, <2>1, ReferredType DEF RetryWithoutReference
  <2> QED
    BY <1>2, <2>1, <2>2 DEF RetryWithoutReference, Starts, Idle, TransInv, Began
<1>3. ASSUME NEW t \in Type, VisitDeclaration(t) PROVE Visits
  <2>1. KindOf(t) \in Declared
    BY <1>3 DEF VisitDeclaration, Declared
  <2>2. NodeClass(t) # "replaced"
    <3>1. CASE KindOf(t) \in {"Record", "TemplateRecord"}
      BY <1>3, <3>1 DEF VisitDeclaration, NodeClass
    <3>2. CASE KindOf(t) \notin {"Record", "TemplateRecord"}
      BY <1>3, <3>2 DEF VisitDeclaration, NodeClass
    <3> QED
      BY <3>1, <3>2
  <2>3. StartDeclTypeBuild(t)
    BY <1>3, <2>2 DEF VisitDeclaration, StartDeclTypeBuild
  <2> QED
    BY <1>0, <1>3, <2>1, <2>3, StartRegisters DEF VisitDeclaration, Visits, Idle
<1>4. ASSUME NEW t \in Type, VisitUndecided(t) PROVE AsksTable
  BY <1>4 DEF VisitUndecided, AsksTable
<1>5. CASE Configure
  BY <1>5 DEF Configure, AsksTable
<1>6. CASE Strategies
  BY <1>6 DEF Strategies, AsksTable, Unwinds, How, Blames, Reject
<1>7. CASE Translate
  <2>1. Raises /\ Running => Unwinds
    BY DEF Raises, Unwinds, Stays, Running
  <2> QED
    BY <1>7, <2>1, Shape DEF Proceeds
<1>8. CASE UNCHANGED vars
  BY <1>8 DEF vars, AsksTable
<1> QED
  BY <1>1, <1>2, <1>3, <1>4, <1>5, <1>6, <1>7, <1>8 DEF TransNext

\* The new calls, and which of the frames they leave.
LEMMA NewFrames ==
  ASSUME TransInv, Proceeds
  PROVE  /\ frames' \in Seq(Frame)
         /\ \A i \in DOMAIN frames' :
              \/ i \in DOMAIN frames /\ frames'[i].call = frames[i].call
                   /\ frames'[i].type = frames[i].type
              \/ Fits(frames'[i].call, frames'[i].type)
<1>0. /\ frames \in Seq(Frame) /\ frames # << >> /\ Running
      /\ Cur.next \in Nat
  BY RunFacts DEF TransInv, TransTypeOK, Proceeds
<1>1. /\ Below \in Seq(Frame) /\ DOMAIN Below \subseteq DOMAIN frames
      /\ \A i \in DOMAIN Below : Below[i] = frames[i]
      /\ Len(frames) \in DOMAIN frames /\ Cur \in Frame
  BY <1>0, FrameFacts
<1>2. \A f \in Function, t \in Type, const \in BOOLEAN :
        /\ Call(f, t, const) \in Frame
        /\ Call(f, t, const).call = f /\ Call(f, t, const).type = t
  BY DEF Call, Frame
<1>3. CASE Returns
  BY <1>1, <1>3 DEF Returns, Return
<1>4. ASSUME NEW s \in Seq(Frame), NEW c \in Frame, Fits(c.call, c.type),
             frames' = Append(s, c), DOMAIN s \subseteq DOMAIN frames,
             \A i \in DOMAIN s : /\ s[i].call = frames[i].call
                                 /\ s[i].type = frames[i].type
      PROVE  /\ frames' \in Seq(Frame)
             /\ \A i \in DOMAIN frames' :
                  \/ i \in DOMAIN frames /\ frames'[i].call = frames[i].call
                       /\ frames'[i].type = frames[i].type
                  \/ Fits(frames'[i].call, frames'[i].type)
  <2>1. /\ Append(s, c) \in Seq(Frame)
        /\ \A i \in DOMAIN Append(s, c) :
             Append(s, c)[i] = c \/ (i \in DOMAIN s /\ Append(s, c)[i] = s[i])
    <3>1. /\ Append(s, c) \in Seq(Frame) /\ Len(s) \in Nat
          /\ DOMAIN Append(s, c) = 1 .. Len(s) + 1 /\ DOMAIN s = 1 .. Len(s)
          /\ Append(s, c)[Len(s) + 1] = c
          /\ \A i \in 1 .. Len(s) : Append(s, c)[i] = s[i]
      OBVIOUS
    <3>2. \A n \in Nat : \A i \in 1 .. n + 1 : i = n + 1 \/ i \in 1 .. n
      OBVIOUS
    <3>3. ASSUME NEW i \in DOMAIN Append(s, c)
          PROVE  Append(s, c)[i] = c \/ (i \in DOMAIN s /\ Append(s, c)[i] = s[i])
      <4>1. i = Len(s) + 1 \/ i \in 1 .. Len(s)
        BY <3>1, <3>2, Zenon
      <4> QED
        BY <3>1, <4>1
    <3> QED
      BY <3>1, <3>3
  <2> QED
    BY <1>4, <2>1
<1>5. CASE CallsInstead
  <2>1. PICK t \in Type, const \in BOOLEAN :
          frames' = Append(Below, Call("translateType", t, const))
    BY <1>5 DEF CallsInstead
  <2> DEFINE c == Call("translateType", t, const)
  <2>2. "translateType" \in Function
    BY DEF Function
  <2>3. c \in Frame /\ c.call = "translateType"
    BY <1>2, <2>2
  <2> HIDE DEF c
  <2>4. Fits(c.call, c.type)
    BY <2>3 DEF Fits
  <2> QED
    BY <1>1, <1>4, <2>1, <2>3, <2>4 DEF c
<1>6. CASE Calls
  <2> DEFINE n == Len(frames)
  <2>1. PICK f \in Function, t \in Type, const \in BOOLEAN,
             w \in {"none", "const", "pointer", "array"} :
               CallFor(f, t, const, w) /\ Fits(f, t)
    BY <1>6 DEF Calls
  <2> DEFINE top == [frames[n] EXCEPT !.next = @ + 1, !.wrap = w]
             s == [frames EXCEPT ![n] = top]
  <2>2. top \in Frame /\ top.call = frames[n].call /\ top.type = frames[n].type
    <3>1. frames[n] \in Frame /\ frames[n].next \in Nat
      BY <1>0, <1>1 DEF Cur
    <3>2. frames[n].next + 1 \in Nat
      BY <3>1
    <3> HIDE DEF n
    <3> QED
      BY <3>1, <3>2 DEF Frame
  <2>3. s \in Seq(Frame) /\ DOMAIN s = DOMAIN frames
        /\ \A i \in DOMAIN s : s[i] = IF i = n THEN top ELSE frames[i]
    <3> HIDE DEF top
    <3> QED
      BY <1>0, <1>1, <2>2
  <2>4. frames' = Append(s, Call(f, t, const))
    BY <1>0, <1>1, <2>1 DEF CallFor
  <2> HIDE DEF s, top
  <2>5. \A i \in DOMAIN s : /\ s[i].call = frames[i].call
                            /\ s[i].type = frames[i].type
    BY <2>2, <2>3
  <2> QED
    BY <1>2, <1>4, <2>1, <2>3, <2>4, <2>5
<1> QED
  BY <1>3, <1>5, <1>6 DEF Proceeds

-----------------------------------------------------------------------------
LEMMA ConfigurationStays ==
  ASSUME TransInv, [Next]_tableVars, phase # "configure"
  PROVE  /\ UNCHANGED << graph, named, configured >> /\ phase' # "configure"
         /\ ConfiguredTemplate' <=> ConfiguredTemplate
         /\ Misconfigured' <=> Misconfigured
         /\ ConfiguredTypedef' <=> ConfiguredTypedef
  BY TableStays DEF TransInv, ConfiguredTemplate, Misconfigured, ConfiguredTypedef,
     KindOf

LEMMA FitsStay ==
  ASSUME TransInv, [Next]_tableVars, phase # "configure",
         NEW call \in Function, NEW t \in Type, Fits(call, t)
  PROVE  Fits(call, t)'
<1>1. UNCHANGED << graph, named >> /\ (ConfiguredTemplate' <=> ConfiguredTemplate)
  BY ConfigurationStays
<1>2. IsWrappable(t, TRUE)' = IsWrappable(t, TRUE)
  BY <1>1, AnswersStay
<1>3. KindOf(t)' = KindOf(t)
  BY <1>1 DEF KindOf
<1>4. ~Undecided(t) /\ strategy'[t] # strategy[t] =>
        KindOf(t) = "TemplateRecord" /\ ConfiguredTemplate
  BY StrategyStays DEF TransInv
<1> QED
  BY <1>1, <1>2, <1>3, <1>4 DEF Fits, Undecided

LEMMA StepFrames ==
  ASSUME TransInv, [TransNext]_vars
  PROVE  frames' \in Seq(Frame) /\ FramesFit'
<1>0. [Next]_tableVars
  BY StepMaps
<1>1. frames \in Seq(Frame) /\ FramesFit
  BY DEF TransInv, TransTypeOK
<1>2. CASE AsksTable
  <2>1. frames' = frames
    BY <1>2 DEF AsksTable, transVars
  <2>2. CASE phase = "configure"
    <3>1. frames' = << >>
      BY <2>1, <2>2 DEF TransInv, Began, Nothing
    <3> QED
      BY <3>1 DEF FramesFit
  <2>3. CASE phase # "configure"
    <3>1. ASSUME NEW i \in DOMAIN frames
          PROVE  Fits(frames[i].call, frames[i].type)'
      <4>1. frames[i] \in Frame
        BY <1>1
      <4>2. PICK call \in Function, t \in Type :
              call = frames[i].call /\ t = frames[i].type
        BY <4>1 DEF Frame
      <4>3. Fits(call, t)
        BY <1>1, <4>2 DEF FramesFit
      <4>4. Fits(call, t)'
        BY <1>0, <2>3, <4>3, FitsStay
      <4> QED
        BY <2>1, <4>2, <4>4
    <3> QED
      BY <1>1, <2>1, <3>1 DEF FramesFit
  <2> QED
    BY <2>2, <2>3
<1>3. CASE Unwinds
  BY <1>3 DEF Unwinds, Unwind, FramesFit
<1>4. CASE Starts
  <2>1. PICK t \in Type : frames' = << Call("translateType", t, FALSE) >>
    BY <1>4 DEF Starts
  <2> DEFINE c == Call("translateType", t, FALSE)
  <2>2. c \in Frame /\ c.call = "translateType"
    BY DEF Call, Frame, Function
  <2> HIDE DEF c
  <2>3. frames' = << c >>
    BY <2>1 DEF c
  <2>4. frames' \in Seq(Frame) /\ \A i \in DOMAIN frames' : frames'[i] = c
    BY <2>2, <2>3
  <2> QED
    BY <2>2, <2>4 DEF FramesFit, Fits
<1>5. CASE Visits
  <2>1. frames' = frames /\ UNCHANGED tableVars
    BY <1>5 DEF Visits
  <2> QED
    BY <1>1, <2>1, AnswersStay DEF FramesFit, Fits, KindOf, tableVars,
       ConfiguredTemplate
<1>6. CASE Proceeds
  <2>1. UNCHANGED tableVars
    BY <1>6 DEF Proceeds, Calls, CallFor, CallsInstead, Returns, Return, Stays
  <2>2. \A call, t : Fits(call, t)' <=> Fits(call, t)
    BY <2>1, AnswersStay DEF Fits, KindOf, tableVars, ConfiguredTemplate
  <2>3. \A i \in DOMAIN frames' : Fits(frames'[i].call, frames'[i].type)
    BY <1>1, <1>6, NewFrames DEF FramesFit
  <2>4. FramesFit'
    BY <2>1, <2>3, AnswersStay DEF FramesFit, Fits, KindOf, tableVars,
       ConfiguredTemplate
  <2> QED
    BY <1>6, <2>4, NewFrames
<1> QED
  BY <1>2, <1>3, <1>4, <1>5, <1>6, StepShape

LEMMA StepTransType ==
  ASSUME TransInv, [TransNext]_vars
  PROVE  TransTypeOK' /\ Began'
<1>0. [Next]_tableVars /\ frames' \in Seq(Frame)
  BY StepMaps, StepFrames
<1>1. /\ memo \in [Type -> DType] /\ registered \in [Type -> Class]
      /\ result \in DType /\ asked \in Type \cup {NoType} /\ retried \in BOOLEAN
      /\ outcome \in {"none", "returned"} \cup How
      /\ TypeOK /\ TransTypeOK /\ Began
  BY DEF TransInv, TransTypeOK, How
<1>2. TypeOK'
  BY <1>0, <1>1, StepType
<1>3. Null \in DType
  BY DEF Null, Leaf, DType, Class
<1>4. phase' = "configure" => phase = "configure" /\ ~Running
  BY <1>0, ConfigurationStays DEF Running
<1>5. CASE AsksTable
  BY <1>0, <1>1, <1>2, <1>4, <1>5 DEF AsksTable, transVars, TransTypeOK, Began,
     Nothing, How
<1>6. CASE Unwinds
  BY <1>0, <1>1, <1>2, <1>3, <1>4, <1>6 DEF Unwinds, Unwind, TransTypeOK, Began,
     Nothing, How
<1>7. CASE Starts
  <2>1. /\ phase' = "translate" /\ asked' \in Type /\ retried' \in BOOLEAN
        /\ outcome' = "none" /\ result' \in DType
        /\ memo' = memo /\ registered' = registered
    BY <1>1, <1>3, <1>7 DEF Starts, tableVars
  <2> QED
    BY <1>0, <1>1, <1>2, <2>1 DEF TransTypeOK, Began
<1>8. CASE Visits
  <2>1. /\ phase' = "translate" /\ registered' \in [Type -> Class]
        /\ UNCHANGED << memo, frames, result, asked, retried, outcome >>
    BY <1>8 DEF Visits, Registers, tableVars
  <2> QED
    BY <1>0, <1>1, <1>2, <2>1 DEF TransTypeOK, Began, How
<1>9. CASE Proceeds
  <2>1. frames # << >> /\ T \in Type /\ phase = "translate" /\ asked \in Type
    BY <1>1, <1>9, RunFacts DEF Proceeds, Running, Began
  <2>2. UNCHANGED << tableVars, asked, retried >>
    BY <1>9 DEF Proceeds, Calls, CallFor, CallsInstead, Returns, Return, Stays
  <2>3. registered' \in [Type -> Class]
    BY <1>1, <1>9 DEF Proceeds, Calls, CallsInstead, Returns, Registers
  <2>4. result' \in DType
    BY <1>1, <1>3, <1>9 DEF Proceeds, Calls, CallFor, CallsInstead, Returns, Return
  <2>5. memo' \in [Type -> DType]
    BY <1>1, <1>9, <2>1 DEF Proceeds, Calls, CallFor, CallsInstead, Returns, Return
  <2>6. outcome' \in {"none", "returned"} \cup How
    BY <1>1, <1>9 DEF Proceeds, Calls, CallFor, CallsInstead, Returns, Return
  <2>7. phase' = "translate" /\ asked' \in Type
    BY <2>1, <2>2 DEF tableVars
  <2>8. outcome' # "ref"
    <3>1. outcome # "ref"
      BY <1>1, <2>1 DEF Began
    <3> QED
      BY <1>9, <3>1 DEF Proceeds, Calls, CallFor, CallsInstead, Returns, Return
  <2> QED
    BY <1>0, <1>1, <1>2, <2>2, <2>3, <2>4, <2>5, <2>6, <2>7, <2>8
       DEF TransTypeOK, Began, How
<1> QED
  BY <1>5, <1>6, <1>7, <1>8, <1>9, StepShape

-----------------------------------------------------------------------------
\* Strategies are not changed under a node.
LEMMA NodesStay ==
  ASSUME TransInv, [Next]_tableVars, registered' = registered
  PROVE  NodesFollow'
<1>1. CASE phase = "configure"
  <2>1. \A u \in Type : registered'[u] = "null"
    BY <1>1 DEF TransInv, Began, Nothing
  <2> QED
    BY <2>1 DEF NodesFollow
<1>2. CASE phase # "configure"
  <2>1. ConfiguredTemplate' <=> ConfiguredTemplate
    BY <1>2, ConfigurationStays
  <2>2. ASSUME NEW u \in Type, registered[u] \in {"struct", "interface"}
        PROVE  /\ ~Undecided(u)'
               /\ ~ConfiguredTemplate => strategy'[u] = strategy[u]
    <3>1. ~Undecided(u)
      BY <2>2 DEF TransInv, NodesFollow
    <3> QED
      BY <1>2, <3>1, StaysDecided, StrategyStays DEF TransInv
  <2>3. ASSUME NEW u \in Type, registered'[u] \in {"struct", "interface"}
        PROVE  /\ strategy'[u] # "UNKNOWN"
               /\ ~ConfiguredTemplate' =>
                    (registered'[u] = "interface" <=> strategy'[u] = "INTERFACE")
    BY <2>1, <2>2, <2>3 DEF TransInv, NodesFollow, Undecided
  <2> QED
    BY <2>3 DEF NodesFollow, Undecided
<1> QED
  BY <1>1, <1>2

LEMMA NodesMade ==
  ASSUME TransInv, UNCHANGED tableVars, Registers
  PROVE  NodesFollow'
<1>1. UNCHANGED << graph, strategy, configured >>
  BY DEF tableVars
<1>2. ConfiguredTemplate' <=> ConfiguredTemplate
  BY <1>1 DEF ConfiguredTemplate, KindOf
<1>3. ASSUME NEW u \in Type, registered'[u] \in {"struct", "interface"}
      PROVE  /\ strategy[u] # "UNKNOWN"
             /\ ~ConfiguredTemplate =>
                  (registered'[u] = "interface" <=> strategy[u] = "INTERFACE")
  <2>1. CASE registered'[u] = registered[u]
    BY <1>3, <2>1 DEF TransInv, NodesFollow, Undecided
  <2>2. CASE Suits(registered', u)
    BY <2>2 DEF Suits
  <2> QED
    BY <1>3, <2>1, <2>2 DEF Registers
<1> QED
  BY <1>1, <1>2, <1>3 DEF NodesFollow, Undecided

LEMMA StepNodes ==
  ASSUME TransInv, [TransNext]_vars
  PROVE  NodesFollow' /\ AllRegistered'
<1>0. [Next]_tableVars /\ TransTypeOK
  BY StepMaps DEF TransInv
<1>1. \A d : IsIn(registered, d) /\ Registers => IsIn(registered', d)
  BY DEF IsIn, Registers
<1>2. IsIn(registered', Null)
  BY DEF IsIn, Null, Leaf
<1>3. IsIn(registered, result) /\ \A t \in Type : IsIn(registered, memo[t])
  BY DEF TransInv, AllRegistered
<1>4. registered' = registered => Registers
  BY <1>0, SameRegisters
<1>5. CASE AsksTable \/ Unwinds \/ Starts
  <2>1. registered' = registered /\ memo' = memo /\ result' \in {Null, result}
    BY <1>5 DEF AsksTable, transVars, Unwinds, Unwind, Starts
  <2> QED
    BY <1>0, <1>2, <1>3, <2>1, NodesStay DEF AllRegistered
<1>6. CASE Visits
  <2>1. UNCHANGED << tableVars, memo, result >> /\ Registers
    BY <1>6 DEF Visits
  <2> QED
    BY <1>1, <1>3, <2>1, NodesMade DEF AllRegistered
<1>7. CASE Proceeds
  <2>1. UNCHANGED tableVars /\ Registers
    BY <1>4, <1>7 DEF Proceeds, Calls, CallFor, CallsInstead, Returns, Return, Stays
  <2>2. NodesFollow'
    BY <2>1, NodesMade
  <2>3. IsIn(registered', result')
    BY <1>1, <1>2, <1>3, <1>7, <2>1 DEF Proceeds, Calls, CallFor, CallsInstead,
       Returns, Return
  <2>4. ASSUME NEW t \in Type PROVE IsIn(registered', memo'[t])
    <3>1. \/ memo'[t] = memo[t]
          \/ \E d : memo'[t] = d /\ IsIn(registered', d)
      BY <1>0, <1>7 DEF Proceeds, Calls, CallFor, CallsInstead, Returns, Return,
         TransTypeOK
    <3> QED
      BY <1>1, <1>3, <2>1, <3>1
  <2> QED
    BY <2>2, <2>3, <2>4 DEF AllRegistered
<1> QED
  BY <1>5, <1>6, <1>7, StepShape

\* Whatever was to blame for a failure stays to blame.
LEMMA StepBlames ==
  ASSUME TransInv, [TransNext]_vars
  PROVE  FailsOnlyIfConfigured'
<1>1. [Next]_tableVars /\ FailsOnlyIfConfigured
  BY StepMaps DEF TransInv
<1>2. CASE phase = "configure"
  <2>1. outcome = "none" /\ AsksTable
    BY <1>2, StepShape DEF TransInv, Began, Nothing, Unwinds, Starts, Visits,
       Proceeds, Running
  <2> QED
    BY <2>1 DEF AsksTable, transVars, FailsOnlyIfConfigured, RightStrategies
<1>3. CASE phase # "configure"
  <2>1. /\ ConfiguredTemplate' <=> ConfiguredTemplate
        /\ Misconfigured' <=> Misconfigured
        /\ ConfiguredTypedef' <=> ConfiguredTypedef
    BY <1>1, <1>3, ConfigurationStays
  <2>2. outcome' \in {outcome, "none", "returned"} \/ Blames(outcome')
    <3>1. AsksTable \/ Starts \/ Visits => outcome' \in {outcome, "none"}
      BY DEF AsksTable, transVars, Starts, Visits
    <3>2. Unwinds => Blames(outcome')
      BY DEF Unwinds, Unwind
    <3>3. Proceeds => outcome' \in {outcome, "returned"}
      BY DEF Proceeds, Calls, CallFor, CallsInstead, Returns, Return
    <3> QED
      BY <3>1, <3>2, <3>3, StepShape
  <2> QED
    BY <1>1, <2>1, <2>2 DEF FailsOnlyIfConfigured, RightStrategies, Blames,
       ConfiguredTypedef
<1> QED
  BY <1>2, <1>3

-----------------------------------------------------------------------------
LEMMA LeadsOn ==
  ASSUME NEW u \in Type, NEW leaf, NEW k \in Nat, u # leaf, Moves(u),
         LeadsTo(Target(u), leaf, k)
  PROVE  LeadsTo(u, leaf, IF IsIndirection(u) THEN k + 1 ELSE k)
  BY DEF LeadsTo, Closed

LEMMA StandsLeads ==
  ASSUME TypeOK, NEW x \in Type, NEW y \in Type, NEW leaf \in Type, NEW k \in Nat,
         ~Passes(leaf), Stands(x, y), LeadsTo(y, leaf, k)
  PROVE  LeadsTo(x, leaf, k)
<1> SUFFICES ASSUME NEW X \in SUBSET (Type \X Nat), Closed(X, leaf)
             PROVE  << x, k >> \in X
  BY DEF LeadsTo
<1> DEFINE Y == { u \in Type : << u, k >> \in X }
<1>1. y \in Y
  BY DEF LeadsTo
<1>2. ASSUME NEW u \in Type, KindOf(u) = "Typedef", ~IsWrappable(u, TRUE),
             Target(u) \in Y
      PROVE  u \in Y
  <2>1. Passes(u) /\ u # leaf /\ Firm(u) /\ ~IsIndirection(u)
    BY <1>2 DEF Passes, Firm, IsIndirection
  <2>2. << Target(u), k >> \in X /\ Moves(u)
    BY <1>2, <2>1 DEF Moves
  <2> QED
    BY <2>1, <2>2 DEF Closed
<1>3. Y \in SUBSET Type
  OBVIOUS
<1>4. x \in Y
  <2> HIDE DEF Y
  <2> QED
    BY <1>1, <1>2, <1>3 DEF Stands
<1> QED
  BY <1>4

LEMMA MovesStay ==
  ASSUME TransInv, [Next]_tableVars, phase # "configure", ~ConfiguredTemplate,
         NEW t \in Type
  PROVE  /\ UNCHANGED << graph, named >>
         /\ Passes(t)' <=> Passes(t)
         /\ Target(t) \in Type /\ Firm(t) =>
              Firm(t)' /\ (IsIndirection(t)' <=> IsIndirection(t))
         /\ Moves(t) => Moves(t)'
<1>1. UNCHANGED << graph, named >>
  BY ConfigurationStays
<1>2. \A u : KindOf(u)' = KindOf(u) /\ Target(u)' = Target(u)
  BY <1>1 DEF KindOf, Target
<1>3. \A u, f : Has(u, f)' = Has(u, f)
  BY <1>1 DEF Has
<1>4. Passes(t)' <=> Passes(t)
  BY <1>1, <1>2, <1>3, AnswersStay DEF Passes, DeclWrappable
<1>5. ASSUME Target(t) \in Type, Firm(t)
      PROVE  Firm(t)' /\ (IsIndirection(t)' <=> IsIndirection(t))
  <2>1. KindOf(t) = "Pointer" /\ KindOf(Target(t)) # "Function" =>
          /\ RefAnswer[Target(t)] # "undecided"
          /\ RefAnswer'[Target(t)] = RefAnswer[Target(t)]
    BY <1>5, AnswersKept DEF TransInv, Firm
  <2> QED
    BY <1>2, <1>3, <2>1 DEF Firm, IsIndirection, Absorbed
<1> QED
  BY <1>1, <1>2, <1>4, <1>5 DEF Moves

LEMMA LeadsStay ==
  ASSUME TransInv, [Next]_tableVars, phase # "configure", ~ConfiguredTemplate,
         NEW t, NEW d, Leads(t, d)
  PROVE  Leads(t, d)'
<1>1. \A u \in Type : /\ Moves(u) => Moves(u)' /\ Target(u)' = Target(u)
                      /\ Moves(u) => (IsIndirection(u)' <=> IsIndirection(u))
                      /\ Passes(u)' <=> Passes(u)
  BY MovesStay DEF Moves, Target
<1>2. \A X \in SUBSET (Type \X Nat) : Closed(X, d.of)' => Closed(X, d.of)
  BY <1>1 DEF Closed
<1>3. Count("pointer", d)' = Count("pointer", d)
  BY DEF Count
<1> QED
  BY <1>1, <1>2, <1>3 DEF Leads, LeadsTo

LEMMA StandsStay ==
  ASSUME TransInv, [Next]_tableVars, phase # "configure", NEW x, NEW y, Stands(x, y)
  PROVE  Stands(x, y)'
<1>1. UNCHANGED << graph, named >>
  BY ConfigurationStays
<1> QED
  BY <1>1, AnswersStay DEF Stands, KindOf, Target

LEMMA LeadsCounts ==
  ASSUME TypeOK, NEW leaf \in Type, NEW t \in Type, NEW k \in Nat,
         LeadsTo(t, leaf, k)
  PROVE  PointersTo(leaf)[t] = k
<1> DEFINE V == SUBSET Type
           Reach(X) == { u \in Type : u = leaf \/ Target(u) \in X }
           F == [X \in V |-> Reach(X)]
           N == Cardinality(Type)
           P(n, u) == PointersIn[n][leaf][u]
<1>1. {} \in V /\ F \in [V -> V] /\ \A X \in V : F[X] = Reach(X)
  OBVIOUS
<1>2. PICK s : Iteration(s, V, F, {})
  <2> HIDE DEF V, F
  <2> QED
    BY <1>1, Iterates
<1>3. /\ s \in [Nat -> V] /\ s[0] = {}
      /\ \A n \in Nat : s[n + 1] = Reach(s[n])
  BY <1>1, <1>2 DEF Iteration
<1>4. s[N] \in V /\ Reach(s[N]) = s[N] /\ N \in Nat
  <2>1. Chain(s, Type, F)
    <3>1. \A X, Y \in V : X \subseteq Y => F[X] \subseteq F[Y]
      OBVIOUS
    <3>2. \A n \in Nat : s[n + 1] = F[s[n]]
      BY <1>2 DEF Iteration
    <3> QED
      BY <1>1, <1>3, <3>1, <3>2 DEF Chain
  <2>2. F[s[N]] = s[N] /\ s[N] \in V /\ N \in Nat
    BY <1>3, <2>1, NumberOfTypes, ChainSettles
  <2> QED
    BY <1>1, <2>2
<1>5. \A n \in Nat, u \in Type :
        /\ P(n, u) \in Nat
        /\ P(n + 1, u) = IF u = leaf \/ Target(u) = NoType THEN 0
                         ELSE P(n, Target(u)) + (IF IsIndirection(u) THEN 1 ELSE 0)
  <2> TAKE n \in Nat, u \in Type
  <2>1. PointersIn[n] \in [Type -> [Type -> Nat]]
    BY PointersInIs
  <2>2. PointersIn[n + 1][leaf][u] = PointersOnce(PointersIn[n])[leaf][u]
    BY PointersInIs
  <2> QED
    BY <2>1, <2>2 DEF PointersOnce
<1>6. \A u \in Type : Target(u) \in Type => Target(u) # NoType
  BY TypeTableAssumption
<1> HIDE DEF V, F, N, P
\* What leads to leaf in n steps is counted in n steps.
<1> DEFINE S == { n \in Nat : \A u \in s[n], m \in Nat : P(n + m, u) = P(n, u) }
<1>7. S = Nat
  <2>1. 0 \in S
    BY <1>3
  <2>2. ASSUME NEW n \in S PROVE n + 1 \in S
    <3>1. ASSUME NEW u \in s[n + 1], NEW m \in Nat
          PROVE  P((n + 1) + m, u) = P(n + 1, u)
      <4>1. n \in Nat /\ n + m \in Nat /\ (n + 1) + m = (n + m) + 1
        OBVIOUS
      <4>2. u \in Type /\ (u = leaf \/ Target(u) \in s[n])
        BY <1>3, <4>1
      <4>3. CASE u = leaf
        <5>1. P((n + m) + 1, u) = 0 /\ P(n + 1, u) = 0
          BY <1>5, <4>1, <4>2, <4>3
        <5> QED
          BY <4>1, <5>1
      <4>4. CASE u # leaf
        <5>1. Target(u) \in s[n] /\ Target(u) # NoType
          BY <1>3, <1>6, <4>1, <4>2, <4>4
        <5>2. P(n + m, Target(u)) = P(n, Target(u))
          BY <2>2, <5>1
        <5>3. P((n + m) + 1, u) = P(n + 1, u)
          BY <1>5, <4>1, <4>2, <4>4, <5>1, <5>2
        <5> QED
          BY <4>1, <5>3
      <4> QED
        BY <4>3, <4>4
    <3> QED
      BY <3>1
  <2>3. S \in SUBSET Nat
    OBVIOUS
  <2> HIDE DEF S
  <2> QED
    BY <2>1, <2>2, <2>3, Induct
<1> DEFINE X == { p \in Type \X Nat : p[1] \in s[N] /\ p[2] = P(N, p[1]) }
<1>8. Closed(X, leaf)
  <2>1. \A u \in s[N] : P(N + 1, u) = P(N, u)
    <3>1. N \in S
      <4> HIDE DEF S
      <4> QED
        BY <1>4, <1>7
    <3> QED
      BY <3>1
  <2>2. << leaf, 0 >> \in X
    <3>1. leaf \in s[N]
      BY <1>4
    <3>2. P(N, leaf) = 0
      BY <1>4, <1>5, <2>1, <3>1
    <3> QED
      BY <3>1, <3>2
  <2>3. ASSUME NEW u \in Type, NEW j \in Nat, u # leaf, Moves(u),
               << Target(u), j >> \in X
        PROVE  << u, IF IsIndirection(u) THEN j + 1 ELSE j >> \in X
    <3>1. Target(u) \in s[N] /\ j = P(N, Target(u)) /\ Target(u) # NoType
      BY <1>6, <2>3
    <3>2. u \in s[N]
      BY <1>4, <3>1
    <3>3. P(N, u) = j + (IF IsIndirection(u) THEN 1 ELSE 0)
      <4>1. P(N + 1, u) = P(N, Target(u)) + (IF IsIndirection(u) THEN 1 ELSE 0)
        BY <1>4, <1>5, <2>3, <3>1
      <4> QED
        BY <2>1, <3>1, <3>2, <4>1
    <3> QED
      BY <3>2, <3>3
  <2> HIDE DEF X
  <2> QED
    BY <2>2, <2>3 DEF Closed
<1>9. << t, k >> \in X
  <2>1. X \in SUBSET (Type \X Nat)
    OBVIOUS
  <2> HIDE DEF X
  <2> QED
    BY <1>8, <2>1 DEF LeadsTo
<1>10. k = P(N, t)
  BY <1>9
<1> QED
  BY <1>10 DEF P, N, PointersTo

LEMMA PointersCounted ==
  ASSUME NEW d \in DType, NEW w \in {"none", "const", "pointer", "array"}
  PROVE  /\ Count("pointer", d) \in Nat
         /\ Count("pointer", Wrap(w, d)) =
              Count("pointer", d) + (IF w = "pointer" THEN 1 ELSE 0)
<1> DEFINE W == {"const", "pointer", "array"}
           s == d.wraps
           n == Len(s)
           z == << w >> \o s
           A == { i \in DOMAIN s : s[i] = "pointer" }
           B == { i \in DOMAIN z : z[i] = "pointer" }
           C == { i \in DOMAIN z : i > 1 /\ z[i] = "pointer" }
           f == [i \in A |-> i + 1]
<1>1. s \in Seq(W) /\ n \in Nat /\ DOMAIN s = 1 .. n
  BY DEF DType
<1>2. IsFiniteSet(A) /\ Cardinality(A) \in Nat
  <2>1. IsFiniteSet(1 .. n)
    <3>1. 1 \in Int /\ n \in Int
      BY <1>1
    <3> HIDE DEF n
    <3> QED
      BY <3>1, FS_Interval
  <2>2. A \subseteq 1 .. n
    BY <1>1
  <2> QED
    BY <2>1, <2>2, FS_Subset, FS_CardinalityType
<1>3. Count("pointer", d) = Cardinality(A)
  BY DEF Count
<1>4. CASE w = "none"
  BY <1>2, <1>3, <1>4 DEF Wrap
<1>5. CASE w # "none"
  <2>1. /\ DOMAIN z = 1 .. n + 1 /\ z[1] = w
        /\ \A i \in 1 .. n : z[i + 1] = s[i]
    <3>1. Len(<< w >>) = 1 /\ << w >>[1] = w /\ << w >> \in Seq(W)
      BY <1>5
    <3>2. /\ Len(z) = 1 + n /\ z \in Seq(W)
          /\ \A i \in 1 .. 1 + n : z[i] = IF i <= 1 THEN << w >>[i] ELSE s[i - 1]
      <4> HIDE DEF W, s, n
      <4>0. n = Len(s)
        BY DEF n
      <4> QED
        BY <1>1, <3>1, <4>0, ConcatProperties
    <3> HIDE DEF z, s, n
    <3> QED
      BY <1>1, <3>1, <3>2
  <2>2. /\ IsFiniteSet(C) /\ Cardinality(C) = Cardinality(A)
    <3>1. f \in [A -> C]
      BY <1>1, <2>1
    <3>2. \A i, j \in A : f[i] = f[j] => i = j
      BY <1>1
    <3>3. \A j \in C : \E i \in A : f[i] = j
      <4> TAKE j \in C
      <4>1. j - 1 \in 1 .. n /\ (j - 1) + 1 = j /\ z[j] = "pointer"
        BY <1>1, <2>1
      <4>2. j - 1 \in A
        BY <1>1, <2>1, <4>1
      <4>3. f[j - 1] = j
        BY <4>1, <4>2
      <4> QED
        BY <4>2, <4>3
    <3>4. ExistsBijection(A, C)
      <4> HIDE DEF A, C, f
      <4> QED
        BY <3>1, <3>2, <3>3 DEF ExistsBijection, Bijection, Injection, Surjection, IsInjective
    <3> HIDE DEF A, C
    <3> QED
      BY <1>2, <3>4, FS_Bijection
  <2>3. B = IF w = "pointer" THEN C \cup {1} ELSE C
    BY <1>1, <2>1
  <2>4. 1 \notin C
    BY <1>1
  <2>5. Cardinality(B) = Cardinality(A) + (IF w = "pointer" THEN 1 ELSE 0)
    <3> HIDE DEF A, B, C
    <3>1. Cardinality(C \cup {1}) = Cardinality(C) + 1
      BY <2>2, <2>4, FS_AddElement
    <3>2. CASE w = "pointer"
      BY <1>2, <2>2, <2>3, <3>1, <3>2
    <3>3. CASE w # "pointer"
      BY <1>2, <2>2, <2>3, <3>3
    <3> QED
      BY <3>2, <3>3
  <2>6. Wrap(w, d).wraps = z
    BY <1>5 DEF Wrap, DType
  <2>7. Count("pointer", Wrap(w, d)) = Cardinality(B)
    BY <2>6 DEF Count
  <2> QED
    BY <1>2, <1>3, <2>5, <2>7
<1> QED
  BY <1>4, <1>5
\* The names that the configuration gave.
LEMMA StepNamedKinds ==
  ASSUME TransInv, [Next]_tableVars
  PROVE  NamedKinds'
<1>1. graph' = graph
  BY GraphStays
<1>2. ASSUME NEW t \in named'
      PROVE  t \in named \/ Configurable(t)
  BY <1>2, StepKeepsNames DEF TransInv, Next, ConfigureReplace, ConfigureStrategy,
     BeginTranslation, Ask, DetermineStrategy, tableVars
<1>3. \A t : KindOf(t)' = KindOf(t)
  BY <1>1 DEF KindOf
<1> QED
  BY <1>2, <1>3 DEF TransInv, NamedKinds, Configurable

\* The frames after a step, counted from the bottom.
LEMMA FramesAfter ==
  ASSUME TransInv, Running, NEW n \in Nat, n = Len(frames)
  PROVE  /\ n > 0 /\ T = frames[n].type
         /\ frames' = Below =>
              Len(frames') = n - 1 /\ \A i \in 1 .. n - 1 : frames'[i] = frames[i]
         /\ \A f, t, const : frames' = Append(Below, Call(f, t, const)) =>
              /\ Len(frames') = n /\ frames'[n].type = t
              /\ \A i \in 1 .. n - 1 : frames'[i] = frames[i]
         /\ \A f, t, const, w : CallFor(f, t, const, w) =>
              /\ Len(frames') = n + 1 /\ frames'[n + 1].type = t
              /\ frames'[n].type = T /\ frames'[n].wrap = w
              /\ \A i \in 1 .. n - 1 : frames'[i] = frames[i]
<1>1. /\ frames \in Seq(Frame) /\ frames # << >> /\ Cur \in Frame /\ Len(frames) = n
      /\ Below \in Seq(Frame) /\ Len(Below) = n - 1
      /\ DOMAIN Below = 1 .. n - 1
      /\ \A i \in 1 .. n - 1 : Below[i] = frames[i]
  BY FrameFacts DEF TransInv, TransTypeOK, Running
<1>2. n > 0 /\ n - 1 \in Nat /\ T = frames[n].type
  BY <1>1 DEF T, Cur
<1>3. ASSUME NEW f, NEW t, NEW const, frames' = Append(Below, Call(f, t, const))
      PROVE  /\ Len(frames') = n /\ frames'[n].type = t
             /\ \A i \in 1 .. n - 1 : frames'[i] = frames[i]
  <2> DEFINE c == Call(f, t, const)
  <2>1. c.type = t
    BY DEF Call
  <2> HIDE DEF c
  <2>2. /\ Len(Append(Below, c)) = n /\ Append(Below, c)[n] = c
        /\ \A i \in 1 .. n - 1 : Append(Below, c)[i] = Below[i]
    BY <1>1, <1>2
  <2> QED
    BY <1>1, <1>3, <2>1, <2>2 DEF c
<1>4. ASSUME NEW f, NEW t, NEW const, NEW w, CallFor(f, t, const, w)
      PROVE  /\ Len(frames') = n + 1 /\ frames'[n + 1].type = t
             /\ frames'[n].type = T /\ frames'[n].wrap = w
             /\ \A i \in 1 .. n - 1 : frames'[i] = frames[i]
  <2> DEFINE c == Call(f, t, const)
             top == [frames[n] EXCEPT !.next = @ + 1, !.wrap = w]
             s == [frames EXCEPT ![n] = top]
  <2>1. c.type = t
    BY DEF Call
  <2>2. top.type = T /\ top.wrap = w
    BY <1>1, <1>2 DEF Frame, Cur, T
  <2>3. frames' = Append(s, c)
    BY <1>1, <1>4 DEF CallFor
  <2>4. s \in Seq(Frame \cup {top}) /\ Len(s) = n /\ s[n] = top
        /\ \A i \in 1 .. n - 1 : s[i] = frames[i]
    <3> HIDE DEF top
    <3> QED
      BY <1>1, <1>2
  <2> HIDE DEF c, s, top
  <2>5. /\ Len(Append(s, c)) = n + 1 /\ Append(s, c)[n + 1] = c
        /\ \A i \in 1 .. n : Append(s, c)[i] = s[i]
    BY <2>4
  <2> QED
    BY <1>2, <2>1, <2>2, <2>3, <2>4, <2>5
<1> QED
  BY <1>1, <1>2, <1>3, <1>4

\* What is returned leads from the type that it is for.
LEMMA GivenLeads ==
  ASSUME TransInv, Running, ~ConfiguredTemplate, NEW d \in DType, Gives(d)
  PROVE  Leads(T, d)
<1>0. /\ TypeOK /\ TransTypeOK /\ T \in Type /\ result \in DType
      /\ Cur.wrap \in {"none", "const", "pointer", "array"}
      /\ frames \in Seq(Frame) /\ frames # << >>
  BY RunFacts DEF TransInv, TransTypeOK
<1>1. d.wraps = << >> => Count("pointer", d) = 0
  <2> SUFFICES ASSUME d.wraps = << >> PROVE Count("pointer", d) = 0
    OBVIOUS
  <2>1. { i \in DOMAIN d.wraps : d.wraps[i] = "pointer" } = {}
    OBVIOUS
  <2> QED
    BY <2>1, FS_EmptySet DEF Count
<1>2. \A leaf : LeadsTo(leaf, leaf, 0)
  BY DEF LeadsTo, Closed
<1>3. CASE d = memo[T] /\ memo[T] # Null
  BY <1>0, <1>3 DEF TransInv, Kept, KeptBy
<1>4. CASE d.wraps = << >> /\ d.of = T /\ ~Passes(T)
  BY <1>0, <1>1, <1>2, <1>4 DEF Leads
<1>5. CASE /\ d.wraps = << >> /\ d.of = Target(T)
           /\ KindOf(T) = "TemplateSpecialization"
           /\ Target(T) \in Type /\ KindOf(Target(T)) = "TemplateRecord"
  <2>1. Moves(T) /\ ~IsIndirection(T) /\ ~Passes(Target(T)) /\ T # Target(T)
    BY <1>5 DEF Moves, Firm, Passes, IsIndirection
  <2>2. LeadsTo(Target(T), Target(T), 0)
    BY <1>2
  <2>3. LeadsTo(T, Target(T), 0)
    BY <1>0, <2>1, <2>2, LeadsOn
  <2> QED
    BY <1>1, <1>5, <2>1, <2>3 DEF Leads
<1>6. CASE d = Wrap(Cur.wrap, result) /\ result # Null /\ KindOf(T) \notin Plain
  <2>1. Leads(Target(T), result)
    BY <1>0, <1>6 DEF TransInv, Kept, KeptBy, T, Cur
  <2>2. Waits(Cur)
    <3>1. Len(frames) \in 1 .. Len(frames)
      BY <1>0
    <3> QED
      BY <1>6, <3>1 DEF TransInv, Kept, KeptBy, Cur
  <2>3. /\ Passes(T) /\ Moves(T)
        /\ Cur.wrap = "pointer" <=> IsIndirection(T)
    BY <1>6, <2>2 DEF Waits, Moves, T
  <2> DEFINE k == Count("pointer", result)
             leaf == result.of
  <2>4. k \in Nat /\ Count("pointer", d) = k + (IF Cur.wrap = "pointer" THEN 1 ELSE 0)
        /\ d.of = leaf
    BY <1>0, <1>6, PointersCounted, WrapType
  <2>5. leaf \in Type /\ ~Passes(leaf) /\ LeadsTo(Target(T), leaf, k)
    BY <2>1 DEF Leads
  <2> HIDE DEF k, leaf
  <2>6. LeadsTo(T, leaf, IF IsIndirection(T) THEN k + 1 ELSE k)
    BY <1>0, <2>3, <2>4, <2>5, LeadsOn
  <2>7. Count("pointer", d) = IF IsIndirection(T) THEN k + 1 ELSE k
    BY <2>3, <2>4
  <2> QED
    BY <2>4, <2>5, <2>6, <2>7 DEF Leads
<1> QED
  BY <1>3, <1>4, <1>5, <1>6 DEF Gives

\* Strategies that are chosen later change nothing in what was counted.
LEMMA KeptStays ==
  ASSUME TransInv, [Next]_tableVars, phase # "configure", ~ConfiguredTemplate,
         NEW answers, NEW calls \in Seq(Frame), NEW last,
         KeptBy(answers, calls, last)
  PROVE  KeptBy(answers, calls, last)'
<1>1. \A t, d : Leads(t, d) => Leads(t, d)'
  BY LeadsStay
<1>2. \A x, y : Stands(x, y) => Stands(x, y)'
  BY StandsStay
<1>3. \A t : KindOf(t)' = KindOf(t) /\ Target(t)' = Target(t)
  BY GraphStays DEF KindOf, Target
<1>4. ASSUME NEW f \in Frame, Waits(f)
      PROVE  Waits(f)'
  <2>1. f.type \in Type
    BY DEF Frame
  <2>2. PICK t \in Type : t = f.type
    BY <2>1
  <2>3. /\ Passes(t)' <=> Passes(t)
        /\ Target(t) \in Type /\ Firm(t) =>
             Firm(t)' /\ (IsIndirection(t)' <=> IsIndirection(t))
    BY MovesStay
  <2>4. KindOf(t) \notin Plain =>
          /\ Passes(t) /\ Target(t) \in Type /\ Firm(t)
          /\ f.wrap = "pointer" <=> IsIndirection(t)
    BY <1>4, <2>2 DEF Waits
  <2>5. KindOf(t)' \notin Plain =>
          /\ Passes(t)' /\ Target(t)' \in Type /\ Firm(t)'
          /\ f.wrap = "pointer" <=> IsIndirection(t)'
    BY <1>3, <2>3, <2>4
  <2> QED
    BY <2>2, <2>5 DEF Waits
<1>5. \A i \in 1 .. Len(calls) : calls[i] \in Frame
  OBVIOUS
<1>6. \A t \in Type : answers[t] # Null => Leads(t, answers[t])'
  BY <1>1 DEF KeptBy
<1>7. \A i \in 1 .. Len(calls) : i < Len(calls) \/ last # Null => Waits(calls[i])'
  BY <1>4, <1>5 DEF KeptBy
<1>8. \A i \in 1 .. Len(calls) - 1 :
        KindOf(calls[i].type)' \notin Plain =>
          Stands(Target(calls[i].type), calls[i + 1].type)'
  BY <1>2, <1>3 DEF KeptBy
<1>9. calls # << >> /\ last # Null /\ KindOf(calls[Len(calls)].type)' \notin Plain
        => Leads(Target(calls[Len(calls)].type), last)'
  BY <1>1, <1>3 DEF KeptBy
<1> QED
  BY <1>6, <1>7, <1>8, <1>9 DEF KeptBy

\* What a step of the translation remembers, calls and returns.
LEMMA ProceedKept ==
  ASSUME TransInv, Proceeds, ~ConfiguredTemplate
  PROVE  KeptBy(memo', frames', result')
<1> DEFINE n == Len(frames)
<1>0. /\ TypeOK /\ TransTypeOK /\ Running /\ T \in Type
      /\ frames \in Seq(Frame) /\ frames # << >>
      /\ KeptBy(memo, frames, result) /\ memo \in [Type -> DType]
  BY RunFacts DEF Proceeds, TransInv, TransTypeOK, Kept
<1>1. n \in Nat /\ n > 0 /\ T = frames[n].type
  BY <1>0, FramesAfter
<1>2. \A t \in Type : memo[t] # Null => Leads(t, memo[t])
  BY <1>0 DEF KeptBy
<1>3. \A i \in 1 .. n - 1 :
        /\ Waits(frames[i])
        /\ KindOf(frames[i].type) \notin Plain =>
             Stands(Target(frames[i].type), frames[i + 1].type)
  BY <1>0, <1>1 DEF KeptBy
<1>4. CASE Calls
  <2>1. PICK f \in Function, t \in Type, const \in BOOLEAN,
             w \in {"none", "const", "pointer", "array"} :
               CallFor(f, t, const, w) /\ Onward(t, w)
    BY <1>4 DEF Calls
  <2>2. memo' = memo /\ result' = Null
    BY <2>1 DEF CallFor
  <2>3. /\ Len(frames') = n + 1 /\ frames'[n + 1].type = t
        /\ frames'[n].type = T /\ frames'[n].wrap = w
        /\ \A i \in 1 .. n - 1 : frames'[i] = frames[i]
    BY <1>0, <1>1, <2>1, FramesAfter
  <2> HIDE DEF n
  <2>4. Waits(frames'[n])
    BY <2>1, <2>3 DEF Waits, Onward
  <2>5. KindOf(T) \notin Plain => Stands(Target(T), t)
    BY <2>1 DEF Onward, Stands
  <2>6. ASSUME NEW i \in 1 .. Len(frames'), i < Len(frames')
        PROVE  Waits(frames'[i])
    <3>1. i = n \/ i \in 1 .. n - 1
      BY <1>1, <2>3, <2>6
    <3> QED
      BY <1>3, <2>3, <2>4, <3>1
  <2>7. ASSUME NEW i \in 1 .. Len(frames') - 1, KindOf(frames'[i].type) \notin Plain
        PROVE  Stands(Target(frames'[i].type), frames'[i + 1].type)
    <3>1. i = n \/ (i = n - 1 /\ i \in 1 .. n - 1)
                \/ (i \in 1 .. n - 1 /\ i + 1 \in 1 .. n - 1)
      BY <1>1, <2>3, <2>7
    <3>2. CASE i = n
      BY <2>3, <2>5, <2>7, <3>2
    <3>3. CASE i = n - 1 /\ i \in 1 .. n - 1
      <4>1. i + 1 = n
        BY <1>1, <3>3
      <4> QED
        BY <1>1, <1>3, <2>3, <2>7, <3>3, <4>1
    <3>4. CASE i \in 1 .. n - 1 /\ i + 1 \in 1 .. n - 1
      BY <1>3, <2>3, <2>7, <3>4
    <3> QED
      BY <3>1, <3>2, <3>3, <3>4
  <2> QED
    BY <1>2, <2>2, <2>6, <2>7 DEF KeptBy
<1>5. CASE CallsInstead
  <2>1. PICK t \in Type, const \in BOOLEAN :
          /\ frames' = Append(Below, Call("translateType", t, const))
          /\ t = Target(T) /\ KindOf(T) = "Typedef" /\ ~IsWrappable(T, TRUE)
    BY <1>5 DEF CallsInstead
  <2>2. memo' = memo /\ result' = Null
    BY <1>5 DEF CallsInstead
  <2>3. /\ Len(frames') = n /\ frames'[n].type = t
        /\ \A i \in 1 .. n - 1 : frames'[i] = frames[i]
    BY <1>0, <1>1, <2>1, FramesAfter
  <2> HIDE DEF n
  <2>4. \A x : Stands(x, T) => Stands(x, t)
    BY <1>0, <2>1 DEF Stands
  <2>5. \A i \in 1 .. Len(frames') : i < Len(frames') => Waits(frames'[i])
    BY <1>1, <1>3, <2>3
  <2>6. ASSUME NEW i \in 1 .. Len(frames') - 1, KindOf(frames'[i].type) \notin Plain
        PROVE  Stands(Target(frames'[i].type), frames'[i + 1].type)
    <3>1. i \in 1 .. n - 1 /\ (i + 1 = n \/ i + 1 \in 1 .. n - 1)
      BY <1>1, <2>3
    <3>2. Stands(Target(frames[i].type), frames[i + 1].type)
      BY <1>3, <2>3, <2>6, <3>1
    <3> QED
      BY <1>1, <2>3, <2>4, <3>1, <3>2
  <2> QED
    BY <1>2, <2>2, <2>5, <2>6 DEF KeptBy
<1>6. CASE Returns
  <2>1. PICK d \in DType : Return(d) /\ Gives(d)
    BY <1>6 DEF Returns
  <2>2. Leads(T, d)
    BY <1>0, <2>1, GivenLeads
  <2>3. result' = d /\ memo' \in {memo, [memo EXCEPT ![T] = d]}
    BY <2>1 DEF Return
  <2>4. Len(frames') = n - 1 /\ \A i \in 1 .. n - 1 : frames'[i] = frames[i]
    BY <1>0, <1>1, <2>1, FramesAfter DEF Return
  <2> HIDE DEF n
  <2>5. \A t \in Type : memo'[t] # Null => Leads(t, memo'[t])
    BY <1>0, <1>2, <2>2, <2>3
  <2>6. \A i \in 1 .. Len(frames') : Waits(frames'[i])
    BY <1>3, <2>4
  <2>7. \A i \in 1 .. Len(frames') - 1 :
          KindOf(frames'[i].type) \notin Plain =>
            Stands(Target(frames'[i].type), frames'[i + 1].type)
    <3> TAKE i \in 1 .. Len(frames') - 1
    <3>1. i \in 1 .. n - 1 /\ i + 1 \in 1 .. n - 1
      BY <1>1, <2>4
    <3> QED
      BY <1>3, <2>4, <3>1
  <2>8. ASSUME frames' # << >>, KindOf(frames'[n - 1].type) \notin Plain
        PROVE  Leads(Target(frames'[n - 1].type), d)
    <3> DEFINE m == n - 1
               x == Target(frames[m].type)
    <3>1. m \in 1 .. n - 1 /\ m + 1 = n
      <4>1. frames' = Below /\ Below \in Seq(Frame)
        BY <1>0, <2>1, FrameFacts DEF Return
      <4>2. Len(frames') # 0
        BY <2>8, <4>1
      <4> QED
        BY <1>1, <2>4, <4>2
    <3>2. KindOf(frames[m].type) \notin Plain
      BY <2>4, <2>8, <3>1
    <3>3. x \in Type /\ Stands(x, T)
      BY <1>1, <1>3, <3>1, <3>2 DEF Waits
    <3>4. Count("pointer", d) \in Nat
      BY PointersCounted
    <3> HIDE DEF x
    <3>5. Leads(x, d)
      BY <1>0, <2>2, <3>3, <3>4, StandsLeads DEF Leads
    <3> QED
      BY <2>4, <3>1, <3>5 DEF x
  <2> QED
    BY <2>3, <2>4, <2>5, <2>6, <2>7, <2>8 DEF KeptBy
<1> QED
  BY <1>4, <1>5, <1>6 DEF Proceeds

LEMMA StepKept ==
  ASSUME TransInv, [TransNext]_vars
  PROVE  Kept'
<1>0. [Next]_tableVars /\ frames' \in Seq(Frame) /\ Kept
  BY StepMaps, StepFrames DEF TransInv
<1>1. CASE phase = "configure"
  <2>1. AsksTable
    BY <1>1, StepShape DEF TransInv, Began, Nothing, Unwinds, Starts, Visits,
       Proceeds, Running
  <2>2. frames' = << >> /\ \A t \in Type : memo'[t] = Null
    BY <1>1, <2>1 DEF TransInv, Began, Nothing, AsksTable, transVars
  <2> QED
    BY <2>2 DEF Kept, KeptBy
<1>2. CASE phase # "configure" /\ ~ConfiguredTemplate
  <2>1. KeptBy(memo, frames, result)
    BY <1>0, <1>2 DEF Kept
  <2>2. KeptBy(memo', frames', result')
    <3>1. AsksTable \/ Visits => KeptBy(memo', frames', result')
      BY <2>1 DEF AsksTable, transVars, Visits
    <3>2. Unwinds => KeptBy(memo', frames', result')
      BY <2>1 DEF Unwinds, Unwind, KeptBy
    <3>3. ASSUME Starts PROVE KeptBy(memo', frames', result')
      <4>1. Len(frames') = 1 /\ result' = Null /\ memo' = memo
        BY <3>3 DEF Starts
      <4> QED
        BY <2>1, <4>1 DEF KeptBy
    <3> QED
      BY <1>2, <3>1, <3>2, <3>3, ProceedKept, StepShape
  <2>3. PICK answers, calls, last :
          answers = memo' /\ calls = frames' /\ last = result'
    OBVIOUS
  <2>4. KeptBy(answers, calls, last) /\ calls \in Seq(Frame)
    BY <1>0, <2>2, <2>3
  <2>5. KeptBy(answers, calls, last)'
    BY <1>0, <1>2, <2>4, KeptStays
  <2> QED
    BY <2>3, <2>5 DEF Kept
<1>3. CASE phase # "configure" /\ ConfiguredTemplate
  BY <1>0, <1>3, ConfigurationStays DEF Kept
<1> QED
  BY <1>1, <1>2, <1>3

LEMMA StepTrans == TransInv /\ [TransNext]_vars => TransInv'
<1> SUFFICES ASSUME TransInv, [TransNext]_vars PROVE TransInv'
  OBVIOUS
<1>1. [Next]_tableVars
  BY StepMaps
<1>2. /\ IInv' /\ NamedDecided' /\ TemplatesSettled' /\ NamesFollow' /\ KindsFollow'
      /\ TargetsDecided'
  BY <1>1, StepInv, StepNamed, StepSettled, NamesFollowOn, KindsFollowOn,
     TargetsDecidedOn DEF TransInv
<1> QED
  BY <1>1, <1>2, StepFrames, StepTransType, StepNodes, StepBlames, StepNamedKinds,
     StepKept DEF TransInv

-----------------------------------------------------------------------------
(***************************************************************************)
(* The variables always have values of their types: a call is always on a  *)
(* type, never on what a null pointer stands for, and the node of a wrong  *)
(* kind of declaration is never asked for.                                 *)
(***************************************************************************)
THEOREM TransTypeCorrect == TransSpec => []TransTypeOK
<1>1. TransInv => TransTypeOK
  BY DEF TransInv
<1> QED
  BY <1>1, TransInitInv, StepTrans, PTL DEF TransSpec

(***************************************************************************)
(* The translation of types implements the table of types: it asks for the *)
(* strategies of wrappable types, and of what those refer to, and changes  *)
(* nothing else there.  All that is proved of TypeTable holds of it.       *)
(***************************************************************************)
THEOREM UsesTheTableCorrect == TransSpec => UsesTheTable
<1>1. TransInit => Init
  BY DEF TransInit
<1> QED
  BY <1>1, TransInitInv, StepTrans, StepMaps, PTL DEF TransSpec, UsesTheTable, Spec

(***************************************************************************)
(* A record type that callers were given, or that the translation would    *)
(* give them again, has the node that is registered for its declaration;   *)
(* it is an interface just when the strategy says so, unless the           *)
(* configuration named a record template.                                  *)
(***************************************************************************)
THEOREM NodeMatchesStrategyCorrect == TransSpec => []NodeMatchesStrategy
<1>1. TransInv => NodeMatchesStrategy
  <2> SUFFICES ASSUME TransInv, NEW t \in Type,
                      memo[t].class \in {"struct", "interface"}
               PROVE  /\ registered[memo[t].of] = memo[t].class
                      /\ ~ConfiguredTemplate =>
                           (memo[t].class = "interface"
                              <=> strategy[memo[t].of] = "INTERFACE")
    BY DEF NodeMatchesStrategy
  <2>1. memo[t].of \in Type /\ registered[memo[t].of] = memo[t].class
    BY DEF TransInv, AllRegistered, IsIn
  <2> QED
    BY <2>1 DEF TransInv, NodesFollow
<1> QED
  BY <1>1, TransInitInv, StepTrans, PTL DEF TransSpec

(***************************************************************************)
(* isReferenceType finds the strategies it needs unless a typedef was      *)
(* configured; getReplacement is asked of a type that is not replaced only *)
(* if a record template was configured; and a type is translated as a      *)
(* struct or an interface without being a record, or something that stands *)
(* for one, only if the configuration said so.                             *)
(***************************************************************************)
THEOREM FailsOnlyIfConfiguredCorrect == TransSpec => []FailsOnlyIfConfigured
<1>1. TransInv => FailsOnlyIfConfigured
  BY DEF TransInv
<1> QED
  BY <1>1, TransInitInv, StepTrans, PTL DEF TransSpec

(***************************************************************************)
(* A D type has as many pointers as the C++ type that it was remembered    *)
(* for, not counting those to a class or to a function, whatever was       *)
(* decided, remembered or tried again in between, unless a record template *)
(* was configured; also where the types refer to each other in a circle.   *)
(***************************************************************************)
THEOREM IndirectionKeptCorrect == TransSpec => []IndirectionKept
<1>1. TransInv => IndirectionKept
  <2> SUFFICES ASSUME TransInv, ~ConfiguredTemplate, NEW t \in Type, memo[t] # Null
               PROVE  Count("pointer", memo[t]) = PointersTo(memo[t].of)[t]
    BY DEF IndirectionKept
  <2>1. Leads(t, memo[t]) /\ memo[t] \in DType /\ TypeOK
    BY DEF TransInv, Kept, KeptBy, TransTypeOK
  <2>2. Count("pointer", memo[t]) \in Nat
    BY <2>1, PointersCounted
  <2> QED
    BY <2>1, <2>2, LeadsCounts DEF Leads
<1> QED
  BY <1>1, TransInitInv, StepTrans, PTL DEF TransSpec
=============================================================================
