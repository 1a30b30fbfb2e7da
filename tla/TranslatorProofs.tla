-------------------------- MODULE TranslatorProofs --------------------------
(***************************************************************************)
(* Proofs about Translator, for all declarations and all programs.         *)
(***************************************************************************)
EXTENDS Translator, TLAPS, SequenceTheorems

(* The types of the state together with the fact that the C++ program      *)
(* stays one of the given programs.                                        *)
TypeInv == TypeOK /\ prog \in Programs

(* What the assumption on Programs says of the program being translated.   *)
LEMMA ProgramFacts ==
  ASSUME prog \in Programs
  PROVE  /\ prog \in Program
         /\ WellFormed(prog)
         /\ \A d \in Decl : Children(d) \in Seq(Decl) /\ prog.uses[d] \in Seq(Use)
                            /\ prog.bases[d] \in Seq(Base)
         /\ \A t \in Decl : KindOf(t) = "typedef" => prog.uses[t][1] \in Use
<1>1. prog \in Program /\ WellFormed(prog)
  BY TranslatorAssumption
<1>2. \A d \in Decl : Children(d) \in Seq(Decl) /\ prog.uses[d] \in Seq(Use)
                      /\ prog.bases[d] \in Seq(Base)
  BY <1>1 DEF Program, Children
<1>3. \A t \in Decl : KindOf(t) = "typedef" => Len(prog.uses[t]) = 1
  BY <1>1 DEF WellFormed, KindOf
<1>4. \A t \in Decl : KindOf(t) = "typedef" => prog.uses[t][1] \in Use
  BY <1>2, <1>3, ElementOfSeq
<1>5. QED
  BY <1>1, <1>2, <1>4

(* The stack as the control operators use it.                              *)
LEMMA StackFacts ==
  ASSUME TypeInv, Len(stack) > 0
  PROVE  /\ Top \in Frame /\ Top.decl \in Decl
         /\ Pop \in Seq(Frame)
         /\ Len(Pop) = Len(stack) - 1
         /\ \A i \in 1..Len(Pop) : Pop[i] = stack[i]
         /\ Len(stack) > 1 => Caller \in Frame /\ Caller.decl \in Decl
<1>1. stack \in Seq(Frame) /\ Len(stack) \in Nat
  BY DEF TypeInv, TypeOK
<1>2. \A i \in 1..Len(stack) : stack[i] \in Frame
  BY <1>1, ElementOfSeq
<1>3. Top \in Frame /\ Top.decl \in Decl
  BY <1>1, <1>2 DEF Top, Frame
<1>4. Len(stack) > 1 => Caller \in Frame /\ Caller.decl \in Decl
  BY <1>1, <1>2 DEF Caller, Frame
<1>5. \A i \in 1..(Len(stack) - 1) : stack[i] \in Frame
  BY <1>1, <1>2
<1>6. /\ Pop \in Seq(Frame)
      /\ Len(Pop) = IF 1 <= Len(stack) - 1 THEN Len(stack) - 1 - 1 + 1 ELSE 0
      /\ \A i \in 1..(Len(stack) - 1 - 1 + 1) : Pop[i] = stack[1 + i - 1]
  BY <1>1, <1>5, SubSeqProperties DEF Pop
<1>7. Len(Pop) = Len(stack) - 1
  <2>1. \A n \in Nat : \A m :
          n > 0 /\ m = (IF 1 <= n - 1 THEN n - 1 - 1 + 1 ELSE 0) => m = n - 1
    OBVIOUS
  <2>2. QED
    BY <1>1, <1>6, <2>1
<1>8. \A i \in 1..Len(Pop) : Pop[i] = stack[i]
  <2>1. SUFFICES ASSUME NEW i \in 1..Len(Pop)
                 PROVE  Pop[i] = stack[i]
    OBVIOUS
  <2>2. i \in 1..(Len(stack) - 1 - 1 + 1) /\ 1 + i - 1 = i
    BY <1>1, <1>7
  <2>3. Pop[i] = stack[1 + i - 1]
    BY <1>6, <2>2, Zenon
  <2>4. QED
    BY <2>2, <2>3
<1>9. QED
  BY <1>3, <1>4, <1>6, <1>7, <1>8

(* Replacing the frame on top and entering a visitor keep a stack a stack. *)
LEMMA StepType ==
  ASSUME TypeInv, Len(stack) > 0, NEW f \in Frame, Step(f)
  PROVE  stack' \in Seq(Frame)
<1>1. stack \in Seq(Frame) /\ Len(stack) \in 1..Len(stack)
  BY DEF TypeInv, TypeOK
<1>2. QED
  BY <1>1, ExceptSeq DEF Step

LEMMA PushType ==
  ASSUME NEW s \in Seq(Frame), NEW d \in Decl, NEW ns \in Seq(Decl),
         Push(s, d, ns)
  PROVE  stack' \in Seq(Frame)
<1>1. [decl |-> d, phase |-> "enter", pos |-> 1, via |-> NoUse, ns |-> ns]
        \in Frame
  BY DEF Frame, Phase
<1>2. QED
  BY <1>1 DEF Push

(* Placing a node keeps the table and the output typed.                    *)
LEMMA PlaceType ==
  ASSUME TypeInv, NEW d \in Decl, NEW ns \in Seq(Decl),
         PlaceIntoTargetModule(d, ns)
  PROVE  placed' \subseteq Decl /\ output' \in Seq(Placement)
<1>1. output \in Seq(Placement) /\ [decl |-> d, ns |-> ns] \in Placement
  BY DEF TypeInv, TypeOK, Placement
<1>2. CASE d \in placed
  BY <1>1, <1>2 DEF TypeInv, TypeOK, PlaceIntoTargetModule, emitted
<1>3. CASE d \notin placed
  <2>1. Append(output, [decl |-> d, ns |-> ns]) \in Seq(Placement)
    BY <1>1
  <2>2. placed \subseteq Decl
    BY DEF TypeInv, TypeOK
  <2>3. QED
    BY <1>3, <2>1, <2>2 DEF PlaceIntoTargetModule
<1>4. QED
  BY <1>2, <1>3

LEMMA AddType ==
  ASSUME TypeInv, NEW p \in Decl, NEW d \in Decl, AddDeclaration(p, d)
  PROVE  /\ status' \in {"running", "done", "aborted"}
         /\ members' \in [Decl -> Seq(Member)]
<1>1. [role |-> "child", decl |-> d] \in Member /\ members[p] \in Seq(Member)
  BY DEF TypeInv, TypeOK, Member
<1>2. Append(members[p], [role |-> "child", decl |-> d]) \in Seq(Member)
  BY <1>1
<1>3. QED
  BY <1>2 DEF TypeInv, TypeOK, AddDeclaration, AddTo

(* A visitor that returns, with or without a result.                       *)
LEMMA ReturnType ==
  ASSUME TypeInv, Len(stack) > 0, NEW r, Return(r)
  PROVE  /\ stack' \in Seq(Frame)
         /\ status' \in {"running", "done", "aborted"}
         /\ members' \in [Decl -> Seq(Member)]
         /\ placed' \subseteq Decl /\ output' \in Seq(Placement)
<1>1. Top.decl \in Decl /\ Top.ns \in Seq(Decl) /\ Pop \in Seq(Frame)
  BY StackFacts DEF Frame
<1>2. stack' \in Seq(Frame)
  BY <1>1 DEF Return
<1>3. CASE UNCHANGED <<status, members, emitted>>
  BY <1>2, <1>3 DEF TypeInv, TypeOK, emitted
<1>4. CASE /\ Len(stack) > 1
           /\ AddDeclaration(Caller.decl, Top.decl) /\ UNCHANGED emitted
  <2>1. Caller.decl \in Decl
    BY <1>4, StackFacts
  <2>2. QED
    BY <1>1, <1>2, <1>4, <2>1, AddType DEF TypeInv, TypeOK, emitted
<1>5. CASE /\ PlaceIntoTargetModule(Top.decl, Top.ns)
           /\ UNCHANGED <<status, members>>
  BY <1>1, <1>2, <1>5, PlaceType DEF TypeInv, TypeOK
<1>6. QED
  BY <1>3, <1>4, <1>5 DEF Return

(* Registering a node, by its own visitor or by a reference to it.         *)
LEMMA ClassType ==
  ASSUME NEW d
  PROVE  /\ BuildClass(d) \in NodeClass \cup {NoNode}
         /\ StartClass(d) \in NodeClass \cup {NoNode}
BY DEF BuildClass, StartClass, NodeClass, NoNode

LEMMA RegisterType ==
  ASSUME TypeInv, NEW d \in Decl, Register(d)
  PROVE  translated' \in [Decl -> NodeClass \cup {NoNode}]
BY ClassType DEF TypeInv, TypeOK, Register

LEMMA StartType ==
  ASSUME TypeInv, NEW t \in Decl, StartDeclTypeBuild(t)
  PROVE  /\ translated' \in [Decl -> NodeClass \cup {NoNode}]
         /\ started' \subseteq Decl
BY ClassType DEF TypeInv, TypeOK, StartDeclTypeBuild

(* What a visitor is about to look at: a type, a superclass, a child.      *)
LEMMA CurrentFacts ==
  ASSUME TypeInv, Len(stack) > 0
  PROVE  /\ AtType => CurrentUse \in Use
         /\ Top.pos <= Len(prog.bases[Top.decl]) => CurrentBase.to \in Decl
         /\ Top.pos <= Len(Children(Top.decl)) => CurrentChild \in Decl
<1>1. Top \in Frame /\ prog \in Programs
  BY StackFacts DEF TypeInv
<1>2. Top.decl \in Decl /\ Top.pos \in Nat \ {0} /\ Top.via \in Use \cup {NoUse}
  BY <1>1 DEF Frame
<1>3. /\ Children(Top.decl) \in Seq(Decl)
      /\ prog.uses[Top.decl] \in Seq(Use)
      /\ prog.bases[Top.decl] \in Seq(Base)
  BY <1>1, <1>2, ProgramFacts
<1>4. AtType => CurrentUse \in Use
  <2>1. SUFFICES ASSUME AtType, Top.via = NoUse
                 PROVE  prog.uses[Top.decl][Top.pos] \in Use
    BY <1>2 DEF CurrentUse
  <2>2. Top.pos \in 1..Len(prog.uses[Top.decl])
    BY <1>2, <1>3, <2>1 DEF AtType
  <2>3. QED
    BY <1>3, <2>2, ElementOfSeq
<1>5. Top.pos <= Len(prog.bases[Top.decl]) => CurrentBase.to \in Decl
  <2>1. SUFFICES ASSUME Top.pos <= Len(prog.bases[Top.decl])
                 PROVE  CurrentBase \in Base
    BY DEF Base
  <2>2. Top.pos \in 1..Len(prog.bases[Top.decl])
    BY <1>2, <1>3, <2>1
  <2>3. QED
    BY <1>3, <2>2, ElementOfSeq DEF CurrentBase
<1>6. Top.pos <= Len(Children(Top.decl)) => CurrentChild \in Decl
  <2>1. SUFFICES ASSUME Top.pos <= Len(Children(Top.decl))
                 PROVE  CurrentChild \in Decl
    OBVIOUS
  <2>2. Top.pos \in 1..Len(Children(Top.decl))
    BY <1>2, <1>3, <2>1
  <2>3. QED
    BY <1>3, <2>2, ElementOfSeq DEF CurrentChild
<1>7. QED
  BY <1>4, <1>5, <1>6

(* The frames that a visitor goes on with.                                 *)
LEMMA FrameType ==
  ASSUME TypeInv, Len(stack) > 0
  PROVE  /\ \A p \in Phase : [Top EXCEPT !.phase = p] \in Frame
         /\ \A p \in Phase : [Top EXCEPT !.phase = p, !.pos = 1] \in Frame
         /\ [Top EXCEPT !.pos = @ + 1] \in Frame
         /\ [Top EXCEPT !.pos = @ + 1, !.via = NoUse] \in Frame
         /\ \A u \in Use : [Top EXCEPT !.via = u] \in Frame
<1>1. Top \in Frame
  BY StackFacts
<1>2. \A f \in Frame : f.pos + 1 \in Nat \ {0}
  BY DEF Frame
<1>3. \A f \in Frame, p \in Phase : [f EXCEPT !.phase = p] \in Frame
  BY DEF Frame
<1>4. \A f \in Frame, n \in Nat \ {0} :
        /\ [f EXCEPT !.pos = n] \in Frame
        /\ [f EXCEPT !.pos = n, !.via = NoUse] \in Frame
  BY DEF Frame
<1>5. \A f \in Frame, p \in Phase, n \in Nat \ {0} :
        [f EXCEPT !.phase = p, !.pos = n] \in Frame
  BY DEF Frame
<1>6. \A f \in Frame, u \in Use : [f EXCEPT !.via = u] \in Frame
  BY DEF Frame
<1>7. 1 \in Nat \ {0}
  OBVIOUS
<1>8. QED
  BY <1>1, <1>2, <1>3, <1>4, <1>5, <1>6, <1>7, Zenon

(* The loop of populateDAST keeps the types.                               *)
LEMMA PopulateType ==
  ASSUME TypeInv, Populate
  PROVE  TypeInv'
<1>1. prog.free \in Seq(Decl)
  BY ProgramFacts DEF TypeInv, Program
<1>2. AtFree => prog.free[next] \in Decl /\ <<>> \in Seq(Decl)
  BY <1>1, ElementOfSeq DEF AtFree, TypeInv, TypeOK
<1>3. CASE PopulateSkip
  BY <1>3 DEF TypeInv, TypeOK, PopulateSkip, nodes, emitted, history
<1>4. CASE PopulateTranslated
  <2>1. placed' \subseteq Decl /\ output' \in Seq(Placement)
    <3>1. CASE Has(prog.free[next], "emit")
      <4>1. /\ prog.free[next] \in Decl /\ <<>> \in Seq(Decl)
            /\ PlaceIntoTargetModule(prog.free[next], <<>>)
        BY <1>2, <1>4, <3>1 DEF PopulateTranslated
      <4>2. QED
        BY <4>1, PlaceType
    <3>2. CASE ~Has(prog.free[next], "emit")
      BY <1>4, <3>2 DEF PopulateTranslated, TypeInv, TypeOK, emitted
    <3>3. QED
      BY <3>1, <3>2
  <2>2. QED
    BY <1>4, <2>1 DEF TypeInv, TypeOK, PopulateTranslated, nodes, history
<1>5. CASE PopulateVisit
  <2>1. stack' \in Seq(Frame)
    <3>1. /\ prog.free[next] \in Decl /\ <<>> \in Seq(Decl)
          /\ stack \in Seq(Frame) /\ Push(stack, prog.free[next], <<>>)
      BY <1>2, <1>5 DEF PopulateVisit, TypeInv, TypeOK
    <3>2. QED
      BY <3>1, PushType
  <2>2. QED
    BY <1>5, <2>1
       DEF TypeInv, TypeOK, PopulateVisit, nodes, emitted, history
<1>6. CASE PopulateEnd
  BY <1>6 DEF TypeInv, TypeOK, PopulateEnd, nodes, emitted, history
<1>7. QED
  BY <1>3, <1>4, <1>5, <1>6 DEF Populate

(* Entering a visitor keeps the types.                                     *)
LEMMA EnterType ==
  ASSUME TypeInv, Enter
  PROVE  TypeInv'
<1>1. Len(stack) > 0
  BY DEF Enter, VisitNothing, VisitMemoised, VisitRejectedMethod,
         VisitCallable, VisitTyped, VisitRecord, VisitClass, VisitUnion,
         VisitNamespace, InPhase
<1>2. Top.decl \in Decl /\ Pop \in Seq(Frame)
  BY <1>1, StackFacts
<1>3. /\ [Top EXCEPT !.phase = "types"] \in Frame
      /\ [Top EXCEPT !.phase = "bases"] \in Frame
      /\ [Top EXCEPT !.phase = "body"] \in Frame
  BY <1>1, FrameType DEF Phase
<1>4. ASSUME NEW p \in {"types", "bases", "body"},
             Step([Top EXCEPT !.phase = p])
      PROVE  stack' \in Seq(Frame)
  BY <1>1, <1>3, <1>4, StepType
<1>5. Register(Top.decl) => translated' \in [Decl -> NodeClass \cup {NoNode}]
  BY <1>2, RegisterType
<1>6. \A r : Return(r) => /\ stack' \in Seq(Frame)
                          /\ status' \in {"running", "done", "aborted"}
                          /\ members' \in [Decl -> Seq(Member)]
                          /\ placed' \subseteq Decl /\ output' \in Seq(Placement)
  BY <1>1, ReturnType
<1>7. CASE VisitNothing
  BY <1>6, <1>7 DEF VisitNothing, TypeInv, TypeOK, nodes, history
<1>8. CASE VisitMemoised
  BY <1>6, <1>8 DEF VisitMemoised, TypeInv, TypeOK, nodes, history
<1>9. CASE VisitRejectedMethod
  BY <1>2, <1>5, <1>9 DEF VisitRejectedMethod, Throw, TypeInv, TypeOK, emitted
<1>10. CASE VisitCallable
  BY <1>2, <1>4, <1>5, <1>10
     DEF VisitCallable, TypeInv, TypeOK, emitted, history
<1>11. CASE VisitTyped
  BY <1>2, <1>4, <1>5, <1>11 DEF VisitTyped, TypeInv, TypeOK, emitted, history
<1>12. CASE VisitRecord
  BY <1>2, <1>4, <1>5, <1>12 DEF VisitRecord, TypeInv, TypeOK, emitted, history
<1>13. CASE VisitClass
  BY <1>2, <1>13 DEF VisitClass, Throw, TypeInv, TypeOK, nodes, emitted
<1>14. CASE VisitUnion
  BY <1>2, <1>4, <1>5, <1>14 DEF VisitUnion, TypeInv, TypeOK, emitted, history
<1>15. CASE VisitNamespace
  BY <1>4, <1>15 DEF VisitNamespace, TypeInv, TypeOK, nodes, emitted, history
<1>16. QED
  BY <1>7, <1>8, <1>9, <1>10, <1>11, <1>12, <1>13, <1>14, <1>15 DEF Enter

(* Translating a type keeps the types of the state.                        *)
LEMMA TypesType ==
  ASSUME TypeInv, Types
  PROVE  TypeInv'
<1>1. Len(stack) > 0
  BY DEF Types, TypeFallback, TypeReject, TypeResolve, TypesEnd, EnumTypeEnd,
         AtType, InPhase
<1>2. Top.decl \in Decl /\ Pop \in Seq(Frame) /\ Top.pos \in Nat
  BY <1>1, StackFacts DEF Frame
<1>3. CASE TypeFallback
  <2>1. prog.uses[CurrentUse.to][1] \in Use
    BY <1>3, ProgramFacts DEF TypeFallback, FallsBack, TypeInv
  <2>2. stack' \in Seq(Frame)
    BY <1>1, <1>3, <2>1, FrameType, StepType DEF TypeFallback
  <2>3. QED
    BY <1>3, <2>2 DEF TypeFallback, TypeInv, TypeOK, nodes, emitted, history
<1>4. CASE TypeReject
  BY <1>2, <1>4 DEF TypeReject, Throw, TypeInv, TypeOK, nodes, emitted
<1>5. CASE TypeResolve
  <2>1. /\ translated' \in [Decl -> NodeClass \cup {NoNode}]
        /\ started' \subseteq Decl
    <3>1. CASE CurrentUse.to = Builtin
      BY <1>5, <3>1 DEF TypeResolve, TypeInv, TypeOK
    <3>2. CASE CurrentUse.to # Builtin
      <4>1. CurrentUse \in Use
        BY <1>1, <1>5, CurrentFacts DEF TypeResolve
      <4>2. CurrentUse.to # Untranslatable
        BY <1>5 DEF TypeResolve, Translatable
      <4>3. CurrentUse.to \in Decl
        BY <3>2, <4>1, <4>2 DEF Use
      <4>4. StartDeclTypeBuild(CurrentUse.to)
        BY <1>5, <3>2 DEF TypeResolve
      <4>5. QED
        BY <4>3, <4>4, StartType
    <3>3. QED
      BY <3>1, <3>2
  <2>2. stack' \in Seq(Frame)
    BY <1>1, <1>5, FrameType, StepType DEF TypeResolve
  <2>3. typed' \in [Decl -> Nat]
    BY <1>2, <1>5 DEF TypeResolve, TypeInv, TypeOK
  <2>4. QED
    BY <1>5, <2>1, <2>2, <2>3 DEF TypeResolve, TypeInv, TypeOK, emitted
<1>6. CASE TypesEnd
  <2>1. PICK r : Return(r)
    BY <1>6 DEF TypesEnd
  <2>2. /\ stack' \in Seq(Frame)
        /\ status' \in {"running", "done", "aborted"}
        /\ members' \in [Decl -> Seq(Member)]
        /\ placed' \subseteq Decl /\ output' \in Seq(Placement)
    BY <1>1, <2>1, ReturnType
  <2>3. QED
    BY <1>2, <1>6, <2>2 DEF TypesEnd, TypeInv, TypeOK
<1>7. CASE EnumTypeEnd
  <2>1. stack' \in Seq(Frame)
    BY <1>1, <1>7, FrameType, StepType DEF EnumTypeEnd, Phase
  <2>2. QED
    BY <1>7, <2>1 DEF EnumTypeEnd, TypeInv, TypeOK, nodes, emitted, history
<1>8. QED
  BY <1>3, <1>4, <1>5, <1>6, <1>7 DEF Types

(* Translating a superclass keeps the types of the state.                  *)
LEMMA BasesType ==
  ASSUME TypeInv, Bases
  PROVE  TypeInv'
<1>1. Len(stack) > 0
  BY DEF Bases, BaseReject, BaseMismatch, StructBase, StructSurplusBase,
         InterfaceBase, InterfaceHiddenBase, BasesEnd, AtBase, InPhase
<1>2. Top.decl \in Decl /\ Pop \in Seq(Frame)
  BY <1>1, StackFacts
<1>3. \A b : AtBase(b) => CurrentBase.to \in Decl
  BY <1>1, CurrentFacts DEF AtBase
<1>4. ASSUME NEW strategy, AtBase(strategy), StartDeclTypeBuild(CurrentBase.to)
      PROVE  /\ translated' \in [Decl -> NodeClass \cup {NoNode}]
             /\ started' \subseteq Decl
  BY <1>3, <1>4, StartType
<1>5. ASSUME NEW strategy, AtBase(strategy)
      PROVE  /\ \A role \in {"child", "base", "alias"} : AsMember(role) \in Member
             /\ StructMembers \in Seq(Member)
             /\ <<AsMember("base")>> \in Seq(Member)
  <2>1. \A role \in {"child", "base", "alias"} : AsMember(role) \in Member
    BY <1>3, <1>5 DEF AsMember, Member
  <2>2. QED
    BY <2>1 DEF StructMembers
<1>6. ASSUME NEW added \in Seq(Member), AddBase(added)
      PROVE  members' \in [Decl -> Seq(Member)]
  <2>1. members[Top.decl] \o added \in Seq(Member)
    BY <1>2, <1>6 DEF TypeInv, TypeOK
  <2>2. QED
    BY <1>2, <1>6, <2>1 DEF AddBase, TypeInv, TypeOK
<1>7. ASSUME Step([Top EXCEPT !.pos = @ + 1])
      PROVE  stack' \in Seq(Frame)
  BY <1>1, <1>7, FrameType, StepType
<1>8. CASE BaseReject
  BY <1>2, <1>8 DEF BaseReject, Throw, TypeInv, TypeOK, nodes, emitted
<1>9. CASE BaseMismatch
  BY <1>2, <1>4, <1>9 DEF BaseMismatch, Throw, TypeInv, TypeOK, emitted
<1>10. CASE StructBase
  <2>1. members' \in [Decl -> Seq(Member)]
    BY <1>5, <1>6, <1>10 DEF StructBase
  <2>2. QED
    BY <1>4, <1>7, <1>10, <2>1 DEF StructBase, TypeInv, TypeOK, emitted
<1>11. CASE StructSurplusBase
  <2>1. members' \in [Decl -> Seq(Member)]
    BY <1>5, <1>6, <1>11 DEF StructSurplusBase
  <2>2. QED
    BY <1>2, <1>4, <1>11, <2>1
       DEF StructSurplusBase, Throw, TypeInv, TypeOK, emitted
<1>12. CASE InterfaceBase
  <2>1. members' \in [Decl -> Seq(Member)]
    BY <1>5, <1>6, <1>12 DEF InterfaceBase
  <2>2. QED
    BY <1>4, <1>7, <1>12, <2>1 DEF InterfaceBase, TypeInv, TypeOK, emitted
<1>13. CASE InterfaceHiddenBase
  BY <1>7, <1>13
     DEF InterfaceHiddenBase, TypeInv, TypeOK, nodes, emitted, history
<1>14. CASE BasesEnd
  <2>1. stack' \in Seq(Frame)
    BY <1>1, <1>14, FrameType, StepType DEF BasesEnd, Phase
  <2>2. QED
    BY <1>14, <2>1 DEF BasesEnd, TypeInv, TypeOK, nodes, emitted, history
<1>15. QED
  BY <1>8, <1>9, <1>10, <1>11, <1>12, <1>13, <1>14 DEF Bases

(* Walking a body keeps the types of the state.                            *)
LEMMA BodyType ==
  ASSUME TypeInv, Body
  PROVE  TypeInv'
<1>1. Len(stack) > 0
  BY DEF Body, ChildSkip, ChildAddAgain, ChildVisit, BodyEnd, NamespaceChild,
         NamespaceEnd, EnumConstant, EnumEnd, AtChild, InPhase
<1>2. Top.decl \in Decl /\ Top.ns \in Seq(Decl) /\ Top \in Frame
  BY <1>1, StackFacts DEF Frame
<1>3. \A kinds : AtChild(kinds) => CurrentChild \in Decl
  BY <1>1, CurrentFacts DEF AtChild
<1>4. NextChild \in Frame
  BY <1>1, FrameType DEF NextChild
<1>5. Step(NextChild) => stack' \in Seq(Frame)
  BY <1>1, <1>4, StepType
<1>6. [stack EXCEPT ![Len(stack)] = NextChild] \in Seq(Frame)
  <2>1. stack \in Seq(Frame) /\ Len(stack) \in 1..Len(stack)
    BY <1>1 DEF TypeInv, TypeOK
  <2>2. QED
    BY <1>4, <2>1, ExceptSeq
<1>7. \A r : Return(r) => /\ stack' \in Seq(Frame)
                          /\ status' \in {"running", "done", "aborted"}
                          /\ members' \in [Decl -> Seq(Member)]
                          /\ placed' \subseteq Decl /\ output' \in Seq(Placement)
  BY <1>1, ReturnType
<1>8. CASE ChildSkip
  BY <1>5, <1>8 DEF ChildSkip, TypeInv, TypeOK, nodes, emitted, history
<1>9. CASE ChildAddAgain
  <2>1. CurrentChild \in Decl /\ AddDeclaration(Top.decl, CurrentChild)
    BY <1>3, <1>9 DEF ChildAddAgain
  <2>2. /\ status' \in {"running", "done", "aborted"}
        /\ members' \in [Decl -> Seq(Member)]
    BY <1>2, <2>1, AddType
  <2>3. QED
    BY <1>5, <1>9, <2>2
       DEF ChildAddAgain, TypeInv, TypeOK, nodes, emitted, history
<1>10. CASE ChildVisit
  <2>1. stack' \in Seq(Frame)
    BY <1>2, <1>3, <1>6, <1>10, PushType DEF ChildVisit
  <2>2. QED
    BY <1>10, <2>1 DEF ChildVisit, TypeInv, TypeOK, nodes, emitted, history
<1>11. CASE BodyEnd
  BY <1>2, <1>7, <1>11 DEF BodyEnd, TypeInv, TypeOK, nodes
<1>12. CASE NamespaceChild
  <2>1. ThisNamespacePath \in Seq(Decl)
    BY <1>2 DEF ThisNamespacePath
  <2>2. stack' \in Seq(Frame)
    BY <1>3, <1>6, <1>12, <2>1, PushType DEF NamespaceChild
  <2>3. QED
    BY <1>12, <2>2 DEF NamespaceChild, TypeInv, TypeOK, nodes, emitted, history
<1>13. CASE NamespaceEnd
  BY <1>7, <1>13 DEF NamespaceEnd, TypeInv, TypeOK, nodes, history
<1>14. CASE EnumConstant
  <2>1. CurrentChild \in Decl
    BY <1>3, <1>14 DEF EnumConstant
  <2>2. translated' \in [Decl -> NodeClass \cup {NoNode}]
    BY <1>14, <2>1, RegisterType DEF EnumConstant
  <2>3. Append(members[Top.decl], [role |-> "child", decl |-> CurrentChild])
          \in Seq(Member)
    <3>1. [role |-> "child", decl |-> CurrentChild] \in Member
      BY <2>1 DEF Member
    <3>2. QED
      BY <1>2, <3>1 DEF TypeInv, TypeOK
  <2>4. members' \in [Decl -> Seq(Member)]
    BY <1>2, <1>14, <2>3 DEF EnumConstant, TypeInv, TypeOK
  <2>5. QED
    BY <1>5, <1>14, <2>1, <2>2, <2>4
       DEF EnumConstant, TypeInv, TypeOK, emitted
<1>15. CASE EnumEnd
  BY <1>2, <1>7, <1>15 DEF EnumEnd, TypeInv, TypeOK, nodes
<1>16. QED
  BY <1>8, <1>9, <1>10, <1>11, <1>12, <1>13, <1>14, <1>15 DEF Body

LEMMA TypeInit == Init => TypeInv
<1>1. SUFFICES ASSUME Init
               PROVE  TypeInv
  OBVIOUS
<1>2. \A d \in Decl : <<>> \in Seq(Member)
  OBVIOUS
<1>3. QED
  BY <1>1, <1>2 DEF Init, TypeInv, TypeOK

LEMMA TypeStep == TypeInv /\ [Next]_vars => TypeInv'
<1>1. CASE UNCHANGED vars
  BY <1>1 DEF vars, TypeInv, TypeOK
<1>2. CASE Next
  BY <1>2, PopulateType, EnterType, TypesType, BasesType, BodyType DEF Next
<1>3. QED
  BY <1>1, <1>2

(* Every variable keeps its type: in particular the tables hold nodes of   *)
(* the classes that the visitors ask for, and the output only known        *)
(* declarations.                                                           *)
THEOREM TypeCorrect == Spec => []TypeOK
<1>1. TypeInv => TypeOK
  BY DEF TypeInv
<1>2. QED
  BY TypeInit, TypeStep, <1>1, PTL DEF Spec

(* Every step leaves the table of placed declarations and the output alone *)
(* or places one declaration: the next free one, or the one whose visitor  *)
(* returns to populateDAST or to a namespace, built to the end or found to *)
(* have a node right at the beginning.                                     *)
HasResult(d) ==
  IF Top.phase = "enter"
    THEN translated[d] # NoNode /\ (KindOf(d) = "function" \/ BuildClass(d) = NoNode)
    ELSE d \in built' /\ (KindOf(d) = "namespace" => Top.phase = "types")
Placing(d, ns) ==
  \/ /\ AtFree /\ d = prog.free[next] /\ ns = <<>> /\ translated[d] # NoNode
     /\ next' = next + 1
  \/ /\ Len(stack) > 0 /\ d = Top.decl /\ ns = Top.ns /\ stack' = Pop
     /\ Len(stack) > 1 => KindOf(Caller.decl) = "namespace"
     /\ HasResult(d)
EmittedStep ==
  \/ UNCHANGED emitted
  \/ \E d \in Decl, ns \in Seq(Decl) :
       Placing(d, ns) /\ PlaceIntoTargetModule(d, ns)

LEMMA ReturnEmits ==
  ASSUME TypeInv, Len(stack) > 0, NEW r, Return(r),
         r /\ Has(Top.decl, "emit") => HasResult(Top.decl)
  PROVE  EmittedStep
<1>1. Top.decl \in Decl /\ Top.ns \in Seq(Decl)
  BY StackFacts DEF Frame
<1>2. QED
  BY <1>1 DEF Return, EmittedStep, Placing

LEMMA EmittedSteps ==
  ASSUME TypeInv, [Next]_vars
  PROVE  EmittedStep
<1>1. CASE UNCHANGED vars
  BY <1>1 DEF vars, EmittedStep, emitted
<1>2. CASE Populate
  <2>1. AtFree => prog.free[next] \in Decl /\ <<>> \in Seq(Decl)
    <3>1. prog.free \in Seq(Decl)
      BY ProgramFacts DEF TypeInv, Program
    <3>2. QED
      BY <3>1, ElementOfSeq DEF AtFree, TypeInv, TypeOK
  <2>2. CASE PopulateTranslated
    BY <2>1, <2>2 DEF PopulateTranslated, EmittedStep, Placing, AtFree
  <2>3. QED
    BY <1>2, <2>2
       DEF Populate, PopulateSkip, PopulateVisit, PopulateEnd, EmittedStep
<1>3. CASE Enter
  <2>1. CASE VisitNothing \/ VisitMemoised
    <3>1. Len(stack) > 0 /\ Top.phase = "enter"
      BY <2>1 DEF VisitNothing, VisitMemoised, InPhase
    <3>2. CASE VisitNothing
      <4>1. PICK r : Return(r) /\ (r => KindOf(Top.decl) = "record"
                                         /\ translated[Top.decl] # NoNode)
        BY <3>2 DEF VisitNothing
      <4>2. KindOf(Top.decl) = "record" /\ Has(Top.decl, "emit")
              => BuildClass(Top.decl) = NoNode
        <5>1. SUFFICES ASSUME KindOf(Top.decl) = "record", Has(Top.decl, "emit")
                       PROVE  BuildClass(Top.decl) = NoNode
          OBVIOUS
        <5>2. Has(Top.decl, "defined")
          BY <3>1, <5>1, StackFacts, ProgramFacts DEF TypeInv, WellFormed, KindOf, Has
        <5>3. StrategyOf(Top.decl) = "REPLACE"
          BY <3>2, <5>1, <5>2 DEF VisitNothing, BuildsNothing
        <5> QED
          BY <5>1, <5>3 DEF BuildClass
      <4> QED
        BY <3>1, <4>1, <4>2, ReturnEmits DEF HasResult
    <3>3. CASE VisitMemoised
      BY <3>1, <3>3, ReturnEmits DEF VisitMemoised, InPhase, HasResult
    <3> QED
      BY <2>1, <3>2, <3>3
  <2>2. QED
    BY <1>3, <2>1
       DEF Enter, VisitRejectedMethod, VisitCallable, VisitTyped, VisitRecord,
           VisitClass, VisitUnion, VisitNamespace, EmittedStep
<1>4. CASE Types
  <2>1. CASE TypesEnd
    <3>1. Len(stack) > 0 /\ Top.phase = "types" /\ Top.decl \in built'
      BY <2>1 DEF TypesEnd, InPhase
    <3>2. \A r : Return(r) => EmittedStep
      BY <3>1, ReturnEmits DEF HasResult
    <3> QED
      BY <2>1, <3>2 DEF TypesEnd
  <2>2. QED
    BY <1>4, <2>1
       DEF Types, TypeFallback, TypeReject, TypeResolve, EnumTypeEnd, EmittedStep
<1>5. CASE Bases
  BY <1>5 DEF Bases, BaseReject, BaseMismatch, StructBase, StructSurplusBase,
              InterfaceBase, InterfaceHiddenBase, BasesEnd, EmittedStep
<1>6. CASE Body
  <2>1. CASE BodyEnd \/ NamespaceEnd \/ EnumEnd
    BY <2>1, ReturnEmits DEF BodyEnd, NamespaceEnd, EnumEnd, InPhase, HasResult
  <2>2. QED
    BY <1>6, <2>1
       DEF Body, ChildSkip, ChildAddAgain, ChildVisit, NamespaceChild,
           EnumConstant, EmittedStep
<1>7. QED
  BY <1>1, <1>2, <1>3, <1>4, <1>5, <1>6 DEF Next

LEMMA PlacedOnceStep ==
  ASSUME TypeInv, PlacedOnce, EmittedStep
  PROVE  PlacedOnce'
<1>1. CASE UNCHANGED emitted
  BY <1>1 DEF PlacedOnce, emitted
<1>2. ASSUME NEW d \in Decl, NEW ns \in Seq(Decl), PlaceIntoTargetModule(d, ns)
      PROVE  PlacedOnce'
  <2>1. CASE d \in placed
    BY <1>1, <1>2, <2>1 DEF PlaceIntoTargetModule
  <2>2. CASE d \notin placed
    <3>1. /\ placed' = placed \cup {d}
          /\ output' = Append(output, [decl |-> d, ns |-> ns])
      BY <1>2, <2>2 DEF PlaceIntoTargetModule
    <3>2. output \in Seq(Placement) /\ [decl |-> d, ns |-> ns] \in Placement
      BY DEF TypeInv, TypeOK, Placement
    <3>3. /\ Len(output) \in Nat /\ Len(output') = Len(output) + 1
          /\ \A i \in 1..Len(output) : output'[i] = output[i]
          /\ output'[Len(output) + 1].decl = d
      BY <3>1, <3>2
    <3>4. placed' = {output'[i].decl : i \in 1..Len(output')}
      BY <3>1, <3>3 DEF PlacedOnce
    <3>5. \A i \in 1..Len(output) : output[i].decl # d
      BY <2>2 DEF PlacedOnce
    <3>6. \A i, j \in 1..Len(output') :
            output'[i].decl = output'[j].decl => i = j
      <4>1. SUFFICES ASSUME NEW i \in 1..Len(output'), NEW j \in 1..Len(output'),
                            output'[i].decl = output'[j].decl
                     PROVE  i = j
        OBVIOUS
      <4>2. CASE i <= Len(output) /\ j <= Len(output)
        BY <3>3, <4>1, <4>2 DEF PlacedOnce
      <4>3. CASE i = Len(output) + 1 \/ j = Len(output) + 1
        BY <3>3, <3>5, <4>1, <4>3
      <4>4. QED
        BY <3>3, <4>2, <4>3
    <3>7. QED
      BY <3>4, <3>6 DEF PlacedOnce
  <2>3. QED
    BY <2>1, <2>2
<1>3. QED
  BY <1>1, <1>2 DEF EmittedStep

(* However often C++ declares a name and in whatever order the visitors    *)
(* meet it, the output module gets its node at most once, and the table    *)
(* placedDeclarations tells exactly what is there.                         *)
THEOREM PlacedOnceCorrect == Spec => []PlacedOnce
<1>1. Init => PlacedOnce
  BY DEF Init, PlacedOnce
<1>2. TypeInv /\ PlacedOnce /\ [Next]_vars => PlacedOnce'
  BY EmittedSteps, PlacedOnceStep
<1>3. QED
  BY TypeInit, TypeStep, <1>1, <1>2, PTL DEF Spec

-----------------------------------------------------------------------------
(* The stack of visitors.                                                  *)

(* A visitor f that the visitor c called for one of its children.          *)
Link(c, f) ==
  /\ c.phase = "body" /\ KindOf(c.decl) \in {"namespace", "record", "union"}
  /\ c.pos - 1 \in 1..Len(Children(c.decl))
  /\ f.decl = Children(c.decl)[c.pos - 1]
  /\ KindOf(c.decl) = "namespace" => f.ns = Append(c.ns, c.decl)
  /\ KindOf(c.decl) # "namespace" =>
       f.ns = c.ns /\ f.decl # c.decl /\ Has(f.decl, "wrappable")

(* The outermost visitor is the one that populateDAST called last.         *)
Root(f, n) ==
  /\ n - 1 \in 1..Len(prog.free)
  /\ f.decl = prog.free[n - 1] /\ Has(f.decl, "wrappable")
  /\ f.ns = <<>>

CallsNest ==
  /\ Len(stack) > 0 => Root(stack[1], next)
  /\ \A k \in 1..(Len(stack) - 1) : Link(stack[k], stack[k + 1])

NewFrame(d, ns) ==
  [decl |-> d, phase |-> "enter", pos |-> 1, via |-> NoUse, ns |-> ns]

(* What a step does to the stack and the loop of populateDAST.             *)
Stays == UNCHANGED <<stack, next>> /\ (stack = <<>> \/ UNCHANGED vars)
PassesOver ==
  /\ stack = <<>> /\ UNCHANGED stack /\ next <= Len(prog.free) /\ next' = next + 1
  /\ Has(prog.free[next], "wrappable") =>
       /\ translated[prog.free[next]] # NoNode
       /\ Has(prog.free[next], "emit") => prog.free[next] \in placed'
Begins ==
  /\ AtFree /\ Has(prog.free[next], "wrappable")
  /\ translated[prog.free[next]] = NoNode /\ UNCHANGED nodes
  /\ next' = next + 1
  /\ stack' = <<NewFrame(prog.free[next], <<>>)>>
(* What the visitor on top may become without returning.                   *)
Later == {f \in Frame : f.decl = Top.decl /\ f.ns = Top.ns}
GoesOn ==
  /\ Len(stack) > 0 /\ next' = next
  /\ \E f \in Later : Step(f)
Ends ==
  /\ Len(stack) > 0 /\ next' = next /\ stack' = Pop
  /\ Top.phase # "enter" /\ KindOf(Top.decl) # "namespace"
       => Top.decl \in built' \cup threw'
Calls ==
  /\ Len(stack) > 0 /\ next' = next /\ UNCHANGED nodes
  /\ \E d \in Decl, ns \in Seq(Decl) :
       /\ KindOf(Top.decl) # "namespace" => translated[d] = NoNode
       /\ Link(NextChild, NewFrame(d, ns))
       /\ stack' = Append([stack EXCEPT ![Len(stack)] = NextChild], NewFrame(d, ns))

StackStep == Stays \/ PassesOver \/ Begins \/ GoesOn \/ Ends \/ Calls

LEMMA TopGoesOn ==
  ASSUME TypeInv, Len(stack) > 0
  PROVE  /\ \A p \in Phase : [Top EXCEPT !.phase = p] \in Later
         /\ \A p \in Phase : [Top EXCEPT !.phase = p, !.pos = 1] \in Later
         /\ [Top EXCEPT !.pos = @ + 1] \in Later
         /\ [Top EXCEPT !.pos = @ + 1, !.via = NoUse] \in Later
         /\ \A u \in Use : [Top EXCEPT !.via = u] \in Later
<1>1. Top \in Frame
  BY StackFacts
<1> DEFINE Same(f) == f.decl = Top.decl /\ f.ns = Top.ns
<1>2. \A p : Same([Top EXCEPT !.phase = p])
  BY <1>1 DEF Frame
<1>3. \A p : Same([Top EXCEPT !.phase = p, !.pos = 1])
  BY <1>1 DEF Frame
<1>4. /\ Same([Top EXCEPT !.pos = @ + 1])
      /\ Same([Top EXCEPT !.pos = @ + 1, !.via = NoUse])
      /\ \A u : Same([Top EXCEPT !.via = u])
  BY <1>1 DEF Frame
<1>5. \A f \in Frame : Same(f) => f \in Later
  BY DEF Later
<1> HIDE DEF Same
<1> QED
  BY <1>2, <1>3, <1>4, <1>5, FrameType

(* A visitor calls another one only from the body of what it walks.        *)
LEMMA ChildLinks ==
  ASSUME TypeInv, NEW kinds, AtChild(kinds), kinds \subseteq {"namespace", "record", "union"},
         KindOf(Top.decl) # "namespace" => ~PassedOver(Top.decl, CurrentChild)
  PROVE  /\ Len(stack) > 0 /\ CurrentChild \in Decl
         /\ KindOf(Top.decl) = "namespace" =>
              /\ ThisNamespacePath \in Seq(Decl)
              /\ Link(NextChild, NewFrame(CurrentChild, ThisNamespacePath))
         /\ KindOf(Top.decl) # "namespace" =>
              /\ Top.ns \in Seq(Decl)
              /\ Link(NextChild, NewFrame(CurrentChild, Top.ns))
<1>1. Len(stack) > 0 /\ Top.pos <= Len(Children(Top.decl))
  BY DEF AtChild, InPhase
<1>2. Top \in Frame /\ CurrentChild \in Decl
  BY <1>1, StackFacts, CurrentFacts
<1>3. /\ Top.pos \in Nat \ {0} /\ Top.ns \in Seq(Decl) /\ Top.decl \in Decl
      /\ Children(Top.decl) \in Seq(Decl)
  BY <1>2, ProgramFacts DEF Frame, TypeInv
<1>4. /\ NextChild.decl = Top.decl /\ NextChild.ns = Top.ns
      /\ NextChild.phase = "body" /\ NextChild.pos = Top.pos + 1
  BY <1>2 DEF NextChild, Frame, AtChild, InPhase
<1>5. /\ NextChild.pos - 1 \in 1..Len(Children(Top.decl))
      /\ Children(Top.decl)[NextChild.pos - 1] = CurrentChild
  BY <1>1, <1>3, <1>4 DEF CurrentChild
<1>6. KindOf(Top.decl) \in {"namespace", "record", "union"}
  BY DEF AtChild, InPhase
<1> QED
  BY <1>1, <1>2, <1>3, <1>4, <1>5, <1>6
     DEF Link, NewFrame, ThisNamespacePath, PassedOver

LEMMA StackSteps ==
  ASSUME TypeInv, [Next]_vars
  PROVE  StackStep /\ prog' = prog
<1>1. CASE UNCHANGED vars
  BY <1>1 DEF vars, StackStep, Stays
<1>2. CASE Populate
  <2>1. CASE PopulateVisit
    <3>1. stack = <<>>
      BY <2>1 DEF PopulateVisit, AtFree
    <3>2. stack' = Append(stack, NewFrame(prog.free[next], <<>>))
      BY <2>1 DEF PopulateVisit, Push, NewFrame
    <3> QED
      BY <2>1, <3>1, <3>2 DEF PopulateVisit, StackStep, Begins
  <2>2. CASE PopulateTranslated
    BY <2>2 DEF PopulateTranslated, PlaceIntoTargetModule, emitted, AtFree, StackStep,
       PassesOver
  <2> QED
    BY <1>2, <2>1, <2>2
       DEF Populate, PopulateSkip, PopulateEnd, AtFree, StackStep, PassesOver, Stays
<1>3. CASE Enter
  <2>1. Len(stack) > 0
    BY <1>3 DEF Enter, VisitNothing, VisitMemoised, VisitRejectedMethod,
         VisitCallable, VisitTyped, VisitRecord, VisitClass, VisitUnion,
         VisitNamespace, InPhase
  <2>2. \A p \in {"types", "bases", "body"} : [Top EXCEPT !.phase = p] \in Later
    BY <2>1, TopGoesOn DEF Phase
  <2>3. CASE VisitNothing \/ VisitMemoised \/ VisitRejectedMethod \/ VisitClass
    BY <2>1, <2>3 DEF VisitNothing, VisitMemoised, VisitRejectedMethod, VisitClass,
         Return, Throw, StackStep, Ends, InPhase
  <2>4. CASE VisitCallable \/ VisitTyped \/ VisitRecord \/ VisitUnion \/ VisitNamespace
    BY <2>1, <2>2, <2>4 DEF VisitCallable, VisitTyped, VisitRecord, VisitUnion,
         VisitNamespace, StackStep, GoesOn
  <2> QED
    BY <1>3, <2>3, <2>4 DEF Enter
<1>4. CASE Types
  <2>1. Len(stack) > 0
    BY <1>4 DEF Types, TypeFallback, TypeReject, TypeResolve, TypesEnd, EnumTypeEnd,
         AtType, InPhase
  <2>2. CASE TypeFallback
    <3>1. prog.uses[CurrentUse.to][1] \in Use
      BY <2>2, ProgramFacts DEF TypeFallback, FallsBack, TypeInv
    <3> QED
      BY <2>1, <2>2, <3>1, TopGoesOn DEF TypeFallback, StackStep, GoesOn
  <2>3. CASE TypeReject \/ TypesEnd
    BY <2>1, <2>3 DEF TypeReject, TypesEnd, Return, Throw, StackStep, Ends
  <2>4. CASE TypeResolve
    BY <2>1, <2>4, TopGoesOn DEF TypeResolve, StackStep, GoesOn
  <2>5. CASE EnumTypeEnd
    BY <2>1, <2>5, TopGoesOn DEF EnumTypeEnd, StackStep, GoesOn, Phase
  <2> QED
    BY <1>4, <2>2, <2>3, <2>4, <2>5 DEF Types
<1>5. CASE Bases
  <2>1. Len(stack) > 0
    BY <1>5 DEF Bases, BaseReject, BaseMismatch, StructBase, StructSurplusBase,
         InterfaceBase, InterfaceHiddenBase, BasesEnd, AtBase, InPhase
  <2>2. /\ [Top EXCEPT !.pos = @ + 1] \in Later
        /\ [Top EXCEPT !.phase = "body", !.pos = 1] \in Later
    BY <2>1, TopGoesOn DEF Phase
  <2>3. CASE BaseReject \/ BaseMismatch \/ StructSurplusBase
    BY <2>1, <2>3 DEF BaseReject, BaseMismatch, StructSurplusBase, Throw,
         StackStep, Ends
  <2>4. CASE StructBase \/ InterfaceBase \/ InterfaceHiddenBase \/ BasesEnd
    BY <2>1, <2>2, <2>4 DEF StructBase, InterfaceBase, InterfaceHiddenBase, BasesEnd,
         StackStep, GoesOn
  <2> QED
    BY <1>5, <2>3, <2>4 DEF Bases
<1>6. CASE Body
  <2>1. Len(stack) > 0
    BY <1>6 DEF Body, ChildSkip, ChildAddAgain, ChildVisit, BodyEnd, NamespaceChild,
         NamespaceEnd, EnumConstant, EnumEnd, AtChild, InPhase
  <2>2. NextChild \in Later
    BY <2>1, TopGoesOn DEF NextChild
  <2>3. CASE ChildSkip \/ ChildAddAgain \/ EnumConstant
    BY <2>1, <2>2, <2>3 DEF ChildSkip, ChildAddAgain, EnumConstant, StackStep, GoesOn
  <2>4. CASE BodyEnd \/ NamespaceEnd \/ EnumEnd
    BY <2>1, <2>4 DEF BodyEnd, NamespaceEnd, EnumEnd, Return, StackStep, Ends, InPhase
  <2>5. CASE ChildVisit
    <3>1. AtChild({"record", "union"}) /\ KindOf(Top.decl) # "namespace"
      BY <2>5 DEF ChildVisit, AtChild, InPhase
    <3>2. /\ CurrentChild \in Decl /\ Top.ns \in Seq(Decl)
          /\ Link(NextChild, NewFrame(CurrentChild, Top.ns))
      BY <2>5, <3>1, ChildLinks DEF ChildVisit
    <3> QED
      BY <2>1, <2>5, <3>2 DEF ChildVisit, Push, NewFrame, StackStep, Calls
  <2>6. CASE NamespaceChild
    <3>1. AtChild({"namespace"}) /\ KindOf(Top.decl) = "namespace"
      BY <2>6 DEF NamespaceChild, AtChild, InPhase
    <3>2. /\ CurrentChild \in Decl /\ ThisNamespacePath \in Seq(Decl)
          /\ Link(NextChild, NewFrame(CurrentChild, ThisNamespacePath))
      BY <3>1, ChildLinks
    <3>3. stack' = Append([stack EXCEPT ![Len(stack)] = NextChild],
                          NewFrame(CurrentChild, ThisNamespacePath))
      BY <2>6 DEF NamespaceChild, Push, NewFrame
    <3>4. next' = next /\ UNCHANGED nodes /\ prog' = prog
      BY <2>6 DEF NamespaceChild
    <3>5. Calls
      BY <2>1, <3>1, <3>2, <3>3, <3>4 DEF Calls
    <3> QED
      BY <3>4, <3>5 DEF StackStep
  <2> QED
    BY <1>6, <2>3, <2>4, <2>5, <2>6 DEF Body
<1> QED
  BY <1>1, <1>2, <1>3, <1>4, <1>5, <1>6 DEF Next

(* Two stacks that differ in what is on top of them.                       *)
LEMMA PushFacts ==
  ASSUME NEW S, NEW s \in Seq(S), Len(s) > 0, NEW f \in S, NEW g \in S,
         NEW t, t = Append([s EXCEPT ![Len(s)] = f], g)
  PROVE  /\ t \in Seq(S) /\ Len(t) = Len(s) + 1
         /\ \A k \in 1..(Len(s) - 1) : t[k] = s[k]
         /\ t[Len(s)] = f /\ t[Len(s) + 1] = g
<1>1. Len(s) \in 1..Len(s) /\ Len(s) \in Nat
  OBVIOUS
<1>2. /\ [s EXCEPT ![Len(s)] = f] \in Seq(S)
      /\ Len([s EXCEPT ![Len(s)] = f]) = Len(s)
      /\ \A k \in 1..Len(s) : [s EXCEPT ![Len(s)] = f][k] = IF k = Len(s) THEN f ELSE s[k]
  BY <1>1, ExceptSeq
<1> DEFINE r == [s EXCEPT ![Len(s)] = f]
<1>3. t = Append(r, g) /\ r \in Seq(S) /\ Len(r) = Len(s)
  BY <1>2
<1> HIDE DEF r
<1>4. /\ t \in Seq(S) /\ Len(t) = Len(s) + 1 /\ t[Len(s) + 1] = g
      /\ \A k \in 1..Len(s) : t[k] = r[k]
  BY <1>3
<1>5. \A k \in 1..Len(s) : r[k] = IF k = Len(s) THEN f ELSE s[k]
  BY <1>2 DEF r
<1> QED
  BY <1>1, <1>4, <1>5

LEMMA NestKept ==
  ASSUME prog' = prog, Len(stack') > 0 => Root(stack'[1], next'),
         \A k \in 1..(Len(stack') - 1) : Link(stack'[k], stack'[k + 1])
  PROVE  CallsNest'
BY DEF CallsNest, Root, Link, KindOf, Children, Has

LEMMA NestStep ==
  ASSUME TypeInv, CallsNest, StackStep, prog' = prog
  PROVE  CallsNest'
<1>1. stack \in Seq(Frame) /\ Len(stack) \in Nat /\ next \in Nat \ {0}
  BY DEF TypeInv, TypeOK
<1>2. CASE Stays
  BY <1>2, NestKept DEF Stays, CallsNest
<1>3. CASE PassesOver
  BY <1>3, NestKept DEF PassesOver
<1>4. CASE Begins
  <2>1. /\ next \in 1..Len(prog.free) /\ Has(prog.free[next], "wrappable")
        /\ next' - 1 = next
    BY <1>1, <1>4, ProgramFacts DEF Begins, AtFree, TypeInv, Program
  <2>2. Root(NewFrame(prog.free[next], <<>>), next')
    BY <2>1 DEF Root, NewFrame
  <2>3. Len(stack') = 1 /\ stack'[1] = NewFrame(prog.free[next], <<>>)
    BY <1>4 DEF Begins
  <2> QED
    BY <2>2, <2>3, NestKept
<1>5. CASE GoesOn
  <2>1. PICK f \in Later : stack' = [stack EXCEPT ![Len(stack)] = f]
    BY <1>5 DEF GoesOn, Step
  <2>2. /\ Len(stack) > 0 /\ f.decl = stack[Len(stack)].decl
        /\ f.ns = stack[Len(stack)].ns
    BY <1>5 DEF GoesOn, Later, Top
  <2>3. Len(stack') = Len(stack) /\ stack'[Len(stack)] = f
        /\ \A k \in 1..(Len(stack) - 1) : stack'[k] = stack[k]
    BY <1>1, <2>1, <2>2, ExceptSeq
  <2>4. Root(stack'[1], next')
    BY <1>1, <1>5, <2>2, <2>3 DEF CallsNest, Root, GoesOn
  <2>5. \A k \in 1..(Len(stack') - 1) : Link(stack'[k], stack'[k + 1])
    <3>1. SUFFICES ASSUME NEW k \in 1..(Len(stack) - 1)
                   PROVE  Link(stack'[k], stack'[k + 1])
      BY <2>3
    <3>2. stack'[k] = stack[k] /\ Link(stack[k], stack[k + 1])
      BY <2>3 DEF CallsNest
    <3>3. CASE k + 1 = Len(stack)
      BY <2>2, <2>3, <3>2, <3>3 DEF Link
    <3>4. CASE k + 1 # Len(stack)
      <4>1. k + 1 \in 1..(Len(stack) - 1)
        BY <1>1, <3>4
      <4> QED
        BY <2>3, <3>2, <4>1
    <3> QED
      BY <3>3, <3>4
  <2> QED
    BY <2>4, <2>5, NestKept
<1>6. CASE Ends
  <2>1. /\ Len(stack') = Len(stack) - 1
        /\ \A k \in 1..Len(stack') : stack'[k] = stack[k]
    BY <1>6, StackFacts DEF Ends
  <2>2. Len(stack') > 0 => Root(stack'[1], next')
    BY <1>1, <1>6, <2>1 DEF CallsNest, Ends
  <2>3. \A k \in 1..(Len(stack') - 1) : Link(stack'[k], stack'[k + 1])
    BY <1>1, <2>1 DEF CallsNest
  <2> QED
    BY <2>2, <2>3, NestKept
<1>7. CASE Calls
  <2>1. PICK d \in Decl, ns \in Seq(Decl) :
          /\ Link(NextChild, NewFrame(d, ns))
          /\ stack' = Append([stack EXCEPT ![Len(stack)] = NextChild], NewFrame(d, ns))
    BY <1>7 DEF Calls
  <2>2. Len(stack) > 0 /\ next' = next
    BY <1>7 DEF Calls
  <2>3. NextChild \in Later /\ NewFrame(d, ns) \in Frame
    BY <2>2, TopGoesOn DEF NextChild, NewFrame, Frame, Phase
  <2>4. NextChild \in Frame /\ NextChild.decl = stack[Len(stack)].decl
        /\ NextChild.ns = stack[Len(stack)].ns
    BY <2>3 DEF Later, Top
  <2>5. /\ Len(stack') = Len(stack) + 1
        /\ \A k \in 1..(Len(stack) - 1) : stack'[k] = stack[k]
        /\ stack'[Len(stack)] = NextChild /\ stack'[Len(stack) + 1] = NewFrame(d, ns)
    BY <1>1, <2>1, <2>2, <2>3, <2>4, PushFacts
  <2>6. Root(stack'[1], next')
    BY <1>1, <2>2, <2>4, <2>5 DEF CallsNest, Root
  <2>7. \A k \in 1..(Len(stack') - 1) : Link(stack'[k], stack'[k + 1])
    <3>1. SUFFICES ASSUME NEW k \in 1..Len(stack)
                   PROVE  Link(stack'[k], stack'[k + 1])
      BY <1>1, <2>5
    <3>2. CASE k = Len(stack)
      BY <2>1, <2>5, <3>2
    <3>3. CASE k + 1 = Len(stack)
      <4>1. k \in 1..(Len(stack) - 1)
        BY <1>1, <3>3
      <4>2. stack'[k] = stack[k] /\ Link(stack[k], stack[Len(stack)])
        BY <2>5, <3>3, <4>1 DEF CallsNest
      <4> QED
        BY <2>4, <2>5, <3>3, <4>2 DEF Link
    <3>4. CASE k # Len(stack) /\ k + 1 # Len(stack)
      <4>1. k \in 1..(Len(stack) - 1) /\ k + 1 \in 1..(Len(stack) - 1)
        BY <1>1, <3>4
      <4> QED
        BY <2>5, <4>1 DEF CallsNest
    <3> QED
      BY <3>2, <3>3, <3>4
  <2> QED
    BY <2>6, <2>7, NestKept
<1> QED
  BY <1>2, <1>3, <1>4, <1>5, <1>6, <1>7 DEF StackStep

-----------------------------------------------------------------------------
(* Where nodes end up.                                                     *)

(* A visitor that populateDAST or a namespace called works under the path  *)
(* of the namespaces around its declaration.                               *)
FramesAtHome ==
  \A k \in 1..Len(stack) :
    (k > 1 => KindOf(stack[k - 1].decl) = "namespace")
      => AtHome(stack[k].decl, stack[k].ns)

PlacedAtHome ==
  \A i \in 1..Len(output) : AtHome(output[i].decl, output[i].ns)

AtParent(m, p) ==
  m.role = "child" => m.decl # p /\ IsChild(m.decl, p) /\ KindOf(p) # "namespace"
MembersAtHome ==
  \A p \in Decl : \A i \in 1..Len(members[p]) : AtParent(members[p][i], p)

Homes == FramesAtHome /\ PlacedAtHome /\ MembersAtHome

(* A declaration is a child of one other declaration at most.              *)
LEMMA OneParent ==
  ASSUME TypeInv, NEW d, NEW p \in Decl, NEW q \in Decl, IsChild(d, p), IsChild(d, q)
  PROVE  p = q \/ d \in {p, q}
<1>1. \A e, f \in Decl :
        \A i \in 1..Len(Children(e)), j \in 1..Len(Children(f)) :
          Children(e)[i] = Children(f)[j] => e = f \/ Children(e)[i] \in {e, f}
  <2>1. WellFormed(prog)
    BY ProgramFacts DEF TypeInv
  <2> QED
    BY <2>1, Zenon DEF WellFormed, Children
<1>2. PICK i \in 1..Len(Children(p)) : Children(p)[i] = d
  BY DEF IsChild
<1>3. PICK j \in 1..Len(Children(q)) : Children(q)[j] = d
  BY DEF IsChild
<1> QED
  BY <1>1, <1>2, <1>3

(* What is a child of a namespace, or free, is no child of a type.         *)
LEMMA ChildNotPlaced ==
  ASSUME TypeInv, PlacedOnce, PlacedAtHome, NEW d \in Decl, NEW p \in Decl,
         d # p, IsChild(d, p), KindOf(p) # "namespace"
  PROVE  d \notin placed
<1>1. WellFormed(prog) /\ output \in Seq(Placement)
  BY ProgramFacts DEF TypeInv, TypeOK
<1>2. SUFFICES ASSUME d \in placed
               PROVE  FALSE
  OBVIOUS
<1>3. PICK j \in 1..Len(output) : output[j].decl = d
  BY <1>2 DEF PlacedOnce
<1>4. AtHome(d, output[j].ns)
  BY <1>3 DEF PlacedAtHome
<1>5. ~IsFree(d)
  BY <1>1 DEF WellFormed, IsChild, IsFree, Children
<1> DEFINE q == output[j].ns[Len(output[j].ns)]
<1>6. output[j].ns # <<>> /\ IsChild(d, q)
  BY <1>4, <1>5 DEF AtHome
<1>7. q \in Decl /\ KindOf(q) = "namespace"
  <2>1. output[j].ns \in Seq(Decl)
    <3>1. output[j] \in Placement
      BY <1>1, ElementOfSeq
    <3> QED
      BY <3>1 DEF Placement
  <2>2. Len(output[j].ns) \in 1..Len(output[j].ns)
    BY <1>6, <2>1
  <2> QED
    BY <1>4, <2>1, <2>2, ElementOfSeq DEF AtHome
<1> HIDE DEF q
<1>8. d \in {p, q}
  BY <1>6, <1>7, OneParent
<1>9. KindOf(q) = "record"
  BY <1>1, <1>6, <1>7, <1>8 DEF WellFormed, IsChild, Children, KindOf
<1> QED
  BY <1>7, <1>9

LEMMA HomesSuffice ==
  ASSUME TypeInv, PlacedOnce, PlacedAtHome, MembersAtHome
  PROVE  OneHome
<1>1. SUFFICES ASSUME NEW p \in Decl, NEW i \in 1..Len(members[p]),
                      members[p][i].role = "child", members[p][i].decl \in placed
               PROVE  FALSE
  BY DEF OneHome, PlacedAtHome, MembersAtHome, AtParent
<1> DEFINE d == members[p][i].decl
<1>2. d # p /\ IsChild(d, p) /\ KindOf(p) # "namespace"
  BY <1>1 DEF MembersAtHome, AtParent
<1>3. d \in Decl
  <2>1. members[p] \in Seq(Member)
    BY DEF TypeInv, TypeOK
  <2>2. members[p][i] \in Member
    BY <2>1, ElementOfSeq
  <2> QED
    BY <2>2 DEF Member
<1> HIDE DEF d
<1>4. d \notin placed
  BY <1>2, <1>3, ChildNotPlaced
<1> QED
  BY <1>1, <1>4 DEF d

LEMMA HomesKept ==
  ASSUME prog' = prog,
         \A k \in 1..Len(stack') :
           (k > 1 => KindOf(stack'[k - 1].decl) = "namespace")
             => AtHome(stack'[k].decl, stack'[k].ns),
         \A i \in 1..Len(output') : AtHome(output'[i].decl, output'[i].ns),
         \A p \in Decl : \A i \in 1..Len(members'[p]) : AtParent(members'[p][i], p)
  PROVE  Homes'
BY DEF Homes, FramesAtHome, PlacedAtHome, MembersAtHome, AtHome, AtParent, IsChild,
       IsFree, KindOf, Children

(* What a step adds to the members of a node: a child of its declaration,  *)
(* which is no namespace, or what stands for a superclass.                 *)
MembersStep ==
  \/ UNCHANGED members
  \/ \E p, d \in Decl :
       /\ AtParent([role |-> "child", decl |-> d], p)
       /\ members' = [members EXCEPT ![p] = Append(@, [role |-> "child", decl |-> d])]
  \/ \E p \in Decl, added \in Seq([role : {"base", "alias"}, decl : Decl]) :
       members' = [members EXCEPT ![p] = @ \o added]

LEMMA ReturnAdds ==
  ASSUME TypeInv, CallsNest, Len(stack) > 0, NEW r, Return(r)
  PROVE  MembersStep
<1>1. SUFFICES ASSUME Len(stack) > 1, KindOf(Caller.decl) # "namespace",
                      AddDeclaration(Caller.decl, Top.decl)
               PROVE  MembersStep
  BY DEF Return, MembersStep
<1>2. Top.decl \in Decl /\ Caller.decl \in Decl
  BY <1>1, StackFacts
<1>3. Link(Caller, Top)
  <2>1. Len(stack) \in Nat /\ Len(stack) - 1 \in 1..(Len(stack) - 1)
    BY <1>1 DEF TypeInv, TypeOK
  <2> QED
    BY <2>1 DEF CallsNest, Caller, Top
<1>4. AtParent([role |-> "child", decl |-> Top.decl], Caller.decl)
  BY <1>1, <1>3 DEF AtParent, Link, IsChild
<1> QED
  BY <1>1, <1>2, <1>4 DEF AddDeclaration, AddTo, MembersStep

LEMMA MembersSteps ==
  ASSUME TypeInv, CallsNest, [Next]_vars
  PROVE  MembersStep
<1>1. CASE UNCHANGED vars
  BY <1>1 DEF vars, MembersStep
<1>2. CASE Populate
  BY <1>2 DEF Populate, PopulateSkip, PopulateTranslated, PopulateVisit, PopulateEnd,
              MembersStep
<1>3. CASE Enter
  <2>1. CASE VisitNothing \/ VisitMemoised
    BY <2>1, ReturnAdds DEF VisitNothing, VisitMemoised, InPhase
  <2> QED
    BY <1>3, <2>1 DEF Enter, VisitRejectedMethod, VisitCallable, VisitTyped,
       VisitRecord, VisitClass, VisitUnion, VisitNamespace, MembersStep
<1>4. CASE Types
  <2>1. CASE TypesEnd
    BY <2>1, ReturnAdds DEF TypesEnd, InPhase
  <2> QED
    BY <1>4, <2>1 DEF Types, TypeFallback, TypeReject, TypeResolve, EnumTypeEnd,
       MembersStep
<1>5. CASE Bases
  <2>1. CASE BaseReject \/ BaseMismatch \/ InterfaceHiddenBase \/ BasesEnd
    BY <2>1 DEF BaseReject, BaseMismatch, InterfaceHiddenBase, BasesEnd, MembersStep
  <2>2. CASE StructBase \/ StructSurplusBase \/ InterfaceBase
    <3>1. Len(stack) > 0 /\ Top.pos <= Len(prog.bases[Top.decl])
      BY <2>2 DEF StructBase, StructSurplusBase, InterfaceBase, AtBase, InPhase
    <3>2. Top.decl \in Decl /\ CurrentBase.to \in Decl
      BY <3>1, StackFacts, CurrentFacts
    <3> DEFINE BaseMember == [role : {"base", "alias"}, decl : Decl]
    <3>3. AsMember("base") \in BaseMember /\ AsMember("alias") \in BaseMember
      BY <3>2 DEF AsMember
    <3> HIDE DEF BaseMember
    <3>4. StructMembers \in Seq(BaseMember) /\ <<AsMember("base")>> \in Seq(BaseMember)
      BY <3>3 DEF StructMembers
    <3>5. \E added \in Seq(BaseMember) : AddBase(added)
      BY <2>2, <3>4 DEF StructBase, StructSurplusBase, InterfaceBase
    <3> QED
      BY <3>2, <3>5 DEF AddBase, BaseMember, MembersStep
  <2> QED
    BY <1>5, <2>1, <2>2 DEF Bases
<1>6. CASE Body
  <2>1. CASE BodyEnd \/ NamespaceEnd \/ EnumEnd
    BY <2>1, ReturnAdds DEF BodyEnd, NamespaceEnd, EnumEnd, AtChild, InPhase
  <2>2. CASE ChildAddAgain \/ EnumConstant
    <3>1. Len(stack) > 0 /\ Top.pos <= Len(Children(Top.decl))
      BY <2>2 DEF ChildAddAgain, EnumConstant, AtChild, InPhase
    <3>2. Top.decl \in Decl /\ CurrentChild \in Decl /\ Top.pos \in Nat \ {0}
      BY <3>1, StackFacts, CurrentFacts DEF Frame
    <3>3. IsChild(CurrentChild, Top.decl)
      <4>1. Children(Top.decl) \in Seq(Decl)
        BY <3>2, ProgramFacts DEF TypeInv
      <4> QED
        BY <3>1, <3>2, <4>1 DEF IsChild, CurrentChild
    <3>4. KindOf(Top.decl) \in {"record", "union", "enum"}
      BY <2>2 DEF ChildAddAgain, EnumConstant, AtChild, InPhase
    <3>5. CurrentChild # Top.decl
      <4>1. CASE ChildAddAgain
        BY <4>1 DEF ChildAddAgain, PassedOver
      <4>2. CASE EnumConstant
        <5>1. KindOf(Top.decl) = "enum"
          BY <4>2 DEF EnumConstant, AtChild, InPhase
        <5>2. CurrentChild = Top.decl => KindOf(Top.decl) = "record"
          BY <3>2, <3>3, ProgramFacts DEF TypeInv, WellFormed, IsChild, KindOf, Children
        <5> QED
          BY <5>1, <5>2
      <4> QED
        BY <2>2, <4>1, <4>2
    <3>6. AtParent([role |-> "child", decl |-> CurrentChild], Top.decl)
      BY <3>3, <3>4, <3>5 DEF AtParent
    <3> QED
      BY <2>2, <3>2, <3>6 DEF ChildAddAgain, EnumConstant, AddDeclaration, AddTo, MembersStep
  <2> QED
    BY <1>6, <2>1, <2>2 DEF Body, ChildSkip, ChildVisit, NamespaceChild, MembersStep
<1> QED
  BY <1>1, <1>2, <1>3, <1>4, <1>5, <1>6 DEF Next

(* A namespace that encloses something is free or in a namespace itself,   *)
(* so the path of what it calls is the path of that declaration.           *)
LEMMA PathGrows ==
  ASSUME TypeInv, NEW n \in Decl, NEW d \in Decl, NEW ns \in Seq(Decl),
         KindOf(n) = "namespace", AtHome(n, ns), IsChild(d, n)
  PROVE  AtHome(d, Append(ns, n))
<1> DEFINE path == Append(ns, n)
<1>1. /\ Len(path) = Len(ns) + 1 /\ Len(ns) \in Nat
      /\ \A j \in 1..Len(ns) : path[j] = ns[j]
      /\ path[Len(ns) + 1] = n /\ path # <<>>
  OBVIOUS
<1> HIDE DEF path
<1>2. \A j \in 1..Len(path) : KindOf(path[j]) = "namespace"
  BY <1>1 DEF AtHome
<1>3. \A j \in 1..(Len(path) - 1) : IsChild(path[j + 1], path[j])
  <2>1. TAKE j \in 1..(Len(path) - 1)
  <2>2. CASE j = Len(ns)
    <3>1. ns # <<>> /\ path[j] = ns[Len(ns)]
      BY <1>1, <2>2
    <3> QED
      BY <1>1, <2>2, <3>1 DEF AtHome
  <2>3. CASE j # Len(ns)
    <3>1. j \in 1..(Len(ns) - 1) /\ j + 1 \in 1..Len(ns)
      BY <1>1, <2>3
    <3> QED
      BY <1>1, <3>1 DEF AtHome
  <2> QED
    BY <2>2, <2>3
<1>4. IsFree(path[1])
  <2>1. CASE ns = <<>>
    BY <1>1, <2>1 DEF AtHome
  <2>2. CASE ns # <<>>
    BY <1>1, <2>2 DEF AtHome
  <2> QED
    BY <2>1, <2>2
<1> QED
  BY <1>1, <1>2, <1>3, <1>4 DEF AtHome, path

(* What a step places is at home, since the frame it is placed from is.    *)
LEMMA PlacedStep ==
  ASSUME TypeInv, FramesAtHome, PlacedAtHome, EmittedStep
  PROVE  \A i \in 1..Len(output') : AtHome(output'[i].decl, output'[i].ns)
<1>1. CASE UNCHANGED emitted
  BY <1>1 DEF PlacedAtHome, emitted
<1>2. ASSUME NEW d \in Decl, NEW ns \in Seq(Decl), Placing(d, ns),
             PlaceIntoTargetModule(d, ns)
      PROVE  \A i \in 1..Len(output') : AtHome(output'[i].decl, output'[i].ns)
  <2>1. AtHome(d, ns)
    <3>1. CASE AtFree /\ d = prog.free[next] /\ ns = <<>>
      <4>1. next \in 1..Len(prog.free)
        BY <3>1, ProgramFacts DEF AtFree, TypeInv, TypeOK, Program
      <4> QED
        BY <3>1, <4>1 DEF AtHome, IsFree
    <3>2. CASE /\ Len(stack) > 0 /\ d = Top.decl /\ ns = Top.ns
               /\ Len(stack) > 1 => KindOf(Caller.decl) = "namespace"
      BY <3>2 DEF FramesAtHome, Top, Caller, TypeInv, TypeOK
    <3> QED
      BY <1>2, <3>1, <3>2 DEF Placing
  <2>2. CASE d \in placed
    BY <1>2, <2>2 DEF PlaceIntoTargetModule, PlacedAtHome, emitted
  <2>3. CASE d \notin placed
    <3>1. output \in Seq(Placement) /\ [decl |-> d, ns |-> ns] \in Placement
      BY DEF TypeInv, TypeOK, Placement
    <3>2. output' = Append(output, [decl |-> d, ns |-> ns])
      BY <1>2, <2>3 DEF PlaceIntoTargetModule
    <3>3. /\ Len(output) \in Nat /\ Len(output') = Len(output) + 1
          /\ \A i \in 1..Len(output) : output'[i] = output[i]
          /\ output'[Len(output) + 1] = [decl |-> d, ns |-> ns]
      BY <3>1, <3>2
    <3> QED
      BY <2>1, <3>3 DEF PlacedAtHome
  <2> QED
    BY <2>2, <2>3
<1> QED
  BY <1>1, <1>2 DEF EmittedStep

LEMMA AddedStep ==
  ASSUME TypeInv, MembersAtHome, MembersStep
  PROVE  \A p \in Decl : \A i \in 1..Len(members'[p]) : AtParent(members'[p][i], p)
<1>1. members \in [Decl -> Seq(Member)]
  BY DEF TypeInv, TypeOK
<1>2. CASE UNCHANGED members
  BY <1>2 DEF MembersAtHome
<1>3. ASSUME NEW p \in Decl, NEW s \in Seq(Member),
             \A i \in 1..Len(s) : AtParent(s[i], p),
             members' = [members EXCEPT ![p] = members[p] \o s]
      PROVE  \A q \in Decl : \A i \in 1..Len(members'[q]) : AtParent(members'[q][i], q)
  <2>1. SUFFICES ASSUME NEW i \in 1..Len(members[p] \o s)
                 PROVE  AtParent((members[p] \o s)[i], p)
    BY <1>1, <1>3 DEF MembersAtHome
  <2>2. members[p] \in Seq(Member) /\ Len(members[p]) \in Nat /\ Len(s) \in Nat
    BY <1>1
  <2>3. CASE i <= Len(members[p])
    BY <2>2, <2>3 DEF MembersAtHome
  <2>4. CASE i > Len(members[p])
    <3>1. i - Len(members[p]) \in 1..Len(s)
      BY <2>2, <2>4
    <3>2. (members[p] \o s)[i] = s[i - Len(members[p])]
      BY <2>2, <2>4
    <3> QED
      BY <1>3, <3>1, <3>2
  <2> QED
    BY <2>2, <2>3, <2>4
<1>4. CASE \E p, d \in Decl :
             /\ AtParent([role |-> "child", decl |-> d], p)
             /\ members' = [members EXCEPT ![p] = Append(@, [role |-> "child", decl |-> d])]
  <2>1. PICK p \in Decl, d \in Decl :
          /\ AtParent([role |-> "child", decl |-> d], p)
          /\ members' = [members EXCEPT ![p] = Append(@, [role |-> "child", decl |-> d])]
    BY <1>4
  <2> DEFINE s == <<[role |-> "child", decl |-> d]>>
  <2>2. s \in Seq(Member) /\ \A i \in 1..Len(s) : AtParent(s[i], p)
    BY <2>1 DEF Member
  <2>3. Append(members[p], [role |-> "child", decl |-> d]) = members[p] \o s
    BY <1>1, <2>2 DEF Member
  <2>4. members' = [members EXCEPT ![p] = members[p] \o s]
    BY <2>1, <2>3
  <2> QED
    BY <1>3, <2>2, <2>4
<1>5. CASE \E p \in Decl, added \in Seq([role : {"base", "alias"}, decl : Decl]) :
             members' = [members EXCEPT ![p] = @ \o added]
  <2>1. PICK p \in Decl, added \in Seq([role : {"base", "alias"}, decl : Decl]) :
             members' = [members EXCEPT ![p] = members[p] \o added]
    BY <1>5
  <2>2. added \in Seq(Member) /\ \A i \in 1..Len(added) : added[i].role # "child"
    <3> DEFINE BaseMember == [role : {"base", "alias"}, decl : Decl]
    <3>1. \A m \in BaseMember : m \in Member /\ m.role # "child"
      BY DEF Member
    <3> HIDE DEF BaseMember
    <3>2. added \in Seq(BaseMember)
      BY DEF BaseMember
    <3>3. \A i \in 1..Len(added) : added[i] \in BaseMember
      BY <3>2, ElementOfSeq
    <3> QED
      BY <3>1, <3>2, <3>3
  <2> QED
    BY <1>3, <2>1, <2>2 DEF AtParent
<1> QED
  BY <1>2, <1>4, <1>5 DEF MembersStep

(* The frame that populateDAST pushes is at home as a free declaration,    *)
(* the one that a namespace pushes by its path.                            *)
LEMMA FramesStep ==
  ASSUME TypeInv, CallsNest, FramesAtHome, StackStep
  PROVE  \A k \in 1..Len(stack') :
           (k > 1 => KindOf(stack'[k - 1].decl) = "namespace")
             => AtHome(stack'[k].decl, stack'[k].ns)
<1>1. stack \in Seq(Frame) /\ Len(stack) \in Nat
  BY DEF TypeInv, TypeOK
<1>2. CASE Stays \/ PassesOver
  BY <1>2 DEF Stays, PassesOver, FramesAtHome
<1>3. CASE Begins
  <2>1. next \in 1..Len(prog.free)
    BY <1>3, ProgramFacts DEF Begins, AtFree, TypeInv, TypeOK, Program
  <2>2. AtHome(prog.free[next], <<>>)
    BY <2>1 DEF AtHome, IsFree
  <2>3. Len(stack') = 1 /\ stack'[1] = NewFrame(prog.free[next], <<>>)
    BY <1>3 DEF Begins
  <2> QED
    BY <2>2, <2>3 DEF NewFrame
<1>4. CASE GoesOn
  <2>1. PICK f \in Later : stack' = [stack EXCEPT ![Len(stack)] = f]
    BY <1>4 DEF GoesOn, Step
  <2>2. \A k \in 1..Len(stack) : /\ stack'[k].decl = stack[k].decl
                                 /\ stack'[k].ns = stack[k].ns
    <3>1. /\ f.decl = stack[Len(stack)].decl /\ f.ns = stack[Len(stack)].ns
      BY DEF Later, Top
    <3> QED
      BY <1>1, <2>1, <3>1
  <2>3. Len(stack') = Len(stack)
    BY <1>1, <2>1
  <2> QED
    BY <1>1, <2>2, <2>3 DEF FramesAtHome
<1>5. CASE Ends
  <2>1. /\ Len(stack') = Len(stack) - 1
        /\ \A k \in 1..Len(stack') : stack'[k] = stack[k]
    BY <1>5, StackFacts DEF Ends
  <2> QED
    BY <1>1, <2>1 DEF FramesAtHome
<1>6. CASE Calls
  <2>1. PICK d \in Decl, ns \in Seq(Decl) :
          /\ Link(NextChild, NewFrame(d, ns))
          /\ stack' = Append([stack EXCEPT ![Len(stack)] = NextChild], NewFrame(d, ns))
    BY <1>6 DEF Calls
  <2>2. Len(stack) > 0
    BY <1>6 DEF Calls
  <2>3. /\ NextChild \in Frame /\ NextChild.decl = stack[Len(stack)].decl
        /\ NextChild.ns = stack[Len(stack)].ns /\ NewFrame(d, ns) \in Frame
    BY <2>2, TopGoesOn DEF NextChild, Later, Top, NewFrame, Frame, Phase
  <2>4. /\ Len(stack') = Len(stack) + 1
        /\ \A k \in 1..(Len(stack) - 1) : stack'[k] = stack[k]
        /\ stack'[Len(stack)] = NextChild /\ stack'[Len(stack) + 1] = NewFrame(d, ns)
    BY <1>1, <2>1, <2>2, <2>3, PushFacts
  <2>5. \A k \in 1..Len(stack) : /\ stack'[k].decl = stack[k].decl
                                 /\ stack'[k].ns = stack[k].ns
    BY <1>1, <2>3, <2>4
  <2>6. ASSUME KindOf(Top.decl) = "namespace"
        PROVE  AtHome(d, ns)
    <3>1. Top.decl \in Decl /\ Top.ns \in Seq(Decl)
      BY <2>2, StackFacts DEF Frame
    <3>2. /\ IsChild(d, Top.decl) /\ ns = Append(Top.ns, Top.decl)
      BY <2>1, <2>3, <2>6 DEF Link, NewFrame, IsChild, Top
    <3>3. Len(stack) > 1 => KindOf(Caller.decl) = "namespace"
      <4>1. SUFFICES ASSUME Len(stack) > 1
                     PROVE  KindOf(Caller.decl) = "namespace"
        OBVIOUS
      <4>2. Link(Caller, Top) /\ Caller.decl \in Decl
        <5>1. Len(stack) - 1 \in 1..(Len(stack) - 1)
          BY <1>1, <4>1
        <5> QED
          BY <1>1, <4>1, <5>1, StackFacts DEF CallsNest, Caller, Top
      <4> QED
        BY <2>6, <4>2, ProgramFacts DEF TypeInv, WellFormed, Link, KindOf, Children
    <3>4. AtHome(Top.decl, Top.ns)
      BY <1>1, <2>2, <3>3 DEF FramesAtHome, Top, Caller
    <3> QED
      BY <2>6, <3>1, <3>2, <3>4, PathGrows
  <2>7. SUFFICES ASSUME NEW k \in 1..Len(stack'),
                        k > 1 => KindOf(stack'[k - 1].decl) = "namespace"
                 PROVE  AtHome(stack'[k].decl, stack'[k].ns)
    OBVIOUS
  <2>8. CASE k = Len(stack) + 1
    <3>1. stack'[k - 1].decl = Top.decl
      BY <1>1, <2>2, <2>5, <2>8 DEF Top
    <3> QED
      BY <1>1, <2>2, <2>4, <2>6, <2>7, <2>8, <3>1 DEF NewFrame
  <2>9. CASE k # Len(stack) + 1
    <3>1. k \in 1..Len(stack) /\ (k > 1 => k - 1 \in 1..Len(stack))
      BY <1>1, <2>4, <2>9
    <3> QED
      BY <2>5, <2>7, <3>1 DEF FramesAtHome
  <2> QED
    BY <2>8, <2>9
<1> QED
  BY <1>2, <1>3, <1>4, <1>5, <1>6 DEF StackStep

LEMMA HomesStep ==
  TypeInv /\ CallsNest /\ Homes /\ [Next]_vars => Homes'
<1>1. SUFFICES ASSUME TypeInv, CallsNest, Homes, [Next]_vars
               PROVE  Homes'
  OBVIOUS
<1>2. StackStep /\ EmittedStep /\ MembersStep /\ prog' = prog
  BY <1>1, StackSteps, EmittedSteps, MembersSteps
<1> QED
  BY <1>1, <1>2, FramesStep, PlacedStep, AddedStep, HomesKept DEF Homes

LEMMA NestInit == Init => CallsNest /\ Homes
BY DEF Init, CallsNest, Homes, FramesAtHome, PlacedAtHome, MembersAtHome

LEMMA NestAlways == TypeInv /\ CallsNest /\ [Next]_vars => CallsNest'
BY StackSteps, NestStep

(* Every node has one home: what is in the output stands under the path of *)
(* the C++ namespaces around its declaration, what is a member of a node   *)
(* is a member of the node of its C++ parent, and nothing is both.  The    *)
(* proof follows the namespace paths down the stack of visitors.           *)
THEOREM OneHomeCorrect == Spec => []OneHome
<1>1. Init => PlacedOnce
  BY DEF Init, PlacedOnce
<1>2. TypeInv /\ PlacedOnce /\ [Next]_vars => PlacedOnce'
  BY EmittedSteps, PlacedOnceStep
<1>3. TypeInv /\ PlacedOnce /\ Homes => OneHome
  BY HomesSuffice DEF Homes
<1>4. QED
  BY TypeInit, TypeStep, NestInit, NestAlways, HomesStep, <1>1, <1>2, <1>3, PTL DEF Spec

-----------------------------------------------------------------------------
(* What the visitors on the stack have done for their declaration.         *)

(* Only types have bases, only types, enums and namespaces a body.         *)
PhaseFits(f) ==
  /\ f.phase = "types" => KindOf(f.decl) \in TypedKinds \cup {"function", "method"}
  /\ f.phase = "bases" => KindOf(f.decl) = "record"
  /\ f.phase = "body" => KindOf(f.decl) \in {"namespace", "record", "union", "enum"}

(* How a visitor goes on: it registers its declaration before anything     *)
(* else, and a namespace goes on only to reach its body.                   *)
Onward(f) ==
  /\ f.decl = Top.decl /\ f.phase # "enter" /\ PhaseFits(f)
  /\ Top.phase = "enter" /\ KindOf(Top.decl) # "namespace" =>
       Register(Top.decl) /\ BuildClass(Top.decl) # NoNode
  /\ KindOf(Top.decl) = "namespace" => f.pos = Top.pos

LEMMA OneStep ==
  ASSUME TypeInv, Len(stack) > 0, NEW f \in Frame, Step(f)
  PROVE  /\ stack' # Pop
         /\ \A g \in Frame : Step(g) => f = g
         /\ \A d \in Decl, ns \in Seq(Decl) :
              stack' # Append([stack EXCEPT ![Len(stack)] = NextChild], NewFrame(d, ns))
<1>1. stack \in Seq(Frame) /\ Len(stack) \in Nat /\ Len(stack) \in 1..Len(stack)
  BY DEF TypeInv, TypeOK
<1>2. /\ Len(stack') = Len(stack) /\ stack'[Len(stack)] = f
  BY <1>1, ExceptSeq DEF Step
<1>3. stack' # Pop
  BY <1>1, <1>2, StackFacts
<1>4. \A g \in Frame : Step(g) => f = g
  BY <1>1, <1>2, ExceptSeq DEF Step
<1>5. ASSUME NEW d \in Decl, NEW ns \in Seq(Decl),
             stack' = Append([stack EXCEPT ![Len(stack)] = NextChild], NewFrame(d, ns))
      PROVE  FALSE
  <2>1. NextChild \in Frame /\ NewFrame(d, ns) \in Frame
    BY TopGoesOn DEF NextChild, Later, NewFrame, Frame, Phase
  <2>2. Len(stack') = Len(stack) + 1
    BY <1>1, <1>5, <2>1, PushFacts
  <2> QED
    BY <1>1, <1>2, <2>2
<1> QED
  BY <1>3, <1>4, <1>5

(* The class of a declaration that its visitor registers.                  *)
LEMMA BuildFacts ==
  ASSUME NEW d \in Decl, KindOf(d) \in Kind, StrategyOf(d) \in Strategy
  PROVE  /\ KindOf(d) \in TypedKinds \cup {"function", "method", "union", "enumerator"}
              => BuildClass(d) # NoNode
         /\ KindOf(d) = "record" /\ StrategyOf(d) \notin {"REPLACE", "CLASS"}
              => BuildClass(d) # NoNode
         /\ KindOf(d) \in {"namespace", "ignored"} => BuildClass(d) = NoNode
         /\ KindOf(d) = "record" /\ StrategyOf(d) \in {"REPLACE", "CLASS"}
              => BuildClass(d) = NoNode
         /\ StartClass(d) \in {NoNode, BuildClass(d)}
BY DEF BuildClass, StartClass, TypedKinds, Kind, Strategy, NoNode

LEMMA KindFacts ==
  ASSUME TypeInv, NEW d \in Decl
  PROVE  KindOf(d) \in Kind /\ StrategyOf(d) \in Strategy
BY ProgramFacts DEF TypeInv, Program, KindOf, StrategyOf

LEMMA GoesOnward ==
  ASSUME TypeInv, Len(stack) > 0, PhaseFits(Top), Next, NEW f \in Frame, Step(f)
  PROVE  Onward(f)
<1>1. /\ Top \in Frame /\ Top.decl \in Decl
      /\ KindOf(Top.decl) \in Kind /\ StrategyOf(Top.decl) \in Strategy
  BY StackFacts, KindFacts
<1>2. stack' # Pop /\ \A g \in Frame : Step(g) => f = g
  BY OneStep
<1>3. /\ \A p \in Phase : [Top EXCEPT !.phase = p] \in Frame
      /\ \A p \in Phase : [Top EXCEPT !.phase = p, !.pos = 1] \in Frame
      /\ [Top EXCEPT !.pos = @ + 1] \in Frame
      /\ [Top EXCEPT !.pos = @ + 1, !.via = NoUse] \in Frame
      /\ \A u \in Use : [Top EXCEPT !.via = u] \in Frame
  BY FrameType
<1>4. ~Populate
  BY DEF Populate, PopulateSkip, PopulateTranslated, PopulateVisit, PopulateEnd, AtFree
<1>5. ASSUME Enter
      PROVE  Onward(f)
  <2>1. /\ Top.phase = "enter"
        /\ \E p \in {"types", "bases", "body"} :
             /\ Step([Top EXCEPT !.phase = p])
             /\ PhaseFits([Top EXCEPT !.phase = p])
        /\ KindOf(Top.decl) # "namespace" =>
             Register(Top.decl) /\ BuildClass(Top.decl) # NoNode
    <3>1. CASE VisitNothing \/ VisitMemoised \/ VisitRejectedMethod \/ VisitClass
      BY <1>2, <3>1 DEF VisitNothing, VisitMemoised, VisitRejectedMethod, VisitClass,
         Return, Throw
    <3>2. CASE VisitCallable
      BY <1>1, <3>2, BuildFacts DEF VisitCallable, InPhase, PhaseFits, Frame
    <3>3. CASE VisitTyped
      BY <1>1, <3>3, BuildFacts DEF VisitTyped, InPhase, PhaseFits, Frame
    <3>4. CASE VisitRecord
      BY <1>1, <3>4, BuildFacts DEF VisitRecord, BuildsNothing, InPhase, PhaseFits, Frame
    <3>5. CASE VisitUnion
      BY <1>1, <3>5, BuildFacts DEF VisitUnion, InPhase, PhaseFits, Frame
    <3>6. CASE VisitNamespace
      BY <1>1, <3>6 DEF VisitNamespace, InPhase, PhaseFits, Frame
    <3> QED
      BY <1>5, <3>1, <3>2, <3>3, <3>4, <3>5, <3>6 DEF Enter
  <2>2. PICK p \in {"types", "bases", "body"} :
          Step([Top EXCEPT !.phase = p]) /\ PhaseFits([Top EXCEPT !.phase = p])
    BY <2>1
  <2>3. f = [Top EXCEPT !.phase = p]
    BY <1>2, <1>3, <2>2 DEF Phase
  <2>4. f.decl = Top.decl /\ f.pos = Top.pos /\ f.phase = p
    BY <1>1, <2>3 DEF Frame
  <2> QED
    BY <2>1, <2>2, <2>3, <2>4 DEF Onward
<1>6. ASSUME Types
      PROVE  Onward(f)
  <2>1. Top.phase = "types"
    BY <1>6 DEF Types, TypeFallback, TypeReject, TypeResolve, TypesEnd, EnumTypeEnd,
         AtType, InPhase
  <2>2. ~TypeReject /\ ~TypesEnd
    BY <1>2 DEF TypeReject, TypesEnd, Throw, Return
  <2>3. f.decl = Top.decl /\ f.phase \in {"types", "body"}
        /\ (f.phase = "body" => KindOf(Top.decl) = "enum")
    <3>1. CASE TypeFallback
      <4>1. prog.uses[CurrentUse.to][1] \in Use
        BY <3>1, ProgramFacts DEF TypeFallback, FallsBack, TypeInv
      <4>2. f = [Top EXCEPT !.via = prog.uses[CurrentUse.to][1]]
        BY <1>2, <1>3, <3>1, <4>1 DEF TypeFallback
      <4> QED
        BY <1>1, <2>1, <4>2 DEF Frame
    <3>2. CASE TypeResolve
      <4>1. f = [Top EXCEPT !.pos = @ + 1, !.via = NoUse]
        BY <1>2, <1>3, <3>2 DEF TypeResolve
      <4> QED
        BY <1>1, <2>1, <4>1 DEF Frame
    <3>3. CASE EnumTypeEnd
      <4>1. f = [Top EXCEPT !.phase = "body", !.pos = 1]
        BY <1>2, <1>3, <3>3 DEF EnumTypeEnd, Phase
      <4> QED
        BY <1>1, <3>3, <4>1 DEF Frame, EnumTypeEnd, InPhase
    <3> QED
      BY <1>6, <2>2, <3>1, <3>2, <3>3 DEF Types
  <2> QED
    BY <2>1, <2>3 DEF Onward, PhaseFits, TypedKinds
<1>7. ASSUME Bases
      PROVE  Onward(f)
  <2>1. Top.phase = "bases" /\ KindOf(Top.decl) = "record"
    BY <1>7 DEF Bases, BaseReject, BaseMismatch, StructBase, StructSurplusBase,
         InterfaceBase, InterfaceHiddenBase, BasesEnd, AtBase, InPhase
  <2>2. ~BaseReject /\ ~BaseMismatch /\ ~StructSurplusBase
    BY <1>2 DEF BaseReject, BaseMismatch, StructSurplusBase, Throw
  <2>3. f = [Top EXCEPT !.pos = @ + 1] \/ f = [Top EXCEPT !.phase = "body", !.pos = 1]
    BY <1>2, <1>3, <1>7, <2>2
       DEF Bases, StructBase, InterfaceBase, InterfaceHiddenBase, BasesEnd, Phase
  <2>4. f.decl = Top.decl /\ f.phase \in {"bases", "body"}
    BY <1>1, <2>1, <2>3 DEF Frame
  <2> QED
    BY <2>1, <2>4 DEF Onward, PhaseFits
<1>8. ASSUME Body
      PROVE  Onward(f)
  <2>1. Top.phase = "body"
    BY <1>8 DEF Body, ChildSkip, ChildAddAgain, ChildVisit, BodyEnd, NamespaceChild,
         NamespaceEnd, EnumConstant, EnumEnd, AtChild, InPhase
  <2>2. ~BodyEnd /\ ~NamespaceEnd /\ ~EnumEnd
    BY <1>2 DEF BodyEnd, NamespaceEnd, EnumEnd, Return
  <2>3. ~ChildVisit /\ ~NamespaceChild
    <3>1. \A kinds : AtChild(kinds) => CurrentChild \in Decl
      BY CurrentFacts DEF AtChild
    <3>2. Top.ns \in Seq(Decl) /\ ThisNamespacePath \in Seq(Decl)
      BY <1>1 DEF Frame, ThisNamespacePath
    <3> QED
      BY <3>1, <3>2, OneStep DEF ChildVisit, NamespaceChild, Push, NewFrame
  <2>4. f = NextChild /\ KindOf(Top.decl) # "namespace"
    <3>1. NextChild \in Frame
      BY <1>3 DEF NextChild
    <3> QED
      BY <1>2, <1>8, <2>2, <2>3, <3>1
         DEF Body, ChildSkip, ChildAddAgain, EnumConstant, AtChild, InPhase
  <2>5. f.decl = Top.decl /\ f.phase = "body"
    BY <1>1, <2>1, <2>4 DEF NextChild, Frame
  <2> QED
    BY <2>1, <2>4, <2>5 DEF Onward, PhaseFits
<1> QED
  BY <1>4, <1>5, <1>6, <1>7, <1>8 DEF Next

(* What a step does to the table of nodes and the history: a node is       *)
(* registered by a reference, by the visitor of its declaration when that  *)
(* starts, or as a constant of the enum that is being walked.              *)
Remembers ==
  started \subseteq started' /\ built \subseteq built' /\ threw \subseteq threw'
OwnNode ==
  /\ Len(stack) > 0 /\ Top.phase = "enter" /\ Register(Top.decl)
  /\ ~(KindOf(Top.decl) = "function" /\ Has(Top.decl, "operator"))
  /\ ~(KindOf(Top.decl) = "field" /\ InInterface)
  /\ (\E f \in Frame : Step(f)) \/ Top.decl \in threw'
ConstantNode ==
  /\ Len(stack) > 0 /\ KindOf(Top.decl) = "enum"
  /\ \E c \in Decl :
       IsChild(c, Top.decl) /\ Register(c) /\ built' = built \cup {c}
NodeStep ==
  /\ Remembers
  /\ \/ /\ UNCHANGED <<translated, started>>
        /\ UNCHANGED built \/ \E d \in Decl : built' = built \cup {d}
     \/ UNCHANGED built /\ \E t \in Decl : StartDeclTypeBuild(t)
     \/ UNCHANGED <<started, built>> /\ OwnNode
     \/ UNCHANGED started /\ ConstantNode

LEMMA NodeSteps ==
  ASSUME TypeInv, [Next]_vars
  PROVE  NodeStep
<1>1. CASE UNCHANGED vars
  BY <1>1 DEF vars, NodeStep, Remembers
<1>2. CASE Populate
  BY <1>2 DEF Populate, PopulateSkip, PopulateTranslated, PopulateVisit, PopulateEnd,
              NodeStep, Remembers, nodes, history
<1>3. CASE Enter
  <2>1. Len(stack) > 0
    BY <1>3 DEF Enter, VisitNothing, VisitMemoised, VisitRejectedMethod,
         VisitCallable, VisitTyped, VisitRecord, VisitClass, VisitUnion,
         VisitNamespace, InPhase
  <2>2. \A p \in {"types", "bases", "body"} : [Top EXCEPT !.phase = p] \in Frame
    BY <2>1, FrameType DEF Phase
  <2>3. CASE VisitNothing \/ VisitMemoised \/ VisitClass \/ VisitNamespace
    BY <2>3 DEF VisitNothing, VisitMemoised, VisitClass, VisitNamespace, Throw,
       NodeStep, Remembers, nodes, history
  <2>4. CASE VisitRejectedMethod
    <3>1. OwnNode /\ UNCHANGED <<started, built>> /\ threw \subseteq threw'
      BY <2>1, <2>4 DEF VisitRejectedMethod, OwnNode, Throw, InPhase
    <3> QED
      BY <3>1 DEF NodeStep, Remembers
  <2>5. CASE VisitCallable \/ VisitTyped \/ VisitRecord \/ VisitUnion
    <3>1. OwnNode /\ UNCHANGED history
      <4>1. CASE VisitCallable
        BY <2>1, <2>2, <4>1 DEF VisitCallable, BuildsNothing, OwnNode, InPhase
      <4>2. CASE VisitTyped \/ VisitRecord \/ VisitUnion
        BY <2>1, <2>2, <4>2 DEF VisitTyped, VisitRecord, VisitUnion, TypedKinds,
           BuildsNothing, OwnNode, InPhase
      <4> QED
        BY <2>5, <4>1, <4>2
    <3> QED
      BY <3>1 DEF NodeStep, Remembers, history
  <2> QED
    BY <1>3, <2>3, <2>4, <2>5 DEF Enter
<1>4. CASE Types
  <2>1. CASE TypeResolve
    <3>1. Remembers /\ UNCHANGED built
      BY <2>1 DEF TypeResolve, StartDeclTypeBuild, Remembers
    <3>2. CASE CurrentUse.to = Builtin
      BY <2>1, <3>1, <3>2 DEF TypeResolve, NodeStep
    <3>3. CASE CurrentUse.to # Builtin
      <4>1. CurrentUse \in Use
        BY <2>1, CurrentFacts DEF TypeResolve, AtType, InPhase
      <4>2. CurrentUse.to # Untranslatable /\ StartDeclTypeBuild(CurrentUse.to)
        BY <2>1, <3>3 DEF TypeResolve, Translatable
      <4>3. CurrentUse.to \in Decl
        BY <3>3, <4>1, <4>2 DEF Use
      <4> QED
        BY <3>1, <4>2, <4>3 DEF NodeStep
    <3> QED
      BY <3>2, <3>3
  <2>2. CASE TypesEnd
    <3>1. Top.decl \in Decl
      BY <2>2, StackFacts DEF TypesEnd, InPhase
    <3> QED
      BY <2>2, <3>1 DEF TypesEnd, NodeStep, Remembers
  <2> QED
    BY <1>4, <2>1, <2>2 DEF Types, TypeFallback, TypeReject, EnumTypeEnd, Throw,
       NodeStep, Remembers, nodes, history
<1>5. CASE Bases
  <2>1. \A strategy : AtBase(strategy) => CurrentBase.to \in Decl
    BY CurrentFacts DEF AtBase, InPhase
  <2>2. CASE BaseReject \/ InterfaceHiddenBase \/ BasesEnd
    BY <2>2 DEF BaseReject, InterfaceHiddenBase, BasesEnd, Throw,
       NodeStep, Remembers, nodes, history
  <2>3. CASE BaseMismatch \/ StructBase \/ StructSurplusBase \/ InterfaceBase
    <3>1. CurrentBase.to \in Decl /\ StartDeclTypeBuild(CurrentBase.to)
      BY <2>1, <2>3 DEF BaseMismatch, StructBase, StructSurplusBase, InterfaceBase
    <3>2. UNCHANGED built /\ threw \subseteq threw'
      BY <2>3 DEF BaseMismatch, StructBase, StructSurplusBase, InterfaceBase, Throw
    <3> QED
      BY <3>1, <3>2 DEF NodeStep, Remembers, StartDeclTypeBuild
  <2> QED
    BY <1>5, <2>2, <2>3 DEF Bases
<1>6. CASE Body
  <2>1. CASE EnumConstant
    <3>1. Len(stack) > 0 /\ Top.pos <= Len(Children(Top.decl)) /\ KindOf(Top.decl) = "enum"
      BY <2>1 DEF EnumConstant, AtChild, InPhase
    <3>2. Top.decl \in Decl /\ CurrentChild \in Decl /\ Top.pos \in Nat \ {0}
      BY <3>1, StackFacts, CurrentFacts DEF Frame
    <3>3. IsChild(CurrentChild, Top.decl)
      <4>1. Children(Top.decl) \in Seq(Decl)
        BY <3>2, ProgramFacts DEF TypeInv
      <4> QED
        BY <3>1, <3>2, <4>1 DEF IsChild, CurrentChild
    <3>4. ConstantNode
      BY <2>1, <3>1, <3>2, <3>3 DEF EnumConstant, ConstantNode
    <3> QED
      BY <2>1, <3>4 DEF EnumConstant, NodeStep, Remembers
  <2>2. CASE ChildSkip \/ ChildAddAgain \/ ChildVisit \/ NamespaceChild \/ NamespaceEnd
    BY <2>2 DEF ChildSkip, ChildAddAgain, ChildVisit, NamespaceChild, NamespaceEnd,
       NodeStep, Remembers, nodes, history
  <2>3. CASE BodyEnd \/ EnumEnd
    <3>1. Top.decl \in Decl
      BY <2>3, StackFacts DEF BodyEnd, EnumEnd, InPhase
    <3> QED
      BY <2>3, <3>1 DEF BodyEnd, EnumEnd, NodeStep, Remembers, nodes
  <2> QED
    BY <1>6, <2>1, <2>2, <2>3 DEF Body
<1> QED
  BY <1>1, <1>2, <1>3, <1>4, <1>5, <1>6 DEF Next

-----------------------------------------------------------------------------
(* What is in the table of nodes.                                          *)

(* A node has the class that the visitor of its declaration asks for, also *)
(* if a reference registered it, and an overloaded operator never has one. *)
Sane ==
  /\ \A d \in Decl : translated[d] \in {NoNode, BuildClass(d)}
  /\ \A d \in Decl :
       KindOf(d) = "function" /\ Has(d, "operator") => translated[d] = NoNode
  /\ \A d \in started : StartClass(d) # NoNode

(* Before populateDAST reaches a free declaration, only a reference can    *)
(* have registered it.                                                     *)
FreeFresh ==
  \A j \in next..Len(prog.free) :
    translated[prog.free[j]] # NoNode => prog.free[j] \in started

(* A visitor past its beginning has registered its declaration, unless     *)
(* that is a namespace.                                                    *)
Working(f) ==
  /\ PhaseFits(f)
  /\ f.phase # "enter" /\ KindOf(f.decl) # "namespace" => translated[f.decl] # NoNode
AllWork == \A k \in 1..Len(stack) : Working(stack[k])

(* Only a namespace visits what has a node already.                        *)
FreshTop ==
  /\ Len(stack) > 0 /\ Top.phase = "enter"
  /\ Len(stack) > 1 => KindOf(Caller.decl) # "namespace"
  => translated[Top.decl] = NoNode

(* Every node was referred to, or its visitor is at work, ended or threw.  *)
Tried ==
  \A d \in Decl : translated[d] # NoNode =>
    \/ d \in started \cup built \cup threw
    \/ \E k \in 1..Len(stack) : stack[k].decl = d /\ stack[k].phase # "enter"

LEMMA ProgKept ==
  ASSUME prog' = prog
  PROVE  /\ \A d : BuildClass(d)' = BuildClass(d)
         /\ \A d : StartClass(d)' = StartClass(d)
         /\ \A d : KindOf(d)' = KindOf(d)
         /\ \A d, f : Has(d, f)' = Has(d, f)
         /\ \A f : PhaseFits(f)' = PhaseFits(f)
BY DEF BuildClass, StartClass, KindOf, Has, StrategyOf, PhaseFits

(* A node that is in the table stays there as it is.                       *)
LEMMA NodeKept ==
  ASSUME TypeInv, NodeStep
  PROVE  \A d \in Decl : translated[d] # NoNode => translated'[d] = translated[d]
BY DEF NodeStep, StartDeclTypeBuild, OwnNode, ConstantNode, Register, TypeInv, TypeOK

(* What is new in the table, and who put it there.                         *)
LEMMA NodeNew ==
  ASSUME TypeInv, NodeStep, NEW d \in Decl,
         translated[d] = NoNode, translated'[d] # NoNode
  PROVE  \/ d \in started' /\ translated'[d] = StartClass(d)
         \/ OwnNode /\ d = Top.decl /\ translated'[d] = BuildClass(d)
         \/ /\ translated'[d] = BuildClass(d) /\ d \in built'
            /\ Len(stack) > 0 /\ KindOf(Top.decl) = "enum" /\ IsChild(d, Top.decl)
<1>1. translated \in [Decl -> NodeClass \cup {NoNode}]
  BY DEF TypeInv, TypeOK
<1>2. CASE \E t \in Decl : StartDeclTypeBuild(t)
  BY <1>1, <1>2 DEF StartDeclTypeBuild
<1>3. CASE OwnNode
  BY <1>1, <1>3 DEF OwnNode, Register
<1>4. CASE ConstantNode
  BY <1>1, <1>4 DEF ConstantNode, Register
<1> QED
  BY <1>2, <1>3, <1>4 DEF NodeStep

(* A child is not free, apart from a record that lists itself.             *)
LEMMA ChildNotFree ==
  ASSUME TypeInv, NEW d \in Decl, NEW p \in Decl, IsChild(d, p), d # p
  PROVE  ~IsFree(d)
<1>1. WellFormed(prog)
  BY ProgramFacts DEF TypeInv
<1>2. \A e \in Decl : \A i \in 1..Len(Children(e)) : Children(e)[i] # e =>
        \A j \in 1..Len(prog.free) : Children(e)[i] # prog.free[j]
  BY <1>1 DEF WellFormed, Children
<1> QED
  BY <1>2 DEF IsChild, IsFree

(* What the kind of a child says of its parent.                            *)
LEMMA ChildKind ==
  ASSUME TypeInv, NEW d \in Decl, NEW p \in Decl, IsChild(d, p)
  PROVE  /\ d = p => KindOf(p) = "record"
         /\ KindOf(p) = "enum" <=> KindOf(d) = "enumerator"
         /\ KindOf(d) = "namespace" => KindOf(p) = "namespace"
         /\ KindOf(d) \in {"field", "method"} => KindOf(p) \in {"record", "union"}
<1>1. PICK i \in 1..Len(Children(p)) : Children(p)[i] = d
  BY DEF IsChild
<1>2. WellFormed(prog)
  BY ProgramFacts DEF TypeInv
<1> QED
  BY <1>1, <1>2 DEF WellFormed, Children, KindOf

LEMMA CallerFacts ==
  ASSUME TypeInv, CallsNest, Len(stack) > 1
  PROVE  /\ Caller.decl \in Decl /\ Top.decl \in Decl /\ Link(Caller, Top)
         /\ IsChild(Top.decl, Caller.decl) /\ Top.decl # Caller.decl
<1>1. Len(stack) - 1 \in 1..(Len(stack) - 1)
  <2>1. stack \in Seq(Frame)
    BY Zenon DEF TypeInv, TypeOK
  <2> QED
    BY <2>1
<1>2. Caller.decl \in Decl /\ Top.decl \in Decl /\ Link(Caller, Top)
  <2>1. /\ Len(stack) \in Nat /\ Len(stack) - 1 + 1 = Len(stack)
        /\ Caller.decl \in Decl /\ Top.decl \in Decl
    BY StackFacts DEF TypeInv, TypeOK
  <2>2. Link(stack[Len(stack) - 1], stack[Len(stack) - 1 + 1])
    BY <1>1, Zenon DEF CallsNest
  <2> QED
    BY <2>1, <2>2 DEF Caller, Top
<1>3. IsChild(Top.decl, Caller.decl)
  BY <1>2 DEF Link, IsChild
<1>4. Top.decl = Caller.decl => KindOf(Caller.decl) = "record"
  BY <1>2, <1>3, ProgramFacts DEF TypeInv, WellFormed, IsChild, Children, KindOf
<1> QED
  BY <1>2, <1>3, <1>4 DEF Link

(* A visitor at work on a free declaration was called by populateDAST.     *)
LEMMA TopFree ==
  ASSUME TypeInv, CallsNest, Len(stack) > 0, IsFree(Top.decl)
  PROVE  Len(stack) = 1 /\ Root(Top, next)
<1>1. Len(stack) = 1
  <2>1. ~(Len(stack) > 1)
    BY CallerFacts, ChildNotFree
  <2>2. Len(stack) \in Nat
    BY DEF TypeInv, TypeOK
  <2>3. \A n \in Nat : n > 0 /\ ~(n > 1) => n = 1
    OBVIOUS
  <2> QED
    BY <2>1, <2>2, <2>3, Zenon
<1> QED
  BY <1>1 DEF CallsNest, Top

LEMMA SaneStep ==
  ASSUME TypeInv, Sane, NodeStep, prog' = prog
  PROVE  Sane'
<1>1. \A d \in Decl : translated'[d] # NoNode =>
        /\ translated'[d] = BuildClass(d)
        /\ ~(KindOf(d) = "function" /\ Has(d, "operator"))
  <2>1. SUFFICES ASSUME NEW d \in Decl, translated'[d] # NoNode
                 PROVE  /\ translated'[d] = BuildClass(d)
                        /\ ~(KindOf(d) = "function" /\ Has(d, "operator"))
    OBVIOUS
  <2>2. CASE translated[d] # NoNode
    BY <2>1, <2>2, NodeKept DEF Sane
  <2>3. CASE translated[d] = NoNode
    <3>1. StartClass(d) \in {NoNode, BuildClass(d)}
      BY KindFacts, BuildFacts
    <3>2. KindOf(d) = "function" => StartClass(d) = NoNode
      BY DEF StartClass
    <3>3. Len(stack) > 0 /\ KindOf(Top.decl) = "enum" /\ IsChild(d, Top.decl)
            => KindOf(d) = "enumerator"
      BY StackFacts, ChildKind
    <3> QED
      BY <2>1, <2>3, <3>1, <3>2, <3>3, NodeNew DEF OwnNode
  <2> QED
    BY <2>2, <2>3
<1>2. \A d \in started' : StartClass(d) # NoNode
  BY DEF Sane, NodeStep, StartDeclTypeBuild
<1>3. \A d \in Decl : translated'[d] \in {NoNode, BuildClass(d)}
  BY <1>1
<1>4. \A d \in Decl :
       KindOf(d) = "function" /\ Has(d, "operator") => translated'[d] = NoNode
  BY <1>1
<1> QED
  BY <1>2, <1>3, <1>4, ProgKept DEF Sane

LEMMA FreshStep ==
  ASSUME TypeInv, CallsNest, FreeFresh, NodeStep, StackStep, prog' = prog
  PROVE  FreeFresh'
<1>1. next' \in Nat /\ next' >= next /\ next \in Nat \ {0}
  BY DEF TypeInv, TypeOK, StackStep, Stays, PassesOver, Begins, GoesOn, Ends, Calls
<1>2. prog.free \in Seq(Decl)
  BY ProgramFacts DEF TypeInv, Program
<1>3. SUFFICES ASSUME NEW j \in next'..Len(prog.free), translated'[prog.free[j]] # NoNode
               PROVE  prog.free[j] \in started'
  BY DEF FreeFresh
<1>4. j \in next..Len(prog.free) /\ j \in 1..Len(prog.free) /\ prog.free[j] \in Decl
  BY <1>1, <1>2
<1>5. CASE translated[prog.free[j]] # NoNode
  BY <1>4, <1>5 DEF FreeFresh, NodeStep, Remembers
<1>6. CASE translated[prog.free[j]] = NoNode
  <2>1. IsFree(prog.free[j])
    BY <1>4 DEF IsFree
  <2>2. ~(OwnNode /\ prog.free[j] = Top.decl)
    <3>1. SUFFICES ASSUME OwnNode, prog.free[j] = Top.decl
                   PROVE  FALSE
      OBVIOUS
    <3>2. next - 1 \in 1..Len(prog.free) /\ prog.free[j] = prog.free[next - 1]
      BY <2>1, <3>1, TopFree DEF OwnNode, Root
    <3>3. j = next - 1
      BY <1>4, <3>2, ProgramFacts DEF TypeInv, WellFormed
    <3> QED
      BY <1>1, <1>4, <3>3
  <2>3. ~(Len(stack) > 0 /\ KindOf(Top.decl) = "enum" /\ IsChild(prog.free[j], Top.decl))
    <3>1. SUFFICES ASSUME Len(stack) > 0, KindOf(Top.decl) = "enum",
                          IsChild(prog.free[j], Top.decl)
                   PROVE  FALSE
      OBVIOUS
    <3>2. Top.decl \in Decl
      BY <3>1, StackFacts
    <3>3. prog.free[j] # Top.decl
      BY <3>1, <3>2, ProgramFacts DEF TypeInv, WellFormed, IsChild, Children, KindOf
    <3> QED
      BY <1>4, <2>1, <3>1, <3>2, <3>3, ChildNotFree
  <2> QED
    BY <1>3, <1>4, <1>6, <2>2, <2>3, NodeNew
<1> QED
  BY <1>5, <1>6

(* The frames of the next state: those below the top stay, the one on top  *)
(* has gone on, has called the new one, or is gone.                        *)
LEMMA Framed ==
  ASSUME TypeInv, StackStep, Len(stack) > 0, ~UNCHANGED vars
  PROVE  /\ \A k \in 1..(Len(stack) - 1) : stack'[k] = stack[k]
         /\ \/ Ends /\ Len(stack') = Len(stack) - 1
            \/ /\ Len(stack') = Len(stack)
               /\ \E f \in Later : Step(f) /\ stack'[Len(stack)] = f
            \/ /\ Calls /\ Len(stack') = Len(stack) + 1
               /\ stack'[Len(stack)] = NextChild
               /\ \E d \in Decl, ns \in Seq(Decl) :
                    /\ stack'[Len(stack) + 1] = NewFrame(d, ns)
                    /\ Link(NextChild, NewFrame(d, ns))
                    /\ KindOf(Top.decl) # "namespace" => translated[d] = NoNode
<1>1. stack \in Seq(Frame) /\ Len(stack) \in Nat /\ Len(stack) \in 1..Len(stack)
  BY DEF TypeInv, TypeOK
<1>2. CASE GoesOn
  <2>1. PICK f \in Later : Step(f)
    BY <1>2 DEF GoesOn
  <2>2. f \in Frame
    BY DEF Later
  <2>3. /\ Len(stack') = Len(stack) /\ stack'[Len(stack)] = f
        /\ \A k \in 1..(Len(stack) - 1) : stack'[k] = stack[k]
    BY <1>1, <2>1, <2>2, ExceptSeq DEF Step
  <2> QED
    BY <2>1, <2>3
<1>3. CASE Ends
  <2>1. /\ Len(stack') = Len(stack) - 1
        /\ \A k \in 1..(Len(stack) - 1) : stack'[k] = stack[k]
    BY <1>3, StackFacts DEF Ends
  <2> QED
    BY <1>3, <2>1
<1>4. CASE Calls
  <2>1. PICK d \in Decl, ns \in Seq(Decl) :
          /\ KindOf(Top.decl) # "namespace" => translated[d] = NoNode
          /\ Link(NextChild, NewFrame(d, ns))
          /\ stack' = Append([stack EXCEPT ![Len(stack)] = NextChild], NewFrame(d, ns))
    BY <1>4 DEF Calls
  <2>2. NextChild \in Frame /\ NewFrame(d, ns) \in Frame
    BY TopGoesOn DEF NextChild, Later, NewFrame, Frame, Phase
  <2>3. /\ Len(stack') = Len(stack) + 1
        /\ \A k \in 1..(Len(stack) - 1) : stack'[k] = stack[k]
        /\ stack'[Len(stack)] = NextChild /\ stack'[Len(stack) + 1] = NewFrame(d, ns)
    BY <1>1, <2>1, <2>2, PushFacts
  <2> QED
    BY <1>4, <2>1, <2>3
<1>5. ~PassesOver /\ ~Begins /\ ~Stays
  BY DEF PassesOver, Begins, AtFree, Stays
<1> QED
  BY <1>2, <1>3, <1>4, <1>5 DEF StackStep

LEMMA NextFacts ==
  ASSUME TypeInv, Len(stack) > 0
  PROVE  NextChild.decl = Top.decl /\ NextChild.phase = Top.phase
BY StackFacts DEF NextChild, Frame

(* The visitors on the stack keep to their phases and have their nodes.    *)
LEMMA WorkStep ==
  ASSUME TypeInv, Sane, AllWork, NodeStep, StackStep, [Next]_vars, prog' = prog
  PROVE  AllWork'
<1>1. translated \in [Decl -> NodeClass \cup {NoNode}] /\ stack \in Seq(Frame)
      /\ Len(stack) \in Nat
  BY DEF TypeInv, TypeOK
<1> DEFINE Still(f) == /\ PhaseFits(f)
                       /\ f.phase # "enter" /\ KindOf(f.decl) # "namespace"
                            => translated'[f.decl] # NoNode
<1>2. ASSUME NEW f \in Frame, Working(f)
      PROVE  Still(f)
  BY <1>2, NodeKept DEF Working, Frame
<1>3. \A d, ns : Still(NewFrame(d, ns))
  BY DEF NewFrame, PhaseFits
<1>4. \A k \in 1..Len(stack) : stack[k] \in Frame
  BY <1>1, ElementOfSeq
<1>5. SUFFICES \A k \in 1..Len(stack') : Still(stack'[k])
  BY ProgKept DEF AllWork, Working
<1> HIDE DEF Still
<1>6. CASE UNCHANGED vars
  BY <1>2, <1>4, <1>6 DEF vars, AllWork
<1>7. CASE Len(stack) = 0
  <2>1. CASE Begins
    BY <1>3, <2>1 DEF Begins
  <2>2. CASE Stays \/ PassesOver
    BY <1>7, <2>2 DEF Stays, PassesOver
  <2> QED
    BY <1>7, <2>1, <2>2 DEF StackStep, GoesOn, Ends, Calls
<1>8. CASE Len(stack) > 0 /\ ~UNCHANGED vars
  <2>1. \A k \in 1..(Len(stack) - 1) : stack'[k] = stack[k] /\ Still(stack'[k])
    BY <1>2, <1>4, <1>8, Framed DEF AllWork
  <2>2. Working(Top) /\ Top \in Frame /\ Top.decl \in Decl
    BY <1>1, <1>8, StackFacts DEF AllWork, Top
  <2>3. CASE Ends /\ Len(stack') = Len(stack) - 1
    BY <1>1, <2>1, <2>3
  <2>4. ASSUME NEW f \in Later, Step(f), stack'[Len(stack)] = f,
               Len(stack') = Len(stack)
        PROVE  \A k \in 1..Len(stack') : Still(stack'[k])
    <3>1. f \in Frame /\ Onward(f)
      BY <1>8, <2>2, <2>4, GoesOnward DEF Later, Working
    <3>2. KindOf(Top.decl) # "namespace" => translated'[Top.decl] # NoNode
      <4>1. CASE Top.phase = "enter"
        BY <1>1, <2>2, <3>1, <4>1 DEF Onward, Register
      <4>2. CASE Top.phase # "enter"
        BY <2>2, <4>2, NodeKept DEF Working
      <4> QED
        BY <4>1, <4>2
    <3>3. Still(f)
      BY <3>1, <3>2 DEF Still, Onward
    <3> QED
      BY <1>1, <1>8, <2>1, <2>4, <3>3
  <2>5. CASE Calls /\ Len(stack') = Len(stack) + 1
             /\ stack'[Len(stack)] = NextChild
             /\ \E d \in Decl, ns \in Seq(Decl) : stack'[Len(stack) + 1] = NewFrame(d, ns)
    <3>1. Still(NextChild)
      <4>1. Working(NextChild) /\ NextChild \in Frame
        BY <1>8, <2>2, NextFacts, TopGoesOn DEF Working, PhaseFits, NextChild, Later
      <4> QED
        BY <1>2, <4>1
    <3> QED
      BY <1>1, <1>3, <1>8, <2>1, <2>5, <3>1
  <2> QED
    BY <1>8, <2>3, <2>4, <2>5, Framed
<1> QED
  BY <1>1, <1>6, <1>7, <1>8

LEMMA FreshTopStep ==
  ASSUME TypeInv, CallsNest, AllWork, FreshTop, StackStep, [Next]_vars, prog' = prog
  PROVE  FreshTop'
<1>1. stack \in Seq(Frame) /\ Len(stack) \in Nat
  BY DEF TypeInv, TypeOK
<1>2. CASE UNCHANGED vars
  BY <1>2 DEF vars, FreshTop, Top, Caller, KindOf
<1>3. CASE Len(stack) = 0 /\ ~Begins
  <2>1. stack' = stack
    BY <1>3 DEF StackStep, Stays, PassesOver, GoesOn, Ends, Calls
  <2> QED
    BY <1>3, <2>1 DEF FreshTop
<1>4. CASE Begins
  <2>1. /\ stack'[Len(stack')] = NewFrame(prog.free[next], <<>>)
        /\ translated'[prog.free[next]] = NoNode
    BY <1>4 DEF Begins, nodes
  <2> QED
    BY <2>1 DEF FreshTop, Top, NewFrame
<1>5. CASE Len(stack) > 0 /\ ~UNCHANGED vars
  <2>1. \A k \in 1..(Len(stack) - 1) : stack'[k] = stack[k]
    BY <1>5, Framed
  <2>2. CASE Ends /\ Len(stack') = Len(stack) - 1
    <3>1. SUFFICES ASSUME Len(stack') > 0
                   PROVE  stack'[Len(stack')].phase = "body"
      BY DEF FreshTop, Top
    <3>2. Len(stack') \in 1..(Len(stack) - 1)
      BY <1>1, <2>2, <3>1
    <3> QED
      BY <2>1, <2>2, <3>2 DEF CallsNest, Link
  <2>3. ASSUME NEW f \in Later, Step(f), stack'[Len(stack)] = f,
               Len(stack') = Len(stack)
        PROVE  FreshTop'
    <3>1. f.phase # "enter"
      <4>1. Working(Top)
        BY <1>1, <1>5 DEF AllWork, Top
      <4> QED
        BY <1>5, <2>3, <4>1, GoesOnward DEF Later, Working, Onward
    <3> QED
      BY <2>3, <3>1 DEF FreshTop, Top
  <2>4. ASSUME Calls, Len(stack') = Len(stack) + 1, stack'[Len(stack)] = NextChild,
               NEW d \in Decl, NEW ns \in Seq(Decl),
               stack'[Len(stack) + 1] = NewFrame(d, ns),
               KindOf(Top.decl) # "namespace" => translated[d] = NoNode
        PROVE  FreshTop'
    <3>1. stack'[Len(stack') - 1].decl = Top.decl
      BY <1>1, <1>5, <2>4, NextFacts
    <3>2. stack'[Len(stack')].decl = d /\ Len(stack') > 1
      BY <1>1, <1>5, <2>4 DEF NewFrame
    <3>3. translated' = translated
      BY <2>4 DEF Calls, nodes
    <3> QED
      BY <2>4, <3>1, <3>2, <3>3, ProgKept DEF FreshTop, Top, Caller
  <2> QED
    BY <1>5, <2>2, <2>3, <2>4, Framed
<1> QED
  BY <1>1, <1>2, <1>3, <1>4, <1>5

(* A visitor leaves the stack with its declaration built or having thrown. *)
LEMMA TriedStep ==
  ASSUME TypeInv, CallsNest, Sane, AllWork, Tried, NodeStep, StackStep, [Next]_vars
  PROVE  Tried'
<1>1. stack \in Seq(Frame) /\ Len(stack) \in Nat
  BY DEF TypeInv, TypeOK
<1> DEFINE AtWork(d, s) == \E k \in 1..Len(s) : s[k].decl = d /\ s[k].phase # "enter"
<1>2. SUFFICES ASSUME NEW d \in Decl, translated'[d] # NoNode,
                      d \notin started' \cup built' \cup threw'
               PROVE  AtWork(d, stack')
  BY DEF Tried
<1>3. Remembers
  BY DEF NodeStep
<1>4. CASE UNCHANGED vars
  BY <1>2, <1>4 DEF vars, Tried
<1>5. CASE Len(stack) = 0
  <2>1. ~AtWork(d, stack)
    BY <1>5
  <2> QED
    BY <1>2, <1>3, <1>5, <2>1, NodeNew DEF Tried, Remembers, OwnNode
<1>6. CASE Len(stack) > 0 /\ ~UNCHANGED vars
  <2>1. Top \in Frame /\ Working(Top) /\ Next /\ Len(stack) \in 1..Len(stack)
    BY <1>1, <1>6, StackFacts DEF AllWork, Top
  <2>2. ASSUME NEW f \in Frame, Step(f)
        PROVE  f.decl = Top.decl /\ f.phase # "enter"
    BY <1>6, <2>1, <2>2, GoesOnward DEF Onward, Working
  <2>3. CASE translated[d] = NoNode
    <3>1. PICK f \in Frame : Step(f) /\ d = Top.decl
      BY <1>2, <2>3, NodeNew DEF OwnNode
    <3>2. Len(stack') = Len(stack) /\ stack'[Len(stack)] = f
      BY <1>1, <2>1, <3>1, ExceptSeq DEF Step
    <3> QED
      BY <2>1, <2>2, <3>1, <3>2
  <2>4. CASE translated[d] # NoNode
    <3>1. PICK k \in 1..Len(stack) : stack[k].decl = d /\ stack[k].phase # "enter"
      BY <1>2, <1>3, <2>4 DEF Tried, Remembers
    <3>2. CASE k < Len(stack)
      <4>1. k \in 1..(Len(stack) - 1)
        BY <1>1, <3>2
      <4>2. stack'[k] = stack[k] /\ k \in 1..Len(stack')
        BY <1>1, <1>6, <4>1, Framed
      <4> QED
        BY <3>1, <4>2
    <3>3. CASE k = Len(stack)
      <4>1. d = Top.decl /\ Top.phase # "enter" /\ KindOf(d) # "namespace"
        BY <2>4, <3>1, <3>3, KindFacts, BuildFacts DEF Top, Sane
      <4>2. ~Ends
        BY <1>2, <4>1 DEF Ends
      <4>3. ASSUME NEW f \in Later, Step(f), stack'[Len(stack)] = f,
                   Len(stack') = Len(stack)
            PROVE  AtWork(d, stack')
        BY <2>1, <2>2, <4>1, <4>3 DEF Later
      <4>4. CASE stack'[Len(stack)] = NextChild /\ Len(stack') = Len(stack) + 1
        <5>1. Len(stack) \in 1..Len(stack')
          BY <1>1, <2>1, <4>4
        <5> QED
          BY <1>6, <4>1, <4>4, <5>1, NextFacts
      <4> QED
        BY <1>6, <4>2, <4>3, <4>4, Framed
    <3> QED
      BY <1>1, <3>2, <3>3
  <2> QED
    BY <2>3, <2>4
<1> QED
  BY <1>1, <1>4, <1>5, <1>6

Table == Sane /\ FreeFresh /\ AllWork /\ FreshTop /\ Tried

LEMMA TableInit == Init => Table
<1>1. SUFFICES ASSUME Init
               PROVE  Table
  OBVIOUS
<1>2. /\ \A d \in Decl : translated[d] = NoNode
      /\ stack = <<>> /\ Len(stack) = 0 /\ started = {}
  BY <1>1 DEF Init
<1>3. next = 1 /\ \A j \in next..Len(prog.free) : prog.free[j] \in Decl
  BY <1>1, ProgramFacts DEF Init, Program
<1>4. Sane /\ FreeFresh
  BY <1>2, <1>3 DEF Sane, FreeFresh
<1>5. AllWork /\ FreshTop /\ Tried
  BY <1>2 DEF AllWork, FreshTop, Tried
<1> QED
  BY <1>4, <1>5 DEF Table

LEMMA TableStep == TypeInv /\ CallsNest /\ Table /\ [Next]_vars => Table'
<1>1. SUFFICES ASSUME TypeInv, CallsNest, Table, [Next]_vars
               PROVE  Table'
  OBVIOUS
<1>2. StackStep /\ NodeStep /\ prog' = prog
  BY <1>1, StackSteps, NodeSteps
<1> QED
  BY <1>1, <1>2, SaneStep, FreshStep, WorkStep, FreshTopStep, TriedStep DEF Table

(* A node that is placed has been built by the visitor that returns it, or *)
(* was in the table: at a free declaration because something referred to   *)
(* it, at a function because an earlier declaration of it has been visited *)
(* in the same namespace.                                                  *)
LEMMA PlacedFilled ==
  ASSUME TypeInv, CallsNest, Table, NEW d \in Decl, NEW ns \in Seq(Decl), Placing(d, ns)
  PROVE  \/ d \in built \cup built'
         \/ ns = <<>> /\ d \in started
         \/ ns # <<>> /\ KindOf(d) = "function" /\ d \in threw
<1>1. CASE AtFree /\ d = prog.free[next] /\ ns = <<>> /\ translated[d] # NoNode
  <2>1. next \in next..Len(prog.free)
    BY <1>1, ProgramFacts DEF AtFree, TypeInv, TypeOK, Program
  <2> QED
    BY <1>1, <2>1 DEF Table, FreeFresh
<1>2. CASE /\ Len(stack) > 0 /\ d = Top.decl /\ ns = Top.ns
           /\ Len(stack) > 1 => KindOf(Caller.decl) = "namespace"
           /\ HasResult(d)
  <2>1. SUFFICES ASSUME Top.phase = "enter"
                 PROVE  \/ d \in built \cup built'
                        \/ ns # <<>> /\ KindOf(d) = "function" /\ d \in threw
    BY <1>2 DEF HasResult
  <2>2. translated[d] # NoNode /\ KindOf(d) = "function"
    BY <1>2, <2>1 DEF HasResult, Table, Sane
  <2>3. Len(stack) > 1
    <3>1. ~(Len(stack) > 1 => KindOf(Caller.decl) # "namespace")
      BY <1>2, <2>1, <2>2 DEF Table, FreshTop
    <3> QED
      BY <3>1
  <2>4. ns # <<>>
    <3>1. Link(Caller, Top) /\ KindOf(Caller.decl) = "namespace"
      BY <1>2, <2>3, CallerFacts
    <3>2. ns = Append(Caller.ns, Caller.decl) /\ Caller.ns \in Seq(Decl)
      BY <1>2, <2>3, <3>1, StackFacts DEF Link, Frame
    <3> QED
      BY <3>2
  <2>5. d \notin started
    BY <2>2 DEF Table, Sane, StartClass
  <2>6. ~\E k \in 1..Len(stack) : stack[k].decl = d /\ stack[k].phase # "enter"
    <3>1. SUFFICES ASSUME NEW k \in 1..Len(stack), stack[k].decl = d,
                          stack[k].phase # "enter"
                   PROVE  FALSE
      OBVIOUS
    <3>2. k \in 1..(Len(stack) - 1)
      BY <1>2, <2>1, <3>1 DEF TypeInv, TypeOK, Top
    <3> QED
      BY <2>2, <3>1, <3>2 DEF CallsNest, Link
  <2> QED
    BY <2>2, <2>4, <2>5, <2>6 DEF Table, Tried
<1> QED
  BY <1>1, <1>2 DEF Placing

LEMMA FilledStep ==
  TypeInv /\ CallsNest /\ Table /\ PlacedMeansFilled /\ [Next]_vars => PlacedMeansFilled'
<1>1. SUFFICES ASSUME TypeInv, CallsNest, Table, PlacedMeansFilled, [Next]_vars
               PROVE  PlacedMeansFilled'
  OBVIOUS
<1>2. /\ EmittedStep /\ NodeStep /\ prog' = prog
  BY <1>1, EmittedSteps, StackSteps, NodeSteps
<1> DEFINE Filled(p, b, s, t) == \/ p.decl \in b
                                 \/ p.ns = <<>> /\ p.decl \in s
                                 \/ p.ns # <<>> /\ KindOf(p.decl) = "function" /\ p.decl \in t
<1>3. SUFFICES \A i \in 1..Len(output') : Filled(output'[i], built', started', threw')
  BY <1>2, ProgKept DEF PlacedMeansFilled
<1>4. \A i \in 1..Len(output) : Filled(output[i], built', started', threw')
  BY <1>1, <1>2 DEF PlacedMeansFilled, NodeStep, Remembers
<1>5. CASE UNCHANGED output
  BY <1>4, <1>5
<1>6. ASSUME NEW d \in Decl, NEW ns \in Seq(Decl), Placing(d, ns),
             output' = Append(output, [decl |-> d, ns |-> ns])
      PROVE  \A i \in 1..Len(output') : Filled(output'[i], built', started', threw')
  <2>1. output \in Seq(Placement) /\ [decl |-> d, ns |-> ns] \in Placement
    BY <1>1 DEF TypeInv, TypeOK, Placement
  <2>2. /\ Len(output) \in Nat /\ Len(output') = Len(output) + 1
        /\ \A i \in 1..Len(output) : output'[i] = output[i]
        /\ output'[Len(output) + 1] = [decl |-> d, ns |-> ns]
    BY <1>6, <2>1
  <2>3. Filled([decl |-> d, ns |-> ns], built', started', threw')
    BY <1>1, <1>2, <1>6, PlacedFilled DEF NodeStep, Remembers
  <2> HIDE DEF Filled
  <2> QED
    BY <1>4, <2>2, <2>3
<1> QED
  BY <1>2, <1>5, <1>6 DEF EmittedStep, PlaceIntoTargetModule, emitted

(* What is in the output has been filled to the end, but for the two       *)
(* shortcuts of the code: a free declaration that was only referred to,    *)
(* and a function declared again in a namespace after it threw.            *)
THEOREM PlacedMeansFilledCorrect == Spec => []PlacedMeansFilled
<1>1. Init => PlacedMeansFilled
  BY DEF Init, PlacedMeansFilled
<1>2. QED
  BY TypeInit, TypeStep, NestInit, NestAlways, TableInit, TableStep, FilledStep,
     <1>1, PTL DEF Spec

-----------------------------------------------------------------------------
(* Bindings.                                                               *)

(* A step changes the state of at most one node.                           *)
LEMMA LifeStep ==
  ASSUME TypeInv, NodeStep
  PROVE  \/ Life' = Life
         \/ \E d \in Decl, stage \in Promise!Stage : Promise!Advance(d, stage)
<1> DEFINE Stage(d) == IF translated[d] = NoNode THEN "absent"
                       ELSE IF d \in built THEN "filled" ELSE "bare"
<1> DEFINE StageNow(d) == IF translated'[d] = NoNode THEN "absent"
                          ELSE IF d \in built' THEN "filled" ELSE "bare"
<1>1. translated \in [Decl -> NodeClass \cup {NoNode}]
  BY DEF TypeInv, TypeOK
<1>2. Life = [d \in Decl |-> Stage(d)] /\ Life' = [d \in Decl |-> StageNow(d)]
  BY DEF Life
<1>3. ASSUME NEW d \in Decl,
             \A e \in Decl \ {d} : translated'[e] = translated[e]
                                   /\ (e \in built' <=> e \in built),
             translated[d] # NoNode => translated'[d] # NoNode,
             d \in built => d \in built'
      PROVE  Life' = Life \/ \E stage \in Promise!Stage : Promise!Advance(d, stage)
  <2>1. \A e \in Decl \ {d} : StageNow(e) = Stage(e)
    BY <1>3
  <2>2. \/ StageNow(d) = Stage(d)
        \/ StageNow(d) = "filled"
        \/ StageNow(d) = "bare" /\ Stage(d) = "absent"
    BY <1>3
  <2>3. StageNow(d) \in Promise!Stage
    BY DEF Promise!Stage
  <2> HIDE DEF Stage, StageNow
  <2>4. Life' = [Life EXCEPT ![d] = StageNow(d)] /\ Life[d] = Stage(d)
    BY <1>2, <2>1
  <2>5. CASE StageNow(d) = Stage(d)
    BY <1>2, <2>1, <2>5
  <2>6. CASE StageNow(d) # Stage(d)
    <3>1. Promise!Advance(d, StageNow(d))
      BY <2>2, <2>4, <2>6 DEF Promise!Advance
    <3> QED
      BY <2>3, <3>1
  <2> QED
    BY <2>5, <2>6
<1> HIDE DEF Stage, StageNow
<1>4. CASE UNCHANGED <<translated, built>>
  BY <1>4 DEF Life
<1>5. CASE \E d \in Decl : UNCHANGED translated /\ built' = built \cup {d}
  BY <1>3, <1>5
<1>6. CASE UNCHANGED built /\ \E t \in Decl : StartDeclTypeBuild(t)
  BY <1>1, <1>3, <1>4, <1>6 DEF StartDeclTypeBuild
<1>7. CASE UNCHANGED built /\ OwnNode
  <2>1. Top.decl \in Decl
    BY <1>7, StackFacts DEF OwnNode
  <2> QED
    BY <1>1, <1>3, <1>7, <2>1 DEF OwnNode, Register
<1>8. CASE ConstantNode
  BY <1>1, <1>3, <1>8 DEF ConstantNode, Register
<1> QED
  BY <1>4, <1>5, <1>6, <1>7, <1>8 DEF NodeStep

LEMMA ExportFacts ==
  ASSUME NEW s \in Seq(Placement), NEW t, t = [i \in 1..Len(s) |-> s[i].decl]
  PROVE  /\ t \in Seq(Decl) /\ Len(t) = Len(s)
         /\ \A i \in 1..Len(s) : t[i] = s[i].decl
<1>1. Len(s) \in Nat /\ \A i \in 1..Len(s) : s[i].decl \in Decl
  <2>1. \A i \in 1..Len(s) : s[i] \in Placement
    BY ElementOfSeq
  <2> QED
    BY <2>1 DEF Placement
<1> QED
  BY <1>1

(* A step that places a node exports it once and not before it exists.     *)
LEMMA ExportStep ==
  ASSUME TypeInv, CallsNest, Table, PlacedOnce, NodeStep, EmittedStep
  PROVE  \/ Exports' = Exports
         \/ \E d \in Decl : Promise!Export(d)
<1>1. CASE UNCHANGED output
  BY <1>1 DEF Exports
<1>2. ASSUME NEW d \in Decl, NEW ns \in Seq(Decl), Placing(d, ns), d \notin placed,
             output' = Append(output, [decl |-> d, ns |-> ns])
      PROVE  Promise!Export(d)
  <2>1. output \in Seq(Placement) /\ [decl |-> d, ns |-> ns] \in Placement
    BY DEF TypeInv, TypeOK, Placement
  <2>2. /\ Len(output) \in Nat /\ Len(output') = Len(output) + 1
        /\ output' \in Seq(Placement)
        /\ \A i \in 1..Len(output) : output'[i] = output[i]
        /\ output'[Len(output) + 1].decl = d
    BY <1>2, <2>1
  <2>3. /\ Exports \in Seq(Decl) /\ Len(Exports) = Len(output)
        /\ \A i \in 1..Len(output) : Exports[i] = output[i].decl
    BY <2>1, ExportFacts DEF Exports
  <2>4. /\ Exports' \in Seq(Decl) /\ Len(Exports') = Len(output')
        /\ \A i \in 1..Len(output') : Exports'[i] = output'[i].decl
    <3>1. Exports' = [i \in 1..Len(output') |-> output'[i].decl]
      BY DEF Exports
    <3> QED
      BY <2>2, <3>1, ExportFacts
  <2>5. Exports' = Append(Exports, d)
    <3>1. /\ Append(Exports, d) \in Seq(Decl)
          /\ Len(Append(Exports, d)) = Len(output) + 1
          /\ \A i \in 1..(Len(output) + 1) :
               Append(Exports, d)[i] = IF i <= Len(output) THEN Exports[i] ELSE d
      BY <2>2, <2>3
    <3>2. \A i \in 1..(Len(output) + 1) : Exports'[i] = Append(Exports, d)[i]
      BY <2>2, <2>3, <2>4, <3>1
    <3> QED
      BY <2>2, <2>4, <3>1, <3>2, SeqEqual
  <2>6. d \notin Promise!Exported
    <3>1. Promise!Exported = {Exports[i] : i \in 1..Len(Exports)}
      BY DEF Promise!Exported
    <3>2. \A i \in 1..Len(output) : output[i].decl # d
      BY <1>2 DEF PlacedOnce
    <3>3. \A i \in 1..Len(Exports) : Exports[i] # d
      BY <2>3, <3>2
    <3> QED
      BY <3>1, <3>3
  <2>7. translated'[d] # NoNode
    <3>1. CASE translated[d] # NoNode
      BY <3>1, NodeKept
    <3>2. CASE translated[d] = NoNode
      <4>1. /\ Len(stack) > 0 /\ d = Top.decl /\ Top.phase # "enter"
            /\ KindOf(d) = "namespace" => Top.phase = "types"
        BY <1>2, <3>2 DEF Placing, HasResult
      <4>2. Working(Top)
        BY <4>1 DEF Table, AllWork, Top, TypeInv, TypeOK
      <4> QED
        BY <3>2, <4>1, <4>2 DEF Working, PhaseFits, TypedKinds
    <3> QED
      BY <3>1, <3>2
  <2>8. Life'[d] # "absent"
    BY <2>7 DEF Life
  <2> QED
    BY <2>5, <2>6, <2>8 DEF Promise!Export
<1> QED
  BY <1>1, <1>2 DEF EmittedStep, PlaceIntoTargetModule, emitted

LEMMA OnlyRunning == Next => status = "running"
BY DEF Next, Populate, PopulateSkip, PopulateTranslated, PopulateVisit, PopulateEnd,
   AtFree, Enter, VisitNothing, VisitMemoised, VisitRejectedMethod, VisitCallable,
   VisitTyped, VisitRecord, VisitClass, VisitUnion, VisitNamespace, Types, TypeFallback,
   TypeReject, TypeResolve, TypesEnd, EnumTypeEnd, AtType, Bases, BaseReject,
   BaseMismatch, StructBase, StructSurplusBase, InterfaceBase, InterfaceHiddenBase,
   BasesEnd, AtBase, Body, ChildSkip, ChildAddAgain, ChildVisit, BodyEnd, NamespaceChild,
   NamespaceEnd, EnumConstant, EnumEnd, AtChild, InPhase

(* A step of the visitors is a step of Bindings or changes nothing of it.  *)
LEMMA PromiseStep ==
  TypeInv /\ CallsNest /\ Table /\ PlacedOnce /\ [Next]_vars
    => [Promise!Next]_(Promise!vars)
<1>1. SUFFICES ASSUME TypeInv, CallsNest, Table, PlacedOnce, [Next]_vars
               PROVE  [Promise!Next]_(Promise!vars)
  OBVIOUS
<1>2. CASE UNCHANGED vars
  BY <1>2 DEF vars, Promise!vars, Life, Exports
<1>3. CASE Next
  <2>1. status = "running"
    BY <1>3, OnlyRunning
  <2>2. NodeStep /\ EmittedStep
    BY <1>1, NodeSteps, EmittedSteps
  <2>3. (status = "running")' \in BOOLEAN
    OBVIOUS
  <2> QED
    BY <1>1, <2>1, <2>2, <2>3, LifeStep, ExportStep DEF Promise!Next
<1> QED
  BY <1>1, <1>2, <1>3

(* The visitors implement the safety part of Bindings: a declaration gets  *)
(* one node, which never gets poorer, and is exported at most once, after  *)
(* the node came into being.                                               *)
THEOREM BindingsSafe == Spec => Promise!Safe
<1>1. Init => Promise!Init
  BY DEF Init, Promise!Init, Life, Exports
<1>2. Init => PlacedOnce
  BY DEF Init, PlacedOnce
<1>3. TypeInv /\ PlacedOnce /\ [Next]_vars => PlacedOnce'
  BY EmittedSteps, PlacedOnceStep
<1>4. QED
  BY TypeInit, TypeStep, NestInit, NestAlways, TableInit, TableStep, PromiseStep,
     <1>1, <1>2, <1>3, PTL DEF Spec, Promise!Safe

(* All of Bindings follows once the pass is known to end, which is what    *)
(* Termination says.                                                       *)
THEOREM BindingsImplemented == Spec /\ Termination => BindingsSpec
<1>1. (status # "running") <=> ~(status = "running")
  OBVIOUS
<1>2. QED
  BY BindingsSafe, <1>1, PTL DEF Termination, BindingsSpec, Promise!Spec

-----------------------------------------------------------------------------
(* Nothing gets lost.                                                      *)

(* What has no node whatever happens: kinds and strategies that no visitor *)
(* builds, and overloaded operators.                                       *)
Barren(d) ==
  BuildClass(d) = NoNode \/ (KindOf(d) = "function" /\ Has(d, "operator"))

(* The visitor of d has been, and what it could do for d is done.          *)
Settled(d) == Has(d, "emit") /\ d \notin threw => d \in placed \/ Barren(d)

(* The children of the namespace at the bottom of the stack that its loop  *)
(* has still to visit, or is visiting.                                     *)
Ahead(i) == i >= stack[1].pos \/ (i = stack[1].pos - 1 /\ Len(stack) > 1)

FreeSettled ==
  \A j \in 1..(next - 1) : Has(prog.free[j], "wrappable") =>
    \/ Settled(prog.free[j])
    \/ j = next - 1 /\ Len(stack) > 0
ChildrenSettled ==
  \A j \in 1..(next - 1) :
    Has(prog.free[j], "wrappable") /\ KindOf(prog.free[j]) = "namespace" =>
      \A i \in 1..Len(Children(prog.free[j])) :
        \/ Settled(Children(prog.free[j])[i])
        \/ j = next - 1 /\ Len(stack) > 0 /\ Ahead(i)

(* A member that stops the pass.                                           *)
Stopper(c) ==
  /\ Has(c, "wrappable") /\ (Has(c, "emit") \/ translated[c] # NoNode)
  /\ \E u \in Decl : KindOf(u) = "union" /\ IsChild(c, u)
  /\ KindOf(c) \in {"field", "method"} => KindOf(c) = "method" /\ Has(c, "static")
Ended ==
  /\ status = "done" => stack = <<>> /\ next > Len(prog.free)
  /\ status = "aborted" => \E c \in Decl : Stopper(c)

(* How a visitor leaves: it throws, it has a result, or there is a reason  *)
(* that it has none.                                                       *)
Excused ==
  \/ ~Has(Top.decl, "emit")
  \/ Barren(Top.decl)
  \/ KindOf(Top.decl) = "field" /\ InInterface
  \/ KindOf(Top.decl) = "method" /\ InInterface /\ Has(Top.decl, "overrides")
  \/ KindOf(Top.decl) = "record" /\ Top.decl \in placed

LEMMA Left ==
  ASSUME TypeInv, Len(stack) > 0, PhaseFits(Top), Next, stack' = Pop
  PROVE  /\ Top.decl \in threw' \/ Return(TRUE) \/ Excused
         /\ KindOf(Top.decl) = "namespace" => Top.pos > Len(Children(Top.decl))
<1>1. /\ Top \in Frame /\ Top.decl \in Decl
      /\ KindOf(Top.decl) \in Kind /\ StrategyOf(Top.decl) \in Strategy
  BY StackFacts, KindFacts
<1>2. /\ \A f \in Frame : ~Step(f)
      /\ \A d \in Decl, ns \in Seq(Decl) :
           stack' # Append([stack EXCEPT ![Len(stack)] = NextChild], NewFrame(d, ns))
  <2>1. \A f \in Frame : ~Step(f)
    BY OneStep
  <2>2. ASSUME NEW d \in Decl, NEW ns \in Seq(Decl),
               stack' = Append([stack EXCEPT ![Len(stack)] = NextChild], NewFrame(d, ns))
        PROVE  FALSE
    <3>1. NextChild \in Frame /\ NewFrame(d, ns) \in Frame
      BY TopGoesOn DEF NextChild, Later, NewFrame, Frame, Phase
    <3>2. Len(stack') = Len(stack) + 1 /\ Len(stack) \in Nat
      BY <2>2, <3>1, PushFacts DEF TypeInv, TypeOK
    <3> QED
      BY <3>2, StackFacts
  <2> QED
    BY <2>1, <2>2
<1>4. \A r : Return(r) /\ r => Return(TRUE)
  BY DEF Return
<1>5. /\ \A p \in Phase : [Top EXCEPT !.phase = p] \in Frame
      /\ \A p \in Phase : [Top EXCEPT !.phase = p, !.pos = 1] \in Frame
      /\ [Top EXCEPT !.pos = @ + 1] \in Frame
      /\ [Top EXCEPT !.pos = @ + 1, !.via = NoUse] \in Frame
      /\ \A u \in Use : [Top EXCEPT !.via = u] \in Frame
  BY FrameType
<1>6. ~Populate
  BY DEF Populate, PopulateSkip, PopulateTranslated, PopulateVisit, PopulateEnd, AtFree
<1>7. CASE Enter
  <2>1. KindOf(Top.decl) # "namespace"
    <3>1. ~VisitNamespace
      BY <1>2, <1>5 DEF VisitNamespace, Phase
    <3> QED
      BY <1>7, <3>1 DEF Enter, VisitNothing, BuildsNothing, VisitMemoised,
         VisitRejectedMethod, VisitCallable, VisitTyped, VisitRecord, VisitClass,
         VisitUnion, InPhase, TypedKinds
  <2>2. CASE VisitNothing
    <3>1. CASE KindOf(Top.decl) = "record"
      <4>1. Has(Top.decl, "emit") => Has(Top.decl, "defined")
        BY <1>1, <3>1, ProgramFacts DEF TypeInv, WellFormed, KindOf, Has
      <4> QED
        BY <2>1, <2>2, <3>1, <4>1 DEF VisitNothing, BuildsNothing, Excused, Barren, BuildClass
    <3>2. CASE KindOf(Top.decl) # "record"
      BY <2>1, <2>2, <3>2 DEF VisitNothing, BuildsNothing, Excused, Barren, BuildClass
    <3> QED
      BY <3>1, <3>2
  <2>3. CASE VisitMemoised
    BY <1>4, <2>1, <2>3 DEF VisitMemoised
  <2>4. CASE VisitRejectedMethod \/ VisitClass
    BY <2>1, <2>4 DEF VisitRejectedMethod, VisitClass, Throw
  <2>5. ~VisitCallable /\ ~VisitTyped /\ ~VisitRecord /\ ~VisitUnion /\ ~VisitNamespace
    BY <1>2, <1>5 DEF VisitCallable, VisitTyped, VisitRecord, VisitUnion,
       VisitNamespace, Phase
  <2> QED
    BY <1>7, <2>2, <2>3, <2>4, <2>5 DEF Enter
<1>8. CASE Types
  <2>1. Top.phase = "types"
    BY <1>8 DEF Types, TypeFallback, TypeReject, TypeResolve, TypesEnd, EnumTypeEnd,
         AtType, InPhase
  <2>2. KindOf(Top.decl) # "namespace"
    BY <2>1 DEF PhaseFits, TypedKinds
  <2>3. CASE TypeReject
    BY <2>2, <2>3 DEF TypeReject, Throw
  <2>4. CASE TypesEnd
    BY <1>4, <2>2, <2>4 DEF TypesEnd, Excused
  <2>5. ~TypeFallback /\ ~TypeResolve /\ ~EnumTypeEnd
    <3>1. TypeFallback => prog.uses[CurrentUse.to][1] \in Use
      BY ProgramFacts DEF TypeFallback, FallsBack, TypeInv
    <3> QED
      BY <1>2, <1>5, <3>1 DEF TypeFallback, TypeResolve, EnumTypeEnd, Phase
  <2> QED
    BY <1>8, <2>3, <2>4, <2>5 DEF Types
<1>9. CASE Bases
  <2>1. KindOf(Top.decl) # "namespace"
    BY <1>9 DEF Bases, BaseReject, BaseMismatch, StructBase, StructSurplusBase,
         InterfaceBase, InterfaceHiddenBase, BasesEnd, AtBase, InPhase
  <2>2. CASE BaseReject \/ BaseMismatch \/ StructSurplusBase
    BY <2>1, <2>2 DEF BaseReject, BaseMismatch, StructSurplusBase, Throw
  <2>3. ~StructBase /\ ~InterfaceBase /\ ~InterfaceHiddenBase /\ ~BasesEnd
    BY <1>2, <1>5 DEF StructBase, InterfaceBase, InterfaceHiddenBase, BasesEnd, Phase
  <2> QED
    BY <1>9, <2>2, <2>3 DEF Bases
<1>10. CASE Body
  <2>1. CASE BodyEnd
    <3>1. KindOf(Top.decl) # "namespace"
      BY <2>1 DEF BodyEnd, InPhase
    <3>2. CASE BodyResult
      BY <1>4, <2>1, <3>1, <3>2 DEF BodyEnd
    <3>3. CASE ~BodyResult
      BY <2>1, <3>1, <3>3 DEF BodyEnd, InPhase, BodyResult, Excused
    <3> QED
      BY <3>2, <3>3
  <2>2. CASE NamespaceEnd
    BY <2>2 DEF NamespaceEnd, InPhase, Excused, Barren, BuildClass
  <2>3. CASE EnumEnd
    BY <1>4, <2>3 DEF EnumEnd, InPhase
  <2>4. ~ChildVisit /\ ~NamespaceChild
    <3>1. \A kinds : AtChild(kinds) => CurrentChild \in Decl
      BY CurrentFacts DEF AtChild
    <3>2. Top.ns \in Seq(Decl) /\ ThisNamespacePath \in Seq(Decl)
      BY <1>1 DEF Frame, ThisNamespacePath
    <3> QED
      BY <1>2, <3>1, <3>2 DEF ChildVisit, NamespaceChild, Push, NewFrame
  <2>5. ~ChildSkip /\ ~ChildAddAgain /\ ~EnumConstant
    BY <1>2, <1>5 DEF ChildSkip, ChildAddAgain, EnumConstant, NextChild
  <2> QED
    BY <1>10, <2>1, <2>2, <2>3, <2>4, <2>5 DEF Body
<1> QED
  BY <1>6, <1>7, <1>8, <1>9, <1>10 DEF Next

LEMMA PlacedGrows ==
  ASSUME EmittedStep
  PROVE  placed \subseteq placed'
BY DEF EmittedStep, PlaceIntoTargetModule, emitted

(* A visitor that populateDAST or a namespace called leaves nothing to do. *)
LEMMA Leaves ==
  ASSUME TypeInv, Len(stack) > 0, PhaseFits(Top), Next, stack' = Pop,
         Len(stack) > 1 => KindOf(Caller.decl) = "namespace"
  PROVE  /\ Has(Top.decl, "emit") /\ Top.decl \notin threw'
              => Top.decl \in placed' \/ Barren(Top.decl)
         /\ KindOf(Top.decl) = "namespace" => Top.pos > Len(Children(Top.decl))
<1>1. ~InInterface
  BY DEF InInterface
<1>2. Return(TRUE) /\ Has(Top.decl, "emit") => Top.decl \in placed'
  BY DEF Return, PlaceIntoTargetModule, emitted
<1>3. placed \subseteq placed'
  BY EmittedSteps, PlacedGrows
<1> QED
  BY <1>1, <1>2, <1>3, Left DEF Excused

LEMMA SettledKept ==
  ASSUME prog' = prog, Remembers, placed \subseteq placed'
  PROVE  \A d : Settled(d) => Settled(d)'
BY DEF Settled, Barren, Remembers, BuildClass, KindOf, Has, StrategyOf

LEMMA SettledNow ==
  ASSUME prog' = prog, NEW d,
         Has(d, "emit") /\ d \notin threw' => d \in placed' \/ Barren(d)
  PROVE  Settled(d)'
BY DEF Settled, Barren, BuildClass, KindOf, Has, StrategyOf

LEMMA FreeSettledStep ==
  ASSUME TypeInv, CallsNest, AllWork, FreeSettled, StackStep, [Next]_vars, prog' = prog,
         Remembers, placed \subseteq placed'
  PROVE  FreeSettled'
<1>1. stack \in Seq(Frame) /\ Len(stack) \in Nat /\ next \in Nat \ {0}
  BY DEF TypeInv, TypeOK
<1>2. SUFFICES ASSUME NEW j \in 1..(next' - 1), Has(prog.free[j], "wrappable")
               PROVE  \/ Settled(prog.free[j])'
                      \/ j = next' - 1 /\ Len(stack') > 0
  BY ProgKept DEF FreeSettled
<1>3. CASE UNCHANGED vars
  BY <1>2, <1>3, SettledKept DEF vars, FreeSettled
<1>4. CASE Len(stack) = 0
  <2>1. CASE Stays
    BY <1>2, <1>4, <2>1, SettledKept DEF Stays, FreeSettled
  <2>2. CASE PassesOver \/ Begins
    <3>1. CASE j \in 1..(next - 1)
      BY <1>2, <1>4, <3>1, SettledKept DEF FreeSettled
    <3>2. CASE j = next
      <4>1. CASE PassesOver
        <5>1. Has(prog.free[j], "emit") => prog.free[j] \in placed'
          BY <1>2, <3>2, <4>1 DEF PassesOver
        <5> QED
          BY <5>1, SettledNow
      <4>2. CASE Begins
        <5>1. Len(stack') = 1 /\ next' = next + 1
          BY <4>2 DEF Begins
        <5> QED
          BY <1>1, <3>2, <5>1
      <4> QED
        BY <2>2, <4>1, <4>2
    <3> QED
      BY <1>1, <2>2, <3>1, <3>2 DEF PassesOver, Begins
  <2> QED
    BY <1>4, <2>1, <2>2 DEF StackStep, GoesOn, Ends, Calls
<1>5. CASE Len(stack) > 0 /\ ~UNCHANGED vars
  <2>1. next' = next
    BY <1>5 DEF StackStep, Stays, PassesOver, Begins, AtFree, GoesOn, Ends, Calls
  <2>2. CASE Settled(prog.free[j])
    BY <2>2, SettledKept
  <2>3. CASE j = next - 1 /\ Len(stack') = 0
    <3>1. Ends /\ Len(stack) = 1
      BY <1>1, <1>5, <2>3, Framed
    <3>2. Top.decl = prog.free[j] /\ PhaseFits(Top) /\ Next /\ stack' = Pop
      BY <1>1, <1>5, <2>3, <3>1 DEF CallsNest, Root, Top, AllWork, Working, Ends
    <3> QED
      BY <1>5, <3>1, <3>2, Leaves, SettledNow
  <2>4. CASE j = next - 1 /\ Len(stack') # 0
    BY <1>1, <1>5, <2>1, <2>4, Framed
  <2> QED
    BY <1>2, <1>5, <2>1, <2>2, <2>3, <2>4 DEF FreeSettled
<1> QED
  BY <1>1, <1>3, <1>4, <1>5

(* What a step does to the visitor at the bottom of the stack.             *)
LEMMA Bottom ==
  ASSUME TypeInv, CallsNest, AllWork, StackStep, [Next]_vars, Len(stack) > 0,
         ~UNCHANGED vars, KindOf(stack[1].decl) = "namespace"
  PROVE  /\ stack[1].pos \in Nat
         /\ \/ Ends /\ Len(stack) = 1
            \/ Ends /\ Len(stack) > 1 /\ Len(stack') = Len(stack) - 1 /\ stack'[1] = stack[1]
            \/ Len(stack) > 1 /\ Len(stack') >= Len(stack) /\ stack'[1] = stack[1]
            \/ Len(stack) = 1 /\ Len(stack') = 1 /\ stack'[1].pos = stack[1].pos
            \/ Len(stack) = 1 /\ Len(stack') = 2 /\ stack'[1].pos = stack[1].pos + 1
<1>1. stack \in Seq(Frame) /\ Len(stack) \in Nat /\ stack[1] \in Frame
  BY ElementOfSeq DEF TypeInv, TypeOK
<1>2. stack[1].pos \in Nat
  BY <1>1 DEF Frame
<1>3. PhaseFits(Top) /\ Next
  BY <1>1 DEF AllWork, Working, Top
<1>4. CASE Len(stack) > 1
  <2>1. stack'[1] = stack[1]
    BY <1>1, <1>4, Framed
  <2>2. \/ Ends /\ Len(stack') = Len(stack) - 1
        \/ Len(stack') = Len(stack)
        \/ Len(stack') = Len(stack) + 1
    BY Framed
  <2> QED
    BY <1>1, <1>2, <1>4, <2>1, <2>2
<1>5. CASE Len(stack) = 1
  <2>1. Top = stack[1]
    BY <1>5 DEF Top
  <2>2. ASSUME NEW f \in Later, Step(f), stack'[Len(stack)] = f,
               Len(stack') = Len(stack)
        PROVE  Len(stack') = 1 /\ stack'[1].pos = stack[1].pos
    <3>1. Onward(f)
      BY <1>3, <2>2, GoesOnward DEF Later
    <3> QED
      BY <1>5, <2>1, <2>2, <3>1 DEF Onward
  <2>3. ASSUME stack'[Len(stack)] = NextChild, Len(stack') = Len(stack) + 1
        PROVE  Len(stack') = 2 /\ stack'[1].pos = stack[1].pos + 1
    <3>1. NextChild.pos = Top.pos + 1
      BY <1>1, <2>1 DEF NextChild, Frame
    <3>2. stack'[1] = NextChild /\ Len(stack') = 1 + 1
      BY <1>5, <2>3
    <3> QED
      BY <2>1, <3>1, <3>2
  <2> QED
    BY <1>2, <1>5, <2>2, <2>3, Framed
<1>6. \A n \in Nat : n > 0 => n > 1 \/ n = 1
  OBVIOUS
<1>7. Len(stack) > 1 \/ Len(stack) = 1
  BY <1>1, <1>6, Zenon
<1> QED
  BY <1>4, <1>5, <1>7

LEMMA ChildrenSettledStep ==
  ASSUME TypeInv, CallsNest, Sane, AllWork, ChildrenSettled, StackStep, [Next]_vars,
         prog' = prog, Remembers, placed \subseteq placed'
  PROVE  ChildrenSettled'
<1>1. stack \in Seq(Frame) /\ Len(stack) \in Nat /\ next \in Nat \ {0}
  BY DEF TypeInv, TypeOK
<1>2. prog.free \in Seq(Decl) /\ \A d \in Decl : Children(d) \in Seq(Decl)
  BY ProgramFacts DEF TypeInv, Program
<1> DEFINE Todo(i) == /\ Len(stack') > 0
                      /\ i >= stack'[1].pos \/ (i = stack'[1].pos - 1 /\ Len(stack') > 1)
<1>3. SUFFICES ASSUME NEW j \in 1..(next' - 1), Has(prog.free[j], "wrappable"),
                      KindOf(prog.free[j]) = "namespace",
                      NEW i \in 1..Len(Children(prog.free[j])),
                      NEW c, c = Children(prog.free[j])[i]
               PROVE  Settled(c)' \/ (j = next' - 1 /\ Todo(i))
  <2>1. \A d : Children(d)' = Children(d)
    BY DEF Children
  <2> QED
    BY <2>1, ProgKept DEF ChildrenSettled, Ahead
<1>4. CASE UNCHANGED vars
  BY <1>3, <1>4, SettledKept DEF vars, ChildrenSettled, Ahead
<1>5. CASE Len(stack) = 0
  <2>1. CASE Stays
    BY <1>3, <1>5, <2>1, SettledKept DEF Stays, ChildrenSettled
  <2>2. CASE j \in 1..(next - 1)
    BY <1>3, <1>5, <2>2, SettledKept DEF ChildrenSettled
  <2>3. CASE j = next /\ PassesOver
    <3>1. translated[prog.free[j]] # NoNode /\ j \in 1..Len(prog.free)
      BY <1>1, <1>3, <2>3 DEF PassesOver
    <3>2. prog.free[j] \in Decl
      BY <1>2, <3>1, ElementOfSeq
    <3>3. BuildClass(prog.free[j]) = NoNode
      BY <1>3, <3>2, BuildFacts, KindFacts
    <3> QED
      BY <3>1, <3>2, <3>3 DEF Sane
  <2>4. CASE j = next /\ Begins
    <3>1. Len(stack') = 1 /\ next' = next + 1 /\ stack'[1].pos = 1
      BY <2>4 DEF Begins, NewFrame
    <3>2. Todo(i)
      BY <3>1
    <3> HIDE DEF Todo
    <3> QED
      BY <1>1, <2>4, <3>1, <3>2
  <2>5. next' = next + 1 \/ Stays
    BY <1>5 DEF StackStep, PassesOver, Begins, GoesOn, Ends, Calls
  <2>6. Stays \/ PassesOver \/ Begins
    BY <1>5 DEF StackStep, GoesOn, Ends, Calls
  <2> HIDE DEF Todo
  <2> QED
    BY <1>1, <2>1, <2>2, <2>3, <2>4, <2>5, <2>6
<1>6. CASE Len(stack) > 0 /\ ~UNCHANGED vars
  <2>1. next' = next
    BY <1>6 DEF StackStep, Stays, PassesOver, Begins, AtFree, GoesOn, Ends, Calls
  <2>2. CASE Settled(c)
    BY <2>2, SettledKept
  <2>3. CASE j = next - 1 /\ Ahead(i)
    <3>1. Root(stack[1], next) /\ stack[1] \in Frame
      BY <1>1, <1>6, ElementOfSeq DEF CallsNest
    <3>2. stack[1].decl = prog.free[j] /\ stack[1].decl \in Decl
      BY <2>3, <3>1 DEF Root, Frame
    <3>3. PhaseFits(Top) /\ Next
      BY <1>1, <1>6 DEF AllWork, Working, Top
    <3>4. CASE Ends /\ Len(stack) = 1
      <4>1. Top = stack[1] /\ stack' = Pop
        BY <3>4 DEF Top, Ends
      <4>2. Top.pos > Len(Children(Top.decl))
        BY <1>3, <1>6, <3>2, <3>3, <3>4, <4>1, Leaves
      <4>3. Len(Children(stack[1].decl)) \in Nat /\ stack[1].pos \in Nat
        BY <1>2, <3>1, <3>2 DEF Frame
      <4>4. i < stack[1].pos
        BY <1>3, <3>2, <4>1, <4>2, <4>3
      <4>5. ~Ahead(i)
        BY <3>4, <4>3, <4>4 DEF Ahead
      <4> QED
        BY <2>3, <4>5
    <3>5. CASE Ends /\ Len(stack) = 2 /\ i = stack[1].pos - 1
      <4>1. Caller = stack[1] /\ Link(Caller, Top) /\ stack' = Pop
        BY <1>6, <3>5, CallerFacts DEF Caller, Ends
      <4>2. Top.decl = c
        BY <1>3, <3>2, <3>5, <4>1 DEF Link
      <4>3. KindOf(Caller.decl) = "namespace"
        BY <1>3, <3>2, <4>1
      <4> QED
        BY <1>6, <3>3, <4>1, <4>2, <4>3, Leaves, SettledNow
    <3>6. CASE ~(Ends /\ Len(stack) = 1) /\ ~(Ends /\ Len(stack) = 2 /\ i = stack[1].pos - 1)
      <4>1. \/ Ends /\ Len(stack) > 1 /\ Len(stack') = Len(stack) - 1 /\ stack'[1] = stack[1]
            \/ Len(stack) > 1 /\ Len(stack') >= Len(stack) /\ stack'[1] = stack[1]
            \/ Len(stack) = 1 /\ Len(stack') = 1 /\ stack'[1].pos = stack[1].pos
            \/ Len(stack) = 1 /\ Len(stack') = 2 /\ stack'[1].pos = stack[1].pos + 1
        BY <1>3, <1>6, <3>2, <3>6, Bottom
      <4>2. stack[1].pos \in Nat
        BY <3>1 DEF Frame
      <4>3. Todo(i)
        <5>1. CASE Ends /\ Len(stack) > 1 /\ Len(stack') = Len(stack) - 1 /\ stack'[1] = stack[1]
          <6>1. Len(stack') > 0 /\ (Len(stack) # 2 => Len(stack') > 1)
            BY <1>1, <5>1
          <6> QED
            BY <2>3, <3>6, <5>1, <6>1 DEF Ahead
        <5>2. CASE Len(stack) > 1 /\ Len(stack') >= Len(stack) /\ stack'[1] = stack[1]
          <6>1. Len(stack') > 1 /\ Len(stack') > 0
            <7>1. Len(stack') \in Int
              BY TypeStep DEF TypeInv, TypeOK
            <7> QED
              BY <1>1, <5>2, <7>1
          <6> QED
            BY <2>3, <5>2, <6>1 DEF Ahead
        <5>3. CASE Len(stack) = 1 /\ Len(stack') = 1 /\ stack'[1].pos = stack[1].pos
          BY <2>3, <5>3 DEF Ahead
        <5>4. CASE Len(stack) = 1 /\ Len(stack') = 2 /\ stack'[1].pos = stack[1].pos + 1
          <6>1. i >= stack[1].pos
            BY <2>3, <5>4 DEF Ahead
          <6>2. i >= stack'[1].pos \/ i = stack'[1].pos - 1
            BY <4>2, <5>4, <6>1
          <6> QED
            BY <5>4, <6>2
        <5> HIDE DEF Todo
        <5> QED
          BY <4>1, <5>1, <5>2, <5>3, <5>4
      <4> HIDE DEF Todo
      <4> QED
        BY <2>1, <2>3, <4>3
    <3> HIDE DEF Todo
    <3> QED
      BY <3>4, <3>5, <3>6
  <2> HIDE DEF Todo
  <2> QED
    BY <1>3, <2>1, <2>2, <2>3 DEF ChildrenSettled
<1>7. Len(stack) = 0 \/ Len(stack) > 0
  BY <1>1
<1> HIDE DEF Todo
<1> QED
  BY <1>4, <1>5, <1>6, <1>7

(* What a step does to the status: populateDAST is through, or a member    *)
(* of a union stops it.                                                    *)
StatusStep ==
  \/ UNCHANGED status
  \/ /\ status' = "done" /\ stack = <<>> /\ next > Len(prog.free)
     /\ UNCHANGED <<stack, next>>
  \/ status' = "aborted" /\ \E c \in Decl : Stopper(c)

LEMMA StatusSteps ==
  ASSUME TypeInv, CallsNest, [Next]_vars
  PROVE  StatusStep
<1>1. \A r : Len(stack) > 0 /\ Return(r) => StatusStep
  <2> SUFFICES ASSUME NEW r, Len(stack) > 0, Return(r)
               PROVE  StatusStep
    OBVIOUS
  <2>1. CASE Len(stack) > 1 /\ Has(Top.decl, "emit") /\ KindOf(Caller.decl) # "namespace"
             /\ AddDeclaration(Caller.decl, Top.decl)
    <3>1. /\ Caller.decl \in Decl /\ Top.decl \in Decl
          /\ IsChild(Top.decl, Caller.decl) /\ Has(Top.decl, "wrappable")
      BY <2>1, CallerFacts DEF Link
    <3>2. CASE KindOf(Caller.decl) = "union" /\ ~UnionTakes(Top.decl)
      BY <2>1, <3>1, <3>2 DEF StatusStep, AddDeclaration, AddTo, Stopper, UnionTakes, PerObject
    <3>3. CASE ~(KindOf(Caller.decl) = "union" /\ ~UnionTakes(Top.decl))
      BY <2>1, <3>3 DEF StatusStep, AddDeclaration, AddTo
    <3> QED
      BY <3>2, <3>3
  <2>2. CASE UNCHANGED status
    BY <2>2 DEF StatusStep
  <2> QED
    BY <2>1, <2>2 DEF Return
<1>2. CASE UNCHANGED vars
  BY <1>2 DEF vars, StatusStep
<1>3. CASE Populate
  BY <1>3 DEF StatusStep, Populate, PopulateSkip, PopulateTranslated, PopulateVisit,
     PopulateEnd
<1>4. CASE Enter
  <2>1. CASE VisitNothing \/ VisitMemoised
    BY <1>1, <2>1 DEF VisitNothing, VisitMemoised, InPhase
  <2>2. CASE ~(VisitNothing \/ VisitMemoised)
    BY <1>4, <2>2 DEF StatusStep, Enter, VisitRejectedMethod, VisitCallable, VisitTyped,
       VisitRecord, VisitClass, VisitUnion, VisitNamespace
  <2> QED
    BY <2>1, <2>2
<1>5. CASE Types
  <2>1. CASE TypesEnd
    BY <1>1, <2>1 DEF TypesEnd, InPhase
  <2>2. CASE ~TypesEnd
    BY <1>5, <2>2 DEF StatusStep, Types, TypeFallback, TypeReject, TypeResolve, EnumTypeEnd
  <2> QED
    BY <2>1, <2>2
<1>6. CASE Bases
  BY <1>6 DEF StatusStep, Bases, BaseReject, BaseMismatch, StructBase,
     StructSurplusBase, InterfaceBase, InterfaceHiddenBase, BasesEnd
<1>7. CASE Body
  <2>1. CASE ChildAddAgain
    <3>1. /\ Top.decl \in Decl /\ CurrentChild \in Decl
          /\ IsChild(CurrentChild, Top.decl)
      <4>1. Len(stack) > 0 /\ Top.pos <= Len(Children(Top.decl))
        BY <2>1 DEF ChildAddAgain, AtChild, InPhase
      <4>2. /\ Top.decl \in Decl /\ CurrentChild \in Decl
            /\ Top.pos \in Nat \ {0} /\ Len(Children(Top.decl)) \in Nat
        BY <4>1, CurrentFacts, StackFacts, ProgramFacts DEF Frame, TypeInv, Program, Children
      <4>3. Top.pos \in 1..Len(Children(Top.decl))
        BY <4>1, <4>2
      <4> QED
        BY <4>2, <4>3 DEF IsChild, CurrentChild
    <3>2. CASE KindOf(Top.decl) = "union" /\ ~UnionTakes(CurrentChild)
      BY <2>1, <3>1, <3>2 DEF StatusStep, ChildAddAgain, AddDeclaration, AddTo, Stopper,
         PassedOver, UnionTakes, PerObject
    <3>3. CASE ~(KindOf(Top.decl) = "union" /\ ~UnionTakes(CurrentChild))
      BY <2>1, <3>3 DEF StatusStep, ChildAddAgain, AddDeclaration, AddTo
    <3> QED
      BY <3>2, <3>3
  <2>2. CASE BodyEnd \/ NamespaceEnd \/ EnumEnd
    BY <1>1, <2>2 DEF BodyEnd, NamespaceEnd, EnumEnd, InPhase
  <2>3. CASE ChildSkip \/ ChildVisit \/ NamespaceChild \/ EnumConstant
    BY <2>3 DEF StatusStep, ChildSkip, ChildVisit, NamespaceChild, EnumConstant
  <2> QED
    BY <1>7, <2>1, <2>2, <2>3 DEF Body
<1> QED
  BY <1>2, <1>3, <1>4, <1>5, <1>6, <1>7 DEF Next

LEMMA EndedStep ==
  ASSUME TypeInv, CallsNest, Ended, [Next]_vars, NodeStep, prog' = prog
  PROVE  Ended'
<1>1. CASE UNCHANGED vars
  BY <1>1 DEF vars, Ended, Stopper, Has, IsChild, KindOf, Children
<1>2. CASE Next
  <2>1. status = "running"
    BY <1>2, OnlyRunning
  <2>2. \A c \in Decl : Stopper(c) => Stopper(c)'
    BY NodeKept DEF Stopper, Has, IsChild, KindOf, Children
  <2>3. StatusStep
    BY StatusSteps
  <2> QED
    BY <2>1, <2>2, <2>3 DEF StatusStep, Ended
<1> QED
  BY <1>1, <1>2

Fate == FreeSettled /\ ChildrenSettled /\ Ended

LEMMA FateInit == Init => Fate
<1>1. SUFFICES ASSUME Init
               PROVE  Fate
  OBVIOUS
<1>2. next - 1 = 0 /\ status = "running"
  BY <1>1 DEF Init
<1> QED
  BY <1>2 DEF Fate, FreeSettled, ChildrenSettled, Ended

LEMMA FateStep == TypeInv /\ CallsNest /\ Table /\ Fate /\ [Next]_vars => Fate'
<1>1. SUFFICES ASSUME TypeInv, CallsNest, Table, Fate, [Next]_vars
               PROVE  Fate'
  OBVIOUS
<1>2. StackStep /\ NodeStep /\ EmittedStep /\ prog' = prog
  BY <1>1, StackSteps, NodeSteps, EmittedSteps
<1>3. Remembers /\ placed \subseteq placed'
  BY <1>2, PlacedGrows DEF NodeStep
<1> QED
  BY <1>1, <1>2, <1>3, FreeSettledStep, ChildrenSettledStep, EndedStep DEF Table, Fate

LEMMA NothingLostFollows == TypeInv /\ Table /\ Fate => NothingLost
<1>1. SUFFICES ASSUME TypeInv, Table, Fate
               PROVE  NothingLost
  OBVIOUS
<1>2. ASSUME status = "done", NEW d \in Decl,
             translated[d] # NoNode, Has(d, "emit"), d \notin threw,
             \/ IsFree(d) /\ Has(d, "wrappable")
             \/ \E p \in Decl :
                  /\ KindOf(p) = "namespace" /\ IsFree(p) /\ Has(p, "wrappable")
                  /\ IsChild(d, p)
      PROVE  d \in placed
  <2>1. stack = <<>> /\ Len(stack) = 0 /\ \A j \in 1..Len(prog.free) : j \in 1..(next - 1)
    <3>1. stack = <<>> /\ next > Len(prog.free)
      BY <1>1, <1>2 DEF Fate, Ended
    <3>2. next \in Nat /\ Len(prog.free) \in Nat
      BY <1>1, ProgramFacts DEF TypeInv, TypeOK, Program
    <3> QED
      BY <3>1, <3>2
  <2>2. Settled(d)
    <3>1. CASE IsFree(d) /\ Has(d, "wrappable")
      BY <1>1, <2>1, <3>1 DEF Fate, FreeSettled, IsFree
    <3>2. ASSUME NEW p \in Decl, KindOf(p) = "namespace", IsFree(p), Has(p, "wrappable"),
                 IsChild(d, p)
          PROVE  Settled(d)
      BY <1>1, <2>1, <3>2 DEF Fate, ChildrenSettled, IsFree, IsChild
    <3> QED
      BY <1>2, <3>1, <3>2
  <2>3. ~Barren(d)
    BY <1>1, <1>2 DEF Table, Sane, Barren
  <2> QED
    BY <1>2, <2>2, <2>3 DEF Settled
<1>3. ASSUME status = "aborted"
      PROVE  \E u, c \in Decl :
               /\ KindOf(u) = "union" /\ IsChild(c, u)
               /\ Has(c, "wrappable") /\ (Has(c, "emit") \/ translated[c] # NoNode)
               /\ KindOf(c) \in {"field", "method"} => Has(c, "static")
  BY <1>1, <1>3 DEF Fate, Ended, Stopper
<1> QED
  BY <1>2, <1>3 DEF NothingLost

(* When populateDAST is through, no node of a free declaration or of a     *)
(* member of a visited namespace is missing from the output, unless its    *)
(* visitor threw; and only the member of a union stops it before.          *)
THEOREM NothingLostCorrect == Spec => []NothingLost
<1>1. QED
  BY TypeInit, TypeStep, NestInit, NestAlways, TableInit, TableStep, FateInit, FateStep,
     NothingLostFollows, PTL DEF Spec


-----------------------------------------------------------------------------
(* Each declaration is walked at most once.                                *)

(* A declaration that no loop over children comes to twice: it is listed   *)
(* once, and so is everything around it.                                   *)
Lone(d) ==
  /\ ListedOnce(d)
  /\ \E around \in SUBSET Decl :
       /\ \A p \in Decl : IsChild(d, p) => p \in around
       /\ \A e \in around :
            ListedOnce(e) /\ \A p \in Decl : IsChild(e, p) => p \in around

LEMMA LoneParent ==
  ASSUME NEW d, NEW p \in Decl, Lone(d), IsChild(d, p)
  PROVE  Lone(p)
BY DEF Lone

LEMMA LoneIndex ==
  ASSUME NEW d, NEW p \in Decl, Lone(d), NEW i \in 1..Len(Children(p)), Children(p)[i] = d,
         NEW j \in 1..Len(Children(p)), Children(p)[j] = d
  PROVE  i = j
BY DEF Lone, ListedOnce

LEMMA WalkedLone ==
  ASSUME TypeInv, NEW d \in Decl, WalkedOnce(d)
  PROVE  Lone(d) /\ \A c \in Decl : IsChild(c, d) => Lone(c)
<1>1. PICK around \in SUBSET Enclosing :
        /\ d \in around
        /\ \A e \in around :
             ListedOnce(e) /\ \A p \in Enclosing : IsChild(e, p) => p \in around
  BY DEF WalkedOnce
<1>2. \A p \in Decl : \A e : IsChild(e, p) => p \in Enclosing
  <2>1. SUFFICES ASSUME NEW p \in Decl, NEW e, IsChild(e, p), Children(p) = <<>>
                 PROVE  FALSE
    BY DEF Enclosing
  <2>2. Len(Children(p)) = 0
    BY <2>1
  <2> QED
    BY <2>1, <2>2 DEF IsChild
<1>3. around \in SUBSET Decl
  BY DEF Enclosing
<1>4. \A e \in around : ListedOnce(e) /\ \A p \in Decl : IsChild(e, p) => p \in around
  BY <1>1, <1>2
<1>5. Lone(d)
  BY <1>1, <1>3, <1>4 DEF Lone
<1>6. ASSUME NEW c \in Decl, IsChild(c, d)
      PROVE  Lone(c)
  <2> DEFINE B == around \cup {c}
  <2>1. ListedOnce(c)
    BY <1>6 DEF WalkedOnce
  <2>2. \A p \in Decl : IsChild(c, p) => p \in B
    <3> TAKE p \in Decl
    <3>1. IsChild(c, p) => p = d \/ c \in {p, d}
      BY <1>6, OneParent
    <3> QED
      BY <1>1, <1>4, <3>1
  <2>3. B \in SUBSET Decl
    BY <1>3
  <2>4. \A e \in B : ListedOnce(e) /\ \A p \in Decl : IsChild(e, p) => p \in B
    BY <1>4, <2>1, <2>2
  <2> QED
    BY <2>1, <2>2, <2>3, <2>4 DEF Lone
<1> QED
  BY <1>5, <1>6

(* How a visitor goes on: through its body one child at a time.            *)
LEMMA TopMoves ==
  ASSUME TypeInv, Len(stack) > 0, PhaseFits(Top), Next, NEW f \in Frame, Step(f)
  PROVE  /\ Top.phase = "body" =>
              f = NextChild /\ Top.pos \in 1..Len(Children(Top.decl)) /\ CurrentChild \in Decl
         /\ Top.phase # "body" /\ f.phase = "body" =>
              f.pos = 1 \/ (Top.phase = "enter" /\ f.pos = Top.pos)
         /\ f.phase # "enter" /\ f.decl = Top.decl
<1>1. /\ Top \in Frame /\ Top.decl \in Decl
  BY StackFacts
<1>2. stack' # Pop /\ \A g \in Frame : Step(g) => f = g
  BY OneStep
<1>3. /\ \A p \in Phase : [Top EXCEPT !.phase = p] \in Frame
      /\ \A p \in Phase : [Top EXCEPT !.phase = p, !.pos = 1] \in Frame
      /\ [Top EXCEPT !.pos = @ + 1] \in Frame
      /\ [Top EXCEPT !.pos = @ + 1, !.via = NoUse] \in Frame
      /\ \A u \in Use : [Top EXCEPT !.via = u] \in Frame
  BY FrameType
<1>4. f.phase # "enter" /\ f.decl = Top.decl
  BY GoesOnward DEF Onward
<1>5. ~Populate
  BY DEF Populate, PopulateSkip, PopulateTranslated, PopulateVisit, PopulateEnd, AtFree
<1>6. CASE Enter
  <2>1. Top.phase = "enter"
    BY <1>6 DEF Enter, VisitNothing, VisitMemoised, VisitRejectedMethod, VisitCallable,
       VisitTyped, VisitRecord, VisitClass, VisitUnion, VisitNamespace, InPhase
  <2>2. ~VisitNothing /\ ~VisitMemoised /\ ~VisitRejectedMethod /\ ~VisitClass
    BY <1>2 DEF VisitNothing, VisitMemoised, VisitRejectedMethod, VisitClass,
       Return, Throw
  <2>3. \E p \in {"types", "bases", "body"} : f = [Top EXCEPT !.phase = p]
    BY <1>2, <1>3, <1>6, <2>2 DEF Enter, VisitCallable, VisitTyped, VisitRecord,
       VisitUnion, VisitNamespace, Phase
  <2>4. f.pos = Top.pos
    BY <1>1, <2>3 DEF Frame
  <2> QED
    BY <1>4, <2>1, <2>4
<1>7. CASE Types
  <2>1. Top.phase = "types"
    BY <1>7 DEF Types, TypeFallback, TypeReject, TypeResolve, TypesEnd, EnumTypeEnd,
       AtType, InPhase
  <2>2. ~TypeReject /\ ~TypesEnd
    BY <1>2 DEF TypeReject, TypesEnd, Throw, Return
  <2>3. f.phase = "body" => f.pos = 1
    <3>1. CASE TypeFallback
      <4>1. prog.uses[CurrentUse.to][1] \in Use
        BY <3>1, ProgramFacts DEF TypeFallback, FallsBack, TypeInv
      <4>2. f = [Top EXCEPT !.via = prog.uses[CurrentUse.to][1]]
        BY <1>2, <1>3, <3>1, <4>1 DEF TypeFallback
      <4> QED
        BY <1>1, <2>1, <4>2 DEF Frame
    <3>2. CASE TypeResolve
      <4>1. f = [Top EXCEPT !.pos = @ + 1, !.via = NoUse]
        BY <1>2, <1>3, <3>2 DEF TypeResolve
      <4> QED
        BY <1>1, <2>1, <4>1 DEF Frame
    <3>3. CASE EnumTypeEnd
      <4>1. f = [Top EXCEPT !.phase = "body", !.pos = 1]
        BY <1>2, <1>3, <3>3 DEF EnumTypeEnd, Phase
      <4> QED
        BY <1>1, <4>1 DEF Frame
    <3> QED
      BY <1>7, <2>2, <3>1, <3>2, <3>3 DEF Types
  <2> QED
    BY <1>4, <2>1, <2>3
<1>8. CASE Bases
  <2>1. Top.phase = "bases"
    BY <1>8 DEF Bases, BaseReject, BaseMismatch, StructBase, StructSurplusBase,
       InterfaceBase, InterfaceHiddenBase, BasesEnd, AtBase, InPhase
  <2>2. ~BaseReject /\ ~BaseMismatch /\ ~StructSurplusBase
    BY <1>2 DEF BaseReject, BaseMismatch, StructSurplusBase, Throw
  <2>3. f = [Top EXCEPT !.pos = @ + 1] \/ f = [Top EXCEPT !.phase = "body", !.pos = 1]
    BY <1>2, <1>3, <1>8, <2>2
       DEF Bases, StructBase, InterfaceBase, InterfaceHiddenBase, BasesEnd, Phase
  <2>4. f.phase = "body" => f.pos = 1
    BY <1>1, <2>1, <2>3 DEF Frame
  <2> QED
    BY <1>4, <2>1, <2>4
<1>9. CASE Body
  <2>1. Top.phase = "body"
    BY <1>9 DEF Body, ChildSkip, ChildAddAgain, ChildVisit, BodyEnd, NamespaceChild,
       NamespaceEnd, EnumConstant, EnumEnd, AtChild, InPhase
  <2>2. ~BodyEnd /\ ~NamespaceEnd /\ ~EnumEnd
    BY <1>2 DEF BodyEnd, NamespaceEnd, EnumEnd, Return
  <2>3. ~ChildVisit /\ ~NamespaceChild
    <3>1. \A kinds : AtChild(kinds) => CurrentChild \in Decl
      BY CurrentFacts DEF AtChild
    <3>2. Top.ns \in Seq(Decl) /\ ThisNamespacePath \in Seq(Decl)
      BY <1>1 DEF Frame, ThisNamespacePath
    <3> QED
      BY <3>1, <3>2, OneStep DEF ChildVisit, NamespaceChild, Push, NewFrame
  <2>4. f = NextChild /\ Top.pos <= Len(Children(Top.decl))
    <3>1. NextChild \in Frame
      BY <1>3 DEF NextChild
    <3> QED
      BY <1>2, <1>9, <2>2, <2>3, <3>1
         DEF Body, ChildSkip, ChildAddAgain, EnumConstant, AtChild
  <2>5. Top.pos \in 1..Len(Children(Top.decl)) /\ CurrentChild \in Decl
    <3>1. Top.pos \in Nat \ {0} /\ Children(Top.decl) \in Seq(Decl)
      BY <1>1, ProgramFacts DEF Frame, TypeInv
    <3> QED
      BY <2>4, <3>1, CurrentFacts
  <2> QED
    BY <1>4, <2>1, <2>4, <2>5
<1> QED
  BY <1>5, <1>6, <1>7, <1>8, <1>9 DEF Next

(* A visitor begins at its first child.                                    *)
StartsAtOne == \A k \in 1..Len(stack) : stack[k].phase = "enter" => stack[k].pos = 1

(* What becomes of the visitors on the stack.                              *)
Returned == stack' = Pop /\ Len(stack') = Len(stack) - 1
Moved ==
  /\ Len(stack') = Len(stack)
  /\ stack'[Len(stack)].decl = Top.decl /\ stack'[Len(stack)].phase # "enter"
  /\ Top.phase = "body" =>
       /\ stack'[Len(stack)] = NextChild /\ Step(NextChild)
       /\ Top.pos \in 1..Len(Children(Top.decl)) /\ CurrentChild \in Decl
  /\ Top.phase # "body" /\ stack'[Len(stack)].phase = "body" =>
       stack'[Len(stack)].pos = 1
Called ==
  /\ Len(stack') = Len(stack) + 1 /\ Top.phase = "body"
  /\ Top.pos \in 1..Len(Children(Top.decl)) /\ CurrentChild \in Decl
  /\ CurrentChild # Top.decl
  /\ stack'[Len(stack)] = NextChild
  /\ stack'[Len(stack) + 1].decl = CurrentChild
  /\ stack'[Len(stack) + 1].phase = "enter" /\ stack'[Len(stack) + 1].pos = 1

LEMMA NextIs ==
  ASSUME TypeInv, Len(stack) > 0
  PROVE  /\ Top.decl \in Decl /\ Top.pos \in Nat \ {0}
         /\ NextChild.decl = Top.decl /\ NextChild.phase = Top.phase
         /\ NextChild.pos = Top.pos + 1
         /\ Len(stack) \in 1..Len(stack) /\ Top = stack[Len(stack)]
         /\ stack \in Seq(Frame) /\ Len(stack) \in Nat \ {0}
<1>1. Top \in Frame
  BY StackFacts
<1>2. stack \in Seq(Frame) /\ Len(stack) \in Nat \ {0}
  BY DEF TypeInv, TypeOK
<1>3. Top.decl \in Decl /\ Top.pos \in Nat \ {0}
  BY <1>1 DEF Frame
<1>4. /\ NextChild.decl = Top.decl /\ NextChild.phase = Top.phase
      /\ NextChild.pos = Top.pos + 1
  BY <1>1 DEF NextChild, Frame
<1> QED
  BY <1>2, <1>3, <1>4 DEF Top

LEMMA StackMoves ==
  ASSUME TypeInv, CallsNest, AllWork, StartsAtOne, StackStep, [Next]_vars, ~UNCHANGED vars,
         Len(stack) > 0
  PROVE  /\ next' = next
         /\ \A k \in 1..(Len(stack) - 1) : stack'[k] = stack[k]
         /\ Returned \/ Moved \/ Called
<1>1. /\ Top.decl \in Decl /\ Top.pos \in Nat \ {0} /\ Top \in Frame
      /\ Len(stack) \in 1..Len(stack) /\ Top = stack[Len(stack)]
      /\ NextChild.decl = Top.decl /\ NextChild.phase = Top.phase
      /\ NextChild.pos = Top.pos + 1
  BY NextIs, StackFacts
<1>2. Next /\ PhaseFits(Top) /\ (Top.phase = "enter" => Top.pos = 1)
  BY <1>1 DEF AllWork, Working, StartsAtOne
<1>3. next' = next
  BY DEF StackStep, Stays, PassesOver, Begins, AtFree, GoesOn, Ends, Calls
<1>4. ASSUME NEW f \in Later, Step(f), stack'[Len(stack)] = f, Len(stack') = Len(stack)
      PROVE  Moved
  <2>1. f \in Frame /\ f.decl = Top.decl
    BY DEF Later
  <2>2. /\ Top.phase = "body" =>
             f = NextChild /\ Top.pos \in 1..Len(Children(Top.decl)) /\ CurrentChild \in Decl
        /\ Top.phase # "body" /\ f.phase = "body" =>
             f.pos = 1 \/ (Top.phase = "enter" /\ f.pos = Top.pos)
        /\ f.phase # "enter"
    BY <1>2, <1>4, <2>1, TopMoves
  <2> QED
    BY <1>2, <1>4, <2>1, <2>2 DEF Moved
<1>5. ASSUME NEW d \in Decl, NEW ns \in Seq(Decl), Link(NextChild, NewFrame(d, ns)),
             Len(stack') = Len(stack) + 1, stack'[Len(stack)] = NextChild,
             stack'[Len(stack) + 1] = NewFrame(d, ns)
      PROVE  Called
  <2>1. /\ Top.phase = "body" /\ Top.pos + 1 - 1 \in 1..Len(Children(Top.decl))
        /\ d = Children(Top.decl)[Top.pos + 1 - 1]
        /\ KindOf(Top.decl) # "namespace" => d # Top.decl
    BY <1>1, <1>5 DEF Link, NewFrame
  <2>2. Top.pos + 1 - 1 = Top.pos
    BY <1>1
  <2>3. d = CurrentChild /\ IsChild(d, Top.decl)
    BY <2>1, <2>2 DEF CurrentChild, IsChild
  <2>4. d # Top.decl
    BY <1>1, <2>1, <2>3, ChildKind
  <2> QED
    BY <1>5, <2>1, <2>2, <2>3, <2>4 DEF Called, NewFrame
<1>6. Ends /\ Len(stack') = Len(stack) - 1 => Returned
  BY DEF Ends, Returned
<1> QED
  BY <1>3, <1>4, <1>5, <1>6, Framed

LEMMA StartsStep ==
  ASSUME TypeInv, CallsNest, AllWork, StartsAtOne, StackStep, [Next]_vars
  PROVE  StartsAtOne'
<1>1. CASE UNCHANGED vars
  BY <1>1 DEF vars, StartsAtOne
<1>2. CASE Len(stack) = 0
  BY <1>2 DEF StackStep, Stays, PassesOver, Begins, GoesOn, Ends, Calls, StartsAtOne, NewFrame
<1>3. CASE Len(stack) > 0 /\ ~UNCHANGED vars
  <2>1. /\ \A k \in 1..(Len(stack) - 1) : stack'[k] = stack[k]
        /\ Returned \/ Moved \/ Called
    BY <1>3, StackMoves
  <2>2. /\ Len(stack) \in Nat \ {0} /\ Top = stack[Len(stack)]
        /\ NextChild.phase = Top.phase
    BY <1>3, NextIs
  <2>3. CASE Returned
    BY <2>1, <2>2, <2>3 DEF Returned, StartsAtOne
  <2>4. CASE Moved
    BY <2>1, <2>2, <2>4 DEF Moved, StartsAtOne
  <2>5. CASE Called
    <3>1. \A k \in 1..Len(stack') : k \in 1..(Len(stack) - 1) \/ k = Len(stack)
                                      \/ k = Len(stack) + 1
      BY <2>2, <2>5 DEF Called
    <3> QED
      BY <2>1, <2>2, <2>5, <3>1 DEF Called, StartsAtOne
  <2> QED
    BY <2>1, <2>3, <2>4, <2>5
<1> QED
  BY <1>1, <1>2, <1>3 DEF TypeInv, TypeOK

(* Which visitor adds a child to which node: the one that returns to the   *)
(* body of the node, or the body itself as it goes by the child.           *)
Delivers(p, c) ==
  /\ Len(stack) > 1 /\ KindOf(Caller.decl) # "namespace" /\ stack' = Pop
  /\ p = Caller.decl /\ c = Top.decl /\ Has(c, "emit")
Keeps(p, c) ==
  /\ Len(stack) > 0 /\ Top.phase = "body" /\ Step(NextChild)
  /\ p = Top.decl /\ c = CurrentChild /\ Top.pos \in 1..Len(Children(p))
  /\ KindOf(p) # "enum" => translated[c] # NoNode
AddsChild(p, c) ==
  members' = [members EXCEPT ![p] = Append(@, [role |-> "child", decl |-> c])]
AddsNoChild ==
  \/ UNCHANGED members
  \/ \E p \in Decl, added \in Seq([role : {"base", "alias"}, decl : Decl]) :
       members' = [members EXCEPT ![p] = @ \o added]
Gathers ==
  \/ AddsNoChild
  \/ \E p, c \in Decl : AddsChild(p, c) /\ (Delivers(p, c) \/ Keeps(p, c))

LEMMA ReturnGathers ==
  ASSUME TypeInv, CallsNest, Len(stack) > 0, NEW r, Return(r)
  PROVE  Gathers
<1>1. SUFFICES ASSUME Len(stack) > 1, KindOf(Caller.decl) # "namespace",
                      Has(Top.decl, "emit"), AddDeclaration(Caller.decl, Top.decl)
               PROVE  Gathers
  BY DEF Return, Gathers, AddsNoChild
<1>2. Top.decl \in Decl /\ Caller.decl \in Decl
  BY <1>1, CallerFacts
<1>3. stack' = Pop
  BY DEF Return
<1>4. Delivers(Caller.decl, Top.decl)
  BY <1>1, <1>3 DEF Delivers
<1>5. UNCHANGED members \/ AddsChild(Caller.decl, Top.decl)
  BY <1>1 DEF AddDeclaration, AddTo, AddsChild
<1> QED
  BY <1>2, <1>4, <1>5 DEF Gathers, AddsNoChild

LEMMA GatherSteps ==
  ASSUME TypeInv, CallsNest, [Next]_vars
  PROVE  Gathers
<1>1. CASE UNCHANGED vars
  BY <1>1 DEF vars, Gathers, AddsNoChild
<1>2. CASE Populate
  BY <1>2 DEF Populate, PopulateSkip, PopulateTranslated, PopulateVisit, PopulateEnd,
              Gathers, AddsNoChild
<1>3. CASE Enter
  <2>1. CASE VisitNothing \/ VisitMemoised
    BY <2>1, ReturnGathers DEF VisitNothing, VisitMemoised, InPhase
  <2> QED
    BY <1>3, <2>1 DEF Enter, VisitRejectedMethod, VisitCallable, VisitTyped,
       VisitRecord, VisitClass, VisitUnion, VisitNamespace, Gathers, AddsNoChild
<1>4. CASE Types
  <2>1. CASE TypesEnd
    BY <2>1, ReturnGathers DEF TypesEnd, InPhase
  <2> QED
    BY <1>4, <2>1 DEF Types, TypeFallback, TypeReject, TypeResolve, EnumTypeEnd,
       Gathers, AddsNoChild
<1>5. CASE Bases
  <2>1. CASE BaseReject \/ BaseMismatch \/ InterfaceHiddenBase \/ BasesEnd
    BY <2>1 DEF BaseReject, BaseMismatch, InterfaceHiddenBase, BasesEnd, Gathers, AddsNoChild
  <2>2. CASE StructBase \/ StructSurplusBase \/ InterfaceBase
    <3>1. Len(stack) > 0 /\ Top.pos <= Len(prog.bases[Top.decl])
      BY <2>2 DEF StructBase, StructSurplusBase, InterfaceBase, AtBase, InPhase
    <3>2. Top.decl \in Decl /\ CurrentBase.to \in Decl
      BY <3>1, StackFacts, CurrentFacts
    <3> DEFINE BaseMember == [role : {"base", "alias"}, decl : Decl]
    <3>3. AsMember("base") \in BaseMember /\ AsMember("alias") \in BaseMember
      BY <3>2 DEF AsMember
    <3> HIDE DEF BaseMember
    <3>4. StructMembers \in Seq(BaseMember) /\ <<AsMember("base")>> \in Seq(BaseMember)
      BY <3>3 DEF StructMembers
    <3>5. \E added \in Seq(BaseMember) : AddBase(added)
      BY <2>2, <3>4 DEF StructBase, StructSurplusBase, InterfaceBase
    <3> QED
      BY <3>2, <3>5 DEF AddBase, BaseMember, Gathers, AddsNoChild
  <2> QED
    BY <1>5, <2>1, <2>2 DEF Bases
<1>6. CASE Body
  <2>1. CASE BodyEnd \/ NamespaceEnd \/ EnumEnd
    BY <2>1, ReturnGathers DEF BodyEnd, NamespaceEnd, EnumEnd, AtChild, InPhase
  <2>2. CASE ChildAddAgain \/ EnumConstant
    <3>1. /\ Len(stack) > 0 /\ Top.pos <= Len(Children(Top.decl))
          /\ Top.phase = "body" /\ Step(NextChild)
      BY <2>2 DEF ChildAddAgain, EnumConstant, AtChild, InPhase
    <3>2. /\ Top.decl \in Decl /\ CurrentChild \in Decl
          /\ Top.pos \in 1..Len(Children(Top.decl))
      <4>1. Top.pos \in Nat \ {0} /\ Children(Top.decl) \in Seq(Decl)
        BY <3>1, NextIs, ProgramFacts DEF TypeInv
      <4> QED
        BY <3>1, <4>1, StackFacts, CurrentFacts
    <3>3. KindOf(Top.decl) # "enum" => translated[CurrentChild] # NoNode
      BY <2>2 DEF ChildAddAgain, EnumConstant, AtChild, InPhase
    <3>4. Keeps(Top.decl, CurrentChild)
      BY <3>1, <3>2, <3>3 DEF Keeps
    <3>5. UNCHANGED members \/ AddsChild(Top.decl, CurrentChild)
      BY <2>2 DEF ChildAddAgain, EnumConstant, AddDeclaration, AddTo, AddsChild
    <3> QED
      BY <3>2, <3>4, <3>5 DEF Gathers, AddsNoChild
  <2> QED
    BY <1>6, <2>1, <2>2 DEF Body, ChildSkip, ChildVisit, NamespaceChild, Gathers, AddsNoChild
<1> QED
  BY <1>1, <1>2, <1>3, <1>4, <1>5, <1>6 DEF Next

(* What was a member stays where it was; a new child comes last.           *)
LEMMA MembersGrow ==
  ASSUME TypeInv, Gathers, NEW p \in Decl
  PROVE  /\ Len(members[p]) \in Nat /\ Len(members'[p]) \in Nat
         /\ Len(members'[p]) >= Len(members[p])
         /\ \A i \in 1..Len(members[p]) : members'[p][i] = members[p][i]
         /\ \A i \in 1..Len(members'[p]) : i > Len(members[p]) /\ members'[p][i].role = "child" =>
              /\ i = Len(members[p]) + 1
              /\ AddsChild(p, members'[p][i].decl) /\ members'[p][i].decl \in Decl
              /\ Delivers(p, members'[p][i].decl) \/ Keeps(p, members'[p][i].decl)
<1>1. members \in [Decl -> Seq(Member)] /\ members[p] \in Seq(Member) /\ Len(members[p]) \in Nat
  BY DEF TypeInv, TypeOK
<1>2. CASE UNCHANGED members
  BY <1>1, <1>2
<1>3. ASSUME NEW q \in Decl, NEW added \in Seq([role : {"base", "alias"}, decl : Decl]),
             members' = [members EXCEPT ![q] = members[q] \o added]
      PROVE  /\ Len(members'[p]) \in Nat
             /\ Len(members'[p]) >= Len(members[p])
             /\ \A i \in 1..Len(members[p]) : members'[p][i] = members[p][i]
             /\ \A i \in 1..Len(members'[p]) : i > Len(members[p]) => members'[p][i].role # "child"
  <2>1. CASE p # q
    BY <1>1, <1>3, <2>1
  <2>2. CASE p = q
    <3> DEFINE BaseMember == [role : {"base", "alias"}, decl : Decl]
    <3>1. added \in Seq(BaseMember) /\ \A m \in BaseMember : m.role # "child"
      OBVIOUS
    <3> HIDE DEF BaseMember
    <3>2. /\ Len(added) \in Nat /\ \A i \in 1..Len(added) : added[i].role # "child"
      BY <3>1, ElementOfSeq
    <3>3. members'[p] = members[p] \o added
      BY <1>1, <1>3, <2>2
    <3>4. /\ Len(members[p] \o added) = Len(members[p]) + Len(added)
          /\ \A i \in 1..(Len(members[p]) + Len(added)) :
               (members[p] \o added)[i] = IF i <= Len(members[p]) THEN members[p][i]
                                          ELSE added[i - Len(members[p])]
      BY <1>1, <3>1, ConcatProperties
    <3> HIDE DEF TypeInv
    <3> QED
      BY <1>1, <3>2, <3>3, <3>4
  <2> QED
    BY <2>1, <2>2
<1>4. ASSUME NEW q \in Decl, NEW c \in Decl, AddsChild(q, c), Delivers(q, c) \/ Keeps(q, c)
      PROVE  /\ Len(members'[p]) \in Nat
             /\ Len(members'[p]) >= Len(members[p])
             /\ \A i \in 1..Len(members[p]) : members'[p][i] = members[p][i]
             /\ \A i \in 1..Len(members'[p]) : i > Len(members[p]) =>
                  i = Len(members[p]) + 1 /\ p = q /\ members'[p][i].decl = c
  <2>1. CASE p # q
    BY <1>1, <1>4, <2>1 DEF AddsChild
  <2>2. CASE p = q
    <3> DEFINE m == [role |-> "child", decl |-> c]
    <3>1. m \in Member /\ m.decl = c
      BY DEF Member
    <3>2. members'[p] = Append(members[p], m)
      BY <1>1, <1>4, <2>2 DEF AddsChild
    <3> HIDE DEF m
    <3>3. /\ Len(Append(members[p], m)) = Len(members[p]) + 1
          /\ \A i \in 1..Len(members[p]) : Append(members[p], m)[i] = members[p][i]
          /\ Append(members[p], m)[Len(members[p]) + 1] = m
      BY <1>1, <3>1, AppendProperties
    <3> QED
      BY <1>1, <2>2, <3>1, <3>2, <3>3
  <2> QED
    BY <2>1, <2>2
<1>5. CASE \E q \in Decl, added \in Seq([role : {"base", "alias"}, decl : Decl]) :
             members' = [members EXCEPT ![q] = @ \o added]
  BY <1>1, <1>3, <1>5
<1>6. CASE \E q, c \in Decl : AddsChild(q, c) /\ (Delivers(q, c) \/ Keeps(q, c))
  <2>1. PICK q \in Decl, c \in Decl : AddsChild(q, c) /\ (Delivers(q, c) \/ Keeps(q, c))
    BY <1>6
  <2> QED
    BY <1>1, <1>4, <2>1
<1> QED
  BY <1>2, <1>5, <1>6 DEF Gathers, AddsNoChild

(* The declarations that have been visited: those at work, those that have *)
(* a node for another reason than a reference, and the nodes that have     *)
(* members.  The loops have gone by each of them that is alone.            *)
Behind(e, V) ==
  /\ \A a \in 1..Len(prog.free) : prog.free[a] = e => a < next
  /\ \A p \in Decl : p # e /\ IsChild(e, p) => p \in V
  /\ \A k \in 1..Len(stack) : stack[k].decl # e /\ IsChild(e, stack[k].decl) =>
       /\ stack[k].phase = "body"
       /\ \A i \in 1..Len(Children(stack[k].decl)) :
            Children(stack[k].decl)[i] = e => i < stack[k].pos
Visited(V) ==
  /\ \A k \in 1..Len(stack) : stack[k].decl \in V
  /\ \A d \in Decl : translated[d] # NoNode =>
       d \in V \cup started \/ KindOf(d) = "enumerator"
  /\ \A d \in Decl : \A i \in 1..Len(members[d]) : members[d][i].role = "child" => d \in V
  /\ \A e \in V : Lone(e) => Behind(e, V)
Alone ==
  \A k, l \in 1..Len(stack) :
    Lone(stack[k].decl) /\ stack[k].decl = stack[l].decl => k = l
Walked == Alone /\ \E V \in SUBSET Decl : Visited(V)

LEMMA LoneKept ==
  ASSUME prog' = prog
  PROVE  /\ \A d : Lone(d)' <=> Lone(d)
         /\ \A d, p : IsChild(d, p)' <=> IsChild(d, p)
         /\ \A d : KindOf(d)' = KindOf(d) /\ Children(d)' = Children(d)
BY DEF Lone, ListedOnce, IsChild, KindOf, Children

(* What a step leaves to show of the declarations visited after it.        *)
LEMMA VisitedNext ==
  ASSUME TypeInv, CallsNest, NodeStep, Gathers, prog' = prog,
         NEW V \in SUBSET Decl, Visited(V), NEW W \in SUBSET Decl, V \subseteq W,
         \A k \in 1..Len(stack') : stack'[k].decl \in W,
         next' >= next, next' \in Nat,
         \A e \in W : Lone(e) =>
           /\ e \notin V => \A a \in 1..Len(prog.free) : prog.free[a] = e => a < next'
           /\ e \notin V => \A p \in Decl : p # e /\ IsChild(e, p) => p \in W
           /\ \A k \in 1..Len(stack') : stack'[k].decl # e /\ IsChild(e, stack'[k].decl) =>
                /\ stack'[k].phase = "body"
                /\ \A i \in 1..Len(Children(stack'[k].decl)) :
                     Children(stack'[k].decl)[i] = e => i < stack'[k].pos
  PROVE  Visited(W)'
<1>1. next \in Nat /\ translated \in [Decl -> NodeClass \cup {NoNode}]
      /\ stack \in Seq(Frame) /\ Len(stack) \in Nat
  BY DEF TypeInv, TypeOK
<1>2. Len(stack) > 0 => Top.decl \in V
  <2>1. Len(stack) > 0 => Len(stack) \in 1..Len(stack)
    BY <1>1
  <2> QED
    BY <2>1 DEF Visited, Top
<1>3. Len(stack) > 1 => Caller.decl \in V
  <2>1. Len(stack) > 1 => Len(stack) - 1 \in 1..Len(stack)
    BY <1>1
  <2> QED
    BY <2>1 DEF Visited, Caller
<1>4. ASSUME NEW d \in Decl, translated'[d] # NoNode
      PROVE  d \in W \cup started' \/ KindOf(d) = "enumerator"
  <2>1. CASE translated[d] # NoNode
    BY <2>1 DEF Visited, NodeStep, Remembers
  <2>2. CASE translated[d] = NoNode
    <3>1. OwnNode => Len(stack) > 0
      BY DEF OwnNode
    <3>2. Len(stack) > 0 /\ KindOf(Top.decl) = "enum" /\ IsChild(d, Top.decl)
            => KindOf(d) = "enumerator"
      BY StackFacts, ChildKind
    <3> QED
      BY <1>2, <1>4, <2>2, <3>1, <3>2, NodeNew
  <2> QED
    BY <2>1, <2>2
<1>5. ASSUME NEW d \in Decl, NEW i \in 1..Len(members'[d]), members'[d][i].role = "child"
      PROVE  d \in W
  <2>1. CASE i <= Len(members[d])
    <3>1. i \in 1..Len(members[d]) /\ members'[d][i] = members[d][i]
      BY <2>1, MembersGrow
    <3> QED
      BY <1>5, <3>1 DEF Visited
  <2>2. CASE i > Len(members[d])
    <3>1. Delivers(d, members'[d][i].decl) \/ Keeps(d, members'[d][i].decl)
      BY <1>5, <2>2, MembersGrow
    <3>2. (d = Caller.decl /\ Len(stack) > 1) \/ (d = Top.decl /\ Len(stack) > 0)
      BY <3>1 DEF Delivers, Keeps
    <3> QED
      BY <1>2, <1>3, <3>2
  <2> QED
    BY <2>1, <2>2, MembersGrow
<1>6. ASSUME NEW e \in W, Lone(e)
      PROVE  /\ \A a \in 1..Len(prog.free) : prog.free[a] = e => a < next'
             /\ \A p \in Decl : p # e /\ IsChild(e, p) => p \in W
  <2>1. CASE e \in V
    <3>1. Behind(e, V)
      BY <1>6, <2>1 DEF Visited
    <3>2. prog.free \in Seq(Decl)
      BY ProgramFacts DEF TypeInv, Program
    <3> QED
      BY <1>1, <3>1, <3>2 DEF Behind
  <2>2. CASE e \notin V
    BY <1>6, <2>2
  <2> QED
    BY <2>1, <2>2
<1>7. /\ \A d : Lone(d)' <=> Lone(d)
      /\ \A d, p : IsChild(d, p)' <=> IsChild(d, p)
      /\ \A d : KindOf(d)' = KindOf(d) /\ Children(d)' = Children(d)
  BY LoneKept
<1>8. \A e \in W : Lone(e) =>
           \A k \in 1..Len(stack') : stack'[k].decl # e /\ IsChild(e, stack'[k].decl) =>
                /\ stack'[k].phase = "body"
                /\ \A i \in 1..Len(Children(stack'[k].decl)) :
                     Children(stack'[k].decl)[i] = e => i < stack'[k].pos
  OBVIOUS
<1>9. \A e \in W : Lone(e) => Behind(e, W)'
  BY <1>6, <1>7, <1>8 DEF Behind
<1> QED
  BY <1>4, <1>5, <1>7, <1>9 DEF Visited

(* A child that is visited and alone has not been visited before.          *)
LEMMA CalledFirst ==
  ASSUME TypeInv, NEW V \in SUBSET Decl, Visited(V), Len(stack) > 0,
         Top.pos \in 1..Len(Children(Top.decl)), CurrentChild # Top.decl, Lone(CurrentChild)
  PROVE  CurrentChild \notin V
<1>1. SUFFICES ASSUME CurrentChild \in V
               PROVE  FALSE
  OBVIOUS
<1>2. Len(stack) \in 1..Len(stack) /\ Top = stack[Len(stack)] /\ Top.pos \in Nat
  BY NextIs
<1>3. IsChild(CurrentChild, Top.decl)
  BY DEF IsChild, CurrentChild
<1>4. Behind(CurrentChild, V)
  BY <1>1 DEF Visited
<1>5. Top.pos < Top.pos
  BY <1>2, <1>3, <1>4 DEF Behind, CurrentChild
<1> QED
  BY <1>2, <1>5

LEMMA WalkedStep ==
  ASSUME TypeInv, CallsNest, AllWork, StartsAtOne, Walked, NodeStep, StackStep, Gathers,
         [Next]_vars, prog' = prog
  PROVE  Walked'
<1>1. PICK V \in SUBSET Decl : Visited(V)
  BY DEF Walked
<1>2. Alone
  BY DEF Walked
<1>3. /\ \A d : Lone(d)' <=> Lone(d)
      /\ \A d, p : IsChild(d, p)' <=> IsChild(d, p)
      /\ \A d : KindOf(d)' = KindOf(d) /\ Children(d)' = Children(d)
  BY LoneKept
<1>4. /\ stack \in Seq(Frame) /\ Len(stack) \in Nat /\ next \in Nat \ {0}
      /\ prog.free \in Seq(Decl)
  BY ProgramFacts DEF TypeInv, TypeOK, Program
<1>5. ASSUME NEW W \in SUBSET Decl, Visited(W)', Alone'
      PROVE  Walked'
  BY <1>5 DEF Walked
<1>6. CASE UNCHANGED vars
  <2>1. Visited(V)' /\ Alone'
    BY <1>1, <1>2, <1>3, <1>6 DEF vars, Visited, Behind, Alone
  <2> QED
    BY <1>5, <2>1
<1>7. CASE stack = <<>> /\ (Stays \/ PassesOver)
  <2>1. Len(stack') = 0 /\ next' >= next /\ next' \in Nat
    BY <1>4, <1>7 DEF Stays, PassesOver
  <2>2. Visited(V)'
    BY <1>1, <2>1, VisitedNext
  <2>3. Alone'
    BY <2>1 DEF Alone
  <2> QED
    BY <1>5, <2>2, <2>3
<1>8. CASE Begins
  <2> DEFINE c == prog.free[next]
  <2>1. /\ next \in 1..Len(prog.free) /\ c \in Decl /\ next' = next + 1
        /\ Len(stack') = 1 /\ stack'[1] = NewFrame(c, <<>>)
    BY <1>4, <1>8, ElementOfSeq DEF Begins, AtFree
  <2>2. stack'[1].decl = c
    BY <2>1 DEF NewFrame
  <2>3. \A p \in Decl : p # c => ~IsChild(c, p)
    <3>1. IsFree(c)
      BY <2>1 DEF IsFree
    <3> QED
      BY <2>1, <3>1, ChildNotFree
  <2>4. \A a \in 1..Len(prog.free) : prog.free[a] = c => a = next
    BY <2>1, ProgramFacts DEF TypeInv, WellFormed
  <2>5. Lone(c) => c \notin V
    BY <1>1, <1>4, <2>1 DEF Visited, Behind
  <2> HIDE DEF c
  <2>0. PICK W \in SUBSET Decl : W = V \cup {c}
    BY <2>1
  <2>6. ASSUME NEW e \in W, Lone(e), e # c, IsChild(e, c)
        PROVE  FALSE
    <3>1. Behind(e, V) /\ e \in V
      BY <1>1, <2>0, <2>6 DEF Visited
    <3>2. c \in V
      BY <2>1, <2>6, <3>1 DEF Behind
    <3>3. Lone(c)
      BY <2>1, <2>6, LoneParent
    <3> QED
      BY <2>5, <3>2, <3>3
  <2>7. W \in SUBSET Decl /\ V \subseteq W /\ \A k \in 1..Len(stack') : stack'[k].decl \in W
    BY <2>0, <2>1, <2>2
  <2>8. next' >= next /\ next' \in Nat
    BY <1>4, <2>1
  <2>9. \A e \in W : Lone(e) =>
          /\ e \notin V => \A a \in 1..Len(prog.free) : prog.free[a] = e => a < next'
          /\ e \notin V => \A p \in Decl : p # e /\ IsChild(e, p) => p \in W
    BY <1>4, <2>0, <2>1, <2>3, <2>4
  <2>10. \A e \in W : Lone(e) =>
           \A k \in 1..Len(stack') : ~(stack'[k].decl # e /\ IsChild(e, stack'[k].decl))
    BY <2>0, <2>1, <2>2, <2>6
  <2>11. Visited(W)'
    BY <1>1, <2>7, <2>8, <2>9, <2>10, VisitedNext
  <2>12. Alone'
    BY <2>1 DEF Alone
  <2> QED
    BY <1>5, <2>7, <2>11, <2>12
<1>9. CASE Len(stack) > 0 /\ ~UNCHANGED vars
  <2>1. /\ next' = next
        /\ \A k \in 1..(Len(stack) - 1) : stack'[k] = stack[k]
        /\ Returned \/ Moved \/ Called
    BY <1>9, StackMoves
  <2>2. /\ Top.decl \in Decl /\ Top.pos \in Nat \ {0}
        /\ NextChild.decl = Top.decl /\ NextChild.phase = Top.phase
        /\ NextChild.pos = Top.pos + 1
        /\ Len(stack) \in 1..Len(stack) /\ Top = stack[Len(stack)]
    BY <1>9, NextIs
  <2>3. next' >= next /\ next' \in Nat
    BY <1>4, <2>1
  <2>4. ASSUME NEW e \in V, Lone(e), NEW k \in 1..Len(stack),
               stack[k].decl # e, IsChild(e, stack[k].decl)
        PROVE  /\ stack[k].phase = "body"
               /\ \A i \in 1..Len(Children(stack[k].decl)) :
                    Children(stack[k].decl)[i] = e => i < stack[k].pos
    BY <1>1, <2>4 DEF Visited, Behind
  <2>5. ASSUME NEW e \in V, Lone(e), NEW k \in 1..Len(stack),
               \/ Moved
               \/ Called
               \/ Returned /\ k < Len(stack),
               stack'[k].decl # e, IsChild(e, stack'[k].decl)
        PROVE  /\ stack'[k].phase = "body"
               /\ \A i \in 1..Len(Children(stack'[k].decl)) :
                    Children(stack'[k].decl)[i] = e => i < stack'[k].pos
    <3>1. CASE k \in 1..(Len(stack) - 1)
      BY <2>1, <2>4, <2>5, <3>1
    <3>2. CASE k = Len(stack)
      <4>1. stack'[k].decl = Top.decl
        BY <2>2, <2>5, <3>2 DEF Moved, Called
      <4>2. /\ Top.phase = "body"
            /\ \A i \in 1..Len(Children(Top.decl)) : Children(Top.decl)[i] = e => i < Top.pos
        BY <2>2, <2>4, <2>5, <3>2, <4>1
      <4>3. stack'[k] = NextChild
        BY <2>5, <3>2, <4>2 DEF Moved, Called
      <4>4. Len(Children(Top.decl)) \in Nat
        BY <2>2, ProgramFacts DEF TypeInv, Program, Children
      <4> QED
        BY <2>2, <4>2, <4>3, <4>4
    <3> QED
      BY <1>4, <3>1, <3>2
  <2>6. CASE Returned \/ Moved
    <3>1. \A k \in 1..Len(stack') : k \in 1..Len(stack) /\ (Moved \/ (Returned /\ k < Len(stack)))
                                      /\ stack'[k].decl = stack[k].decl
      <4>1. CASE Returned
        BY <1>4, <2>1, <4>1 DEF Returned
      <4>2. CASE Moved
        BY <1>4, <2>1, <2>2, <4>2 DEF Moved
      <4> QED
        BY <2>6, <4>1, <4>2
    <3>2. \A k \in 1..Len(stack') : stack'[k].decl \in V
      BY <1>1, <3>1 DEF Visited
    <3>3. Visited(V)'
      <4>1. \A e \in V : Lone(e) =>
              \A k \in 1..Len(stack') : stack'[k].decl # e /\ IsChild(e, stack'[k].decl) =>
                /\ stack'[k].phase = "body"
                /\ \A i \in 1..Len(Children(stack'[k].decl)) :
                     Children(stack'[k].decl)[i] = e => i < stack'[k].pos
        BY <2>5, <2>6, <3>1
      <4> QED
        BY <1>1, <2>3, <3>2, <4>1, VisitedNext
    <3>4. Alone'
      <4>1. \A k, l \in 1..Len(stack') :
              Lone(stack'[k].decl) /\ stack'[k].decl = stack'[l].decl => k = l
        BY <1>2, <3>1 DEF Alone
      <4> QED
        BY <1>3, <4>1 DEF Alone
    <3> QED
      BY <1>5, <3>3, <3>4
  <2>7. CASE Called
    <3> DEFINE c == CurrentChild
               n == Len(stack) + 1
    <3>1. /\ Len(stack') = n /\ stack'[n].decl = c /\ c \in Decl /\ c # Top.decl
          /\ \A k \in 1..Len(stack) : stack'[k].decl = stack[k].decl
          /\ \A k \in 1..n : k \in 1..Len(stack) \/ k = n
      <4>1. \A k \in 1..Len(stack) : k \in 1..(Len(stack) - 1) \/ k = Len(stack)
        BY <1>4
      <4> QED
        BY <1>4, <2>1, <2>2, <2>7, <4>1 DEF Called
    <3>2. IsChild(c, Top.decl) /\ Top.phase = "body"
      BY <2>7 DEF Called, IsChild, CurrentChild
    <3>3. Lone(c) => c \notin V
      BY <1>1, <1>9, <2>7, CalledFirst DEF Called
    <3>4. \A p \in Decl : p # c /\ IsChild(c, p) => p = Top.decl
      BY <2>2, <3>1, <3>2, OneParent
    <3>5. \A a \in 1..Len(prog.free) : prog.free[a] # c
      BY <2>2, <3>1, <3>2, ChildNotFree DEF IsFree
    <3>6. Top.decl \in V /\ \A k \in 1..Len(stack) : stack[k].decl \in V
      BY <1>1, <2>2 DEF Visited
    <3>0. PICK W \in SUBSET Decl : W = V \cup {c}
      BY <3>1
    <3>7. W \in SUBSET Decl /\ V \subseteq W /\ \A k \in 1..Len(stack') : stack'[k].decl \in W
      BY <3>0, <3>1, <3>6
    <3>8. ASSUME NEW e \in V, Lone(e), e # c, IsChild(e, c)
          PROVE  FALSE
      <4>1. Behind(e, V)
        BY <1>1, <3>8 DEF Visited
      <4>2. c \in V
        BY <3>1, <3>8, <4>1 DEF Behind
      <4>3. Lone(c)
        BY <3>1, <3>8, LoneParent
      <4> QED
        BY <3>3, <4>2, <4>3
    <3>9. ASSUME Lone(c), NEW k \in 1..Len(stack'), stack'[k].decl # c,
                 IsChild(c, stack'[k].decl)
          PROVE  /\ stack'[k].phase = "body"
                 /\ \A i \in 1..Len(Children(stack'[k].decl)) :
                      Children(stack'[k].decl)[i] = c => i < stack'[k].pos
      <4>1. k \in 1..Len(stack) /\ stack'[k].decl = stack[k].decl
        BY <3>1, <3>9
      <4>2. stack[k].decl = Top.decl
        BY <3>4, <3>6, <3>9, <4>1
      <4>3. Lone(Top.decl)
        BY <2>2, <3>2, <3>9, LoneParent
      <4>4. k = Len(stack)
        BY <1>2, <2>2, <4>1, <4>2, <4>3 DEF Alone
      <4>5. stack'[k] = NextChild
        BY <2>7, <4>4 DEF Called
      <4>6. \A i \in 1..Len(Children(Top.decl)) : Children(Top.decl)[i] = c => i = Top.pos
        BY <2>2, <2>7, <3>9, LoneIndex DEF Called, CurrentChild
      <4> QED
        BY <2>2, <3>2, <4>5, <4>6
    <3>10. Visited(W)'
      <4>1. \A e \in W : Lone(e) =>
              /\ e \notin V => \A a \in 1..Len(prog.free) : prog.free[a] = e => a < next'
              /\ e \notin V => \A p \in Decl : p # e /\ IsChild(e, p) => p \in W
        BY <3>0, <3>4, <3>5, <3>6
      <4>2. ASSUME NEW e \in W, Lone(e), NEW k \in 1..Len(stack'), stack'[k].decl # e,
                   IsChild(e, stack'[k].decl)
            PROVE  /\ stack'[k].phase = "body"
                   /\ \A i \in 1..Len(Children(stack'[k].decl)) :
                        Children(stack'[k].decl)[i] = e => i < stack'[k].pos
        <5>1. CASE e = c
          BY <3>9, <4>2, <5>1
        <5>2. CASE e # c
          <6>1. e \in V
            BY <3>0, <5>2
          <6>2. k # n
            BY <3>1, <3>8, <4>2, <5>2, <6>1
          <6>3. k \in 1..Len(stack)
            BY <3>1, <6>2
          <6> QED
            BY <2>5, <2>7, <4>2, <6>1, <6>3
        <5> QED
          BY <5>1, <5>2
      <4> HIDE DEF c, n
      <4>3. \A e \in W : Lone(e) =>
              /\ e \notin V => \A a \in 1..Len(prog.free) : prog.free[a] = e => a < next'
              /\ e \notin V => \A p \in Decl : p # e /\ IsChild(e, p) => p \in W
              /\ \A k \in 1..Len(stack') : stack'[k].decl # e /\ IsChild(e, stack'[k].decl) =>
                   /\ stack'[k].phase = "body"
                   /\ \A i \in 1..Len(Children(stack'[k].decl)) :
                        Children(stack'[k].decl)[i] = e => i < stack'[k].pos
        BY <4>1, <4>2
      <4> QED
        BY <1>1, <2>3, <3>7, <4>3, VisitedNext
    <3>11. Alone'
      <4>1. \A k \in 1..Len(stack) : Lone(c) => stack[k].decl # c
        BY <3>3, <3>6
      <4>2. ASSUME NEW k \in 1..Len(stack'), NEW l \in 1..Len(stack'),
                   Lone(stack'[k].decl), stack'[k].decl = stack'[l].decl
            PROVE  k = l
        <5>1. CASE k \in 1..Len(stack) /\ l \in 1..Len(stack)
          BY <1>2, <3>1, <4>2, <5>1 DEF Alone
        <5>2. CASE k = n \/ l = n
          <6>1. Lone(c) /\ stack'[k].decl = c /\ stack'[l].decl = c
            BY <3>1, <4>2, <5>2
          <6>2. \A m \in 1..Len(stack') : stack'[m].decl = c => m = n
            BY <3>1, <4>1, <6>1
          <6> QED
            BY <6>1, <6>2
        <5> QED
          BY <3>1, <5>1, <5>2
      <4> QED
        BY <1>3, <4>2 DEF Alone
    <3> QED
      BY <1>5, <3>7, <3>10, <3>11
  <2> QED
    BY <2>1, <2>6, <2>7
<1>10. stack = <<>> => Stays \/ PassesOver \/ Begins
  BY DEF StackStep, GoesOn, Ends, Calls
<1>11. stack = <<>> \/ Len(stack) > 0
  BY <1>4
<1> QED
  BY <1>6, <1>7, <1>8, <1>9, <1>10, <1>11

-----------------------------------------------------------------------------
(* The order of the members.                                               *)

LEMMA WalkedInit == TypeInv /\ Init => Walked /\ StartsAtOne
<1>1. SUFFICES ASSUME TypeInv, Init
               PROVE  Walked /\ StartsAtOne
  OBVIOUS
<1>2. Len(stack) = 0 /\ stack = <<>>
  BY <1>1 DEF Init
<1>3. StartsAtOne /\ Alone
  BY <1>2 DEF StartsAtOne, Alone
<1>4. \A d \in Decl : translated[d] = NoNode /\ Len(members[d]) = 0
  BY <1>1 DEF Init
<1>5. Visited({})
  BY <1>2, <1>4 DEF Visited
<1>6. {} \in SUBSET Decl
  OBVIOUS
<1> QED
  BY <1>3, <1>5, <1>6 DEF Walked

(* A free declaration that is visited and alone has not been visited       *)
(* before.                                                                 *)
LEMMA BegunFirst ==
  ASSUME TypeInv, NEW V \in SUBSET Decl, Visited(V), Begins, Lone(prog.free[next])
  PROVE  prog.free[next] \notin V
<1>1. next \in 1..Len(prog.free) /\ ~(next < next)
  BY DEF Begins, AtFree, TypeInv, TypeOK
<1> QED
  BY <1>1 DEF Visited, Behind

(* Where the children are among the members of a node, and how far the     *)
(* body has come.                                                          *)
ChildSpots(d) == {i \in 1..Len(members[d]) : members[d][i].role = "child"}
Below(d, n) ==
  \A i \in ChildSpots(d), a \in 1..Len(Children(d)) :
    Children(d)[a] = members[d][i].decl => a < n
Sorted(d) ==
  \A i, j \in ChildSpots(d), a, b \in 1..Len(Children(d)) :
    /\ i < j
    /\ Children(d)[a] = members[d][i].decl /\ Children(d)[b] = members[d][j].decl
    => a < b
Reached(d) ==
  \A k \in 1..Len(stack) : stack[k].decl = d =>
    /\ stack[k].phase # "body" => ChildSpots(d) = {}
    /\ stack[k].phase = "body" =>
         Below(d, IF k < Len(stack) THEN stack[k].pos - 1 ELSE stack[k].pos)
MembersSorted == \A d \in Decl : WalkedOnce(d) => Sorted(d) /\ Reached(d)

LEMMA WalkedOnceKept ==
  ASSUME prog' = prog
  PROVE  \A d : WalkedOnce(d)' <=> WalkedOnce(d)
BY DEF WalkedOnce, Enclosing, ListedOnce, IsChild, Children

(* A new member of a node that is walked once is the child that the body   *)
(* is at.                                                                  *)
LEMMA NewMember ==
  ASSUME TypeInv, CallsNest, Gathers, NEW d \in Decl, WalkedOnce(d),
         NEW i \in ChildSpots(d)', i > Len(members[d]),
         NEW a \in 1..Len(Children(d)), Children(d)[a] = members'[d][i].decl
  PROVE  /\ i = Len(members[d]) + 1
         /\ \/ Len(stack) > 1 /\ stack' = Pop /\ d = Caller.decl
                 /\ Caller.phase = "body" /\ a = Caller.pos - 1
            \/ Len(stack) > 0 /\ Step(NextChild) /\ d = Top.decl
                 /\ Top.phase = "body" /\ a = Top.pos
<1> DEFINE c == members'[d][i].decl
<1>1. /\ i = Len(members[d]) + 1 /\ c \in Decl
      /\ Delivers(d, c) \/ Keeps(d, c)
  BY MembersGrow DEF ChildSpots
<1>2. IsChild(c, d)
  BY DEF IsChild
<1> HIDE DEF c
<1>3. Lone(c)
  BY <1>1, <1>2, WalkedLone
<1>4. CASE Delivers(d, c)
  <2>1. /\ Len(stack) > 1 /\ stack' = Pop /\ d = Caller.decl /\ c = Top.decl
    BY <1>4 DEF Delivers
  <2>2. Link(Caller, Top)
    BY <2>1, CallerFacts
  <2>3. /\ Caller.phase = "body" /\ Caller.pos - 1 \in 1..Len(Children(d))
        /\ Children(d)[Caller.pos - 1] = c
    BY <2>1, <2>2 DEF Link
  <2>4. a = Caller.pos - 1
    BY <1>3, <2>3, LoneIndex DEF c
  <2> QED
    BY <1>1, <2>1, <2>3, <2>4
<1>5. CASE Keeps(d, c)
  <2>1. /\ Len(stack) > 0 /\ Step(NextChild) /\ d = Top.decl /\ c = CurrentChild
        /\ Top.phase = "body" /\ Top.pos \in 1..Len(Children(d))
    BY <1>5 DEF Keeps
  <2>2. a = Top.pos
    BY <1>3, <2>1, LoneIndex DEF c, CurrentChild
  <2> QED
    BY <1>1, <2>1, <2>2
<1> QED
  BY <1>1, <1>4, <1>5

(* Who adds a child to a node.                                             *)
LEMMA NewSpot ==
  ASSUME TypeInv, Gathers, NEW d \in Decl, NEW i \in ChildSpots(d)', i > Len(members[d])
  PROVE  \/ Len(stack) > 1 /\ stack' = Pop /\ d = Caller.decl
         \/ Len(stack) > 0 /\ Step(NextChild) /\ d = Top.decl /\ Top.phase = "body"
BY MembersGrow DEF ChildSpots, Delivers, Keeps

(* The three ways to go on exclude each other.                             *)
LEMMA MoveKinds ==
  ASSUME TypeInv, Len(stack) > 0
  PROVE  /\ Returned => stack' = Pop /\ ~Step(NextChild)
         /\ Moved \/ Called => stack' # Pop
         /\ Called => ~Step(NextChild)
<1>1. Len(stack) \in Nat \ {0} /\ Len(Pop) = Len(stack) - 1 /\ NextChild \in Frame
  BY NextIs, FrameType, StackFacts DEF NextChild
<1>2. Step(NextChild) => stack' # Pop /\ Len(stack') = Len(stack)
  <2>1. Step(NextChild) => Len(stack') = Len(stack)
    BY <1>1, NextIs, ExceptSeq DEF Step
  <2> QED
    BY <1>1, <2>1
<1> QED
  BY <1>1, <1>2 DEF Returned, Moved, Called

LEMMA OldMember ==
  ASSUME TypeInv, Gathers, NEW d \in Decl, NEW i \in ChildSpots(d)', ~(i > Len(members[d]))
  PROVE  i \in ChildSpots(d) /\ members'[d][i] = members[d][i]
<1>1. i \in 1..Len(members'[d]) /\ members'[d][i].role = "child"
  BY DEF ChildSpots
<1>2. i \in 1..Len(members[d]) /\ members'[d][i] = members[d][i]
  BY <1>1, MembersGrow
<1> QED
  BY <1>1, <1>2 DEF ChildSpots

LEMMA SortedStep ==
  ASSUME TypeInv, CallsNest, Alone, MembersSorted, Gathers, prog' = prog,
         NEW d \in Decl, WalkedOnce(d)
  PROVE  Sorted(d)'
<1>1. SUFFICES ASSUME NEW i \in ChildSpots(d)', NEW j \in ChildSpots(d)',
                      NEW a \in 1..Len(Children(d)), NEW b \in 1..Len(Children(d)), i < j,
                      Children(d)[a] = members'[d][i].decl, Children(d)[b] = members'[d][j].decl
               PROVE  a < b
  BY LoneKept DEF Sorted
<1>2. /\ i \in Nat /\ j \in Nat /\ Len(members[d]) \in Nat /\ Sorted(d) /\ Reached(d)
      /\ stack \in Seq(Frame)
  BY MembersGrow DEF MembersSorted, ChildSpots, TypeInv, TypeOK
<1>3. CASE ~(j > Len(members[d]))
  <2>1. ~(i > Len(members[d]))
    BY <1>1, <1>2, <1>3
  <2> QED
    BY <1>1, <1>2, <1>3, <2>1, OldMember DEF Sorted
<1>4. CASE j > Len(members[d])
  <2>1. j = Len(members[d]) + 1
    BY <1>1, <1>4, NewMember
  <2>2. ~(i > Len(members[d]))
    BY <1>1, <1>2, <2>1
  <2>3. i \in ChildSpots(d) /\ Children(d)[a] = members[d][i].decl
    BY <1>1, <2>2, OldMember
  <2>4. CASE Len(stack) > 1 /\ d = Caller.decl /\ Caller.phase = "body" /\ b = Caller.pos - 1
    <3>1. Len(stack) - 1 \in 1..Len(stack) /\ Len(stack) - 1 < Len(stack)
      BY <1>2, <2>4
    <3>2. Below(d, Caller.pos - 1)
      BY <1>2, <2>4, <3>1 DEF Reached, Caller
    <3> QED
      BY <2>3, <2>4, <3>2 DEF Below
  <2>5. CASE Len(stack) > 0 /\ d = Top.decl /\ Top.phase = "body" /\ b = Top.pos
    <3>1. Len(stack) \in 1..Len(stack) /\ ~(Len(stack) < Len(stack))
      BY <1>2, <2>5
    <3>2. Below(d, Top.pos)
      BY <1>2, <2>5, <3>1 DEF Reached, Top
    <3> QED
      BY <2>3, <2>5, <3>2 DEF Below
  <2> QED
    BY <1>1, <1>4, <2>4, <2>5, NewMember
<1> QED
  BY <1>3, <1>4

(* A visitor that starts on a declaration that is walked once finds its    *)
(* node without children.                                                  *)
LEMMA NoSpots ==
  ASSUME TypeInv, NEW V \in SUBSET Decl, Visited(V), NEW d \in Decl, d \notin V
  PROVE  ChildSpots(d) = {}
BY DEF Visited, ChildSpots

LEMMA ReachedStep ==
  ASSUME TypeInv, CallsNest, AllWork, StartsAtOne, Walked, MembersSorted, StackStep,
         Gathers, [Next]_vars, prog' = prog, NEW d \in Decl, WalkedOnce(d)
  PROVE  Reached(d)'
<1>1. PICK V \in SUBSET Decl : Visited(V)
  BY DEF Walked
<1>2. /\ stack \in Seq(Frame) /\ Len(stack) \in Nat /\ Reached(d) /\ Alone
      /\ Len(members[d]) \in Nat /\ Lone(d)
  BY MembersGrow, WalkedLone DEF MembersSorted, TypeInv, TypeOK, Walked
<1>3. Children(d)' = Children(d)
  BY LoneKept
<1>4. ASSUME ~(Len(stack) > 1 /\ stack' = Pop /\ d = Caller.decl),
             ~(Len(stack) > 0 /\ Step(NextChild) /\ d = Top.decl /\ Top.phase = "body")
      PROVE  /\ ChildSpots(d) = {} => ChildSpots(d)' = {}
             /\ \A n : Below(d, n) => \A i \in ChildSpots(d)', a \in 1..Len(Children(d)) :
                  Children(d)[a] = members'[d][i].decl => a < n
  <2>1. \A i \in ChildSpots(d)' : i \in ChildSpots(d) /\ members'[d][i] = members[d][i]
    BY <1>4, NewSpot, OldMember
  <2> QED
    BY <2>1 DEF Below
<1>5. ASSUME NEW k \in 1..Len(stack'), stack'[k].decl = d => ChildSpots(d)' = {}
      PROVE  stack'[k].decl = d =>
        /\ stack'[k].phase # "body" => ChildSpots(d)' = {}
        /\ stack'[k].phase = "body" =>
             \A i \in ChildSpots(d)', a \in 1..Len(Children(d)) :
               Children(d)[a] = members'[d][i].decl =>
                 a < IF k < Len(stack') THEN stack'[k].pos - 1 ELSE stack'[k].pos
  BY <1>5
<1>6. SUFFICES ASSUME NEW k \in 1..Len(stack'), stack'[k].decl = d
               PROVE  /\ stack'[k].phase # "body" => ChildSpots(d)' = {}
                      /\ stack'[k].phase = "body" =>
                           \A i \in ChildSpots(d)', a \in 1..Len(Children(d)) :
                             Children(d)[a] = members'[d][i].decl =>
                               a < IF k < Len(stack') THEN stack'[k].pos - 1
                                                      ELSE stack'[k].pos
  BY <1>3 DEF Reached, Below
<1>7. CASE UNCHANGED vars
  BY <1>2, <1>6, <1>7 DEF vars, Reached, Below, ChildSpots
<1>8. CASE stack = <<>>
  <2>1. Begins
    BY <1>6, <1>8 DEF StackStep, Stays, PassesOver, GoesOn, Ends, Calls
  <2>2. k = 1 /\ stack'[1] = NewFrame(d, <<>>) /\ d = prog.free[next]
    BY <1>6, <2>1 DEF Begins, NewFrame
  <2>3. ChildSpots(d) = {}
    BY <1>1, <1>2, <2>1, <2>2, BegunFirst, NoSpots
  <2>4. ChildSpots(d)' = {}
    BY <1>4, <1>8, <2>3
  <2> QED
    BY <1>5, <1>6, <2>4
<1>9. CASE Len(stack) > 0 /\ ~UNCHANGED vars
  <2>1. /\ \A l \in 1..(Len(stack) - 1) : stack'[l] = stack[l]
        /\ Returned \/ Moved \/ Called
    BY <1>9, StackMoves
  <2>2. /\ Top.decl \in Decl /\ Top.pos \in Nat \ {0}
        /\ NextChild.decl = Top.decl /\ NextChild.phase = Top.phase
        /\ NextChild.pos = Top.pos + 1
        /\ Len(stack) \in 1..Len(stack) /\ Top = stack[Len(stack)]
        /\ NextChild \in Frame
    BY <1>9, NextIs, FrameType, StackFacts DEF NextChild
  <2>3. /\ Returned => stack' = Pop /\ ~Step(NextChild)
        /\ Moved \/ Called => stack' # Pop
        /\ Called => ~Step(NextChild)
    BY <1>9, MoveKinds
  <2>4. ASSUME k < Len(stack), Returned => k < Len(stack) - 1
        PROVE  /\ stack'[k] = stack[k] /\ k < Len(stack')
               /\ ChildSpots(d) = {} => ChildSpots(d)' = {}
               /\ \A n : Below(d, n) => \A i \in ChildSpots(d)', a \in 1..Len(Children(d)) :
                    Children(d)[a] = members'[d][i].decl => a < n
    <3>1. stack'[k] = stack[k] /\ k < Len(stack')
      BY <1>2, <2>1, <2>4 DEF Returned, Moved, Called
    <3>2. d # Top.decl
      BY <1>2, <1>6, <2>2, <2>4, <3>1 DEF Alone
    <3>3. Returned => d # Caller.decl
      BY <1>2, <1>6, <2>4, <3>1 DEF Alone, Caller
    <3> QED
      BY <1>4, <2>1, <2>3, <3>1, <3>2, <3>3
  <2>5. CASE k < Len(stack) /\ (Returned => k < Len(stack) - 1)
    BY <1>2, <1>6, <2>4, <2>5 DEF Reached
  <2>6. CASE Returned /\ k = Len(stack) - 1
    <3>1. Len(stack) > 1 /\ stack'[k] = Caller /\ d = Caller.decl /\ ~(k < Len(stack'))
      BY <1>2, <1>6, <2>1, <2>6 DEF Returned, Caller
    <3>2. Caller.phase = "body" /\ Caller.pos \in Nat \ {0}
      BY <3>1, CallerFacts, StackFacts DEF Link, Frame
    <3>3. Below(d, Caller.pos - 1)
      BY <1>2, <2>6, <3>1, <3>2 DEF Reached, Caller
    <3>4. ASSUME NEW i \in ChildSpots(d)', NEW a \in 1..Len(Children(d)),
                 Children(d)[a] = members'[d][i].decl
          PROVE  a < Caller.pos
      <4>1. CASE i > Len(members[d])
        BY <2>3, <2>6, <3>2, <3>4, <4>1, NewMember
      <4>2. CASE ~(i > Len(members[d]))
        <5>1. a < Caller.pos - 1
          BY <3>3, <3>4, <4>2, OldMember DEF Below
        <5> QED
          BY <3>2, <5>1
      <4> QED
        BY <4>1, <4>2
    <3> QED
      BY <3>1, <3>2, <3>4
  <2>7. CASE Moved /\ k = Len(stack)
    <3>1. d = Top.decl /\ ~(k < Len(stack'))
      BY <1>2, <1>6, <2>7 DEF Moved
    <3>2. CASE Top.phase = "body"
      <4>1. Below(d, Top.pos)
        BY <1>2, <2>2, <3>1, <3>2 DEF Reached
      <4>2. stack'[k] = NextChild
        BY <2>7, <3>2 DEF Moved
      <4>3. ASSUME NEW i \in ChildSpots(d)', NEW a \in 1..Len(Children(d)),
                   Children(d)[a] = members'[d][i].decl
            PROVE  a < Top.pos + 1
        <5>1. CASE i > Len(members[d])
          BY <2>2, <2>3, <2>7, <4>3, <5>1, NewMember
        <5>2. CASE ~(i > Len(members[d]))
          <6>1. a < Top.pos
            BY <4>1, <4>3, <5>2, OldMember DEF Below
          <6> QED
            BY <2>2, <6>1
        <5> QED
          BY <5>1, <5>2
      <4> QED
        BY <2>2, <3>1, <3>2, <4>2, <4>3
    <3>3. CASE Top.phase # "body"
      <4>1. ChildSpots(d) = {}
        BY <1>2, <2>2, <3>1, <3>3 DEF Reached
      <4> QED
        BY <1>4, <1>5, <2>3, <2>7, <3>3, <4>1
    <3> QED
      BY <3>2, <3>3
  <2>8. CASE Called /\ k = Len(stack)
    <3>1. /\ d = Top.decl /\ k < Len(stack') /\ stack'[k] = NextChild
          /\ Top.phase = "body"
      BY <1>2, <1>6, <2>2, <2>8 DEF Called
    <3>2. Below(d, Top.pos)
      BY <1>2, <2>2, <3>1 DEF Reached
    <3>3. Top.pos + 1 - 1 = Top.pos
      BY <2>2
    <3> QED
      BY <1>4, <2>2, <2>3, <2>8, <3>1, <3>2, <3>3
  <2>9. CASE Called /\ k = Len(stack) + 1
    <3>1. d = CurrentChild /\ stack'[k].phase = "enter"
      BY <1>6, <2>9 DEF Called
    <3>2. d \notin V
      BY <1>1, <1>2, <1>9, <2>9, <3>1, CalledFirst DEF Called
    <3>3. ChildSpots(d) = {}
      BY <1>1, <3>2, NoSpots
    <3> QED
      BY <1>4, <1>5, <1>6, <2>3, <2>9, <3>3
  <2>10. \/ k < Len(stack) /\ (Returned => k < Len(stack) - 1)
         \/ Returned /\ k = Len(stack) - 1
         \/ Moved /\ k = Len(stack)
         \/ Called /\ k = Len(stack)
         \/ Called /\ k = Len(stack) + 1
    <3>1. \A n \in Nat : \A l \in 1..(n - 1) : l < n - 1 \/ l = n - 1
      OBVIOUS
    <3>2. \A n \in Nat : \A l \in 1..n : l < n \/ l = n
      OBVIOUS
    <3>3. \A n \in Nat : \A l \in 1..(n + 1) : l < n \/ l = n \/ l = n + 1
      OBVIOUS
    <3> QED
      BY <1>2, <2>1, <3>1, <3>2, <3>3 DEF Returned, Moved, Called
  <2> QED
    BY <2>5, <2>6, <2>7, <2>8, <2>9, <2>10
<1> QED
  BY <1>2, <1>7, <1>8, <1>9

-----------------------------------------------------------------------------
(* The order of the output.                                                *)

(* The output has the free declarations that the loop is past in the order *)
(* of the loop; the one that is being visited is not yet in it.            *)
FreeAt(m, a) == m.ns = <<>> /\ prog.free[a] = m.decl
FreeBehind ==
  \A i \in 1..Len(output), a \in 1..Len(prog.free) :
    FreeAt(output[i], a) => a < next /\ (Len(stack) > 0 => a < next - 1)
FreeSorted ==
  \A i, j \in 1..Len(output), a, b \in 1..Len(prog.free) :
    i < j /\ FreeAt(output[i], a) /\ FreeAt(output[j], b) => a < b

(* What is new in the output, and which free declaration it can be.        *)
LEMMA NewOutput ==
  ASSUME TypeInv, CallsNest, EmittedStep, StackStep, ~UNCHANGED output
  PROVE  /\ Len(output') = Len(output) + 1
         /\ \A i \in 1..Len(output) : output'[i] = output[i]
         /\ \/ stack = <<>> /\ stack' = stack /\ next' = next + 1
                 /\ \A a \in 1..Len(prog.free) :
                      FreeAt(output'[Len(output) + 1], a) => a = next
            \/ Len(stack) > 0 /\ next' = next
                 /\ \A a \in 1..Len(prog.free) :
                      FreeAt(output'[Len(output) + 1], a) => a = next - 1 /\ stack' = <<>>
<1>1. PICK d \in Decl, ns \in Seq(Decl) : Placing(d, ns) /\ PlaceIntoTargetModule(d, ns)
  BY DEF EmittedStep, emitted
<1>2. /\ output \in Seq(Placement) /\ [decl |-> d, ns |-> ns] \in Placement
      /\ output' = Append(output, [decl |-> d, ns |-> ns])
  BY <1>1 DEF PlaceIntoTargetModule, emitted, TypeInv, TypeOK, Placement
<1>3. /\ Len(output) \in Nat /\ Len(output') = Len(output) + 1
      /\ \A i \in 1..Len(output) : output'[i] = output[i]
      /\ output'[Len(output) + 1].decl = d /\ output'[Len(output) + 1].ns = ns
  BY <1>2
<1>4. /\ next \in Nat \ {0} /\ stack \in Seq(Frame)
      /\ \A i, j \in 1..Len(prog.free) : prog.free[i] = prog.free[j] => i = j
  BY ProgramFacts DEF TypeInv, TypeOK, WellFormed
<1>5. CASE AtFree /\ d = prog.free[next] /\ translated[d] # NoNode /\ next' = next + 1
  <2>1. stack = <<>> /\ next \in 1..Len(prog.free)
    BY <1>4, <1>5, ProgramFacts DEF AtFree, TypeInv, Program
  <2>2. stack' = stack
    BY <1>4, <1>5, <2>1 DEF StackStep, Stays, PassesOver, Begins, GoesOn, Ends, Calls
  <2> QED
    BY <1>3, <1>4, <1>5, <2>1, <2>2 DEF FreeAt
<1>6. CASE /\ Len(stack) > 0 /\ d = Top.decl /\ ns = Top.ns /\ stack' = Pop
           /\ Len(stack) > 1 => KindOf(Caller.decl) = "namespace"
  <2>1. next' = next
    BY <1>4, <1>6 DEF StackStep, Stays, PassesOver, Begins, AtFree, GoesOn, Ends, Calls, vars
  <2>2. ns = <<>> => ~(Len(stack) > 1)
    <3>1. SUFFICES ASSUME Len(stack) > 1
                   PROVE  ns # <<>>
      OBVIOUS
    <3>2. ns = Append(Caller.ns, Caller.decl) /\ Caller.ns \in Seq(Decl) /\ Caller.decl \in Decl
      BY <1>6, <3>1, CallerFacts, StackFacts DEF Link, Frame
    <3> QED
      BY <3>2
  <2>3. ns = <<>> => Len(stack) = 1
    <3>1. Len(stack) \in Nat
      BY <1>4
    <3>2. \A n \in Nat : n > 0 /\ ~(n > 1) => n = 1
      OBVIOUS
    <3> QED
      BY <1>6, <2>2, <3>1, <3>2, Zenon
  <2>4. ns = <<>> => \A a \in 1..Len(prog.free) : prog.free[a] = d => a = next - 1
    BY <1>4, <1>6, <2>3 DEF CallsNest, Root, Top
  <2>5. ns = <<>> => stack' = <<>>
    BY <1>4, <1>6, <2>3 DEF Pop
  <2> QED
    BY <1>3, <1>6, <2>1, <2>4, <2>5 DEF FreeAt
<1> QED
  BY <1>1, <1>5, <1>6 DEF Placing

LEMMA FreeOrderStep ==
  ASSUME TypeInv, CallsNest, FreeBehind, FreeSorted, EmittedStep, StackStep, prog' = prog
  PROVE  FreeBehind' /\ FreeSorted'
<1>1. /\ next \in Nat \ {0} /\ Len(output) \in Nat /\ Len(stack) \in Nat
      /\ stack \in Seq(Frame)
  BY DEF TypeInv, TypeOK
<1>2. \/ next' = next /\ (Len(stack') > 0 => Len(stack) > 0)
      \/ next' = next + 1 /\ ~(Len(stack) > 0)
  BY <1>1 DEF StackStep, Stays, PassesOver, Begins, AtFree, GoesOn, Ends, Calls
<1>3. \A m, a : FreeAt(m, a)' <=> FreeAt(m, a)
  BY DEF FreeAt
<1>4. ASSUME NEW i \in 1..Len(output), NEW a \in 1..Len(prog.free), FreeAt(output[i], a)
      PROVE  /\ a < next' /\ (Len(stack') > 0 => a < next' - 1)
             /\ a < next /\ (Len(stack) > 0 => a < next - 1)
  <2>1. a < next /\ (Len(stack) > 0 => a < next - 1)
    BY <1>4 DEF FreeBehind
  <2> QED
    BY <1>1, <1>2, <2>1
<1>5. CASE UNCHANGED output
  BY <1>4, <1>5 DEF FreeBehind, FreeSorted, FreeAt
<1>6. CASE ~UNCHANGED output
  <2>1. PICK n : n = Len(output) + 1
    OBVIOUS
  <2>2. /\ Len(output') = n /\ \A i \in 1..Len(output) : output'[i] = output[i]
        /\ \A i \in 1..n : i \in 1..Len(output) \/ i = n
    BY <1>1, <1>6, <2>1, NewOutput
  <2>3. ASSUME NEW a \in 1..Len(prog.free), FreeAt(output'[n], a)
        PROVE  /\ a < next' /\ ~(Len(stack') > 0)
               /\ a = IF Len(stack) > 0 THEN next - 1 ELSE next
    BY <1>1, <1>6, <2>1, <2>3, NewOutput
  <2>4. \A i \in 1..n, a \in 1..Len(prog.free) :
          FreeAt(output'[i], a) => a < next' /\ (Len(stack') > 0 => a < next' - 1)
    BY <1>4, <2>2, <2>3
  <2>5. ASSUME NEW i \in 1..n, NEW j \in 1..n, NEW a \in 1..Len(prog.free),
               NEW b \in 1..Len(prog.free), i < j, FreeAt(output'[i], a), FreeAt(output'[j], b)
        PROVE  a < b
    <3>1. i \in 1..Len(output)
      BY <1>1, <2>1, <2>2, <2>5
    <3>2. CASE j \in 1..Len(output)
      BY <2>2, <2>5, <3>1, <3>2 DEF FreeSorted
    <3>3. CASE j = n
      BY <1>4, <2>2, <2>3, <2>5, <3>1, <3>3
    <3> QED
      BY <2>2, <3>2, <3>3
  <2> QED
    BY <1>3, <2>2, <2>4, <2>5 DEF FreeBehind, FreeSorted, FreeAt
<1> QED
  BY <1>5, <1>6

(* What the proof of the order needs of every state.                       *)
InOrder ==
  StartsAtOne /\ Walked /\ MembersSorted /\ FreeBehind /\ FreeSorted

LEMMA InOrderInit == TypeInv /\ Init => InOrder
<1>1. SUFFICES ASSUME TypeInv, Init
               PROVE  InOrder
  OBVIOUS
<1>2. StartsAtOne /\ Walked
  BY <1>1, WalkedInit
<1>3. Len(output) = 0 /\ \A d \in Decl : Len(members[d]) = 0
  BY <1>1 DEF Init
<1>4. FreeBehind /\ FreeSorted
  BY <1>3 DEF FreeBehind, FreeSorted
<1>5. \A d \in Decl : ChildSpots(d) = {}
  BY <1>3 DEF ChildSpots
<1>6. \A d \in Decl : Sorted(d) /\ Reached(d)
  BY <1>5 DEF Sorted, Reached, Below
<1> QED
  BY <1>2, <1>4, <1>6 DEF InOrder, MembersSorted

LEMMA InOrderStep ==
  TypeInv /\ CallsNest /\ Table /\ InOrder /\ [Next]_vars => InOrder'
<1>1. SUFFICES ASSUME TypeInv, CallsNest, Table, InOrder, [Next]_vars
               PROVE  InOrder'
  OBVIOUS
<1>2. NodeStep /\ StackStep /\ Gathers /\ EmittedStep
  BY <1>1, NodeSteps, StackSteps, GatherSteps, EmittedSteps DEF Table
<1>3. prog' = prog
  BY <1>1, StackSteps
<1>4. AllWork /\ StartsAtOne /\ Walked /\ Alone /\ MembersSorted /\ FreeBehind /\ FreeSorted
  BY <1>1 DEF Table, InOrder, Walked
<1>5. StartsAtOne' /\ Walked'
  BY <1>1, <1>2, <1>3, <1>4, StartsStep, WalkedStep
<1>6. MembersSorted'
  <2>1. \A d \in Decl : WalkedOnce(d) => Sorted(d)' /\ Reached(d)'
    BY <1>1, <1>2, <1>3, <1>4, SortedStep, ReachedStep
  <2> QED
    BY <1>3, <2>1, WalkedOnceKept DEF MembersSorted
<1>7. FreeBehind' /\ FreeSorted'
  BY <1>1, <1>2, <1>3, <1>4, FreeOrderStep
<1> QED
  BY <1>5, <1>6, <1>7 DEF InOrder

LEMMA SourceOrderFollows == TypeInv /\ Homes /\ InOrder => SourceOrder
<1>1. SUFFICES ASSUME TypeInv, Homes, InOrder
               PROVE  SourceOrder
  OBVIOUS
<1>2. ASSUME NEW i \in 1..Len(output), NEW j \in 1..Len(output), i < j,
             output[i].ns = <<>>, output[j].ns = <<>>
      PROVE  \E a, b \in 1..Len(prog.free) :
               a < b /\ prog.free[a] = output[i].decl /\ prog.free[b] = output[j].decl
  <2>1. IsFree(output[i].decl) /\ IsFree(output[j].decl)
    BY <1>1, <1>2 DEF Homes, PlacedAtHome, AtHome
  <2>2. PICK a, b \in 1..Len(prog.free) :
          prog.free[a] = output[i].decl /\ prog.free[b] = output[j].decl
    BY <2>1 DEF IsFree
  <2>3. a < b
    BY <1>1, <1>2, <2>2 DEF InOrder, FreeSorted, FreeAt
  <2> QED
    BY <2>2, <2>3
<1>3. ASSUME NEW d \in Decl, WalkedOnce(d), NEW c1 \in Decl, NEW c2 \in Decl,
             NEW i \in ChildAt(d, c1), NEW j \in ChildAt(d, c2), i < j
      PROVE  \E a, b \in 1..Len(Children(d)) :
               a < b /\ Children(d)[a] = c1 /\ Children(d)[b] = c2
  <2>1. /\ i \in ChildSpots(d) /\ members[d][i].decl = c1
        /\ j \in ChildSpots(d) /\ members[d][j].decl = c2
    BY DEF ChildAt, ChildSpots
  <2>2. IsChild(c1, d) /\ IsChild(c2, d)
    BY <1>1, <2>1 DEF Homes, MembersAtHome, AtParent, ChildSpots
  <2>3. PICK a, b \in 1..Len(Children(d)) : Children(d)[a] = c1 /\ Children(d)[b] = c2
    BY <2>2 DEF IsChild
  <2>4. a < b
    BY <1>1, <1>3, <2>1, <2>3 DEF InOrder, MembersSorted, Sorted
  <2> QED
    BY <2>3, <2>4
<1> QED
  BY <1>2, <1>3 DEF SourceOrder

(* The output follows the source: the free declarations are placed in the  *)
(* order of their locations, and the node of a declaration that is walked  *)
(* once has its members in the order of the C++ children.  A body that     *)
(* could be visited again out of turn is what could break this; the proof  *)
(* shows that no loop comes to a declaration a second time unless it, or   *)
(* something around it, is listed twice.                                   *)
THEOREM SourceOrderCorrect == Spec => []SourceOrder
<1>1. TypeInv /\ Homes /\ InOrder => SourceOrder
  BY SourceOrderFollows
<1>2. QED
  BY TypeInit, TypeStep, NestInit, NestAlways, HomesStep, TableInit, TableStep,
     InOrderInit, InOrderStep, <1>1, PTL DEF Spec

-----------------------------------------------------------------------------
(* The completeness of the members.                                        *)

LEMMA LeavesBody ==
  ASSUME TypeInv, CallsNest, PlacedOnce, PlacedAtHome, Len(stack) > 1, PhaseFits(Top), Next,
         stack' = Pop, KindOf(Caller.decl) # "namespace",
         Has(Top.decl, "emit"), ~Has(Top.decl, "overrides"), Top.decl \notin threw'
  PROVE  \/ status' = "aborted"
         \/ AddsChild(Caller.decl, Top.decl)
         \/ Barren(Top.decl)
         \/ KindOf(Top.decl) = "field" /\ InInterface
<1>1. Top.decl \notin placed
  BY CallerFacts, ChildNotPlaced
<1>2. Top.decl \notin threw
  BY NodeSteps DEF NodeStep, Remembers
<1>3. Return(TRUE) => \/ status' = "aborted"
                      \/ AddsChild(Caller.decl, Top.decl)
                      \/ KindOf(Top.decl) = "field" /\ InInterface
  BY <1>2 DEF Return, AddDeclaration, AddTo, AddsChild, Refuses, PerObject, InInterface
<1>4. Len(stack) > 0
  BY DEF TypeInv, TypeOK
<1>5. Top.decl \in threw' \/ Return(TRUE) \/ Excused
  BY <1>4, Left
<1> QED
  BY <1>1, <1>3, <1>5 DEF Excused

(* What the body of d has done about its child c, once it has gone by it.  *)
Exempt(d, c) ==
  \/ Barren(c)
  \/ KindOf(c) = "field" /\ KindOf(d) = "record" /\ StrategyOf(d) = "INTERFACE"
Taken(d, c) ==
  /\ c # d /\ Has(c, "wrappable") /\ Has(c, "emit") /\ ~Has(c, "overrides") /\ c \notin threw
  => ChildAt(d, c) # {} \/ Exempt(d, c)
Prefix(d, n) ==
  \A i \in 1..Len(Children(d)) : i < n => Taken(d, Children(d)[i])
BodiesTaken ==
  status = "running" =>
    \A k \in 1..Len(stack) :
      KindOf(stack[k].decl) \in {"record", "union"} /\ stack[k].phase = "body" =>
        Prefix(stack[k].decl, IF k < Len(stack) THEN stack[k].pos - 1 ELSE stack[k].pos)
BuiltTaken ==
  \A d \in built : KindOf(d) \in {"record", "union"} =>
    \A i \in 1..Len(Children(d)) : Taken(d, Children(d)[i])

LEMMA ExemptKept ==
  ASSUME prog' = prog
  PROVE  \A d, c : Exempt(d, c)' <=> Exempt(d, c)
BY DEF Exempt, Barren, BuildClass, KindOf, Has, StrategyOf

LEMMA TakenKept ==
  ASSUME TypeInv, Gathers, Remembers, prog' = prog, NEW d \in Decl, NEW c \in Decl, Taken(d, c)
  PROVE  Taken(d, c)'
<1>1. ChildAt(d, c) # {} => ChildAt(d, c)' # {}
  BY MembersGrow DEF ChildAt
<1> QED
  BY <1>1, ExemptKept, ProgKept DEF Taken, Remembers

LEMMA AddsTaken ==
  ASSUME TypeInv, NEW d \in Decl, NEW c \in Decl, AddsChild(d, c)
  PROVE  Taken(d, c)'
<1>1. members[d] \in Seq(Member) /\ [role |-> "child", decl |-> c] \in Member
      /\ members \in [Decl -> Seq(Member)]
  BY DEF TypeInv, TypeOK, Member
<1>2. members'[d] = Append(members[d], [role |-> "child", decl |-> c])
  BY <1>1 DEF AddsChild
<1>3. /\ Len(members[d]) + 1 \in 1..Len(members'[d])
      /\ members'[d][Len(members[d]) + 1] = [role |-> "child", decl |-> c]
  BY <1>1, <1>2
<1>4. ChildAt(d, c)' # {}
  BY <1>3 DEF ChildAt
<1> QED
  BY <1>4 DEF Taken

(* The body takes the child that it goes by without a visit.               *)
LEMMA PassedTaken ==
  ASSUME TypeInv, Len(stack) > 0, Next, Step(NextChild), Top.phase = "body",
         KindOf(Top.decl) \in {"record", "union"}
  PROVE  \/ status' = "aborted"
         \/ CurrentChild = Top.decl \/ ~Has(CurrentChild, "wrappable")
         \/ AddsChild(Top.decl, CurrentChild)
         \/ CurrentChild \in threw \/ Exempt(Top.decl, CurrentChild)
<1>1. NextChild \in Frame /\ Top \in Frame
  BY FrameType, StackFacts DEF NextChild
<1>2. stack' # Pop /\ \A d \in Decl, ns \in Seq(Decl) :
              stack' # Append([stack EXCEPT ![Len(stack)] = NextChild], NewFrame(d, ns))
  BY <1>1, OneStep
<1>3. ~Populate
  BY DEF Populate, PopulateSkip, PopulateTranslated, PopulateVisit, PopulateEnd, AtFree
<1>4. ~Enter
  BY DEF Enter, VisitNothing, VisitMemoised, VisitRejectedMethod, VisitCallable,
       VisitTyped, VisitRecord, VisitClass, VisitUnion, VisitNamespace, InPhase
<1>5. ~Types
  BY DEF Types, TypeFallback, TypeReject, TypeResolve, TypesEnd, EnumTypeEnd,
       AtType, InPhase
<1>6. ~Bases
  BY DEF Bases, BaseReject, BaseMismatch, StructBase, StructSurplusBase,
       InterfaceBase, InterfaceHiddenBase, BasesEnd, AtBase, InPhase
<1>7. ~BodyEnd /\ ~NamespaceEnd /\ ~EnumEnd
  BY <1>2 DEF BodyEnd, NamespaceEnd, EnumEnd, Return
<1>8. ~ChildVisit /\ ~NamespaceChild /\ ~EnumConstant
  <2>1. \A kinds : AtChild(kinds) => CurrentChild \in Decl
    BY CurrentFacts DEF AtChild
  <2>2. Top.ns \in Seq(Decl)
    BY <1>1 DEF Frame
  <2>3. ~ChildVisit
    BY <1>2, <2>1, <2>2 DEF ChildVisit, Push, NewFrame
  <2> QED
    BY <2>3 DEF NamespaceChild, EnumConstant, AtChild, InPhase
<1>9. CASE ChildSkip
  BY <1>9 DEF ChildSkip, PassedOver
<1>10. CASE ChildAddAgain
  BY <1>10 DEF ChildAddAgain, AddDeclaration, AddTo, AddsChild, Refuses, PerObject, Exempt
<1> QED
  BY <1>3, <1>4, <1>5, <1>6, <1>7, <1>8, <1>9, <1>10 DEF Next, Body

(* A record or a union is built at the end of its body.                    *)
LEMMA BuiltNew ==
  ASSUME TypeInv, Next, Len(stack) > 0 => PhaseFits(Top), NEW d \in Decl,
         d \in built', d \notin built, KindOf(d) \in {"record", "union"}
  PROVE  /\ Len(stack) > 0 /\ status = "running" /\ d = Top.decl
         /\ Top.phase = "body" /\ Top.pos > Len(Children(d))
<1>1. UNCHANGED built => FALSE
  OBVIOUS
<1>2. ~Populate
  BY <1>1 DEF Populate, PopulateSkip, PopulateTranslated, PopulateVisit, PopulateEnd, history
<1>3. ~Enter
  BY <1>1 DEF Enter, VisitNothing, VisitMemoised, VisitRejectedMethod, VisitCallable,
       VisitTyped, VisitRecord, VisitClass, VisitUnion, VisitNamespace, history
<1>4. ~Types
  <2>1. ~TypesEnd
    BY <1>1 DEF TypesEnd, InPhase, PhaseFits, TypedKinds
  <2> QED
    BY <1>1, <2>1 DEF Types, TypeFallback, TypeReject, TypeResolve, EnumTypeEnd, history
<1>5. ~Bases
  BY <1>1 DEF Bases, BaseReject, BaseMismatch, StructBase, StructSurplusBase,
       InterfaceBase, InterfaceHiddenBase, BasesEnd, history
<1>6. ~EnumConstant
  <2>1. SUFFICES ASSUME EnumConstant
                 PROVE  FALSE
    OBVIOUS
  <2>2. /\ Len(stack) > 0 /\ Top.pos <= Len(Children(Top.decl))
        /\ KindOf(Top.decl) = "enum" /\ d = CurrentChild
    BY <1>1, <2>1 DEF EnumConstant, AtChild, InPhase
  <2>3. Top.decl \in Decl /\ Top.pos \in 1..Len(Children(Top.decl))
    <3>1. Children(Top.decl) \in Seq(Decl) /\ Top.pos \in Nat \ {0} /\ Top.decl \in Decl
      BY <2>2, NextIs, ProgramFacts DEF TypeInv
    <3> QED
      BY <2>2, <3>1
  <2>4. IsChild(d, Top.decl)
    BY <2>2, <2>3 DEF IsChild, CurrentChild
  <2> QED
    BY <2>2, <2>3, <2>4, ChildKind
<1>7. CASE BodyEnd
  BY <1>1, <1>7 DEF BodyEnd, InPhase
<1>8. ~EnumEnd
  BY <1>1 DEF EnumEnd, InPhase
<1> QED
  BY <1>1, <1>2, <1>3, <1>4, <1>5, <1>6, <1>7, <1>8
     DEF Next, Body, ChildSkip, ChildAddAgain, ChildVisit, NamespaceChild, NamespaceEnd, history

(* Taken in the next state, with the declarations of this one.             *)
After(d, c) ==
  /\ c # d /\ Has(c, "wrappable") /\ Has(c, "emit") /\ ~Has(c, "overrides") /\ c \notin threw'
  => \/ \E i \in 1..Len(members'[d]) : members'[d][i] = [role |-> "child", decl |-> c]
     \/ Exempt(d, c)

LEMMA AfterIs ==
  ASSUME prog' = prog
  PROVE  \A d, c : Taken(d, c)' <=> After(d, c)
BY ExemptKept, ProgKept DEF Taken, After, ChildAt

LEMMA BodiesStep ==
  ASSUME TypeInv, CallsNest, AllWork, StartsAtOne, PlacedOnce, PlacedAtHome, BodiesTaken,
         StackStep, Gathers, Remembers, [Next]_vars, prog' = prog
  PROVE  BodiesTaken'
<1>1. /\ stack \in Seq(Frame) /\ Len(stack) \in Nat
      /\ \A l \in 1..Len(stack) : stack[l].decl \in Decl /\ stack[l].pos \in Nat \ {0}
  <2>1. stack \in Seq(Frame)
    BY DEF TypeInv, TypeOK
  <2>2. \A l \in 1..Len(stack) : stack[l] \in Frame
    BY <2>1, ElementOfSeq
  <2> QED
    BY <2>1, <2>2 DEF Frame
<1>2. /\ \A d : KindOf(d)' = KindOf(d) /\ Children(d)' = Children(d)
      /\ \A d \in Decl : Children(d) \in Seq(Decl)
  BY LoneKept, ProgramFacts DEF TypeInv
<1>3. \A d \in Decl, n \in Int : Prefix(d, n) =>
        \A i \in 1..Len(Children(d)) : i < n => After(d, Children(d)[i])
  BY <1>2, TakenKept, AfterIs DEF Prefix
<1>4. SUFFICES ASSUME status' = "running", NEW k \in 1..Len(stack'),
                      KindOf(stack'[k].decl) \in {"record", "union"},
                      stack'[k].phase = "body",
                      NEW i \in 1..Len(Children(stack'[k].decl)),
                      i < IF k < Len(stack') THEN stack'[k].pos - 1 ELSE stack'[k].pos
               PROVE  After(stack'[k].decl, Children(stack'[k].decl)[i])
  BY <1>2, AfterIs DEF BodiesTaken, Prefix
<1>5. CASE UNCHANGED vars
  BY <1>1, <1>3, <1>4, <1>5 DEF vars, BodiesTaken
<1>6. CASE stack = <<>>
  <2>1. Begins => Len(stack') = 1 /\ stack'[1].phase = "enter"
    BY DEF Begins, NewFrame
  <2> QED
    BY <1>4, <1>6, <2>1 DEF StackStep, Stays, PassesOver, GoesOn, Ends, Calls
<1>7. CASE Len(stack) > 0 /\ ~UNCHANGED vars
  <2>1. /\ Next /\ status = "running"
        /\ \A l \in 1..(Len(stack) - 1) : stack'[l] = stack[l]
        /\ Returned \/ Moved \/ Called
    BY <1>7, StackMoves, OnlyRunning
  <2>2. /\ Top.decl \in Decl /\ Top.pos \in Nat \ {0}
        /\ NextChild.decl = Top.decl /\ NextChild.phase = Top.phase
        /\ NextChild.pos = Top.pos + 1
        /\ Len(stack) \in 1..Len(stack) /\ Top = stack[Len(stack)]
    BY <1>7, NextIs
  <2>3. \A l \in 1..Len(stack) :
          KindOf(stack[l].decl) \in {"record", "union"} /\ stack[l].phase = "body" =>
            \A j \in 1..Len(Children(stack[l].decl)) :
              (j < IF l < Len(stack) THEN stack[l].pos - 1 ELSE stack[l].pos)
                => After(stack[l].decl, Children(stack[l].decl)[j])
    <3>1. \A l \in 1..Len(stack) :
            (IF l < Len(stack) THEN stack[l].pos - 1 ELSE stack[l].pos) \in Int
      BY <1>1
    <3>2. SUFFICES ASSUME NEW l \in 1..Len(stack),
                          KindOf(stack[l].decl) \in {"record", "union"},
                          stack[l].phase = "body"
                   PROVE  \A j \in 1..Len(Children(stack[l].decl)) :
                            (j < IF l < Len(stack) THEN stack[l].pos - 1 ELSE stack[l].pos)
                              => After(stack[l].decl, Children(stack[l].decl)[j])
      OBVIOUS
    <3>3. Prefix(stack[l].decl, IF l < Len(stack) THEN stack[l].pos - 1 ELSE stack[l].pos)
      BY <2>1, <3>2 DEF BodiesTaken
    <3>4. /\ stack[l].decl \in Decl
          /\ (IF l < Len(stack) THEN stack[l].pos - 1 ELSE stack[l].pos) \in Int
      BY <1>1, <3>1
    <3> QED
      BY <1>3, <3>3, <3>4
  <2>4. CASE k < Len(stack) /\ (Returned => k < Len(stack) - 1)
    <3>1. stack'[k] = stack[k] /\ k < Len(stack') /\ k \in 1..Len(stack)
      BY <1>1, <2>1, <2>4 DEF Returned, Moved, Called
    <3> QED
      BY <1>4, <2>3, <2>4, <3>1
  <2>5. CASE Returned /\ k = Len(stack) - 1
    <3>1. Len(stack) > 1 /\ stack'[k] = Caller /\ ~(k < Len(stack'))
          /\ k \in 1..Len(stack) /\ k < Len(stack) /\ Caller = stack[k]
      BY <1>1, <2>1, <2>5 DEF Returned, Caller
    <3>2. CASE i < Caller.pos - 1
      <4>1. /\ KindOf(Caller.decl) \in {"record", "union"} /\ Caller.phase = "body"
            /\ i \in 1..Len(Children(Caller.decl))
        BY <1>4, <3>1
      <4>2. After(Caller.decl, Children(Caller.decl)[i])
        BY <2>3, <3>1, <3>2, <4>1
      <4> QED
        BY <3>1, <4>2
    <3>3. CASE ~(i < Caller.pos - 1)
      <4>1. i = Caller.pos - 1
        <5>1. Caller.pos \in Nat /\ i \in Int
          BY <1>1, <3>1
        <5>2. i < Caller.pos
          BY <1>4, <3>1
        <5> QED
          BY <3>3, <5>1, <5>2
      <4>2. /\ Top.decl = Children(Caller.decl)[i] /\ Caller.decl \in Decl
            /\ Link(Caller, Top)
        BY <3>1, <4>1, CallerFacts DEF Link
      <4>3. KindOf(Caller.decl) \in {"record", "union"}
        BY <1>4, <3>1
      <4>4. PhaseFits(Top)
        BY <2>2 DEF AllWork, Working
      <4>5. InInterface => KindOf(Caller.decl) = "record" /\ StrategyOf(Caller.decl) = "INTERFACE"
        BY DEF InInterface
      <4>6. SUFFICES ASSUME Has(Top.decl, "emit"), ~Has(Top.decl, "overrides"),
                            Top.decl \notin threw'
                     PROVE  After(Caller.decl, Top.decl)
        BY <3>1, <4>2 DEF After
      <4>7. \/ AddsChild(Caller.decl, Top.decl)
            \/ Exempt(Caller.decl, Top.decl)
        BY <1>4, <2>1, <2>5, <3>1, <4>3, <4>4, <4>5, <4>6, LeavesBody DEF Returned, Exempt
      <4>8. Exempt(Caller.decl, Top.decl) => After(Caller.decl, Top.decl)
        BY DEF After
      <4> QED
        BY <2>2, <4>2, <4>7, <4>8, AddsTaken, AfterIs
    <3> QED
      BY <3>2, <3>3
  <2>6. CASE Moved /\ k = Len(stack)
    <3>1. stack'[k].decl = Top.decl /\ ~(k < Len(stack'))
      BY <1>1, <2>6 DEF Moved
    <3>2. CASE Top.phase # "body"
      BY <1>4, <2>6, <3>1, <3>2 DEF Moved
    <3>3. CASE Top.phase = "body"
      <4>1. /\ stack'[k] = NextChild /\ Step(NextChild)
            /\ Top.pos \in 1..Len(Children(Top.decl)) /\ CurrentChild \in Decl
        BY <2>6, <3>3 DEF Moved
      <4>2. CASE i < Top.pos
        BY <1>4, <2>2, <2>3, <2>6, <3>1, <3>3, <4>2
      <4>3. CASE ~(i < Top.pos)
        <5>1. i = Top.pos
          BY <1>4, <2>2, <3>1, <4>1, <4>3
        <5>2. Children(Top.decl)[i] = CurrentChild
          BY <5>1 DEF CurrentChild
        <5>3. \/ CurrentChild = Top.decl \/ ~Has(CurrentChild, "wrappable")
              \/ AddsChild(Top.decl, CurrentChild)
              \/ CurrentChild \in threw \/ Exempt(Top.decl, CurrentChild)
          BY <1>4, <1>7, <2>1, <3>1, <3>3, <4>1, PassedTaken
        <5>4. ASSUME \/ CurrentChild = Top.decl \/ ~Has(CurrentChild, "wrappable")
                     \/ CurrentChild \in threw \/ Exempt(Top.decl, CurrentChild)
              PROVE  After(Top.decl, CurrentChild)
          BY <5>4 DEF After, Remembers
        <5> QED
          BY <2>2, <3>1, <4>1, <5>2, <5>3, <5>4, AddsTaken, AfterIs
      <4> QED
        BY <4>2, <4>3
    <3> QED
      BY <3>2, <3>3
  <2>7. CASE Called /\ k = Len(stack)
    <3>1. stack'[k] = NextChild /\ k < Len(stack') /\ Top.pos + 1 - 1 = Top.pos
      BY <1>1, <2>2, <2>7 DEF Called
    <3> QED
      BY <1>4, <2>2, <2>3, <2>7, <3>1
  <2>8. CASE Called /\ k = Len(stack) + 1
    BY <1>4, <2>8 DEF Called
  <2>9. \/ k < Len(stack) /\ (Returned => k < Len(stack) - 1)
        \/ Returned /\ k = Len(stack) - 1
        \/ Moved /\ k = Len(stack)
        \/ Called /\ k = Len(stack)
        \/ Called /\ k = Len(stack) + 1
    <3>1. \A n \in Nat : \A l \in 1..(n - 1) : l < n - 1 \/ l = n - 1
      OBVIOUS
    <3>2. \A n \in Nat : \A l \in 1..n : l < n \/ l = n
      OBVIOUS
    <3>3. \A n \in Nat : \A l \in 1..(n + 1) : l < n \/ l = n \/ l = n + 1
      OBVIOUS
    <3> QED
      BY <1>1, <2>1, <3>1, <3>2, <3>3 DEF Returned, Moved, Called
  <2> QED
    BY <2>4, <2>5, <2>6, <2>7, <2>8, <2>9
<1> QED
  BY <1>1, <1>5, <1>6, <1>7

LEMMA BuiltStep ==
  ASSUME TypeInv, AllWork, BodiesTaken, BuiltTaken, Gathers, Remembers, [Next]_vars, prog' = prog
  PROVE  BuiltTaken'
<1>1. /\ \A d : KindOf(d)' = KindOf(d) /\ Children(d)' = Children(d)
      /\ \A d \in Decl : Children(d) \in Seq(Decl)
      /\ built \subseteq Decl
  BY LoneKept, ProgramFacts DEF TypeInv, TypeOK
<1>2. SUFFICES ASSUME NEW d \in built', KindOf(d) \in {"record", "union"}, d \in Decl,
                      NEW i \in 1..Len(Children(d))
               PROVE  Taken(d, Children(d)[i])
  <2>1. built' \subseteq Decl
    BY TypeStep DEF TypeInv, TypeOK
  <2> QED
    BY <1>1, <1>2, <2>1, TakenKept DEF BuiltTaken
<1>3. CASE d \in built
  BY <1>2, <1>3 DEF BuiltTaken
<1>4. CASE d \notin built
  <2>1. Next
    BY <1>2, <1>4 DEF vars, history
  <2>2. Len(stack) > 0 => Len(stack) \in 1..Len(stack) /\ Top = stack[Len(stack)] /\ PhaseFits(Top)
    BY NextIs DEF AllWork, Working
  <2>3. /\ Len(stack) > 0 /\ status = "running" /\ d = Top.decl
        /\ Top.phase = "body" /\ Top.pos > Len(Children(d))
    BY <1>2, <1>4, <2>1, <2>2, BuiltNew
  <2>4. Prefix(d, Top.pos)
    <3>1. ~(Len(stack) < Len(stack))
      BY DEF TypeInv, TypeOK
    <3> QED
      BY <1>2, <2>2, <2>3, <3>1 DEF BodiesTaken
  <2>5. i < Top.pos
    BY <1>1, <2>3, NextIs
  <2> QED
    BY <2>4, <2>5 DEF Prefix
<1> QED
  BY <1>3, <1>4

(* The fields of an interface never get a node.                            *)
FieldsNever ==
  \A d, c \in Decl :
    /\ IsChild(c, d) /\ KindOf(c) = "field"
    /\ KindOf(d) = "record" /\ StrategyOf(d) = "INTERFACE"
    => translated[c] = NoNode

LEMMA FieldsStep ==
  ASSUME TypeInv, CallsNest, FieldsNever, NodeStep, prog' = prog
  PROVE  FieldsNever'
<1>1. SUFFICES ASSUME NEW d \in Decl, NEW c \in Decl, IsChild(c, d), KindOf(c) = "field",
                      KindOf(d) = "record", StrategyOf(d) = "INTERFACE",
                      translated'[c] # NoNode
               PROVE  FALSE
  BY DEF FieldsNever, IsChild, Children, KindOf, StrategyOf
<1>2. translated[c] = NoNode /\ c # d
  BY <1>1 DEF FieldsNever
<1>3. StartClass(c) = NoNode
  BY <1>1 DEF StartClass
<1>4. ~(Len(stack) > 0 /\ KindOf(Top.decl) = "enum" /\ IsChild(c, Top.decl))
  <2>1. Len(stack) > 0 => Top.decl \in Decl
    BY NextIs
  <2> QED
    BY <1>1, <2>1, ChildKind
<1>5. ~(OwnNode /\ c = Top.decl)
  <2>1. SUFFICES ASSUME OwnNode, c = Top.decl
                 PROVE  FALSE
    OBVIOUS
  <2>2. ~IsFree(c)
    BY <1>1, <1>2, ChildNotFree
  <2>3. Len(stack) \in Nat /\ Len(stack) > 0
    BY <2>1 DEF OwnNode, TypeInv, TypeOK
  <2>4. Len(stack) > 1
    <3>1. Len(stack) = 1 => Root(Top, next)
      BY <2>3 DEF CallsNest, Top
    <3>2. Root(Top, next) => IsFree(c)
      BY <2>1 DEF Root, IsFree
    <3>3. Len(stack) # 1
      BY <2>2, <3>1, <3>2
    <3>4. \A n \in Nat : n > 0 /\ n # 1 => n > 1
      OBVIOUS
    <3> QED
      BY <2>3, <3>3, <3>4, Zenon
  <2>5. Caller.decl \in Decl /\ IsChild(c, Caller.decl) /\ c # Caller.decl
    BY <2>1, <2>4, CallerFacts
  <2>6. Caller.decl = d
    BY <1>1, <1>2, <2>5, OneParent
  <2> QED
    BY <1>1, <2>1, <2>4, <2>6 DEF OwnNode, InInterface
<1> QED
  BY <1>1, <1>2, <1>3, <1>4, <1>5, NodeNew

(* A member that should not be emitted: it was referred to, or the body    *)
(* comes to it again.                                                      *)
HiddenMembers ==
  \A d \in Decl : KindOf(d) # "enum" /\ WalkedOnce(d) =>
    \A i \in ChildSpots(d) :
      Has(members[d][i].decl, "emit") \/ members[d][i].decl \in started

LEMMA HiddenStep ==
  ASSUME TypeInv, CallsNest, Homes, Walked, HiddenMembers, MembersAtHome', Gathers, Remembers,
         prog' = prog
  PROVE  HiddenMembers'
<1>1. PICK V \in SUBSET Decl : Visited(V)
  BY DEF Walked
<1>2. SUFFICES ASSUME NEW d \in Decl, KindOf(d) # "enum", WalkedOnce(d),
                      NEW i \in ChildSpots(d)'
               PROVE  Has(members'[d][i].decl, "emit") \/ members'[d][i].decl \in started'
  BY WalkedOnceKept, ProgKept DEF HiddenMembers
<1>3. CASE ~(i > Len(members[d]))
  BY <1>2, <1>3, OldMember DEF HiddenMembers, Remembers
<1>4. CASE i > Len(members[d])
  <2>1. PICK c : c = members'[d][i].decl
    OBVIOUS
  <2>2. /\ c \in Decl
        /\ Delivers(d, c) \/ Keeps(d, c)
    BY <1>4, <2>1, MembersGrow DEF ChildSpots
  <2>3. CASE Delivers(d, c)
    BY <2>1, <2>3 DEF Delivers
  <2>4. CASE Keeps(d, c)
    <3>1. /\ Len(stack) > 0 /\ Top.phase = "body" /\ d = Top.decl /\ c = CurrentChild
          /\ Top.pos \in 1..Len(Children(d)) /\ translated[c] # NoNode
      BY <1>2, <2>4 DEF Keeps
    <3>2. IsChild(c, d)
      BY <3>1 DEF IsChild, CurrentChild
    <3>3. c # d
      <4>1. i \in 1..Len(members'[d]) /\ members'[d][i].role = "child"
        BY DEF ChildSpots
      <4> QED
        BY <2>1, <4>1 DEF MembersAtHome, AtParent
    <3>4. Lone(c)
      BY <1>2, <2>2, <3>2, WalkedLone
    <3>5. c \notin V
      BY <1>1, <3>1, <3>3, <3>4, CalledFirst
    <3>6. KindOf(c) # "enumerator"
      BY <1>2, <2>2, <3>2, ChildKind
    <3>7. c \in started
      BY <1>1, <2>2, <3>1, <3>5, <3>6 DEF Visited
    <3> QED
      BY <2>1, <3>7 DEF Remembers
  <2> QED
    BY <2>2, <2>3, <2>4
<1> QED
  BY <1>3, <1>4

(* What the proof of the completeness needs of every state.                *)
Gathered == BodiesTaken /\ BuiltTaken /\ FieldsNever /\ HiddenMembers

LEMMA GatheredInit == Init => Gathered
<1>1. SUFFICES ASSUME Init
               PROVE  Gathered
  OBVIOUS
<1>2. /\ Len(stack) = 0 /\ built = {} /\ \A d \in Decl : translated[d] = NoNode
      /\ \A d \in Decl : Len(members[d]) = 0
  BY <1>1 DEF Init
<1>3. \A d \in Decl : ChildSpots(d) = {}
  BY <1>2 DEF ChildSpots
<1> QED
  BY <1>2, <1>3 DEF Gathered, BodiesTaken, BuiltTaken, FieldsNever, HiddenMembers

LEMMA GatheredStep ==
  /\ TypeInv /\ CallsNest /\ PlacedOnce /\ Homes /\ Homes' /\ Table /\ InOrder /\ Gathered
  /\ [Next]_vars
  => Gathered'
<1>1. SUFFICES ASSUME TypeInv, CallsNest, PlacedOnce, Homes, Homes', Table, InOrder, Gathered,
                      [Next]_vars
               PROVE  Gathered'
  OBVIOUS
<1>2. NodeStep /\ StackStep /\ Gathers /\ prog' = prog
  BY <1>1, NodeSteps, StackSteps, GatherSteps
<1>3. /\ AllWork /\ StartsAtOne /\ Walked /\ Remembers /\ PlacedAtHome /\ MembersAtHome'
      /\ BodiesTaken /\ BuiltTaken /\ FieldsNever /\ HiddenMembers
  BY <1>1, <1>2 DEF Table, InOrder, NodeStep, Homes, Gathered
<1>4. BodiesTaken'
  BY <1>1, <1>2, <1>3, BodiesStep
<1>5. BuiltTaken'
  BY <1>1, <1>2, <1>3, BuiltStep
<1>6. FieldsNever'
  BY <1>1, <1>2, <1>3, FieldsStep
<1>7. HiddenMembers'
  BY <1>1, <1>2, <1>3, HiddenStep
<1> QED
  BY <1>4, <1>5, <1>6, <1>7 DEF Gathered

LEMMA MembersFollow == TypeInv /\ Table /\ Gathered => MembersComplete
<1>1. SUFFICES ASSUME TypeInv, Table, Gathered, NEW d \in built,
                      KindOf(d) \in {"record", "union"}, NEW c \in Decl \ {d},
                      IsChild(c, d), Has(c, "wrappable")
               PROVE  /\ Has(c, "emit") /\ translated[c] # NoNode /\ c \notin threw
                           /\ ~Has(c, "overrides")
                           => ChildAt(d, c) # {}
                      /\ ChildAt(d, c) # {} =>
                           Has(c, "emit") \/ c \in started \/ ~WalkedOnce(d)
  BY DEF MembersComplete
<1>2. d \in Decl
  BY <1>1 DEF TypeInv, TypeOK
<1>3. Taken(d, c)
  BY <1>1 DEF Gathered, BuiltTaken, IsChild
<1>4. translated[c] # NoNode => ~Exempt(d, c)
  BY <1>1, <1>2 DEF Gathered, FieldsNever, Table, Sane, Exempt, Barren
<1>5. ASSUME NEW i \in ChildAt(d, c), WalkedOnce(d)
      PROVE  Has(c, "emit") \/ c \in started
  <2>1. i \in ChildSpots(d) /\ members[d][i].decl = c
    BY DEF ChildAt, ChildSpots
  <2> QED
    BY <1>1, <1>2, <1>5, <2>1 DEF Gathered, HiddenMembers
<1> QED
  BY <1>1, <1>3, <1>4, <1>5 DEF Taken

(* The node of a record or union that was built has every child that got a *)
(* node without an exception, but for the methods an interface inherits,   *)
(* and a child that should not be emitted only if something referred to it *)
(* or the body came to it twice.  The proof counts along with the loop     *)
(* over the children what it has taken, while visitors below it return,    *)
(* throw or have no result.                                                *)
THEOREM MembersCompleteCorrect == Spec => []MembersComplete
<1>1. Init => PlacedOnce
  BY DEF Init, PlacedOnce
<1>2. TypeInv /\ PlacedOnce /\ [Next]_vars => PlacedOnce'
  BY EmittedSteps, PlacedOnceStep
<1>3. QED
  BY TypeInit, TypeStep, NestInit, NestAlways, HomesStep, TableInit, TableStep,
     InOrderInit, InOrderStep, GatheredInit, GatheredStep, MembersFollow, <1>1, <1>2, PTL DEF Spec
=============================================================================
