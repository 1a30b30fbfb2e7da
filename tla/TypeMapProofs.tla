----------------------------- MODULE TypeMapProofs -----------------------------
(***************************************************************************)
(* Proofs about TypeMap, for all programs: its type invariant; that        *)
(* Type::get finds the type that it has had traversed, and the getters the *)
(* parts of it; when an iterator at the end of the map is used; and that   *)
(* the depth of the recursion is bounded, whatever circles the types form. *)
(***************************************************************************)
EXTENDS TypeMap, Induction, SequenceTheorems, FiniteSetTheorems, TLAPS

-----------------------------------------------------------------------------
\* What the program says of one type.
LEMMA ProgramFacts ==
  ASSUME TypeOK, NEW t \in QType
  PROVE  /\ KindOf(t) \in Kind
         /\ Inner(t) \in QType \cup {NullType}
         /\ Parts(t) \in Seq(QType)
         /\ program.members[t] \in Seq(QType)
BY DEF TypeOK, Program, KindOf, Inner, Parts

LEMMA EachTyped ==
  ASSUME NEW op \in Op, NEW ts \in Seq(QType)
  PROVE  Each(op, ts) \in Seq(Part)
<1>1. DOMAIN ts = 1 .. Len(ts) /\ Len(ts) \in Nat
  BY LenProperties
<1>2. \A i \in 1 .. Len(ts) : Step(op, ts[i]) \in Part
  BY ElementOfSeq DEF Step, Part
<1>3. Each(op, ts) \in [1 .. Len(ts) -> Part]
  BY <1>1, <1>2 DEF Each
<1> QED
  BY <1>1, <1>3, SeqDef

LEMMA StepsTyped ==
  ASSUME TypeOK, NEW t \in QType, NEW a \in Op, NEW b \in Op, NEW c \in Op
  PROVE  /\ << Step(a, Inner(t)) >> \in Seq(Part)
         /\ << Step(a, Inner(t)), Step(b, Inner(t)) >> \in Seq(Part)
         /\ << Step(a, Inner(t)), Step(b, Inner(t)), Step(c, Inner(t)) >> \in Seq(Part)
BY ProgramFacts DEF Step, Part

LEMMA TodoTyped ==
  ASSUME TypeOK, NEW t \in QType
  PROVE  Todo(t) \in Seq(Part)
<1> DEFINE Decl == IF t \in traversed THEN << >> ELSE Each("get", program.members[t])
           One(a) == << Step(a, Inner(t)) >>
           Two(a, b) == << Step(a, Inner(t)), Step(b, Inner(t)) >>
           Three(a, b, c) == << Step(a, Inner(t)), Step(b, Inner(t)), Step(c, Inner(t)) >>
<1>1. /\ Each("same", Parts(t)) \in Seq(Part)
      /\ Each("new", Parts(t)) \in Seq(Part)
      /\ Decl \in Seq(Part)
      /\ << >> \in Seq(Part)
  BY ProgramFacts, EachTyped, EmptySeq DEF Op
<1>2. /\ One("new") \in Seq(Part) /\ One("same") \in Seq(Part)
      /\ Two("same", "alias") \in Seq(Part) /\ Two("get", "alias") \in Seq(Part)
      /\ Three("same", "get late", "alias") \in Seq(Part)
      /\ Three("get", "alias", "same") \in Seq(Part)
  BY StepsTyped DEF Op
<1>3. /\ One("new") \o Each("same", Parts(t)) \in Seq(Part)
      /\ Decl \o Each("new", Parts(t)) \in Seq(Part)
      /\ Two("same", "alias") \o Each("same", Parts(t)) \in Seq(Part)
      /\ Two("get", "alias") \o Each("same", Parts(t)) \in Seq(Part)
  <2> HIDE DEF One, Two, Decl
  <2> QED
    BY <1>1, <1>2, ConcatProperties
<1> QED
  BY <1>1, <1>2, <1>3 DEF Todo

LEMMA LastOfThree ==
  ASSUME NEW a, NEW b, NEW c
  PROVE  3 \in DOMAIN << a, b, c >> /\ << a, b, c >>[3] = c
OBVIOUS

\* A type that only stands for another has an alias among its steps.
LEMMA SugarIsAliased ==
  ASSUME TypeOK, NEW t \in QType, KindOf(t) \in Sugar
  PROVE  \E i \in DOMAIN Todo(t) : Todo(t)[i].op = "alias"
<1> DEFINE Two(a, b) == << Step(a, Inner(t)), Step(b, Inner(t)) >>
           Same == Each("same", Parts(t))
<1>1. /\ Same \in Seq(Part)
      /\ Two("same", "alias") \in Seq(Part) /\ Two("get", "alias") \in Seq(Part)
  BY ProgramFacts, EachTyped, StepsTyped DEF Op
<1>2. ASSUME NEW a \in Op, Two(a, "alias") \in Seq(Part)
      PROVE  /\ 2 \in DOMAIN (Two(a, "alias") \o Same)
             /\ (Two(a, "alias") \o Same)[2].op = "alias"
  <2> DEFINE s == Two(a, "alias")
  <2>1. Len(s) = 2 /\ s[2].op = "alias" /\ s \in Seq(Part)
    BY <1>2 DEF Step
  <2>2. /\ s \o Same \in Seq(Part)
        /\ Len(s \o Same) = Len(s) + Len(Same)
        /\ \A i \in 1 .. Len(s) + Len(Same) :
             (s \o Same)[i] = IF i <= Len(s) THEN s[i] ELSE Same[i - Len(s)]
    <3> HIDE DEF s, Same
    <3> QED
      BY <1>1, <2>1, ConcatProperties
  <2>3. Len(Same) \in Nat /\ DOMAIN (s \o Same) = 1 .. Len(s \o Same)
    <3> HIDE DEF s, Same
    <3> QED
      BY <1>1, <2>2, LenProperties
  <2> HIDE DEF s, Same
  <2>4. 2 \in 1 .. Len(s) + Len(Same)
    BY <2>1, <2>3
  <2>5. (s \o Same)[2] = s[2]
    BY <2>1, <2>2, <2>4
  <2> QED
    BY <2>1, <2>2, <2>3, <2>4, <2>5 DEF s
<1>3. CASE KindOf(t) = "Restrict"
  <2>1. Todo(t) = << Step("same", Inner(t)), Step("get late", Inner(t)),
                     Step("alias", Inner(t)) >>
    BY <1>3 DEF Todo, Around, Records, Found, Gotten
  <2>2. 3 \in DOMAIN Todo(t) /\ Todo(t)[3] = Step("alias", Inner(t))
    <3> DEFINE a == Step("same", Inner(t))
               b == Step("get late", Inner(t))
               c == Step("alias", Inner(t))
    <3>1. Todo(t) = << a, b, c >>
      BY <2>1
    <3> HIDE DEF a, b, c
    <3>2. 3 \in DOMAIN << a, b, c >> /\ << a, b, c >>[3] = c
      BY LastOfThree
    <3>3. 3 \in DOMAIN Todo(t) /\ Todo(t)[3] = c
      BY <3>1, <3>2
    <3> QED
      BY <3>3 DEF c
  <2> QED
    BY <2>2 DEF Step
<1>4. CASE KindOf(t) \in Found
  <2>1. Todo(t) = Two("same", "alias") \o Same
    BY <1>4 DEF Todo, Around, Records, Found, Gotten
  <2> QED
    BY <1>1, <1>2, <2>1 DEF Op
<1>5. CASE KindOf(t) = "Elaborated"
  <2>1. Todo(t) = Two("get", "alias") \o Same
    BY <1>5 DEF Todo, Around, Records, Found, Gotten
  <2> QED
    BY <1>1, <1>2, <2>1 DEF Op
<1>6. CASE KindOf(t) = "Auto"
  <2>1. Todo(t) = << Step("get", Inner(t)), Step("alias", Inner(t)),
                     Step("same", Inner(t)) >>
    BY <1>6 DEF Todo, Around, Records, Found, Gotten
  <2> QED
    BY <2>1 DEF Step
<1>7. CASE KindOf(t) \in Gotten \ {"Elaborated", "Auto"}
  <2>1. Todo(t) = Two("get", "alias")
    BY <1>7 DEF Todo, Around, Records, Found, Gotten
  <2> QED
    BY <2>1 DEF Step
<1> QED
  BY <1>3, <1>4, <1>5, <1>6, <1>7 DEF Sugar, Gotten

-----------------------------------------------------------------------------
(***************************************************************************)
(* The inductive invariant, of the calls and the map: a call of Type::get  *)
(* has made its type's object or is to enter it yet, and a call waits for  *)
(* the one above it to do what is next in its list.                        *)
(***************************************************************************)
HasAlias(call) == \E i \in DOMAIN call.todo : call.todo[i].op = "alias"

Placing(call, map) ==
  call.how \in {"get", "get late"} => map[call.type] # "unmapped" \/ HasAlias(call)

Fits(call, below) == below.todo # << >> /\ Head(below.todo).op = call.how

Calls(calls, map) ==
  \A n \in 1 .. Len(calls) :
    /\ calls[n].how # "alias"
    /\ Placing(calls[n], map)
    /\ IF n = 1 THEN calls[n].how = "get" ELSE Fits(calls[n], calls[n - 1])

IInv == TypeOK /\ Calls(frames, type_map) /\ AlwaysPlaced

\* A map that has what another has, and perhaps more.
Grows(map, new) == \A u \in QType : map[u] # "unmapped" => new[u] # "unmapped"

LEMMA CallsGrow ==
  ASSUME NEW calls \in Seq(Frame), NEW map, NEW new, Grows(map, new), Calls(calls, map)
  PROVE  Calls(calls, new)
<1>1. ASSUME NEW n \in 1 .. Len(calls)
      PROVE  Placing(calls[n], new)
  <2>1. calls[n] \in Frame
    BY ElementOfSeq
  <2>2. calls[n].type \in QType
    BY <2>1 DEF Frame
  <2>3. Placing(calls[n], map)
    BY DEF Calls
  <2> QED
    BY <2>2, <2>3 DEF Placing, Grows
<1> QED
  BY <1>1 DEF Calls

LEMMA NoCalls == << >> \in Seq(Frame) /\ \A map : Calls(<< >>, map)
BY DEF Calls

\* A new call on top of the others.
LEMMA CallsPushed ==
  ASSUME NEW calls \in Seq(Frame), NEW map, Calls(calls, map),
         NEW call \in Frame, Placing(call, map), call.how # "alias",
         IF calls = << >> THEN call.how = "get" ELSE Fits(call, calls[Len(calls)])
  PROVE  Append(calls, call) \in Seq(Frame) /\ Calls(Append(calls, call), map)
<1> DEFINE new == Append(calls, call)
<1>1. /\ new \in Seq(Frame) /\ Len(new) = Len(calls) + 1
      /\ new[Len(calls) + 1] = call
      /\ \A i \in 1 .. Len(calls) : new[i] = calls[i]
      /\ Len(calls) \in Nat
      /\ calls = << >> <=> Len(calls) = 0
  OBVIOUS
<1> HIDE DEF new
<1>2. SUFFICES ASSUME NEW n \in 1 .. Len(new)
               PROVE  /\ new[n].how # "alias"
                      /\ Placing(new[n], map)
                      /\ IF n = 1 THEN new[n].how = "get" ELSE Fits(new[n], new[n - 1])
  BY <1>1 DEF Calls, new
<1>3. CASE n \in 1 .. Len(calls)
  <2>1. new[n] = calls[n] /\ (n # 1 => new[n - 1] = calls[n - 1])
    BY <1>1, <1>3
  <2> QED
    BY <1>3, <2>1 DEF Calls
<1>4. CASE n = Len(calls) + 1
  <2>1. new[n] = call /\ (n # 1 => new[n - 1] = calls[Len(calls)])
    BY <1>1, <1>4
  <2>2. n = 1 <=> calls = << >>
    BY <1>1, <1>4
  <2> QED
    BY <2>1, <2>2
<1> QED
  BY <1>1, <1>3, <1>4

\* Another list of things to do for the call on top.
LEMMA CallsStepped ==
  ASSUME NEW calls \in Seq(Frame), calls # << >>, NEW map, Calls(calls, map),
         NEW call \in Frame, call.how = calls[Len(calls)].how, Placing(call, map)
  PROVE  /\ [calls EXCEPT ![Len(calls)] = call] \in Seq(Frame)
         /\ Calls([calls EXCEPT ![Len(calls)] = call], map)
<1> DEFINE new == [calls EXCEPT ![Len(calls)] = call]
<1>1. Len(calls) \in Nat /\ Len(calls) \in 1 .. Len(calls)
  BY EmptySeq
<1>2. /\ new \in Seq(Frame) /\ Len(new) = Len(calls)
      /\ \A j \in 1 .. Len(calls) : new[j] = IF j = Len(calls) THEN call ELSE calls[j]
  <2>1. \A seq \in Seq(Frame) : \A i \in 1 .. Len(seq) : \A e \in Frame :
          /\ [seq EXCEPT ![i] = e] \in Seq(Frame) /\ Len([seq EXCEPT ![i] = e]) = Len(seq)
          /\ \A j \in 1 .. Len(seq) : [seq EXCEPT ![i] = e][j] = IF j = i THEN e ELSE seq[j]
    BY ExceptSeq
  <2> QED
    BY <1>1, <2>1, ZenonT(60)
<1> HIDE DEF new
<1>3. SUFFICES ASSUME NEW n \in 1 .. Len(calls)
               PROVE  /\ new[n].how # "alias"
                      /\ Placing(new[n], map)
                      /\ IF n = 1 THEN new[n].how = "get" ELSE Fits(new[n], new[n - 1])
  BY <1>2, Zenon DEF Calls, new
<1>4. new[n].how = calls[n].how /\ (n # 1 => new[n - 1] = calls[n - 1])
  BY <1>1, <1>2
<1>5. Placing(new[n], map)
  BY <1>2 DEF Calls
<1> QED
  BY <1>4, <1>5 DEF Calls, Fits

\* A call returns to those below it.
LEMMA CallsPopped ==
  ASSUME NEW calls \in Seq(Frame), calls # << >>, NEW map, Calls(calls, map),
         NEW below \in Seq(Frame), Len(below) = Len(calls) - 1,
         \A i \in 1 .. Len(below) : below[i] = calls[i]
  PROVE  Calls(below, map)
<1>1. Len(calls) \in Nat /\ Len(below) \in Nat
  BY LenProperties
<1>2. \A n \in 1 .. Len(below) : n \in 1 .. Len(calls) /\ (n # 1 => n - 1 \in 1 .. Len(below))
  BY <1>1
<1> QED
  BY <1>2 DEF Calls

-----------------------------------------------------------------------------
\* The call on top, and those below it.
LEMMA TopFacts ==
  ASSUME IInv, frames # << >>
  PROVE  /\ frames \in Seq(Frame)
         /\ Len(frames) \in Nat \ {0}
         /\ Top \in Frame /\ Placing(Top, type_map)
         /\ Top.todo # << >> => Current \in Part
         /\ Below \in Seq(Frame) /\ Len(Below) = Len(frames) - 1
         /\ \A i \in 1 .. Len(Below) : Below[i] = frames[i]
         /\ Calls(Below, type_map)
         /\ IF Below = << >> THEN Top.how = "get"
             ELSE /\ Below[Len(Below)] \in Frame
                  /\ Placing(Below[Len(Below)], type_map)
                  /\ Fits(Top, Below[Len(Below)])
         /\ Top.how # "alias"
<1>1. frames \in Seq(Frame) /\ Len(frames) \in Nat \ {0}
  BY EmptySeq DEF IInv, TypeOK
<1>2. Top \in Frame
  BY <1>1, ElementOfSeq DEF Top
<1>3. Top.todo # << >> => Current \in Part
  BY <1>2, HeadTailProperties DEF Current, Frame
<1>4. /\ Below \in Seq(Frame) /\ Len(Below) = Len(frames) - 1
      /\ \A i \in 1 .. Len(Below) : Below[i] = frames[i]
  <2> DEFINE m == Len(frames) - 1
  <2>1. m \in Nat /\ 1 \in Int
    BY <1>1
  <2>2. \A i \in 1 .. m : frames[i] \in Frame
    BY <1>1, ElementOfSeq
  <2> HIDE DEF m
  <2>3. /\ SubSeq(frames, 1, m) \in Seq(Frame)
        /\ Len(SubSeq(frames, 1, m)) = IF 1 <= m THEN m - 1 + 1 ELSE 0
        /\ \A i \in 1 .. m - 1 + 1 : SubSeq(frames, 1, m)[i] = frames[1 + i - 1]
    BY <2>1, <2>2, SubSeqProperties
  <2>4. m - 1 + 1 = m /\ \A i \in 1 .. m : 1 + i - 1 = i
    BY <2>1
  <2>5. /\ SubSeq(frames, 1, m) \in Seq(Frame)
        /\ Len(SubSeq(frames, 1, m)) = m
        /\ \A i \in 1 .. m : SubSeq(frames, 1, m)[i] = frames[i]
    BY <2>1, <2>3, <2>4
  <2> QED
    BY <2>5 DEF Below, m
<1>5. Calls(frames, type_map)
  BY DEF IInv
<1>6. Calls(Below, type_map)
  BY <1>1, <1>4, <1>5, CallsPopped
<1>7. Placing(Top, type_map) /\ Top.how # "alias"
  BY <1>1, <1>5 DEF Calls, Top
<1>8. CASE Below = << >>
  <2>1. Len(frames) = 1
    BY <1>1, <1>4, <1>8
  <2> QED
    BY <1>1, <1>2, <1>3, <1>4, <1>5, <1>6, <1>7, <1>8, <2>1 DEF Calls, Top
<1>9. CASE Below # << >>
  <2>1. Len(Below) \in 1 .. Len(Below) /\ Len(frames) # 1 /\ Len(frames) - 1 = Len(Below)
    BY <1>1, <1>4, <1>9, EmptySeq
  <2>2. Below[Len(Below)] = frames[Len(frames) - 1]
    BY <1>4, <2>1
  <2>3. Fits(Top, Below[Len(Below)])
    BY <1>1, <1>5, <2>1, <2>2 DEF Calls, Top
  <2>4. Below[Len(Below)] \in Frame /\ Placing(Below[Len(Below)], type_map)
    BY <1>4, <1>6, <2>1, ElementOfSeq DEF Calls
  <2> QED
    BY <1>1, <1>2, <1>3, <1>4, <1>6, <1>7, <1>9, <2>3, <2>4
<1> QED
  BY <1>8, <1>9

\* A step leaves a call with the rest of its list.
LEMMA SteppedFacts ==
  ASSUME NEW call \in Frame, call.todo # << >>, NEW r \in BOOLEAN, NEW s \in BOOLEAN
  PROVE  /\ Stepped(call, r, s) \in Frame
         /\ Stepped(call, r, s).how = call.how
         /\ Stepped(call, r, s).type = call.type
         /\ Head(call.todo).op # "alias" /\ HasAlias(call) => HasAlias(Stepped(call, r, s))
<1>1. /\ call.todo \in Seq(Part)
      /\ Tail(call.todo) \in Seq(Part)
      /\ Len(Tail(call.todo)) = Len(call.todo) - 1
      /\ \A i \in 1 .. Len(Tail(call.todo)) : Tail(call.todo)[i] = call.todo[i + 1]
      /\ Len(call.todo) \in Nat
  BY HeadTailProperties, LenProperties DEF Frame
<1>2. Stepped(call, r, s) \in Frame
  BY <1>1 DEF Stepped, Frame
<1>3. /\ Stepped(call, r, s).how = call.how
      /\ Stepped(call, r, s).type = call.type
      /\ Stepped(call, r, s).todo = Tail(call.todo)
  BY DEF Stepped, Frame
<1>4. ASSUME Head(call.todo).op # "alias", NEW i \in DOMAIN call.todo,
             call.todo[i].op = "alias"
      PROVE  \E j \in DOMAIN Tail(call.todo) : Tail(call.todo)[j].op = "alias"
  <2>1. i \in 1 .. Len(call.todo)
    BY <1>1, <1>4
  <2>2. i # 1
    BY <1>4 DEF Frame
  <2>3. i - 1 \in 1 .. Len(Tail(call.todo)) /\ i - 1 + 1 = i
    BY <1>1, <2>1, <2>2
  <2>4. Tail(call.todo)[i - 1] = call.todo[i]
    BY <1>1, <2>3
  <2>5. DOMAIN Tail(call.todo) = 1 .. Len(Tail(call.todo))
    BY <1>1, LenProperties
  <2> QED
    BY <1>4, <2>3, <2>4, <2>5
<1> QED
  BY <1>2, <1>3, <1>4 DEF HasAlias

-----------------------------------------------------------------------------
MapType == [QType -> { u \in QType : KindOf(u) \notin Sugar } \cup {NullType, "unmapped"}]

\* An object is entered for a type that is no sugar, and nothing is taken away.
LEMMA PlaceFacts ==
  ASSUME TypeOK, NEW t \in QType, NEW set \in BOOLEAN
  PROVE  /\ Place(t, set) \in MapType
         /\ Grows(type_map, Place(t, set))
         /\ Places(t, set) => Place(t, set)[t] # "unmapped"
<1>1. Places(t, set) => KindOf(t) \notin Sugar
  BY DEF Places, Sugar, Object, Invalid, Records, Around, Failing, Found, Gotten
<1>2. t # "unmapped"
  BY TypeMapAssumption
<1>3. type_map \in MapType
  BY DEF TypeOK, MapType
<1>4. CASE Places(t, set)
  <2>1. Place(t, set) = [type_map EXCEPT ![t] = t]
    BY <1>4 DEF Place
  <2> QED
    BY <1>1, <1>2, <1>3, <1>4, <2>1 DEF Grows, MapType
<1>5. CASE ~Places(t, set)
  <2>1. Place(t, set) = type_map
    BY <1>5 DEF Place
  <2> QED
    BY <1>3, <1>5, <2>1 DEF Grows
<1> QED
  BY <1>4, <1>5

\* The visitor of a Type::get begins without an object.
Begun(how, set) == how \in {"get", "get late"} => ~set

\* A call that begins, of Type::get or of a visitor.
LEMMA CallFacts ==
  ASSUME TypeOK, NEW t \in QType, NEW how \in Op, NEW set \in BOOLEAN,
         NEW policy \in BOOLEAN, Begun(how, set),
         KindOf(t) = "Other" => set
  PROVE  /\ Call(t, how, set, policy) \in Frame
         /\ Call(t, how, set, policy).how = how
         /\ Placing(Call(t, how, set, policy), Place(t, set))
<1>1. Todo(t) \in Seq(Part)
  BY TodoTyped
<1>2. Places(t, set) \in BOOLEAN
  BY DEF Places
<1>3. Call(t, how, set, policy) \in Frame
  BY <1>1, <1>2 DEF Call, Frame
<1>4. /\ Call(t, how, set, policy).how = how
      /\ Call(t, how, set, policy).type = t
      /\ Call(t, how, set, policy).todo = Todo(t)
  BY DEF Call
<1>5. ASSUME how \in {"get", "get late"}
      PROVE  Place(t, set)[t] # "unmapped" \/ \E i \in DOMAIN Todo(t) : Todo(t)[i].op = "alias"
  <2>1. KindOf(t) \in Kind \ {"Other"} /\ ~set
    BY <1>5, ProgramFacts DEF Begun
  <2>2. CASE KindOf(t) \in Sugar
    BY <2>2, SugarIsAliased
  <2>3. CASE KindOf(t) \in Object \cup Invalid \cup Records
    BY <2>1, <2>3, PlaceFacts DEF Places
  <2> QED
    BY <2>1, <2>2, <2>3 DEF Kind
<1> QED
  BY <1>3, <1>4, <1>5 DEF Placing, HasAlias

\* The invariant where the program goes on and only the calls and the map change.
LEMMA Preserved ==
  ASSUME IInv, UNCHANGED program, frames' \in Seq(Frame),
         type_map' \in MapType, Calls(frames', type_map'),
         traversed' \subseteq QType, requested' \in 0 .. Len(program.roots),
         reached' \subseteq QType, outcome' \in Outcome, outcome' # "not placed"
  PROVE  IInv'
<1>1. \A u \in QType : KindOf(u)' = KindOf(u)
  BY DEF KindOf
<1>2. program' \in Program /\ WellFormed(program')
  BY DEF IInv, TypeOK
<1>3. TypeOK'
  BY <1>1, <1>2 DEF TypeOK, MapType
<1> QED
  BY <1>3 DEF IInv, AlwaysPlaced, Calls, Placing, Fits, HasAlias

\* A traversal begins: the new call is on top of the others, or all is over.
LEMMA TraverseKeeps ==
  ASSUME IInv, NEW t \in QType, NEW how \in Op \ {"alias"},
         NEW set \in BOOLEAN, NEW policy \in BOOLEAN,
         NEW below \in Seq(Frame), Calls(below, type_map),
         Begun(how, set),
         below = << >> => how = "get",
         below # << >> => Fits(Call(t, how, set, policy), below[Len(below)]),
         TraverseType(t, how, set, policy, below),
         UNCHANGED program,
         requested' \in 0 .. Len(program.roots), reached' \subseteq QType
  PROVE  IInv'
<1> DEFINE call == Call(t, how, set, policy)
<1>1. type_map' = Place(t, set) /\ traversed' \subseteq QType
  BY DEF TraverseType, IInv, TypeOK
<1>2. \/ frames' = << >> /\ outcome' \in {"overflow", "no policy", "terminated"}
      \/ /\ frames' = Append(below, call) /\ outcome' = outcome
         /\ KindOf(t) = "Other" => set
  BY DEF TraverseType, End
<1>3. type_map' \in MapType /\ Grows(type_map, Place(t, set))
  BY <1>1, PlaceFacts DEF IInv
<1>4. CASE frames' = << >> /\ outcome' \in {"overflow", "no policy", "terminated"}
  <2>1. << >> \in Seq(Frame) /\ \A map : Calls(<< >>, map)
    BY NoCalls
  <2>2. outcome' \in Outcome /\ outcome' # "not placed"
    BY <1>4 DEF Outcome
  <2> QED
    BY <1>1, <1>3, <1>4, <2>1, <2>2, Preserved
<1>5. CASE /\ frames' = Append(below, call) /\ outcome' = outcome
           /\ KindOf(t) = "Other" => set
  <2>1. /\ call \in Frame /\ call.how = how
        /\ Placing(call, Place(t, set))
    <3>1. TypeOK
      BY DEF IInv
    <3>2. how \in Op /\ Begun(how, set) /\ (KindOf(t) = "Other" => set)
      BY <1>5
    <3>3. /\ Call(t, how, set, policy) \in Frame
          /\ Call(t, how, set, policy).how = how
          /\ Placing(Call(t, how, set, policy), Place(t, set))
      BY <3>1, <3>2, CallFacts
    <3> QED
      BY <3>3
  <2>2. Calls(below, Place(t, set))
    BY <1>3, CallsGrow
  <2>3. Append(below, call) \in Seq(Frame) /\ Calls(Append(below, call), Place(t, set))
    <3>1. IF below = << >> THEN call.how = "get" ELSE Fits(call, below[Len(below)])
      BY <2>1
    <3>2. call.how # "alias"
      BY <2>1
    <3> HIDE DEF call
    <3> QED
      BY <2>1, <2>2, <3>1, <3>2, CallsPushed
  <2>4. outcome' \in Outcome /\ outcome' # "not placed"
    BY <1>5 DEF IInv, TypeOK, AlwaysPlaced
  <2> QED
    BY <1>1, <1>3, <1>5, <2>3, <2>4, Preserved
<1> QED
  BY <1>2, <1>4, <1>5

\* The call on the top of some calls makes a step.
LEMMA StepKeeps ==
  ASSUME NEW calls \in Seq(Frame), calls # << >>, NEW old, Calls(calls, old),
         NEW map, Grows(old, map), NEW r \in BOOLEAN, NEW s \in BOOLEAN,
         calls[Len(calls)] \in Frame, calls[Len(calls)].todo # << >>,
         Head(calls[Len(calls)].todo).op = "alias" =>
           map[calls[Len(calls)].type] # "unmapped"
  PROVE  /\ [calls EXCEPT ![Len(calls)] = Stepped(@, r, s)] \in Seq(Frame)
         /\ Calls([calls EXCEPT ![Len(calls)] = Stepped(@, r, s)], map)
<1> DEFINE top == calls[Len(calls)]
           call == Stepped(top, r, s)
<1>1. Calls(calls, map)
  BY CallsGrow
<1>2. Len(calls) \in 1 .. Len(calls)
  BY EmptySeq
<1>3. Placing(top, map)
  BY <1>1, <1>2 DEF Calls
<1>4. /\ call \in Frame /\ call.how = top.how /\ call.type = top.type
      /\ Head(top.todo).op # "alias" /\ HasAlias(top) => HasAlias(call)
  <2> HIDE DEF call, top
  <2>1. top \in Frame /\ top.todo # << >>
    BY DEF top
  <2> QED
    BY <2>1, SteppedFacts DEF call
<1>5. Placing(call, map)
  <2> HIDE DEF call
  <2> QED
    BY <1>3, <1>4 DEF Placing
<1>6. [calls EXCEPT ![Len(calls)] = Stepped(@, r, s)] = [calls EXCEPT ![Len(calls)] = call]
  OBVIOUS
<1>7. /\ [calls EXCEPT ![Len(calls)] = call] \in Seq(Frame)
      /\ Calls([calls EXCEPT ![Len(calls)] = call], map)
  <2>1. call \in Frame /\ call.how = calls[Len(calls)].how
    BY <1>4
  <2> HIDE DEF call, top
  <2> QED
    BY <1>1, <1>5, <2>1, CallsStepped
<1> QED
  BY <1>6, <1>7

\* What most steps leave alone.
LEMMA Untouched ==
  ASSUME IInv
  PROVE  /\ type_map \in MapType /\ Calls(frames, type_map)
         /\ traversed \subseteq QType /\ reached \subseteq QType
         /\ requested \in 0 .. Len(program.roots)
         /\ outcome \in Outcome /\ outcome # "not placed"
         /\ program \in Program
         /\ Grows(type_map, type_map)
BY DEF IInv, TypeOK, MapType, AlwaysPlaced, Grows

LEMMA StepTopKeeps ==
  ASSUME IInv, frames # << >>, Top.todo # << >>, NEW r \in BOOLEAN, NEW s \in BOOLEAN,
         NEW map \in MapType, Grows(type_map, map),
         Current.op = "alias" => map[Top.type] # "unmapped",
         StepTop(r, s), type_map' = map,
         UNCHANGED << program, traversed, requested, reached, outcome >>
  PROVE  IInv'
<1>1. frames \in Seq(Frame) /\ Top \in Frame /\ Calls(frames, type_map)
  BY TopFacts, Untouched
<1>2. /\ [frames EXCEPT ![Len(frames)] = Stepped(@, r, s)] \in Seq(Frame)
      /\ Calls([frames EXCEPT ![Len(frames)] = Stepped(@, r, s)], map)
  BY <1>1, StepKeeps DEF Top, Current
<1> QED
  BY <1>2, Untouched, Preserved DEF StepTop

LEMMA EndKeeps ==
  ASSUME IInv, NEW how \in Outcome \ {"not placed"}, End(how),
         UNCHANGED << program, type_map, traversed, requested, reached >>
  PROVE  IInv'
BY Untouched, NoCalls, Preserved DEF End

\* A call returns, to the one that waits for it.
LEMMA ReturnKeeps ==
  ASSUME IInv, frames # << >>, NEW r \in BOOLEAN, NEW s \in BOOLEAN, Below # << >>,
         frames' = [Below EXCEPT ![Len(Below)] = Stepped(@, r, s)],
         UNCHANGED << program, type_map, traversed, requested, reached, outcome >>
  PROVE  IInv'
<1>1. /\ Below \in Seq(Frame) /\ Calls(Below, type_map)
      /\ Below[Len(Below)] \in Frame
      /\ Fits(Top, Below[Len(Below)]) /\ Top.how # "alias"
  BY TopFacts
<1>2. /\ Below[Len(Below)].todo # << >>
      /\ Head(Below[Len(Below)].todo).op # "alias"
  BY <1>1 DEF Fits
<1>3. /\ [Below EXCEPT ![Len(Below)] = Stepped(@, r, s)] \in Seq(Frame)
      /\ Calls([Below EXCEPT ![Len(Below)] = Stepped(@, r, s)], type_map)
  BY <1>1, <1>2, Untouched, StepKeeps
<1> QED
  BY <1>3, Untouched, Preserved

-----------------------------------------------------------------------------
\* A type that the translation asks a type for is a type.
LEMMA ComponentsTyped ==
  ASSUME TypeOK, NEW t \in QType, NEW i \in DOMAIN Components(t)
  PROVE  Components(t)[i] \in QType
<1>1. /\ Inner(t) \in QType \cup {NullType}
      /\ Parts(t) \in Seq(QType)
      /\ KindOf(t) \in Around \cup {"Const", "FunctionProto"} => Inner(t) \in QType
  <2>1. WellFormed(program)
    BY DEF TypeOK
  <2> QED
    BY <2>1, ProgramFacts DEF WellFormed, KindOf, Inner
<1> DEFINE One == << Inner(t) >>
<1>2. Inner(t) \in QType => One \in Seq(QType) /\ One \o Parts(t) \in Seq(QType)
  <2>1. Inner(t) \in QType => One \in Seq(QType)
    OBVIOUS
  <2> HIDE DEF One
  <2> QED
    BY <1>1, <2>1, ConcatProperties
<1>3. Components(t) \in Seq(QType)
  BY <1>1, <1>2, EmptySeq DEF Components
<1> QED
  BY <1>3, ElementOfSeq, LenProperties

LEMMA GetKeeps ==
  ASSUME IInv, frames = << >>, NEW t \in QType, NEW policy \in BOOLEAN, Get(t, policy),
         UNCHANGED program,
         requested' \in 0 .. Len(program.roots), reached' \subseteq QType
  PROVE  IInv'
<1>1. CASE Mapped(t)
  <2>1. UNCHANGED << type_map, traversed, frames, outcome >>
    BY <1>1 DEF Get
  <2>2. frames \in Seq(Frame)
    BY DEF IInv, TypeOK
  <2> QED
    BY <2>1, <2>2, Untouched, Preserved
<1>2. CASE ~Mapped(t)
  <2>1. TraverseType(t, "get", FALSE, policy, << >>)
    BY <1>2 DEF Get
  <2>2. << >> \in Seq(Frame) /\ Calls(<< >>, type_map)
    BY NoCalls
  <2>3. "get" \in Op \ {"alias"} /\ FALSE \in BOOLEAN /\ Begun("get", FALSE)
    BY DEF Op, Begun
  <2> QED
    BY <2>1, <2>2, <2>3, TraverseKeeps
<1> QED
  BY <1>1, <1>2

LEMMA TraversePreserves ==
  ASSUME IInv, Traverse
  PROVE  IInv'
<1>1. type_map \in MapType /\ Grows(type_map, type_map)
  BY Untouched
<1>2. CASE SkipPart
  <2>1. Current.op # "alias"
    BY <1>2 DEF SkipPart, Regardless
  <2> QED
    BY <1>1, <1>2, <2>1, StepTopKeeps DEF SkipPart
<1>3. CASE KnownPart
  <2>1. frames # << >> /\ Top.todo # << >> /\ Current.op # "alias"
    BY <1>3 DEF KnownPart, Busy
  <2> QED
    BY <1>1, <1>3, <2>1, StepTopKeeps DEF KnownPart
<1>4. CASE UnknownPart
  <2> DEFINE set == Current.op = "same" /\ Top.set
             policy == Current.op # "get late" /\ Top.policy
  <2>1. frames # << >> /\ Top.todo # << >> /\ Current.op # "alias"
    BY <1>4 DEF UnknownPart, Busy
  <2>2. /\ frames \in Seq(Frame) /\ Top \in Frame /\ Current \in Part
        /\ Calls(frames, type_map)
    BY <2>1, TopFacts, Untouched
  <2>3. Current.type \in QType /\ Current.op \in Op \ {"alias"}
    BY <1>4, <2>1, <2>2 DEF UnknownPart, Part
  <2>4. set \in BOOLEAN /\ policy \in BOOLEAN
    BY <2>2 DEF Frame
  <2>5. Begun(Current.op, set)
    BY DEF Begun
  <2>6. Call(Current.type, Current.op, set, policy).how = Current.op
    BY DEF Call
  <2>7. Fits(Call(Current.type, Current.op, set, policy), frames[Len(frames)])
    BY <2>1, <2>6 DEF Fits, Top, Current
  <2>8. TraverseType(Current.type, Current.op, set, policy, frames)
    BY <1>4 DEF UnknownPart
  <2>9. UNCHANGED << program, requested, reached >>
    BY <1>4 DEF UnknownPart
  <2>10. requested' \in 0 .. Len(program.roots) /\ reached' \subseteq QType
    BY <2>9, Untouched
  <2> HIDE DEF set, policy
  <2> QED
    BY <2>1, <2>2, <2>3, <2>4, <2>5, <2>7, <2>8, <2>9, <2>10, TraverseKeeps
<1>5. CASE NullPart
  BY <1>5, EndKeeps DEF NullPart, Outcome
<1>6. CASE Alias
  <2> DEFINE object == ObjectOf(Current.type)
             map == [type_map EXCEPT ![Top.type] = IF @ = "unmapped" THEN object ELSE @]
  <2>1. frames # << >> /\ Top.todo # << >> /\ object # "unmapped"
    BY <1>6 DEF Alias, Busy
  <2>2. Top \in Frame /\ Current \in Part
    BY <2>1, TopFacts
  <2>3. object \in { u \in QType : KindOf(u) \notin Sugar } \cup {NullType, "unmapped"}
    <3>1. Current.type \in QType \cup {NullType}
      BY <2>2 DEF Part
    <3> QED
      BY <1>1, <3>1 DEF ObjectOf, MapType
  <2>4. Top.type \in QType
    BY <2>2 DEF Frame
  <2> HIDE DEF object
  <2>5. map \in MapType /\ Grows(type_map, map) /\ map[Top.type] # "unmapped"
    BY <1>1, <2>1, <2>3, <2>4 DEF MapType, Grows
  <2>6. /\ type_map' = map /\ StepTop(TRUE, KindOf(Top.type) = "Elaborated")
        /\ UNCHANGED << program, traversed, requested, reached, outcome >>
    BY <1>6 DEF Alias, object
  <2>7. (KindOf(Top.type) = "Elaborated") \in BOOLEAN
    OBVIOUS
  <2> HIDE DEF map
  <2> QED
    BY <2>1, <2>5, <2>6, <2>7, StepTopKeeps
<1>7. CASE AliasOfUnmapped
  BY <1>7, EndKeeps DEF AliasOfUnmapped, Outcome
<1>8. CASE ReturnToVisitor
  <2>1. frames # << >>
    BY <1>8 DEF ReturnToVisitor, Done
  <2>2. Below # << >> /\ Top \in Frame
    BY <1>8, <2>1, TopFacts DEF ReturnToVisitor
  <2>3. Top.result \in BOOLEAN /\ (Top.how = "same" /\ Top.set) \in BOOLEAN
    BY <2>2 DEF Frame
  <2> QED
    BY <1>8, <2>1, <2>2, <2>3, ReturnKeeps DEF ReturnToVisitor
<1>9. CASE ReturnFromGet
  <2>1. frames # << >> /\ Top.todo = << >>
    BY <1>9 DEF ReturnFromGet, Done
  <2>2. Placing(Top, type_map)
    BY <2>1, TopFacts
  <2>3. Mapped(Top.type)
    <3>1. DOMAIN Top.todo = {}
      BY <2>1
    <3>2. Top.how \in {"get", "get late"}
      BY <1>9 DEF ReturnFromGet
    <3> QED
      BY <2>2, <3>1, <3>2 DEF Placing, HasAlias, Mapped
  <2>4. UNCHANGED << program, type_map, traversed, requested, reached, outcome >>
    BY <1>9, <2>3 DEF ReturnFromGet
  <2>5. CASE Below = << >>
    <3>1. frames' = << >>
      BY <1>9, <2>3, <2>5 DEF ReturnFromGet
    <3> QED
      BY <2>4, <3>1, NoCalls, Untouched, Preserved
  <2>6. CASE Below # << >>
    <3>1. frames' = [Below EXCEPT ![Len(Below)] = Stepped(@, TRUE, FALSE)]
      BY <1>9, <2>3, <2>6 DEF ReturnFromGet
    <3> QED
      BY <2>1, <2>4, <2>6, <3>1, ReturnKeeps
  <2> QED
    BY <2>5, <2>6
<1> QED
  BY <1>2, <1>3, <1>4, <1>5, <1>6, <1>7, <1>8, <1>9 DEF Traverse

LEMMA RequestPreserves ==
  ASSUME IInv, Request
  PROVE  IInv'
<1> DEFINE t == program.roots[requested + 1]
<1>1. program.roots \in Seq(QType) /\ requested \in 0 .. Len(program.roots)
  BY Untouched DEF Program
<1>2. requested + 1 \in 1 .. Len(program.roots)
  BY <1>1 DEF Request
<1>3. t \in QType
  BY <1>1, <1>2, ElementOfSeq
<1>4. /\ frames = << >> /\ Get(t, TRUE) /\ UNCHANGED << program, reached >>
      /\ requested' = requested + 1
  BY DEF Request, Idle
<1>5. requested' \in 0 .. Len(program.roots) /\ reached' \subseteq QType
  <2>1. Len(program.roots) \in Nat
    BY <1>1, LenProperties
  <2>2. requested' \in 0 .. Len(program.roots)
    BY <1>2, <1>4, <2>1
  <2> QED
    BY <1>4, <2>2, Untouched
<1> HIDE DEF t
<1> QED
  BY <1>3, <1>4, <1>5, GetKeeps

LEMMA ReachPreserves ==
  ASSUME IInv, Reach
  PROVE  IInv'
<1>1. reached' = Elements(program.roots) \cup UNION { Elements(program.members[t]) : t \in traversed }
  BY DEF Reach
<1>2. \A ts \in Seq(QType) : Elements(ts) \subseteq QType
  BY LenProperties, ElementOfSeq DEF Elements
<1>3. /\ program.roots \in Seq(QType) /\ traversed \subseteq QType
      /\ \A t \in traversed : program.members[t] \in Seq(QType)
  BY Untouched DEF Program
<1>4. reached' \subseteq QType
  BY <1>1, <1>2, <1>3
<1>5. frames \in Seq(Frame)
  BY DEF IInv, TypeOK
<1> QED
  BY <1>4, <1>5, Untouched, Preserved DEF Reach

LEMMA AskPreserves ==
  ASSUME IInv, Ask
  PROVE  IInv'
<1>1. PICK t \in reached, i \in 1 .. Cardinality(QType) : AskFor(t, i)
  BY DEF Ask
<1> DEFINE object == type_map[t]
           part == Components(object)[i]
<1>2. /\ frames = << >> /\ object # NullType /\ object # "unmapped"
      /\ i \in DOMAIN Components(object)
      /\ reached' = reached \cup {part} /\ Get(part, FALSE)
      /\ UNCHANGED << program, requested >>
  BY <1>1 DEF AskFor, AllRequested, Idle, Mapped
<1>3. object \in QType
  BY <1>2, Untouched DEF MapType
<1>4. part \in QType
  <2>1. TypeOK /\ i \in DOMAIN Components(object)
    BY <1>2 DEF IInv
  <2> HIDE DEF object
  <2> QED
    BY <1>3, <2>1, ComponentsTyped
<1>5. reached' \subseteq QType /\ requested' \in 0 .. Len(program.roots)
  BY <1>2, <1>4, Untouched
<1> HIDE DEF part
<1> QED
  BY <1>2, <1>4, <1>5, GetKeeps

-----------------------------------------------------------------------------
LEMMA InitHolds == Init => IInv
<1> SUFFICES ASSUME Init PROVE IInv
  OBVIOUS
<1>1. program \in Program /\ WellFormed(program)
  BY TypeMapAssumption DEF Init
<1>2. frames \in Seq(Frame) /\ Calls(frames, type_map)
  BY NoCalls DEF Init
<1>3. requested \in 0 .. Len(program.roots)
  <2>1. Len(program.roots) \in Nat
    BY <1>1, LenProperties DEF Program
  <2> QED
    BY <2>1 DEF Init
<1> QED
  BY <1>1, <1>2, <1>3 DEF Init, IInv, TypeOK, AlwaysPlaced, Outcome

LEMMA NextPreserves == IInv /\ [Next]_typeMapVars => IInv'
<1> SUFFICES ASSUME IInv, [Next]_typeMapVars PROVE IInv'
  OBVIOUS
<1>1. CASE Request
  BY <1>1, RequestPreserves
<1>2. CASE Reach
  BY <1>2, ReachPreserves
<1>3. CASE Ask
  BY <1>3, AskPreserves
<1>4. CASE Traverse
  BY <1>4, TraversePreserves
<1>5. CASE UNCHANGED typeMapVars
  <2>1. frames \in Seq(Frame)
    BY DEF IInv, TypeOK
  <2> QED
    BY <1>5, <2>1, Untouched, Preserved DEF typeMapVars
<1> QED
  BY <1>1, <1>2, <1>3, <1>4, <1>5 DEF Next

LEMMA IInvHolds == Spec => []IInv
BY InitHolds, NextPreserves, PTL DEF Spec

(***************************************************************************)
(* The map has only objects for types that stand for themselves, and every *)
(* call in progress is on a type of the program.                           *)
(***************************************************************************)
THEOREM TypeCorrect == Spec => []TypeOK
<1>1. IInv => TypeOK
  BY DEF IInv
<1> QED
  BY <1>1, IInvHolds, PTL

(***************************************************************************)
(* Type::get never throws its "FATAL: Traversing ... did not place it into *)
(* the type map!", whatever the types of the program and the order in      *)
(* which they are asked for.                                               *)
(***************************************************************************)
THEOREM GetFindsTheType == Spec => []AlwaysPlaced
<1>1. IInv => AlwaysPlaced
  BY DEF IInv
<1> QED
  BY <1>1, IInvHolds, PTL

-----------------------------------------------------------------------------
(***************************************************************************)
(* What the calls in progress have done and have yet to do, from which the *)
(* rest follows.  Kinds of which a visitor makes an object only if it has  *)
(* none in progress:                                                       *)
(***************************************************************************)
Shared == Records \cup {"Other"}

\* A call with no alias left to enter has its object, or was to share one.
Settled(call, map) ==
  HasAlias(call) \/ map[call.type] # "unmapped" \/ KindOf(call.type) \in Shared

\* The type that t stands for can be looked up.
Answered(t, map) ==
  \/ Inner(t) = NullType \/ map[Inner(t)] # "unmapped"
  \/ KindOf(t) \in Found /\ KindOf(Inner(t)) \in Shared

\* Before an alias is entered, its type is asked for.
Prepared(call, map, i) ==
  /\ KindOf(call.type) \in Sugar /\ i \in 1 .. 3
  /\ \A j \in 1 .. i : call.todo[j].type = Inner(call.type)
  /\ IF i = 1 THEN Answered(call.type, map)
     ELSE \/ call.todo[i - 1].op = "get late"
          \/ /\ i = 2 /\ call.result
             /\ \/ call.todo[1].op = "get"
                \/ call.todo[1].op = "same" /\ KindOf(call.type) \in Found

Aliases(call, map) ==
  \A i \in DOMAIN call.todo : call.todo[i].op = "alias" => Prepared(call, map, i)

\* A visitor, new or the same, traverses what the type consists of.
Near(t) == Elements(Parts(t)) \cup {Inner(t)}

Visits(call) ==
  \A i \in DOMAIN call.todo :
    /\ call.todo[i].op \in {"new", "same"} => call.todo[i].type \in Near(call.type)
    /\ KindOf(call.type) = "Other" => call.todo[i].type = Inner(call.type)
    /\ KindOf(call.type) \in Records => call.todo[i].op \in {"get", "new"}

Soured(call) == ~call.result => call.type \in Spoiled

Sound(call, map) ==
  Settled(call, map) /\ Aliases(call, map) /\ Visits(call) /\ Soured(call)

AllSound(calls, map) == \A n \in 1 .. Len(calls) : Sound(calls[n], map)

\* A call waits for the one above it, which is about its next type.
Linked(calls) ==
  \A n \in 2 .. Len(calls) : calls[n].type = Head(calls[n - 1].todo).type

\* A call is yet to visit the part c of the type t.
ToVisit(calls, t, c) ==
  \E n \in 1 .. Len(calls) :
    /\ calls[n].type = t
    /\ \E i \in DOMAIN calls[n].todo :
         calls[n].todo[i].op \in {"new", "same"} /\ calls[n].todo[i].type = c

Covered(calls, map) ==
  \A t \in QType :
    map[t] = t /\ KindOf(t) # "DependentName" /\ t \notin Spoiled =>
      \A c \in Elements(Components(t)) :
        map[c] # "unmapped" \/ KindOf(c) \in Shared \/ ToVisit(calls, t, c)

MapInv ==
  /\ IInv
  /\ AllSound(frames, type_map)
  /\ Linked(frames)
  /\ outcome = "running" => Covered(frames, type_map)
  /\ EndOnlyAtRecords

(***************************************************************************)
(* How deep the calls can be.  A call owns its type when the map has it    *)
(* through this call: it has made the object, or has entered the alias.    *)
(***************************************************************************)
Owns(calls, n) ==
  /\ ~HasAlias(calls[n])
  /\ KindOf(calls[n].type) \in Shared =>
       ~(n # 1 /\ calls[n].how = "same" /\ calls[n - 1].set)

\* The object in progress does not reach what comes after the alias is asked for.
Clean(call) == HasAlias(call) /\ (Head(call.todo).op = "same" => ~call.set)

OwnedMapped(calls, map) ==
  \A n \in 1 .. Len(calls) : Owns(calls, n) => map[calls[n].type] # "unmapped"

OwnedOnce(calls) ==
  \A m, n \in 1 .. Len(calls) :
    m < n /\ calls[m].type = calls[n].type => ~Owns(calls, m)

CleanAbove(calls) ==
  \A n \in 2 .. Len(calls) :
    KindOf(calls[n - 1].type) \in Records \/ Clean(calls[n - 1])
      => Owns(calls, n) \/ Clean(calls[n])

Deep(calls, map) == OwnedMapped(calls, map) /\ OwnedOnce(calls) /\ CleanAbove(calls)

DeepInv == MapInv /\ Deep(frames, type_map)

-----------------------------------------------------------------------------
\* Some steps, and then the same step for each of some types.
ThenEach(w, s, op, ts) ==
  /\ \A i \in 1 .. Len(s) : i \in DOMAIN w /\ w[i] = s[i]
  /\ \A i \in DOMAIN w :
       \/ i \in 1 .. Len(s)
       \/ i > Len(s) /\ w[i].op = op /\ w[i].type \in Elements(ts)
  /\ \A c \in Elements(ts) : \E i \in DOMAIN w : w[i].op = op /\ w[i].type = c

LEMMA StepsThenEach ==
  ASSUME NEW s \in Seq(Part), NEW op \in Op, NEW ts \in Seq(QType)
  PROVE  s \o Each(op, ts) \in Seq(Part) /\ ThenEach(s \o Each(op, ts), s, op, ts)
<1> DEFINE e == Each(op, ts)
           w == s \o e
<1>1. e \in Seq(Part) /\ DOMAIN e = DOMAIN ts /\ \A i \in DOMAIN ts : e[i] = Step(op, ts[i])
  BY EachTyped DEF Each
<1>2. Len(e) = Len(ts) /\ Len(s) \in Nat /\ Len(ts) \in Nat /\ DOMAIN ts = 1 .. Len(ts)
  <2>1. DOMAIN e = 1 .. Len(e) /\ Len(e) \in Nat /\ DOMAIN ts = 1 .. Len(ts) /\ Len(ts) \in Nat
    <3> HIDE DEF e
    <3>1. DOMAIN e = 1 .. Len(e) /\ Len(e) \in Nat
      BY <1>1, LenProperties, Zenon
    <3>2. DOMAIN ts = 1 .. Len(ts) /\ Len(ts) \in Nat
      BY LenProperties, ZenonT(60)
    <3> QED
      BY <3>1, <3>2
  <2> HIDE DEF e
  <2>2. 1 .. Len(e) = 1 .. Len(ts)
    BY <1>1, <2>1
  <2>3. Len(e) = Len(ts)
    <3>1. \A k, l \in Nat : 1 .. k = 1 .. l => ~(k < l)
      <4> SUFFICES ASSUME NEW k \in Nat, NEW l \in Nat, k < l PROVE l \in 1 .. l /\ l \notin 1 .. k
        OBVIOUS
      <4> QED
        OBVIOUS
    <3>2. \A k, l \in Nat : 1 .. k = 1 .. l => k = l
      <4>1. \A k, l \in Nat : ~(k < l) /\ ~(l < k) => k = l
        OBVIOUS
      <4> QED
        BY <3>1, <4>1
    <3> QED
      BY <2>1, <2>2, <3>2, Zenon
  <2>4. Len(s) \in Nat
    BY LenProperties
  <2> QED
    BY <2>1, <2>3, <2>4
<1>3. /\ w \in Seq(Part) /\ Len(w) = Len(s) + Len(e)
      /\ DOMAIN w = 1 .. Len(s) + Len(ts)
      /\ \A i \in 1 .. Len(s) + Len(e) : w[i] = IF i <= Len(s) THEN s[i] ELSE e[i - Len(s)]
  <2> HIDE DEF e
  <2>1. /\ w \in Seq(Part) /\ Len(w) = Len(s) + Len(e)
        /\ \A i \in 1 .. Len(s) + Len(e) : w[i] = IF i <= Len(s) THEN s[i] ELSE e[i - Len(s)]
    BY <1>1, ConcatProperties
  <2>2. DOMAIN w = 1 .. Len(w)
    BY <2>1, LenProperties
  <2> QED
    BY <1>2, <2>1, <2>2
<1> HIDE DEF w, e
<1>4. \A i \in 1 .. Len(s) : i \in DOMAIN w /\ w[i] = s[i]
  BY <1>2, <1>3
<1>5. ASSUME NEW i \in DOMAIN w, i \notin 1 .. Len(s)
      PROVE  i > Len(s) /\ w[i].op = op /\ w[i].type \in Elements(ts)
  <2>1. i > Len(s) /\ i - Len(s) \in DOMAIN ts /\ w[i] = e[i - Len(s)]
    BY <1>2, <1>3, <1>5
  <2>2. w[i] = Step(op, ts[i - Len(s)])
    BY <1>1, <2>1
  <2> QED
    BY <2>1, <2>2 DEF Step, Elements
<1>6. ASSUME NEW c \in Elements(ts)
      PROVE  \E i \in DOMAIN w : w[i].op = op /\ w[i].type = c
  <2>1. PICK j \in DOMAIN ts : ts[j] = c
    BY DEF Elements
  <2>2. Len(s) + j \in DOMAIN w /\ w[Len(s) + j] = e[j]
    <3>1. Len(s) + j \in 1 .. Len(s) + Len(ts) /\ ~(Len(s) + j <= Len(s)) /\ Len(s) + j - Len(s) = j
      BY <1>2
    <3> QED
      BY <1>2, <1>3, <3>1
  <2> QED
    BY <1>1, <2>1, <2>2 DEF Step
<1>7. w \in Seq(Part) /\ ThenEach(w, s, op, ts)
  BY <1>3, <1>4, <1>5, <1>6 DEF ThenEach
<1> QED
  BY <1>7 DEF w, e

(***************************************************************************)
(* The steps of a type: it is asked for before its alias is entered, what  *)
(* is visited is near, and what the translation asks for is visited.       *)
(***************************************************************************)
AliasPrepared(t, w) ==
  \A i \in DOMAIN w : w[i].op = "alias" =>
    /\ KindOf(t) \in Sugar /\ i \in {2, 3}
    /\ \A j \in 1 .. i : w[j].type = Inner(t)
    /\ \/ w[i - 1].op = "get late"
       \/ /\ i = 2
          /\ w[1].op = "get" \/ (w[1].op = "same" /\ KindOf(t) \in Found)

NearOnly(t, w) ==
  \A i \in DOMAIN w :
    /\ w[i].op \in {"new", "same"} => w[i].type \in Near(t)
    /\ KindOf(t) = "Other" => w[i].type = Inner(t)
    /\ KindOf(t) \in Records => w[i].op \in {"get", "new"}

Covers(t, w) ==
  KindOf(t) \notin Sugar \cup Shared \cup {"DependentName"} =>
    \A c \in Elements(Components(t)) :
      \E i \in DOMAIN w : w[i].op \in {"new", "same"} /\ w[i].type = c

Orderly(t, w) == AliasPrepared(t, w) /\ NearOnly(t, w) /\ Covers(t, w)

LEMMA OneElement ==
  ASSUME NEW a
  PROVE  Elements(<< a >>) = {a}
BY DEF Elements

LEMMA NoElement == Elements(<< >>) = {}
BY DEF Elements

LEMMA FirstAndRest ==
  ASSUME NEW a \in QType, NEW ts \in Seq(QType)
  PROVE  Elements(<< a >> \o ts) \subseteq {a} \cup Elements(ts)
<1> DEFINE one == << a >>
<1>1. one \in Seq(QType) /\ Len(one) = 1 /\ one[1] = a
  OBVIOUS
<1> HIDE DEF one
<1>2. /\ one \o ts \in Seq(QType) /\ Len(one \o ts) = 1 + Len(ts)
      /\ \A i \in 1 .. 1 + Len(ts) : (one \o ts)[i] = IF i <= 1 THEN one[i] ELSE ts[i - 1]
  <2>1. /\ one \o ts \in Seq(QType) /\ Len(one \o ts) = Len(one) + Len(ts)
        /\ \A i \in 1 .. Len(one) + Len(ts) :
             (one \o ts)[i] = IF i <= Len(one) THEN one[i] ELSE ts[i - Len(one)]
    BY <1>1, ConcatProperties
  <2> QED
    BY <1>1, <2>1
<1>3. DOMAIN ts = 1 .. Len(ts) /\ Len(ts) \in Nat
  BY LenProperties
<1>4. DOMAIN (one \o ts) = 1 .. 1 + Len(ts)
  BY <1>2, LenProperties
<1>5. ASSUME NEW i \in 1 .. 1 + Len(ts)
      PROVE  (one \o ts)[i] \in {a} \cup Elements(ts)
  <2>1. (one \o ts)[i] = IF i <= 1 THEN one[i] ELSE ts[i - 1]
    BY <1>2
  <2>2. CASE i <= 1
    <3>1. i = 1
      BY <2>2
    <3> QED
      BY <1>1, <2>1, <3>1
  <2>3. CASE ~(i <= 1)
    <3>1. i - 1 \in DOMAIN ts
      BY <1>3, <2>3
    <3> QED
      BY <2>1, <2>3, <3>1 DEF Elements
  <2> QED
    BY <2>2, <2>3
<1> QED
  BY <1>4, <1>5 DEF Elements, one

LEMMA ThreeSteps ==
  ASSUME NEW a, NEW b, NEW c
  PROVE  /\ DOMAIN << a, b, c >> = {1, 2, 3}
         /\ << a, b, c >>[1] = a /\ << a, b, c >>[2] = b /\ << a, b, c >>[3] = c
OBVIOUS

LEMMA TodoOrderly ==
  ASSUME TypeOK, NEW t \in QType
  PROVE  Orderly(t, Todo(t))
<1> DEFINE Decl == IF t \in traversed THEN << >> ELSE Each("get", program.members[t])
           One(a) == << Step(a, Inner(t)) >>
           Two(a, b) == << Step(a, Inner(t)), Step(b, Inner(t)) >>
           Three(a, b, c) == << Step(a, Inner(t)), Step(b, Inner(t)), Step(c, Inner(t)) >>
           Same == Each("same", Parts(t))
<1> USE DEF Around, Records, Found, Gotten
<1>1. /\ Parts(t) \in Seq(QType) /\ program.members[t] \in Seq(QType)
      /\ "same" \in Op /\ "new" \in Op /\ "get" \in Op /\ "alias" \in Op
      /\ Inner(t) \in Near(t) /\ Elements(Parts(t)) \subseteq Near(t)
  BY ProgramFacts DEF Op, Near
<1>2. \A a \in Op : One(a) \in Seq(Part) /\ Len(One(a)) = 1 /\ One(a)[1] = Step(a, Inner(t))
  BY StepsTyped
<1>3. \A a, b \in Op : /\ Two(a, b) \in Seq(Part) /\ Len(Two(a, b)) = 2
                       /\ Two(a, b)[1] = Step(a, Inner(t))
                       /\ Two(a, b)[2] = Step(b, Inner(t))
  BY StepsTyped
<1>4. Components(t) = IF KindOf(t) \in Around \cup {"Const"} THEN << Inner(t) >>
                      ELSE IF KindOf(t) = "DependentName" /\ Inner(t) # NullType
                             THEN << Inner(t) >>
                      ELSE IF KindOf(t) = "FunctionProto" THEN << Inner(t) >> \o Parts(t)
                      ELSE IF KindOf(t) = "TemplateSpecialization" THEN Parts(t)
                      ELSE << >>
  BY DEF Components
<1>5. CASE KindOf(t) \in Around \cup {"Const", "Vector"}
  <2>1. PICK a \in {"new", "same"} : Todo(t) = One(a)
    BY <1>5 DEF Todo
  <2>2. DOMAIN One(a) = {1} /\ One(a)[1].op = a /\ One(a)[1].type = Inner(t)
    BY DEF Step
  <2>3. Elements(Components(t)) \subseteq {Inner(t)}
    BY <1>4, <1>5, OneElement, NoElement
  <2> HIDE DEF One
  <2> QED
    BY <1>1, <1>5, <2>1, <2>2, <2>3
       DEF Orderly, AliasPrepared, NearOnly, Covers
<1>6. CASE KindOf(t) = "FunctionProto"
  <2> DEFINE w == One("new") \o Same
  <2>1. Todo(t) = w
    BY <1>6 DEF Todo
  <2>2. ThenEach(w, One("new"), "same", Parts(t))
    <3> HIDE DEF One
    <3> QED  BY <1>1, <1>2, StepsThenEach
  <2>3. /\ 1 \in DOMAIN w /\ w[1].op = "new" /\ w[1].type = Inner(t)
        /\ \A i \in DOMAIN w : \/ i = 1
                               \/ w[i].op = "same" /\ w[i].type \in Elements(Parts(t))
    <3> DEFINE one == One("new")
    <3>1. Len(one) = 1 /\ one[1] = Step("new", Inner(t))
      BY <1>1, <1>2
    <3> HIDE DEF w, one
    <3>2. ThenEach(w, one, "same", Parts(t))
      BY <2>2 DEF one
    <3>3. 1 \in DOMAIN w /\ w[1] = one[1]
      BY <3>1, <3>2 DEF ThenEach
    <3>4. \A i : i \in 1 .. 1 => i = 1
      OBVIOUS
    <3> QED
      BY <3>1, <3>2, <3>3, <3>4 DEF Step, ThenEach
  <2>5. Elements(Components(t)) \subseteq {Inner(t)} \cup Elements(Parts(t))
    <3>1. Components(t) = << Inner(t) >> \o Parts(t)
      BY <1>4, <1>6
    <3>2. Inner(t) \in QType
      BY <1>6, ProgramFacts DEF TypeOK, WellFormed, KindOf, Inner
    <3> QED
      BY <1>1, <3>1, <3>2, FirstAndRest
  <2> HIDE DEF w, Same, One
  <2>6. KindOf(t) \notin Records \cup {"Other"}
    BY <1>6
  <2>7. \A i \in DOMAIN w : w[i].op \in {"new", "same"} /\ w[i].type \in Near(t)
    BY <1>1, <2>3
  <2>8. AliasPrepared(t, w) /\ NearOnly(t, w)
    BY <2>6, <2>7 DEF AliasPrepared, NearOnly
  <2>9. Covers(t, w)
    <3>1. \A c \in Elements(Parts(t)) : \E i \in DOMAIN w : w[i].op = "same" /\ w[i].type = c
      BY <2>2 DEF ThenEach
    <3> QED
      BY <2>3, <2>5, <3>1 DEF Covers
  <2> QED
    BY <2>1, <2>8, <2>9 DEF Orderly
<1>7. ASSUME NEW s \in Seq(Part), NEW op \in {"same", "new"},
             Todo(t) = s \o Each(op, Parts(t)),
             KindOf(t) \in Records => op = "new",
             KindOf(t) # "Other",
             \A i \in 1 .. Len(s) : s[i].op = "get" /\ KindOf(t) \in Records,
             KindOf(t) \in Records \cup {"TemplateSpecialization", "DependentName"}
      PROVE  Orderly(t, Todo(t))
  <2> DEFINE w == s \o Each(op, Parts(t))
  <2>1. ThenEach(w, s, op, Parts(t))
    <3>1. op \in Op
      BY <1>7 DEF Op
    <3> QED
      BY <1>1, <1>7, <3>1, StepsThenEach
  <2>2. KindOf(t) = "TemplateSpecialization" => Components(t) = Parts(t)
    BY <1>4
  <2> HIDE DEF w
  <2>3. \A i \in DOMAIN w :
          \/ w[i].op = "get" /\ KindOf(t) \in Records
          \/ (w[i].op = op /\ w[i].type \in Elements(Parts(t)))
    <3> SUFFICES ASSUME NEW i \in DOMAIN w
                 PROVE  \/ w[i].op = "get" /\ KindOf(t) \in Records
                        \/ (w[i].op = op /\ w[i].type \in Elements(Parts(t)))
      OBVIOUS
    <3>1. CASE i \in 1 .. Len(s)
      <4>1. w[i] = s[i]
        BY <2>1, <3>1 DEF ThenEach
      <4> QED
        BY <1>7, <3>1, <4>1
    <3>2. CASE i \notin 1 .. Len(s)
      BY <2>1, <3>2 DEF ThenEach
    <3> QED
      BY <3>1, <3>2
  <2>4. Todo(t) = w /\ \A c \in Elements(Parts(t)) :
                          \E i \in DOMAIN w : w[i].op = op /\ w[i].type = c
    BY <1>7, <2>1 DEF w, ThenEach
  <2> QED
    BY <1>1, <1>7, <2>1, <2>2, <2>3, <2>4
       DEF Orderly, AliasPrepared, NearOnly, Covers, Shared
<1>8. CASE KindOf(t) \in {"TemplateSpecialization", "DependentName"}
  <2>1. Todo(t) = << >> \o Same
    <3>1. Todo(t) = Same
      BY <1>8 DEF Todo
    <3>2. Same \in Seq(Part)
      BY <1>1, EachTyped
    <3> HIDE DEF Same
    <3> QED
      BY <3>1, <3>2, ConcatEmptySeq
  <2>2. << >> \in Seq(Part) /\ Len(<< >>) = 0 /\ 1 .. 0 = {}
    OBVIOUS
  <2>3. KindOf(t) \notin Records \cup {"Other"}
    BY <1>8
  <2> QED
    BY <1>7, <1>8, <2>1, <2>2, <2>3
<1>9. CASE KindOf(t) \in Records
  <2>1. Todo(t) = Decl \o Each("new", Parts(t))
    BY <1>9 DEF Todo
  <2>2. Decl \in Seq(Part) /\ \A i \in 1 .. Len(Decl) : Decl[i].op = "get"
    <3>1. Each("get", program.members[t]) \in Seq(Part)
      BY <1>1, EachTyped
    <3>2. DOMAIN Each("get", program.members[t])
            = 1 .. Len(Each("get", program.members[t]))
      BY <3>1, LenProperties
    <3>3. \A i \in 1 .. Len(Each("get", program.members[t])) :
            Each("get", program.members[t])[i].op = "get"
      BY <3>2 DEF Each, Step
    <3>4. << >> \in Seq(Part) /\ Len(<< >>) = 0 /\ 1 .. 0 = {}
      OBVIOUS
    <3> QED
      BY <3>1, <3>3, <3>4
  <2> HIDE DEF Decl
  <2> QED
    BY <1>7, <1>9, <2>1, <2>2
<1>10. CASE KindOf(t) = "TemplateTypeParm"
  <2>1. Todo(t) = Decl
    BY <1>10 DEF Todo
  <2>2. \A i \in DOMAIN Decl : Decl[i].op = "get"
    BY DEF Each, Step
  <2>3. Elements(Components(t)) = {}
    BY <1>4, <1>10, NoElement
  <2> HIDE DEF Decl
  <2> QED
    BY <1>10, <2>1, <2>2, <2>3 DEF Orderly, AliasPrepared, NearOnly, Covers
<1>11. CASE KindOf(t) = "Restrict"
  <2> DEFINE w == Three("same", "get late", "alias")
  <2>1. Todo(t) = w
    BY <1>11 DEF Todo
  <2>2. /\ DOMAIN w = {1, 2, 3} /\ \A i \in {1, 2, 3} : w[i].type = Inner(t)
        /\ w[1].op = "same" /\ w[2].op = "get late" /\ w[3].op = "alias"
    <3>1. /\ DOMAIN w = {1, 2, 3} /\ w[1] = Step("same", Inner(t))
          /\ w[2] = Step("get late", Inner(t)) /\ w[3] = Step("alias", Inner(t))
      BY ThreeSteps
    <3> HIDE DEF w
    <3>2. \A a : Step(a, Inner(t)).op = a /\ Step(a, Inner(t)).type = Inner(t)
      BY DEF Step
    <3>3. /\ w[1].op = "same" /\ w[2].op = "get late" /\ w[3].op = "alias"
          /\ w[1].type = Inner(t) /\ w[2].type = Inner(t) /\ w[3].type = Inner(t)
      BY <3>1, <3>2, Zenon
    <3>4. DOMAIN w = {1, 2, 3}
      BY <3>1
    <3>5. \A i \in {1, 2, 3} : w[i].type = Inner(t)
      BY <3>3
    <3> QED
      BY <3>3, <3>4, <3>5
  <2>3. KindOf(t) \in Sugar /\ KindOf(t) \notin Records \cup {"Other"}
    BY <1>11 DEF Sugar
  <2> HIDE DEF w
  <2>4. AliasPrepared(t, w)
    <3>1. \A i \in {1, 2, 3} : w[i].op = "alias" => i = 3
      BY <2>2
    <3>2. 3 # 1 /\ 3 - 1 = 2 /\ \A j \in 1 .. 3 : j \in {1, 2, 3}
      OBVIOUS
    <3> QED
      BY <2>2, <2>3, <3>1, <3>2 DEF AliasPrepared
  <2> QED
    BY <1>1, <2>1, <2>2, <2>3, <2>4 DEF Orderly, NearOnly, Covers
<1>12. ASSUME NEW w, Todo(t) = w, 2 \in DOMAIN w,
              NEW a \in {"same", "get"}, w[1] = Step(a, Inner(t)), 1 \in DOMAIN w,
              a = "same" => KindOf(t) \in Found, DOMAIN w \subseteq Nat \ {0},
              w[2] = Step("alias", Inner(t)), KindOf(t) \in Sugar,
              \A i \in DOMAIN w : i > 2 => w[i].op = "same" /\ w[i].type \in Near(t)
       PROVE  Orderly(t, Todo(t))
  <2>1. \A i \in DOMAIN w : i = 1 \/ i = 2 \/ i > 2
    BY <1>12
  <2>2. \A i \in DOMAIN w : w[i].op = "alias" => i = 2
    BY <1>12, <2>1 DEF Step
  <2>3. w[1].op = a /\ w[1].type = Inner(t) /\ w[2].type = Inner(t) /\ w[2].op = "alias"
    BY <1>12 DEF Step
  <2>4. AliasPrepared(t, w)
    <3>1. \A j \in 1 .. 2 : w[j].type = Inner(t)
      <4>1. \A j \in 1 .. 2 : j = 1 \/ j = 2
        OBVIOUS
      <4> QED
        BY <2>3, <4>1
    <3> QED
      BY <1>12, <2>2, <2>3, <3>1 DEF AliasPrepared
  <2>5. KindOf(t) \notin Records \cup {"Other"}
    BY <1>12 DEF Sugar
  <2> QED
    BY <1>1, <1>12, <2>1, <2>3, <2>4, <2>5 DEF Orderly, NearOnly, Covers
<1>13. ASSUME NEW a \in {"same", "get"}, Todo(t) = Two(a, "alias") \o Same,
              a = "same" => KindOf(t) \in Found, KindOf(t) \in Sugar
       PROVE  Orderly(t, Todo(t))
  <2> DEFINE w == Two(a, "alias") \o Same
  <2>1. a \in Op
    BY DEF Op
  <2>2. w \in Seq(Part) /\ ThenEach(w, Two(a, "alias"), "same", Parts(t))
    <3> HIDE DEF Two
    <3> QED  BY <1>1, <1>3, <2>1, StepsThenEach
  <2>3. DOMAIN w \subseteq Nat \ {0}
    <3> HIDE DEF w
    <3>1. DOMAIN w = 1 .. Len(w)
      BY <2>2, LenProperties
    <3> QED
      BY <3>1
  <2>4. /\ w[1] = Step(a, Inner(t)) /\ w[2] = Step("alias", Inner(t))
        /\ 1 \in DOMAIN w /\ 2 \in DOMAIN w
        /\ \A i \in DOMAIN w : i > 2 => w[i].op = "same" /\ w[i].type \in Near(t)
    <3> DEFINE two == Two(a, "alias")
    <3>1. Len(two) = 2 /\ two[1] = Step(a, Inner(t)) /\ two[2] = Step("alias", Inner(t))
      BY <1>1, <1>3, <2>1
    <3> HIDE DEF w, two
    <3>2. ThenEach(w, two, "same", Parts(t))
      BY <2>2 DEF two
    <3>3. 1 \in 1 .. 2 /\ 2 \in 1 .. 2 /\ \A i : i \in 1 .. 2 => ~(i > 2)
      OBVIOUS
    <3> QED
      BY <1>1, <3>1, <3>2, <3>3 DEF ThenEach
  <2>6. Todo(t) = w
    BY <1>13
  <2> HIDE DEF w
  <2> QED
    BY <1>12, <1>13, <2>3, <2>4, <2>6
<1>14. CASE KindOf(t) \in Found
  <2>1. Todo(t) = Two("same", "alias") \o Same
    BY <1>14 DEF Todo
  <2> HIDE DEF Two, Same
  <2> QED
    BY <1>13, <1>14, <2>1 DEF Sugar
<1>15. CASE KindOf(t) = "Elaborated"
  <2>1. Todo(t) = Two("get", "alias") \o Same
    BY <1>15 DEF Todo
  <2> HIDE DEF Two, Same
  <2> QED
    BY <1>13, <1>15, <2>1 DEF Sugar
<1>16. CASE KindOf(t) = "Auto"
  <2>1. Todo(t) = Three("get", "alias", "same")
    BY <1>16 DEF Todo
  <2>2. /\ DOMAIN Three("get", "alias", "same") = {1, 2, 3}
        /\ Three("get", "alias", "same")[1] = Step("get", Inner(t))
        /\ Three("get", "alias", "same")[2] = Step("alias", Inner(t))
        /\ Three("get", "alias", "same")[3] = Step("same", Inner(t))
    BY ThreeSteps
  <2> DEFINE w == Three("get", "alias", "same")
  <2> HIDE DEF w
  <2>3. \A i \in DOMAIN w : i > 2 => w[i].op = "same" /\ w[i].type \in Near(t)
    <3>1. \A i \in {1, 2, 3} : i > 2 => i = 3
      OBVIOUS
    <3> QED
      BY <1>1, <2>2, <3>1 DEF w, Step
  <2>4. DOMAIN w \subseteq Nat \ {0} /\ 1 \in DOMAIN w /\ 2 \in DOMAIN w
    BY <2>2 DEF w
  <2>5. Todo(t) = w /\ w[1] = Step("get", Inner(t)) /\ w[2] = Step("alias", Inner(t))
    BY <2>1, <2>2 DEF w
  <2>6. KindOf(t) \in Sugar
    BY <1>16 DEF Sugar
  <2> QED
    BY <1>12, <2>3, <2>4, <2>5, <2>6
<1>17. CASE KindOf(t) \in Gotten \ {"Elaborated", "Auto"}
  <2>1. Todo(t) = Two("get", "alias")
    BY <1>17 DEF Todo
  <2> DEFINE w == Two("get", "alias")
  <2>2. DOMAIN w = 1 .. 2 /\ w[1] = Step("get", Inner(t)) /\ w[2] = Step("alias", Inner(t))
    OBVIOUS
  <2> HIDE DEF w
  <2>3. DOMAIN w \subseteq Nat \ {0} /\ 1 \in DOMAIN w /\ 2 \in DOMAIN w
        /\ \A i \in DOMAIN w : ~(i > 2)
    BY <2>2
  <2>4. KindOf(t) \in Sugar /\ Todo(t) = w
    BY <1>17, <2>1 DEF Sugar, w
  <2> QED
    BY <1>12, <2>2, <2>3, <2>4
<1>18. CASE KindOf(t) = "Other"
  <2>1. Todo(t) = One("same") \/ Todo(t) = << >>
    BY <1>18 DEF Todo
  <2>2. DOMAIN One("same") = {1} /\ One("same")[1].op = "same"
        /\ One("same")[1].type = Inner(t) /\ DOMAIN << >> = {}
    BY DEF Step
  <2> HIDE DEF One
  <2> QED
    BY <1>1, <1>18, <2>1, <2>2 DEF Orderly, AliasPrepared, NearOnly, Covers, Shared
<1>19. CASE KindOf(t) \in Invalid \cup {"Enum", "Builtin", "InjectedClassName"}
  <2>1. Todo(t) = << >>
    BY <1>19 DEF Todo, Invalid, Failing
  <2>2. Elements(Components(t)) = {}
    BY <1>4, <1>19, NoElement DEF Invalid, Failing
  <2> QED
    BY <2>1, <2>2 DEF Orderly, AliasPrepared, NearOnly, Covers
<1>20. KindOf(t) \in Kind
  BY ProgramFacts
<1> QED
  BY <1>5, <1>6, <1>8, <1>9, <1>10, <1>11, <1>14, <1>15, <1>16, <1>17, <1>18, <1>19, <1>20
     DEF Kind, Sugar, Object

-----------------------------------------------------------------------------
LEMMA FailingIsSpoiled ==
  ASSUME NEW t \in QType, KindOf(t) \in Failing
  PROVE  t \in Spoiled
BY DEF Spoiled

LEMMA SpoiledNearby ==
  ASSUME NEW t \in QType, NEW u \in Spoiled, u \in Near(t)
  PROVE  t \in Spoiled
BY DEF Spoiled, Near

\* A call that begins.
LEMMA FreshIsSound ==
  ASSUME TypeOK, NEW t \in QType, NEW how, NEW set \in BOOLEAN, NEW policy
  PROVE  Sound(Call(t, how, set, policy), Place(t, set))
<1> DEFINE call == Call(t, how, set, policy)
           map == Place(t, set)
<1>1. call.type = t /\ call.todo = Todo(t) /\ call.result = (KindOf(t) \notin Failing)
  BY DEF Call
<1>2. Orderly(t, Todo(t)) /\ KindOf(t) \in Kind
  BY TodoOrderly, ProgramFacts
<1> HIDE DEF call
<1>3. Settled(call, map)
  <2>1. CASE KindOf(t) \in Sugar
    BY <1>1, <2>1, SugarIsAliased DEF Settled, HasAlias
  <2>2. CASE KindOf(t) \in Object \cup Invalid
    BY <1>1, <2>2, PlaceFacts DEF Settled, Places
  <2> QED
    BY <1>1, <1>2, <2>1, <2>2 DEF Kind, Settled, Shared
<1>4. Aliases(call, map)
  <2> SUFFICES ASSUME NEW i \in DOMAIN Todo(t), Todo(t)[i].op = "alias"
               PROVE  Prepared(call, map, i)
    BY <1>1 DEF Aliases
  <2>1. /\ KindOf(t) \in Sugar /\ i \in {2, 3}
        /\ \A j \in 1 .. i : Todo(t)[j].type = Inner(t)
        /\ \/ Todo(t)[i - 1].op = "get late"
           \/ /\ i = 2
              /\ Todo(t)[1].op = "get" \/ (Todo(t)[1].op = "same" /\ KindOf(t) \in Found)
    BY <1>2 DEF Orderly, AliasPrepared
  <2>2. KindOf(t) \notin Failing
    BY <2>1 DEF Sugar, Failing, Found, Gotten
  <2>3. i # 1 /\ i \in 1 .. 3
    <3>1. i \in {2, 3}
      BY <2>1
    <3> QED
      BY <3>1
  <2>4. call.result
    BY <1>1, <2>2
  <2>5. \A j \in 1 .. i : call.todo[j].type = Inner(t)
    BY <1>1, <2>1
  <2>6. \/ call.todo[i - 1].op = "get late"
        \/ /\ i = 2
           /\ call.todo[1].op = "get" \/ (call.todo[1].op = "same" /\ KindOf(t) \in Found)
    BY <1>1, <2>1, Zenon
  <2> QED
    BY <1>1, <2>1, <2>3, <2>4, <2>5, <2>6, Zenon DEF Prepared
<1>5. Visits(call)
  BY <1>1, <1>2 DEF Visits, Orderly, NearOnly
<1>6. Soured(call)
  BY <1>1, FailingIsSpoiled DEF Soured
<1> QED
  BY <1>3, <1>4, <1>5, <1>6 DEF Sound, call

\* What is left of the steps of a call after the first.
After(call, r, s, new) ==
  /\ new \in Frame /\ new.how = call.how /\ new.type = call.type
  /\ new.result = (call.result /\ r) /\ new.set = (call.set \/ s)
  /\ 1 \in DOMAIN call.todo /\ call.todo[1] = Head(call.todo)
  /\ \A i \in DOMAIN new.todo : /\ i \in Nat \ {0} /\ i + 1 \in DOMAIN call.todo
                                /\ new.todo[i] = call.todo[i + 1]
  /\ \A i \in DOMAIN call.todo : i = 1 \/ (i - 1 \in DOMAIN new.todo
                                            /\ new.todo[i - 1] = call.todo[i])

LEMMA RestFacts ==
  ASSUME NEW call \in Frame, call.todo # << >>, NEW r \in BOOLEAN, NEW s \in BOOLEAN
  PROVE  After(call, r, s, Stepped(call, r, s))
<1> DEFINE w == call.todo
           new == Stepped(call, r, s)
<1>1. w \in Seq(Part) /\ w # << >>
  BY DEF Frame
<1>2. /\ Tail(w) \in Seq(Part) /\ Len(Tail(w)) = Len(w) - 1 /\ Len(w) \in Nat
      /\ \A i \in 1 .. Len(Tail(w)) : Tail(w)[i] = w[i + 1]
      /\ DOMAIN w = 1 .. Len(w) /\ DOMAIN Tail(w) = 1 .. Len(Tail(w)) /\ Len(w) # 0
      /\ w[1] = Head(w)
  <2> HIDE DEF w
  <2>1. Tail(w) \in Seq(Part) /\ Len(Tail(w)) = Len(w) - 1 /\ w[1] = Head(w)
        /\ \A i \in 1 .. Len(Tail(w)) : Tail(w)[i] = w[i + 1]
    BY <1>1, HeadTailProperties
  <2> QED
    BY <1>1, <2>1, LenProperties, EmptySeq
<1>3. /\ new \in Frame /\ new.how = call.how /\ new.type = call.type
      /\ new.result = (call.result /\ r) /\ new.set = (call.set \/ s) /\ new.todo = Tail(w)
  BY <1>2 DEF Stepped, Frame
<1> HIDE DEF new, w
<1>4. \A i \in DOMAIN new.todo : i \in Nat \ {0} /\ i + 1 \in DOMAIN w /\ new.todo[i] = w[i + 1]
  BY <1>2, <1>3
<1>5. ASSUME NEW i \in DOMAIN w, i # 1
      PROVE  i - 1 \in DOMAIN new.todo /\ new.todo[i - 1] = w[i]
  <2>1. i - 1 \in 1 .. Len(Tail(w)) /\ i - 1 + 1 = i
    BY <1>2, <1>5
  <2> QED
    BY <1>2, <1>3, <2>1
<1>6. 1 \in DOMAIN w
  BY <1>2
<1>7. w = call.todo /\ new = Stepped(call, r, s)
  BY DEF new, w
<1> QED
  BY <1>2, <1>3, <1>4, <1>5, <1>6, <1>7 DEF After

\* The next step of a call is over when its type can be looked up, or was to
\* share the object in progress; that of a call that has failed, at once.
Over(call, map) ==
  LET step == Head(call.todo)
  IN  \/ ~call.result /\ ~Regardless(step)
      \/ step.type = NullType /\ step.op = "get"
      \/ map[step.type] # "unmapped"
      \/ step.op \in {"new", "same"} /\ KindOf(step.type) \in Shared

LEMMA SteppedIsSound ==
  ASSUME NEW call \in Frame, call.todo # << >>, NEW r \in BOOLEAN, NEW s \in BOOLEAN,
         NEW map, NEW new, Grows(map, new), Sound(call, map), TypeOK,
         Head(call.todo).op = "alias" => new[call.type] # "unmapped",
         Head(call.todo).op # "alias" => Over(call, new),
         ~r => call.type \in Spoiled
  PROVE  Sound(Stepped(call, r, s), new)
<1> DEFINE w == call.todo
           left == Stepped(call, r, s)
<1>1. /\ left.type = call.type /\ left.result = (call.result /\ r)
      /\ 1 \in DOMAIN w /\ w[1] = Head(w)
      /\ \A i \in DOMAIN left.todo : /\ i \in Nat \ {0} /\ i + 1 \in DOMAIN w
                                     /\ left.todo[i] = w[i + 1]
      /\ \A i \in DOMAIN w : i = 1 \/ (i - 1 \in DOMAIN left.todo /\ left.todo[i - 1] = w[i])
  <2>1. After(call, r, s, left)
    BY RestFacts
  <2> HIDE DEF left
  <2> QED
    BY <2>1 DEF After
<1>2. call.type \in QType /\ call.result \in BOOLEAN
  BY DEF Frame
<1>3. Settled(call, map) /\ Aliases(call, map) /\ Visits(call) /\ Soured(call)
  BY DEF Sound
<1> HIDE DEF left
<1>4. Settled(left, new)
  <2>1. CASE HasAlias(call)
    <3>1. PICK i \in DOMAIN w : w[i].op = "alias"
      BY <2>1 DEF HasAlias
    <3> QED
      BY <1>1, <3>1 DEF Settled, HasAlias
  <2>2. CASE ~HasAlias(call)
    BY <1>1, <1>2, <1>3, <2>2 DEF Settled, Grows
  <2> QED
    BY <2>1, <2>2
<1>5. Aliases(left, new)
  <2> SUFFICES ASSUME NEW i \in DOMAIN left.todo, left.todo[i].op = "alias"
               PROVE  Prepared(left, new, i)
    BY DEF Aliases
  <2>1. /\ i \in Nat \ {0} /\ i + 1 \in DOMAIN w /\ w[i + 1].op = "alias"
        /\ left.todo[i] = w[i + 1]
    BY <1>1
  <2>2. Prepared(call, map, i + 1)
    BY <1>3, <2>1 DEF Aliases
  <2>3. KindOf(call.type) \in Sugar /\ \A j \in 1 .. i + 1 : w[j].type = Inner(call.type)
    BY <2>2 DEF Prepared
  <2>4. i + 1 # 1 /\ (i + 1) - 1 = i
    BY <2>1
  <2>5. \/ w[i].op = "get late"
        \/ /\ i + 1 = 2 /\ call.result
           /\ \/ w[1].op = "get"
              \/ w[1].op = "same" /\ KindOf(call.type) \in Found
    <3>1. \/ w[(i + 1) - 1].op = "get late"
          \/ /\ i + 1 = 2 /\ call.result
             /\ \/ w[1].op = "get"
                \/ w[1].op = "same" /\ KindOf(call.type) \in Found
      BY <2>2, <2>4, Zenon DEF Prepared
    <3>2. w[(i + 1) - 1] = w[i]
      BY <2>4
    <3> HIDE DEF w
    <3> QED
      BY <3>1, <3>2, Zenon
  <2>6. \A j \in 1 .. i : left.todo[j].type = Inner(call.type)
    <3> SUFFICES ASSUME NEW j \in 1 .. i PROVE left.todo[j].type = Inner(call.type)
      OBVIOUS
    <3>1. w \in Seq(Part) /\ DOMAIN w = 1 .. Len(w) /\ Len(w) \in Nat
      BY LenProperties DEF Frame
    <3>2. j + 1 \in 1 .. i + 1 /\ j + 1 \in DOMAIN w /\ j + 1 # 1 /\ j + 1 - 1 = j
      BY <2>1, <3>1
    <3>3. left.todo[j] = w[j + 1]
      BY <1>1, <3>2
    <3> QED
      BY <2>3, <3>2, <3>3
  <2>7. CASE i = 1
    <3>1. w[1].type = Inner(call.type) /\ w[1].op # "alias"
      <4>1. 1 \in 1 .. 1 + 1
        OBVIOUS
      <4> QED
        BY <2>3, <2>5, <2>7, <4>1
    <3>2. Over(call, new)
      BY <1>1, <3>1
    <3>3. w[1].op = "same" => KindOf(call.type) \in Found
      BY <2>5, <2>7
    <3>4. w[1].op = "get late" \/ (call.result /\ w[1].op \in {"get", "same"})
      BY <2>5, <2>7
    <3>5. Answered(call.type, new)
      <4>1. \/ ~call.result /\ ~Regardless(w[1])
            \/ w[1].type = NullType
            \/ new[w[1].type] # "unmapped"
            \/ w[1].op \in {"new", "same"} /\ KindOf(w[1].type) \in Shared
        BY <1>1, <3>2, Zenon DEF Over
      <4>2. ~(~call.result /\ ~Regardless(w[1]))
        BY <3>4 DEF Regardless
      <4>3. w[1].op # "new"
        BY <3>4
      <4> QED
        BY <3>1, <3>3, <4>1, <4>2, <4>3 DEF Answered
    <3> QED
      BY <1>1, <2>3, <2>6, <2>7, <3>5 DEF Prepared
  <2>8. CASE i # 1
    <3>1. w[i].op = "get late"
      <4>1. i + 1 # 2
        BY <2>1, <2>8
      <4> QED
        BY <2>5, <4>1, Zenon
    <3>2. i \in DOMAIN w
      <4>1. w \in Seq(Part) /\ DOMAIN w = 1 .. Len(w) /\ Len(w) \in Nat
        BY LenProperties DEF Frame
      <4> QED
        BY <2>1, <4>1
    <3>3. left.todo[i - 1].op = "get late"
      BY <1>1, <2>8, <3>1, <3>2
    <3>4. i \in 1 .. 3
      <4>1. i + 1 \in 1 .. 3
        BY <2>2 DEF Prepared
      <4> QED
        BY <2>1, <4>1
    <3> QED
      BY <1>1, <2>3, <2>6, <2>8, <3>3, <3>4 DEF Prepared
  <2> QED
    BY <2>7, <2>8
<1>6. Visits(left)
  BY <1>1, <1>3 DEF Visits
<1>7. Soured(left)
  BY <1>1, <1>3 DEF Soured
<1> QED
  BY <1>4, <1>5, <1>6, <1>7 DEF Sound, left

LEMMA SoundGrows ==
  ASSUME TypeOK, NEW call \in Frame, NEW map, NEW new, Grows(map, new), Sound(call, map)
  PROVE  Sound(call, new)
<1>1. call.type \in QType /\ Inner(call.type) \in QType \cup {NullType}
  BY ProgramFacts DEF Frame
<1>2. Settled(call, map) /\ Aliases(call, map) /\ Visits(call) /\ Soured(call)
  BY DEF Sound
<1>3. Settled(call, new)
  BY <1>1, <1>2 DEF Settled, Grows
<1>4. Answered(call.type, map) => Answered(call.type, new)
  BY <1>1 DEF Answered, Grows
<1>5. Aliases(call, new)
  BY <1>2, <1>4 DEF Aliases, Prepared
<1> QED
  BY <1>2, <1>3, <1>5 DEF Sound

-----------------------------------------------------------------------------
\* The calls after one has begun on top of them.
LEMMA PushFacts ==
  ASSUME NEW calls \in Seq(Frame), NEW call \in Frame
  PROVE  LET new == Append(calls, call)
         IN  /\ new \in Seq(Frame) /\ Len(new) = Len(calls) + 1 /\ Len(calls) \in Nat
             /\ new[Len(calls) + 1] = call
             /\ \A i \in 1 .. Len(calls) : new[i] = calls[i]
             /\ \A i \in 1 .. Len(new) : i = Len(calls) + 1 \/ i \in 1 .. Len(calls)
OBVIOUS

LEMMA PushKeepsSound ==
  ASSUME TypeOK, NEW calls \in Seq(Frame), NEW map, NEW new, Grows(map, new),
         AllSound(calls, map), Linked(calls), NEW call \in Frame, Sound(call, new),
         calls # << >> => call.type = Head(calls[Len(calls)].todo).type
  PROVE  AllSound(Append(calls, call), new) /\ Linked(Append(calls, call))
<1> DEFINE after == Append(calls, call)
<1>1. /\ Len(after) = Len(calls) + 1 /\ Len(calls) \in Nat
      /\ after[Len(calls) + 1] = call
      /\ \A i \in 1 .. Len(calls) : after[i] = calls[i]
      /\ \A i \in 1 .. Len(after) : i = Len(calls) + 1 \/ i \in 1 .. Len(calls)
  BY PushFacts
<1>2. calls = << >> => Len(calls) = 0
  OBVIOUS
<1> HIDE DEF after
<1>3. \A i \in 1 .. Len(calls) : Sound(calls[i], new)
  BY ElementOfSeq, SoundGrows DEF AllSound
<1>4. AllSound(after, new)
  BY <1>1, <1>3 DEF AllSound
<1>5. ASSUME NEW n \in 2 .. Len(after)
      PROVE  after[n].type = Head(after[n - 1].todo).type
  <2>1. CASE n \in 1 .. Len(calls)
    <3>1. n - 1 \in 1 .. Len(calls) /\ n \in 2 .. Len(calls)
      BY <1>1, <2>1
    <3> QED
      BY <1>1, <2>1, <3>1 DEF Linked
  <2>2. CASE n = Len(calls) + 1
    <3>1. n - 1 = Len(calls) /\ Len(calls) \in 1 .. Len(calls)
      BY <1>1, <2>2
    <3>2. after[n] = call /\ after[n - 1] = calls[Len(calls)] /\ calls # << >>
      BY <1>1, <1>2, <2>2, <3>1
    <3> QED
      BY <3>2
  <2> QED
    BY <1>1, <2>1, <2>2
<1>6. Linked(after)
  BY <1>5, Zenon DEF Linked
<1> QED
  BY <1>4, <1>6 DEF after

\* The calls after the one on top has made a step.
LEMMA TopFactsOf ==
  ASSUME NEW calls \in Seq(Frame), calls # << >>, NEW call
  PROVE  LET new == [calls EXCEPT ![Len(calls)] = call]
         IN  /\ Len(calls) \in Nat \ {0} /\ calls[Len(calls)] \in Frame
             /\ Len(new) = Len(calls) /\ new[Len(calls)] = call
             /\ \A i \in 1 .. Len(calls) : i # Len(calls) => new[i] = calls[i]
<1>1. Len(calls) \in 1 .. Len(calls) /\ Len(calls) \in Nat \ {0} /\ calls[Len(calls)] \in Frame
  <2>1. Len(calls) \in Nat \ {0}
    BY EmptySeq
  <2> QED
    BY <2>1, ElementOfSeq
<1>2. calls \in Seq(Frame \cup {call}) /\ call \in Frame \cup {call}
  <2>1. calls \in [1 .. Len(calls) -> Frame] /\ Len(calls) \in Nat
    BY LenProperties
  <2>2. calls \in [1 .. Len(calls) -> Frame \cup {call}]
    BY <2>1
  <2> QED
    BY <2>1, <2>2, SeqDef
<1>3. /\ Len([calls EXCEPT ![Len(calls)] = call]) = Len(calls)
      /\ \A j \in 1 .. Len(calls) :
           [calls EXCEPT ![Len(calls)] = call][j] = IF j = Len(calls) THEN call ELSE calls[j]
  BY <1>1, <1>2, ExceptSeq
<1> QED
  BY <1>1, <1>3, Zenon

LEMMA StepKeepsSound ==
  ASSUME TypeOK, NEW calls \in Seq(Frame), calls # << >>,
         NEW map, NEW new, Grows(map, new), AllSound(calls, map), Linked(calls),
         NEW r \in BOOLEAN, NEW s \in BOOLEAN,
         calls[Len(calls)].todo # << >>,
         Head(calls[Len(calls)].todo).op = "alias" => new[calls[Len(calls)].type] # "unmapped",
         Head(calls[Len(calls)].todo).op # "alias" => Over(calls[Len(calls)], new),
         ~r => calls[Len(calls)].type \in Spoiled
  PROVE  /\ AllSound([calls EXCEPT ![Len(calls)] = Stepped(@, r, s)], new)
         /\ Linked([calls EXCEPT ![Len(calls)] = Stepped(@, r, s)])
<1> DEFINE top == calls[Len(calls)]
           left == Stepped(top, r, s)
           after == [calls EXCEPT ![Len(calls)] = left]
<1>1. /\ Len(calls) \in Nat \ {0} /\ top \in Frame /\ Len(calls) \in 1 .. Len(calls)
      /\ Len(after) = Len(calls) /\ after[Len(calls)] = left
      /\ \A i \in 1 .. Len(calls) : i # Len(calls) => after[i] = calls[i]
  BY TopFactsOf
<1>2. Sound(left, new) /\ left.type = top.type
  <2>1. Sound(top, map)
    BY <1>1, Zenon DEF AllSound
  <2>2. top.todo # << >>
    OBVIOUS
  <2> HIDE DEF top
  <2> QED
    BY <1>1, <2>1, <2>2, SteppedIsSound, SteppedFacts, Zenon DEF top
<1>3. \A i \in 1 .. Len(calls) : Sound(calls[i], new)
  BY ElementOfSeq, SoundGrows DEF AllSound
<1> HIDE DEF after, left
<1>4. AllSound(after, new)
  BY <1>1, <1>2, <1>3 DEF AllSound
<1>5. ASSUME NEW n \in 2 .. Len(after)
      PROVE  after[n].type = Head(after[n - 1].todo).type
  <2>1. n \in 2 .. Len(calls) /\ n - 1 \in 1 .. Len(calls) /\ n - 1 # Len(calls)
        /\ n \in 1 .. Len(calls)
    BY <1>1
  <2>2. after[n].type = calls[n].type /\ after[n - 1] = calls[n - 1]
    BY <1>1, <1>2, <2>1
  <2> QED
    BY <2>1, <2>2 DEF Linked
<1>6. Linked(after)
  BY <1>5 DEF Linked
<1>7. [calls EXCEPT ![Len(calls)] = Stepped(@, r, s)] = after
  BY DEF after, left
<1> QED
  BY <1>4, <1>6, <1>7, Zenon

LEMMA PopKeepsSound ==
  ASSUME NEW calls \in Seq(Frame), calls # << >>, NEW map, AllSound(calls, map), Linked(calls),
         NEW below \in Seq(Frame), Len(below) = Len(calls) - 1,
         \A i \in 1 .. Len(below) : below[i] = calls[i]
  PROVE  AllSound(below, map) /\ Linked(below)
<1>1. Len(calls) \in Nat /\ Len(below) \in Nat
  BY LenProperties
<1>2. /\ \A n \in 1 .. Len(below) : n \in 1 .. Len(calls)
      /\ \A n \in 2 .. Len(below) : /\ n \in 2 .. Len(calls) /\ n \in 1 .. Len(below)
                                    /\ n - 1 \in 1 .. Len(below)
  BY <1>1
<1> QED
  BY <1>2 DEF AllSound, Linked

-----------------------------------------------------------------------------
\* The same for what the calls are yet to visit.
LEMMA PartsCovered ==
  ASSUME TypeOK, NEW t \in QType, NEW set \in BOOLEAN, Place(t, set)[t] = t,
         type_map[t] = "unmapped", KindOf(t) # "DependentName",
         NEW c \in Elements(Components(t))
  PROVE  \E i \in DOMAIN Todo(t) : Todo(t)[i].op \in {"new", "same"} /\ Todo(t)[i].type = c
<1>1. Places(t, set)
  BY TypeMapAssumption DEF Place
<1>2. KindOf(t) \notin Sugar
  BY <1>1 DEF Places, Sugar, Object, Invalid, Records, Around, Failing, Found, Gotten
<1>3. Covers(t, Todo(t))
  BY TodoOrderly DEF Orderly
<1>4. CASE KindOf(t) \in Shared
  <2>1. Components(t) = << >>
    BY <1>4 DEF Components, Shared, Records, Around
  <2> QED
    BY <2>1, NoElement
<1> QED
  BY <1>2, <1>3, <1>4 DEF Covers

LEMMA PushKeepsCovered ==
  ASSUME TypeOK, NEW calls \in Seq(Frame), Covered(calls, type_map),
         NEW t \in QType, type_map[t] = "unmapped", NEW set \in BOOLEAN, NEW how, NEW policy,
         Call(t, how, set, policy) \in Frame
  PROVE  Covered(Append(calls, Call(t, how, set, policy)), Place(t, set))
<1> DEFINE call == Call(t, how, set, policy)
           after == Append(calls, call)
           new == Place(t, set)
<1>1. /\ Len(after) = Len(calls) + 1 /\ Len(calls) \in Nat
      /\ after[Len(calls) + 1] = call
      /\ \A i \in 1 .. Len(calls) : after[i] = calls[i]
  BY PushFacts
<1>2. call.type = t /\ call.todo = Todo(t)
  BY DEF Call
<1>3. Grows(type_map, new) /\ type_map \in MapType
  BY PlaceFacts DEF TypeOK, MapType
<1>4. \A u \in QType : u # t => new[u] = type_map[u]
  BY <1>3 DEF Place, MapType
<1> HIDE DEF call, after
<1>5. SUFFICES ASSUME NEW u \in QType, new[u] = u, KindOf(u) # "DependentName",
                      u \notin Spoiled, NEW c \in Elements(Components(u))
               PROVE  new[c] # "unmapped" \/ KindOf(c) \in Shared \/ ToVisit(after, u, c)
  BY DEF Covered, call, after
<1>6. CASE u = t
  <2>1. \E i \in DOMAIN call.todo : call.todo[i].op \in {"new", "same"} /\ call.todo[i].type = c
    BY <1>2, <1>5, <1>6, PartsCovered
  <2>2. Len(calls) + 1 \in 1 .. Len(after)
    BY <1>1
  <2> QED
    BY <1>1, <1>2, <1>6, <2>1, <2>2 DEF ToVisit
<1>7. CASE u # t
  <2>1. type_map[u] = u
    BY <1>4, <1>5, <1>7
  <2>2. type_map[c] # "unmapped" \/ KindOf(c) \in Shared \/ ToVisit(calls, u, c)
    BY <1>5, <2>1 DEF Covered
  <2>3. ToVisit(calls, u, c) => ToVisit(after, u, c)
    <3>1. \A n \in 1 .. Len(calls) : n \in 1 .. Len(after)
      BY <1>1
    <3> QED
      BY <1>1, <3>1 DEF ToVisit
  <2>4. type_map[c] # "unmapped" => new[c] # "unmapped"
    <3>1. c \in QType
      <4>1. PICK i \in DOMAIN Components(u) : c = Components(u)[i]
        BY DEF Elements
      <4> QED
        BY <4>1, ComponentsTyped
    <3> QED
      BY <1>3, <3>1 DEF Grows
  <2> QED
    BY <2>2, <2>3, <2>4
<1> QED
  BY <1>6, <1>7

LEMMA StepKeepsCovered ==
  ASSUME TypeOK, NEW calls \in Seq(Frame), calls # << >>,
         NEW map, NEW new, Grows(map, new), AllSound(calls, map), Covered(calls, map),
         \A u \in QType : new[u] = u => map[u] = u,
         NEW r \in BOOLEAN, NEW s \in BOOLEAN,
         calls[Len(calls)].todo # << >>,
         Head(calls[Len(calls)].todo).op # "alias" => Over(calls[Len(calls)], new)
  PROVE  Covered([calls EXCEPT ![Len(calls)] = Stepped(@, r, s)], new)
<1> DEFINE top == calls[Len(calls)]
           left == Stepped(top, r, s)
           after == [calls EXCEPT ![Len(calls)] = left]
<1>1. /\ Len(calls) \in Nat \ {0} /\ top \in Frame /\ Len(calls) \in 1 .. Len(calls)
      /\ Len(after) = Len(calls) /\ after[Len(calls)] = left
      /\ \A i \in 1 .. Len(calls) : i # Len(calls) => after[i] = calls[i]
  BY TopFactsOf
<1>2. /\ left.type = top.type /\ top.todo[1] = Head(top.todo)
      /\ \A i \in DOMAIN top.todo : i = 1 \/ (i - 1 \in DOMAIN left.todo
                                               /\ left.todo[i - 1] = top.todo[i])
  <2>1. top.todo # << >> /\ left = Stepped(top, r, s)
    BY Zenon
  <2> HIDE DEF top, left
  <2>2. After(top, r, s, left)
    BY <1>1, <2>1, RestFacts, Zenon
  <2> QED
    BY <2>2 DEF After
<1>3. Soured(top) /\ (Head(top.todo).op # "alias" => Over(top, new))
  BY <1>1, Zenon DEF AllSound, Sound
<1> HIDE DEF after, left, top
<1>4. SUFFICES ASSUME NEW t \in QType, new[t] = t, KindOf(t) # "DependentName",
                      t \notin Spoiled, NEW c \in Elements(Components(t))
               PROVE  new[c] # "unmapped" \/ KindOf(c) \in Shared \/ ToVisit(after, t, c)
  BY DEF Covered, left, after, top
<1>5. map[c] # "unmapped" \/ KindOf(c) \in Shared \/ ToVisit(calls, t, c)
  BY <1>4 DEF Covered
<1>6. c \in QType
  <2>1. PICK i \in DOMAIN Components(t) : c = Components(t)[i]
    BY DEF Elements
  <2> QED
    BY <2>1, ComponentsTyped
<1>7. ASSUME NEW n \in 1 .. Len(calls), calls[n].type = t, NEW i \in DOMAIN calls[n].todo,
             calls[n].todo[i].op \in {"new", "same"}, calls[n].todo[i].type = c
      PROVE  new[c] # "unmapped" \/ KindOf(c) \in Shared \/ ToVisit(after, t, c)
  <2>1. CASE n # Len(calls)
    <3>1. after[n] = calls[n] /\ n \in 1 .. Len(after)
      BY <1>1, <2>1
    <3> QED
      BY <1>7, <3>1 DEF ToVisit
  <2>2. CASE n = Len(calls) /\ i # 1
    <3>1. i - 1 \in DOMAIN after[n].todo /\ after[n].todo[i - 1] = calls[n].todo[i]
          /\ n \in 1 .. Len(after) /\ after[n].type = t
      BY <1>1, <1>2, <1>7, <2>2 DEF top
    <3> QED
      BY <1>7, <3>1 DEF ToVisit
  <2>3. CASE n = Len(calls) /\ i = 1
    <3>1. top.todo[1].op \in {"new", "same"} /\ top.todo[1].type = c /\ top.type = t
      BY <1>7, <2>3 DEF top
    <3>2. Over(top, new)
      BY <1>2, <1>3, <3>1
    <3>3. top.result
      BY <1>3, <1>4, <3>1 DEF Soured
    <3>4. Head(top.todo).op \in {"new", "same"} /\ Head(top.todo).type = c
      BY <1>2, <3>1
    <3>5. c # NullType
      BY <1>6, TypeMapAssumption
    <3> QED
      BY <3>2, <3>3, <3>4, <3>5 DEF Over
  <2> QED
    BY <2>1, <2>2, <2>3
<1> QED
  BY <1>5, <1>6, <1>7 DEF ToVisit, Grows

LEMMA PopKeepsCovered ==
  ASSUME NEW calls \in Seq(Frame), calls # << >>, NEW map, Covered(calls, map),
         calls[Len(calls)].todo = << >>,
         NEW below \in Seq(Frame), Len(below) = Len(calls) - 1,
         \A i \in 1 .. Len(below) : below[i] = calls[i]
  PROVE  Covered(below, map)
<1>1. Len(calls) \in Nat /\ Len(below) \in Nat
  BY LenProperties
<1>2. DOMAIN calls[Len(calls)].todo = {}
  OBVIOUS
<1>3. \A n \in 1 .. Len(calls) : n = Len(calls) \/ n \in 1 .. Len(below)
  BY <1>1
<1>4. \A t, c : ToVisit(calls, t, c) => ToVisit(below, t, c)
  BY <1>2, <1>3 DEF ToVisit
<1> QED
  BY <1>4 DEF Covered

-----------------------------------------------------------------------------
LEMMA MapPreserved ==
  ASSUME MapInv, IInv', UNCHANGED program,
         AllSound(frames', type_map'), Linked(frames'),
         outcome' = "running" => Covered(frames', type_map'),
         outcome' = "end()" =>
           \E t \in QType : KindOf(t) \in Found /\ KindOf(Inner(t)) \in Shared
  PROVE  MapInv'
<1>1. AllSound(frames, type_map)'
  <2> SUFFICES ASSUME NEW n \in 1 .. Len(frames') PROVE Sound(frames[n], type_map)'
    BY DEF AllSound
  <2>1. Sound(frames'[n], type_map')
    BY DEF AllSound
  <2>2. Settled(frames[n], type_map)'
    BY <2>1 DEF Sound, Settled, HasAlias, KindOf
  <2>3. Aliases(frames[n], type_map)'
    <3>1. Aliases(frames'[n], type_map')
      BY <2>1 DEF Sound
    <3>2. \A i : Prepared(frames'[n], type_map', i) => Prepared(frames[n], type_map, i)'
      BY DEF Prepared, Answered, KindOf, Inner
    <3> QED
      BY <3>1, <3>2 DEF Aliases
  <2>4. Visits(frames[n])'
    <3>1. Visits(frames'[n])
      BY <2>1 DEF Sound
    <3> QED
      BY <3>1 DEF Visits, Near, KindOf, Inner, Parts
  <2>5. Soured(frames[n])'
    <3>1. Soured(frames'[n])
      BY <2>1 DEF Sound
    <3>2. Spoiled' = Spoiled
      BY DEF Spoiled, KindOf, Inner, Parts
    <3> QED
      BY <3>1, <3>2 DEF Soured
  <2> QED
    BY <2>2, <2>3, <2>4, <2>5 DEF Sound
<1>2. Covered(frames, type_map)' <=> Covered(frames', type_map')
  BY DEF Covered, Components, ToVisit, Spoiled, KindOf, Inner, Parts
<1>3. EndOnlyAtRecords'
  BY DEF EndOnlyAtRecords, KindOf, Inner, Shared
<1> QED
  BY <1>1, <1>2, <1>3 DEF MapInv, Linked

LEMMA NoCallsLeft ==
  ASSUME NEW map
  PROVE  AllSound(<< >>, map) /\ Linked(<< >>)
BY DEF AllSound, Linked

\* The program ends, other than by the use of an iterator at its end.
LEMMA EndIsSound ==
  ASSUME MapInv, IInv', UNCHANGED program, frames' = << >>,
         outcome' \notin {"running", "end()"}
  PROVE  MapInv'
BY NoCallsLeft, MapPreserved

LEMMA BeginIsSound ==
  ASSUME MapInv, IInv', NEW t \in QType, type_map[t] = "unmapped",
         NEW how \in Op \ {"alias"}, NEW set \in BOOLEAN, NEW policy \in BOOLEAN,
         Begun(how, set),
         NEW below \in Seq(Frame), AllSound(below, type_map), Linked(below),
         outcome = "running" => Covered(below, type_map),
         below # << >> => t = Head(below[Len(below)].todo).type,
         TraverseType(t, how, set, policy, below),
         UNCHANGED program
  PROVE  MapInv'
<1> DEFINE call == Call(t, how, set, policy)
<1>1. TypeOK
  BY DEF MapInv, IInv
<1>2. type_map' = Place(t, set) /\ Grows(type_map, Place(t, set))
  BY <1>1, PlaceFacts DEF TraverseType
<1>3. \/ frames' = << >> /\ outcome' \in {"overflow", "no policy", "terminated"}
      \/ /\ frames' = Append(below, call) /\ outcome' = outcome
         /\ KindOf(t) = "Other" => set
  BY DEF TraverseType, End
<1>4. CASE frames' = << >> /\ outcome' \in {"overflow", "no policy", "terminated"}
  BY <1>4, EndIsSound
<1>5. CASE /\ frames' = Append(below, call) /\ outcome' = outcome
           /\ KindOf(t) = "Other" => set
  <2>1. call \in Frame /\ Sound(call, Place(t, set)) /\ call.type = t
    <3>1. how \in Op
      OBVIOUS
    <3>2. call \in Frame
      BY <1>1, <1>5, <3>1, CallFacts
    <3>3. Sound(call, Place(t, set))
      BY <1>1, FreshIsSound
    <3> QED
      BY <3>2, <3>3 DEF Call
  <2>2. AllSound(Append(below, call), Place(t, set)) /\ Linked(Append(below, call))
    <3> HIDE DEF call
    <3> QED
      BY <1>1, <1>2, <2>1, PushKeepsSound
  <2>3. outcome' = "running" => Covered(Append(below, call), Place(t, set))
    BY <1>1, <1>5, <2>1, PushKeepsCovered
  <2>4. outcome' = "end()" =>
          \E u \in QType : KindOf(u) \in Found /\ KindOf(Inner(u)) \in Shared
    BY <1>5 DEF MapInv, EndOnlyAtRecords, Shared
  <2> HIDE DEF call
  <2> QED
    BY <1>2, <1>5, <2>2, <2>3, <2>4, MapPreserved
<1> QED
  BY <1>3, <1>4, <1>5

LEMMA GetIsSound ==
  ASSUME MapInv, IInv', frames = << >>, NEW t \in QType, NEW policy \in BOOLEAN,
         Get(t, policy), UNCHANGED program
  PROVE  MapInv'
<1>1. CASE Mapped(t)
  <2>1. UNCHANGED << type_map, frames, outcome >>
    BY <1>1 DEF Get
  <2> QED
    BY <2>1, MapPreserved DEF MapInv, EndOnlyAtRecords, Shared
<1>2. CASE ~Mapped(t)
  <2>1. TraverseType(t, "get", FALSE, policy, << >>) /\ type_map[t] = "unmapped"
    BY <1>2 DEF Get, Mapped
  <2>2. << >> \in Seq(Frame) /\ AllSound(<< >>, type_map) /\ Linked(<< >>)
    BY NoCallsLeft
  <2>3. outcome = "running" => Covered(<< >>, type_map)
    BY DEF MapInv
  <2>4. "get" \in Op \ {"alias"} /\ FALSE \in BOOLEAN /\ Begun("get", FALSE)
    BY DEF Op, Begun
  <2> QED
    BY <2>1, <2>2, <2>3, <2>4, BeginIsSound
<1> QED
  BY <1>1, <1>2

\* The call on the top of some calls makes a step.
LEMMA StepIsSound ==
  ASSUME MapInv, IInv', NEW calls \in Seq(Frame), calls # << >>,
         AllSound(calls, type_map), Linked(calls),
         outcome = "running" => Covered(calls, type_map),
         NEW r \in BOOLEAN, NEW s \in BOOLEAN,
         calls[Len(calls)].todo # << >>,
         frames' = [calls EXCEPT ![Len(calls)] = Stepped(@, r, s)],
         Grows(type_map, type_map'),
         \A u \in QType : type_map'[u] = u => type_map[u] = u,
         Head(calls[Len(calls)].todo).op = "alias"
           => type_map'[calls[Len(calls)].type] # "unmapped",
         Head(calls[Len(calls)].todo).op # "alias" => Over(calls[Len(calls)], type_map'),
         ~r => calls[Len(calls)].type \in Spoiled,
         UNCHANGED << program, outcome >>
  PROVE  MapInv'
<1>1. TypeOK
  BY DEF MapInv, IInv
<1>2. AllSound(frames', type_map') /\ Linked(frames')
  BY <1>1, StepKeepsSound
<1>3. outcome' = "running" => Covered(frames', type_map')
  BY <1>1, StepKeepsCovered
<1>4. outcome' = "end()" =>
        \E u \in QType : KindOf(u) \in Found /\ KindOf(Inner(u)) \in Shared
  BY DEF MapInv, EndOnlyAtRecords, Shared
<1> QED
  BY <1>2, <1>3, <1>4, MapPreserved

-----------------------------------------------------------------------------
\* The call on top of those in progress, and the one that waits for it.
LEMMA TopIsSound ==
  ASSUME MapInv, frames # << >>
  PROVE  /\ frames \in Seq(Frame) /\ Top \in Frame /\ Sound(Top, type_map)
         /\ Top = frames[Len(frames)]
         /\ Below \in Seq(Frame) /\ AllSound(Below, type_map) /\ Linked(Below)
         /\ Below # << >> => /\ Below[Len(Below)] \in Frame
                             /\ Sound(Below[Len(Below)], type_map)
                             /\ Below[Len(Below)].todo # << >>
                             /\ Head(Below[Len(Below)].todo).op = Top.how
                             /\ Head(Below[Len(Below)].todo).type = Top.type
<1>1. /\ frames \in Seq(Frame) /\ Len(frames) \in Nat \ {0} /\ Top \in Frame
      /\ Below \in Seq(Frame) /\ Len(Below) = Len(frames) - 1
      /\ Below # << >> => Fits(Top, Below[Len(Below)]) /\ Below[Len(Below)] \in Frame
  BY TopFacts DEF MapInv
<1>2. \A i \in 1 .. Len(Below) : Below[i] = frames[i]
  BY TopFacts DEF MapInv
<1>3. AllSound(frames, type_map) /\ Linked(frames)
  BY DEF MapInv
<1>4. Sound(Top, type_map)
  BY <1>1, <1>3 DEF Top, AllSound
<1>5. AllSound(Below, type_map) /\ Linked(Below)
  BY <1>1, <1>2, <1>3, PopKeepsSound
<1>6. ASSUME Below # << >>
      PROVE  /\ Sound(Below[Len(Below)], type_map)
             /\ Head(Below[Len(Below)].todo).type = Top.type
  <2>1. Len(Below) \in 1 .. Len(Below) /\ Len(Below) \in Nat \ {0}
    <3>1. Below \in Seq(Frame) /\ Below # << >>
      BY <1>1, <1>6
    <3> HIDE DEF Below
    <3>2. Len(Below) \in Nat
      BY <3>1, LenProperties
    <3>3. Len(Below) # 0
      BY <3>1, EmptySeq
    <3> QED
      BY <3>2, <3>3
  <2>2. Len(frames) \in 2 .. Len(frames) /\ Len(frames) - 1 = Len(Below)
    BY <1>1, <2>1
  <2>3. frames[Len(frames)].type = Head(frames[Len(frames) - 1].todo).type
    BY <1>3, <2>2 DEF Linked
  <2> QED
    BY <1>2, <1>5, <2>1, <2>2, <2>3 DEF AllSound, Top
<1> QED
  BY <1>1, <1>4, <1>5, <1>6 DEF Fits, Top

LEMMA BelowIsCovered ==
  ASSUME MapInv, frames # << >>, Top.todo = << >>, outcome = "running"
  PROVE  Covered(Below, type_map)
<1>1. /\ frames \in Seq(Frame) /\ Len(frames) \in Nat \ {0}
      /\ Below \in Seq(Frame) /\ Len(Below) = Len(frames) - 1
      /\ \A i \in 1 .. Len(Below) : Below[i] = frames[i]
  BY TopFacts DEF MapInv
<1> QED
  BY <1>1, PopKeepsCovered DEF MapInv, Top

\* The call on top of those in progress makes a step.
LEMMA StepTopIsSound ==
  ASSUME MapInv, IInv', frames # << >>, Top.todo # << >>, NEW r \in BOOLEAN, NEW s \in BOOLEAN,
         StepTop(r, s), Grows(type_map, type_map'),
         \A u \in QType : type_map'[u] = u => type_map[u] = u,
         Current.op = "alias" => type_map'[Top.type] # "unmapped",
         Current.op # "alias" => Over(Top, type_map'),
         ~r => Top.type \in Spoiled,
         UNCHANGED << program, outcome >>
  PROVE  MapInv'
<1>1. /\ frames \in Seq(Frame) /\ Top = frames[Len(frames)]
      /\ AllSound(frames, type_map) /\ Linked(frames)
      /\ outcome = "running" => Covered(frames, type_map)
  BY TopIsSound DEF MapInv
<1>2. frames' = [frames EXCEPT ![Len(frames)] = Stepped(@, r, s)]
  BY DEF StepTop
<1>3. /\ frames[Len(frames)].todo # << >>
      /\ Head(frames[Len(frames)].todo).op = "alias"
           => type_map'[frames[Len(frames)].type] # "unmapped"
      /\ Head(frames[Len(frames)].todo).op # "alias" => Over(frames[Len(frames)], type_map')
      /\ ~r => frames[Len(frames)].type \in Spoiled
  BY <1>1 DEF Current
<1> QED
  BY <1>1, <1>2, <1>3, StepIsSound

\* A call returns, to the one that waits for it.
LEMMA ReturnIsSound ==
  ASSUME MapInv, IInv', frames # << >>, Top.todo = << >>, Below # << >>,
         NEW r \in BOOLEAN, NEW s \in BOOLEAN,
         frames' = [Below EXCEPT ![Len(Below)] = Stepped(@, r, s)],
         Mapped(Top.type) \/ Top.how \in {"new", "same"},
         ~r => ~Top.result /\ Top.how \in {"new", "same"},
         UNCHANGED << program, type_map, outcome >>
  PROVE  MapInv'
<1> DEFINE below == Below[Len(Below)]
<1>1. /\ Below \in Seq(Frame) /\ AllSound(Below, type_map) /\ Linked(Below)
      /\ below \in Frame /\ Sound(below, type_map) /\ below.todo # << >>
      /\ Head(below.todo).op = Top.how /\ Head(below.todo).type = Top.type
      /\ Top \in Frame /\ Sound(Top, type_map) /\ Top.how # "alias"
  BY TopIsSound, TopFacts DEF MapInv
<1>2. outcome = "running" => Covered(Below, type_map)
  BY BelowIsCovered
<1>3. type_map[Top.type] # "unmapped" \/ KindOf(Top.type) \in Shared
  <2>1. ~HasAlias(Top)
    <3>1. DOMAIN Top.todo = {}
      OBVIOUS
    <3> QED
      BY <3>1 DEF HasAlias
  <2> QED
    BY <1>1, <2>1 DEF Sound, Settled
<1>4. Over(below, type_map')
  BY <1>1, <1>3 DEF Over, Mapped
<1>5. ~r => below.type \in Spoiled
  <2> SUFFICES ASSUME ~r PROVE below.type \in Spoiled
    OBVIOUS
  <2>1. Top.type \in Spoiled /\ Top.how \in {"new", "same"}
    BY <1>1 DEF Sound, Soured
  <2>2. 1 \in DOMAIN below.todo /\ below.todo[1] = Head(below.todo)
    <3> HIDE DEF below
    <3>1. After(below, TRUE, TRUE, Stepped(below, TRUE, TRUE))
      BY <1>1, RestFacts
    <3> QED
      BY <3>1 DEF After
  <2>3. Top.type \in Near(below.type) /\ below.type \in QType
    BY <1>1, <2>1, <2>2 DEF Sound, Visits, Frame
  <2> QED
    BY <2>1, <2>3, SpoiledNearby
<1>6. Grows(type_map, type_map') /\ \A u \in QType : type_map'[u] = u => type_map[u] = u
  BY DEF Grows
<1> QED
  BY <1>1, <1>2, <1>4, <1>5, <1>6, StepIsSound

LEMMA TraverseIsSound ==
  ASSUME MapInv, Traverse
  PROVE  MapInv'
<1>1. IInv /\ IInv' /\ TypeOK
  BY TraversePreserves DEF MapInv, IInv
<1>2. Grows(type_map, type_map)
  BY DEF Grows
<1>3. CASE SkipPart
  <2>1. /\ frames # << >> /\ Top.todo # << >> /\ ~Top.result /\ ~Regardless(Current)
        /\ StepTop(FALSE, FALSE) /\ UNCHANGED << program, outcome, type_map >>
    BY <1>3 DEF SkipPart
  <2>2. Current.op # "alias"
    BY <2>1 DEF Regardless
  <2>3. Over(Top, type_map') /\ Top.type \in Spoiled
    BY <2>1, TopIsSound DEF Over, Current, Sound, Soured
  <2> QED
    BY <1>1, <1>2, <2>1, <2>2, <2>3, StepTopIsSound
<1>4. CASE KnownPart
  <2>1. /\ frames # << >> /\ Top.todo # << >> /\ Current.op # "alias"
        /\ StepTop(TRUE, FALSE) /\ UNCHANGED << program, outcome, type_map >>
        /\ IF Current.type = NullType THEN Current.op = "get" ELSE Mapped(Current.type)
    BY <1>4 DEF KnownPart, Busy
  <2>2. Over(Top, type_map')
    BY <2>1 DEF Over, Current, Mapped
  <2> QED
    BY <1>1, <1>2, <2>1, <2>2, StepTopIsSound
<1>5. CASE UnknownPart
  <2> DEFINE set == Current.op = "same" /\ Top.set
             policy == Current.op # "get late" /\ Top.policy
  <2>1. /\ frames # << >> /\ Top.todo # << >> /\ Current.op # "alias"
        /\ Current.type # NullType /\ ~Mapped(Current.type)
        /\ TraverseType(Current.type, Current.op, set, policy, frames)
        /\ UNCHANGED program
    BY <1>5 DEF UnknownPart, Busy
  <2>2. /\ frames \in Seq(Frame) /\ Top \in Frame /\ Current \in Part
        /\ Top = frames[Len(frames)]
    BY <1>1, <2>1, TopFacts, TopIsSound
  <2>3. Current.type \in QType /\ Current.op \in Op \ {"alias"}
    BY <2>1, <2>2 DEF Part
  <2>4. set \in BOOLEAN /\ policy \in BOOLEAN /\ Begun(Current.op, set)
    BY <2>2 DEF Frame, Begun
  <2>5. Current.type = Head(frames[Len(frames)].todo).type /\ type_map[Current.type] = "unmapped"
    BY <2>1, <2>2 DEF Current, Mapped
  <2>6. /\ AllSound(frames, type_map) /\ Linked(frames)
        /\ outcome = "running" => Covered(frames, type_map)
    BY DEF MapInv
  <2> HIDE DEF set, policy
  <2> QED
    BY <1>1, <2>1, <2>2, <2>3, <2>4, <2>5, <2>6, BeginIsSound
<1>6. CASE NullPart
  BY <1>1, <1>6, EndIsSound DEF NullPart, End
<1>7. CASE Alias
  <2> DEFINE object == ObjectOf(Current.type)
  <2>1. /\ frames # << >> /\ Top.todo # << >> /\ object # "unmapped" /\ Current.op = "alias"
        /\ type_map' = [type_map EXCEPT ![Top.type] = IF @ = "unmapped" THEN object ELSE @]
        /\ StepTop(TRUE, KindOf(Top.type) = "Elaborated")
        /\ UNCHANGED << program, outcome >>
    BY <1>7 DEF Alias, Busy
  <2>2. /\ Top \in Frame /\ Current \in Part /\ Sound(Top, type_map) /\ Top.type \in QType
        /\ type_map \in MapType
    BY <1>1, <2>1, TopFacts, TopIsSound, Untouched DEF Frame
  <2>3. KindOf(Top.type) \in Sugar
    <3>1. 1 \in DOMAIN Top.todo /\ Top.todo[1] = Head(Top.todo)
      <4>1. After(Top, TRUE, TRUE, Stepped(Top, TRUE, TRUE))
        BY <2>1, <2>2, RestFacts
      <4> QED
        BY <4>1 DEF After
    <3> QED
      BY <2>1, <2>2, <3>1 DEF Sound, Aliases, Prepared, Current
  <2>4. object \in { u \in QType : KindOf(u) \notin Sugar } \cup {NullType, "unmapped"}
    <3>1. Current.type \in QType \cup {NullType}
      BY <2>2 DEF Part
    <3> QED
      BY <2>2, <3>1 DEF ObjectOf, MapType
  <2> HIDE DEF object
  <2>5. Grows(type_map, type_map') /\ type_map'[Top.type] # "unmapped"
    BY <2>1, <2>2 DEF MapType, Grows
  <2>6. \A u \in QType : type_map'[u] = u => type_map[u] = u
    <3> SUFFICES ASSUME NEW u \in QType, type_map'[u] = u PROVE type_map[u] = u
      OBVIOUS
    <3>1. u # NullType /\ u # "unmapped"
      BY TypeMapAssumption
    <3>2. CASE u = Top.type
      <4>1. object # u
        BY <2>3, <2>4, <3>1, <3>2
      <4> QED
        BY <2>1, <2>2, <3>2, <4>1 DEF MapType
    <3>3. CASE u # Top.type
      BY <2>1, <2>2, <3>3 DEF MapType
    <3> QED
      BY <3>2, <3>3
  <2>7. (KindOf(Top.type) = "Elaborated") \in BOOLEAN
    OBVIOUS
  <2> QED
    BY <1>1, <2>1, <2>5, <2>6, <2>7, StepTopIsSound
<1>8. CASE AliasOfUnmapped
  <2>1. /\ frames # << >> /\ Top.todo # << >> /\ Current.op = "alias"
        /\ ObjectOf(Current.type) = "unmapped"
        /\ outcome' = "end()" /\ frames' = << >> /\ UNCHANGED << program, type_map >>
    BY <1>8 DEF AliasOfUnmapped, Busy, End
  <2>2. Top \in Frame /\ Sound(Top, type_map) /\ Top.type \in QType
    BY <2>1, TopIsSound DEF Frame
  <2>3. 1 \in DOMAIN Top.todo /\ Top.todo[1] = Current
    <3>1. After(Top, TRUE, TRUE, Stepped(Top, TRUE, TRUE))
      BY <2>1, <2>2, RestFacts
    <3> QED
      BY <3>1 DEF After, Current
  <2>4. Prepared(Top, type_map, 1)
    BY <2>1, <2>2, <2>3 DEF Sound, Aliases
  <2>5. Answered(Top.type, type_map) /\ Current.type = Inner(Top.type)
    <3>1. 1 \in 1 .. 1
      OBVIOUS
    <3> QED
      BY <2>3, <2>4, <3>1 DEF Prepared
  <2>6. KindOf(Top.type) \in Found /\ KindOf(Inner(Top.type)) \in Shared
    BY <2>1, <2>5, TypeMapAssumption DEF Answered, ObjectOf
  <2> QED
    BY <1>1, <2>1, <2>2, <2>6, NoCallsLeft, MapPreserved
<1>9. CASE ReturnToVisitor
  <2>1. /\ frames # << >> /\ Top.todo = << >> /\ Top.how \in {"new", "same"}
        /\ frames' = [Below EXCEPT ![Len(Below)] =
                        Stepped(@, Top.result, Top.how = "same" /\ Top.set)]
        /\ UNCHANGED << program, type_map, outcome >>
    BY <1>9 DEF ReturnToVisitor, Done
  <2>2. Below # << >> /\ Top \in Frame
    BY <1>1, <2>1, TopFacts
  <2>3. Top.result \in BOOLEAN /\ (Top.how = "same" /\ Top.set) \in BOOLEAN
    BY <2>2 DEF Frame
  <2> QED
    BY <1>1, <2>1, <2>2, <2>3, ReturnIsSound
<1>10. CASE ReturnFromGet
  <2>1. frames # << >> /\ Top.todo = << >> /\ UNCHANGED << program, type_map >>
    BY <1>10 DEF ReturnFromGet, Done
  <2>2. CASE ~Mapped(Top.type)
    BY <1>1, <1>10, <2>1, <2>2, EndIsSound DEF ReturnFromGet, End
  <2>3. CASE Mapped(Top.type) /\ Below # << >>
    <3>1. frames' = [Below EXCEPT ![Len(Below)] = Stepped(@, TRUE, FALSE)] /\ UNCHANGED outcome
      BY <1>10, <2>3 DEF ReturnFromGet
    <3> QED
      BY <1>1, <2>1, <2>3, <3>1, ReturnIsSound
  <2>4. CASE Mapped(Top.type) /\ Below = << >>
    <3>1. frames' = << >> /\ UNCHANGED outcome
      BY <1>10, <2>4 DEF ReturnFromGet
    <3>2. outcome = "running" => Covered(<< >>, type_map)
      BY <2>1, <2>4, BelowIsCovered
    <3>3. outcome' = "end()" =>
            \E u \in QType : KindOf(u) \in Found /\ KindOf(Inner(u)) \in Shared
      BY <3>1 DEF MapInv, EndOnlyAtRecords, Shared
    <3> QED
      BY <1>1, <2>1, <3>1, <3>2, <3>3, NoCallsLeft, MapPreserved
  <2> QED
    BY <2>2, <2>3, <2>4
<1> QED
  BY <1>3, <1>4, <1>5, <1>6, <1>7, <1>8, <1>9, <1>10 DEF Traverse

LEMMA AskedTyped ==
  ASSUME MapInv
  PROVE  /\ Request => program.roots[requested + 1] \in QType
         /\ \A t \in reached, i \in 1 .. Cardinality(QType) :
              AskFor(t, i) => Components(type_map[t])[i] \in QType
<1>1. IInv /\ TypeOK
  BY DEF MapInv, IInv
<1>2. ASSUME Request
      PROVE  program.roots[requested + 1] \in QType
  <2>1. program.roots \in Seq(QType) /\ requested \in 0 .. Len(program.roots)
    BY <1>1, Untouched DEF Program
  <2>2. requested + 1 \in 1 .. Len(program.roots)
    BY <1>2, <2>1 DEF Request
  <2> QED
    BY <2>1, <2>2, ElementOfSeq
<1>3. ASSUME NEW t \in reached, NEW i \in 1 .. Cardinality(QType), AskFor(t, i)
      PROVE  Components(type_map[t])[i] \in QType
  <2>1. type_map[t] # NullType /\ type_map[t] # "unmapped" /\ i \in DOMAIN Components(type_map[t])
    BY <1>3 DEF AskFor, Mapped
  <2>2. type_map[t] \in QType
    BY <1>1, <2>1, Untouched DEF MapType
  <2> QED
    BY <1>1, <2>1, <2>2, ComponentsTyped
<1> QED
  BY <1>2, <1>3

LEMMA MapInvInit == Init => MapInv
<1> SUFFICES ASSUME Init PROVE MapInv
  OBVIOUS
<1>1. IInv
  BY InitHolds
<1>2. AllSound(frames, type_map) /\ Linked(frames)
  BY NoCallsLeft DEF Init
<1>3. Covered(frames, type_map)
  BY TypeMapAssumption DEF Init, Covered
<1> QED
  BY <1>1, <1>2, <1>3 DEF Init, MapInv, EndOnlyAtRecords

LEMMA MapInvNext == MapInv /\ [Next]_typeMapVars => MapInv'
<1> SUFFICES ASSUME MapInv, [Next]_typeMapVars PROVE MapInv'
  OBVIOUS
<1>1. IInv'
  BY NextPreserves DEF MapInv
<1>2. CASE Request
  <2>1. frames = << >> /\ Get(program.roots[requested + 1], TRUE) /\ UNCHANGED program
    BY <1>2 DEF Request, Idle
  <2> QED
    BY <1>1, <1>2, <2>1, AskedTyped, GetIsSound
<1>3. CASE Ask
  <2>1. PICK t \in reached, i \in 1 .. Cardinality(QType) : AskFor(t, i)
    BY <1>3 DEF Ask
  <2>2. /\ frames = << >> /\ Get(Components(type_map[t])[i], FALSE) /\ UNCHANGED program
    BY <2>1 DEF AskFor, AllRequested, Idle
  <2> QED
    BY <1>1, <2>1, <2>2, AskedTyped, GetIsSound
<1>4. CASE Traverse
  BY <1>4, TraverseIsSound
<1>5. CASE Reach \/ UNCHANGED typeMapVars
  <2>1. UNCHANGED << program, type_map, frames, outcome >>
    BY <1>5 DEF Reach, typeMapVars
  <2> QED
    BY <1>1, <2>1, MapPreserved DEF MapInv, EndOnlyAtRecords, Shared
<1> QED
  BY <1>2, <1>3, <1>4, <1>5 DEF Next

LEMMA MapInvHolds == Spec => []MapInv
BY MapInvInit, MapInvNext, PTL DEF Spec

(***************************************************************************)
(* The iterator that WalkUpFromParenType and its like use unchecked is the *)
(* end of the map only in a program with a record, or a type of a kind     *)
(* that ClangTypeVisitor does not know, itself in parentheses or behind    *)
(* decltype.                                                               *)
(***************************************************************************)
THEOREM EndOnlyAtRecordsCorrect == Spec => []EndOnlyAtRecords
<1>1. MapInv => EndOnlyAtRecords
  BY DEF MapInv
<1> QED
  BY <1>1, MapInvHolds, PTL

(***************************************************************************)
(* What the getters of a type that was traversed ask for is in the map     *)
(* whenever no call is in progress, with the exceptions that the property  *)
(* names: no getter needs the printing policy that it does not have.       *)
(***************************************************************************)
THEOREM ComponentsMappedCorrect == Spec => []ComponentsMapped
<1>1. ASSUME MapInv
      PROVE  ComponentsMapped
  <2> SUFFICES ASSUME Idle, NEW t \in QType, type_map[t] = t,
                      KindOf(t) # "DependentName", t \notin Spoiled,
                      NEW c \in Elements(Components(t))
               PROVE  Mapped(c) \/ KindOf(c) \in Shared
    BY DEF ComponentsMapped, Shared
  <2>1. frames = << >> /\ Covered(frames, type_map)
    BY <1>1 DEF Idle, MapInv
  <2>2. type_map[c] # "unmapped" \/ KindOf(c) \in Shared \/ ToVisit(frames, t, c)
    BY <2>1 DEF Covered
  <2>3. ~ToVisit(frames, t, c)
    BY <2>1 DEF ToVisit
  <2> QED
    BY <2>2, <2>3 DEF Mapped
<1> QED
  BY <1>1, MapInvHolds, PTL

-----------------------------------------------------------------------------
\* How deep the calls are: the invariant is kept.
LEMMA SugarHasAlias ==
  ASSUME NEW call, NEW map, Sound(call, map), HasAlias(call)
  PROVE  KindOf(call.type) \in Sugar /\ KindOf(call.type) \notin Shared
<1>1. PICK i \in DOMAIN call.todo : call.todo[i].op = "alias"
  BY DEF HasAlias
<1>2. Prepared(call, map, i)
  BY <1>1 DEF Sound, Aliases
<1> QED
  BY <1>2 DEF Prepared, Sugar, Shared, Records, Found, Gotten

LEMMA PushKeepsDeep ==
  ASSUME TypeOK, NEW calls \in Seq(Frame), AllSound(calls, type_map), Deep(calls, type_map),
         NEW t \in QType, type_map[t] = "unmapped", NEW how, NEW set \in BOOLEAN, NEW policy,
         Call(t, how, set, policy) \in Frame,
         set <=> calls # << >> /\ how = "same" /\ calls[Len(calls)].set,
         calls # << >> => /\ calls[Len(calls)].todo # << >>
                          /\ Head(calls[Len(calls)].todo).op = how
  PROVE  Deep(Append(calls, Call(t, how, set, policy)), Place(t, set))
<1> DEFINE call == Call(t, how, set, policy)
           after == Append(calls, call)
           new == Place(t, set)
           L == Len(calls)
<1>1. /\ Len(after) = L + 1 /\ L \in Nat
      /\ after[L + 1] = call
      /\ \A i \in 1 .. L : after[i] = calls[i]
      /\ \A i \in 1 .. Len(after) : i = L + 1 \/ i \in 1 .. L
  BY PushFacts
<1>2. /\ call.type = t /\ call.how = how /\ call.todo = Todo(t)
      /\ call.set = (set \/ Places(t, set))
  BY DEF Call
<1>3. calls = << >> <=> L = 0
  BY EmptySeq
<1>4. Grows(type_map, new) /\ (Places(t, set) => new[t] # "unmapped")
  BY PlaceFacts
<1>5. Sound(call, new)
  BY FreshIsSound
<1>6. \A i \in 1 .. L : calls[i] \in Frame
  BY ElementOfSeq
<1> HIDE DEF call, after, new, L
<1>7. \A n \in 1 .. L : Owns(after, n) <=> Owns(calls, n)
  <2> SUFFICES ASSUME NEW n \in 1 .. L PROVE Owns(after, n) <=> Owns(calls, n)
    OBVIOUS
  <2>1. after[n] = calls[n] /\ (n # 1 => after[n - 1] = calls[n - 1])
    <3>1. n # 1 => n - 1 \in 1 .. L
      BY <1>1
    <3> QED
      BY <1>1, <3>1
  <2> QED
    BY <2>1 DEF Owns
<1>8. L # 0 => (L + 1) - 1 = L /\ after[L] = calls[L] /\ L \in 1 .. L
  BY <1>1
<1>9. Owns(after, L + 1) <=> ~HasAlias(call) /\ (KindOf(t) \in Shared => ~set)
  <2>1. CASE L = 0
    <3>1. L + 1 = 1 /\ ~set
      BY <1>3, <2>1
    <3> QED
      BY <1>1, <1>2, <3>1 DEF Owns
  <2>2. CASE L # 0
    <3>1. L + 1 # 1 /\ after[(L + 1) - 1] = calls[L] /\ calls # << >>
      BY <1>1, <1>3, <1>8, <2>2
    <3>2. set <=> how = "same" /\ calls[L].set
      BY <3>1 DEF L
    <3> QED
      BY <1>1, <1>2, <3>1, <3>2 DEF Owns
  <2> QED
    BY <2>1, <2>2
<1>10. OwnedMapped(after, new)
  <2> SUFFICES ASSUME NEW n \in 1 .. Len(after), Owns(after, n)
               PROVE  new[after[n].type] # "unmapped"
    BY DEF OwnedMapped
  <2>1. CASE n \in 1 .. L
    <3>1. calls[n].type \in QType
      BY <1>6, <2>1 DEF Frame
    <3>2. type_map[calls[n].type] # "unmapped"
      BY <1>7, <2>1 DEF Deep, OwnedMapped, L
    <3> QED
      BY <1>1, <1>4, <2>1, <3>1, <3>2 DEF Grows
  <2>2. CASE n = L + 1
    <3>1. ~HasAlias(call) /\ (KindOf(t) \in Shared => ~set)
      BY <1>9, <2>2
    <3>2. new[t] # "unmapped" \/ KindOf(t) \in Shared
      BY <1>2, <1>5, <3>1 DEF Sound, Settled
    <3>3. KindOf(t) \in Shared => Places(t, set)
      BY <3>1 DEF Places, Shared
    <3> QED
      BY <1>1, <1>2, <1>4, <2>2, <3>2, <3>3
  <2> QED
    BY <1>1, <2>1, <2>2
<1>11. OwnedOnce(after)
  <2> SUFFICES ASSUME NEW m \in 1 .. Len(after), NEW n \in 1 .. Len(after), m < n,
                      after[m].type = after[n].type
               PROVE  ~Owns(after, m)
    BY DEF OwnedOnce
  <2>1. m \in 1 .. L
    BY <1>1
  <2>2. CASE n \in 1 .. L
    <3>1. calls[m].type = calls[n].type
      BY <1>1, <2>1, <2>2
    <3> QED
      BY <1>7, <2>1, <2>2, <3>1 DEF Deep, OwnedOnce, L
  <2>3. CASE n = L + 1
    <3>1. calls[m].type = t
      BY <1>1, <1>2, <2>1, <2>3
    <3>2. ~Owns(calls, m)
      BY <2>1, <3>1 DEF Deep, OwnedMapped, L
    <3> QED
      BY <1>7, <2>1, <3>2
  <2> QED
    BY <1>1, <2>2, <2>3
<1>12. CleanAbove(after)
  <2> SUFFICES ASSUME NEW n \in 2 .. Len(after),
                      KindOf(after[n - 1].type) \in Records \/ Clean(after[n - 1])
               PROVE  Owns(after, n) \/ Clean(after[n])
    BY DEF CleanAbove
  <2>1. CASE n \in 1 .. L
    <3>1. n \in 2 .. L /\ n - 1 \in 1 .. L
      BY <1>1, <2>1
    <3>2. KindOf(calls[n - 1].type) \in Records \/ Clean(calls[n - 1])
      BY <1>1, <3>1
    <3>3. Owns(calls, n) \/ Clean(calls[n])
      BY <3>1, <3>2 DEF Deep, CleanAbove, L
    <3> QED
      BY <1>1, <1>7, <2>1, <3>3
  <2>2. CASE n = L + 1
    <3>1. L # 0 /\ n - 1 = L /\ L \in 1 .. L /\ after[L] = calls[L]
      BY <1>1, <2>2
    <3>2. calls[L].todo # << >> /\ Head(calls[L].todo).op = how /\ Sound(calls[L], type_map)
          /\ calls[L] \in Frame
      BY <1>3, <1>6, <3>1 DEF L, AllSound
    <3>3. ~set
      <4>1. KindOf(calls[L].type) \in Records \/ Clean(calls[L])
        BY <3>1
      <4>2. CASE Clean(calls[L])
        BY <3>2, <4>2 DEF Clean, L
      <4>3. CASE KindOf(calls[L].type) \in Records
        <5>1. 1 \in DOMAIN calls[L].todo /\ calls[L].todo[1] = Head(calls[L].todo)
          <6>1. After(calls[L], TRUE, TRUE, Stepped(calls[L], TRUE, TRUE))
            BY <3>2, RestFacts
          <6> QED
            BY <6>1 DEF After
        <5>2. Head(calls[L].todo).op \in {"get", "new"}
          BY <3>2, <4>3, <5>1 DEF Sound, Visits
        <5> QED
          BY <3>2, <5>2
      <4> QED
        BY <4>1, <4>2, <4>3
    <3>4. CASE HasAlias(call)
      <4>1. KindOf(t) \in Sugar
        BY <1>2, <1>5, <3>4, SugarHasAlias
      <4>2. ~Places(t, set)
        BY <4>1 DEF Places, Sugar, Object, Invalid, Records, Around, Failing, Found, Gotten
      <4>3. ~call.set
        BY <1>2, <3>3, <4>2
      <4> QED
        BY <1>1, <2>2, <3>4, <4>3 DEF Clean
    <3>5. CASE ~HasAlias(call)
      BY <1>9, <2>2, <3>3, <3>5
    <3> QED
      BY <3>4, <3>5
  <2> QED
    BY <1>1, <2>1, <2>2
<1> QED
  BY <1>10, <1>11, <1>12 DEF Deep, after, new, call

LEMMA StepKeepsDeep ==
  ASSUME TypeOK, NEW calls \in Seq(Frame), calls # << >>,
         NEW map, NEW new, Grows(map, new), AllSound(calls, map), Deep(calls, map),
         NEW r \in BOOLEAN, NEW s \in BOOLEAN,
         calls[Len(calls)].todo # << >>,
         Head(calls[Len(calls)].todo).op = "alias" => new[calls[Len(calls)].type] # "unmapped"
  PROVE  Deep([calls EXCEPT ![Len(calls)] = Stepped(@, r, s)], new)
<1> DEFINE L == Len(calls)
           top == calls[L]
           left == Stepped(top, r, s)
           after == [calls EXCEPT ![L] = left]
<1>1. /\ L \in Nat \ {0} /\ top \in Frame /\ L \in 1 .. L
      /\ Len(after) = L /\ after[L] = left
      /\ \A i \in 1 .. L : i # L => after[i] = calls[i]
  BY TopFactsOf
<1>2. After(top, r, s, left) /\ Sound(top, map)
  <2>1. top.todo # << >> /\ Sound(top, map)
    BY <1>1, Zenon DEF AllSound
  <2> HIDE DEF top
  <2> QED
    BY <1>1, <2>1, RestFacts, Zenon
<1>3. \A i \in 1 .. L : calls[i].type \in QType
  <2>1. \A i \in 1 .. L : calls[i] \in Frame
    BY ElementOfSeq
  <2> QED
    BY <2>1 DEF Frame
<1>4. Head(top.todo).op = "alias" => new[top.type] # "unmapped"
  OBVIOUS
<1>5. OwnedMapped(calls, map) /\ OwnedOnce(calls) /\ CleanAbove(calls)
  BY DEF Deep
<1> HIDE DEF after, left, top
<1>6. /\ left.type = top.type /\ left.how = top.how
      /\ HasAlias(left) => HasAlias(top)
      /\ HasAlias(top) /\ ~HasAlias(left) => Head(top.todo).op = "alias"
  BY <1>2 DEF After, HasAlias
<1>7. \A i \in 1 .. L : after[i].type = calls[i].type
  BY <1>1, <1>6 DEF top
<1>8. \A n \in 1 .. L : n # L => (Owns(after, n) <=> Owns(calls, n))
  <2> SUFFICES ASSUME NEW n \in 1 .. L, n # L PROVE Owns(after, n) <=> Owns(calls, n)
    OBVIOUS
  <2>1. after[n] = calls[n] /\ (n # 1 => after[n - 1] = calls[n - 1])
    <3>1. n # 1 => n - 1 \in 1 .. L /\ n - 1 # L
      BY <1>1
    <3> QED
      BY <1>1, <3>1
  <2> QED
    BY <2>1 DEF Owns
<1>9. Owns(after, L) <=> ~HasAlias(left) /\ (KindOf(top.type) \in Shared =>
                                               ~(L # 1 /\ top.how = "same" /\ calls[L - 1].set))
  <2>1. L # 1 => after[L - 1] = calls[L - 1]
    <3>1. L # 1 => L - 1 \in 1 .. L /\ L - 1 # L
      BY <1>1
    <3> QED
      BY <1>1, <3>1
  <2> QED
    BY <1>1, <1>6, <2>1 DEF Owns
<1>10. Owns(calls, L) <=> ~HasAlias(top) /\ (KindOf(top.type) \in Shared =>
                                               ~(L # 1 /\ top.how = "same" /\ calls[L - 1].set))
  BY DEF Owns, top
<1>11. OwnedMapped(after, new)
  <2> SUFFICES ASSUME NEW n \in 1 .. L, Owns(after, n)
               PROVE  new[calls[n].type] # "unmapped"
    BY <1>1, <1>7 DEF OwnedMapped
  <2>1. CASE Owns(calls, n)
    BY <1>3, <1>5, <2>1 DEF OwnedMapped, Grows, L
  <2>2. CASE ~Owns(calls, n)
    <3>1. n = L
      BY <1>8, <2>2
    <3>2. Head(top.todo).op = "alias"
      BY <1>6, <1>9, <1>10, <2>2, <3>1
    <3> QED
      BY <1>4, <3>1, <3>2 DEF top
  <2> QED
    BY <2>1, <2>2
<1>12. OwnedOnce(after)
  <2> SUFFICES ASSUME NEW m \in 1 .. L, NEW n \in 1 .. L, m < n, calls[m].type = calls[n].type
               PROVE  ~Owns(after, m)
    BY <1>1, <1>7 DEF OwnedOnce
  <2>1. m # L
    BY <1>1
  <2> QED
    BY <1>5, <1>8, <2>1 DEF OwnedOnce, L
<1>13. CleanAbove(after)
  <2> SUFFICES ASSUME NEW n \in 2 .. L,
                      KindOf(after[n - 1].type) \in Records \/ Clean(after[n - 1])
               PROVE  Owns(after, n) \/ Clean(after[n])
    BY <1>1 DEF CleanAbove
  <2>1. n - 1 \in 1 .. L /\ n - 1 # L /\ n \in 1 .. L
    BY <1>1
  <2>2. KindOf(calls[n - 1].type) \in Records \/ Clean(calls[n - 1])
    BY <1>1, <2>1
  <2>3. Owns(calls, n) \/ Clean(calls[n])
    BY <1>5, <2>2 DEF CleanAbove, L
  <2>4. CASE n # L
    BY <1>1, <1>8, <2>1, <2>3, <2>4
  <2>5. CASE n = L /\ Owns(calls, n)
    BY <1>6, <1>9, <1>10, <2>5
  <2>6. CASE n = L /\ Clean(top)
    <3>1. HasAlias(top) /\ KindOf(top.type) \notin Shared
      BY <1>2, <2>6, SugarHasAlias DEF Clean
    <3>2. CASE ~HasAlias(left)
      BY <1>9, <2>6, <3>1, <3>2
    <3>3. CASE HasAlias(left)
      <4>1. PICK i \in DOMAIN left.todo : left.todo[i].op = "alias"
        BY <3>3 DEF HasAlias
      <4>2. i \in Nat \ {0} /\ i + 1 \in DOMAIN top.todo /\ top.todo[i + 1].op = "alias"
        BY <1>2, <4>1 DEF After
      <4>3. Prepared(top, map, i + 1)
        BY <1>2, <4>2 DEF Sound, Aliases
      <4>4. left.todo \in Seq(Part) /\ left.todo # << >>
        <5>1. left.todo \in Seq(Part)
          BY <1>2 DEF After, Frame
        <5> QED
          BY <4>1, <5>1
      <4>5. 1 \in DOMAIN left.todo /\ Head(left.todo) = left.todo[1]
        <5>1. After(left, r, s, Stepped(left, r, s))
          <6>1. left \in Frame
            BY <1>2 DEF After
          <6> QED
            BY <4>4, <6>1, RestFacts
        <5> QED
          BY <5>1 DEF After
      <4>6. Head(left.todo).op # "same"
        <5>1. CASE i = 1
          BY <4>1, <4>5, <5>1
        <5>2. CASE i # 1
          <6>1. i = 2 /\ i + 1 = 3
            <7>1. i + 1 \in 1 .. 3
              BY <4>3 DEF Prepared
            <7> QED
              BY <4>2, <5>2, <7>1
          <6>2. Prepared(top, map, 3)
            BY <4>3, <6>1
          <6>3. top.todo[2].op = "get late"
            <7>1. 3 # 1 /\ 3 # 2 /\ 3 - 1 = 2
              OBVIOUS
            <7>2. top.todo[3 - 1].op = "get late"
              BY <6>2, <7>1, Zenon DEF Prepared
            <7> QED
              BY <7>1, <7>2
          <6>4. left.todo[1] = top.todo[2]
            <7>1. left.todo[1] = top.todo[1 + 1]
              BY <1>2, <4>5 DEF After
            <7> QED
              BY <7>1
          <6> QED
            BY <4>5, <6>3, <6>4
        <5> QED
          BY <5>1, <5>2
      <4> QED
        BY <1>1, <2>6, <3>3, <4>6 DEF Clean
    <3> QED
      BY <3>2, <3>3
  <2> QED
    BY <2>3, <2>4, <2>5, <2>6 DEF top
<1>14. [calls EXCEPT ![Len(calls)] = Stepped(@, r, s)] = after
  BY DEF after, left, top, L
<1> QED
  BY <1>11, <1>12, <1>13, <1>14, Zenon DEF Deep

LEMMA PopKeepsDeep ==
  ASSUME NEW calls \in Seq(Frame), calls # << >>, NEW map, Deep(calls, map),
         NEW below \in Seq(Frame), Len(below) = Len(calls) - 1,
         \A i \in 1 .. Len(below) : below[i] = calls[i]
  PROVE  Deep(below, map)
<1>1. Len(calls) \in Nat /\ Len(below) \in Nat
  BY LenProperties
<1>2. /\ \A n \in 1 .. Len(below) : n \in 1 .. Len(calls) /\ (n # 1 => n - 1 \in 1 .. Len(below))
      /\ \A n \in 2 .. Len(below) : /\ n \in 2 .. Len(calls) /\ n \in 1 .. Len(below)
                                    /\ n - 1 \in 1 .. Len(below)
  BY <1>1
<1>3. \A n \in 1 .. Len(below) : Owns(below, n) <=> Owns(calls, n)
  BY <1>2 DEF Owns
<1>4. OwnedMapped(below, map)
  BY <1>2, <1>3 DEF Deep, OwnedMapped
<1>5. OwnedOnce(below)
  BY <1>2, <1>3 DEF Deep, OwnedOnce
<1>6. CleanAbove(below)
  BY <1>2, <1>3 DEF Deep, CleanAbove
<1> QED
  BY <1>4, <1>5, <1>6 DEF Deep

-----------------------------------------------------------------------------
(***************************************************************************)
(* How deep the calls are: the bound.  Two calls with as many owned types  *)
(* below them, of the same class and for the same type, would have only    *)
(* types that stand for each other between them, in a circle.              *)
(***************************************************************************)
Owned(calls, n) == { calls[j].type : j \in { i \in 1 .. n - 1 : Owns(calls, i) } }

Class(calls, n) ==
  IF Owns(calls, n) THEN 0 ELSE IF Clean(calls[n]) THEN 1 ELSE 2

\* A call that waits for one about the type that its own stands for.
PassesOn(call) ==
  call.type \in { t \in QType : KindOf(t) \in Sugar \cup {"Other"} }
  /\ Head(call.todo).type = Inner(call.type)

LEMMA NobodyOwns ==
  ASSUME NEW calls \in Seq(Frame), OwnedOnce(calls),
         NEW m \in 1 .. Len(calls), NEW n \in 1 .. Len(calls),
         Owned(calls, n) \subseteq Owned(calls, m),
         NEW k \in m .. n - 1
  PROVE  ~Owns(calls, k)
<1>1. SUFFICES ASSUME Owns(calls, k) PROVE FALSE
  OBVIOUS
<1>2. Len(calls) \in Nat /\ m \in Nat /\ n \in Nat /\ k \in 1 .. n - 1 /\ k \in 1 .. Len(calls)
  BY LenProperties
<1>3. calls[k].type \in Owned(calls, n)
  BY <1>1, <1>2 DEF Owned
<1>4. PICK j \in 1 .. m - 1 : Owns(calls, j) /\ calls[j].type = calls[k].type
  BY <1>3 DEF Owned
<1>5. j \in 1 .. Len(calls) /\ j < k
  BY <1>2, <1>4
<1> QED
  BY <1>2, <1>4, <1>5 DEF OwnedOnce

LEMMA CleanAllTheWay ==
  ASSUME NEW calls \in Seq(Frame), CleanAbove(calls),
         NEW m \in 1 .. Len(calls), NEW n \in 1 .. Len(calls),
         \A k \in m .. n - 1 : ~Owns(calls, k),
         Clean(calls[m]), NEW k \in m .. n - 1
  PROVE  Clean(calls[k])
<1>1. SUFFICES ASSUME ~Clean(calls[k]) PROVE FALSE
  OBVIOUS
<1>2. Len(calls) \in Nat /\ m \in Nat /\ n \in Nat
  BY LenProperties
<1> DEFINE S == { i \in m .. n - 1 : ~Clean(calls[i]) }
<1>3. S \in SUBSET Nat /\ S # {}
  BY <1>1, <1>2
<1>4. PICK i \in S : \A j \in S : i <= j
  BY <1>3, Least
<1>5. i # m /\ i \in m .. n - 1 /\ ~Clean(calls[i])
  BY <1>4
<1>6. i - 1 \in m .. n - 1 /\ i - 1 \notin S /\ i \in 2 .. Len(calls)
  BY <1>2, <1>4, <1>5
<1>7. Clean(calls[i - 1])
  BY <1>6
<1> QED
  BY <1>5, <1>6, <1>7 DEF CleanAbove

\* What a call that owns nothing does, other than for a record.
LEMMA WaitsForInner ==
  ASSUME NEW call \in Frame, NEW map, Sound(call, map), call.todo # << >>,
         HasAlias(call) \/ KindOf(call.type) = "Other"
  PROVE  PassesOn(call)
<1>1. 1 \in DOMAIN call.todo /\ call.todo[1] = Head(call.todo) /\ call.type \in QType
  <2>1. After(call, TRUE, TRUE, Stepped(call, TRUE, TRUE))
    BY RestFacts
  <2> QED
    BY <2>1 DEF After, Frame
<1>2. CASE KindOf(call.type) = "Other"
  BY <1>1, <1>2 DEF Sound, Visits, PassesOn
<1>3. CASE HasAlias(call)
  <2>1. PICK i \in DOMAIN call.todo : call.todo[i].op = "alias"
    BY <1>3 DEF HasAlias
  <2>2. Prepared(call, map, i)
    BY <2>1 DEF Sound, Aliases
  <2>3. KindOf(call.type) \in Sugar /\ 1 \in 1 .. i
    <3>1. KindOf(call.type) \in Sugar /\ i \in 1 .. 3
      BY <2>2 DEF Prepared
    <3> QED
      BY <3>1
  <2>4. call.todo[1].type = Inner(call.type)
    BY <2>2, <2>3 DEF Prepared
  <2> QED
    BY <1>1, <2>3, <2>4 DEF PassesOn
<1> QED
  BY <1>2, <1>3

\* Types that stand for each other are not in a circle.
LEMMA NoCircle ==
  ASSUME TypeOK, NEW calls \in Seq(Frame), Linked(calls),
         NEW m \in 1 .. Len(calls), NEW n \in 1 .. Len(calls), m < n,
         \A k \in m .. n - 1 : PassesOn(calls[k])
  PROVE  calls[m].type # calls[n].type
<1>1. SUFFICES ASSUME calls[m].type = calls[n].type PROVE FALSE
  OBVIOUS
<1>2. Len(calls) \in Nat /\ m \in Nat /\ n \in Nat /\ m \in m .. n - 1
  BY LenProperties
<1> DEFINE S == { calls[k].type : k \in m .. n - 1 }
<1>3. S \in SUBSET { t \in QType : KindOf(t) \in Sugar \cup {"Other"} } /\ S # {}
  BY <1>2 DEF PassesOn
<1>4. PICK t \in S : Inner(t) \notin S
  <2>1. WellFormed(program)
    BY DEF TypeOK
  <2> HIDE DEF S
  <2> QED
    BY <1>3, <2>1 DEF WellFormed, KindOf, Inner
<1>5. PICK k \in m .. n - 1 : t = calls[k].type
  OBVIOUS
<1>6. k + 1 \in 2 .. Len(calls) /\ (k + 1) - 1 = k /\ (k + 1 = n \/ k + 1 \in m .. n - 1)
  BY <1>2, <1>5
<1>7. calls[k + 1].type = Inner(t)
  BY <1>5, <1>6 DEF Linked, PassesOn
<1>8. calls[k + 1].type \in S
  BY <1>1, <1>2, <1>6
<1> QED
  BY <1>4, <1>7, <1>8

\* Of two calls with the same place in the order below, at most one is in progress.
LEMMA DifferentPlaces ==
  ASSUME DeepInv, IsFiniteSet(QType),
         NEW m \in 1 .. Len(frames), NEW n \in 1 .. Len(frames), m < n,
         frames[m].type = frames[n].type,
         Class(frames, m) = Class(frames, n),
         Cardinality(Owned(frames, m)) = Cardinality(Owned(frames, n))
  PROVE  FALSE
<1>1. /\ TypeOK /\ frames \in Seq(Frame) /\ Len(frames) \in Nat
      /\ AllSound(frames, type_map) /\ Linked(frames) /\ Calls(frames, type_map)
      /\ OwnedOnce(frames) /\ CleanAbove(frames)
  BY LenProperties DEF DeepInv, MapInv, IInv, TypeOK, Deep
<1>2. m \in Nat /\ n \in Nat /\ m \in m .. n - 1
  BY <1>1
<1>3. Owned(frames, n) = Owned(frames, m)
  <2>1. Owned(frames, n) \in SUBSET QType
    <3>1. \A i \in 1 .. n - 1 : i \in 1 .. Len(frames)
      BY <1>1, <1>2
    <3>2. \A i \in 1 .. n - 1 : frames[i] \in Frame
      BY <1>1, <3>1, ElementOfSeq
    <3>3. \A i \in 1 .. n - 1 : frames[i].type \in QType
      BY <3>2 DEF Frame
    <3> QED
      BY <3>3 DEF Owned
  <2>2. Owned(frames, m) \in SUBSET Owned(frames, n)
    <3>1. \A i \in 1 .. m - 1 : i \in 1 .. n - 1
      BY <1>2
    <3> QED
      BY <3>1 DEF Owned
  <2>3. IsFiniteSet(Owned(frames, n))
    BY <2>1, FS_Subset
  <2> QED
    BY <2>2, <2>3, FS_Subset
<1>4. \A k \in m .. n - 1 : ~Owns(frames, k)
  BY <1>1, <1>3, NobodyOwns
<1>5. ~Owns(frames, m)
  BY <1>2, <1>4
<1>6. ASSUME NEW k \in m .. n - 1
      PROVE  /\ k \in 1 .. Len(frames) /\ k + 1 \in 2 .. Len(frames) /\ (k + 1) - 1 = k
             /\ frames[k] \in Frame /\ frames[k].todo # << >> /\ Sound(frames[k], type_map)
  <2>1. k \in 1 .. Len(frames) /\ k + 1 \in 2 .. Len(frames) /\ (k + 1) - 1 = k /\ k + 1 # 1
        /\ k + 1 \in 1 .. Len(frames)
    BY <1>1, <1>2
  <2>2. Fits(frames[k + 1], frames[k])
    BY <1>1, <2>1 DEF Calls
  <2> QED
    BY <1>1, <2>1, <2>2, ElementOfSeq DEF AllSound, Fits
<1>7. \A k \in m .. n - 1 : HasAlias(frames[k]) \/ KindOf(frames[k].type) = "Other"
  <2>1. CASE Clean(frames[m])
    <3>1. \A k \in m .. n - 1 : Clean(frames[k])
      BY <1>1, <1>4, <2>1, CleanAllTheWay
    <3> QED
      BY <3>1 DEF Clean
  <2>2. CASE ~Clean(frames[m])
    <3> SUFFICES ASSUME NEW k \in m .. n - 1, ~HasAlias(frames[k]),
                        KindOf(frames[k].type) # "Other"
                 PROVE  FALSE
      OBVIOUS
    <3>1. ~Owns(frames, k) /\ KindOf(frames[k].type) \in Records
      BY <1>4 DEF Owns, Shared
    <3>2. Owns(frames, k + 1) \/ Clean(frames[k + 1])
      BY <1>1, <1>6, <3>1 DEF CleanAbove
    <3>3. Class(frames, n) = 2
      BY <1>5, <2>2 DEF Class
    <3>4. ~Owns(frames, n) /\ ~Clean(frames[n])
      BY <3>3 DEF Class
    <3>5. k + 1 # n /\ k + 1 \in 1 .. Len(frames) /\ k + 1 \in Nat
      <4>1. k + 1 # n
        BY <3>2, <3>4
      <4>2. k + 1 \in 2 .. Len(frames)
        BY <1>6
      <4> QED
        BY <1>1, <4>1, <4>2
    <3>6. k + 1 \in m .. n - 1 /\ ~Owns(frames, k + 1) /\ Clean(frames[k + 1])
      BY <1>2, <1>4, <3>2, <3>5
    <3>7. \A j \in k + 1 .. n - 1 : ~Owns(frames, j)
      BY <1>2, <1>4
    <3>8. Clean(frames[n - 1])
      <4>1. n - 1 \in k + 1 .. n - 1
        BY <1>2, <3>6
      <4> QED
        BY <1>1, <3>5, <3>6, <3>7, <4>1, CleanAllTheWay
    <3>9. n \in 2 .. Len(frames)
      BY <1>2
    <3> QED
      BY <1>1, <3>4, <3>8, <3>9 DEF CleanAbove
  <2> QED
    BY <2>1, <2>2
<1>8. \A k \in m .. n - 1 : PassesOn(frames[k])
  BY <1>6, <1>7, WaitsForInner
<1> QED
  BY <1>1, <1>8, NoCircle

LEMMA CallsBounded ==
  ASSUME DeepInv, IsFiniteSet(QType)
  PROVE  Len(frames) <= 3 * Cardinality(QType) * (Cardinality(QType) + 1)
<1> DEFINE C == Cardinality(QType)
           L == Len(frames)
           Places3 == ((0 .. C) \X (0 .. 2)) \X QType
           place == [n \in 1 .. L |->
                       << << Cardinality(Owned(frames, n)), Class(frames, n) >>, frames[n].type >>]
<1>1. frames \in Seq(Frame) /\ L \in Nat /\ C \in Nat
  BY LenProperties, FS_CardinalityType DEF DeepInv, MapInv, IInv, TypeOK
<1>2. place \in [1 .. L -> Places3]
  <2> SUFFICES ASSUME NEW n \in 1 .. L
               PROVE  /\ Cardinality(Owned(frames, n)) \in 0 .. C
                      /\ Class(frames, n) \in 0 .. 2 /\ frames[n].type \in QType
    OBVIOUS
  <2>1. \A i \in 1 .. L : frames[i].type \in QType
    <3>1. \A i \in 1 .. L : frames[i] \in Frame
      BY <1>1, ElementOfSeq
    <3> QED
      BY <3>1 DEF Frame
  <2>2. Owned(frames, n) \in SUBSET QType
    <3>1. \A i \in 1 .. n - 1 : i \in 1 .. L
      BY <1>1
    <3> QED
      BY <2>1, <3>1 DEF Owned
  <2>3. Cardinality(Owned(frames, n)) <= C /\ Cardinality(Owned(frames, n)) \in Nat
    BY <2>2, FS_Subset, FS_CardinalityType
  <2> QED
    BY <1>1, <2>1, <2>3 DEF Class
<1>3. IsFiniteSet(Places3) /\ Cardinality(Places3) = ((C + 1) * 3) * C
  <2> DEFINE Numbers == 0 .. C
             Classes == 0 .. 2
             Pairs == Numbers \X Classes
  <2>1. IsFiniteSet(Numbers) /\ Cardinality(Numbers) = C + 1
    <3> HIDE DEF C
    <3>1. 0 \in Int /\ C \in Int /\ ~(0 > C) /\ C - 0 + 1 = C + 1
      BY <1>1
    <3> QED
      BY <3>1, FS_Interval
  <2>2. IsFiniteSet(Classes) /\ Cardinality(Classes) = 3
    <3>1. 0 \in Int /\ 2 \in Int /\ ~(0 > 2) /\ 2 - 0 + 1 = 3
      OBVIOUS
    <3> QED
      BY <3>1, FS_Interval
  <2>3. Places3 = Pairs \X QType
    OBVIOUS
  <2> HIDE DEF Numbers, Classes, C, Places3
  <2>4. IsFiniteSet(Pairs) /\ Cardinality(Pairs) = Cardinality(Numbers) * Cardinality(Classes)
    BY <2>1, <2>2, FS_Product
  <2>5. IsFiniteSet(QType) /\ Cardinality(QType) = C
    BY DEF C
  <2> HIDE DEF Pairs
  <2>6. /\ IsFiniteSet(Pairs \X QType)
        /\ Cardinality(Pairs \X QType) = Cardinality(Pairs) * Cardinality(QType)
    BY <2>4, <2>5, FS_Product
  <2> QED
    BY <2>1, <2>2, <2>3, <2>4, <2>5, <2>6
<1>4. IsFiniteSet(1 .. L) /\ Cardinality(1 .. L) = L
  <2> HIDE DEF L
  <2>1. 1 \in Int /\ L \in Int /\ (1 > L <=> L = 0) /\ L - 1 + 1 = L
    BY <1>1
  <2> QED
    BY <2>1, FS_Interval
<1>5. \A m, n \in 1 .. L : m < n => place[m] # place[n]
  BY DifferentPlaces
<1>6. L <= ((C + 1) * 3) * C
  <2> HIDE DEF place, Places3, C, L
  <2>1. SUFFICES ASSUME ~(L <= ((C + 1) * 3) * C) PROVE FALSE
    OBVIOUS
  <2>2. Cardinality(Places3) < Cardinality(1 .. L)
    <3>1. ((C + 1) * 3) * C \in Nat
      BY <1>1
    <3> QED
      BY <1>1, <1>3, <1>4, <2>1, <3>1
  <2>3. PICK x, y \in 1 .. L : x # y /\ place[x] = place[y]
    BY <1>2, <1>3, <1>4, <2>2, FS_PigeonHole
  <2>4. x < y \/ y < x
    BY <1>1, <2>3
  <2> QED
    BY <1>5, <2>3, <2>4
<1>7. ((C + 1) * 3) * C = 3 * C * (C + 1)
  <2> HIDE DEF C
  <2> QED
    BY <1>1
<1> QED
  BY <1>6, <1>7

-----------------------------------------------------------------------------
\* The invariant is kept by every step.
LEMMA DeepPreserved ==
  ASSUME UNCHANGED program, Deep(frames', type_map')
  PROVE  Deep(frames, type_map)'
<1>1. \A n : Owns(frames, n)' <=> Owns(frames', n)
  BY DEF Owns, HasAlias, KindOf
<1>2. \A n : Clean(frames[n])' <=> Clean(frames'[n])
  BY DEF Clean, HasAlias
<1>3. OwnedMapped(frames, type_map)'
  BY <1>1 DEF Deep, OwnedMapped
<1>4. OwnedOnce(frames)'
  BY <1>1 DEF Deep, OwnedOnce
<1>5. CleanAbove(frames)'
  BY <1>1, <1>2 DEF Deep, CleanAbove, KindOf
<1> QED
  BY <1>3, <1>4, <1>5 DEF Deep

LEMMA NoCallsDeep ==
  ASSUME NEW map
  PROVE  Deep(<< >>, map)
BY DEF Deep, OwnedMapped, OwnedOnce, CleanAbove

LEMMA BeginIsDeep ==
  ASSUME TypeOK, NEW below \in Seq(Frame), AllSound(below, type_map), Deep(below, type_map),
         NEW t \in QType, type_map[t] = "unmapped", NEW how \in Op, NEW set \in BOOLEAN,
         NEW policy \in BOOLEAN,
         set <=> below # << >> /\ how = "same" /\ below[Len(below)].set,
         below # << >> => /\ below[Len(below)].todo # << >>
                          /\ Head(below[Len(below)].todo).op = how,
         TraverseType(t, how, set, policy, below), UNCHANGED program
  PROVE  Deep(frames, type_map)'
<1>1. CASE frames' = << >>
  BY <1>1, NoCallsDeep, DeepPreserved
<1>2. CASE frames' = Append(below, Call(t, how, set, policy)) /\ (KindOf(t) = "Other" => set)
  <2>1. type_map' = Place(t, set) /\ Call(t, how, set, policy) \in Frame
    <3>1. Begun(how, set)
      BY DEF Begun
    <3>2. Call(t, how, set, policy) \in Frame
      BY <1>2, <3>1, CallFacts
    <3> QED
      BY <3>2 DEF TraverseType
  <2>2. Deep(Append(below, Call(t, how, set, policy)), Place(t, set))
    BY <2>1, PushKeepsDeep
  <2> QED
    BY <1>2, <2>1, <2>2, DeepPreserved
<1>3. \/ frames' = << >>
      \/ frames' = Append(below, Call(t, how, set, policy)) /\ (KindOf(t) = "Other" => set)
  BY DEF TraverseType, End
<1> QED
  BY <1>1, <1>2, <1>3

LEMMA GetIsDeep ==
  ASSUME DeepInv, frames = << >>, NEW t \in QType, NEW policy \in BOOLEAN,
         Get(t, policy), UNCHANGED program
  PROVE  Deep(frames, type_map)'
<1>1. TypeOK /\ AllSound(<< >>, type_map) /\ Deep(<< >>, type_map) /\ << >> \in Seq(Frame)
  BY NoCallsLeft, NoCallsDeep DEF DeepInv, MapInv, IInv
<1>2. CASE Mapped(t)
  BY <1>1, <1>2, DeepPreserved DEF Get
<1>3. CASE ~Mapped(t)
  <2>1. TraverseType(t, "get", FALSE, policy, << >>) /\ type_map[t] = "unmapped"
    BY <1>3 DEF Get, Mapped
  <2>2. "get" \in Op /\ FALSE \in BOOLEAN
    BY DEF Op
  <2> QED
    BY <1>1, <2>1, <2>2, BeginIsDeep
<1> QED
  BY <1>2, <1>3

LEMMA StepTopIsDeep ==
  ASSUME DeepInv, frames # << >>, Top.todo # << >>, NEW r \in BOOLEAN, NEW s \in BOOLEAN,
         StepTop(r, s), Grows(type_map, type_map'),
         Current.op = "alias" => type_map'[Top.type] # "unmapped",
         UNCHANGED program
  PROVE  Deep(frames, type_map)'
<1>1. /\ TypeOK /\ frames \in Seq(Frame) /\ Top = frames[Len(frames)]
      /\ AllSound(frames, type_map) /\ Deep(frames, type_map)
  BY TopIsSound DEF DeepInv, MapInv, IInv
<1>2. frames' = [frames EXCEPT ![Len(frames)] = Stepped(@, r, s)]
  BY DEF StepTop
<1>3. /\ frames[Len(frames)].todo # << >>
      /\ Head(frames[Len(frames)].todo).op = "alias"
           => type_map'[frames[Len(frames)].type] # "unmapped"
  BY <1>1 DEF Current
<1>4. Deep(frames', type_map')
  BY <1>1, <1>2, <1>3, StepKeepsDeep
<1> QED
  BY <1>4, DeepPreserved

LEMMA ReturnIsDeep ==
  ASSUME DeepInv, frames # << >>, Below # << >>, NEW r \in BOOLEAN, NEW s \in BOOLEAN,
         frames' = [Below EXCEPT ![Len(Below)] = Stepped(@, r, s)],
         UNCHANGED << program, type_map >>
  PROVE  Deep(frames, type_map)'
<1>1. /\ TypeOK /\ frames \in Seq(Frame) /\ Below \in Seq(Frame) /\ Len(Below) = Len(frames) - 1
      /\ \A i \in 1 .. Len(Below) : Below[i] = frames[i]
      /\ Deep(frames, type_map) /\ AllSound(Below, type_map)
  BY TopFacts, TopIsSound DEF DeepInv, MapInv, IInv
<1>2. /\ Below[Len(Below)].todo # << >>
      /\ Head(Below[Len(Below)].todo).op # "alias"
  <2>1. Top.how # "alias"
    BY TopFacts DEF DeepInv, MapInv
  <2> QED
    BY <2>1, TopIsSound DEF DeepInv
<1>3. Deep(Below, type_map) /\ Grows(type_map, type_map')
  BY <1>1, PopKeepsDeep DEF Grows
<1> DEFINE calls == Below
           next == [calls EXCEPT ![Len(calls)] = Stepped(@, r, s)]
           new == type_map'
<1>4. Deep(frames', type_map')
  <2>1. /\ calls \in Seq(Frame) /\ calls # << >> /\ AllSound(calls, type_map)
        /\ Deep(calls, type_map) /\ calls[Len(calls)].todo # << >>
        /\ Head(calls[Len(calls)].todo).op # "alias"
        /\ Grows(type_map, new) /\ frames' = next
    BY <1>1, <1>2, <1>3
  <2> HIDE DEF calls, new
  <2>2. Deep(next, new)
    BY <1>1, <2>1, StepKeepsDeep
  <2> HIDE DEF next
  <2> QED
    BY <2>1, <2>2 DEF new
<1> QED
  BY <1>4, DeepPreserved

LEMMA TraverseIsDeep ==
  ASSUME DeepInv, Traverse
  PROVE  Deep(frames, type_map)'
<1>1. IInv /\ TypeOK /\ MapInv /\ UNCHANGED program
  BY DEF DeepInv, MapInv, IInv, Traverse, SkipPart, KnownPart, UnknownPart, NullPart, Alias,
         AliasOfUnmapped, ReturnToVisitor, ReturnFromGet
<1>2. Grows(type_map, type_map)
  BY DEF Grows
<1>3. CASE frames' = << >>
  BY <1>1, <1>3, NoCallsDeep, DeepPreserved
<1>4. CASE SkipPart
  <2>1. /\ frames # << >> /\ Top.todo # << >> /\ Current.op # "alias"
        /\ StepTop(FALSE, FALSE) /\ UNCHANGED type_map
    BY <1>4 DEF SkipPart, Regardless
  <2> QED
    BY <1>1, <1>2, <2>1, StepTopIsDeep
<1>5. CASE KnownPart
  <2>1. /\ frames # << >> /\ Top.todo # << >> /\ Current.op # "alias"
        /\ StepTop(TRUE, FALSE) /\ UNCHANGED type_map
    BY <1>5 DEF KnownPart, Busy
  <2> QED
    BY <1>1, <1>2, <2>1, StepTopIsDeep
<1>6. CASE UnknownPart
  <2> DEFINE set == Current.op = "same" /\ Top.set
             policy == Current.op # "get late" /\ Top.policy
  <2>1. /\ frames # << >> /\ Top.todo # << >>
        /\ Current.type # NullType /\ ~Mapped(Current.type)
        /\ TraverseType(Current.type, Current.op, set, policy, frames)
    BY <1>6 DEF UnknownPart, Busy
  <2>2. /\ frames \in Seq(Frame) /\ Top \in Frame /\ Current \in Part
        /\ Top = frames[Len(frames)]
        /\ AllSound(frames, type_map) /\ Deep(frames, type_map)
    BY <1>1, <2>1, TopFacts, TopIsSound DEF DeepInv, MapInv
  <2>3. /\ Current.type \in QType /\ Current.op \in Op /\ set \in BOOLEAN /\ policy \in BOOLEAN
        /\ type_map[Current.type] = "unmapped"
    BY <2>1, <2>2 DEF Part, Frame, Mapped
  <2>4. /\ set <=> frames # << >> /\ Current.op = "same" /\ frames[Len(frames)].set
        /\ frames[Len(frames)].todo # << >>
        /\ Head(frames[Len(frames)].todo).op = Current.op
    BY <2>1, <2>2 DEF Current
  <2> HIDE DEF set, policy
  <2> QED
    BY <1>1, <2>1, <2>2, <2>3, <2>4, BeginIsDeep
<1>7. CASE Alias
  <2> DEFINE object == ObjectOf(Current.type)
             elaborated == KindOf(Top.type) = "Elaborated"
  <2>1. /\ frames # << >> /\ Top.todo # << >> /\ object # "unmapped"
        /\ type_map' = [type_map EXCEPT ![Top.type] = IF @ = "unmapped" THEN object ELSE @]
        /\ StepTop(TRUE, elaborated)
    BY <1>7 DEF Alias, Busy
  <2>2. Top.type \in QType /\ type_map \in MapType /\ elaborated \in BOOLEAN
    BY <1>1, <2>1, TopFacts, Untouched DEF Frame
  <2> HIDE DEF object, elaborated
  <2>3. Grows(type_map, type_map') /\ type_map'[Top.type] # "unmapped"
    BY <2>1, <2>2 DEF MapType, Grows
  <2> QED
    BY <1>1, <2>1, <2>2, <2>3, StepTopIsDeep
<1>8. CASE ReturnToVisitor
  <2>1. /\ frames # << >> /\ Top.how \in {"new", "same"}
        /\ frames' = [Below EXCEPT ![Len(Below)] =
                        Stepped(@, Top.result, Top.how = "same" /\ Top.set)]
        /\ UNCHANGED << program, type_map >>
    BY <1>8 DEF ReturnToVisitor, Done
  <2>2. Below # << >> /\ Top \in Frame
    BY <1>1, <2>1, TopFacts
  <2>3. Top.result \in BOOLEAN /\ (Top.how = "same" /\ Top.set) \in BOOLEAN
    BY <2>2 DEF Frame
  <2> QED
    BY <2>1, <2>2, <2>3, ReturnIsDeep
<1>9. CASE ReturnFromGet /\ frames' # << >>
  <2>1. /\ frames # << >> /\ Below # << >> /\ UNCHANGED << program, type_map >>
        /\ frames' = [Below EXCEPT ![Len(Below)] = Stepped(@, TRUE, FALSE)]
    BY <1>9 DEF ReturnFromGet, Done, End
  <2>2. TRUE \in BOOLEAN /\ FALSE \in BOOLEAN
    OBVIOUS
  <2> QED
    BY <2>1, <2>2, ReturnIsDeep
<1>10. NullPart \/ AliasOfUnmapped => frames' = << >>
  BY DEF NullPart, AliasOfUnmapped, End
<1> QED
  BY <1>3, <1>4, <1>5, <1>6, <1>7, <1>8, <1>9, <1>10 DEF Traverse

LEMMA DeepInvInit == Init => DeepInv
<1> SUFFICES ASSUME Init PROVE DeepInv
  OBVIOUS
<1>1. MapInv /\ frames = << >>
  BY MapInvInit DEF Init
<1> QED
  BY <1>1, NoCallsDeep DEF DeepInv

LEMMA DeepInvNext == DeepInv /\ [Next]_typeMapVars => DeepInv'
<1> SUFFICES ASSUME DeepInv, [Next]_typeMapVars PROVE DeepInv'
  OBVIOUS
<1>1. MapInv' /\ MapInv
  BY MapInvNext DEF DeepInv
<1>2. CASE Request
  <2>1. frames = << >> /\ Get(program.roots[requested + 1], TRUE) /\ UNCHANGED program
    BY <1>2 DEF Request, Idle
  <2>2. Deep(frames, type_map)'
    BY <1>1, <1>2, <2>1, AskedTyped, GetIsDeep
  <2> QED
    BY <1>1, <2>2 DEF DeepInv
<1>3. CASE Ask
  <2>1. PICK t \in reached, i \in 1 .. Cardinality(QType) : AskFor(t, i)
    BY <1>3 DEF Ask
  <2>2. frames = << >> /\ Get(Components(type_map[t])[i], FALSE) /\ UNCHANGED program
    BY <2>1 DEF AskFor, AllRequested, Idle
  <2>3. Deep(frames, type_map)'
    BY <1>1, <2>1, <2>2, AskedTyped, GetIsDeep
  <2> QED
    BY <1>1, <2>3 DEF DeepInv
<1>4. CASE Traverse
  BY <1>1, <1>4, TraverseIsDeep DEF DeepInv
<1>5. CASE Reach \/ UNCHANGED typeMapVars
  <2>1. UNCHANGED << program, type_map, frames >>
    BY <1>5 DEF Reach, typeMapVars
  <2>2. Deep(frames', type_map')
    BY <2>1 DEF DeepInv
  <2>3. Deep(frames, type_map)'
    BY <2>1, <2>2, DeepPreserved
  <2> QED
    BY <1>1, <2>3 DEF DeepInv
<1> QED
  BY <1>2, <1>3, <1>4, <1>5 DEF Next

LEMMA DeepInvHolds == Spec => []DeepInv
BY DeepInvInit, DeepInvNext, PTL DEF Spec

(***************************************************************************)
(* With room for three calls for each pair of a type and a number of types *)
(* the traversal never runs out of stack, whatever types refer to each     *)
(* other: its depth is bounded by the program and not by the cycles in it. *)
(***************************************************************************)
THEOREM NoOverflowWithRoom ==
  ASSUME IsFiniteSet(QType),
         MaxDepth > 3 * Cardinality(QType) * (Cardinality(QType) + 1)
  PROVE  Spec => []NoOverflow
<1>1. DeepInv => Len(frames) < MaxDepth
  <2> SUFFICES ASSUME DeepInv PROVE Len(frames) < MaxDepth
    OBVIOUS
  <2>1. Len(frames) <= 3 * Cardinality(QType) * (Cardinality(QType) + 1)
    BY CallsBounded
  <2>2. Len(frames) \in Nat
    BY LenProperties DEF DeepInv, MapInv, IInv, TypeOK
  <2>3. Cardinality(QType) \in Nat
    BY FS_CardinalityType
  <2>4. 3 * Cardinality(QType) * (Cardinality(QType) + 1) \in Nat
    BY <2>3
  <2>5. \A a, b \in Nat : a <= b /\ MaxDepth > b => a < MaxDepth
    BY TypeMapAssumption
  <2> QED
    BY <2>1, <2>2, <2>4, <2>5
<1>2. Init => NoOverflow
  BY DEF Init, NoOverflow
<1>3. NoOverflow /\ DeepInv /\ [Next]_typeMapVars => NoOverflow'
  <2> SUFFICES ASSUME NoOverflow, DeepInv, [Next]_typeMapVars PROVE NoOverflow'
    OBVIOUS
  <2>1. ~(Len(frames) >= MaxDepth) /\ ~(Len(<< >>) >= MaxDepth)
    <3>1. Len(frames) \in Nat /\ Len(<< >>) = 0 /\ MaxDepth \in Nat
      BY LenProperties, TypeMapAssumption DEF DeepInv, MapInv, IInv, TypeOK
    <3> QED
      BY <1>1, <3>1
  <2>2. \A t, how, set, policy :
          /\ TraverseType(t, how, set, policy, frames) => NoOverflow'
          /\ TraverseType(t, how, set, policy, << >>) => NoOverflow'
    BY <2>1 DEF TraverseType, End, NoOverflow
  <2>3. \A t, policy : Get(t, policy) => NoOverflow'
    BY <2>2 DEF Get, NoOverflow
  <2>4. Request \/ Ask => NoOverflow'
    BY <2>3 DEF Request, Ask, AskFor
  <2>5. UnknownPart => NoOverflow'
    BY <2>2 DEF UnknownPart
  <2> QED
    BY <2>4, <2>5 DEF Next, Traverse, Reach, SkipPart, KnownPart, NullPart, Alias, AliasOfUnmapped,
                      ReturnToVisitor, ReturnFromGet, End, NoOverflow, typeMapVars
<1> QED
  BY <1>2, <1>3, DeepInvHolds, PTL DEF Spec
=============================================================================
