------------------------ MODULE MessageWriterProofs ------------------------
(***************************************************************************)
(* Proofs about the setter recursion, for any message types and options.   *)
(***************************************************************************)
EXTENDS MessageWriter, TLAPS

Frame == [message : Message, path : Seq(Step), i : Nat \ {0}]
Setter == [path : Seq(Step), method : Nat]

\* The depth of an activation is the length of the way down to its message, and
\* a call is about to be one level below the activations there are.
IInv ==
    /\ IsSchema(schema)
    /\ frames \in Seq(Frame)
    /\ callee \in [message : Message, path : Seq(Step)]
    /\ written \subseteq Setter
    /\ pc \in {"call", "loop", "done"}
    /\ Len(frames) <= kMaxSubFieldSetterDepth + 1
    /\ \A d \in DOMAIN frames : Len(frames[d].path) = d - 1
    /\ pc = "call" => Len(callee.path) = Len(frames)
    /\ StackMatches

LEMMA IInvImplies == IInv => TypeOK
<1>1. ASSUME IInv PROVE messages_in_stack \subseteq Message
  <2>1. \A d \in DOMAIN frames : frames[d] \in Frame
    BY <1>1 DEF IInv
  <2>2. \A f \in Frame : f.message \in Message
    BY DEF Frame
  <2>. QED  BY <1>1, <2>1, <2>2 DEF IInv, StackMatches
<1>. QED  BY <1>1 DEF IInv, TypeOK, Frame, Setter

\* The positions of a sequence with one more element, and with the last dropped.
LEMMA AppendAt ==
    ASSUME NEW S, NEW s \in Seq(S), NEW x \in S
    PROVE  /\ Append(s, x) \in Seq(S)
           /\ Len(Append(s, x)) = Len(s) + 1
           /\ DOMAIN Append(s, x) = DOMAIN s \cup {Len(s) + 1}
           /\ \A d \in DOMAIN s : Append(s, x)[d] = s[d] /\ d # Len(s) + 1
           /\ Append(s, x)[Len(s) + 1] = x
OBVIOUS

LEMMA FrontAt ==
    ASSUME NEW S, NEW s \in Seq(S), s # <<>>
    PROVE  LET t == SubSeq(s, 1, Len(s) - 1) IN
           /\ Len(s) \in DOMAIN s
           /\ t \in Seq(S)
           /\ Len(t) = Len(s) - 1
           /\ DOMAIN s = DOMAIN t \cup {Len(s)}
           /\ \A d \in DOMAIN t : t[d] = s[d] /\ d # Len(s) /\ d \in DOMAIN s
<1>1. Len(s) \in Nat \ {0} /\ DOMAIN s = 1..Len(s)
  OBVIOUS
<1>. DEFINE t == SubSeq(s, 1, Len(s) - 1)
<1>2. t = [d \in 1..(Len(s) - 1) |-> s[d]]
  BY <1>1
<1>3. t \in Seq(S) /\ Len(t) = Len(s) - 1 /\ DOMAIN t = 1..(Len(s) - 1)
  BY <1>1, <1>2
<1>. QED  BY <1>1, <1>2, <1>3

\* The field that a step is about.
LEMMA FieldAtTop ==
    ASSUME IInv, HasField
    PROVE  /\ Top \in Frame /\ Len(frames) \in DOMAIN frames
           /\ TopStep \in Step
           /\ TopPath \in Seq(Step) /\ Len(TopPath) = Len(frames)
           /\ FieldAt(TopStep) \in FieldDescriptor
<1>1. frames # <<>> /\ Top.i <= Len(schema.fields[Top.message])
  BY DEF HasField
<1>2. Len(frames) \in DOMAIN frames /\ Top \in Frame
  BY <1>1, FrontAt DEF IInv, Top
<1>3. TopStep \in Step
  BY <1>2 DEF TopStep, Step, Frame
<1>4. Len(Top.path) = Len(frames) - 1 /\ Top.path \in Seq(Step) /\ Len(frames) \in Nat
  BY <1>2 DEF IInv, Top, Frame
<1>5. TopPath \in Seq(Step) /\ Len(TopPath) = Len(frames)
  BY <1>3, <1>4 DEF TopPath
<1>6. FieldAt(TopStep) \in FieldDescriptor
  <2>1. schema.fields[Top.message] \in Seq(FieldDescriptor) /\ Top.i \in Nat \ {0}
    BY <1>2 DEF IInv, IsSchema, Frame
  <2>. QED  BY <1>1, <2>1 DEF FieldAt, TopStep
<1>. QED  BY <1>2, <1>3, <1>5, <1>6

\* The methods of a field are numbered.
LEMMA MethodsAreNumbers ==
    ASSUME NEW field \in FieldDescriptor
    PROVE  Methods(field) \subseteq Nat
<1>1. field.options \in Seq(FieldOption)
  BY DEF FieldDescriptor
<1>2. DOMAIN field.options \subseteq Nat
  BY <1>1
<1>. QED  BY <1>2 DEF Methods, Active

\* To advance in the topmost message disturbs no other component of a frame.
LEMMA Advanced ==
    ASSUME IInv, HasField, AdvanceField
    PROVE  /\ frames' \in Seq(Frame) /\ Len(frames') = Len(frames)
           /\ DOMAIN frames' = DOMAIN frames
           /\ \A d \in DOMAIN frames : /\ frames'[d].message = frames[d].message
                                       /\ frames'[d].path = frames[d].path
<1>1. Top \in Frame /\ Len(frames) \in DOMAIN frames /\ frames \in Seq(Frame)
  BY FieldAtTop DEF IInv
<1>. DEFINE f == [message |-> Top.message, path |-> Top.path, i |-> Top.i + 1]
<1>2. f \in Frame /\ f.message = Top.message /\ f.path = Top.path
  BY <1>1 DEF Frame
<1>3. frames' = [frames EXCEPT ![Len(frames)] = f]
  BY DEF AdvanceField
<1>. HIDE DEF f
<1>. QED  BY <1>1, <1>2, <1>3 DEF Top

\* It keeps the set of messages in the stack in line.
LEMMA AdvancedMatches ==
    ASSUME IInv, HasField, AdvanceField, UNCHANGED messages_in_stack
    PROVE  /\ \A d \in DOMAIN frames' : Len(frames'[d].path) = d - 1
           /\ StackMatches'
<1>1. /\ DOMAIN frames' = DOMAIN frames
      /\ \A d \in DOMAIN frames : /\ frames'[d].message = frames[d].message
                                  /\ frames'[d].path = frames[d].path
  BY Advanced
<1>2. {frames'[d].message : d \in DOMAIN frames'} = {frames[d].message : d \in DOMAIN frames}
  BY <1>1
<1>. QED  BY <1>1, <1>2 DEF IInv, StackMatches
-----------------------------------------------------------------------------
LEMMA IInvInit == Init => IInv
BY SchemaAssumption DEF Init, IInv, IsSchema, StackMatches, Frame, Setter

LEMMA RefuseMessageStep == ASSUME IInv, RefuseMessage PROVE IInv'
BY DEF IInv, RefuseMessage, StackMatches, IsSchema

LEMMA EnterMessageStep == ASSUME IInv, EnterMessage PROVE IInv'
<1>. DEFINE f == [message |-> callee.message, path |-> callee.path, i |-> 1]
<1>1. /\ frames' = Append(frames, f)
      /\ messages_in_stack' = messages_in_stack \cup {callee.message}
      /\ UNCHANGED <<schema, callee, written>>
      /\ pc = "call" /\ pc' = "loop"
      /\ ~ TooDeep(callee) /\ callee.message \notin messages_in_stack
  BY DEF EnterMessage
<1>2. f \in Frame /\ frames \in Seq(Frame) /\ f.message = callee.message
  BY DEF IInv, Frame
<1>3. Len(f.path) = Len(frames) /\ Len(frames) <= kMaxSubFieldSetterDepth
  BY <1>1, SchemaAssumption DEF IInv, TooDeep, Depth
<1>. HIDE DEF f
<1>4. /\ frames' \in Seq(Frame) /\ Len(frames') = Len(frames) + 1
      /\ DOMAIN frames' = DOMAIN frames \cup {Len(frames) + 1}
      /\ \A d \in DOMAIN frames : frames'[d] = frames[d] /\ d # Len(frames) + 1
      /\ frames'[Len(frames) + 1] = f
  BY <1>1, <1>2, AppendAt
<1>5. Len(frames') <= kMaxSubFieldSetterDepth + 1
  BY <1>2, <1>3, <1>4, SchemaAssumption
<1>6. \A d \in DOMAIN frames' : Len(frames'[d].path) = d - 1
  BY <1>2, <1>3, <1>4 DEF IInv
<1>7. StackMatches'
  BY <1>1, <1>2, <1>4 DEF IInv, StackMatches
<1>. QED  BY <1>1, <1>4, <1>5, <1>6, <1>7 DEF IInv, IsSchema

LEMMA SkipFieldStep == ASSUME IInv, SkipField PROVE IInv'
<1>1. HasField /\ AdvanceField /\ UNCHANGED <<schema, messages_in_stack, callee, written, pc>>
  BY DEF SkipField
<1>. QED  BY <1>1, Advanced, AdvancedMatches DEF IInv, IsSchema, HasField

LEMMA WriteFieldStep == ASSUME IInv, WriteField PROVE IInv'
<1>1. HasField /\ AdvanceField /\ UNCHANGED <<schema, messages_in_stack>>
  BY DEF WriteField
<1>. DEFINE field == FieldAt(TopStep)
<1>2. /\ frames' \in Seq(Frame) /\ Len(frames') = Len(frames)
      /\ \A d \in DOMAIN frames' : Len(frames'[d].path) = d - 1
      /\ StackMatches'
  BY <1>1, Advanced, AdvancedMatches
<1>3. /\ field \in FieldDescriptor /\ TopPath \in Seq(Step) /\ Len(TopPath) = Len(frames)
      /\ Methods(field) \subseteq Nat
  BY <1>1, FieldAtTop, MethodsAreNumbers
<1>4. written' \subseteq Setter
  BY <1>3 DEF WriteField, IInv, Setter
<1>5. CASE Recurses(field)
  <2>1. callee' = [message |-> field.message, path |-> TopPath] /\ pc' = "call"
    BY <1>5 DEF WriteField
  <2>2. field.message \in Message
    BY <1>3, <1>5 DEF Recurses, FieldDescriptor
  <2>. QED  BY <1>1, <1>2, <1>3, <1>4, <2>1, <2>2 DEF IInv, IsSchema
<1>6. CASE ~ Recurses(field)
  <2>1. UNCHANGED <<callee, pc>> /\ pc # "call"
    BY <1>1, <1>6 DEF WriteField, HasField
  <2>. QED  BY <1>1, <1>2, <1>4, <2>1 DEF IInv, IsSchema
<1>. QED  BY <1>5, <1>6

LEMMA LeaveMessageStep == ASSUME IInv, LeaveMessage PROVE IInv'
<1>1. /\ frames # <<>> /\ frames \in Seq(Frame) /\ pc = "loop"
      /\ frames' = SubSeq(frames, 1, Len(frames) - 1)
      /\ messages_in_stack' = messages_in_stack \ {frames[Len(frames)].message}
      /\ UNCHANGED <<schema, callee, written, pc>>
  BY DEF LeaveMessage, Top, IInv
<1>2. /\ Len(frames) \in DOMAIN frames
      /\ frames' \in Seq(Frame) /\ Len(frames') = Len(frames) - 1
      /\ DOMAIN frames = DOMAIN frames' \cup {Len(frames)}
      /\ \A d \in DOMAIN frames' :
            frames'[d] = frames[d] /\ d # Len(frames) /\ d \in DOMAIN frames
  BY <1>1, FrontAt
<1>3. Len(frames') <= kMaxSubFieldSetterDepth + 1
  <2>1. Len(frames) \in Nat /\ Len(frames) <= kMaxSubFieldSetterDepth + 1
    BY <1>1 DEF IInv
  <2>. QED  BY <1>2, <2>1, SchemaAssumption
<1>4. StackMatches'
  <2>1. \A d, e \in DOMAIN frames' : frames'[d].message = frames'[e].message => d = e
    BY <1>2 DEF IInv, StackMatches
  <2>2. \A d \in DOMAIN frames' : frames'[d].message # frames[Len(frames)].message
    BY <1>2 DEF IInv, StackMatches
  <2>3. messages_in_stack = {frames[d].message : d \in DOMAIN frames}
    BY DEF IInv, StackMatches
  <2>4. {frames[d].message : d \in DOMAIN frames} \ {frames[Len(frames)].message}
            = {frames'[d].message : d \in DOMAIN frames'}
    BY <1>2, <2>2
  <2>5. messages_in_stack' = {frames'[d].message : d \in DOMAIN frames'}
    BY <1>1, <2>3, <2>4
  <2>. QED  BY <2>1, <2>5 DEF StackMatches
<1>. QED  BY <1>1, <1>2, <1>3, <1>4, Zenon DEF IInv, IsSchema

LEMMA FinishStep == ASSUME IInv, Finish PROVE IInv'
BY DEF IInv, Finish, StackMatches, IsSchema

LEMMA IInvStep == IInv /\ [Next]_vars => IInv'
<1>. SUFFICES ASSUME IInv, [Next]_vars PROVE IInv'
  OBVIOUS
<1>1. CASE UNCHANGED vars
  BY <1>1 DEF vars, IInv, StackMatches, IsSchema
<1>. QED  BY <1>1, RefuseMessageStep, EnterMessageStep, SkipFieldStep, WriteFieldStep,
             LeaveMessageStep, FinishStep DEF Next

\* IInv is an invariant of the recursion (message_builder.cc:157-212).
THEOREM Invariance == Spec => []IInv
BY IInvInit, IInvStep, PTL DEF Spec

\* Types, and the bound on the depth of the recursion (message_builder.cc:162):
\* no more than kMaxSubFieldSetterDepth messages below the builder's own.
THEOREM TypeCorrect == Spec => []TypeOK
BY Invariance, IInvImplies, PTL

\* The set of messages in the stack matches the activations, for any schema.
THEOREM StackMatchesCorrect == Spec => []StackMatches
<1>1. IInv => StackMatches
  BY DEF IInv
<1>. QED  BY <1>1, Invariance, PTL
-----------------------------------------------------------------------------
(***************************************************************************)
(* The setters written are just those of the ways down.                    *)
(***************************************************************************)
\* The step that activation d made last: the one under way, if any is.
DownStep(d) == <<frames[d].message, frames[d].i - 1>>

\* The call that activation d has under way, if it has one.
Calls(d) == d < Len(frames) \/ pc = "call"
CalledMessage(d) == IF d < Len(frames) THEN frames[d + 1].message ELSE callee.message

\* The activations are the way down to the topmost one, and to the callee.
Chained ==
    /\ \A d \in DOMAIN frames :
          /\ d = 1 => frames[d].message = schema.root
          /\ \A k \in 1..d - 1 : frames[d].path[k] = DownStep(k)
          /\ Calls(d) =>
                /\ DownStep(d)[2] \in DOMAIN schema.fields[frames[d].message]
                /\ ~ SkipsField(FieldAt(DownStep(d)))
                /\ Recurses(FieldAt(DownStep(d)))
                /\ FieldAt(DownStep(d)).message = CalledMessage(d)
    /\ pc = "call" =>
          /\ \A k \in DOMAIN frames : callee.path[k] = DownStep(k)
          /\ frames = <<>> => callee.message = schema.root
    /\ pc = "done" => frames = <<>>

SettersOf(p) == {[path |-> p, method |-> m] : m \in Methods(FieldAt(p[Len(p)]))}

Sound == \A w \in written : \E p \in Paths : w \in SettersOf(p)

\* A way down whose field in the message of activation d has been passed.
Passed(p, d) ==
    /\ d <= Len(p)
    /\ \A k \in 1..d - 1 : p[k] = DownStep(k)
    /\ p[d][1] = frames[d].message /\ p[d][2] < frames[d].i

\* One that leads into the message that is under way there.
UnderWay(p, d) == Calls(d) /\ p[d] = DownStep(d) /\ d < Len(p)

Complete ==
    /\ \A d \in DOMAIN frames : \A p \in Paths :
          Passed(p, d) /\ ~ UnderWay(p, d) => SettersOf(p) \subseteq written
    /\ frames = <<>> /\ pc # "call" => \A p \in Paths : SettersOf(p) \subseteq written

LEMMA PathFacts ==
    ASSUME IInv, NEW p \in Paths
    PROVE  /\ p \in Seq(Step) /\ Len(p) \in 1..kMaxSubFieldSetterDepth + 1
           /\ DOMAIN p = 1..Len(p)
           /\ IsPath(p)
           /\ \A k \in DOMAIN p : /\ p[k] = <<p[k][1], p[k][2]>>
                                  /\ p[k][1] \in Message
                                  /\ p[k][2] \in DOMAIN schema.fields[p[k][1]]
                                  /\ p[k][2] \in Nat \ {0}
<1>. DEFINE FieldStep == UNION {{m} \X DOMAIN schema.fields[m] : m \in Message}
<1>1. PICK n \in 1..kMaxSubFieldSetterDepth + 1 : p \in [1..n -> FieldStep]
  BY DEF Paths
<1>2. IsPath(p)
  BY DEF Paths
<1>3. \A s \in FieldStep : /\ s = <<s[1], s[2]>> /\ s[1] \in Message
                           /\ s[2] \in DOMAIN schema.fields[s[1]]
  OBVIOUS
<1>4. \A m \in Message : DOMAIN schema.fields[m] \subseteq Nat \ {0}
  <2>. SUFFICES ASSUME NEW m \in Message PROVE DOMAIN schema.fields[m] \subseteq Nat \ {0}
    OBVIOUS
  <2>1. schema.fields[m] \in Seq(FieldDescriptor)
    BY DEF IInv, IsSchema
  <2>. QED  BY <2>1
<1>5. \A s \in FieldStep : s[2] \in Nat \ {0} /\ s \in Step
  <2>. SUFFICES ASSUME NEW s \in FieldStep PROVE s[2] \in Nat \ {0} /\ s \in Step
    OBVIOUS
  <2>1. s[2] \in Nat \ {0}
    BY <1>3, <1>4
  <2>. QED  BY <1>3, <2>1 DEF Step
<1>. HIDE DEF FieldStep
<1>6. n \in Nat /\ p \in Seq(Step) /\ Len(p) = n /\ DOMAIN p = 1..n
  BY <1>1, <1>5, SchemaAssumption
<1>. QED  BY <1>1, <1>2, <1>3, <1>5, <1>6

LEMMA PathIs ==
    ASSUME IInv, NEW p \in Seq(Step), Len(p) \in 1..kMaxSubFieldSetterDepth + 1, IsPath(p)
    PROVE  p \in Paths
<1>. DEFINE FieldStep == UNION {{m} \X DOMAIN schema.fields[m] : m \in Message}
<1>1. DOMAIN p = 1..Len(p)
  OBVIOUS
<1>2. \A k \in DOMAIN p : p[k] \in FieldStep
  <2>. SUFFICES ASSUME NEW k \in DOMAIN p PROVE p[k] \in FieldStep
    OBVIOUS
  <2>1. p[k] \in Step
    OBVIOUS
  <2>2. p[k][1] \in Message /\ p[k] = <<p[k][1], p[k][2]>>
    BY <2>1 DEF Step
  <2>3. p[k][2] \in DOMAIN schema.fields[p[k][1]]
    BY DEF IsPath
  <2>. QED  BY <2>2, <2>3
<1>. HIDE DEF FieldStep
<1>3. p \in [1..Len(p) -> FieldStep]
  BY <1>1, <1>2
<1>. QED  BY <1>3 DEF Paths, FieldStep

\* All that is said of a way down depends on the schema alone.
LEMMA SchemaKept ==
    ASSUME schema' = schema
    PROVE  /\ Paths' = Paths
           /\ \A p : (SettersOf(p))' = SettersOf(p)
BY DEF Paths, IsPath, SettersOf, FieldAt, Recurses

\* Nor does what is under way, while only `pc` changes.
LEMMA DownKept ==
    ASSUME UNCHANGED <<schema, frames, callee>>
    PROVE  \A d : /\ (DownStep(d))' = DownStep(d) /\ (CalledMessage(d))' = CalledMessage(d)
                  /\ (FieldAt(DownStep(d)))' = FieldAt(DownStep(d))
                  /\ (SkipsField(FieldAt(DownStep(d))))' <=> SkipsField(FieldAt(DownStep(d)))
                  /\ (Recurses(FieldAt(DownStep(d))))' <=> Recurses(FieldAt(DownStep(d)))
<1>1. \A d : (DownStep(d))' = DownStep(d) /\ (CalledMessage(d))' = CalledMessage(d)
  BY DEF DownStep, CalledMessage
<1>2. \A d : (FieldAt(DownStep(d)))' = FieldAt(DownStep(d))
  BY DEF DownStep, FieldAt
<1>3. \A d : (SkipsField(FieldAt(DownStep(d))))' <=> SkipsField(FieldAt(DownStep(d)))
  BY DEF DownStep, FieldAt, SkipsField
<1>4. \A d : (Recurses(FieldAt(DownStep(d))))' <=> Recurses(FieldAt(DownStep(d)))
  BY DEF DownStep, FieldAt, Recurses
<1>. QED  BY <1>1, <1>2, <1>3, <1>4

LEMMA ChainInit == ASSUME Init PROVE Chained /\ Sound /\ Complete
BY DEF Init, Chained, Sound, Complete

LEMMA ChainRefuse ==
    ASSUME IInv, Chained, Sound, Complete, RefuseMessage
    PROVE  Chained' /\ Sound' /\ Complete'
<1>1. /\ UNCHANGED <<schema, frames, callee, written>> /\ pc = "call" /\ pc' = "loop"
      /\ TooDeep(callee) \/ callee.message \in messages_in_stack
      /\ Paths' = Paths /\ \A p : (SettersOf(p))' = SettersOf(p)
  BY SchemaKept DEF RefuseMessage
<1>2. frames # <<>>
  BY <1>1, SchemaAssumption DEF IInv, TooDeep, Depth, StackMatches
<1>3. Chained'
  <2>1. \A d : (Calls(d))' => Calls(d)
    BY <1>1 DEF Calls
  <2>. QED  BY <1>1, <1>2, <2>1, DownKept DEF Chained
<1>4. Sound'
  BY <1>1 DEF Sound
<1>5. ASSUME NEW d \in DOMAIN frames, NEW p \in Paths, Passed(p, d), UnderWay(p, d)
      PROVE  UnderWay(p, d)'
  <2>. SUFFICES ASSUME d = Len(frames) PROVE FALSE
    BY <1>1, <1>5 DEF UnderWay, Calls, DownStep, IInv
  <2>1. p[d] = DownStep(d) /\ d < Len(p)
    BY <1>5 DEF UnderWay
  <2>2. d \in Nat /\ DOMAIN frames = 1..d
    BY DEF IInv
  <2>3. /\ IsPath(p) /\ DOMAIN p = 1..Len(p) /\ Len(p) \in 1..kMaxSubFieldSetterDepth + 1
    BY PathFacts
  <2>4. d \in DOMAIN p /\ d + 1 \in DOMAIN p
    BY <2>1, <2>2, <2>3
  <2>5. p[d + 1][1] = callee.message
    BY <1>1, <2>1, <2>3, <2>4 DEF IsPath, Chained, Calls, CalledMessage
  <2>6. CASE TooDeep(callee)
    <3>1. d > kMaxSubFieldSetterDepth
      BY <1>1, <2>6 DEF TooDeep, Depth, IInv
    <3>. QED  BY <2>1, <2>2, <2>3, <3>1, SchemaAssumption
  <2>7. CASE callee.message \in messages_in_stack
    <3>1. PICK k \in DOMAIN frames : frames[k].message = callee.message
      BY <2>7 DEF IInv, StackMatches
    <3>2. p[k] = DownStep(k) /\ k \in DOMAIN p /\ k # d + 1
      BY <1>5, <2>1, <2>2, <2>3, <2>4 DEF Passed
    <3>3. p[k][1] = p[d + 1][1]
      BY <2>5, <3>1, <3>2 DEF DownStep
    <3>. QED  BY <2>3, <2>4, <3>2, <3>3 DEF IsPath
  <2>. QED  BY <1>1, <2>6, <2>7
<1>6. \A d \in DOMAIN frames : \A p \in Paths : Passed(p, d)' <=> Passed(p, d)
  BY <1>1 DEF Passed, DownStep
<1>7. Complete'
  BY <1>1, <1>2, <1>5, <1>6 DEF Complete
<1>. QED  BY <1>3, <1>4, <1>7

LEMMA ChainEnter ==
    ASSUME IInv, Chained, Sound, Complete, EnterMessage
    PROVE  Chained' /\ Sound' /\ Complete'
<1>. DEFINE f == [message |-> callee.message, path |-> callee.path, i |-> 1]
<1>0. PICK n \in Nat : n = Len(frames)
  BY DEF IInv
<1>1. /\ frames' = Append(frames, f)
      /\ UNCHANGED <<schema, callee, written>> /\ pc = "call" /\ pc' = "loop"
      /\ Paths' = Paths /\ \A p : (SettersOf(p))' = SettersOf(p)
  BY SchemaKept DEF EnterMessage
<1>2. /\ f \in Frame /\ frames \in Seq(Frame)
      /\ f.message = callee.message /\ f.path = callee.path /\ f.i = 1
  BY DEF IInv, Frame
<1>. HIDE DEF f
<1>3. /\ frames' # <<>> /\ Len(frames') = n + 1 /\ n \in Nat
      /\ DOMAIN frames = 1..n /\ DOMAIN frames' = 1..n + 1
      /\ \A d \in DOMAIN frames : frames'[d] = frames[d]
      /\ frames'[n + 1] = f
  BY <1>0, <1>1, <1>2, AppendAt
<1>4. \A d \in DOMAIN frames : (DownStep(d))' = DownStep(d) /\ Calls(d) /\ Calls(d)'
  BY <1>0, <1>1, <1>3 DEF DownStep, Calls
<1>5. \A d \in DOMAIN frames : (CalledMessage(d))' = CalledMessage(d)
  BY <1>0, <1>1, <1>2, <1>3 DEF CalledMessage
<1>6. ~ Calls(n + 1)'
  BY <1>1, <1>3 DEF Calls
<1>7. Chained'
  <2>1. ASSUME NEW d \in DOMAIN frames'
        PROVE  /\ d = 1 => frames'[d].message = schema.root
               /\ \A k \in 1..d - 1 : frames'[d].path[k] = (DownStep(k))'
    <3>1. CASE d \in DOMAIN frames
      <4>1. \A k \in 1..d - 1 : k \in DOMAIN frames
        BY <1>3, <3>1
      <4>. QED  BY <1>3, <1>4, <3>1, <4>1 DEF Chained
    <3>2. CASE d = n + 1
      <4>1. \A k \in 1..d - 1 : k \in DOMAIN frames
        BY <1>3, <3>2
      <4>2. d = 1 => frames = <<>>
        BY <1>2, <1>3, <3>2
      <4>. QED  BY <1>1, <1>2, <1>3, <1>4, <3>2, <4>1, <4>2 DEF Chained
    <3>. QED  BY <1>3, <3>1, <3>2
  <2>2. ASSUME NEW d \in DOMAIN frames', Calls(d)'
        PROVE  /\ DownStep(d)[2]' \in DOMAIN schema.fields[frames'[d].message]
               /\ ~ SkipsField(FieldAt(DownStep(d)))'
               /\ Recurses(FieldAt(DownStep(d)))'
               /\ FieldAt(DownStep(d)).message' = (CalledMessage(d))'
    <3>1. d \in DOMAIN frames /\ Calls(d)
      BY <1>3, <1>4, <1>6, <2>2
    <3>2. /\ DownStep(d)[2] \in DOMAIN schema.fields[frames[d].message]
          /\ ~ SkipsField(FieldAt(DownStep(d)))
          /\ Recurses(FieldAt(DownStep(d)))
          /\ FieldAt(DownStep(d)).message = CalledMessage(d)
      BY <3>1 DEF Chained
    <3>3. /\ frames'[d] = frames[d] /\ (DownStep(d))' = DownStep(d)
          /\ (CalledMessage(d))' = CalledMessage(d)
      BY <1>3, <1>4, <1>5, <3>1
    <3>. QED  BY <1>1, <3>2, <3>3, Zenon DEF SkipsField, FieldAt, Recurses
  <2>. QED  BY <1>1, <2>1, <2>2 DEF Chained
<1>8. Sound'
  BY <1>1 DEF Sound
<1>9. ASSUME NEW d \in DOMAIN frames', NEW p \in Paths, Passed(p, d)', ~ UnderWay(p, d)'
      PROVE  SettersOf(p) \subseteq written
  <2>1. d \in DOMAIN p /\ p[d][2] \in Nat \ {0}
    BY <1>3, <1>9, PathFacts DEF Passed
  <2>2. d # n + 1
    BY <1>2, <1>3, <1>9, <2>1 DEF Passed
  <2>3. d \in DOMAIN frames
    BY <1>3, <2>2
  <2>4. \A k \in 1..d - 1 : k \in DOMAIN frames
    BY <1>3, <2>3
  <2>5. Passed(p, d) /\ ~ UnderWay(p, d)
    BY <1>3, <1>4, <1>9, <2>3, <2>4 DEF Passed, UnderWay
  <2>. QED  BY <2>3, <2>5 DEF Complete
<1>10. Complete'
  BY <1>1, <1>3, <1>9 DEF Complete
<1>. QED  BY <1>7, <1>8, <1>10

\* To advance turns the step of the topmost message into the one made last.
LEMMA AdvancedDown ==
    ASSUME IInv, HasField, AdvanceField, NEW n, n = Len(frames)
    PROVE  /\ n \in Nat \ {0} /\ n \in DOMAIN frames
           /\ DOMAIN frames = 1..n /\ DOMAIN frames' = 1..n /\ Len(frames') = n
           /\ \A d \in 1..n - 1 : frames'[d] = frames[d] /\ (DownStep(d))' = DownStep(d)
           /\ (DownStep(n))' = TopStep
           /\ frames'[n].message = Top.message /\ frames'[n].path = Top.path
           /\ frames'[n].i = Top.i + 1
           /\ Top = frames[n] /\ Top.i \in Nat \ {0} /\ Top.message \in Message
           /\ Top.i \in DOMAIN schema.fields[Top.message]
<1>1. Top \in Frame /\ n \in DOMAIN frames /\ frames \in Seq(Frame)
  BY FieldAtTop DEF IInv
<1>. DEFINE f == [message |-> Top.message, path |-> Top.path, i |-> Top.i + 1]
<1>2. /\ f.message = Top.message /\ f.path = Top.path /\ f.i = Top.i + 1
      /\ Top.i \in Nat \ {0} /\ Top.message \in Message
  BY <1>1 DEF Frame
<1>3. frames' = [frames EXCEPT ![n] = f]
  BY DEF AdvanceField
<1>. HIDE DEF f
<1>4. /\ DOMAIN frames = 1..n /\ DOMAIN frames' = 1..n /\ Len(frames') = n /\ n \in Nat \ {0}
      /\ \A d \in DOMAIN frames : frames'[d] = IF d = n THEN f ELSE frames[d]
  BY <1>1, <1>3, Advanced
<1>5. Top.i \in DOMAIN schema.fields[Top.message]
  <2>1. schema.fields[Top.message] \in Seq(FieldDescriptor)
    BY <1>2 DEF IInv, IsSchema
  <2>. QED  BY <1>2, <2>1 DEF HasField
<1>6. \A d \in 1..n - 1 : d \in DOMAIN frames /\ d # n
  BY <1>4
<1>7. (DownStep(n))' = TopStep
  BY <1>1, <1>2, <1>4 DEF DownStep, TopStep
<1>8. \A d \in 1..n - 1 : frames'[d] = frames[d] /\ (DownStep(d))' = DownStep(d)
  BY <1>4, <1>6 DEF DownStep
<1>. QED  BY <1>1, <1>2, <1>4, <1>5, <1>7, <1>8 DEF Top

\* A way down whose field there is passed by advancing had been passed before, or
\* its next step is the one about to be made.
LEMMA AdvancedPassed ==
    ASSUME IInv, HasField, AdvanceField, NEW n, n = Len(frames),
           NEW d \in DOMAIN frames, NEW p \in Paths, Passed(p, d)'
    PROVE  Passed(p, d) \/ (d = n /\ p[n] = TopStep)
<1>1. /\ n \in Nat \ {0} /\ DOMAIN frames = 1..n
      /\ \A k \in 1..n - 1 : frames'[k] = frames[k] /\ (DownStep(k))' = DownStep(k)
      /\ frames'[n].message = Top.message /\ frames'[n].i = Top.i + 1
      /\ Top = frames[n] /\ Top.i \in Nat \ {0}
  BY AdvancedDown
<1>2. \A k \in 1..d - 1 : k \in 1..n - 1
  BY <1>1
<1>3. \A k \in 1..d - 1 : p[k] = DownStep(k)
  BY <1>1, <1>2 DEF Passed
<1>4. CASE d = n
  <2>1. /\ d \in DOMAIN p /\ p[n] = <<p[n][1], p[n][2]>> /\ p[n][2] \in Nat \ {0}
    BY <1>1, <1>4, PathFacts DEF Passed
  <2>2. p[n][1] = Top.message /\ p[n][2] < Top.i + 1
    BY <1>1, <1>4 DEF Passed
  <2>3. p[n][2] < Top.i \/ p[n] = TopStep
    BY <1>1, <2>1, <2>2 DEF TopStep
  <2>. QED  BY <1>1, <1>3, <1>4, <2>2, <2>3 DEF Passed
<1>5. CASE d # n
  <2>1. d \in 1..n - 1
    BY <1>1, <1>5
  <2>. QED  BY <1>1, <1>3, <2>1 DEF Passed
<1>. QED  BY <1>4, <1>5

\* Below the topmost message all stays as it is.
LEMMA AdvancedChained ==
    ASSUME IInv, Chained, HasField, AdvanceField, UNCHANGED schema, NEW n, n = Len(frames)
    PROVE  /\ \A d \in DOMAIN frames' :
                 /\ d = 1 => frames'[d].message = schema'.root
                 /\ \A k \in 1..d - 1 : frames'[d].path[k] = (DownStep(k))'
           /\ \A d \in 1..n - 1 : Calls(d) /\ Calls(d)'
           /\ \A d \in 1..n - 1 :
                 /\ (DownStep(d)[2])' \in DOMAIN schema'.fields[frames'[d].message]
                 /\ ~ SkipsField(FieldAt(DownStep(d)))'
                 /\ Recurses(FieldAt(DownStep(d)))'
                 /\ (FieldAt(DownStep(d)).message)' = (CalledMessage(d))'
<1>2. /\ n \in Nat \ {0} /\ n \in DOMAIN frames
      /\ DOMAIN frames = 1..n /\ DOMAIN frames' = 1..n /\ Len(frames') = n
      /\ \A d \in 1..n - 1 : frames'[d] = frames[d] /\ (DownStep(d))' = DownStep(d)
      /\ frames'[n].message = Top.message /\ frames'[n].path = Top.path
      /\ Top = frames[n]
  BY AdvancedDown
<1>3. \A d \in 1..n - 1 : /\ Calls(d) /\ Calls(d)' /\ (CalledMessage(d))' = CalledMessage(d)
                          /\ d + 1 \in 1..n
  BY <1>2 DEF Calls, CalledMessage, IInv
<1>4. ASSUME NEW d \in DOMAIN frames'
      PROVE  /\ d = 1 => frames'[d].message = schema'.root
             /\ \A k \in 1..d - 1 : frames'[d].path[k] = (DownStep(k))'
  <2>1. \A k \in 1..d - 1 : k \in 1..n - 1
    BY <1>2
  <2>2. d \in 1..n - 1 \/ d = n
    BY <1>2
  <2>3. frames'[d].message = frames[d].message /\ frames'[d].path = frames[d].path
    BY <1>2, <2>2
  <2>. QED  BY <1>2, <2>1, <2>3 DEF Chained
<1>5. ASSUME NEW d \in 1..n - 1
      PROVE  /\ (DownStep(d)[2])' \in DOMAIN schema'.fields[frames'[d].message]
             /\ ~ SkipsField(FieldAt(DownStep(d)))'
             /\ Recurses(FieldAt(DownStep(d)))'
             /\ (FieldAt(DownStep(d)).message)' = (CalledMessage(d))'
  <2>1. d \in DOMAIN frames
    BY <1>2
  <2>2. /\ DownStep(d)[2] \in DOMAIN schema.fields[frames[d].message]
        /\ ~ SkipsField(FieldAt(DownStep(d)))
        /\ Recurses(FieldAt(DownStep(d)))
        /\ FieldAt(DownStep(d)).message = CalledMessage(d)
    BY <1>3, <2>1 DEF Chained
  <2>3. /\ frames'[d] = frames[d] /\ (DownStep(d))' = DownStep(d)
        /\ (CalledMessage(d))' = CalledMessage(d)
    BY <1>2, <1>3, <2>1
  <2>. QED  BY <2>2, <2>3, Zenon DEF SkipsField, FieldAt, Recurses
<1>. QED  BY <1>3, <1>4, <1>5

LEMMA ChainSkipField ==
    ASSUME IInv, Chained, Sound, Complete, SkipField
    PROVE  Chained' /\ Sound' /\ Complete'
<1>0. PICK n : n = Len(frames)
  OBVIOUS
<1>1. /\ HasField /\ AdvanceField /\ UNCHANGED <<schema, callee, written, pc>>
      /\ SkipsField(FieldAt(TopStep)) /\ pc = "loop"
      /\ Paths' = Paths /\ \A p : (SettersOf(p))' = SettersOf(p)
  BY SchemaKept DEF SkipField, HasField
<1>2. /\ n \in Nat \ {0} /\ n \in DOMAIN frames
      /\ DOMAIN frames = 1..n /\ DOMAIN frames' = 1..n /\ Len(frames') = n
      /\ \A d \in 1..n - 1 : frames'[d] = frames[d] /\ (DownStep(d))' = DownStep(d)
      /\ frames'[n].message = Top.message /\ frames'[n].path = Top.path
      /\ Top = frames[n]
  BY <1>0, <1>1, AdvancedDown
<1>3. \A d \in 1..n - 1 : /\ Calls(d) /\ Calls(d)' /\ (CalledMessage(d))' = CalledMessage(d)
                          /\ d + 1 \in 1..n
  BY <1>0, <1>1, <1>2 DEF Calls, CalledMessage
<1>4. ~ Calls(n)' /\ ~ Calls(n)
  BY <1>0, <1>1, <1>2 DEF Calls
<1>5. Chained'
  <2>1. \A d \in DOMAIN frames' : Calls(d)' => d \in 1..n - 1
    BY <1>2, <1>4
  <2>. QED  BY <1>0, <1>1, <2>1, AdvancedChained DEF Chained
<1>6. Sound'
  BY <1>1 DEF Sound
<1>7. ASSUME NEW d \in DOMAIN frames', NEW p \in Paths, Passed(p, d)', ~ UnderWay(p, d)'
      PROVE  SettersOf(p) \subseteq written
  <2>1. Passed(p, d)
    <3>1. CASE d = n /\ p[n] = TopStep
      <4>1. n \in DOMAIN p /\ IsPath(p)
        BY <1>2, <1>7, <3>1, PathFacts DEF Passed
      <4>. QED  BY <1>1, <3>1, <4>1 DEF IsPath
    <3>. QED  BY <1>0, <1>1, <1>2, <1>7, <3>1, AdvancedPassed
  <2>2. ~ UnderWay(p, d)
    <3>1. d \in 1..n - 1 \/ d = n
      BY <1>2
    <3>. QED  BY <1>2, <1>3, <1>4, <1>7, <3>1 DEF UnderWay
  <2>. QED  BY <1>2, <2>1, <2>2 DEF Complete
<1>8. Complete'
  BY <1>1, <1>2, <1>7 DEF Complete
<1>. QED  BY <1>5, <1>6, <1>8

\* The way down to the field that is about to be written.
LEMMA TopPathSteps ==
    ASSUME IInv, Chained, HasField, NEW n, n = Len(frames)
    PROVE  /\ n \in Nat \ {0} /\ DOMAIN TopPath = 1..n /\ TopPath[n] = TopStep
           /\ \A k \in 1..n - 1 : TopPath[k] = DownStep(k) /\ Calls(k) /\ k \in 1..n
<1>1. /\ Top \in Frame /\ TopStep \in Step
      /\ TopPath \in Seq(Step) /\ Len(TopPath) = Len(frames)
  BY FieldAtTop
<1>2. n \in Nat \ {0} /\ DOMAIN frames = 1..n /\ Top = frames[n] /\ n \in DOMAIN frames
  BY DEF IInv, HasField, Top
<1>3. Len(Top.path) = n - 1 /\ Top.path \in Seq(Step)
  BY <1>1, <1>2 DEF IInv, Frame
<1>4. TopPath[n] = TopStep /\ \A k \in 1..n - 1 : TopPath[k] = Top.path[k] /\ k \in 1..n
  BY <1>1, <1>2, <1>3 DEF TopPath
<1>5. \A k \in 1..n - 1 : Top.path[k] = DownStep(k)
  BY <1>2 DEF Chained
<1>6. \A k \in 1..n - 1 : Calls(k)
  BY <1>2 DEF Calls
<1>7. DOMAIN TopPath = 1..n
  BY <1>1
<1>8. \A k \in 1..n - 1 : TopPath[k] = DownStep(k)
  BY <1>4, <1>5
<1>9. n \in Nat \ {0} /\ TopPath[n] = TopStep /\ \A k \in 1..n - 1 : k \in 1..n
  BY <1>2, <1>4
<1>. QED  BY <1>6, <1>7, <1>8, <1>9, Zenon

\* The field that is about to be written is at the end of a way down.
LEMMA TopPathIsPath ==
    ASSUME IInv, Chained, HasField, ~ SkipsField(FieldAt(TopStep))
    PROVE  TopPath \in Paths
<1>1. /\ Top \in Frame /\ TopStep \in Step
      /\ TopPath \in Seq(Step) /\ Len(TopPath) = Len(frames)
  BY FieldAtTop
<1>2. PICK n \in Nat \ {0} : n = Len(frames) /\ DOMAIN frames = 1..n /\ Top = frames[n]
  BY DEF IInv, HasField, Top
<1>3. DOMAIN TopPath = 1..n /\ n \in 1..kMaxSubFieldSetterDepth + 1
  BY <1>1, <1>2, SchemaAssumption DEF IInv
<1>5. /\ TopPath[n] = TopStep
      /\ \A k \in 1..n - 1 : /\ k \in 1..n /\ k + 1 \in 1..n
                             /\ TopPath[k] = DownStep(k) /\ Calls(k)
  BY <1>2, TopPathSteps
<1>7. \A k \in 1..n : TopPath[k][1] = frames[k].message
  <2>. SUFFICES ASSUME NEW k \in 1..n PROVE TopPath[k][1] = frames[k].message
    OBVIOUS
  <2>1. k \in 1..n - 1 \/ k = n
    BY <1>2
  <2>. QED  BY <1>2, <1>5, <2>1 DEF DownStep, TopStep
<1>8. Top.i \in DOMAIN schema.fields[Top.message]
  <2>1. schema.fields[Top.message] \in Seq(FieldDescriptor) /\ Top.i \in Nat \ {0}
    BY <1>1 DEF IInv, IsSchema, Frame
  <2>. QED  BY <2>1 DEF HasField
<1>9. TopPath[1][1] = schema.root
  BY <1>2, <1>7 DEF Chained
<1>10. ASSUME NEW k \in 1..n
       PROVE  /\ TopPath[k][2] \in DOMAIN schema.fields[TopPath[k][1]]
              /\ ~ SkipsField(FieldAt(TopPath[k]))
              /\ k < n => /\ Recurses(FieldAt(TopPath[k]))
                          /\ FieldAt(TopPath[k]).message = TopPath[k + 1][1]
  <2>1. CASE k \in 1..n - 1
    <3>1. CalledMessage(k) = frames[k + 1].message
      BY <1>2, <2>1 DEF CalledMessage
    <3>. QED  BY <1>2, <1>5, <1>7, <2>1, <3>1 DEF Chained
  <2>2. CASE k = n
    <3>1. TopStep[1] = Top.message /\ TopStep[2] = Top.i
      BY DEF TopStep
    <3>2. TopPath[k] = TopStep /\ ~ k < n
      BY <1>2, <1>5, <2>2
    <3>. QED  BY <1>8, <3>1, <3>2
  <2>. QED  BY <1>2, <2>1, <2>2
<1>11. \A k, l \in 1..n : TopPath[k][1] = TopPath[l][1] => k = l
  <2>1. \A k, l \in 1..n : frames[k].message = frames[l].message => k = l
    BY <1>2 DEF IInv, StackMatches
  <2>2. SUFFICES ASSUME NEW k \in 1..n, NEW l \in 1..n, TopPath[k][1] = TopPath[l][1]
                 PROVE  k = l
    OBVIOUS
  <2>3. TopPath[k][1] = frames[k].message /\ TopPath[l][1] = frames[l].message
    BY <1>7
  <2>. QED  BY <2>1, <2>2, <2>3
<1>12. IsPath(TopPath)
  BY <1>1, <1>2, <1>3, <1>9, <1>10, <1>11 DEF IsPath
<1>. QED  BY <1>1, <1>2, <1>3, <1>12, PathIs

LEMMA ChainWriteField ==
    ASSUME IInv, Chained, Sound, Complete, WriteField
    PROVE  Chained' /\ Sound' /\ Complete'
<1>0. PICK n : n = Len(frames)
  OBVIOUS
<1>1. /\ HasField /\ AdvanceField /\ UNCHANGED schema /\ pc = "loop"
      /\ ~ SkipsField(FieldAt(TopStep))
      /\ Paths' = Paths /\ \A p : (SettersOf(p))' = SettersOf(p)
  BY SchemaKept DEF WriteField, HasField
<1>2. /\ n \in Nat \ {0} /\ n \in DOMAIN frames
      /\ DOMAIN frames = 1..n /\ DOMAIN frames' = 1..n /\ Len(frames') = n
      /\ \A d \in 1..n - 1 : frames'[d] = frames[d] /\ (DownStep(d))' = DownStep(d)
      /\ (DownStep(n))' = TopStep
      /\ frames'[n].message = Top.message
      /\ Top.i \in DOMAIN schema.fields[Top.message]
  BY <1>0, <1>1, AdvancedDown
<1>3. /\ DOMAIN TopPath = 1..n /\ TopPath[n] = TopStep /\ Len(TopPath) = n
      /\ \A k \in 1..n - 1 : TopPath[k] = DownStep(k)
      /\ TopPath \in Paths
  BY <1>0, <1>1, FieldAtTop, TopPathSteps, TopPathIsPath
<1>4. written' = written \cup SettersOf(TopPath)
  BY <1>3 DEF WriteField, SettersOf
<1>5. \A d \in 1..n - 1 : Calls(d) /\ Calls(d)'
  BY <1>0, <1>1, AdvancedChained
<1>6. IF Recurses(FieldAt(TopStep))
        THEN callee' = [message |-> FieldAt(TopStep).message, path |-> TopPath] /\ pc' = "call"
        ELSE UNCHANGED <<callee, pc>>
  BY DEF WriteField
<1>7. Calls(n)' <=> Recurses(FieldAt(TopStep))
  BY <1>1, <1>2, <1>6 DEF Calls
<1>8. Chained'
  <2>1. ASSUME NEW d \in DOMAIN frames', Calls(d)'
        PROVE  /\ (DownStep(d)[2])' \in DOMAIN schema'.fields[frames'[d].message]
               /\ ~ SkipsField(FieldAt(DownStep(d)))'
               /\ Recurses(FieldAt(DownStep(d)))'
               /\ (FieldAt(DownStep(d)).message)' = (CalledMessage(d))'
    <3>1. CASE d \in 1..n - 1
      BY <1>0, <1>1, <3>1, AdvancedChained
    <3>2. CASE d = n
      <4>1. Recurses(FieldAt(TopStep)) /\ (CalledMessage(d))' = FieldAt(TopStep).message
        BY <1>2, <1>6, <1>7, <2>1, <3>2 DEF CalledMessage
      <4>2. (DownStep(d))' = TopStep /\ TopStep[2] = Top.i
        BY <1>2, <3>2 DEF TopStep
      <4>. QED  BY <1>1, <1>2, <3>2, <4>1, <4>2, Zenon DEF SkipsField, FieldAt, Recurses
    <3>. QED  BY <1>2, <3>1, <3>2
  <2>2. ASSUME pc' = "call"
        PROVE  /\ \A k \in DOMAIN frames' : callee'.path[k] = (DownStep(k))'
               /\ frames' # <<>>
    <3>1. callee'.path = TopPath
      BY <1>1, <1>6, <2>2
    <3>2. \A k \in DOMAIN frames' : k \in 1..n - 1 \/ k = n
      BY <1>2
    <3>. QED  BY <1>2, <1>3, <3>1, <3>2
  <2>3. pc' # "done"
    BY <1>1, <1>6
  <2>. QED  BY <1>0, <1>1, <2>1, <2>2, <2>3, AdvancedChained DEF Chained
<1>9. Sound'
  BY <1>1, <1>3, <1>4 DEF Sound
<1>10. ASSUME NEW d \in DOMAIN frames', NEW p \in Paths, Passed(p, d)', ~ UnderWay(p, d)'
       PROVE  SettersOf(p) \subseteq written'
  <2>1. CASE d = n /\ p[n] = TopStep
    <3>1. /\ IsPath(p) /\ DOMAIN p = 1..Len(p) /\ Len(p) \in Nat /\ p \in Seq(Step)
          /\ n <= Len(p) /\ n \in DOMAIN p
      BY <1>2, <1>10, <2>1, PathFacts DEF Passed
    <3>2. ~ n < Len(p)
      <4>. SUFFICES ASSUME n < Len(p) PROVE FALSE
        OBVIOUS
      <4>1. Recurses(FieldAt(TopStep))
        BY <2>1, <3>1 DEF IsPath
      <4>. QED  BY <1>2, <1>7, <1>10, <2>1, <4>1 DEF UnderWay
    <3>3. Len(p) = n
      <4>1. n \in Nat /\ Len(p) \in Nat /\ n <= Len(p)
        BY <1>2, <3>1
      <4>. QED  BY <3>2, <4>1
    <3>4. \A k \in 1..n - 1 : p[k] = TopPath[k]
      BY <1>2, <1>3, <1>10, <2>1 DEF Passed
    <3>5. \A k \in 1..n : p[k] = TopPath[k]
      <4>1. \A k \in 1..n : k \in 1..n - 1 \/ k = n
        BY <1>2
      <4>. QED  BY <1>3, <2>1, <3>4, <4>1
    <3>6. p = TopPath
      BY <1>1, <1>3, <3>1, <3>3, <3>5, FieldAtTop
    <3>. QED  BY <1>4, <3>6
  <2>2. CASE Passed(p, d)
    <3>1. ~ UnderWay(p, d)
      <4>1. CASE d \in 1..n - 1
        BY <1>2, <1>5, <1>10, <4>1 DEF UnderWay
      <4>2. CASE d = n
        BY <1>0, <1>1, <1>2, <4>2 DEF UnderWay, Calls
      <4>. QED  BY <1>2, <4>1, <4>2
    <3>. QED  BY <1>2, <1>4, <2>2, <3>1 DEF Complete
  <2>. QED  BY <1>0, <1>1, <1>2, <1>10, <2>1, <2>2, AdvancedPassed
<1>11. Complete'
  BY <1>1, <1>2, <1>10 DEF Complete
<1>. QED  BY <1>8, <1>9, <1>11

LEMMA ChainLeave ==
    ASSUME IInv, Chained, Sound, Complete, LeaveMessage
    PROVE  Chained' /\ Sound' /\ Complete'
<1>0. PICK n : n = Len(frames)
  OBVIOUS
<1>1. /\ frames # <<>> /\ frames \in Seq(Frame) /\ pc = "loop" /\ ~ HasField
      /\ frames' = SubSeq(frames, 1, Len(frames) - 1)
      /\ UNCHANGED <<schema, callee, written, pc>>
      /\ Paths' = Paths /\ \A p : (SettersOf(p))' = SettersOf(p)
  BY SchemaKept DEF LeaveMessage, IInv
<1>2. /\ n \in Nat \ {0} /\ DOMAIN frames = 1..n /\ n \in DOMAIN frames
      /\ Len(frames') = n - 1 /\ DOMAIN frames' = 1..n - 1
      /\ \A d \in 1..n - 1 : frames'[d] = frames[d] /\ d \in DOMAIN frames
  <2>1. /\ frames' \in Seq(Frame) /\ Len(frames') = n - 1
        /\ DOMAIN frames = DOMAIN frames' \cup {n}
        /\ \A d \in DOMAIN frames' : frames'[d] = frames[d]
    BY <1>0, <1>1, FrontAt
  <2>. QED  BY <1>0, <1>1, <2>1
<1>3. \A d \in 1..n - 1 : (DownStep(d))' = DownStep(d) /\ Calls(d)
  BY <1>0, <1>2 DEF DownStep, Calls
<1>4. \A d \in 1..n - 1 : /\ Calls(d)' => (CalledMessage(d))' = CalledMessage(d)
                          /\ CalledMessage(d) = frames[d + 1].message
                          /\ Calls(d)' <=> d < n - 1
  BY <1>0, <1>1, <1>2 DEF Calls, CalledMessage
<1>5. ~ Calls(n)
  BY <1>0, <1>1, <1>2 DEF Calls
<1>6. Chained'
  <2>1. ASSUME NEW d \in DOMAIN frames'
        PROVE  /\ d = 1 => frames'[d].message = schema.root
               /\ \A k \in 1..d - 1 : frames'[d].path[k] = (DownStep(k))'
    <3>1. \A k \in 1..d - 1 : k \in 1..n - 1
      BY <1>2
    <3>. QED  BY <1>2, <1>3, <3>1 DEF Chained
  <2>2. ASSUME NEW d \in DOMAIN frames', Calls(d)'
        PROVE  /\ (DownStep(d)[2])' \in DOMAIN schema'.fields[frames'[d].message]
               /\ ~ SkipsField(FieldAt(DownStep(d)))'
               /\ Recurses(FieldAt(DownStep(d)))'
               /\ (FieldAt(DownStep(d)).message)' = (CalledMessage(d))'
    <3>1. /\ DownStep(d)[2] \in DOMAIN schema.fields[frames[d].message]
          /\ ~ SkipsField(FieldAt(DownStep(d)))
          /\ Recurses(FieldAt(DownStep(d)))
          /\ FieldAt(DownStep(d)).message = CalledMessage(d)
      BY <1>2, <1>3 DEF Chained
    <3>2. /\ frames'[d] = frames[d] /\ (DownStep(d))' = DownStep(d)
          /\ (CalledMessage(d))' = CalledMessage(d)
      BY <1>2, <1>3, <1>4, <2>2
    <3>. QED  BY <1>1, <3>1, <3>2, Zenon DEF SkipsField, FieldAt, Recurses
  <2>. QED  BY <1>1, <2>1, <2>2 DEF Chained
<1>7. Sound'
  BY <1>1 DEF Sound
\* Of the message that is left all fields have been passed.
<1>8. ASSUME NEW p \in Paths, n <= Len(p), \A k \in 1..n - 1 : p[k] = DownStep(k),
             p[n][1] = frames[n].message
      PROVE  SettersOf(p) \subseteq written
  <2>1. n \in DOMAIN p /\ p[n][2] \in DOMAIN schema.fields[frames[n].message]
    BY <1>2, <1>8, PathFacts
  <2>2. frames[n] \in Frame /\ Top = frames[n]
    BY <1>0, <1>1, <1>2 DEF Top
  <2>3. schema.fields[frames[n].message] \in Seq(FieldDescriptor) /\ frames[n].i \in Nat
    BY <2>2 DEF IInv, IsSchema, Frame
  <2>4. p[n][2] < frames[n].i
    BY <1>1, <2>1, <2>2, <2>3 DEF HasField
  <2>5. Passed(p, n) /\ ~ UnderWay(p, n)
    BY <1>5, <1>8, <2>4 DEF Passed, UnderWay
  <2>. QED  BY <1>2, <2>5 DEF Complete
<1>9. ASSUME NEW d \in DOMAIN frames', NEW p \in Paths, Passed(p, d)', ~ UnderWay(p, d)'
      PROVE  SettersOf(p) \subseteq written
  <2>1. \A k \in 1..d - 1 : k \in 1..n - 1
    BY <1>2
  <2>2. Passed(p, d)
    BY <1>2, <1>3, <1>9, <2>1 DEF Passed
  <2>3. CASE UnderWay(p, d)
    <3>1. p[d] = DownStep(d) /\ d < Len(p) /\ d \in 1..n - 1
      BY <1>2, <2>3 DEF UnderWay
    <3>2. ~ d < n - 1
      BY <1>3, <1>4, <1>9, <3>1 DEF UnderWay
    <3>3. d = n - 1 /\ d + 1 = n
      BY <1>2, <3>1, <3>2
    <3>4. IsPath(p) /\ d \in DOMAIN p /\ Len(p) \in Nat
      BY <1>2, <3>1, PathFacts
    <3>5. p[d + 1][1] = FieldAt(DownStep(d)).message
      BY <3>1, <3>4 DEF IsPath
    <3>6. p[n][1] = frames[n].message
      BY <1>2, <1>3, <1>4, <3>1, <3>3, <3>5 DEF Chained
    <3>7. \A k \in 1..n - 1 : k \in 1..d - 1 \/ k = d
      BY <1>2, <3>3
    <3>8. n <= Len(p)
      BY <1>2, <3>1, <3>3, <3>4
    <3>. QED  BY <1>8, <2>2, <3>1, <3>6, <3>7, <3>8 DEF Passed
  <2>4. CASE ~ UnderWay(p, d)
    BY <1>2, <2>2, <2>4 DEF Complete
  <2>. QED  BY <2>3, <2>4
<1>10. ASSUME frames' = <<>>, NEW p \in Paths PROVE SettersOf(p) \subseteq written
  <2>1. n = 1
    BY <1>2, <1>10
  <2>2. IsPath(p) /\ Len(p) >= 1
    BY PathFacts
  <2>3. p[1][1] = frames[1].message
    BY <1>2, <2>1, <2>2 DEF IsPath, Chained
  <2>. QED  BY <1>8, <2>1, <2>2, <2>3
<1>11. Complete'
  BY <1>1, <1>9, <1>10 DEF Complete
<1>. QED  BY <1>6, <1>7, <1>11

LEMMA ChainFinish ==
    ASSUME IInv, Chained, Sound, Complete, Finish
    PROVE  Chained' /\ Sound' /\ Complete'
<1>1. /\ frames = <<>> /\ pc = "loop" /\ pc' = "done"
      /\ UNCHANGED <<schema, frames, callee, written>>
      /\ Paths' = Paths /\ \A p : (SettersOf(p))' = SettersOf(p)
  BY SchemaKept DEF Finish
<1>. QED  BY <1>1 DEF Chained, Sound, Complete

LEMMA ChainStutter ==
    ASSUME IInv, Chained, Sound, Complete, UNCHANGED vars
    PROVE  Chained' /\ Sound' /\ Complete'
<1>1. /\ UNCHANGED <<schema, frames, callee, written, pc>>
      /\ Paths' = Paths /\ \A p : (SettersOf(p))' = SettersOf(p)
  BY SchemaKept DEF vars
<1>2. Chained'
  <2>1. \A d : (Calls(d))' <=> Calls(d)
    BY <1>1 DEF Calls
  <2>. QED  BY <1>1, <2>1, DownKept DEF Chained
<1>3. Sound'
  BY <1>1 DEF Sound
<1>4. Complete'
  BY <1>1 DEF Complete, Passed, UnderWay, Calls, DownStep
<1>. QED  BY <1>2, <1>3, <1>4

\* The setters are those of the ways down, neither fewer nor more, whatever
\* schema and annotations are, at whatever depth the recursion is cut off, and
\* in whichever order cycles and repeated types are met (message_builder.cc:157-212).
THEOREM WritesReachableFieldsCorrect == Spec => []WritesReachableFields
<1>. DEFINE ChainInv == Chained /\ Sound /\ Complete
<1>1. Init => ChainInv
  BY ChainInit
<1>2. IInv /\ ChainInv /\ [Next]_vars => ChainInv'
  <2>. SUFFICES ASSUME IInv, Chained, Sound, Complete, [Next]_vars
                PROVE  Chained' /\ Sound' /\ Complete'
    OBVIOUS
  <2>1. RefuseMessage \/ EnterMessage \/ SkipField \/ WriteField \/ LeaveMessage \/ Finish
          \/ UNCHANGED vars
    BY DEF Next
  <2>. QED  BY <2>1, ChainRefuse, ChainEnter, ChainSkipField, ChainWriteField, ChainLeave,
               ChainFinish, ChainStutter
<1>3. ChainInv => WritesReachableFields
  <2>. SUFFICES ASSUME Chained, Sound, Complete, pc = "done"
                PROVE  written = UNION {SettersOf(p) : p \in Paths}
    BY DEF WritesReachableFields, SettersOf
  <2>1. \A p \in Paths : SettersOf(p) \subseteq written
    BY DEF Chained, Complete
  <2>2. \A w \in written : \E p \in Paths : w \in SettersOf(p)
    BY DEF Sound
  <2>. QED  BY <2>1, <2>2
<1>. QED  BY <1>1, <1>2, <1>3, Invariance, PTL DEF Spec
=============================================================================
