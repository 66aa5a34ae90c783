----------------------- MODULE DescriptorSearchProofs -----------------------
(***************************************************************************)
(* Proofs about GetDescriptorsFrom for every set of messages and every     *)
(* file: its types, that it returns no message twice, that what it returns *)
(* is what its mode asks for, and that it implements BuilderSelection.     *)
(***************************************************************************)
EXTENDS DescriptorSearch, SequenceTheorems, TLAPS

(***************************************************************************)
(* Sequences.                                                              *)
(***************************************************************************)
\* An appended element joins the range.
LEMMA RangeOfAppend ==
    ASSUME NEW S, NEW s \in Seq(S), NEW e \in S
    PROVE  Range(Append(s, e)) = Range(s) \cup {e}
<1>1. Append(s, e) = s \o <<e>>
  BY AppendIsConcat
<1>2. <<e>> \in Seq(S) /\ Range(<<e>>) = {e}
  BY DEF Range
<1>3. PICK t : t = <<e>>
  OBVIOUS
<1>4. t \in Seq(S) /\ Range(t) = {e} /\ Append(s, e) = s \o t
  BY <1>1, <1>2, <1>3, Zenon
<1>5. Range(s \o t) = Range(s) \cup Range(t)
  BY <1>4, RangeConcatenation
<1>. QED  BY <1>4, <1>5, Zenon

\* A sequence ranges over its head and its tail.
LEMMA RangeOfHeadTail ==
    ASSUME NEW S, NEW s \in Seq(S), s # <<>>
    PROVE  /\ Head(s) \in S
           /\ Tail(s) \in Seq(S)
           /\ Range(s) = {Head(s)} \cup Range(Tail(s))
<1>1. /\ Head(s) \in S /\ Tail(s) \in Seq(S)
      /\ Len(Tail(s)) = Len(s) - 1
      /\ \A k \in 1 .. Len(Tail(s)) : Tail(s)[k] = s[k + 1]
  BY HeadTailProperties
<1>2. Len(s) \in Nat \ {0} /\ Head(s) = s[1]
  BY EmptySeq
<1>3. /\ Range(s) = {s[k] : k \in 1 .. Len(s)}
      /\ Range(Tail(s)) = {Tail(s)[k] : k \in 1 .. Len(Tail(s))}
  BY <1>1, RangeEquality
<1>4. ASSUME NEW x \in Range(s) PROVE x \in {Head(s)} \cup Range(Tail(s))
  <2>1. PICK k \in 1 .. Len(s) : x = s[k]
    BY <1>3
  <2>2. CASE k = 1
    BY <1>2, <2>1, <2>2
  <2>3. CASE k # 1
    <3>1. k - 1 \in 1 .. Len(Tail(s)) /\ Tail(s)[k - 1] = x
      BY <1>1, <1>2, <2>1, <2>3
    <3>. QED  BY <1>3, <3>1
  <2>. QED  BY <2>2, <2>3
<1>5. {Head(s)} \cup Range(Tail(s)) \subseteq Range(s)
  BY <1>1, <1>2, <1>3
<1>. QED  BY <1>1, <1>4, <1>5

\* Appending a new element keeps a sequence free of duplicates.
LEMMA InjectiveAppend ==
    ASSUME NEW S, NEW s \in Seq(S), NEW e \in S,
           IsInjective(s), e \notin Range(s)
    PROVE  IsInjective(Append(s, e))
<1>1. /\ Append(s, e) \in Seq(S)
      /\ Len(Append(s, e)) = Len(s) + 1
      /\ \A k \in 1 .. Len(s) : Append(s, e)[k] = s[k]
      /\ Append(s, e)[Len(s) + 1] = e
  BY AppendProperties
<1>2. /\ DOMAIN s = 1 .. Len(s) /\ Len(s) \in Nat
      /\ DOMAIN Append(s, e) = 1 .. Len(s) + 1
  BY <1>1, LenProperties
<1>3. \A k \in 1 .. Len(s) : s[k] # e
  BY <1>2 DEF Range
<1>4. \A k, l \in 1 .. Len(s) : s[k] = s[l] => k = l
  BY <1>2 DEF IsInjective
<1>. QED  BY <1>1, <1>2, <1>3, <1>4 DEF IsInjective

\* So does dropping the head, which the tail then does not hold.
LEMMA InjectiveTail ==
    ASSUME NEW S, NEW s \in Seq(S), s # <<>>, IsInjective(s)
    PROVE  IsInjective(Tail(s)) /\ Head(s) \notin Range(Tail(s))
<1>1. /\ Tail(s) \in Seq(S)
      /\ Len(Tail(s)) = Len(s) - 1
      /\ \A k \in 1 .. Len(Tail(s)) : Tail(s)[k] = s[k + 1]
  BY HeadTailProperties
<1>2. Len(s) \in Nat \ {0} /\ Head(s) = s[1]
  BY EmptySeq
<1>3. DOMAIN s = 1 .. Len(s) /\ DOMAIN Tail(s) = 1 .. Len(Tail(s))
  BY <1>1, LenProperties
<1>4. \A k, l \in 1 .. Len(s) : s[k] = s[l] => k = l
  BY <1>3 DEF IsInjective
<1>. QED  BY <1>1, <1>2, <1>3, <1>4 DEF IsInjective, Range

(***************************************************************************)
(* Reachability.                                                           *)
(***************************************************************************)
\* The top level messages are reachable.
LEMMA TopLevelReachable ==
    ASSUME NEW f, IsFileDescriptor(f)
    PROVE  Range(f.topLevel) \subseteq Reachable(f)
<1>1. Range(f.topLevel) \subseteq f.local
  BY RangeOfSeq DEF IsFileDescriptor
<1>. QED  BY <1>1 DEF Reachable, Closed

\* What a reachable message refers to within the file is reachable.
LEMMA SuccessorReachable ==
    ASSUME NEW f, NEW m \in Reachable(f), NEW n \in Successors(f, m)
    PROVE  n \in Reachable(f)
BY DEF Reachable, Closed, Successors

\* Reachable is the least closed set.
LEMMA ReachableLeast ==
    ASSUME NEW f, NEW S \in SUBSET f.local, Closed(f, S)
    PROVE  Reachable(f) \subseteq S
BY DEF Reachable

\* Every mode asks for the top level messages and for messages of the file only.
LEMMA WantedBounds ==
    ASSUME NEW f, IsFileDescriptor(f), NEW mode
    PROVE  /\ Range(f.topLevel) \subseteq Wanted(f, mode)
           /\ Wanted(f, mode) \subseteq f.local
<1>1. Range(f.topLevel) \subseteq f.local
  BY RangeOfSeq DEF IsFileDescriptor
<1>. QED  BY <1>1 DEF Wanted

(***************************************************************************)
(* The inductive invariant.                                                *)
(***************************************************************************)
\* Messages that were searched or will be.
Seen == expanded \cup Pending

\* A visited field has left its mark.
Handled(field) ==
    field.message \in file.local =>
        /\ field.message \in Seen
        /\ Collects(field) => field.message \in Range(descriptors)

\* The control state and the data agree.
Phases ==
    /\ pc = "collect" => descriptors = <<>> /\ queue = <<>> /\ expanded = {}
    /\ pc \in {"search", "fields"} => search_mode \in TraversingMode
    /\ pc # "collect" => Range(file.topLevel) \subseteq Range(descriptors)
    /\ pc = "done" /\ search_mode \in TraversingMode => queue = <<>>
    /\ pc = "done" /\ search_mode \notin TraversingMode =>
           descriptors = file.topLevel

\* Nothing is collected or searched without a reason.
Sound ==
    /\ Range(descriptors) \subseteq Wanted(file, search_mode)
    /\ search_mode \in TraversingMode => Seen \subseteq Reachable(file)

\* Nothing that was come across is forgotten.
Complete ==
    search_mode \in TraversingMode =>
        /\ Range(descriptors) \subseteq Seen
        /\ \A m \in expanded : \A f \in Range(file.fields[m]) : Handled(f)
        /\ pc = "fields" =>
               \A k \in 1 .. Len(file.fields[msg]) : k < i => Handled(file.fields[msg][k])

IInv == TypeOK /\ Phases /\ NoDuplicates /\ Sound /\ Complete
-----------------------------------------------------------------------------
(***************************************************************************)
(* Types.                                                                  *)
(***************************************************************************)
\* What a followed field refers to is a message of the file.
LEMMA FieldIsMessage ==
    ASSUME TypeOK, VisitField, ~ Skips(file.fields[msg][i])
    PROVE  /\ file.fields[msg][i] \in Range(file.fields[msg])
           /\ file.fields[msg][i].message \in file.local
<1>1. file.fields[msg] \in Seq(Field)
  BY DEF TypeOK, VisitField, IsFileDescriptor
<1>2. i \in 1 .. Len(file.fields[msg])
  BY <1>1 DEF TypeOK, VisitField
<1>3. file.fields[msg][i] \in Range(file.fields[msg])
  BY <1>1, <1>2, RangeEquality
<1>. QED  BY <1>3 DEF Skips

LEMMA TypeInit == Init => TypeOK
BY SearchAssumption DEF Init, TypeOK

LEMMA TypeStep == TypeOK /\ [Next]_vars => TypeOK'
<1> SUFFICES ASSUME TypeOK, [Next]_vars PROVE TypeOK'
  OBVIOUS
<1>. USE DEF TypeOK
<1>1. CASE CollectTopLevel
  BY <1>1 DEF CollectTopLevel, IsFileDescriptor
<1>2. CASE PopMessage
  <2>1. Head(queue) \in file.local /\ Tail(queue) \in Seq(file.local)
    BY <1>2, RangeOfHeadTail DEF PopMessage
  <2>. QED  BY <1>2, <2>1 DEF PopMessage
<1>3. CASE SkipField
  BY <1>3 DEF SkipField, VisitField
<1>4. CASE FollowField
  <2>1. file.fields[msg][i].message \in file.local
    BY <1>4, FieldIsMessage DEF FollowField
  <2>2. descriptors' \in Seq(file.local) /\ queue' \in Seq(file.local)
    BY <1>4, <2>1, AppendProperties DEF FollowField
  <2>. QED  BY <1>4, <2>2 DEF FollowField, VisitField
<1>5. CASE FinishMessage
  BY <1>5 DEF FinishMessage
<1>6. CASE Return
  BY <1>6 DEF Return
<1>7. CASE UNCHANGED vars
  BY <1>7 DEF vars
<1>. QED  BY <1>1, <1>2, <1>3, <1>4, <1>5, <1>6, <1>7 DEF Next

\* The search stays within its types: every message it collects, queues or
\* expands is declared in the file (descriptor_util.cc:100).
THEOREM TypeCorrect == Spec => []TypeOK
<1>. QED  BY TypeInit, TypeStep, PTL DEF Spec
-----------------------------------------------------------------------------
(***************************************************************************)
(* The invariant is inductive, action by action.                           *)
(***************************************************************************)
LEMMA IInvInit == Init => IInv
<1>. SUFFICES ASSUME Init PROVE IInv
  OBVIOUS
<1>1. TypeOK
  BY TypeInit
<1>2. Range(descriptors) = {} /\ Range(queue) = {} /\ Seen = {}
  BY DEF Init, Range, Seen, Pending
<1>3. NoDuplicates
  BY DEF Init, NoDuplicates, IsInjective
<1>4. Phases /\ Sound /\ Complete
  BY <1>2 DEF Init, Phases, Sound, Complete
<1>. QED  BY <1>1, <1>3, <1>4 DEF IInv

LEMMA CollectTopLevelStep ==
    ASSUME IInv, CollectTopLevel
    PROVE  (Phases /\ NoDuplicates /\ Sound /\ Complete)'
<1>. USE DEF CollectTopLevel
<1>1. IsFileDescriptor(file) /\ expanded = {}
  BY DEF IInv, TypeOK, Phases
<1>2. /\ Range(file.topLevel) \subseteq Reachable(file)
      /\ Range(file.topLevel) \subseteq Wanted(file, search_mode)
  BY <1>1, TopLevelReachable, WantedBounds
<1>3. Seen' = Range(file.topLevel)
  BY <1>1 DEF Seen, Pending
<1>4. Phases'
  BY DEF Phases
<1>5. NoDuplicates'
  BY <1>1 DEF NoDuplicates, IsFileDescriptor
<1>6. Sound'
  BY <1>2, <1>3 DEF Sound
<1>7. Complete'
  BY <1>1, <1>3 DEF Complete
<1>. QED  BY <1>4, <1>5, <1>6, <1>7

\* Steps that leave the results alone and forget no seen message keep what
\* visited fields left behind.
LEMMA HandledKept ==
    ASSUME NEW f, Handled(f), UNCHANGED <<file, search_mode>>,
           Seen \subseteq Seen', Range(descriptors) \subseteq Range(descriptors)'
    PROVE  Handled(f)'
BY DEF Handled, Collects

LEMMA PopMessageStep ==
    ASSUME IInv, PopMessage
    PROVE  (Phases /\ NoDuplicates /\ Sound /\ Complete)'
<1>. USE DEF PopMessage
<1>1. Range(queue) = {Head(queue)} \cup Range(Tail(queue))
  BY RangeOfHeadTail DEF IInv, TypeOK
<1>2. Seen' = Seen
  BY <1>1 DEF Seen, Pending
<1>3. Phases'
  BY DEF IInv, Phases
<1>4. NoDuplicates'
  BY DEF IInv, NoDuplicates
<1>5. Sound'
  BY <1>2 DEF IInv, Sound
<1>6. Complete'
  <2>1. \A f : Handled(f) => Handled(f)'
    BY <1>2, HandledKept
  <2>2. file.fields[msg'] \in Seq(Field)
    BY <1>1 DEF IInv, TypeOK, IsFileDescriptor, Range
  <2>3. ~ \E k \in 1 .. Len(file.fields[msg']) : k < i'
    BY <2>2
  <2>. QED  BY <1>2, <2>1, <2>3 DEF IInv, Complete
<1>. QED  BY <1>3, <1>4, <1>5, <1>6

LEMMA SkipFieldStep ==
    ASSUME IInv, SkipField
    PROVE  (Phases /\ NoDuplicates /\ Sound /\ Complete)'
<1>. USE DEF SkipField, VisitField
<1>1. Seen' = Seen
  BY DEF Seen, Pending
<1>2. Phases' /\ NoDuplicates' /\ Sound'
  BY <1>1 DEF IInv, Phases, NoDuplicates, Sound
<1>3. Complete'
  <2>1. \A f : Handled(f) => Handled(f)'
    BY <1>1, HandledKept
  <2>2. search_mode \in TraversingMode
    BY DEF IInv, Phases
  <2>3. Handled(file.fields[msg][i])
    BY <2>2, SearchAssumption DEF IInv, TypeOK, IsFileDescriptor, Complete, Skips, Handled
  <2>4. \A k \in 1 .. Len(file.fields[msg]) : k < i' => Handled(file.fields[msg][k])
    <3>. SUFFICES ASSUME NEW k \in 1 .. Len(file.fields[msg]), k < i + 1
                  PROVE  Handled(file.fields[msg][k])
      OBVIOUS
    <3>1. file.fields[msg] \in Seq(Field) /\ i \in Nat
      BY DEF IInv, TypeOK, IsFileDescriptor
    <3>2. k < i \/ k = i
      BY <3>1
    <3>. QED  BY <2>2, <2>3, <3>2 DEF IInv, Complete
  <2>. QED  BY <1>1, <2>1, <2>4 DEF IInv, Complete
<1>. QED  BY <1>2, <1>3

LEMMA FollowFieldStep ==
    ASSUME IInv, FollowField
    PROVE  (Phases /\ NoDuplicates /\ Sound /\ Complete)'
<1>. PICK field : field = file.fields[msg][i]
  OBVIOUS
<1>0. /\ pc = "fields" /\ pc' = "fields"
      /\ UNCHANGED <<file, search_mode, msg, expanded>>
      /\ i' = i + 1
      /\ descriptors' = IF Collects(field) THEN Append(descriptors, field.message)
                                           ELSE descriptors
      /\ queue' = Append(queue, field.message)
  BY DEF FollowField, VisitField
<1>1. /\ field \in Range(file.fields[msg])
      /\ field.message \in file.local
      /\ field.message \notin Range(descriptors)
  BY FieldIsMessage DEF IInv, FollowField, Skips
<1>2. /\ search_mode \in TraversingMode /\ msg \in Seen
      /\ file.fields[msg] \in Seq(Field) /\ i \in Nat
  BY <1>0 DEF IInv, TypeOK, IsFileDescriptor, Phases, Seen, Pending
<1>3. Range(queue') = Range(queue) \cup {field.message}
  BY <1>0, <1>1, RangeOfAppend DEF IInv, TypeOK
<1>4. Seen' = Seen \cup {field.message}
  BY <1>0, <1>3 DEF Seen, Pending
<1>5. Range(descriptors') = IF Collects(field) THEN Range(descriptors) \cup {field.message}
                                               ELSE Range(descriptors)
  <2>1. Range(Append(descriptors, field.message)) = Range(descriptors) \cup {field.message}
    BY <1>1, RangeOfAppend DEF IInv, TypeOK
  <2>. QED  BY <1>0, <2>1
<1>6. Phases'
  BY <1>0, <1>5 DEF IInv, Phases
<1>7. NoDuplicates'
  BY <1>0, <1>1, InjectiveAppend DEF IInv, TypeOK, NoDuplicates
<1>8. Sound'
  <2>1. msg \in Reachable(file)
    BY <1>2 DEF IInv, Sound
  <2>2. field.message \in Reachable(file)
    BY <1>1, <2>1, SuccessorReachable DEF Successors
  <2>3. Collects(field) => field.message \in Wanted(file, search_mode)
    BY <1>1, <1>2, <2>1, <2>2 DEF Collects, Wanted, RepeatedSuccessors
  <2>. QED  BY <1>0, <1>4, <1>5, <2>2, <2>3 DEF IInv, Sound
<1>9. Complete'
  <2>1. \A f : Handled(f) => Handled(f)'
    BY <1>0, <1>4, <1>5, HandledKept
  <2>2. Handled(field)'
    BY <1>0, <1>4, <1>5 DEF Handled, Collects
  <2>3. \A k \in 1 .. Len(file.fields[msg]) : k < i + 1 => Handled(file.fields[msg][k])'
    <3>. SUFFICES ASSUME NEW k \in 1 .. Len(file.fields[msg]), k < i + 1,
                         NEW f, f = file.fields[msg][k]
                  PROVE  Handled(f)'
      BY <1>0
    <3>1. CASE k = i
      BY <2>2, <3>1
    <3>2. CASE k < i
      BY <1>0, <1>2, <2>1, <3>2 DEF IInv, Complete
    <3>. QED  BY <1>2, <3>1, <3>2
  <2>. QED  BY <1>0, <1>4, <1>5, <2>1, <2>3 DEF IInv, Complete
<1>. QED  BY <1>6, <1>7, <1>8, <1>9

LEMMA FinishMessageStep ==
    ASSUME IInv, FinishMessage
    PROVE  (Phases /\ NoDuplicates /\ Sound /\ Complete)'
<1>. USE DEF FinishMessage
<1>1. Seen' = Seen
  BY DEF Seen, Pending
<1>2. Phases' /\ NoDuplicates' /\ Sound'
  BY <1>1 DEF IInv, Phases, NoDuplicates, Sound
<1>3. Complete'
  <2>1. \A f : Handled(f) => Handled(f)'
    BY <1>1, HandledKept
  <2>2. search_mode \in TraversingMode /\ file.fields[msg] \in Seq(Field) /\ i \in Nat
    BY DEF IInv, TypeOK, IsFileDescriptor, Phases
  <2>3. \A k \in 1 .. Len(file.fields[msg]) : Handled(file.fields[msg][k])
    BY <2>2 DEF IInv, Complete
  <2>4. \A f \in Range(file.fields[msg]) : Handled(f)
    BY <2>2, <2>3, RangeEquality
  <2>. QED  BY <1>1, <2>1, <2>4 DEF IInv, Complete
<1>. QED  BY <1>2, <1>3

LEMMA ReturnStep ==
    ASSUME IInv, Return
    PROVE  (Phases /\ NoDuplicates /\ Sound /\ Complete)'
<1>. USE DEF Return
<1>1. Seen' = Seen
  BY DEF Seen, Pending
<1>2. Phases' /\ NoDuplicates' /\ Sound'
  BY <1>1 DEF IInv, Phases, NoDuplicates, Sound
<1>3. Complete'
  BY <1>1, HandledKept DEF IInv, Complete
<1>. QED  BY <1>2, <1>3

LEMMA IInvStep == IInv /\ [Next]_vars => IInv'
<1>. SUFFICES ASSUME IInv, [Next]_vars PROVE (Phases /\ NoDuplicates /\ Sound /\ Complete)'
  BY TypeStep DEF IInv
<1>1. CASE UNCHANGED vars
  BY <1>1 DEF IInv, vars, Phases, NoDuplicates, Sound, Complete, Handled, Collects, Seen, Pending
<1>. QED  BY <1>1, CollectTopLevelStep, PopMessageStep, SkipFieldStep, FollowFieldStep,
             FinishMessageStep, ReturnStep DEF Next

\* IInv is an invariant of the search (descriptor_util.cc:40-111).
THEOREM Invariance == Spec => []IInv
<1>. QED  BY IInvInit, IInvStep, PTL DEF Spec
-----------------------------------------------------------------------------
(***************************************************************************)
(* What a search has seen is what it has collected, when it collects all.  *)
(***************************************************************************)
SeenCollected == search_mode = "kTransitiveAll" => Seen \subseteq Range(descriptors)

LEMMA SearchedOnceInit == Init => SearchedOnce /\ SeenCollected
BY DEF Init, SearchedOnce, SeenCollected, Seen, Pending, IsInjective, Range

LEMMA SearchedOnceStep ==
    IInv /\ SearchedOnce /\ SeenCollected /\ [Next]_vars => (SearchedOnce /\ SeenCollected)'
<1>. SUFFICES ASSUME IInv, SearchedOnce, SeenCollected, [Next]_vars
              PROVE  (SearchedOnce /\ SeenCollected)'
  OBVIOUS
<1>. SUFFICES ASSUME search_mode = "kTransitiveAll", search_mode' = search_mode
              PROVE  /\ IsInjective(queue') /\ Range(queue') \cap expanded' = {}
                     /\ pc' = "fields" => msg' \notin Range(queue') \cup expanded'
                     /\ Seen' \subseteq Range(descriptors')
  <2>1. search_mode' = search_mode
    BY DEF Next, vars, CollectTopLevel, PopMessage, SkipField, FollowField, VisitField,
           FinishMessage, Return
  <2>. QED  BY <2>1 DEF SearchedOnce, SeenCollected
<1>. USE DEF SearchedOnce, SeenCollected, Seen, Pending
<1>1. CASE CollectTopLevel
  BY <1>1 DEF CollectTopLevel, IInv, TypeOK, Phases, IsFileDescriptor
<1>2. CASE PopMessage
  <2>1. /\ Range(queue) = {Head(queue)} \cup Range(Tail(queue))
        /\ IsInjective(Tail(queue)) /\ Head(queue) \notin Range(Tail(queue))
    BY <1>2, RangeOfHeadTail, InjectiveTail DEF PopMessage, IInv, TypeOK
  <2>. QED  BY <1>2, <2>1 DEF PopMessage
<1>3. CASE SkipField
  BY <1>3 DEF SkipField, VisitField
<1>4. CASE FollowField
  <2>. PICK m : m = file.fields[msg][i].message
    OBVIOUS
  <2>1. m \in file.local /\ m \notin Range(descriptors)
    BY <1>4, FieldIsMessage DEF IInv, FollowField, Skips
  <2>2. m \notin Range(queue) \cup expanded \cup {msg}
    BY <1>4, <2>1 DEF FollowField, VisitField
  <2>3. /\ Range(Append(queue, m)) = Range(queue) \cup {m}
        /\ Range(Append(descriptors, m)) = Range(descriptors) \cup {m}
        /\ IsInjective(Append(queue, m))
    BY <2>1, <2>2, RangeOfAppend, InjectiveAppend DEF IInv, TypeOK
  <2>4. /\ queue' = Append(queue, m) /\ descriptors' = Append(descriptors, m)
        /\ UNCHANGED <<msg, expanded, pc>> /\ pc = "fields"
    BY <1>4 DEF FollowField, VisitField, Collects
  <2>. QED  BY <2>2, <2>3, <2>4
<1>5. CASE FinishMessage
  BY <1>5 DEF FinishMessage
<1>6. CASE Return
  BY <1>6 DEF Return
<1>7. CASE UNCHANGED vars
  BY <1>7 DEF vars
<1>. QED  BY <1>1, <1>2, <1>3, <1>4, <1>5, <1>6, <1>7 DEF Next

\* In "**" no message is searched twice, so the search visits every field of
\* the file at most once however its messages refer to each other.
THEOREM SearchedOnceCorrect == Spec => []SearchedOnce
<1>. QED  BY SearchedOnceInit, SearchedOnceStep, Invariance, PTL DEF Spec
-----------------------------------------------------------------------------
\* No message is returned twice (descriptor_util.cc:97).
THEOREM NoDuplicatesCorrect == Spec => []NoDuplicates
<1>1. IInv => NoDuplicates
  BY DEF IInv
<1>. QED  BY <1>1, Invariance, PTL

\* When the search has returned, the messages that were searched are closed
\* under the references of the file, so they are all the reachable ones.
LEMMA DoneIsWanted == IInv => ReturnsWanted
<1>. SUFFICES ASSUME IInv, pc = "done"
              PROVE  Wanted(file, search_mode) \subseteq Range(descriptors)
  BY DEF IInv, Sound, ReturnsWanted
<1>1. CASE search_mode \notin TraversingMode
  <2>1. descriptors = file.topLevel
    BY <1>1 DEF IInv, Phases
  <2>. QED  BY <1>1, <2>1 DEF Wanted, TraversingMode
<1>2. CASE search_mode \in TraversingMode
  <2>1. Seen = expanded /\ expanded \subseteq file.local
    BY <1>2 DEF IInv, TypeOK, Phases, Seen, Pending, Range
  <2>2. Range(file.topLevel) \subseteq Range(descriptors) /\ Range(descriptors) \subseteq expanded
    BY <1>2, <2>1 DEF IInv, Phases, Complete
  <2>3. \A m \in expanded : \A f \in Range(file.fields[m]) : Handled(f)
    BY <1>2 DEF IInv, Complete
  <2>4. \A m \in expanded : Successors(file, m) \subseteq expanded
    BY <2>1, <2>3 DEF Handled, Successors
  <2>5. Reachable(file) \subseteq expanded
    BY <2>1, <2>2, <2>4, ReachableLeast DEF Closed
  <2>6. \A m \in expanded : RepeatedSuccessors(file, m) \subseteq Range(descriptors)
    BY <2>3 DEF Handled, Collects, RepeatedSuccessors
  <2>7. search_mode = "kTransitiveAll" => Reachable(file) \subseteq Range(descriptors)
    <3>. SUFFICES ASSUME search_mode = "kTransitiveAll"
                  PROVE  Reachable(file) \subseteq Range(descriptors)
      OBVIOUS
    <3>1. \A m \in expanded : Successors(file, m) \subseteq Range(descriptors)
      BY <2>3 DEF Handled, Collects, Successors
    <3>2. Closed(file, Range(descriptors))
      BY <2>2, <3>1 DEF Closed
    <3>3. Range(descriptors) \subseteq file.local
      BY <2>1, <2>2
    <3>. QED  BY <3>2, <3>3, ReachableLeast
  <2>. QED  BY <2>2, <2>5, <2>6, <2>7 DEF Wanted
<1>. QED  BY <1>1, <1>2

\* The result is exactly what the mode asks for, for every file: the search is
\* sound and complete (descriptor_util.cc:61-109).
THEOREM ReturnsWantedCorrect == Spec => []ReturnsWanted
<1>. QED  BY DoneIsWanted, Invariance, PTL

\* GetDescriptorsFrom implements the abstract selection of builders.
THEOREM SelectionRefined == Spec => SelectsWanted
<1>1. Init => Selection!Init
  BY SearchAssumption DEF Init, Selection!Init, Range
<1>2. IInv /\ IInv' /\ [Next]_vars => [Selection!Next]_(Selection!vars)
  <2>. SUFFICES ASSUME IInv, IInv', [Next]_vars
                PROVE  [Selection!Next]_(Selection!vars)
    OBVIOUS
  <2>1. UNCHANGED <<file, search_mode>> /\ (pc = "done" => UNCHANGED vars)
    BY DEF Next, vars, CollectTopLevel, PopMessage, SkipField, FollowField, VisitField,
           FinishMessage, Return
  <2>2. Range(descriptors) \subseteq Range(descriptors')
    <3>1. ASSUME CollectTopLevel PROVE Range(descriptors) = {}
      BY <3>1 DEF CollectTopLevel, IInv, Phases, Range
    <3>2. ASSUME FollowField PROVE Range(descriptors) \subseteq Range(descriptors')
      <4>1. file.fields[msg][i].message \in file.local
        BY <3>2, FieldIsMessage DEF FollowField, IInv
      <4>. QED  BY <3>2, <4>1, RangeOfAppend DEF FollowField, IInv, TypeOK
    <3>. QED  BY <3>1, <3>2 DEF Next, vars, PopMessage, SkipField, FinishMessage, Return
  <2>3. Range(descriptors') \subseteq Wanted(file, search_mode)
    BY <2>1 DEF IInv, Sound
  <2>4. pc' = "done" => Range(descriptors') = Wanted(file, search_mode)
    <3>1. ReturnsWanted'
      BY DoneIsWanted, PTL
    <3>. QED  BY <2>1, <3>1 DEF ReturnsWanted
  <2>. DEFINE S == Range(descriptors')  fin == pc' = "done"
  <2>5. Selection!Wanted(file, search_mode) = Wanted(file, search_mode)
    BY DEF Selection!Wanted, Selection!Reachable, Selection!Closed, Selection!Range,
           Selection!Successors, Selection!RepeatedSuccessors, Selection!TraversingMode,
           Wanted, Reachable, Closed, Range, Successors, RepeatedSuccessors, TraversingMode
  <2>6. CASE pc = "done"
    BY <2>1, <2>6 DEF vars, Selection!vars
  <2>7. CASE pc # "done"
    <3>1. S \in SUBSET Wanted(file, search_mode) /\ fin \in BOOLEAN /\ S = Range(descriptors) \cup S
      BY <2>2, <2>3
    <3>2. Selection!Select(S, fin)
      BY <2>1, <2>4, <2>7, <2>5, <3>1 DEF Selection!Select
    <3>. QED  BY <2>5, <3>1, <3>2 DEF Selection!Next
  <2>. QED  BY <2>6, <2>7
<1>. QED  BY <1>1, <1>2, Invariance, PTL DEF Spec, SelectsWanted, Selection!Spec
=============================================================================
