---------------------------- MODULE DriverProofs ----------------------------
(***************************************************************************)
(* Proofs about the tool, for any commands and any number of runs: about   *)
(* the steps of the driver, whatever the other components make of a        *)
(* command; then about the configuration of a run and about its files,     *)
(* with what they do make of it.                                           *)
(***************************************************************************)
EXTENDS ToolOutput, TemplateProofs

\* The files before the one that is written are complete, and those after it
\* have not been touched in this run.
Progress ==
    pc \in Phases =>
        \A k \in DOMAIN WriteTargets :
            LET file == files[WriteTargets[k]] IN
              /\ k < target => Output(WriteTargets[k]) = "complete"
              /\ k = target => IF fd THEN file.run = run /\ ~ file.closed ELSE file.run # run
              /\ k > target => file.run # run

IInv ==
    /\ TypeOK
    /\ NothingWrittenEarly
    /\ Progress
    /\ pc \in Phases \ {"write"} => target = 1 /\ result = NotBuilt
    /\ pc = "write" =>
          /\ result.status = "ok"
          /\ \A k \in DOMAIN WriteTargets : WriteTargets[k] \in DOMAIN result.lines
-----------------------------------------------------------------------------
LEMMA TargetsAre ==
    ASSUME NEW i \in Input
    PROVE  /\ TargetsOf(i) \in Seq(Where)
           /\ Len(TargetsOf(i)) \in {2, 3} /\ DOMAIN TargetsOf(i) = 1..Len(TargetsOf(i))
           /\ \A j, k \in DOMAIN TargetsOf(i) : TargetsOf(i)[j] = TargetsOf(i)[k] => j = k
<1>1. CASE i.make_interface
  <2>1. TargetsOf(i) = <<"HEADER", "SOURCE", "INTERFACE">>
    BY <1>1 DEF TargetsOf
  <2>. QED  BY <2>1 DEF Where
<1>2. CASE ~ i.make_interface
  <2>1. TargetsOf(i) = <<"HEADER", "SOURCE">>
    BY <1>2, InputAssumption DEF TargetsOf
  <2>. QED  BY <2>1 DEF Where
<1>. QED  BY <1>1, <1>2, InputAssumption

LEMMA InitHolds == Init => IInv
<1>. SUFFICES ASSUME Init PROVE IInv
  OBVIOUS
<1>1. input \in Input
  BY DEF Init
<1>2. TypeOK
  <2>1. target \in 1..Len(WriteTargets) + 1
    BY <1>1, TargetsAre DEF Init, WriteTargets
  <2>2. DOMAIN files = Where
    BY DEF Init
  <2>3. ASSUME NEW w \in Where PROVE files[w] = [run |-> 0, lines |-> <<>>, closed |-> TRUE]
    BY DEF Init
  <2>4. run \in 1..MaxRuns
    BY RunsAssumption DEF Init
  <2>5. \A w \in Where : /\ DOMAIN files[w] = {"run", "lines", "closed"}
                         /\ files[w].run \in 0..run /\ files[w].closed \in BOOLEAN
    <3>1. \A w \in Where : files[w].run = 0 /\ files[w].closed = TRUE
      BY <2>3
    <3>2. \A w \in Where : DOMAIN files[w] = {"run", "lines", "closed"}
      BY <2>3
    <3>3. 0 \in 0..run
      BY <2>4, RunsAssumption
    <3>. QED  BY <3>1, <3>2, <3>3
  <2>. QED  BY <1>1, <2>1, <2>2, <2>4, <2>5 DEF Init, TypeOK, Phases
<1>3. \A w \in Where : files[w].run # run
  BY DEF Init
<1>4. NothingWrittenEarly
  BY <1>3 DEF NothingWrittenEarly
<1>5. Progress
  BY <1>1, <1>3, TargetsAre DEF Init, Progress, WriteTargets, Phases
<1>. QED  BY <1>2, <1>4, <1>5 DEF Init, IInv
-----------------------------------------------------------------------------
(***************************************************************************)
(* Steps that leave the files alone.                                       *)
(***************************************************************************)
\* A step within the phases before the writing.
LEMMA EarlyStep ==
    ASSUME IInv, pc \in Phases \ {"write"},
           pc' \in (Phases \ {"write"}) \cup {"failed"}, UNCHANGED <<input, run, result, output>>
    PROVE  IInv'
<1>1. TypeOK'
  BY DEF IInv, TypeOK, output, WriteTargets, Writing, Phases, Ended
<1>2. NothingWrittenEarly'
  BY DEF IInv, NothingWrittenEarly, output
<1>3. Progress'
  BY DEF IInv, Progress, output, WriteTargets, Output, Phases
<1>. QED  BY <1>1, <1>2, <1>3 DEF IInv, output, Phases

\* The process ends, its files as they are.
LEMMA LastStep ==
    ASSUME IInv, pc \in Phases, pc' \in Ended, fd' = FALSE,
           UNCHANGED <<input, run, result, target, files>>
    PROVE  IInv'
<1>1. TypeOK'
  BY DEF IInv, TypeOK, WriteTargets, Phases, Ended
<1>2. NothingWrittenEarly'
  BY DEF IInv, NothingWrittenEarly
<1>. QED  BY <1>1, <1>2 DEF IInv, Progress, Phases, Ended

\* The lines for all files are there, and none has been touched yet.
LEMMA BuildStep == IInv /\ Build => IInv'
<1>. SUFFICES ASSUME IInv, Build PROVE IInv'
  OBVIOUS
<1>1. pc = "build" /\ target = 1 /\ ~ fd /\ result = NotBuilt
  BY DEF IInv, Build, Phases, TypeOK, Writing
<1>2. \A w \in Where : files[w].run # run
  BY <1>1 DEF IInv, NothingWrittenEarly, NotBuilt
<1>3. PICK built \in Outputs : built.input = input /\ result' = built.result
  BY DEF Build
<1>4. /\ pc' = (IF result'.status = "ok" THEN "write" ELSE "failed")
      /\ UNCHANGED <<input, run, target, fd, files>>
  BY DEF Build, GoTo, output
<1>5. TypeOK'
  BY <1>1, <1>4 DEF IInv, TypeOK, WriteTargets, Phases, Ended
<1>6. NothingWrittenEarly'
  BY <1>2, <1>4 DEF NothingWrittenEarly
<1>7. Progress'
  <2>1. input \in Input
    BY DEF IInv, TypeOK
  <2>2. ASSUME NEW k \in DOMAIN WriteTargets PROVE k \in Nat \ {0} /\ WriteTargets[k] \in Where
    BY <2>1, TargetsAre DEF WriteTargets
  <2>. QED  BY <1>1, <1>2, <1>4, <2>2 DEF Progress, WriteTargets
<1>8. pc' = "write" =>
          /\ result'.status = "ok"
          /\ \A k \in DOMAIN WriteTargets : WriteTargets[k] \in DOMAIN result'.lines
  BY <1>3, <1>4, BuilderAssumption DEF WriteTargets
<1>. QED  BY <1>4, <1>5, <1>6, <1>7, <1>8 DEF IInv, WriteTargets, Phases
-----------------------------------------------------------------------------
(***************************************************************************)
(* Writing.                                                                *)
(***************************************************************************)
\* What a step of the writing does to the files, in terms of the one it is about.
LEMMA AtFile ==
    ASSUME IInv, Writing
    PROVE  /\ pc = "write" /\ input \in Input /\ run \in Nat /\ run \in 1..MaxRuns
           /\ target \in DOMAIN WriteTargets /\ target \in Nat /\ target + 1 \in 1..Len(WriteTargets) + 1
           /\ File \in Where /\ File \in DOMAIN result.lines /\ result.status = "ok"
           /\ DOMAIN files = Where
           /\ DOMAIN files[File] = {"run", "lines", "closed"}
           /\ \A k \in DOMAIN WriteTargets :
                 /\ k \in Nat /\ WriteTargets[k] \in Where
                 /\ WriteTargets[k] = File => k = target
<1>1. pc = "write" /\ input \in Input /\ target \in DOMAIN WriteTargets
  BY DEF IInv, TypeOK, Writing
<1>2. run \in Nat /\ run \in 1..MaxRuns
  BY RunsAssumption DEF IInv, TypeOK
<1>3. /\ DOMAIN WriteTargets = 1..Len(WriteTargets) /\ Len(WriteTargets) \in Nat
      /\ \A k \in DOMAIN WriteTargets : WriteTargets[k] \in Where
      /\ \A j, k \in DOMAIN WriteTargets : WriteTargets[j] = WriteTargets[k] => j = k
  BY <1>1, TargetsAre DEF WriteTargets
<1>4. File \in Where /\ File \in DOMAIN result.lines /\ result.status = "ok"
  BY <1>1, <1>3 DEF IInv, File
<1>5. DOMAIN files = Where /\ DOMAIN files[File] = {"run", "lines", "closed"}
  BY <1>4 DEF IInv, TypeOK
<1>6. target + 1 \in 1..Len(WriteTargets) + 1 /\ target \in Nat
  BY <1>1, <1>3
<1>. QED  BY <1>1, <1>2, <1>3, <1>4, <1>5, <1>6 DEF File

\* A step that gives the file under way another state in this run.
LEMMA FileStep ==
    ASSUME IInv, Writing, NEW state, files' = [files EXCEPT ![File] = state],
           DOMAIN state = {"run", "lines", "closed"}, state.run = run, state.closed \in BOOLEAN,
           UNCHANGED <<input, pc, result, run>>,
           \/ target' = target /\ fd' = TRUE /\ ~ state.closed
           \/ target' = target + 1 /\ fd' = FALSE /\ state.closed /\ state.lines = Contents
    PROVE  IInv'
<1>1. \A w \in Where : files'[w] = IF w = File THEN state ELSE files[w]
  BY AtFile
<1>2. TypeOK'
  <2>1. \A w \in Where :
            /\ DOMAIN files'[w] = {"run", "lines", "closed"}
            /\ files'[w].run \in 0..run' /\ files'[w].closed \in BOOLEAN
    BY <1>1, AtFile DEF IInv, TypeOK
  <2>2. DOMAIN files' = Where
    BY AtFile
  <2>3. target' \in 1..Len(WriteTargets') + 1
    BY AtFile DEF IInv, TypeOK, WriteTargets
  <2>4. fd' => Writing'
    BY DEF Writing, WriteTargets
  <2>. QED  BY <2>1, <2>2, <2>3, <2>4 DEF IInv, TypeOK
<1>3. NothingWrittenEarly'
  BY <1>1, AtFile DEF IInv, NothingWrittenEarly
<1>4. Progress'
  <2>1. pc \in Phases /\ WriteTargets' = WriteTargets
    BY AtFile DEF Phases, WriteTargets
  <2>2. ASSUME NEW k \in DOMAIN WriteTargets
        PROVE  LET file == files'[WriteTargets[k]] IN
              /\ k < target' => Output(WriteTargets[k])' = "complete"
              /\ k = target' => IF fd' THEN file.run = run' /\ ~ file.closed ELSE file.run # run'
              /\ k > target' => file.run # run'
    <3>1. CASE k = target
      <4>1. WriteTargets[k] = File /\ files'[File] = state /\ File \in Where
        BY <1>1, <3>1, AtFile DEF File
      <4>2. CASE target' = target
        <5>1. fd' = TRUE /\ ~ state.closed /\ state.run = run' /\ k = target' /\ k \in Nat
          BY <3>1, <4>2, AtFile
        <5>. QED  BY <4>1, <5>1
      <4>3. CASE target' = target + 1
        <5>1. state.closed /\ state.lines = result.lines[WriteTargets[k]]
          BY <4>1, <4>3, AtFile DEF Contents
        <5>2. Output(WriteTargets[k])' = "complete"
          BY <2>1, <4>1, <5>1 DEF Output
        <5>3. k \in Nat /\ target' = k + 1
          BY <3>1, <4>3, AtFile
        <5>. QED  BY <5>2, <5>3
      <4>. QED  BY <4>2, <4>3
    <3>2. CASE k # target
      <4>1. WriteTargets[k] # File /\ files'[WriteTargets[k]] = files[WriteTargets[k]]
        BY <1>1, <3>2, AtFile
      <4>2. Output(WriteTargets[k])' = Output(WriteTargets[k])
        BY <4>1 DEF Output, WriteTargets
      <4>. QED  BY <2>1, <3>2, <4>1, <4>2, AtFile DEF IInv, Progress
    <3>. QED  BY <3>1, <3>2
  <2>. QED  BY <2>1, <2>2 DEF Progress
<1>. QED  BY <1>2, <1>3, <1>4, AtFile DEF IInv, WriteTargets, Phases
LEMMA OpenFileStep == IInv /\ OpenFile => IInv'
<1>. SUFFICES ASSUME IInv, OpenFile PROVE IInv'
  OBVIOUS
<1>. DEFINE state == [run |-> run, lines |-> <<>>, closed |-> FALSE]
<1>1. Writing /\ files' = [files EXCEPT ![File] = state]
  BY DEF OpenFile
<1>2. target' = target /\ fd' = TRUE /\ UNCHANGED <<input, pc, result, run>>
  BY DEF OpenFile, program
<1>3. DOMAIN state = {"run", "lines", "closed"} /\ state.run = run /\ state.closed = FALSE
  OBVIOUS
<1>. HIDE DEF state
<1>. QED  BY <1>1, <1>2, <1>3, FileStep

\* While it is open, the file is of this run.
LEMMA OpenFileIs ==
    ASSUME IInv, Writing, fd
    PROVE  files[File].run = run /\ files[File].closed = FALSE
<1>1. pc \in Phases /\ target \in DOMAIN WriteTargets /\ File \in Where
  BY AtFile DEF Phases
<1>. QED  BY <1>1 DEF IInv, Progress, File, TypeOK

LEMMA WriteChunkStep == IInv /\ WriteChunk => IInv'
<1>. SUFFICES ASSUME IInv, WriteChunk PROVE IInv'
  OBVIOUS
<1>1. Writing /\ fd /\ fd' = TRUE
  BY DEF WriteChunk, IInv, TypeOK
<1>2. PICK lines : files' = [files EXCEPT ![File].lines = lines]
  BY DEF WriteChunk
<1>. DEFINE state == [files[File] EXCEPT !.lines = lines]
<1>3. files' = [files EXCEPT ![File] = state]
  BY <1>2
<1>4. DOMAIN state = {"run", "lines", "closed"} /\ state.run = run /\ state.closed = FALSE
  BY <1>1, AtFile, OpenFileIs
<1>5. target' = target /\ UNCHANGED <<input, pc, result, run>>
  BY DEF WriteChunk, program
<1>. HIDE DEF state
<1>. QED  BY <1>1, <1>3, <1>4, <1>5, FileStep

LEMMA CloseFileStep == IInv /\ CloseFile => IInv'
<1>. SUFFICES ASSUME IInv, CloseFile PROVE IInv'
  OBVIOUS
<1>1. Writing /\ fd /\ files[File].lines = Contents /\ fd' = FALSE /\ target' = target + 1
  BY DEF CloseFile
<1>. DEFINE state == [files[File] EXCEPT !.closed = TRUE]
<1>2. files' = [files EXCEPT ![File] = state]
  BY DEF CloseFile
<1>3. DOMAIN state = {"run", "lines", "closed"} /\ state.run = run /\ state.closed = TRUE
  BY <1>1, AtFile, OpenFileIs
<1>4. state.lines = Contents
  BY <1>1, AtFile
<1>5. UNCHANGED <<input, pc, result, run>>
  BY DEF CloseFile, program
<1>. HIDE DEF state
<1>. QED  BY <1>1, <1>2, <1>3, <1>4, <1>5, FileStep
-----------------------------------------------------------------------------
\* Whatever a run left behind is of an earlier run for the next.
LEMMA RunAgainStep == IInv /\ RunAgain => IInv'
<1>. SUFFICES ASSUME IInv, RunAgain PROVE IInv'
  OBVIOUS
<1>1. run' = run + 1 /\ run' \in 1..MaxRuns /\ run \in Nat
  BY RunsAssumption DEF IInv, TypeOK, RunAgain
<1>2. pc' = "start" /\ target' = 1 /\ fd' = FALSE /\ result' = NotBuilt /\ UNCHANGED <<input, files>>
  BY DEF RunAgain
<1>3. \A w \in Where : files[w].run \in 0..run
  BY DEF IInv, TypeOK
<1>4. \A w \in Where : files'[w].run \in 0..run' /\ files'[w].run # run'
  BY <1>1, <1>2, <1>3
<1>5. input \in Input /\ Len(WriteTargets) \in {2, 3} /\ \A k \in DOMAIN WriteTargets : k \in Nat \ {0} /\ WriteTargets[k] \in Where
  BY TargetsAre DEF IInv, TypeOK, WriteTargets
<1>6. TypeOK'
  <2>1. target' \in 1..Len(WriteTargets') + 1
    BY <1>2, <1>5 DEF WriteTargets
  <2>. QED  BY <1>1, <1>2, <1>4, <2>1 DEF IInv, TypeOK, Phases
<1>7. NothingWrittenEarly'
  BY <1>4 DEF NothingWrittenEarly
<1>8. Progress'
  BY <1>2, <1>4, <1>5 DEF Progress, WriteTargets
<1>. QED  BY <1>2, <1>6, <1>7, <1>8 DEF IInv, Phases

LEMMA StepHolds == IInv /\ [Next]_vars => IInv'
<1>. SUFFICES ASSUME IInv, [Next]_vars PROVE IInv'
  OBVIOUS
<1>1. CASE Start
  BY <1>1, EarlyStep DEF Start, GoTo, program, Phases
<1>2. CASE CheckDependencies
  BY <1>2, EarlyStep DEF CheckDependencies, GoTo, Phases
<1>3. CASE NoDependencies
  BY <1>3, EarlyStep DEF NoDependencies, GoTo, program, Phases
<1>4. CASE Load
  BY <1>4, EarlyStep DEF Load, GoTo, Phases
<1>5. CASE LoadConfig
  BY <1>5, EarlyStep DEF LoadConfig, GoTo, Phases
<1>6. CASE DieOfConfig
  BY <1>6, EarlyStep DEF DieOfConfig, GoTo, program, Phases
<1>7. CASE ReadTemplates
  BY <1>7, EarlyStep DEF ReadTemplates, GoTo, program, Phases
<1>8. CASE Build
  BY <1>8, BuildStep
<1>9. CASE OpenFile
  BY <1>9, OpenFileStep
<1>10. CASE OpenWithoutPath
  BY <1>10, LastStep DEF OpenWithoutPath, Writing, GoTo, program, output, Phases, Ended, IInv, TypeOK
<1>11. CASE WriteChunk
  BY <1>11, WriteChunkStep
<1>12. CASE CloseFile
  BY <1>12, CloseFileStep
<1>13. CASE Finish
  <2>1. fd' = FALSE /\ pc' \in Ended /\ pc \in Phases /\ UNCHANGED <<input, run, result, target, files>>
    BY <1>13 DEF Finish, GoTo, program, output, Phases, Ended, IInv, TypeOK, Writing
  <2>. QED  BY <2>1, LastStep
<1>14. CASE SystemCallFails
  BY <1>14, LastStep DEF SystemCallFails, Writing, GoTo, program, Phases, Ended
<1>15. CASE Kill
  BY <1>15, LastStep DEF Kill, GoTo, program, Ended
<1>16. CASE RunAgain
  BY <1>16, RunAgainStep
<1>17. CASE UNCHANGED vars
  BY <1>17 DEF vars, IInv, TypeOK, NothingWrittenEarly, Progress, Output, WriteTargets, Writing
<1>. QED  BY <1>1, <1>2, <1>3, <1>4, <1>5, <1>6, <1>7, <1>8, <1>9, <1>10, <1>11, <1>12,
             <1>13, <1>14, <1>15, <1>16, <1>17 DEF Next, Step

LEMMA Inductive == Spec => []IInv
  BY InitHolds, StepHolds, PTL DEF Spec

\* The state of the tool keeps its types: a process holds a file open only while
\* it is writing it.
THEOREM TypeCorrect == Spec => []TypeOK
<1>1. IInv => TypeOK
  BY DEF IInv
<1>. QED  BY Inductive, <1>1, PTL

\* No file is opened, and so none truncated, before the lines for all of them
\* have been made: configuration, templates and messages that cannot be built
\* leave what an earlier run wrote.
THEOREM WrittenLast == Spec => []NothingWrittenEarly
<1>1. IInv => NothingWrittenEarly
  BY DEF IInv
<1>. QED  BY Inductive, <1>1, PTL
-----------------------------------------------------------------------------
(***************************************************************************)
(* The tool keeps its promise.                                             *)
(***************************************************************************)
OutputOf == [w \in Where |-> Output(w)]

\* What the promise sees of a step that leaves the files alone.
LEMMA SameOutputs ==
    ASSUME UNCHANGED <<files, run>>, UNCHANGED result \/ \A w \in Where : files[w].run # run
    PROVE  UNCHANGED OutputOf
<1>1. \A w \in Where : Output(w)' = Output(w)
  BY DEF Output
<1>. QED  BY <1>1 DEF OutputOf

LEMMA PromisedInit == Init => Promise!Init
<1>. SUFFICES ASSUME Init PROVE Promise!Init
  OBVIOUS
<1>1. WriteTargets \in Seq(Where)
  BY TargetsAre DEF Init, WriteTargets
<1>2. \A w \in Where : Output(w) = "stale"
  BY DEF Init, Output
<1>3. Outcome = "running"
  BY DEF Init, Outcome, Phases
<1>. QED  BY <1>1, <1>2, <1>3 DEF Promise!Init

\* The process goes on without touching a file.
LEMMA Stutters ==
    ASSUME pc \in Phases, pc' \in Phases, UNCHANGED <<input, OutputOf>>
    PROVE  UNCHANGED Promise!vars
BY DEF Promise!vars, OutputOf, Outcome, WriteTargets

LEMMA Fails ==
    ASSUME pc \in Phases, pc' \in {"failed", "killed"}, UNCHANGED <<input, OutputOf>>
    PROVE  Promise!Next
<1>1. Outcome = "running" /\ Outcome' = "failed"
  BY DEF Outcome, Phases
<1>. QED  BY <1>1 DEF Promise!Next, Promise!Fail, OutputOf, WriteTargets

LEMMA EarlyPromised ==
    ASSUME pc \in Phases, pc' \in Phases \cup {"failed", "killed"}, UNCHANGED <<input, OutputOf>>
    PROVE  [Promise!Next]_Promise!vars
<1>1. CASE pc' \in Phases
  BY <1>1, Stutters
<1>2. CASE pc' \in {"failed", "killed"}
  BY <1>2, Fails
<1>. QED  BY <1>1, <1>2

\* Of an operation on the file under way, the other files notice nothing.
LEMMA OthersSame ==
    ASSUME IInv, Writing, NEW w, w = File, NEW state, files' = [files EXCEPT ![w] = state],
           UNCHANGED <<input, pc, result, run>>
    PROVE  /\ w \in Where /\ files'[w] = state
           /\ OutputOf' = [OutputOf EXCEPT ![w] = Output(w)']
           /\ Outcome = "running" /\ Outcome' = "running" /\ WriteTargets' = WriteTargets
           /\ target \in DOMAIN WriteTargets /\ target \in Nat /\ WriteTargets[target] = w
           /\ \A j \in 1..target - 1 : OutputOf[WriteTargets[j]] = "complete"
<1>1. /\ w \in Where /\ files'[w] = state /\ pc = "write"
      /\ target \in DOMAIN WriteTargets /\ target \in Nat
      /\ \A v \in Where \ {w} : files'[v] = files[v]
  BY AtFile
<1>2. \A v \in Where \ {w} : Output(v)' = Output(v)
  BY <1>1 DEF Output
<1>3. OutputOf' = [OutputOf EXCEPT ![w] = Output(w)']
  BY <1>1, <1>2 DEF OutputOf
<1>4. Outcome = "running" /\ Outcome' = "running" /\ WriteTargets' = WriteTargets /\ pc \in Phases
  BY <1>1 DEF Outcome, Phases, WriteTargets
<1>5. ASSUME NEW j \in 1..target - 1 PROVE OutputOf[WriteTargets[j]] = "complete"
  <2>1. j \in DOMAIN WriteTargets /\ j < target
    BY <1>1, TargetsAre, AtFile DEF WriteTargets
  <2>2. WriteTargets[j] \in Where
    BY <2>1, AtFile
  <2>. QED  BY <1>4, <2>1, <2>2 DEF IInv, Progress, OutputOf
<1>. QED  BY <1>1, <1>3, <1>4, <1>5 DEF File

LEMMA OpenFilePromised == IInv /\ OpenFile => Promise!Next
<1>. SUFFICES ASSUME IInv, OpenFile PROVE Promise!Next
  OBVIOUS
<1>1. Writing /\ ~ fd /\ UNCHANGED <<input, pc, result, run>>
  BY DEF OpenFile, program
<1>2. PICK w : w = File
  OBVIOUS
<1>. DEFINE state == [run |-> run, lines |-> <<>>, closed |-> FALSE]
<1>3. files' = [files EXCEPT ![w] = state]
  BY <1>2 DEF OpenFile
<1>4. state.run = run' /\ state.closed = FALSE
  BY <1>1
<1>. HIDE DEF state
<1>5. Output(w)' = "partial"
  <2>1. files'[w] = state
    BY <1>1, <1>2, <1>3, OthersSame
  <2>. QED  BY <1>4, <2>1 DEF Output
<1>6. OutputOf[w] = "stale"
  <2>1. pc \in Phases /\ target \in DOMAIN WriteTargets /\ File = WriteTargets[target]
    BY <1>1, AtFile DEF Phases, File
  <2>2. files[w].run # run
    BY <1>1, <1>2, <2>1 DEF IInv, Progress
  <2>. QED  BY <1>1, <1>2, <2>2, AtFile DEF OutputOf, Output
<1>7. Promise!Begin(target)
  BY <1>1, <1>2, <1>3, <1>5, <1>6, OthersSame DEF Promise!Begin, OutputOf
<1>. QED  BY <1>1, <1>2, <1>3, <1>7, OthersSame DEF Promise!Next

LEMMA WriteChunkPromised == IInv /\ WriteChunk => UNCHANGED Promise!vars
<1>. SUFFICES ASSUME IInv, WriteChunk PROVE UNCHANGED Promise!vars
  OBVIOUS
<1>1. Writing /\ fd /\ UNCHANGED <<input, pc, result, run>>
  BY DEF WriteChunk, program
<1>2. PICK w : w = File
  OBVIOUS
<1>3. PICK lines : files' = [files EXCEPT ![w].lines = lines]
  BY <1>2 DEF WriteChunk
<1>. DEFINE state == [files[w] EXCEPT !.lines = lines]
<1>4. files' = [files EXCEPT ![w] = state]
  BY <1>3
<1>5. state.run = run /\ state.closed = FALSE /\ files[w].run = run /\ files[w].closed = FALSE
  BY <1>1, <1>2, AtFile, OpenFileIs
<1>. HIDE DEF state
<1>6. w \in Where /\ OutputOf' = [OutputOf EXCEPT ![w] = Output(w)'] /\ files'[w] = state
  BY <1>1, <1>2, <1>4, OthersSame
<1>7. Output(w) = "partial" /\ Output(w)' = "partial"
  BY <1>1, <1>5, <1>6 DEF Output
<1>8. OutputOf' = OutputOf
  BY <1>6, <1>7 DEF OutputOf
<1>. QED  BY <1>1, <1>8 DEF Promise!vars, OutputOf, Outcome, WriteTargets

LEMMA CloseFilePromised == IInv /\ CloseFile => Promise!Next
<1>. SUFFICES ASSUME IInv, CloseFile PROVE Promise!Next
  OBVIOUS
<1>1. Writing /\ fd /\ UNCHANGED <<input, pc, result, run>> /\ files[File].lines = Contents
  BY DEF CloseFile, program
<1>2. PICK w : w = File
  OBVIOUS
<1>. DEFINE state == [files[w] EXCEPT !.closed = TRUE]
<1>3. files' = [files EXCEPT ![w] = state]
  BY <1>2 DEF CloseFile
<1>4. /\ state.run = run' /\ state.closed = TRUE /\ state.lines = result'.lines[w]
      /\ files[w].run = run /\ files[w].closed = FALSE
  BY <1>1, <1>2, AtFile, OpenFileIs DEF Contents
<1>. HIDE DEF state
<1>5. Output(w)' = "complete"
  <2>1. files'[w] = state
    BY <1>1, <1>2, <1>3, OthersSame
  <2>. QED  BY <1>4, <2>1 DEF Output
<1>6. OutputOf[w] = "partial"
  BY <1>1, <1>2, <1>3, <1>4, OthersSame DEF OutputOf, Output
<1>7. Promise!Complete(target)
  BY <1>1, <1>2, <1>3, <1>5, <1>6, OthersSame DEF Promise!Complete, OutputOf
<1>. QED  BY <1>1, <1>2, <1>3, <1>7, OthersSame DEF Promise!Next

LEMMA FinishPromised == IInv /\ Finish => Promise!Next
<1>. SUFFICES ASSUME IInv, Finish PROVE Promise!Next
  OBVIOUS
<1>1. /\ pc = "write" /\ pc' = "ok" /\ target \notin DOMAIN WriteTargets
      /\ UNCHANGED <<input, files, run, result>>
  BY DEF Finish, GoTo, program, output
<1>2. /\ input \in Input /\ target \in 1..Len(WriteTargets) + 1
      /\ Len(WriteTargets) \in Nat /\ DOMAIN WriteTargets = 1..Len(WriteTargets)
      /\ \A k \in DOMAIN WriteTargets : WriteTargets[k] \in Where
  BY TargetsAre DEF IInv, TypeOK, WriteTargets
<1>3. \A k \in DOMAIN WriteTargets : k < target
  BY <1>1, <1>2
<1>4. \A k \in DOMAIN WriteTargets : OutputOf[WriteTargets[k]] = "complete"
  BY <1>1, <1>2, <1>3 DEF IInv, Progress, Phases, OutputOf
<1>5. Outcome = "running" /\ Outcome' = "ok"
  BY <1>1 DEF Outcome, Phases
<1>6. UNCHANGED OutputOf
  BY <1>1, SameOutputs
<1>. QED  BY <1>1, <1>4, <1>5, <1>6 DEF Promise!Next, Promise!Succeed, OutputOf, WriteTargets

LEMMA RunAgainPromised == IInv /\ RunAgain => Promise!Next
<1>. SUFFICES ASSUME IInv, RunAgain PROVE Promise!Next
  OBVIOUS
<1>1. pc \in Ended /\ pc' = "start" /\ run' = run + 1 /\ UNCHANGED <<input, files>>
  BY DEF RunAgain
<1>2. run \in Nat /\ \A w \in Where : files[w].run \in 0..run
  BY RunsAssumption DEF IInv, TypeOK
<1>3. \A w \in Where : Output(w)' = "stale"
  BY <1>1, <1>2 DEF Output
<1>4. Outcome # "running" /\ Outcome' = "running"
  BY <1>1 DEF Outcome, Phases, Ended
<1>. QED  BY <1>1, <1>3, <1>4 DEF Promise!Next, Promise!Restart, WriteTargets

LEMMA StepPromised == IInv /\ [Next]_vars => [Promise!Next]_Promise!vars
<1>. SUFFICES ASSUME IInv, [Next]_vars PROVE [Promise!Next]_Promise!vars
  OBVIOUS
<1>. USE DEF GoTo, program, output, Phases
<1>1. CASE Start
  BY <1>1, SameOutputs, EarlyPromised DEF Start
<1>2. CASE CheckDependencies
  BY <1>2, SameOutputs, EarlyPromised DEF CheckDependencies
<1>3. CASE NoDependencies
  BY <1>3, SameOutputs, EarlyPromised DEF NoDependencies
<1>4. CASE Load
  BY <1>4, SameOutputs, EarlyPromised DEF Load
<1>5. CASE LoadConfig
  BY <1>5, SameOutputs, EarlyPromised DEF LoadConfig
<1>6. CASE DieOfConfig
  BY <1>6, SameOutputs, EarlyPromised DEF DieOfConfig
<1>7. CASE ReadTemplates
  BY <1>7, SameOutputs, EarlyPromised DEF ReadTemplates
<1>8. CASE Build
  <2>1. \A w \in Where : files[w].run # run
    BY <1>8 DEF Build, IInv, NothingWrittenEarly, NotBuilt
  <2>2. UNCHANGED <<input, files, run>> /\ pc \in Phases /\ pc' \in Phases \cup {"failed", "killed"}
    BY <1>8 DEF Build
  <2>. QED  BY <2>1, <2>2, SameOutputs, EarlyPromised
<1>9. CASE OpenFile
  BY <1>9, OpenFilePromised
<1>10. CASE OpenWithoutPath
  BY <1>10, SameOutputs, EarlyPromised DEF OpenWithoutPath, Writing
<1>11. CASE WriteChunk
  BY <1>11, WriteChunkPromised
<1>12. CASE CloseFile
  BY <1>12, CloseFilePromised
<1>13. CASE Finish
  BY <1>13, FinishPromised
<1>14. CASE SystemCallFails
  BY <1>14, SameOutputs, EarlyPromised DEF SystemCallFails, Writing
<1>15. CASE Kill
  BY <1>15, SameOutputs, EarlyPromised DEF Kill
<1>16. CASE RunAgain
  BY <1>16, RunAgainPromised
<1>17. CASE UNCHANGED vars
  BY <1>17 DEF vars, Promise!vars, Output, Outcome, WriteTargets
<1>. QED  BY <1>1, <1>2, <1>3, <1>4, <1>5, <1>6, <1>7, <1>8, <1>9, <1>10, <1>11, <1>12,
             <1>13, <1>14, <1>15, <1>16, <1>17 DEF Next, Step

\* What a build may rely on: the files are brought up to date one after the
\* other, a run succeeds only after the last, and a later run trusts nothing that
\* an earlier one left.
THEOREM PromiseKept == Spec => KeepsPromise
BY Inductive, PromisedInit, StepPromised, PTL DEF Spec, KeepsPromise, Promise!Spec

\* What success means. It follows from the promise alone, however the tool keeps it.
AllWritten ==
    pc = "ok" => \A k \in DOMAIN WriteTargets :
                    LET file == files[WriteTargets[k]] IN
                      /\ file.run = run /\ file.closed
                      /\ file.lines = result.lines[WriteTargets[k]]

AllComplete ==
    Outcome = "ok" => \A k \in DOMAIN WriteTargets :
                         [w \in Where |-> Output(w)][WriteTargets[k]] = "complete"

LEMMA AllCompleteStep == AllComplete /\ [Promise!Next]_Promise!vars => AllComplete'
<1>. SUFFICES ASSUME AllComplete, [Promise!Next]_Promise!vars PROVE AllComplete'
  OBVIOUS
<1>1. CASE Promise!Succeed
  BY <1>1 DEF Promise!Succeed, AllComplete
<1>2. CASE \/ Promise!Fail \/ Promise!Restart
           \/ \E k \in DOMAIN WriteTargets : Promise!Begin(k) \/ Promise!Complete(k)
  <2>1. Outcome' # "ok"
    BY <1>2 DEF Promise!Fail, Promise!Restart, Promise!Begin, Promise!Complete
  <2>. QED  BY <2>1 DEF AllComplete
<1>3. CASE UNCHANGED Promise!vars
  BY <1>3 DEF Promise!vars, AllComplete
<1>. QED  BY <1>1, <1>2, <1>3 DEF Promise!Next

\* A run that ends well leaves every file it was asked for of this run, closed and
\* whole, whatever failed runs before it left.
THEOREM SuccessMeansAll == Spec => []AllWritten
<1>1. Init => AllComplete
  BY DEF Init, AllComplete, Outcome, Phases
<1>2. IInv /\ AllComplete => AllWritten
  <2>. SUFFICES ASSUME IInv, AllComplete, pc = "ok", NEW k \in DOMAIN WriteTargets
                PROVE  LET file == files[WriteTargets[k]] IN
                         /\ file.run = run /\ file.closed
                         /\ file.lines = result.lines[WriteTargets[k]]
    BY DEF AllWritten
  <2>1. WriteTargets[k] \in Where
    BY TargetsAre DEF IInv, TypeOK, WriteTargets
  <2>2. Output(WriteTargets[k]) = "complete"
    BY <2>1 DEF AllComplete, Outcome, Phases
  <2>. QED  BY <2>2 DEF Output
<1>. QED  BY Inductive, StepPromised, AllCompleteStep, <1>1, <1>2, PTL DEF Spec
-----------------------------------------------------------------------------
(***************************************************************************)
(* The configuration: what was loaded is what the command comes to, and    *)
(* what its custom file says stands in it.                                 *)
(***************************************************************************)
\* NormalOptions sets recurse where nobody has said anything of it.
LEMMA NormalOptionsKept ==
    ASSUME NEW options
    PROVE  /\ \A o \in DOMAIN options : Get(NormalOptions(options), o) = options[o]
           /\ DOMAIN NormalOptions(options) \subseteq DOMAIN options \cup {"recurse"}
<1>1. CASE ~ Get(options, "automatic")
  BY <1>1 DEF NormalOptions, Get
<1>2. CASE Get(options, "automatic")
  <2>. DEFINE base == [recurse |-> FALSE]
  <2>1. NormalOptions(options) = MergeFrom(base, options)
    BY <1>2 DEF NormalOptions
  <2>2. DOMAIN base = {"recurse"}
    OBVIOUS
  <2>. HIDE DEF base
  <2>3. DOMAIN MergeFrom(base, options) = {"recurse"} \cup DOMAIN options
    BY <2>2 DEF MergeFrom
  <2>4. ASSUME NEW o \in DOMAIN options PROVE MergeFrom(base, options)[o] = options[o]
    <3>1. CASE o \in {"include", "source_include", "dependency"}
      <4>1. /\ MergeFrom(base, options)[o] = Get(base, o) \cup Get(options, o)
            /\ Get(base, o) = OptionDefaults[o] /\ Get(options, o) = options[o]
        BY <2>2, <3>1 DEF MergeFrom, Get
      <4>2. /\ OptionDefaults["include"] = {}
            /\ OptionDefaults["source_include"] = {}
            /\ OptionDefaults["dependency"] = {}
        BY DEF OptionDefaults
      <4>. QED  BY <3>1, <4>1, <4>2
    <3>2. CASE o \notin {"include", "source_include", "dependency"}
      BY <2>2, <3>2 DEF MergeFrom
    <3>. QED  BY <3>1, <3>2
  <2>. QED  BY <2>1, <2>3, <2>4 DEF Get
<1>. QED  BY <1>1, <1>2

\* Every entry of a verified map is there under its normal key, if no other has
\* this key.
LEMMA EntryStands ==
    ASSUME NEW config, NEW c \in Normalised(config), NEW key \in DOMAIN config,
           \A other \in DOMAIN config :
               NormalKey(other, config[other]) = NormalKey(key, config[key]) => other = key
    PROVE  /\ NormalKey(key, config[key]) \in DOMAIN c
           /\ c[NormalKey(key, config[key])] = NormalOptions(config[key])
<1>. DEFINE Normal(k) == NormalKey(k, config[k])
            keys == {Normal(k) : k \in DOMAIN config}
<1>1. PICK f \in [keys -> DOMAIN config] :
         /\ \A n \in keys : Normal(f[n]) = n
         /\ c = [n \in keys |-> NormalOptions(config[f[n]])]
  BY DEF Normalised
<1>2. Normal(key) \in keys
  OBVIOUS
<1>3. Normal(f[Normal(key)]) = Normal(key) /\ f[Normal(key)] \in DOMAIN config
  BY <1>1, <1>2
<1>4. f[Normal(key)] = key
  BY <1>3
<1>. QED  BY <1>1, <1>2, <1>4

\* A verified entry keeps the first character of its key, which says what it is,
\* and its name, but for an automatic type.
LEMMA KeyKept ==
    ASSUME NEW key, NEW options, VerifyTypeEntry(key, options)
    PROVE  /\ NormalKey(key, options).prefix = key.prefix
           /\ NormalKey(key, options).name =
                 IF Get(options, "automatic") THEN AbsoluteCppTypeName[key.name] ELSE key.name
<1>1. Get(options, "automatic") => key.prefix = "="
  BY Zenon DEF VerifyTypeEntry
<1>. QED  BY <1>1 DEF NormalKey, Type

LEMMA CustomEntryStands ==
    ASSUME NEW text, NEW custom, NEW c \in VerifyProtoBuilderConfig(text, custom),
           NEW config, config = MergeMaps(Parsed(text), custom),
           NEW key \in DOMAIN custom,
           \A other \in DOMAIN config :
               NormalKey(other, config[other]) = NormalKey(key, config[key]) => other = key
    PROVE  \E k \in DOMAIN c :
              /\ k.prefix = key.prefix
              /\ k.name = IF Get(custom[key], "automatic")
                            THEN AbsoluteCppTypeName[key.name] ELSE key.name
              /\ \A o \in DOMAIN custom[key] : Get(c[k], o) = custom[key][o]
              /\ DOMAIN c[k] \subseteq DOMAIN custom[key] \cup {"recurse"}
<1>1. key \in DOMAIN config /\ config[key] = custom[key]
  BY DEF MergeMaps
<1>2. c \in Normalised(config) /\ VerifyTypeEntry(key, config[key])
  BY <1>1 DEF VerifyProtoBuilderConfig
<1>3. PICK k : k = NormalKey(key, config[key])
  OBVIOUS
<1>4. k \in DOMAIN c /\ c[k] = NormalOptions(custom[key])
  BY <1>1, <1>2, <1>3, EntryStands
<1>5. /\ k.prefix = key.prefix
      /\ k.name = IF Get(custom[key], "automatic") THEN AbsoluteCppTypeName[key.name] ELSE key.name
  BY <1>1, <1>2, <1>3, KeyKept
<1>. QED  BY <1>4, <1>5, NormalOptionsKept

-----------------------------------------------------------------------------
\* The configuration of a run is one that its command may load, whichever call
\* loaded it, and it stays for the rest of the run.
ConfigLoaded ==
    kConfig # <<>> => \E c \in Configs : c.input = input /\ kConfig = <<c.config>>

LEMMA ConfigLoadedInit == Init => ConfigLoaded
BY DEF Init, ConfigLoaded

LEMMA ConfigLoadedStep == ConfigLoaded /\ [Next]_vars => ConfigLoaded'
<1>. SUFFICES ASSUME ConfigLoaded, [Next]_vars PROVE ConfigLoaded'
  OBVIOUS
<1>1. ASSUME input' = input, kConfig' = kConfig PROVE ConfigLoaded'
  BY <1>1 DEF ConfigLoaded
<1>2. CASE CheckDependencies
  BY <1>2 DEF CheckDependencies, GoTo, ConfigLoaded
<1>3. CASE LoadConfig
  BY <1>3 DEF LoadConfig, GoTo, ConfigLoaded
<1>4. CASE RunAgain
  BY <1>4 DEF RunAgain, ConfigLoaded
<1>5. CASE UNCHANGED vars
  BY <1>1, <1>5 DEF vars
<1>6. CASE \/ Start \/ NoDependencies \/ Load \/ DieOfConfig \/ ReadTemplates \/ Build
           \/ OpenFile \/ OpenWithoutPath \/ Finish \/ SystemCallFails \/ Kill
  BY <1>1, <1>6 DEF Start, NoDependencies, Load, DieOfConfig, ReadTemplates, Build, OpenFile,
     OpenWithoutPath, Finish, SystemCallFails, Kill, GoTo, program
<1>7. CASE WriteChunk \/ CloseFile
  BY <1>1, <1>7, Zenon DEF WriteChunk, CloseFile, program
<1>. QED  BY <1>2, <1>3, <1>4, <1>5, <1>6, <1>7 DEF Next, Step

LEMMA CustomStands == ConfigLoaded => CustomTypesWin
<1>. SUFFICES ASSUME ConfigLoaded, kConfig # <<>>, input.custom.given PROVE CustomTypesWin
  BY DEF CustomTypesWin
<1>1. PICK c \in Configs : c.input = input /\ kConfig = <<c.config>>
  BY DEF ConfigLoaded
<1>2. PICK i \in Commands :
         \E config \in GetGlobalProtoBuilderConfig(i) : c = [input |-> i, config |-> config]
  BY <1>1, ConfigsAssumption DEF CommandConfigs
<1>3. i = input /\ c.config \in GetGlobalProtoBuilderConfig(input)
  BY <1>1, <1>2
<1>4. c.config \in VerifyProtoBuilderConfig(BuiltInConfig, input.custom.type_map)
  BY <1>3 DEF GetGlobalProtoBuilderConfig
<1>5. kConfig[1] = c.config
  BY <1>1
<1>. QED  BY <1>4, <1>5, CustomEntryStands DEF CustomTypesWin

\* What a custom file says of a type is what the whole run goes by, for any
\* built-in text and any file: nothing of the built-in entry is left, and whether
\* the configuration was loaded to check dependencies or for itself is the same
\* (GetGlobalProtoBuilderConfig, VerifyProtoBuilderConfig).
THEOREM CustomTypesWinCorrect == Spec => []CustomTypesWin
<1>1. Init /\ [][Next]_vars => []ConfigLoaded
  BY ConfigLoadedInit, ConfigLoadedStep, PTL
<1>. QED  BY <1>1, CustomStands, PTL DEF Spec
-----------------------------------------------------------------------------
(***************************************************************************)
(* The files.                                                              *)
(***************************************************************************)
\* What is written was made of the command, of the configuration of the run and of
\* what was found for it.
MadeOfCommand ==
    /\ pc \in {"config", "templates", "build", "write", "ok"} => loaded = DescriptorsOf(input)
    /\ pc \in {"write", "ok"} =>
          /\ result.status = "ok"
          /\ \E built \in Outputs :
                built.input = input /\ built.config = kConfig[1] /\ result = built.result

LEMMA MadeOfCommandInit == Init => MadeOfCommand
BY DEF Init, MadeOfCommand

LEMMA MadeOfCommandStep == MadeOfCommand /\ [Next]_vars => MadeOfCommand'
<1>. SUFFICES ASSUME MadeOfCommand, [Next]_vars PROVE MadeOfCommand'
  OBVIOUS
<1>1. CASE Start \/ CheckDependencies \/ NoDependencies \/ DieOfConfig \/ ReadTemplates
           \/ OpenWithoutPath \/ SystemCallFails \/ Kill \/ RunAgain
  BY <1>1 DEF Start, CheckDependencies, NoDependencies, DieOfConfig, ReadTemplates, OpenWithoutPath,
     SystemCallFails, Kill, RunAgain, GoTo, program, output, MadeOfCommand
<1>2. CASE Load
  BY <1>2 DEF Load, GoTo, MadeOfCommand
<1>3. CASE LoadConfig
  BY <1>3 DEF LoadConfig, GoTo, MadeOfCommand
<1>4. CASE Build
  BY <1>4 DEF Build, GoTo, MadeOfCommand
<1>5. CASE OpenFile
  BY <1>5 DEF OpenFile, program, MadeOfCommand
<1>6. CASE WriteChunk \/ CloseFile
  <2>1. UNCHANGED <<input, pc, program>>
    BY <1>6, Zenon DEF WriteChunk, CloseFile
  <2>. QED  BY <2>1 DEF program, MadeOfCommand
<1>7. CASE Finish
  BY <1>7 DEF Finish, GoTo, program, MadeOfCommand
<1>8. CASE UNCHANGED vars
  BY <1>8 DEF vars, MadeOfCommand
<1>. QED  BY <1>1, <1>2, <1>3, <1>4, <1>5, <1>6, <1>7, <1>8 DEF Next, Step

\* The lines of a file are those that come of its template and of the dictionary.
LEMMA LinesAre ==
    ASSUME IInv, MadeOfCommand, AllWritten, Succeeded, NEW w \in OutputTargets
    PROVE  /\ IsDictionary(FillDictionary(Options))
           /\ \E text \in Seq(Token) :
                 /\ Expand(FillDictionary(Options), text).ok
                 /\ Lines(w) = Written(Expand(FillDictionary(Options), text).output)
<1>1. input \in Input /\ pc = "ok" /\ loaded = LoadCommand(input)
  BY LoadAssumption DEF IInv, TypeOK, Succeeded, MadeOfCommand
<1>2. PICK built \in Outputs :
         built.input = input /\ built.config = kConfig[1] /\ result = built.result
  BY <1>1 DEF MadeOfCommand
<1>3. PICK c \in CommandConfigs :
         /\ HasTemplates(c.input)
         /\ built = [input |-> c.input, config |-> c.config, result |-> WriteBuilder(OptionsOf(c))]
  BY <1>2, OutputsAssumption DEF CommandOutputs
<1>4. c.input = input /\ c.config = kConfig[1] /\ result = WriteBuilder(OptionsOf(c))
  BY <1>2, <1>3
<1>5. OptionsOf(c) = Options
  BY <1>1, <1>4 DEF OptionsOf, Options
<1>6. PICK o : o = Options
  OBVIOUS
<1>7. WriteBuilder(o).status = "ok" /\ result = WriteBuilder(o)
  BY <1>1, <1>4, <1>5, <1>6 DEF MadeOfCommand
<1>8. CanBuild(o) /\ IsDictionary(FillDictionary(o))
  BY <1>3, <1>5, <1>6, <1>7, BuiltLines, TextsAssumption
<1>9. w \in ToSet(Targets(o)) /\ w \in {"HEADER", "SOURCE", "INTERFACE"}
  <2>1. o.make_interface = input.make_interface /\ input.make_interface \in BOOLEAN
    BY <1>1, <1>6, InputAssumption DEF Options, BuilderOptions
  <2>2. CASE input.make_interface
    BY <2>1, <2>2 DEF OutputTargets, WriteTargets, TargetsOf, Targets, ToSet
  <2>3. CASE ~ input.make_interface
    BY <2>1, <2>3 DEF OutputTargets, WriteTargets, TargetsOf, Targets, ToSet
  <2>. QED  BY <2>1, <2>2, <2>3
<1>10. PICK i \in Commands : i = input
  BY <1>3, <1>4 DEF CommandConfigs
<1>11. o.tpl[w] \in Seq(Token)
  <2>1. w \in DOMAIN input.tpl_in
    BY <1>9, <1>10, TemplatesAssumption
  <2>2. o.tpl[w] = Template(input, w)
    BY <1>6, <2>1 DEF Options, BuilderOptions
  <2>3. input.tpl_in[w] \in {"default"} \cup DOMAIN TemplateFiles
    BY <1>3, <1>4, <2>1 DEF HasTemplates, ReadableTemplates
  <2>. QED  BY <1>9, <2>2, <2>3, TemplatesAssumption DEF Template
<1>12. PICK text : text = RawTemplate(o.tpl[w])
  OBVIOUS
<1>13. text \in Seq(Token)
  BY <1>11, <1>12, RawTemplateType
<1>14. /\ Expand(FillDictionary(o), text).ok
       /\ result.lines[w] = Written(Expand(FillDictionary(o), text).output)
  BY <1>7, <1>9, <1>12, BuiltLines
<1>15. Lines(w) = result.lines[w]
  BY <1>1 DEF AllWritten, OutputTargets, Lines
<1>. QED  BY <1>6, <1>8, <1>13, <1>14, <1>15

LEMMA MadeAlways == Spec => [](IInv /\ MadeOfCommand /\ AllWritten)
<1>1. Init /\ [][Next]_vars => []MadeOfCommand
  BY MadeOfCommandInit, MadeOfCommandStep, PTL
<1>. QED  BY <1>1, Inductive, SuccessMeansAll, PTL DEF Spec

LEMMA LinesTidy == IInv /\ MadeOfCommand /\ AllWritten => FilesTidy
<1>. SUFFICES ASSUME IInv, MadeOfCommand, AllWritten, Succeeded, NEW w \in OutputTargets
              PROVE  /\ NoneInVain(Lines(w))
                     /\ Lines(w) # <<>> => Lines(w)[Len(Lines(w))] = <<>>
  BY DEF FilesTidy, NoneInVain
<1>1. PICK dict : dict = FillDictionary(Options)
  OBVIOUS
<1>2. PICK text \in Seq(Token) : Expand(dict, text).ok /\ Lines(w) = Written(Expand(dict, text).output)
  BY <1>1, LinesAre
<1>3. IsDictionary(dict)
  BY <1>1, LinesAre
<1>4. Expand(dict, text).output \in Seq(Clean(dict))
  BY <1>2, <1>3, ExpandsClean
<1>. QED  BY <1>2, <1>4, WrittenTidy

\* For any templates and any generated code, no file starts with an empty line or
\* has two in a row, and its last line is ended once (TemplateBuilder::WriteLines,
\* target_writer_).
THEOREM FilesTidyCorrect == Spec => []FilesTidy
BY MadeAlways, LinesTidy, PTL

LEMMA LinesClean == IInv /\ MadeOfCommand /\ AllWritten => NoMarkersLeft
<1>. SUFFICES ASSUME IInv, MadeOfCommand, AllWritten, Succeeded, NEW w \in OutputTargets,
                     NEW i \in DOMAIN Lines(w), NEW k \in DOMAIN Lines(w)[i]
              PROVE  Lines(w)[i][k] \in Clean(FillDictionary(Options))
  BY DEF NoMarkersLeft, Clean
<1>1. PICK dict : dict = FillDictionary(Options)
  OBVIOUS
<1>2. PICK text \in Seq(Token) : Expand(dict, text).ok /\ Lines(w) = Written(Expand(dict, text).output)
  BY <1>1, LinesAre
<1>3. IsDictionary(dict)
  BY <1>1, LinesAre
<1>4. Expand(dict, text).output \in Seq(Clean(dict))
  BY <1>2, <1>3, ExpandsClean
<1>5. Lines(w) \in Seq(Seq(Clean(dict)))
  BY <1>2, <1>4, WrittenTidy
<1>6. Lines(w)[i] \in Seq(Clean(dict))
  BY <1>5
<1>. QED  BY <1>1, <1>6

\* For any templates, matched or not, and any messages: a run that ends well leaves
\* no start of a section in any file, and no end of one that it had something for
\* (TemplateDictionary::Expand, RemoveTags).
THEOREM NoMarkersLeftCorrect == Spec => []NoMarkersLeft
BY MadeAlways, LinesClean, PTL
=============================================================================
