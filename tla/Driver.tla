------------------------------- MODULE Driver -------------------------------
(***************************************************************************)
(* The tool (proto_builder.cc): main and WriteProtoBuilderFiles, with the  *)
(* files they write through BufferWriter::WriteFile and SetContents. Any   *)
(* of the system calls may fail, and the process may be killed and the     *)
(* command be run again. What the other components make of a command is a  *)
(* parameter (module Command says what it is): reading the same file twice *)
(* gives the same, and which reads fail is part of the command.            *)
(***************************************************************************)
EXTENDS Naturals, Sequences

CONSTANTS
    Input,                     \* the commands and the files they find
    MaxRuns,                   \* bound: how often a command is run
    DependenciesCovered(_, _), \* whether --conversion_deps has all that one needs
    DescriptorsOf(_),          \* what DescriptorUtil::Load finds
    TemplatesReadable(_),
    Configs,                   \* [input, config]: the configurations that each command
                               \* may load; none if a check fails
    Outputs                    \* [input, config, result]: what a TemplateBuilder makes
                               \* of them

Where == {"HEADER", "SOURCE", "INTERFACE"}

\* All files but the interface are always written.
TargetsOf(i) ==
    IF i.make_interface THEN <<"HEADER", "SOURCE", "INTERFACE">> ELSE <<"HEADER", "SOURCE">>

ASSUME RunsAssumption == MaxRuns \in Nat \ {0}

ASSUME InputAssumption ==
    \A i \in Input :
        /\ i.make_interface \in BOOLEAN
        /\ DescriptorsOf(i).ok \in BOOLEAN

\* A TemplateBuilder that succeeds has the lines of every file.
ASSUME BuilderAssumption ==
    \A built \in Outputs : built.result.status = "ok" =>
        \A k \in DOMAIN TargetsOf(built.input) :
            TargetsOf(built.input)[k] \in DOMAIN built.result.lines

VARIABLES
    input,
    pc,
    kConfig,   \* the static configuration: empty, or of the one that was loaded
    loaded,    \* descriptor_util
    result,    \* of TemplateBuilder
    target,    \* the number of the target that is written
    fd,        \* whether its file is open
    files,     \* what is on disk: of which run, its lines, whether closed
    run        \* the number of the run

vars == <<input, pc, kConfig, loaded, result, target, fd, files, run>>
program == <<kConfig, loaded, result>>
output == <<target, fd, files>>

NotLoaded == [ok |-> FALSE, descriptors |-> <<>>]
NotBuilt == [status |-> "none", lines |-> <<>>]

Phases == {"start", "conv_deps", "load", "config", "templates", "build", "write"}
Ended == {"ok", "failed", "killed"}

Init ==
    /\ input \in Input
    /\ pc = "start"
    /\ kConfig = <<>>
    /\ loaded = NotLoaded
    /\ result = NotBuilt
    /\ target = 1
    /\ fd = FALSE
    /\ files = [w \in Where |-> [run |-> 0, lines |-> <<>>, closed |-> TRUE]]
    /\ run = 1

\* Errors, failed checks and dead results all end the process with an error.
GoTo(next) == pc' = next /\ UNCHANGED <<input, run>>
-----------------------------------------------------------------------------
(***************************************************************************)
(* Up to the lines of all files nothing is written.                        *)
(***************************************************************************)
\* main: the flags that must be given, and the working directory.
Start ==
    /\ pc = "start"
    /\ GoTo(IF input.command_ok THEN "conv_deps" ELSE "failed")
    /\ UNCHANGED <<program, output>>

CheckDependencies ==
    /\ pc = "conv_deps" /\ input.conv_deps.given /\ input.conv_deps.readable
    /\ \E c \in Configs :
          /\ c.input = input
          /\ kConfig' = <<c.config>>
          /\ GoTo(IF DependenciesCovered(c.config, input) THEN "load" ELSE "failed")
    /\ UNCHANGED <<loaded, result, output>>

NoDependencies ==
    /\ pc = "conv_deps" /\ ~ input.conv_deps.given
    /\ GoTo("load")
    /\ UNCHANGED <<program, output>>

Load ==
    /\ pc = "load"
    /\ loaded' = DescriptorsOf(input)
    /\ GoTo(IF loaded'.ok THEN "config" ELSE "failed")
    /\ UNCHANGED <<kConfig, result, output>>

\* The configuration is static: it is there if dependencies were checked.
LoadConfig ==
    /\ pc = "config"
    /\ IF kConfig # <<>> THEN UNCHANGED kConfig
       ELSE \E c \in Configs : c.input = input /\ kConfig' = <<c.config>>
    /\ GoTo("templates")
    /\ UNCHANGED <<loaded, result, output>>

\* A configuration that fails a check ends the process wherever it is loaded.
DieOfConfig ==
    /\ \/ pc = "conv_deps" /\ input.conv_deps.given
       \/ pc = "config" /\ kConfig = <<>>
    /\ (\A c \in Configs : c.input # input) \/ (pc = "conv_deps" /\ ~ input.conv_deps.readable)
    /\ GoTo("failed")
    /\ UNCHANGED <<program, output>>

\* All three, whether there is to be an interface or not.
ReadTemplates ==
    /\ pc = "templates"
    /\ GoTo(IF TemplatesReadable(input) THEN "build" ELSE "failed")
    /\ UNCHANGED <<program, output>>

Build ==
    /\ pc = "build"
    /\ \E built \in Outputs :
          built.input = input /\ built.config = kConfig[1] /\ result' = built.result
    /\ GoTo(IF result'.status = "ok" THEN "write" ELSE "failed")
    /\ UNCHANGED <<kConfig, loaded, output>>
-----------------------------------------------------------------------------
(***************************************************************************)
(* Writing, one file after the other.                                      *)
(***************************************************************************)
WriteTargets == TargetsOf(input)
File == WriteTargets[target]
Contents == result.lines[File]

\* main checks that there is a header and a source, nothing that there is an
\* interface.
HasPath == File = "INTERFACE" => input.interface # ""

\* Slip: the files are opened first.
WritingOpensFirst == pc \in {"build", "write"} /\ target \in DOMAIN WriteTargets

Writing == pc = "write" /\ target \in DOMAIN WriteTargets

\* O_TRUNC: what was there is gone.
OpenFile ==
    /\ Writing /\ ~ fd /\ HasPath
    /\ files' = [files EXCEPT ![File] = [run |-> run, lines |-> <<>>, closed |-> FALSE]]
    /\ fd' = TRUE
    /\ UNCHANGED <<input, pc, program, target, run>>

OpenWithoutPath ==
    /\ Writing /\ ~ fd /\ ~ HasPath
    /\ GoTo("failed")
    /\ UNCHANGED <<program, output>>

\* Slip: every write starts at the beginning of the contents.
WriteChunkAgain ==
    /\ Writing /\ fd /\ files[File].lines # Contents
    /\ files' = [files EXCEPT ![File].lines = SubSeq(Contents, 1, 1)]
    /\ UNCHANGED <<input, pc, program, target, fd, run>>

\* write() takes some or all of what is left. bound: all, or the first line and
\* then the others. The loop that EAGAIN keeps the process in is a stuttering step.
WriteChunk ==
    /\ Writing /\ fd /\ files[File].lines # Contents
    /\ \E n \in {1, Len(Contents)} \ {Len(files[File].lines)} :
          files' = [files EXCEPT ![File].lines = SubSeq(Contents, 1, n)]
    /\ UNCHANGED <<input, pc, program, target, fd, run>>

\* Slip: the loop ends with the first part.
CloseFileEarly ==
    /\ Writing /\ fd /\ files[File].lines # <<>>
    /\ files' = [files EXCEPT ![File].closed = TRUE]
    /\ fd' = FALSE
    /\ target' = target + 1
    /\ UNCHANGED <<input, pc, program, run>>

CloseFile ==
    /\ Writing /\ fd /\ files[File].lines = Contents
    /\ files' = [files EXCEPT ![File].closed = TRUE]
    /\ fd' = FALSE
    /\ target' = target + 1
    /\ UNCHANGED <<input, pc, program, run>>

\* Slip: the file stays open.
SystemCallFailsOpen ==
    /\ Writing
    /\ GoTo("failed")
    /\ UNCHANGED <<program, output>>

\* open, write or close reports an error; the first of them ends the run.
SystemCallFails ==
    /\ Writing
    /\ fd' = FALSE
    /\ GoTo("failed")
    /\ UNCHANGED <<program, target, files>>

Finish ==
    /\ pc = "write" /\ target \notin DOMAIN WriteTargets
    /\ GoTo("ok")
    /\ UNCHANGED <<program, output>>
-----------------------------------------------------------------------------
Step ==
    \/ Start \/ CheckDependencies \/ NoDependencies \/ Load \/ LoadConfig \/ DieOfConfig
    \/ ReadTemplates \/ Build \/ OpenFile \/ OpenWithoutPath \/ WriteChunk
    \/ CloseFile \/ Finish

\* By whoever runs the build.
Kill ==
    /\ pc \in Phases
    /\ fd' = FALSE
    /\ GoTo("killed")
    /\ UNCHANGED <<program, target, files>>

RunAgain ==
    /\ pc \in Ended /\ run < MaxRuns
    /\ run' = run + 1
    /\ pc' = "start"
    /\ kConfig' = <<>>
    /\ loaded' = NotLoaded
    /\ result' = NotBuilt
    /\ target' = 1
    /\ fd' = FALSE
    /\ UNCHANGED <<input, files>>

Next == Step \/ SystemCallFails \/ Kill \/ RunAgain

\* A process that can take a step does so, and writes do not report EAGAIN for
\* ever; system calls need not fail.
Spec == Init /\ [][Next]_vars /\ WF_vars(Step)
-----------------------------------------------------------------------------
TypeOK ==
    /\ input \in Input
    /\ pc \in Phases \cup Ended
    /\ run \in 1..MaxRuns
    /\ target \in 1..Len(WriteTargets) + 1
    /\ fd \in BOOLEAN
    /\ DOMAIN files = Where
    /\ \A w \in Where :
          /\ DOMAIN files[w] = {"run", "lines", "closed"}
          /\ files[w].run \in 0..run /\ files[w].closed \in BOOLEAN
    /\ fd => Writing

\* The state of a file as a build sees it.
Output(w) ==
    IF files[w].run # run THEN "stale"
    ELSE IF files[w].closed /\ files[w].lines = result.lines[w] THEN "complete"
    ELSE "partial"

Outcome == IF pc \in Phases THEN "running" ELSE IF pc = "ok" THEN "ok" ELSE "failed"

Promise == INSTANCE OutputPromise WITH
    wanted <- WriteTargets,
    outputs <- [w \in Where |-> Output(w)],
    outcome <- Outcome

\* A run ends well only with all its files complete, written one after the other;
\* a run that fails or is killed leaves some of them stale or torn, and the next
\* run starts from those.
KeepsPromise == Promise!Spec

\* No file is touched before the lines for all of them are there.
NothingWrittenEarly ==
    \A w \in Where :
        files[w].run = run => result.status = "ok" /\ w \in DOMAIN result.lines

\* Every run comes to an end, whatever it is given.
RunEnds == pc = "start" ~> pc \in Ended
=============================================================================
