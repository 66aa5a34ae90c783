-------------------------- MODULE DescriptorLoader --------------------------
(***************************************************************************)
(* DescriptorUtil::Load (descriptor_util.cc) and the database it loads     *)
(* into: which messages the flags ask for. What the search of a file finds *)
(* (DescriptorSearch) is part of the file.                                 *)
(***************************************************************************)
EXTENDS Sequences, SequencesExt

\* `l` are the flags and the disk:
\*   search_mode  "kExplicit" or a mode of DescriptorSearch
\*   names        in explicit mode, the messages that --proto names
\*   files        the files that --proto names
\*   proto_files  those of --protofiles
\*   disk         file -> "missing", "directory", "unreadable", "broken" or "ok"
\*   defines      file -> what it and its imports define: name -> descriptor
\*   found        file -> mode -> the descriptors that the search returns

Loaded(descriptors) == [ok |-> TRUE, descriptors |-> descriptors]
LoadFailed == [ok |-> FALSE, descriptors |-> <<>>]

\* Of a file that cannot be opened, closing it is the error that is seen.
Readable(l, file) == l.disk[file] \in {"broken", "ok"}

Import(l, file) == l.disk[file] = "ok"

\* The files are read in their order, but all are asked for before any is.
LoadedSuccessfully(l, paths) ==
    /\ \A i \in DOMAIN paths : Readable(l, paths[i])
    /\ \A i \in DOMAIN paths : Import(l, paths[i])

\* FindMessageTypeByName: the pool holds what any of the files defines.
FindMessageTypeByName(l, paths, name) ==
    {l.defines[paths[i]][name] : i \in {j \in DOMAIN paths : name \in DOMAIN l.defines[paths[j]]}}

\* Slip: the files of --proto come before those of --protofiles.
LoadDescriptorsReversed(l) ==
    LET paths == l.files \o l.proto_files
        found == [i \in DOMAIN l.names |-> FindMessageTypeByName(l, paths, l.names[i])]
    IN IF ~ LoadedSuccessfully(l, paths) THEN LoadFailed
       ELSE IF l.search_mode # "kExplicit"
         THEN IF paths = <<>> THEN LoadFailed ELSE Loaded(l.found[paths[1]][l.search_mode])
       ELSE IF \E i \in DOMAIN found : found[i] = {} THEN LoadFailed
       ELSE Loaded([i \in DOMAIN found |-> CHOOSE d \in found[i] : TRUE])

LoadDescriptors(l) ==
    LET paths == l.proto_files \o l.files
        found == [i \in DOMAIN l.names |-> FindMessageTypeByName(l, paths, l.names[i])]
    IN IF ~ LoadedSuccessfully(l, paths) THEN LoadFailed
       ELSE IF l.search_mode # "kExplicit"
         THEN IF paths = <<>> THEN LoadFailed ELSE Loaded(l.found[paths[1]][l.search_mode])
       ELSE IF \E i \in DOMAIN found : found[i] = {} THEN LoadFailed
       ELSE Loaded([i \in DOMAIN found |-> CHOOSE d \in found[i] : TRUE])
=============================================================================
