----------------------------- MODULE ToolOutput -----------------------------
(***************************************************************************)
(* What is in the files of a run that ended well, against what its command *)
(* asked for.                                                              *)
(***************************************************************************)
EXTENDS ToolConfig, Command

ASSUME OutputsAssumption == Outputs \subseteq CommandOutputs

ASSUME LoadAssumption == \A i \in Input : DescriptorsOf(i) = LoadCommand(i)
-----------------------------------------------------------------------------
Succeeded == pc = "ok"
Options == BuilderOptions(kConfig[1], input, loaded.descriptors)
OutputTargets == {WriteTargets[i] : i \in DOMAIN WriteTargets}
Lines(w) == files[w].lines
Says(line, name) == \E i \in DOMAIN line : line[i].name = name

\* Sections are filled or taken out with their markers, or there is an error: no
\* file has a start marker, and an end marker only of what the dictionary has no
\* section for (an end without any start then goes unnoticed).
NoMarkersLeft ==
    Succeeded => \A w \in OutputTargets : \A i \in DOMAIN Lines(w) :
        \A k \in DOMAIN Lines(w)[i] :
            LET token == Lines(w)[i][k] IN
              /\ token.t # "open"
              /\ token.t = "close" => token.name \notin SectionsOf(FillDictionary(Options))

\* Files neither start with an empty line nor have two in a row, and end with
\* exactly one end of a line, whatever the template and the generated code have.
FilesTidy ==
    Succeeded => \A w \in OutputTargets :
        /\ \A i \in DOMAIN Lines(w) : Lines(w)[i] = <<>> => i > 1 /\ Lines(w)[i - 1] # <<>>
        /\ Lines(w) # <<>> => Lines(w)[Len(Lines(w))] = <<>>

\* The builders in the default header are those that --proto asks for, in its
\* order: of the messages that it names, or of those found in the first file,
\* where those of --protofiles come before those of --proto.
BuildersAsAsked ==
    Succeeded /\ input.tpl_in.HEADER = "default" =>
        LET classes == SelectSeq(Lines("HEADER"), LAMBDA l : l # <<>> /\ l[1] = Word("class", ""))
            first == IF input.load.proto_files # <<>> THEN input.load.proto_files[1]
                     ELSE input.load.files[1]
            found == input.load.found[first][input.load.search_mode]
        IN [i \in DOMAIN classes |-> classes[i][2].name] =
              IF input.load.search_mode = "kExplicit" THEN input.load.names
              ELSE [i \in DOMAIN found |-> found[i].name]

\* A source includes its header once, however often a type asks for it, and an
\* interface includes neither itself nor the header that includes it.
NoOwnIncludes ==
    Succeeded =>
        /\ input.tpl_in.SOURCE = "default" =>
              Cardinality({i \in DOMAIN Lines("SOURCE") :
                  /\ Says(Lines("SOURCE")[i], "#include")
                  /\ Says(Lines("SOURCE")[i], Options.header)}) = 1
        /\ input.make_interface /\ input.tpl_in.INTERFACE = "default" =>
              \A i \in DOMAIN Lines("INTERFACE") : Says(Lines("INTERFACE")[i], "#include") =>
                  \A h \in {input.interface, Options.header} : ~ Says(Lines("INTERFACE")[i], h)

\* A class with a Build() has the status that it returns, and the header includes
\* what the configuration, custom or not, says that its type needs.
StatusComplete ==
    Succeeded /\ input.tpl_in.HEADER = "default" =>
        LET lines == Lines("HEADER")
            says(name) == \E i \in DOMAIN lines : Says(lines[i], name)
        IN says("Build()") =>
              /\ says("status_")
              /\ \A file \in Get(GetTypeInfo(kConfig[1], Type("%", "Status")), "include") : says(file)
=============================================================================
