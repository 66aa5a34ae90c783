------------------------------ MODULE MCDriver ------------------------------
(***************************************************************************)
(* One command and its variations in each of its parts: what is loaded,    *)
(* the configuration, the messages, the templates. The default templates   *)
(* are cut down to one line for each of the things that they do.           *)
(***************************************************************************)
EXTENDS ToolText

MCNames == <<
    "%SourceLocation", "%SourceLocation%param", "%SourceLocation%value",
    "%SourceLocation+param", "%SourceLocation+param=value", "%Status", "%Status%param",
    "%Status+param", "ALL_NAMESPACES", "BASE_CLASSES", "BUILDER", "CLASS_NAME",
    "GENERATED_HEADER_CODE", "GENERATED_INTERFACE_CODE", "GENERATED_SOURCE_CODE",
    "HEADER_FILE", "HEADER_GUARD", "HEADER_INCLUDES", "INCLUDE", "INCLUDES", "INTERFACE_GUARD",
    "INTERFACE_INCLUDES", "INTERFACE_NAME", "NAMESPACE", "NAMESPACES", "NAMESPACES_END",
    "NOT_BUILD", "NOT_CONVERSION", "NOT_STATUS", "NOT_VALIDATOR", "PROTO_TYPE",
    "PROTO_TYPE_SHORT", "ROOT_DATA", "SOURCE_INCLUDES", "USE_BUILD", "USE_CONVERSION", "USE_STATUS", "USE_VALIDATOR",
    "VALIDATE_DATA" >>

MCBuiltInTypeNames == {Type("%", "SourceLocation"), Type("%", "Status")}
MCCustomNames == {"Custom"}
MCSystemHeaders == {"utility"}
MCAbsoluteCppTypeName == "Time" :> "::Time" @@ "::Time" :> "::Time"
-----------------------------------------------------------------------------
\* The configuration.
StatusKey == Type("%", "Status")
TimeKey == Type("=", "Time")

StatusType == [type |-> Type("", "absl::Status"), include |-> {"status.h"},
               dependency |-> {"//absl/status"}]
TimeType == [type |-> Type("", "absl::Time"), automatic |-> TRUE]

MCBuiltInConfig == <<
    <<StatusKey, StatusType>>,
    <<Type("%", "SourceLocation"), [type |-> Type("", "Location"), value |-> "current()"]>>,
    <<TimeKey, TimeType>> >>

Custom(type_map) == [given |-> TRUE, readable |-> TRUE, type_map |-> type_map]
NoCustom == [given |-> FALSE, readable |-> FALSE, type_map |-> NoOptions]

MyStatus == StatusKey :> [type |-> Type("", "my::Status"), include |-> {"my_status.h"}]

Customs == {
    NoCustom,
    [NoCustom EXCEPT !.given = TRUE],
    Custom(MyStatus),
    Custom(TimeKey :> [type |-> Type("", "my::Time"), automatic |-> TRUE, recurse |-> TRUE]),
    Custom(Type("=", "::Time") :> TimeType),
    Custom(Type("", "my.Type") :> [include |-> {"my_type.h"}]),
    Custom(Type("$", "Custom") :> [macro |-> Type("$", "Custom")]) }

NoDeps == [given |-> FALSE, readable |-> FALSE, labels |-> {}]
Deps == {NoDeps, [NoDeps EXCEPT !.given = TRUE]}
          \cup {[given |-> TRUE, readable |-> TRUE, labels |-> l] : l \in {{}, {"//absl/status"}}}
-----------------------------------------------------------------------------
\* Templates, as bodies.
T(token) == [token |-> token]
Space == Mark("space", "")
Line(tokens) == [i \in 1..Len(tokens) + 1 |-> IF i > Len(tokens) THEN T(Newline) ELSE T(tokens[i])]
W(name) == Word(name, "")

\* A section whose markers are on lines of their own.
Block(name, body) ==
    <<T(Space), [section |-> name, body |-> <<T(Newline)>> \o body \o <<T(Space)>>], T(Newline)>>

HeaderBody ==
    Line(<<W("#ifndef"), Tag("HEADER_GUARD")>>)
    \o Line(<<>>)
    \o Block("INCLUDES", Line(<<Tag("INCLUDE")>>))
    \o Line(<<>>)
    \o Block("ALL_NAMESPACES", Line(<<W("namespace"), Tag("NAMESPACE"), W("{")>>))
    \o Line(<<>>)
    \o Block("BUILDER",
          Line(<<W("class"), Tag("CLASS_NAME"), Tag("BASE_CLASSES")>>)
          \o Block("NOT_STATUS", Line(<<Tag("CLASS_NAME"), W("()")>>))
          \o Block("USE_STATUS", Line(<<Tag("CLASS_NAME"), Tag("%SourceLocation+param=value")>>))
          \o Block("USE_BUILD", Line(<<>>) \o Line(<<Tag("%Status"), W("Build()")>>))
          \o Block("USE_CONVERSION", Line(<<Tag("PROTO_TYPE")>>) \o Line(<<Space, Tag("VALIDATE_DATA")>>))
          \o Line(<<>>)
          \o Line(<<Tag("GENERATED_HEADER_CODE")>>)
          \o Block("USE_STATUS", Line(<<Tag("%Status"), W("status_")>>))
          \o Line(<<W("};")>>))
    \o Line(<<>>) \o Line(<<>>)

SourceBody ==
    Line(<<W("#include"), Tag("HEADER_FILE")>>)
    \o Line(<<>>)
    \o Block("SOURCE_INCLUDES", Line(<<Tag("INCLUDE")>>))
    \o Line(<<>>)
    \o Block("BUILDER", Line(<<Tag("GENERATED_SOURCE_CODE")>>))

InterfaceBody ==
    Block("INTERFACE_INCLUDES", Line(<<Tag("INCLUDE")>>))
    \o Block("BUILDER",
          Line(<<W("class"), Tag("INTERFACE_NAME")>>)
          \o Line(<<Space, Tag("GENERATED_INTERFACE_CODE")>>))

MCDefaultTemplates ==
    [HEADER |-> Source(HeaderBody), SOURCE |-> Source(SourceBody),
     INTERFACE |-> Source(InterfaceBody)]

\* Sections in lines, around lines and twice; a marker after text; tags nobody
\* has a value for; a tag of the file in a section; and nothing at all.
MCBodies ==
    "inline" :>
        (<<T(W("names:")), [section |-> "NAMESPACES", body |-> <<T(Space), T(Tag("NAMESPACE"))>>]>>
         \o Line(<<W(";"), Tag("UNKNOWN")>>)
         \o Line(<<Space, Tag("BASE_CLASSES")>>)
         \o Block("BUILDER",
               Line(<<Tag("CLASS_NAME"), Tag("HEADER_FILE"), Tag("BASE_CLASSES")>>)
               \o <<T(W("=")), T(Tag("VALIDATE_DATA")), T(Newline)>>
               \o <<T(W("x")), [section |-> "USE_VALIDATOR", body |-> <<T(Newline), T(Tag("ROOT_DATA"))>>],
                   T(Newline)>>)
         \o <<[section |-> "NAMESPACES_END", body |-> <<T(W("}")), T(Tag("NAMESPACE")), T(Newline)>>]>>
         \o Block("NO_SUCH", Line(<<W("gone")>>))
         \o Block("BUILDER", Line(<<Tag("PROTO_TYPE"), Tag("VALIDATE_DATA")>>)))
    @@ "empty" :> <<>>

\* Comments hide the markers and placeholders of builders.
Hidden(text) ==
    FlattenSeq([i \in DOMAIN text |->
        IF text[i] \in CommentTags THEN <<Mark("comment", ""), Space, text[i]>> ELSE <<text[i]>>])

MCTemplateFiles ==
    [f \in DOMAIN MCBodies |-> Source(MCBodies[f])]
    @@ "hidden" :> Hidden(Source(SourceBody))
    @@ "guard" :> <<W("#define"), Space, Tag("HEADER_GUARD"), W("rest"), Newline, W("x")>>
    @@ "not closed" :> <<Open("BUILDER"), Newline, W("x")>>
    @@ "not closed, unknown" :> <<W("x"), Open("NO_SUCH"), Newline>>
    @@ "closed twice" :> <<Open("NO_SUCH"), Close("NO_SUCH"), Close("NO_SUCH")>>
    @@ "stray end" :> <<W("x"), Close("NO_SUCH"), Newline>>
    @@ "end first" :> <<Close("INCLUDES"), Open("INCLUDES"), Newline>>
    @@ "both" :> <<Tag("INCLUDES"), Open("INCLUDES"), Close("INCLUDES")>>
    @@ "crossed" :> <<Open("BUILDER"), Open("USE_STATUS"), Close("BUILDER"), Close("USE_STATUS")>>
    @@ "source" :> Source(SourceBody)

Defaults == [w \in Where |-> "default"]
-----------------------------------------------------------------------------
\* Messages.
Code(name, n) == FlattenSeq([i \in 1..n |-> <<Word(name, "code"), Newline>>])

Message(name, package) ==
    [name |-> name, package |-> package, options |-> NoOptions, type_map |-> NoOptions,
     code |-> [recurses \in BOOLEAN |-> [w \in Where |-> Code(name, IF recurses THEN 2 ELSE 1)]],
     includes |-> [HEADER |-> {Include("a.pb.h", TRUE), Include("utility", FALSE)},
                   SOURCE |-> {Include("utility", FALSE)}],
     builder_include |-> {}, base_class |-> ""]

A == Message("A", <<"p", "q">>)

Messages == {
    A,
    Message("A", <<"">>),
    [A EXCEPT !.options = [use_status |-> TRUE]],
    [A EXCEPT !.options = [use_build |-> TRUE, use_conversion |-> FALSE], !.base_class = "Base"],
    [A EXCEPT !.options = [use_validator |-> FALSE], !.code[TRUE]["HEADER"] = <<>>],
    [A EXCEPT !.includes = [HEADER |-> {Include("a.h", FALSE), Include("utility", FALSE)},
                            SOURCE |-> {Include("a.h", TRUE), Include("util.h", FALSE)}]],
    [A EXCEPT !.builder_include = {"a.pb.h"}, !.type_map = Type("", "T") :> [include |-> {"t.h"}]],
    [A EXCEPT !.type_map = MyStatus] }

\* What the files define.
Loads(disk) ==
    [search_mode |-> "kExplicit", names |-> <<"A">>, files |-> <<"a.proto">>, proto_files |-> <<>>,
     disk |-> disk, defines |-> [f \in DOMAIN disk |-> "A" :> A @@ "B" :> Message("B", <<"p", "q">>)
                                                        @@ "C" :> Message("C", <<"r">>)],
     found |-> [f \in DOMAIN disk |-> [m \in {"kAllTopLevel", "kTransitiveAll"} |->
                   IF f = "b.proto" THEN <<Message("B", <<"p", "q">>)>>
                   ELSE IF m = "kAllTopLevel" THEN <<A>> ELSE <<A, Message("B", <<"p", "q">>)>>]]]

OnlyFile == Loads("a.proto" :> "ok")
TwoFiles == [Loads("a.proto" :> "ok" @@ "b.proto" :> "ok") EXCEPT !.proto_files = <<"b.proto">>]

OtherLoads ==
    {Loads("a.proto" :> state) : state \in {"missing", "unreadable", "broken"}}
    \cup {[OnlyFile EXCEPT !.names = n] : n \in {<<"B", "A">>, <<"X">>, <<"A", "C">>}}
    \cup {[OnlyFile EXCEPT !.search_mode = "kTransitiveAll"],
          [OnlyFile EXCEPT !.search_mode = "kAllTopLevel", !.files = <<>>],
          [TwoFiles EXCEPT !.search_mode = "kAllTopLevel"]}
-----------------------------------------------------------------------------
\* Commands.
Command ==
    [command_ok |-> TRUE, conv_deps |-> NoDeps, custom |-> NoCustom, load |-> OnlyFile,
     header |-> "a.h", tpl_value_header |-> "", interface |-> "", tpl_in |-> Defaults,
     max_field_depth |-> 0, use_validator |-> FALSE, validator_header |-> {},
     make_interface |-> FALSE]

Interface == [Command EXCEPT !.make_interface = TRUE, !.interface = "i.h"]

OfMessage(command, m) == [command EXCEPT !.load.defines["a.proto"]["A"] = m]
Validator(command) == [command EXCEPT !.use_validator = TRUE, !.validator_header = {"v.h"}]

MCCommands ==
    {[Command EXCEPT !.command_ok = FALSE],
     [Command EXCEPT !.load.search_mode = "kTransitiveAll", !.max_field_depth = 2],
     [Command EXCEPT !.tpl_value_header = "other.h"],
     [Interface EXCEPT !.interface = ""],
     [Interface EXCEPT !.tpl_in.INTERFACE = "empty"]}
    \cup {[Command EXCEPT !.conv_deps = d, !.custom = c] : d \in Deps, c \in Customs}
    \cup {[Validator(Command) EXCEPT !.custom = c] : c \in Customs}
    \cup {[Command EXCEPT !.load = l] : l \in OtherLoads}
    \cup {OfMessage(c, m) : c \in {Command, Validator(Command), Interface}, m \in Messages}
    \cup {[Command EXCEPT !.tpl_in.HEADER = f] : f \in DOMAIN MCTemplateFiles}
    \cup {[Command EXCEPT !.tpl_in.SOURCE = f] : f \in {"source", "hidden", "no such file"}}
    \cup {[Command EXCEPT !.tpl_in.HEADER = "source"], [Command EXCEPT !.tpl_in.INTERFACE = "no such file"],
          [OfMessage(Validator(Command), [A EXCEPT !.base_class = "Base"]) EXCEPT !.tpl_in.HEADER = "inline"],
          [Command EXCEPT !.load.names = <<"B", "A">>, !.tpl_in.HEADER = "inline"]}
-----------------------------------------------------------------------------
MCInput == MCCommands
MCConfigs == CommandConfigs
MCOutputs == CommandOutputs
=============================================================================
