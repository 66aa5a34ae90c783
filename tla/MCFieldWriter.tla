--------------------------- MODULE MCFieldWriter ---------------------------
(***************************************************************************)
(* One field of every kind, with one annotation of every output mode or    *)
(* two that differ, under a configuration with an automatic type, a macro, *)
(* a type and the source location, loaded as the tool loads it.            *)
(***************************************************************************)
EXTENDS FieldWriter, TLC

MCEmpty == [kind |-> "empty"]

MCBuiltInTypeNames == {SourceLocation, Type("@", "Text")}
MCCustomNames == {"Macro"}
MCAbsoluteCppTypeName == "google.Duration" :> "::google::Duration" @@
                         "::google::Duration" :> "::google::Duration"

Duration == Type("", "::google::Duration")

BuiltIn == <<
    <<SourceLocation, [type |-> Type("", "SourceLocation"), value |-> "current()",
                       include |-> {"source_location.h"}]>>,
    <<Type("@", "Text"), [type |-> Type("", "const char*"), conversion |-> {"@value@"},
                          include |-> {"parse.h"}]>>,
    <<Type("=", "google.Duration"),
      [type |-> Type("", "absl::Duration"), conversion |-> {"@value@"}, automatic |-> TRUE,
       include |-> {"time.h"}]>> >>

Macro == Type("$", "Macro")

Config ==
    Update(CHOOSE c \in VerifyProtoBuilderConfig(BuiltIn, NoOptions) : TRUE,
           Macro :> [output |-> "SKIP", predicate |-> {"@value@"}])

Field(label, value) ==
    [label |-> label, value |-> value, type |-> IF value = "message" THEN Duration ELSE Type("", value),
     includes |-> IF label = "map" \/ value \in {"message", "enum"} THEN {"type.pb.h"}
                  ELSE IF value = "string" THEN {"<string>"} ELSE {}]

Fields == {Field(l, v) : l \in {"singular", "repeated", "map"}, v \in {"message", "string"}}
            \cup {Field("singular", "scalar"), Field("repeated", "enum")}

\* An annotation with any of these set or not.
Optional(o, v) == {NoOptions, o :> v}
Annotations ==
    {(o :> mode) @@ c @@ p @@ v @@ l :
        o \in {"output"}, mode \in OutputMode,
        c \in Optional("conversion", {"@value@", "@source_location@"}),
        p \in Optional("predicate", {"@value@"}),
        v \in Optional("value", "0"),
        l \in Optional("add_source_location", TRUE)}

Pairs ==
    {<<a, b>> : a \in {[macro |-> Macro], [output |-> "BOTH", macro |-> Macro],
                       [type |-> Type("@", "Text")], [output |-> "HEADER"],
                       [output |-> "TEMPLATE", override |-> TRUE], [output |-> "SKIP"]},
                b \in {[name |-> "Other"], [output |-> "SOURCE", name |-> "Other"],
                       [type |-> SourceLocation], [output |-> "FOREACH_ADD"],
                       [name |-> "Other", predicate |-> {"@value@"}]}}

Builders ==
    {[use |-> [use_validator |-> FALSE], interface |-> FALSE],
     [use |-> [use_status |-> TRUE], interface |-> FALSE],
     [use |-> NoOptions, interface |-> TRUE]}

MCInput ==
    {[field |-> f, options |-> o, config |-> Config, message_options |-> b.use,
      use_validator |-> TRUE, make_interface |-> b.interface] :
        f \in Fields, o \in {<<a>> : a \in Annotations} \cup Pairs \cup {<<>>}, b \in Builders}
=============================================================================
