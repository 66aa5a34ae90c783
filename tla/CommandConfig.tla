--------------------------- MODULE CommandConfig ---------------------------
(***************************************************************************)
(* The configurations that a command may come to (proto_builder_config.cc):*)
(* of the built-in text and, if there is one, the file that it names.      *)
(***************************************************************************)
EXTENDS ProtoBuilderConfig

CONSTANTS
    Commands,
    BuiltInConfig      \* GetProtoTextConfig: its entries, in order

GetGlobalProtoBuilderConfig(i) ==
    IF ~ i.custom.given THEN VerifyProtoBuilderConfig(BuiltInConfig, NoOptions)
    ELSE IF ~ i.custom.readable THEN {}
    ELSE VerifyProtoBuilderConfig(BuiltInConfig, i.custom.type_map)

\* The configurations that each command may load; none if a check fails.
CommandConfigs ==
    UNION {{[input |-> i, config |-> config] : config \in GetGlobalProtoBuilderConfig(i)} :
              i \in Commands}
=============================================================================
