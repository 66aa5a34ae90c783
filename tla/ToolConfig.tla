---------------------------- MODULE ToolConfig ----------------------------
(***************************************************************************)
(* The driver with the configurations that its commands come to.           *)
(***************************************************************************)
EXTENDS Driver, CommandConfig

ASSUME ConfigsAssumption == Configs \subseteq CommandConfigs

\* "Custom can override default config." (proto_builder_config.cc:137) Whatever the
\* built-in text says of its type, an entry of the custom file stands as a whole,
\* under its own key or, of an automatic type, under that of its absolute name.
\* (Two spellings of one automatic type are left out: which one stays is up to
\* the order of a hash map.)
CustomTypesWin ==
    kConfig # <<>> /\ input.custom.given =>
        LET type_map == input.custom.type_map
            config == MergeMaps(Parsed(BuiltInConfig), type_map)
            Normal(key) == NormalKey(key, config[key])
        IN \A key \in DOMAIN type_map :
              (\A other \in DOMAIN config : Normal(other) = Normal(key) => other = key) =>
                  \E k \in DOMAIN kConfig[1] :
                      /\ k.prefix = key.prefix
                      /\ k.name = IF Get(type_map[key], "automatic")
                                    THEN AbsoluteCppTypeName[key.name] ELSE key.name
                      /\ \A o \in DOMAIN type_map[key] : Get(kConfig[1][k], o) = type_map[key][o]
                      /\ DOMAIN kConfig[1][k] \subseteq DOMAIN type_map[key] \cup {"recurse"}

\* "In the meantime you can just add types you need to your custom
\* configuration." (faq.md:73) A custom configuration whose entries are all valid
\* does not end the process.
CustomTypesAccepted ==
    [][ pc = "config" /\ pc' = "failed" /\ input.custom.given /\ input.custom.readable =>
          \E key \in DOMAIN input.custom.type_map :
              ~ VerifyTypeEntry(key, input.custom.type_map[key]) ]_vars
=============================================================================
