------------------------ MODULE ProtoBuilderConfig ------------------------
(***************************************************************************)
(* The type configuration (proto_builder_config.cc): how the built-in      *)
(* text, a custom file and the options of a message come to one map from   *)
(* types to field options, and what is looked up in it. FieldBuilderOptions*)
(* are a function from the options that are set to their values.           *)
(***************************************************************************)
EXTENDS Naturals, Sequences, FiniteSets

CONSTANTS
    BuiltInTypeNames,    \* the keys of GetBuiltInTypeNames
    CustomNames,         \* what may follow the "$" of a custom key
    AbsoluteCppTypeName  \* a spelling of a type -> its absolute C++ name

\* A name that is absolute is its own absolute name.
ASSUME AbsoluteAssumption ==
    \A name \in DOMAIN AbsoluteCppTypeName :
        AbsoluteCppTypeName[AbsoluteCppTypeName[name]] = AbsoluteCppTypeName[name]

\* A type or key: its first character, if it is one that the configuration
\* gives a meaning to, and the rest.
Type(prefix, name) == [prefix |-> prefix, name |-> name]
NoType == Type("", "")

OutputMode == {"SKIP", "HEADER", "SOURCE", "BOTH", "TEMPLATE", "FOREACH", "FOREACH_ADD",
               "INITIALIZER_LIST"}

OptionDefaults ==
    [output |-> "BOTH", name |-> "", type |-> NoType, decorated_type |-> NoType,
     value |-> "", include |-> {}, source_include |-> {}, dependency |-> {},
     recurse |-> TRUE, add_source_location |-> FALSE, automatic |-> FALSE,
     override |-> FALSE, macro |-> NoType]

\* An accessor: the value that is set, or the default.
Get(options, o) == IF o \in DOMAIN options THEN options[o] ELSE OptionDefaults[o]

\* result(base); result.MergeFrom(from): repeated options are appended.
MergeFrom(base, from) ==
    [o \in DOMAIN base \cup DOMAIN from |->
        IF o \in {"include", "source_include", "dependency"}
          THEN Get(base, o) \cup Get(from, o)
          ELSE IF o \in DOMAIN from THEN from[o] ELSE base[o]]
-----------------------------------------------------------------------------
(***************************************************************************)
(* Loading.                                                                *)
(***************************************************************************)
\* Whether an entry passes; the process dies of one that does not.
VerifyTypeEntry(key, options) ==
    /\ Get(options, "type").prefix # "@"
    /\ "name" \notin DOMAIN options
    /\ Get(options, "decorated_type") # NoType => Get(options, "type") # NoType
    /\ Get(options, "value") \notin {"@type@", "@value@"}
    /\ Get(options, "include") \cap {"", "\n"} = {}
    /\ Get(options, "automatic") => key.prefix = "="
    /\ key.prefix \in {"@", "%"} => key \in BuiltInTypeNames
    /\ key.prefix = "$" => key.name \in CustomNames
    /\ "macro" \notin DOMAIN options
    /\ key # NoType

\* Parsing: of entries with the same key the last one counts.
Parsed(text) ==
    [k \in {text[i][1] : i \in DOMAIN text} |->
        text[CHOOSE i \in DOMAIN text :
                text[i][1] = k /\ \A j \in DOMAIN text : text[j][1] = k => j <= i][2]]

\* Slip: the entries of the custom file come first.
MergeMapsReversed(config, custom) ==
    [k \in DOMAIN config \cup DOMAIN custom |->
        IF k \in DOMAIN config THEN config[k] ELSE custom[k]]

\* config.MergeFrom(custom_config): entries are replaced as a whole.
MergeMaps(config, custom) ==
    [k \in DOMAIN config \cup DOMAIN custom |->
        IF k \in DOMAIN custom THEN custom[k] ELSE config[k]]

\* Slip: the key keeps its spelling.
NormalKeySpelled(key, options) == key

\* The key and the options under which an entry is put back.
NormalKey(key, options) ==
    IF Get(options, "automatic") THEN Type("=", AbsoluteCppTypeName[key.name]) ELSE key

NormalOptions(options) ==
    IF Get(options, "automatic") THEN MergeFrom([recurse |-> FALSE], options) ELSE options

\* The entries are put back in the order of a hash map, the first of a key stays.
Normalised(config) ==
    LET Normal(k) == NormalKey(k, config[k])
        keys == {Normal(k) : k \in DOMAIN config}
        first == {f \in [keys -> DOMAIN config] : \A n \in keys : Normal(f[n]) = n}
    IN {[n \in keys |-> NormalOptions(config[f[n]])] : f \in first}

\* VerifyProtoBuilderConfig: the configurations it may return, none if it dies.
\* `text` are the entries of the built-in text, `custom` those of the custom file.
VerifyProtoBuilderConfig(text, custom) ==
    LET config == MergeMaps(Parsed(text), custom) IN
      IF \E k \in DOMAIN config : ~ VerifyTypeEntry(k, config[k])
        THEN {}
        ELSE {c \in Normalised(config) : Cardinality(DOMAIN c) = Len(text)}

\* CheckConversionDependencies, on labels that NormalizeLabel has completed.
CheckConversionDependencies(config, conv_deps) ==
    \A k \in DOMAIN config : Get(config[k], "dependency") \subseteq conv_deps

\* ProtoBuilderConfigManager::Update, with the types of a message.
CanUpdate(type_map) ==
    \A k \in DOMAIN type_map :
        /\ ~ (k.prefix \in {"@", "%"} /\ k \in BuiltInTypeNames)
        /\ VerifyTypeEntry(k, type_map[k])

Update(config, type_map) == MergeMaps(config, type_map)
-----------------------------------------------------------------------------
(***************************************************************************)
(* Looking up. An absent entry comes without options.                      *)
(***************************************************************************)
NoOptions == [o \in {} |-> TRUE]

\* MergeFieldBuilderOptions: a macro is the base of an annotation.
MergeFieldBuilderOptions(config, options) ==
    IF Get(options, "macro") \in DOMAIN config
      THEN MergeFrom(config[Get(options, "macro")], options) ELSE options

\* The process dies of a special type where a type is wanted.
CanGetTypeInfo(type) == type.prefix # "%"

GetTypeInfo(config, type) == IF type \in DOMAIN config THEN config[type] ELSE NoOptions

\* GetAutomaticType, in the map that MakeAutomaticTypes makes.
AutomaticKeys(config, type) ==
    {k \in DOMAIN config : Get(config[k], "automatic") /\ k.name = type.name}

\* MakeExpandedTypes: the names of the variables that templates may use.
ExpandedTypes(config) ==
    LET special == {k \in DOMAIN config : k.prefix \in {"%", "$"}}
        valued == {k \in special : Get(config[k], "value") # ""}
    IN special \X {"", "%param", "+param"} \cup valued \X {"%value", "+param=value"}
=============================================================================
