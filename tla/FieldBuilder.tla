--------------------------- MODULE FieldBuilder ---------------------------
(***************************************************************************)
(* FieldBuilder (field_builder.cc): the code that one annotation of one    *)
(* field comes to. The text of a line is a record of what it says, and an  *)
(* expression is the set of the variables it mentions; conversions and     *)
(* predicates are the set of their placeholders. Types are compared as     *)
(* types: const &, relative names and @type@ inside of a type are left out.*)
(***************************************************************************)
EXTENDS ProtoBuilderConfig, BuilderWriter

ASSUME EmptyAssumption == Empty.kind = "empty"

\* The calls of Write and the code they write for.
At(to, text) == <<to, text>>
Lines(to, texts) == [i \in DOMAIN texts |-> At(to, texts[i])]

IsMap(field) == field.label = "map"
IsRepeated(field) == field.label # "singular"
IsMessage(field) == IsMap(field) \/ field.value = "message"

SourceLocation == Type("%", "SourceLocation")
-----------------------------------------------------------------------------
(***************************************************************************)
(* FieldData `d`: the configuration, the field and the options as the      *)
(* annotation gives them. Options(d) are those with the type's merged in.  *)
(***************************************************************************)
GetOptionsType(d) ==
    IF "type" \in DOMAIN d.raw_field_options THEN d.raw_field_options.type ELSE d.field.type

\* MergeFieldBuilderOptions of field_builder.cc: the annotation overrides its
\* type's options, all but the type.
Options(d) ==
    LET type_info == GetTypeInfo(d.config, GetOptionsType(d))
        merged == MergeFrom(type_info, d.raw_field_options)
    IN IF Get(type_info, "type") # NoType
         THEN [merged EXCEPT !.type = type_info.type] ELSE merged

Option(d, o) == Get(Options(d), o)
Output(d) == Option(d, "output")
Converts(d) == "conversion" \in DOMAIN Options(d)

UseTemplate(d) == Output(d) \in {"TEMPLATE", "FOREACH", "FOREACH_ADD", "INITIALIZER_LIST"}
UseForeach(d) == Output(d) \in {"FOREACH", "FOREACH_ADD", "INITIALIZER_LIST"}
UseForeachAdd(d) == Output(d) \in {"FOREACH_ADD", "INITIALIZER_LIST"}
UseInitializerList(d) == Output(d) = "INITIALIZER_LIST"

UseHeader(d) == Output(d) \notin {"SKIP", "SOURCE"}

\* Slip: the table has the templates return true.
UseSourceTemplates(d) == Output(d) \notin {"SKIP", "HEADER"}

UseSource(d) == Output(d) \in {"SOURCE", "BOTH"}

\* Slip: every setter of the field gets an overload for builders.
UseSetFromBuilderAlways(d) == d.use_get_raw_data /\ d.field.value = "message"

UseSetFromBuilder(d) == d.first_method /\ d.use_get_raw_data /\ d.field.value = "message"

\* Slip: only what the initializer lists need.
UseMapInsertListsOnly(d) == IsMap(d.field) /\ UseInitializerList(d)

UseMapInsert(d) == IsMap(d.field) /\ (UseInitializerList(d) \/ ~ UseForeachAdd(d))
-----------------------------------------------------------------------------
(***************************************************************************)
(* Names, parameters and expressions.                                      *)
(***************************************************************************)
Verb(field) ==
    [singular |-> "Set", repeated |-> "Add", map |-> "Insert"][field.label]

\* CamelCaseFieldName: name_parent and the name, or the name of the field ("").
DefaultName(d) == [verb |-> Verb(d.field), parent |-> d.name_parent, name |-> ""]
MethodName(d) == [DefaultName(d) EXCEPT !.name = Option(d, "name")]

ParameterType(d) ==
    IF UseInitializerList(d) THEN Type("", "std::initializer_list")
    ELSE IF UseTemplate(d) THEN Type("", IF UseForeach(d) THEN "Container" ELSE "Value")
    ELSE IF Option(d, "decorated_type") # NoType THEN Option(d, "decorated_type")
    ELSE IF Option(d, "type") # NoType THEN Option(d, "type")
    ELSE d.field.type

KeyValuePair(d) == IF UseForeach(d) THEN "key_value_pairs" ELSE "key_value_pair"

Param(type, name, optional) == [type |-> type, name |-> name, optional |-> optional]

\* Slip: the location has its default wherever the parameters are written.
MethodParamDefaultEverywhere(d, to) ==
    (IF Option(d, "value") # "" THEN <<>>
     ELSE <<Param(ParameterType(d), IF IsMap(d.field) THEN KeyValuePair(d)
                      ELSE IF UseForeach(d) THEN "values" ELSE "value", FALSE)>>)
    \o (IF ~ Option(d, "add_source_location") THEN <<>>
        ELSE <<Param(SourceLocation, "location",
                   Get(GetTypeInfo(d.config, SourceLocation), "value") # "")>>)

MethodParam(d, to) ==
    (IF Option(d, "value") # "" THEN <<>>
     ELSE <<Param(ParameterType(d), IF IsMap(d.field) THEN KeyValuePair(d)
                      ELSE IF UseForeach(d) THEN "values" ELSE "value", FALSE)>>)
    \o (IF ~ Option(d, "add_source_location") THEN <<>>
        ELSE <<Param(SourceLocation, "location",
                   to = "HEADER" /\ Get(GetTypeInfo(d.config, SourceLocation), "value") # "")>>)

\* ApplyData, for a conversion or predicate `o` that is to be given `value`.
ApplyData(d, o, value) ==
    IF o \notin DOMAIN Options(d) THEN value
    ELSE (IF "@value@" \in Options(d)[o] THEN value ELSE {})
         \cup (IF /\ "@source_location@" \in Options(d)[o]
                  /\ Get(d.raw_field_options, "add_source_location")
               THEN {"location"} ELSE {})

\* Slip: the loop variable is forgotten.
SetValueNoLoop(d) ==
    ApplyData(d, "conversion",
        IF Option(d, "value") # "" THEN {}
        ELSE IF UseMapInsert(d) THEN {KeyValuePair(d)} ELSE {"value"})

SetValue(d) ==
    ApplyData(d, "conversion",
        IF Option(d, "value") # "" THEN {}
        ELSE IF UseMapInsert(d) /\ (~ UseForeach(d) \/ ~ Converts(d)) THEN {KeyValuePair(d)}
        ELSE {IF UseForeach(d) THEN "v" ELSE "value"})

Predicate(d) ==
    ApplyData(d, "predicate",
        IF Option(d, "value") # "" THEN {}
        ELSE {IF UseMapInsert(d) THEN KeyValuePair(d) ELSE "value"})
-----------------------------------------------------------------------------
(***************************************************************************)
(* The parts of a setter.                                                  *)
(***************************************************************************)
\* The first line of a method: `defined` if its body follows.
Signature(d, to, params, virtual, override, defined) ==
    [kind |-> "method", name |-> MethodName(d), params |-> params, virtual |-> virtual,
     override |-> override, defined |-> defined]

TemplateLine(d) ==
    IF ~ UseTemplate(d) \/ (UseInitializerList(d) /\ IsMap(d.field)) THEN <<>>
    ELSE <<[kind |-> "template",
            type |-> IF UseInitializerList(d) THEN Type("", "Item") ELSE ParameterType(d)]>>

SetFromBuilder(d) ==
    IF ~ UseSetFromBuilder(d) THEN <<>>
    ELSE <<Empty,
           [kind |-> "from_builder", name |-> MethodName(d),
            params |-> (IF IsMap(d.field) THEN <<"key">> ELSE <<>>) \o <<"builder">>,
            uses |-> IF IsMap(d.field) THEN {"key", "value"} ELSE {"value"}],
           Empty>>

\* Slip: only the annotation's own option is asked for.
DeclarationOwnOverride(d, to) ==
    LET interface == to = "INTERFACE" /\ d.make_interface
        override == Get(d.raw_field_options, "override")
    IN Lines(to, TemplateLine(d)
                 \o <<Signature(d, to, MethodParam(d, "HEADER"), interface, override, FALSE)>>)
       \o (IF d.make_interface THEN <<>> ELSE Lines("HEADER", SetFromBuilder(d)))

Declaration(d, to) ==
    LET interface == to = "INTERFACE" /\ d.make_interface
        override == (to # "INTERFACE" /\ d.make_interface) \/ Get(d.raw_field_options, "override")
    IN Lines(to, TemplateLine(d)
                 \o <<Signature(d, to, MethodParam(d, "HEADER"), interface, override, FALSE)>>)
       \o (IF d.make_interface THEN <<>> ELSE Lines("HEADER", SetFromBuilder(d)))

\* The statement of a setter: the method it calls, of the proto or ("setter") the
\* builder's for one element, on the elements of `loop` if it is in a loop.
Change(member, loop, uses) == [kind |-> "change", member |-> member, loop |-> loop, uses |-> uses]

Location(d) == IF Option(d, "add_source_location") THEN {"location"} ELSE {}

Body(d) ==
    LET add == IF IsMessage(d.field) THEN "add_message" ELSE "add"
        set == IF IsMessage(d.field) THEN "set_message" ELSE "set"
        container == IF IsMap(d.field) THEN "key_value_pairs" ELSE "values"
    IN IF UseMapInsert(d) /\ ~ (UseForeach(d) /\ Converts(d)) THEN Change("insert", "", SetValue(d))
       ELSE IF ~ IsRepeated(d.field) THEN Change(set, "", SetValue(d))
       ELSE IF ~ (UseForeach(d) \/ IsMap(d.field)) THEN Change(add, "", SetValue(d))
       ELSE IF UseForeachAdd(d) THEN Change("setter", container, SetValue(d) \cup Location(d))
       ELSE Change(add, container, SetValue(d))

\* Slip: the annotation's predicate is only written without status.
PredicateLinesNoStatus(d) ==
    IF "predicate" \notin DOMAIN d.raw_field_options \/ d.use_status THEN <<>>
    ELSE <<[kind |-> "predicate", uses |-> Predicate(d), updates |-> d.use_status]>>

\* Without a status of its own the builder keeps no rejection.
PredicateLines(d) ==
    IF "predicate" \notin DOMAIN d.raw_field_options THEN <<>>
    ELSE <<[kind |-> "predicate", uses |-> Predicate(d), updates |-> d.use_status]>>

Implementation(d, to) ==
    LET override == to = "HEADER" /\ Get(d.raw_field_options, "override") IN
      Lines(to, <<Empty>> \o TemplateLine(d)
                \o <<Signature(d, to, MethodParam(d, to), FALSE, override, TRUE)>>
                \o PredicateLines(d) \o <<Body(d)>>
                \o <<[kind |-> "end"], Empty>>)

\* Slip: an error is only written into the header.
ErrorTargetsHeader(d) == IF UseHeader(d) THEN <<"HEADER">> ELSE <<>>

ErrorTargets(d) ==
    (IF UseHeader(d) THEN <<"HEADER">> ELSE <<>>)
    \o (IF UseSource(d) THEN <<"SOURCE">> ELSE <<>>)
    \o (IF d.make_interface THEN <<"INTERFACE">> ELSE <<>>)

\* WriteError: each of its lines goes to all targets.
ToAll(targets, text) == [t \in DOMAIN targets |-> At(targets[t], text)]
Error(d) ==
    LET targets == ErrorTargets(d) IN
      ToAll(targets, Empty) \o ToAll(targets, [kind |-> "error"]) \o ToAll(targets, Empty)

IsValid(d) ==
    /\ UseForeach(d) => IsRepeated(d.field)
    /\ UseTemplate(d) => "value" \notin DOMAIN Options(d)

\* WriteField: the calls of Write it makes.
WriteField(d) ==
    IF Output(d) = "SKIP" THEN <<>>
    ELSE IF ~ IsValid(d) THEN Error(d)
    ELSE (IF ~ UseHeader(d) THEN <<>>
          ELSE IF UseTemplate(d) \/ UseForeach(d) THEN Implementation(d, "HEADER")
          ELSE Declaration(d, "HEADER"))
         \o (IF UseSource(d) THEN Implementation(d, "SOURCE") ELSE <<>>)
         \o (IF d.make_interface THEN Declaration(d, "INTERFACE") ELSE <<>>)

\* Slip: the includes of the source location are forgotten.
FieldIncludesNoLocation(d, to) ==
    IF Output(d) = "SKIP" \/ ~ IsValid(d) THEN {}
    ELSE Option(d, IF to = "HEADER" THEN "include" ELSE "source_include")

\* AddIncludes; the interface has none of its own.
FieldIncludes(d, to) ==
    IF Output(d) = "SKIP" \/ ~ IsValid(d) \/ to = "INTERFACE" THEN {}
    ELSE LET o == IF to = "HEADER" THEN "include" ELSE "source_include" IN
         Option(d, o)
         \cup (IF Option(d, "add_source_location")
                 THEN Get(GetTypeInfo(d.config, SourceLocation), o) ELSE {})
         \cup (IF /\ to = "HEADER"
                  /\ IsMap(d.field) \/ d.field.value # "string" \/ GetOptionsType(d) = d.field.type
                 THEN d.field.includes ELSE {})
=============================================================================
