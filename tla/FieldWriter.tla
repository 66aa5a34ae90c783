---------------------------- MODULE FieldWriter ----------------------------
(***************************************************************************)
(* MessageBuilder::WriteField (message_builder.cc) together with the       *)
(* FieldBuilder of every annotation and the writers they write through:    *)
(* all that is written for one field, one call of Write after the other.   *)
(***************************************************************************)
EXTENDS FieldBuilder

CONSTANT Input    \* what a field and its builder may look like

\* `options` are the annotations of the field, `message_options` those of its
\* message that are set; `use_validator` and `make_interface` are flags.
IsInput(i) ==
    /\ i.options \in Seq({i.options[f] : f \in DOMAIN i.options})
    /\ i.field.label \in {"singular", "repeated", "map"}
    /\ i.field.value \in {"message", "enum", "string", "scalar"}
    /\ DOMAIN i.message_options \subseteq {"use_build", "use_status", "use_validator"}
    /\ i.use_validator \in BOOLEAN /\ i.make_interface \in BOOLEAN
    /\ SourceLocation \in DOMAIN i.config
    /\ \A f \in DOMAIN i.options : Get(i.options[f], "output") \in OutputMode
    /\ \A k \in DOMAIN i.config : Get(i.config[k], "output") \in OutputMode

ASSUME InputAssumption == \A i \in Input : IsInput(i)

VARIABLES
    input,
    method,   \* the next method to write
    pending,  \* the calls of Write that the method under way has yet to make
    pc        \* "methods", "end" or "died"

vars == <<input, method, pending, pc, writerVars>>
-----------------------------------------------------------------------------
\* The constructor of MessageBuilder: the flag stands in for the option.
Uses(option) ==
    IF option \in DOMAIN input.message_options THEN input.message_options[option]
    ELSE option = "use_validator" /\ input.use_validator

FieldData(raw, first) ==
    [config |-> input.config, field |-> input.field, raw_field_options |-> raw,
     name_parent |-> "", first_method |-> first,
     use_get_raw_data |-> \E o \in {"use_build", "use_status", "use_validator"} : Uses(o),
     make_interface |-> input.make_interface, use_status |-> Uses("use_status")]

\* What WriteMethod is called for, and the annotations that are passed over.
Methods ==
    LET automatic == AutomaticKeys(input.config, input.field.type) IN
      IF input.options # <<>>
        THEN [f \in DOMAIN input.options |->
                 FieldData(MergeFieldBuilderOptions(input.config, input.options[f]), f = 1)]
        ELSE IF automatic = {} THEN <<FieldData(NoOptions, TRUE)>>
        ELSE <<FieldData(NoOptions, TRUE),
               FieldData(input.config[CHOOSE k \in automatic : TRUE], FALSE)>>

Init ==
    /\ input \in Input
    /\ method = 1
    /\ pending = <<>>
    /\ pc = "methods"
    /\ WriterInit

AtMethod == pc = "methods" /\ pending = <<>> /\ method \in DOMAIN Methods

\* The check in WriteMessage is on the annotation, without its macro.
SkipsField == input.options # <<>> /\ Get(input.options[1], "output") = "SKIP"

Skipped(d) == SkipsField \/ Get(d.raw_field_options, "output") = "SKIP"

SkipMethod ==
    /\ AtMethod /\ Skipped(Methods[method])
    /\ method' = method + 1
    /\ UNCHANGED <<input, pending, pc, writerVars>>

\* A special type ("%") is not one that a field may have.
Die ==
    /\ AtMethod /\ ~ Skipped(Methods[method])
    /\ ~ CanGetTypeInfo(GetOptionsType(Methods[method]))
    /\ pc' = "died"
    /\ UNCHANGED <<input, method, pending, writerVars>>

\* Slip: the loop variable is advanced in the body, too.
WriteMethodTwice ==
    /\ AtMethod /\ ~ Skipped(Methods[method])
    /\ CanGetTypeInfo(GetOptionsType(Methods[method]))
    /\ pending' = WriteField(Methods[method])
    /\ method' = method + 2
    /\ UNCHANGED <<input, pc, writerVars>>

WriteMethod ==
    /\ AtMethod /\ ~ Skipped(Methods[method])
    /\ CanGetTypeInfo(GetOptionsType(Methods[method]))
    /\ pending' = WriteField(Methods[method])
    /\ AddInclude([to \in Where |-> FieldIncludes(Methods[method], to)])
    /\ method' = method + 1
    /\ UNCHANGED <<input, pc, buffer, last_non_empty, requested>>

\* WriteBuilder ends the code for every target with an empty line.
EndBuilder ==
    /\ pc = "methods" /\ pending = <<>> /\ method \notin DOMAIN Methods
    /\ pending' = <<At("HEADER", Empty), At("SOURCE", Empty), At("INTERFACE", Empty)>>
    /\ pc' = "end"
    /\ UNCHANGED <<input, method, writerVars>>

WriteLine ==
    /\ pending # <<>>
    /\ Write(Head(pending)[1], Head(pending)[2])
    /\ pending' = Tail(pending)
    /\ UNCHANGED <<input, method, pc, include_map>>

Next == SkipMethod \/ Die \/ WriteMethod \/ EndBuilder \/ WriteLine

Spec == Init /\ [][Next]_vars
-----------------------------------------------------------------------------
TypeOK ==
    /\ IsInput(input)
    /\ method \in 1..Len(Methods) + 1
    /\ \A i \in DOMAIN pending : pending[i][1] \in Where
    /\ pc \in {"methods", "end", "died"}
    /\ DOMAIN buffer = Where /\ DOMAIN include_map = Where

Written == pc = "end" /\ pending = <<>>

\* The methods that were not passed over, and whether all of them are such.
Active == {m \in DOMAIN Methods : ~ Skipped(Methods[m]) /\ Output(Methods[m]) # "SKIP"}
AllActive(P(_)) == \A m \in Active : P(Methods[m])

Text(to, i) == buffer[to][i].text
OfKind(to, kind) == {i \in DOMAIN buffer[to] : Text(to, i).kind = kind}

\* What tells one method from another.
Overload(signature) ==
    [name |-> signature.name,
     params |-> [i \in DOMAIN signature.params |->
                    [type |-> signature.params[i].type, name |-> signature.params[i].name]]]

MethodLines(to, defined) == {i \in OfKind(to, "method") : Text(to, i).defined = defined}
Number(lines, i) == Cardinality({k \in lines : k <= i})

\* Where no annotation asks for one file alone, what the class declares is, in
\* the same order, what its source defines.
DeclaredAndDefined ==
    Written /\ AllActive(LAMBDA d : Output(d) \notin {"HEADER", "SOURCE"}) =>
        LET declared == MethodLines("HEADER", FALSE)
            defined == MethodLines("SOURCE", TRUE)
        IN /\ Cardinality(declared) = Cardinality(defined)
           /\ \A i \in declared : \A j \in defined :
                 Number(declared, i) = Number(defined, j) =>
                     Overload(Text("HEADER", i)) = Overload(Text("SOURCE", j))

\* A parameter has its default where the method is declared, once: not again
\* where the source defines it, and callers may leave the location out if the
\* configuration has a value for it.
DefaultsDeclaredOnce ==
    \A to \in Where : \A i \in OfKind(to, "method") : \A p \in DOMAIN Text(to, i).params :
        LET param == Text(to, i).params[p] IN
          param.optional <=> /\ to # "SOURCE" /\ param.name = "location"
                             /\ Get(input.config[SourceLocation], "value") # ""

\* The method that a line is part of.
MethodOf(to, i) ==
    Text(to, CHOOSE h \in OfKind(to, "method") :
                 h <= i /\ \A k \in OfKind(to, "method") : k <= i => k <= h)

ParamNames(signature) == {signature.params[p].name : p \in DOMAIN signature.params}

\* Setters mention only their own parameters and, in a loop, its variable: the
\* names the parameters are given and the names in the body are chosen apart.
\* Predicates of setters that take several values are left out, for there the
\* code has them ask for a `value` that is not there.
NamesInScope ==
    \A to \in Where : \A i \in DOMAIN buffer[to] :
        LET line == Text(to, i)
            names == ParamNames(MethodOf(to, i))
        IN /\ line.kind = "change" =>
                /\ line.uses \subseteq names \cup (IF line.loop = "" THEN {} ELSE {"v"})
                /\ line.loop # "" => line.loop \in names
           /\ line.kind = "predicate" /\ names \cap {"values", "key_value_pairs"} = {} =>
                line.uses \subseteq names

\* A predicate guards every way to change the field: setters of every mode, and
\* those that take builders or several values by calling such a setter.
ChangesGuarded ==
    AllActive(LAMBDA d : "predicate" \in DOMAIN d.raw_field_options) =>
        \A to \in Where : \A i \in OfKind(to, "change") : i - 1 \in OfKind(to, "predicate")

\* "Internally all operations are performed calling the fields `insert` method"
\* (config.md), be it by the setter for one element. FOREACH with a conversion
\* is left out: config.md has it insert, too, but there the code calls `add_` of
\* the proto, which map fields do not have.
MapsAreInserted ==
    IsMap(input.field) /\ AllActive(LAMBDA d : ~ (Output(d) = "FOREACH" /\ Converts(d))) =>
        \A to \in Where : \A i \in OfKind(to, "change") :
            Text(to, i).member \in {"insert", "setter"}

\* A setter that takes a builder is written at most once per field, and there is
\* a setter it can pass the message on to. (One that has a fixed value takes
\* none: such annotations are left out.)
BuilderSetterHasSetter ==
    /\ \A i, j \in OfKind("HEADER", "from_builder") : i = j
    /\ Written /\ AllActive(LAMBDA d : Option(d, "value") = "") =>
          \A i \in OfKind("HEADER", "from_builder") : \E j \in OfKind("HEADER", "method") :
              /\ Text("HEADER", j).name = Text("HEADER", i).name
              /\ ~ Text("HEADER", j).params[1].optional

\* What the interface demands the class overrides, template or not, unless it is
\* to be declared by hand (output: SOURCE).
InterfaceImplemented ==
    Written /\ AllActive(LAMBDA d : Output(d) # "SOURCE") =>
        \A i \in OfKind("INTERFACE", "method") : \E j \in OfKind("HEADER", "method") :
            LET implementation == Text("HEADER", j) IN
              /\ Overload(implementation) = Overload(Text("INTERFACE", i))
              /\ implementation.override \/ implementation.defined

\* What an output mode promises (config.md), against the tables of FieldBuilder.
Targets(d) ==
    (IF Output(d) # "SOURCE" THEN {"HEADER"} ELSE {})
    \cup (IF Output(d) \in {"SOURCE", "BOTH"} THEN {"SOURCE"} ELSE {})
    \cup (IF d.make_interface THEN {"INTERFACE"} ELSE {})

\* No annotation is lost: each leaves a method in all its targets or, if it makes
\* no sense, an error that stops the compiler.
NothingDropped ==
    Written => \A to \in Where :
        Cardinality(OfKind(to, "method") \cup OfKind(to, "error"))
            = Cardinality({m \in Active : to \in Targets(Methods[m])})

\* The header includes what the types in it need.
TypesIncluded ==
    \A i \in OfKind("HEADER", "method") :
        "location" \in ParamNames(Text("HEADER", i)) =>
            Get(input.config[SourceLocation], "include") \subseteq include_map["HEADER"]

\* A field without annotations has a setter for the type that the configuration
\* puts in its place automatically, and keeps that for its own type.
AutomaticTypesOffered ==
    Written /\ input.options = <<>> =>
        \A k \in DOMAIN input.config :
            Get(input.config[k], "automatic") /\ AbsoluteCppTypeName[k.name] = input.field.type.name =>
                \A type \in {input.field.type, input.config[k].type} :
                    \E i \in OfKind("HEADER", "method") :
                        Text("HEADER", i).params[1].type = type
=============================================================================
