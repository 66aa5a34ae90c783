------------------------------ MODULE Command ------------------------------
(***************************************************************************)
(* What a command comes to (proto_builder.cc): the flags, and the files    *)
(* that they name, turned into the arguments of the configuration, of      *)
(* DescriptorUtil and of TemplateBuilder.                                  *)
(***************************************************************************)
EXTENDS TemplateBuilder, DescriptorLoader, CommandConfig

CONSTANTS
    DefaultTemplates,  \* of each target
    TemplateFiles      \* the texts of the files that can be read for templates

LoadCommand(i) == LoadDescriptors(i.load)

CoversDependencies(config, i) == CheckConversionDependencies(config, i.conv_deps.labels)

\* All three, whether there is to be an interface or not.
ReadableTemplates == {"default"} \cup DOMAIN TemplateFiles
HasTemplates(i) == \A w \in DOMAIN i.tpl_in : i.tpl_in[w] \in ReadableTemplates

Template(i, w) ==
    IF i.tpl_in[w] = "default" THEN DefaultTemplates[w] ELSE TemplateFiles[i.tpl_in[w]]

MaxFieldDepth(i) ==
    IF i.max_field_depth # 0 THEN i.max_field_depth
    ELSE IF i.load.search_mode = "kTransitiveAll" THEN 1
    ELSE 100 \* bound: stands for the largest size_t

BuilderOptions(config, i, descriptors) ==
    [config |-> config, descriptors |-> descriptors,
     header |-> IF i.tpl_value_header # "" THEN i.tpl_value_header ELSE i.header,
     interface_header |-> i.interface,
     tpl |-> [w \in DOMAIN i.tpl_in |-> Template(i, w)],
     max_field_depth |-> MaxFieldDepth(i),
     use_validator |-> i.use_validator \/ i.validator_header # {},
     validator_header |-> i.validator_header,
     make_interface |-> i.make_interface]

OptionsOf(c) == BuilderOptions(c.config, c.input, LoadCommand(c.input).descriptors)

\* What a TemplateBuilder makes of them. No command whose templates cannot be
\* read comes as far.
CommandOutputs ==
    {[input |-> c.input, config |-> c.config, result |-> WriteBuilder(OptionsOf(c))] :
        c \in {c \in CommandConfigs : HasTemplates(c.input)}}

\* Every target has a template, which is a text.
ASSUME TemplatesAssumption ==
    /\ \A i \in Commands : DOMAIN i.tpl_in = {"HEADER", "SOURCE", "INTERFACE"}
    /\ \A w \in {"HEADER", "SOURCE", "INTERFACE"} : DefaultTemplates[w] \in Seq(Token)
    /\ \A f \in DOMAIN TemplateFiles : TemplateFiles[f] \in Seq(Token)

\* What is filled in are texts: neither names nor generated code have markers.
ASSUME TextsAssumption ==
    \A c \in CommandConfigs :
        HasTemplates(c.input) /\ CanBuild(OptionsOf(c)) =>
            IsDictionary(FillDictionary(OptionsOf(c)))
=============================================================================
