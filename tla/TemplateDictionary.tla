------------------------ MODULE TemplateDictionary ------------------------
(***************************************************************************)
(* The template language (oss/template_dictionary.cc). A text is a         *)
(* sequence of tokens: words, spaces, ends of lines, "//", and the tags    *)
(* {{N}}, {{#N}} and {{/N}}. A dictionary is a function from names to an   *)
(* entry: a value, which is a text, or a list of section dictionaries.     *)
(***************************************************************************)
EXTENDS Naturals, Sequences, FiniteSetsExt, SequencesExt

CONSTANT Names    \* the names that tags may have, as the map sorts them

ASSUME NamesAssumption == Names \in Seq(STRING)

\* `of` tells words apart that different messages or includes have.
Token ==
    [t : {"word"}, name : STRING, of : STRING]
    \cup [t : {"space", "newline", "comment", "value", "open", "close"}, name : STRING, of : {""}]

Word(name, of) == [t |-> "word", name |-> name, of |-> of]
Mark(t, name) == [t |-> t, name |-> name, of |-> ""]
Tag(name) == Mark("value", name)
Open(name) == Mark("open", name)
Close(name) == Mark("close", name)
Newline == Mark("newline", "")

\* What has no marker of a section.
Plain == {token \in Token : token.t \notin {"open", "close"}}

\* What Expand returns, and what it leaves in `output` if it returned true.
Expanded(output) == [ok |-> TRUE, output |-> output]
NotExpanded == [ok |-> FALSE, output |-> <<>>]
-----------------------------------------------------------------------------
Absent == [pos |-> 0, len |-> 0]

\* Slip: the whole line is taken even if other text precedes the tag.
FindTagAnywhere(output, tag) ==
    IF ~ Contains(output, tag) THEN Absent
    ELSE LET at == Min({i \in DOMAIN output : output[i] = tag}) IN
         IF at < Len(output) /\ output[at + 1] = Newline
           THEN [pos |-> Max({0} \cup {i \in 1..at - 1 : output[i] = Newline}) + 1,
                 len |-> at + 1 - Max({0} \cup {i \in 1..at - 1 : output[i] = Newline})]
           ELSE [pos |-> at, len |-> 1]

\* Where a tag is first: all of its line, if that has only spaces before it.
FindTag(output, tag) ==
    IF ~ Contains(output, tag) THEN Absent
    ELSE LET at == Min({i \in DOMAIN output : output[i] = tag})
             line == Min({i \in 1..at : \A k \in i..at - 1 : output[k].t = "space"})
         IN IF /\ at < Len(output) /\ output[at + 1] = Newline
               /\ line = 1 \/ output[line - 1] = Newline
              THEN [pos |-> line, len |-> at - line + 2]
              ELSE [pos |-> at, len |-> 1]

Before(output, found) == SubSeq(output, 1, found.pos - 1)
After(output, found) == SubSeq(output, found.pos + found.len, Len(output))

HowOften(output, tag) == Cardinality({i \in DOMAIN output : output[i] = tag})

\* One step after the other, each a function from texts to what Expand returns,
\* until one fails.
InTurn(steps, output) ==
    LET Done[k \in 0..Len(steps)] ==
            IF k = 0 THEN Expanded(output)
            ELSE LET before == Done[k - 1] IN
                   IF before.ok THEN steps[k][before.output] ELSE NotExpanded
    IN Done[Len(steps)]

WithoutFirst(tag, output) ==
    LET found == FindTag(output, tag) IN
      IF found = Absent THEN output ELSE Before(output, found) \o After(output, found)

\* Expand of a value: an empty one may take its line with it.
ExpandValue(name, value, output) ==
    IF value = <<>>
      THEN InTurn([k \in 1..HowOften(output, Tag(name)) |->
                      [o \in Seq(Token) |-> Expanded(WithoutFirst(Tag(name), o))]], output)
      ELSE Expanded(FlattenSeq([i \in DOMAIN output |->
                        IF output[i] = Tag(name) THEN value ELSE <<output[i]>>]))

\* The first pair of markers of a section and what is between them is replaced by
\* what `new` makes of the latter. Markers must match.
ReplaceFirst(name, new, output) ==
    LET start == FindTag(output, Open(name))
        end == FindTag(output, Close(name))
        text == new[SubSeq(output, start.pos + start.len, end.pos - 1)]
    IN IF start = Absent /\ end = Absent THEN Expanded(output)
       ELSE IF start = Absent \/ end = Absent \/ end.pos < start.pos THEN NotExpanded
       ELSE IF ~ text.ok THEN NotExpanded
       ELSE Expanded(Before(output, start) \o text.output \o After(output, end))

\* Every pair. bound: as many rounds as there are starts, as no section's text
\* has markers (RemoveTags); what has some after them stands for an error.
ReplaceSections(name, new, output) ==
    LET rounds == HowOften(output, Open(name))
        replaced == InTurn([k \in 1..rounds |-> [o \in Seq(Token) |-> ReplaceFirst(name, new, o)]],
                           output)
    IN IF Contains(output, Tag(name)) \/ ~ replaced.ok THEN NotExpanded
       ELSE IF \E mark \in {Open(name), Close(name)} : Contains(replaced.output, mark)
         THEN NotExpanded
       ELSE replaced

\* Slip: the tags of sections that the dictionary lacks stay.
RemoveNoTags(output) == Expanded(output)

\* RemoveTags: the sections that the dictionary has nothing for, in the order of
\* their starts. An end without any start goes unnoticed.
RemoveTags(output) ==
    LET nothing == [between \in Seq(Token) |-> Expanded(<<>>)] IN
      InTurn([i \in DOMAIN output |->
                 [o \in Seq(Token) |->
                     IF output[i].t = "open" THEN ReplaceSections(output[i].name, nothing, o)
                     ELSE Expanded(o)]], output)

\* What a section becomes: its text once per dictionary.
ExpandSection(dicts, between) ==
    LET texts == [d \in DOMAIN dicts |-> dicts[d][between]] IN
      IF \E d \in DOMAIN texts : ~ texts[d].ok THEN NotExpanded
      ELSE Expanded(FlattenSeq([d \in DOMAIN texts |-> texts[d].output]))

IsValue(entry) == "value" \in DOMAIN entry

\* One name; `inner` are the Expands of the dictionaries in the sections.
ExpandName(dict, inner, name, output) ==
    IF name \notin DOMAIN dict THEN Expanded(output)
    ELSE IF IsValue(dict[name]) THEN ExpandValue(name, dict[name].value, output)
    ELSE ReplaceSections(name,
             [between \in Seq(Token) |-> ExpandSection(inner[name], between)], output)

\* Expand of a dictionary, in the order of the names.
ExpandWith(dict, inner, output) ==
    LET expanded == InTurn([k \in DOMAIN Names |->
                               [o \in Seq(Token) |-> ExpandName(dict, inner, Names[k], o)]], output)
    IN IF expanded.ok THEN RemoveTags(expanded.output) ELSE NotExpanded

SectionsOf(dict) == {name \in DOMAIN dict : ~ IsValue(dict[name])}

\* What is in a dictionary: values without markers, and sequences of dictionaries
\* for sections. bound: dictionaries nest three deep, as those of TemplateBuilder
\* do; the last have only values.
HoldsTexts(dict) ==
    \A name \in DOMAIN dict :
        IF IsValue(dict[name]) THEN dict[name].value \in Seq(Plain)
        ELSE /\ name \in ToSet(Names)
             /\ Len(dict[name].sections) \in Nat
             /\ DOMAIN dict[name].sections = 1..Len(dict[name].sections)

Nested(dict) == UNION {ToSet(dict[name].sections) : name \in SectionsOf(dict)}

IsDictionary(dict) ==
    /\ HoldsTexts(dict)
    /\ \A builder \in Nested(dict) :
          /\ HoldsTexts(builder)
          /\ \A option \in Nested(builder) : HoldsTexts(option) /\ SectionsOf(option) = {}

ExpandValues(dict, output) == ExpandWith(dict, <<>>, output)

ExpandNested(dict, output) ==
    ExpandWith(dict,
        [name \in SectionsOf(dict) |-> [d \in DOMAIN dict[name].sections |->
            [o \in Seq(Token) |-> ExpandValues(dict[name].sections[d], o)]]], output)

Expand(dict, output) ==
    ExpandWith(dict,
        [name \in SectionsOf(dict) |-> [d \in DOMAIN dict[name].sections |->
            [o \in Seq(Token) |-> ExpandNested(dict[name].sections[d], o)]]], output)
=============================================================================
