------------------------------ MODULE ToolText ------------------------------
(***************************************************************************)
(* The files of a run whose templates are made of sections, against what   *)
(* these come to when they are read from left to right.                    *)
(***************************************************************************)
EXTENDS ToolOutput

\* A body is a sequence of tokens, in [token |-> _], and of sections, in
\* [section |-> name, body |-> _].
CONSTANT Bodies    \* the files whose templates are made so -> their bodies

IsSection(part) == "section" \in DOMAIN part

RECURSIVE Source(_)
Source(body) ==
    FlattenSeq([i \in DOMAIN body |->
        IF IsSection(body[i])
          THEN <<Open(body[i].section)>> \o Source(body[i].body) \o <<Close(body[i].section)>>
          ELSE <<body[i].token>>])

\* The values of a dictionary are also seen in the sections in it.
InScope(dict, outer) == dict @@ [n \in {m \in DOMAIN outer : IsValue(outer[m])} |-> outer[n]]

RECURSIVE Rendered(_, _)
Rendered(dict, body) ==
    LET Part(part) ==
          IF IsSection(part)
            THEN IF part.section \notin DOMAIN dict THEN <<>>
                 ELSE LET dicts == dict[part.section].sections IN
                   FlattenSeq([d \in DOMAIN dicts |-> Rendered(InScope(dicts[d], dict), part.body)])
          ELSE IF part.token.t = "value" /\ part.token.name \in DOMAIN dict
            THEN dict[part.token.name].value
          ELSE <<part.token>>
    IN FlattenSeq([i \in DOMAIN body |-> Part(body[i])])

NotBlank(lines) == SelectSeq(lines, LAMBDA l : \E i \in DOMAIN l : l[i].t # "space")
-----------------------------------------------------------------------------
\* Expanding names in the order of a map, section by section and with lines that
\* vanish, comes to what the template says read from left to right, but for
\* blank lines.
ExpandsAsReference ==
    Succeeded => \A w \in OutputTargets :
        input.tpl_in[w] \in DOMAIN Bodies =>
            NotBlank(Lines(w)) =
                NotBlank(LinesOf(Rendered(FillDictionary(Options), Bodies[input.tpl_in[w]])))
=============================================================================
