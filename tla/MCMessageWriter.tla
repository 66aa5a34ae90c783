-------------------------- MODULE MCMessageWriter --------------------------
(***************************************************************************)
(* Message types A, B and C that refer to each other in every way two      *)
(* fields in A and in B and one in C allow, with the annotations that      *)
(* matter on the fields of A.                                              *)
(***************************************************************************)
EXTENDS MessageWriter, SequencesExt

CONSTANTS A, B, C, none

MCMessage == {A, B, C}

Option(output, macro_output, recurse, type_recurse) ==
    [output |-> output, macro_output |-> macro_output,
     recurse |-> recurse, type_recurse |-> type_recurse]

Plain(m) == [message |-> m, options |-> <<>>, automatic |-> FALSE]

Write == Option("BOTH", "unset", "unset", "unset")
Skip == Option("SKIP", "unset", "unset", "unset")
MacroSkip == Option("unset", "SKIP", "unset", "unset")
WriteOver == Option("BOTH", "SKIP", "true", "false")
Flat == Option("unset", "unset", "false", "true")
FlatType == Option("unset", "unset", "unset", "false")

Annotated ==
    {[message |-> B, options |-> o, automatic |-> FALSE] :
        o \in {<<Skip>>, <<Write, Skip>>, <<MacroSkip>>, <<WriteOver, Flat>>, <<FlatType>>}}

MCSchema ==
    {[root |-> A, fields |-> A :> a @@ B :> b @@ C :> c, max_field_depth |-> d] :
        a \in BoundedSeq({Plain(m) : m \in {A, B, C}} \cup Annotated
                            \cup {[Plain(B) EXCEPT !.automatic = TRUE]}, 2),
        b \in BoundedSeq({Plain(m) : m \in {A, C, none}}, 2),
        c \in BoundedSeq({Plain(m) : m \in {A, B, none}}, 1),
        d \in {1, 2}}
=============================================================================
