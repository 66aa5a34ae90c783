--------------------------- MODULE BuilderWriter ---------------------------
(***************************************************************************)
(* The writers a MessageBuilder stacks (builder_writer.cc): one that drops *)
(* empty lines, over one that indents, over a buffer with a list of lines  *)
(* and a set of includes per target. A line is what it says, Empty if      *)
(* nothing, and its indentation.                                           *)
(***************************************************************************)
EXTENDS Naturals, Sequences, FiniteSets

CONSTANT Empty    \* the text of an empty line

\* Where code is written to.
Where == {"HEADER", "SOURCE", "INTERFACE"}

VARIABLES
    buffer,          \* buffer_ of the BufferWriter
    last_non_empty,  \* last_non_empty_ of the NoDoubleEmptyLineWriter
    include_map,     \* include_map_ of the CodeInfoCollector
    requested        \* history: the lines that Write was called with

writerVars == <<buffer, last_non_empty, include_map, requested>>

\* A target that is not in the map yet counts as one that ends in an empty line.
WriterInit ==
    /\ buffer = [to \in Where |-> <<>>]
    /\ last_non_empty = [to \in Where |-> FALSE]
    /\ include_map = [to \in Where |-> {}]
    /\ requested = [to \in Where |-> <<>>]
-----------------------------------------------------------------------------
\* IndentWriter, with the head_indent that MessageBuilder gives it.
Indent(to, text) ==
    [indent |-> IF to = "SOURCE" \/ text = Empty THEN "" ELSE "  ", text |-> text]

\* Slip: the flag is only updated when a line is passed on.
WriteRemembersWritten(to, text) ==
    /\ requested' = [requested EXCEPT ![to] = Append(@, text)]
    /\ IF text # Empty \/ last_non_empty[to]
         THEN /\ buffer' = [buffer EXCEPT ![to] = Append(@, Indent(to, text))]
              /\ last_non_empty' = [last_non_empty EXCEPT ![to] = TRUE]
         ELSE UNCHANGED <<buffer, last_non_empty>>

\* Slip: a line must be non-empty and follow one that is.
WriteConjunction(to, text) ==
    /\ requested' = [requested EXCEPT ![to] = Append(@, text)]
    /\ buffer' = IF text # Empty /\ last_non_empty[to]
                   THEN [buffer EXCEPT ![to] = Append(@, Indent(to, text))]
                   ELSE buffer
    /\ last_non_empty' = [last_non_empty EXCEPT ![to] = text # Empty]

Write(to, text) ==
    /\ requested' = [requested EXCEPT ![to] = Append(@, text)]
    /\ buffer' = IF text # Empty \/ last_non_empty[to]
                   THEN [buffer EXCEPT ![to] = Append(@, Indent(to, text))]
                   ELSE buffer
    /\ last_non_empty' = [last_non_empty EXCEPT ![to] = text # Empty]

\* What MessageBuilder and its FieldBuilders add for every target.
AddInclude(added) == include_map' = [to \in Where |-> include_map[to] \cup added[to]]
-----------------------------------------------------------------------------
\* No target starts with an empty line or has two in a row, in whatever order
\* lines for the targets are written; and the flag is right about the last line.
NoDoubleEmptyLines ==
    \A to \in Where :
        /\ \A i \in DOMAIN buffer[to] :
              buffer[to][i].text = Empty => i > 1 /\ buffer[to][i - 1].text # Empty
        /\ last_non_empty[to] <=>
              buffer[to] # <<>> /\ buffer[to][Len(buffer[to])].text # Empty

\* How many of the first j texts are not empty.
Rank(texts, j) == Cardinality({k \in 1..j : texts[k] # Empty})

\* The nth text that is not empty is the same.
SameLines(kept, asked) ==
    /\ Rank(kept, Len(kept)) = Rank(asked, Len(asked))
    /\ \A i \in DOMAIN kept : \A j \in DOMAIN asked :
          kept[i] # Empty /\ asked[j] # Empty /\ Rank(kept, i) = Rank(asked, j) =>
              kept[i] = asked[j]

Texts(to) == [i \in DOMAIN buffer[to] |-> buffer[to][i].text]

\* Nothing but empty lines is lost and the rest keeps its order, each target's
\* apart from the others'.
LinesKept == \A to \in Where : SameLines(Texts(to), requested[to])
=============================================================================
