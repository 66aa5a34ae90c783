-------------------------- MODULE FieldWriterProofs --------------------------
(***************************************************************************)
(* Proofs about what a FieldBuilder writes, for any fields, annotations    *)
(* and configurations, and for lines written in any order.                 *)
(***************************************************************************)
EXTENDS FieldWriter, FieldBuilderProofs

\* The flag is about the last line of a sequence of lines of some kind.
IInv ==
    /\ \E S : buffer \in [Where -> Seq(S)]
    /\ last_non_empty \in [Where -> BOOLEAN]
    /\ NoDoubleEmptyLines

LEMMA InitHolds == Init => IInv
<1>. SUFFICES ASSUME Init PROVE IInv
  OBVIOUS
<1>1. buffer \in [Where -> Seq({})] /\ \A to \in Where : buffer[to] = <<>>
  BY DEF Init, WriterInit
<1>2. last_non_empty \in [Where -> BOOLEAN] /\ \A to \in Where : last_non_empty[to] = FALSE
  BY DEF Init, WriterInit
<1>3. NoDoubleEmptyLines
  BY <1>1, <1>2 DEF NoDoubleEmptyLines
<1>. QED  BY <1>1, <1>2, <1>3 DEF IInv

\* The lines of a target with one more.
LEMMA AppendLine ==
    ASSUME NEW S, NEW lines \in Seq(S), NEW line \in S
    PROVE  /\ Append(lines, line) \in Seq(S)
           /\ Append(lines, line) # <<>>
           /\ Len(Append(lines, line)) = Len(lines) + 1 /\ Len(lines) \in Nat
           /\ DOMAIN lines = 1..Len(lines)
           /\ DOMAIN Append(lines, line) = 1..Len(lines) + 1
           /\ \A i \in 1..Len(lines) : Append(lines, line)[i] = lines[i]
           /\ Append(lines, line)[Len(lines) + 1] = line
           /\ lines = <<>> <=> Len(lines) = 0
OBVIOUS

LEMMA WriteHolds ==
    ASSUME IInv, NEW to, NEW text, Write(to, text)
    PROVE  IInv'
<1>1. PICK S : buffer \in [Where -> Seq(S)]
  BY DEF IInv
<1>. DEFINE line == Indent(to, text)
            T == S \cup {line}
<1>2. line.text = text
  BY DEF Indent
<1>. HIDE DEF line
<1>3. buffer \in [Where -> Seq(T)]
  BY <1>1
<1>4. buffer' \in [Where -> Seq(T)]
  BY <1>3, AppendLine DEF Write, line
<1>5. last_non_empty' \in [Where -> BOOLEAN]
  BY DEF Write, IInv
<1>6. ASSUME NEW w \in Where
      PROVE  /\ \A i \in DOMAIN buffer'[w] :
                    buffer'[w][i].text = Empty => i > 1 /\ buffer'[w][i - 1].text # Empty
             /\ last_non_empty'[w] <=>
                    buffer'[w] # <<>> /\ buffer'[w][Len(buffer'[w])].text # Empty
  <2>. DEFINE lines == buffer[w]
  <2>1. /\ lines \in Seq(T)
        /\ \A i \in DOMAIN lines : lines[i].text = Empty => i > 1 /\ lines[i - 1].text # Empty
        /\ last_non_empty[w] <=> lines # <<>> /\ lines[Len(lines)].text # Empty
    BY <1>3 DEF IInv, NoDoubleEmptyLines
  <2>2. CASE w # to
    <3>1. buffer'[w] = lines /\ last_non_empty'[w] = last_non_empty[w]
      BY <1>3, <2>2 DEF Write, IInv
    <3>. QED  BY <2>1, <3>1
  <2>3. CASE w = to /\ text = Empty /\ ~ last_non_empty[to]
    <3>1. buffer'[w] = lines /\ last_non_empty'[w] = FALSE
      BY <2>3 DEF Write, IInv
    <3>. QED  BY <2>1, <2>3, <3>1
  <2>4. CASE w = to /\ (text # Empty \/ last_non_empty[to])
    <3>1. buffer'[w] = Append(lines, line) /\ last_non_empty'[w] = (text # Empty)
      BY <1>3, <2>4 DEF Write, IInv, line
    <3>2. lines \in Seq(T) /\ line \in T
      BY <2>1
    <3>. HIDE DEF lines, T
    <3>3. ASSUME NEW i \in DOMAIN Append(lines, line), Append(lines, line)[i].text = Empty
          PROVE  i > 1 /\ Append(lines, line)[i - 1].text # Empty
      <4>1. CASE i \in 1..Len(lines)
        <5>1. lines[i].text = Empty /\ i \in DOMAIN lines
          BY <3>2, <3>3, <4>1, AppendLine
        <5>2. i > 1 /\ lines[i - 1].text # Empty
          BY <2>1, <5>1
        <5>3. i - 1 \in 1..Len(lines)
          BY <3>2, <4>1, <5>2, AppendLine
        <5>. QED  BY <3>2, <5>2, <5>3, AppendLine
      <4>2. CASE i = Len(lines) + 1
        <5>1. lines # <<>> /\ lines[Len(lines)].text # Empty
          BY <1>2, <2>1, <2>4, <3>2, <3>3, <4>2, AppendLine
        <5>2. Len(lines) \in 1..Len(lines) /\ i - 1 = Len(lines) /\ i > 1
          BY <3>2, <4>2, <5>1, AppendLine
        <5>. QED  BY <3>2, <5>1, <5>2, AppendLine
      <4>3. Len(lines) \in Nat /\ i \in 1..(Len(lines) + 1)
        BY <3>2, <3>3, AppendLine
      <4>4. i \in 1..Len(lines) \/ i = Len(lines) + 1
        BY <4>3
      <4>. QED  BY <4>1, <4>2, <4>4
    <3>4. (text # Empty) <=> Append(lines, line)[Len(Append(lines, line))].text # Empty
      BY <1>2, <3>2, AppendLine
    <3>5. Append(lines, line) # <<>>
      BY <3>2, AppendLine
    <3>6. last_non_empty'[w] <=> Append(lines, line)[Len(Append(lines, line))].text # Empty
      BY <3>1, <3>4
    <3>. QED  BY <3>1, <3>3, <3>5, <3>6
  <2>. QED  BY <2>2, <2>3, <2>4
<1>. QED  BY <1>4, <1>5, <1>6 DEF IInv, NoDoubleEmptyLines

LEMMA StepHolds == IInv /\ [Next]_vars => IInv'
<1>. SUFFICES ASSUME IInv, [Next]_vars PROVE IInv'
  OBVIOUS
<1>1. CASE SkipMethod \/ Die \/ WriteMethod \/ EndBuilder
  <2>1. UNCHANGED <<buffer, last_non_empty>>
    BY <1>1 DEF SkipMethod, Die, WriteMethod, EndBuilder, writerVars
  <2>. QED  BY <2>1 DEF IInv, NoDoubleEmptyLines
<1>2. CASE WriteLine
  BY <1>2, WriteHolds DEF WriteLine
<1>3. CASE UNCHANGED vars
  BY <1>3 DEF vars, writerVars, IInv, NoDoubleEmptyLines
<1>. QED  BY <1>1, <1>2, <1>3 DEF Next

\* In whatever order FieldBuilders write to their targets, in none of them does
\* the generated code begin with an empty line or have two in a row: the last
\* line of every target is told apart from those of the others.
THEOREM NoDoubleEmptyLinesHolds == Spec => []NoDoubleEmptyLines
<1>1. IInv => NoDoubleEmptyLines
  BY DEF IInv
<1>. QED  BY InitHolds, StepHolds, <1>1, PTL DEF Spec

(***************************************************************************)
(* LinesKept.                                                              *)
(***************************************************************************)
LEMMA Appended ==
    ASSUME NEW s, IsSeq(s), NEW x
    PROVE  /\ IsSeq(Append(s, x)) /\ Len(s) \in Nat /\ Len(Append(s, x)) = Len(s) + 1
           /\ DOMAIN s = 1..Len(s) /\ DOMAIN Append(s, x) = 1..Len(s) + 1
           /\ \A i \in 1..Len(s) : Append(s, x)[i] = s[i]
           /\ Append(s, x)[Len(s) + 1] = x
<1>. DEFINE S == Elements(s) \cup {x}
<1>1. s \in Seq(S) /\ x \in S
  BY DEF IsSeq
<1>. HIDE DEF S
<1>2. /\ Append(s, x) \in Seq(S) /\ Len(s) \in Nat /\ Len(Append(s, x)) = Len(s) + 1
      /\ DOMAIN s = 1..Len(s) /\ DOMAIN Append(s, x) = 1..Len(s) + 1
      /\ \A i \in 1..Len(s) : Append(s, x)[i] = s[i]
      /\ Append(s, x)[Len(s) + 1] = x
  BY <1>1
<1>3. IsSeq(Append(s, x))
  BY <1>2, SeqIsSeq
<1>. QED  BY <1>2, <1>3

LEMMA RankAppended ==
    ASSUME NEW s, IsSeq(s), NEW x
    PROVE  /\ \A j \in 1..Len(s) : /\ Rank(Append(s, x), j) = Rank(s, j)
                                   /\ Rank(s, j) \in Nat /\ Rank(s, j) <= Rank(s, Len(s))
           /\ Rank(s, Len(s)) \in Nat
           /\ Rank(Append(s, x), Len(s) + 1) = Rank(s, Len(s)) + (IF x # Empty THEN 1 ELSE 0)
<1>. DEFINE K(r, j) == {k \in 1..j : r[k] # Empty}
            n == Len(s)
            r == Append(s, x)
<1>1. n \in Nat /\ (\A i \in 1..n : r[i] = s[i]) /\ r[n + 1] = x
  BY Appended
<1>. HIDE DEF r, n
<1>2. \A j \in 1..n : K(r, j) = K(s, j) /\ K(s, j) \subseteq K(s, n)
  BY <1>1
<1>3. IsFiniteSet(1..n)
  <2>1. 1 \in Int /\ n \in Int
    BY <1>1
  <2>. QED  BY <2>1, FS_Interval
<1>4. IsFiniteSet(K(s, n)) /\ Cardinality(K(s, n)) \in Nat
  BY <1>3, FS_Subset, FS_CardinalityType
<1>5. \A j \in 1..n : /\ Cardinality(K(s, j)) \in Nat
                      /\ Cardinality(K(s, j)) <= Cardinality(K(s, n))
  <2>. SUFFICES ASSUME NEW j \in 1..n
                PROVE  /\ Cardinality(K(s, j)) \in Nat
                       /\ Cardinality(K(s, j)) <= Cardinality(K(s, n))
    OBVIOUS
  <2>1. K(s, j) \in SUBSET K(s, n)
    BY <1>2
  <2>. HIDE DEF K
  <2>. QED  BY <1>4, <2>1, FS_Subset, FS_CardinalityType
<1>6. K(r, n + 1) = IF x # Empty THEN K(s, n) \cup {n + 1} ELSE K(s, n)
  BY <1>1
<1>7. n + 1 \notin K(s, n)
  BY <1>1
<1>8. Cardinality(K(r, n + 1)) = Cardinality(K(s, n)) + (IF x # Empty THEN 1 ELSE 0)
  <2>. HIDE DEF K
  <2>. QED  BY <1>4, <1>6, <1>7, FS_AddElement
<1>. QED  BY <1>2, <1>4, <1>5, <1>8 DEF Rank, n, r

LEMMA SameLinesEmpty ==
    ASSUME NEW s, NEW t, IsSeq(s), IsSeq(t), SameLines(s, t)
    PROVE  SameLines(s, Append(t, Empty)) /\ SameLines(Append(s, Empty), Append(t, Empty))
<1>1. /\ Len(s) \in Nat /\ DOMAIN s = 1..Len(s)
      /\ Len(t) \in Nat /\ DOMAIN t = 1..Len(t)
  BY SeqFacts
<1>2. ASSUME NEW r, IsSeq(r)
      PROVE  /\ DOMAIN Append(r, Empty) = 1..Len(r) + 1 /\ Len(Append(r, Empty)) = Len(r) + 1
             /\ Rank(Append(r, Empty), Len(Append(r, Empty))) = Rank(r, Len(r))
             /\ \A i \in DOMAIN Append(r, Empty) :
                    Append(r, Empty)[i] # Empty =>
                        /\ i \in DOMAIN r /\ Append(r, Empty)[i] = r[i]
                        /\ Rank(Append(r, Empty), i) = Rank(r, i)
  <2>1. /\ DOMAIN Append(r, Empty) = 1..Len(r) + 1 /\ Len(Append(r, Empty)) = Len(r) + 1
        /\ Len(r) \in Nat /\ DOMAIN r = 1..Len(r)
        /\ \A i \in 1..Len(r) : Append(r, Empty)[i] = r[i]
        /\ Append(r, Empty)[Len(r) + 1] = Empty
    BY <1>2, Appended
  <2>2. /\ \A i \in 1..Len(r) : Rank(Append(r, Empty), i) = Rank(r, i)
        /\ Rank(r, Len(r)) \in Nat /\ Rank(Append(r, Empty), Len(r) + 1) = Rank(r, Len(r))
    BY <1>2, RankAppended
  <2>3. \A i \in 1..Len(r) + 1 : i \in 1..Len(r) \/ i = Len(r) + 1
    BY <2>1
  <2>. QED  BY <2>1, <2>2, <2>3
<1>. QED  BY <1>1, <1>2 DEF SameLines

LEMMA SameLinesBoth ==
    ASSUME NEW s, NEW t, IsSeq(s), IsSeq(t), SameLines(s, t), NEW x, x # Empty
    PROVE  SameLines(Append(s, x), Append(t, x))
<1>1. ASSUME NEW r, IsSeq(r)
      PROVE  /\ DOMAIN Append(r, x) = 1..Len(r) + 1 /\ Len(Append(r, x)) = Len(r) + 1
             /\ Len(r) \in Nat /\ DOMAIN r = 1..Len(r)
             /\ Append(r, x)[Len(r) + 1] = x
             /\ Rank(r, Len(r)) \in Nat
             /\ Rank(Append(r, x), Len(r) + 1) = Rank(r, Len(r)) + 1
             /\ \A i \in 1..Len(r) : /\ Append(r, x)[i] = r[i]
                                     /\ Rank(Append(r, x), i) = Rank(r, i)
                                     /\ Rank(r, i) \in Nat /\ Rank(r, i) <= Rank(r, Len(r))
  BY <1>1, Appended, RankAppended
<1>. DEFINE a == Append(s, x)
            b == Append(t, x)
<1>2. Rank(s, Len(s)) = Rank(t, Len(t))
  BY DEF SameLines
<1>3. Rank(a, Len(a)) = Rank(b, Len(b))
  BY <1>1, <1>2
<1>4. ASSUME NEW i \in DOMAIN a, NEW j \in DOMAIN b, a[i] # Empty, b[j] # Empty,
             Rank(a, i) = Rank(b, j)
      PROVE  a[i] = b[j]
  <2>1. /\ i \in 1..Len(s) \/ i = Len(s) + 1
        /\ j \in 1..Len(t) \/ j = Len(t) + 1
    <3>1. i \in 1..Len(s) + 1 /\ j \in 1..Len(t) + 1 /\ Len(s) \in Nat /\ Len(t) \in Nat
      BY <1>1
    <3>. QED  BY <3>1
  <2>2. CASE i \in 1..Len(s) /\ j \in 1..Len(t)
    <3>1. s[i] # Empty /\ t[j] # Empty /\ Rank(s, i) = Rank(t, j) /\ i \in DOMAIN s /\ j \in DOMAIN t
      BY <1>1, <1>4, <2>2
    <3>2. s[i] = t[j]
      BY <3>1 DEF SameLines
    <3>. QED  BY <1>1, <2>2, <3>2
  <2>3. CASE i \in 1..Len(s) /\ j = Len(t) + 1
    <3>1. /\ Rank(a, i) \in Nat /\ Rank(a, i) <= Rank(s, Len(s))
          /\ Rank(b, j) = Rank(s, Len(s)) + 1 /\ Rank(s, Len(s)) \in Nat
      BY <1>1, <1>2, <2>3
    <3>. QED  BY <1>4, <3>1
  <2>4. CASE i = Len(s) + 1 /\ j \in 1..Len(t)
    <3>1. /\ Rank(b, j) \in Nat /\ Rank(b, j) <= Rank(s, Len(s))
          /\ Rank(a, i) = Rank(s, Len(s)) + 1 /\ Rank(s, Len(s)) \in Nat
      BY <1>1, <1>2, <2>4
    <3>. QED  BY <1>4, <3>1
  <2>5. CASE i = Len(s) + 1 /\ j = Len(t) + 1
    BY <1>1, <2>5
  <2>. QED  BY <2>1, <2>2, <2>3, <2>4, <2>5
<1>. QED  BY <1>3, <1>4 DEF SameLines

(***************************************************************************)
(* TypeOK, and that lines are where they are.                              *)
(***************************************************************************)
Typed ==
    /\ TypeOK
    /\ DOMAIN requested = Where
    /\ \A to \in Where : IsSeq(buffer[to]) /\ IsSeq(requested[to])
    /\ IsSeq(pending)
    /\ \A k \in DOMAIN pending : pending[k] = At(pending[k][1], pending[k][2])

LEMMA MethodsFacts ==
    ASSUME IsInput(input)
    PROVE  IsSeq(Methods) /\ Len(Methods) \in Nat /\ DOMAIN Methods = 1..Len(Methods)
<1>1. IsSeq(Methods)
  <2>1. CASE input.options # <<>>
    <3>. DEFINE M == [f \in DOMAIN input.options |->
                        FieldData(MergeFieldBuilderOptions(input.config, input.options[f]), f = 1)]
    <3>1. Len(input.options) \in Nat /\ DOMAIN input.options = 1..Len(input.options)
      BY DEF IsInput
    <3>2. M \in Seq({M[f] : f \in DOMAIN input.options})
      BY <3>1
    <3>3. Methods = M
      BY <2>1 DEF Methods
    <3>. QED  BY <3>2, <3>3, SeqIsSeq
  <2>2. CASE input.options = <<>>
    <3>1. (\E x : Methods = <<x>>) \/ \E x, y : Methods = <<x, y>>
      BY <2>2 DEF Methods
    <3>. QED  BY <3>1, OneLine, TwoLines
  <2>. QED  BY <2>1, <2>2
<1>. QED  BY <1>1, SeqFacts

LEMMA TailFacts ==
    ASSUME NEW s, IsSeq(s), s # <<>>
    PROVE  /\ IsSeq(Tail(s)) /\ Len(s) \in Nat \ {0} /\ Len(Tail(s)) = Len(s) - 1
           /\ DOMAIN s = 1..Len(s) /\ DOMAIN Tail(s) = 1..Len(s) - 1
           /\ Head(s) = s[1] /\ 1 \in DOMAIN s
           /\ \A k \in DOMAIN Tail(s) : k + 1 \in DOMAIN s /\ Tail(s)[k] = s[k + 1]
<1>1. /\ Tail(s) \in Seq(Elements(s)) /\ Len(s) \in Nat \ {0} /\ Len(Tail(s)) = Len(s) - 1
      /\ DOMAIN s = 1..Len(s) /\ DOMAIN Tail(s) = 1..Len(s) - 1
      /\ Head(s) = s[1]
      /\ \A k \in 1..Len(s) - 1 : Tail(s)[k] = s[k + 1]
  BY DEF IsSeq
<1>2. IsSeq(Tail(s))
  BY <1>1, SeqIsSeq
<1>3. 1 \in DOMAIN s /\ \A k \in 1..Len(s) - 1 : k + 1 \in 1..Len(s)
  BY <1>1
<1>. QED  BY <1>1, <1>2, <1>3

\* What a call of Write does to the lines of its target and of others.
LEMMA WriteEffect ==
    ASSUME Typed, NEW to \in Where, NEW text, Write(to, text)
    PROVE  /\ DOMAIN buffer' = Where /\ DOMAIN requested' = Where
           /\ \A w \in Where \ {to} : buffer'[w] = buffer[w] /\ requested'[w] = requested[w]
           /\ requested'[to] = Append(requested[to], text)
           /\ \/ buffer'[to] = Append(buffer[to], Indent(to, text))
              \/ buffer'[to] = buffer[to] /\ text = Empty
           /\ \A w \in Where : IsSeq(buffer'[w]) /\ IsSeq(requested'[w])
<1>1. DOMAIN buffer = Where /\ DOMAIN requested = Where
  BY DEF Typed, TypeOK
<1>2. requested' = [requested EXCEPT ![to] = Append(@, text)]
  BY DEF Write
<1>3. \/ buffer' = [buffer EXCEPT ![to] = Append(@, Indent(to, text))]
      \/ buffer' = buffer /\ text = Empty
  BY DEF Write
<1>4. /\ DOMAIN buffer' = Where /\ DOMAIN requested' = Where
      /\ \A w \in Where \ {to} : buffer'[w] = buffer[w] /\ requested'[w] = requested[w]
      /\ requested'[to] = Append(requested[to], text)
      /\ \/ buffer'[to] = Append(buffer[to], Indent(to, text))
         \/ buffer'[to] = buffer[to] /\ text = Empty
  BY <1>1, <1>2, <1>3
<1>5. ASSUME NEW w \in Where PROVE IsSeq(buffer'[w]) /\ IsSeq(requested'[w])
  <2>1. IsSeq(buffer[w]) /\ IsSeq(requested[w])
    BY DEF Typed
  <2>2. CASE w # to
    BY <1>4, <2>1, <2>2
  <2>3. CASE w = to
    <3>1. IsSeq(buffer[to]) /\ IsSeq(requested[to])
      BY DEF Typed
    <3>2. IsSeq(Append(requested[to], text))
      BY <3>1, Appended
    <3>3. IsSeq(Append(buffer[to], Indent(to, text)))
      BY <3>1, Appended
    <3>. QED  BY <1>4, <2>3, <3>1, <3>2, <3>3
  <2>. QED  BY <2>2, <2>3
<1>. QED  BY <1>4, <1>5

LEMMA TypedInit == Init => Typed
<1>. SUFFICES ASSUME Init PROVE Typed
  OBVIOUS
<1>1. IsInput(input)
  BY InputAssumption DEF Init
<1>2. TypeOK
  BY <1>1, MethodsFacts DEF Init, TypeOK, WriterInit
<1>. QED  BY <1>2, NoLines DEF Typed, Init, WriterInit

LEMMA TypedStep == Typed /\ [Next]_vars => Typed'
<1>. SUFFICES ASSUME Typed, [Next]_vars PROVE Typed'
  OBVIOUS
<1>1. input' = input /\ Methods' = Methods
  <2>1. input' = input
    BY DEF Next, SkipMethod, Die, WriteMethod, EndBuilder, WriteLine, vars
  <2>. QED  BY <2>1 DEF Methods, FieldData, Uses
<1>2. IsInput(input) /\ Len(Methods) \in Nat /\ DOMAIN Methods = 1..Len(Methods)
  BY MethodsFacts DEF Typed, TypeOK
<1>3. AtMethod => method \in 1..Len(Methods) /\ method + 1 \in 1..Len(Methods) + 1
  BY <1>2 DEF AtMethod
<1>4. CASE SkipMethod
  BY <1>1, <1>3, <1>4 DEF SkipMethod, Typed, TypeOK, writerVars
<1>5. CASE Die
  BY <1>1, <1>5 DEF Die, Typed, TypeOK, writerVars
<1>6. CASE WriteMethod
  <2>. DEFINE d == Methods[method]
  <2>1. IsSeq(pending') /\ Elements(pending') = Elements(WriteField(d))
    BY <1>6, WriteFieldParts DEF WriteMethod
  <2>2. ASSUME NEW k \in DOMAIN pending'
        PROVE  pending'[k] = At(pending'[k][1], pending'[k][2]) /\ pending'[k][1] \in Where
    <3>1. pending'[k] \in Elements(WriteField(d))
      BY <2>1 DEF Elements
    <3>. QED  BY <3>1, WriteFieldCall
  <2>3. DOMAIN include_map' = Where
    BY <1>6 DEF WriteMethod, AddInclude
  <2>. QED  BY <1>1, <1>3, <1>6, <2>1, <2>2, <2>3 DEF WriteMethod, Typed, TypeOK
<1>7. CASE EndBuilder
  <2>1. pending' = <<At("HEADER", Empty), At("SOURCE", Empty), At("INTERFACE", Empty)>>
    BY <1>7 DEF EndBuilder
  <2>2. /\ IsSeq(pending')
        /\ Elements(pending') = {At("HEADER", Empty), At("SOURCE", Empty), At("INTERFACE", Empty)}
    BY <2>1, ThreeLines
  <2>3. \A k \in DOMAIN pending' :
            pending'[k] = At(pending'[k][1], pending'[k][2]) /\ pending'[k][1] \in Where
    BY <2>2 DEF Elements, At, Where
  <2>. QED  BY <1>1, <1>7, <2>2, <2>3 DEF EndBuilder, Typed, TypeOK, writerVars
<1>8. CASE WriteLine
  <2>. DEFINE to == Head(pending)[1]
              text == Head(pending)[2]
  <2>1. /\ pending # <<>> /\ pending' = Tail(pending) /\ Write(to, text)
        /\ UNCHANGED <<input, method, pc, include_map>>
    BY <1>8 DEF WriteLine
  <2>2. to \in Where
    BY <2>1, TailFacts DEF Typed, TypeOK
  <2>3. IsSeq(pending') /\ \A k \in DOMAIN pending' :
            pending'[k] = At(pending'[k][1], pending'[k][2]) /\ pending'[k][1] \in Where
    BY <2>1, TailFacts DEF Typed, TypeOK
  <2>. HIDE DEF to, text
  <2>4. /\ DOMAIN buffer' = Where /\ DOMAIN requested' = Where
        /\ \A w \in Where : IsSeq(buffer'[w]) /\ IsSeq(requested'[w])
    BY <2>1, <2>2, WriteEffect
  <2>. QED  BY <1>1, <2>1, <2>3, <2>4 DEF Typed, TypeOK
<1>9. CASE UNCHANGED vars
  BY <1>1, <1>9 DEF vars, writerVars, Typed, TypeOK
<1>. QED  BY <1>4, <1>5, <1>6, <1>7, <1>8, <1>9 DEF Next

\* The writer goes through the methods of a field one after the other, however
\* many there are, and only writes for the targets there are.
THEOREM TypeCorrect == Spec => []TypeOK
<1>1. Typed => TypeOK
  BY DEF Typed
<1>. QED  BY TypedInit, TypedStep, <1>1, PTL DEF Spec

LEMMA TextsFacts ==
    ASSUME Typed, NEW to \in Where
    PROVE  /\ IsSeq(Texts(to)) /\ Len(Texts(to)) = Len(buffer[to])
           /\ DOMAIN Texts(to) = 1..Len(buffer[to]) /\ DOMAIN buffer[to] = 1..Len(buffer[to])
           /\ \A i \in 1..Len(buffer[to]) : Texts(to)[i] = buffer[to][i].text
<1>1. IsSeq(buffer[to]) /\ Len(buffer[to]) \in Nat /\ DOMAIN buffer[to] = 1..Len(buffer[to])
  BY SeqFacts DEF Typed
<1>2. Texts(to) \in Seq({buffer[to][i].text : i \in DOMAIN buffer[to]})
  BY <1>1 DEF Texts
<1>3. IsSeq(Texts(to)) /\ DOMAIN Texts(to) = DOMAIN buffer[to]
  BY <1>2, SeqIsSeq DEF Texts
<1>4. Len(Texts(to)) = Len(buffer[to])
  BY <1>1, <1>2, <1>3
<1>. QED  BY <1>1, <1>3, <1>4 DEF Texts

LEMMA WriteKeepsLines ==
    ASSUME Typed, LinesKept, NEW to \in Where, NEW text, Write(to, text)
    PROVE  LinesKept'
<1>. SUFFICES ASSUME NEW w \in Where PROVE SameLines(Texts(w)', requested'[w])
  BY DEF LinesKept
<1>1. CASE w # to
  <2>1. buffer'[w] = buffer[w] /\ requested'[w] = requested[w]
    BY <1>1, WriteEffect
  <2>2. Texts(w)' = Texts(w)
    BY <2>1 DEF Texts
  <2>3. SameLines(Texts(w), requested[w])
    BY DEF LinesKept
  <2>. QED  BY <2>1, <2>2, <2>3
<1>2. CASE w = to
  <2>1. IsSeq(Texts(to)) /\ IsSeq(requested[to]) /\ SameLines(Texts(to), requested[to])
    BY TextsFacts DEF Typed, LinesKept
  <2>2. requested'[to] = Append(requested[to], text)
    BY WriteEffect
  <2>3. CASE buffer'[to] = buffer[to] /\ text = Empty
    <3>1. Texts(to)' = Texts(to)
      BY <2>3 DEF Texts
    <3>2. SameLines(Texts(to), Append(requested[to], text))
      BY <2>1, <2>3, SameLinesEmpty
    <3>. QED  BY <1>2, <2>2, <3>1, <3>2
  <2>4. CASE buffer'[to] = Append(buffer[to], Indent(to, text))
    <3>1. Texts(to)' = Append(Texts(to), text)
      <4>1. Indent(to, text).text = text
        BY DEF Indent
      <4>. DEFINE b == buffer[to]
                  line == Indent(to, text)
      <4>. HIDE DEF line
      <4>2. /\ IsSeq(b) /\ Len(b) \in Nat /\ DOMAIN Append(b, line) = 1..Len(b) + 1
            /\ \A i \in 1..Len(b) : Append(b, line)[i] = b[i]
            /\ Append(b, line)[Len(b) + 1] = line
        BY Appended DEF Typed
      <4>3. Texts(to)' = [i \in 1..Len(b) + 1 |-> Append(b, line)[i].text]
        BY <2>4, <4>2 DEF Texts, line
      <4>4. /\ DOMAIN Append(Texts(to), text) = 1..Len(b) + 1
            /\ \A i \in 1..Len(b) : Append(Texts(to), text)[i] = b[i].text
            /\ Append(Texts(to), text)[Len(b) + 1] = text
        BY TextsFacts, Appended
      <4>5. IsSeq(Append(Texts(to), text))
        BY <2>1, Appended
      <4>6. Append(Texts(to), text) = [i \in 1..Len(b) + 1 |-> Append(Texts(to), text)[i]]
        BY <4>4, <4>5, SeqIsFunction
      <4>7. \A i \in 1..Len(b) + 1 : Append(b, line)[i].text = Append(Texts(to), text)[i]
        <5>1. \A i \in 1..Len(b) + 1 : i \in 1..Len(b) \/ i = Len(b) + 1
          BY <4>2
        <5>. QED  BY <4>1, <4>2, <4>4, <5>1 DEF line
      <4>. QED  BY <4>3, <4>6, <4>7
    <3>2. SameLines(Append(Texts(to), text), Append(requested[to], text))
      BY <2>1, SameLinesEmpty, SameLinesBoth
    <3>. QED  BY <1>2, <2>2, <3>1, <3>2
  <2>. QED  BY <2>3, <2>4, WriteEffect
<1>. QED  BY <1>1, <1>2

LEMMA LinesKeptInit == Init => LinesKept
<1>. SUFFICES ASSUME Init, NEW to \in Where PROVE SameLines(Texts(to), requested[to])
  BY DEF LinesKept
<1>1. buffer[to] = <<>> /\ requested[to] = <<>>
  BY DEF Init, WriterInit
<1>2. Texts(to) = <<>>
  BY <1>1 DEF Texts
<1>. QED  BY <1>1, <1>2 DEF SameLines

LEMMA LinesKeptStep == Typed /\ LinesKept /\ [Next]_vars => LinesKept'
<1>. SUFFICES ASSUME Typed, LinesKept, [Next]_vars PROVE LinesKept'
  OBVIOUS
<1>1. CASE SkipMethod \/ Die \/ WriteMethod \/ EndBuilder \/ UNCHANGED vars
  <2>1. UNCHANGED <<buffer, requested>>
    BY <1>1 DEF SkipMethod, Die, WriteMethod, EndBuilder, vars, writerVars
  <2>2. \A to : Texts(to)' = Texts(to)
    BY <2>1 DEF Texts
  <2>. QED  BY <2>1, <2>2 DEF LinesKept
<1>2. CASE WriteLine
  <2>1. pending # <<>> /\ Head(pending)[1] \in Where /\ Write(Head(pending)[1], Head(pending)[2])
    BY <1>2, TailFacts DEF WriteLine, Typed, TypeOK
  <2>. QED  BY <2>1, WriteKeepsLines
<1>. QED  BY <1>1, <1>2 DEF Next

\* Through the whole stack of writers, in whatever order lines for the targets
\* are written, each target gets the lines written for it that say something, in
\* their order.
THEOREM LinesKeptCorrect == Spec => []LinesKept
BY TypedInit, TypedStep, LinesKeptInit, LinesKeptStep, PTL DEF Spec

(***************************************************************************)
(* Where the lines come from: a line is empty or written by WriteField for *)
(* an annotation before `method`, one that is not passed over.             *)
(***************************************************************************)
WrittenFor(m, to, text) ==
    m \in Active /\ m < method /\ At(to, text) \in Elements(WriteField(Methods[m]))

Came(to, text) == text = Empty \/ \E m : WrittenFor(m, to, text)

Sourced ==
    /\ \A k \in DOMAIN pending : Came(pending[k][1], pending[k][2])
    /\ \A to \in Where : \A i \in DOMAIN buffer[to] : Came(to, buffer[to][i].text)

\* Their includes are there.
Included ==
    \A m \in Active : m < method =>
        \A to \in Where : FieldIncludes(Methods[m], to) \subseteq include_map[to]

\* What a FieldBuilder is given by the field, whatever the annotation.
LEMMA MethodData ==
    ASSUME NEW m \in DOMAIN Methods
    PROVE  /\ Methods[m].config = input.config /\ Methods[m].field = input.field
           /\ Methods[m].make_interface = input.make_interface
           /\ Methods[m].first_method = (m = 1)
<1>1. \A raw, first : /\ FieldData(raw, first).config = input.config
                      /\ FieldData(raw, first).field = input.field
                      /\ FieldData(raw, first).make_interface = input.make_interface
                      /\ FieldData(raw, first).first_method = first
  BY DEF FieldData
<1>2. \E raw : Methods[m] = FieldData(raw, m = 1)
  <2>1. CASE input.options # <<>>
    BY <2>1 DEF Methods
  <2>2. CASE input.options = <<>>
    <3>1. PICK x, y : /\ Methods = <<x>> \/ Methods = <<x, y>>
                      /\ \E raw : x = FieldData(raw, TRUE)
                      /\ \E raw : y = FieldData(raw, FALSE)
      <4>. DEFINE x == FieldData(NoOptions, TRUE)
                  raw == input.config[CHOOSE k \in AutomaticKeys(input.config, input.field.type) : TRUE]
                  y == FieldData(raw, FALSE)
      <4>1. Methods = <<x>> \/ Methods = <<x, y>>
        BY <2>2 DEF Methods
      <4>. QED  BY <4>1
    <3>2. (m = 1 /\ Methods[m] = x) \/ (m = 2 /\ Methods[m] = y)
      <4>1. CASE Methods = <<x>>
        <5>1. m = 1
          BY <4>1, OneLine
        <5>. QED  BY <4>1, <5>1
      <4>2. CASE Methods = <<x, y>>
        <5>1. m \in 1..2
          BY <4>2, TwoLines
        <5>. QED  BY <4>2, <5>1
      <4>. QED  BY <3>1, <4>1, <4>2
    <3>3. CASE m = 1 /\ Methods[m] = x
      <4>1. (m = 1) = TRUE
        BY <3>3
      <4>. QED  BY <3>1, <3>3, <4>1
    <3>4. CASE m = 2 /\ Methods[m] = y
      <4>1. (m = 1) = FALSE
        BY <3>4
      <4>. QED  BY <3>1, <3>4, <4>1
    <3>. QED  BY <3>2, <3>3, <3>4
  <2>. QED  BY <2>1, <2>2
<1>. QED  BY <1>1, <1>2

\* The annotations stay what they are, and none is taken back.
LEMMA AnnotationsKept ==
    ASSUME Typed, [Next]_vars
    PROVE  /\ input' = input /\ Methods' = Methods /\ Active' = Active
           /\ method \in Nat /\ (method' = method \/ method' = method + 1)
           /\ \A m, to, text : WrittenFor(m, to, text) => WrittenFor(m, to, text)'
           /\ \A to, text : Came(to, text) => Came(to, text)'
<1>1. input' = input /\ (method' = method \/ method' = method + 1)
  BY DEF Next, SkipMethod, Die, WriteMethod, EndBuilder, WriteLine, vars
<1>2. Methods' = Methods
  BY <1>1 DEF Methods, FieldData, Uses
<1>3. Active' = Active
  BY <1>1, <1>2 DEF Active, Skipped, SkipsField
<1>4. method \in Nat
  BY MethodsFacts DEF Typed, TypeOK
<1>5. ASSUME NEW m, NEW to, NEW text, WrittenFor(m, to, text)
      PROVE  WrittenFor(m, to, text)'
  <2>1. m \in DOMAIN Methods /\ m \in Nat /\ m < method
    BY <1>5, MethodsFacts DEF WrittenFor, Active, Typed, TypeOK
  <2>2. m < method'
    BY <1>1, <1>4, <2>1
  <2>. QED  BY <1>2, <1>3, <1>5, <2>2 DEF WrittenFor
<1>6. ASSUME NEW to, NEW text, Came(to, text) PROVE Came(to, text)'
  BY <1>5, <1>6 DEF Came
<1>. QED  BY <1>1, <1>2, <1>3, <1>4, <1>5, <1>6

LEMMA SourcedInit == Init => Sourced /\ Included
<1>. SUFFICES ASSUME Init PROVE Sourced /\ Included
  OBVIOUS
<1>1. Sourced
  BY DEF Init, WriterInit, Sourced
<1>2. \A m \in Active : m \in Nat \ {0}
  BY MethodsFacts, InputAssumption DEF Init, Active
<1>. QED  BY <1>1, <1>2 DEF Init, Included

\* What the next annotation comes to.
LEMMA MethodWritten ==
    ASSUME Typed, WriteMethod
    PROVE  /\ pending' = WriteField(Methods[method]) /\ IsSeq(WriteField(Methods[method]))
           /\ method' = method + 1 /\ method \in DOMAIN Methods /\ pending = <<>>
           /\ WriteField(Methods[method]) # <<>> => method \in Active
           /\ Output(Methods[method]) # "SKIP" => method \in Active
           /\ UNCHANGED <<input, pc, buffer, requested>>
<1>1. /\ pending' = WriteField(Methods[method]) /\ method' = method + 1
      /\ method \in DOMAIN Methods /\ ~ Skipped(Methods[method]) /\ pending = <<>>
      /\ UNCHANGED <<input, pc, buffer, requested>>
  BY DEF WriteMethod, AtMethod
<1>2. WriteField(Methods[method]) # <<>> => Output(Methods[method]) # "SKIP"
  BY WriteFieldParts
<1>. QED  BY <1>1, <1>2, WriteFieldParts DEF Active

LEMMA SourcedStep == Typed /\ Sourced /\ [Next]_vars => Sourced'
<1>. SUFFICES ASSUME Typed, Sourced, [Next]_vars PROVE Sourced'
  OBVIOUS
<1>1. \A to, text : Came(to, text) => Came(to, text)'
  BY AnnotationsKept
<1>2. CASE SkipMethod \/ Die \/ UNCHANGED vars
  <2>1. UNCHANGED <<buffer, pending>>
    BY <1>2 DEF SkipMethod, Die, vars, writerVars
  <2>. QED  BY <1>1, <2>1 DEF Sourced
<1>3. CASE WriteMethod
  <2>. DEFINE d == Methods[method]
  <2>1. /\ pending' = WriteField(d) /\ method' = method + 1 /\ buffer' = buffer
        /\ WriteField(d) # <<>> => method \in Active
    BY <1>3, MethodWritten
  <2>2. PICK m : m = method
    OBVIOUS
  <2>3. ASSUME NEW t, NEW x, At(t, x) \in Elements(WriteField(d)) PROVE Came(t, x)'
    <3>1. m \in Active /\ m < method' /\ Methods[m] = d
      BY <2>1, <2>2, <2>3, NoLines, AnnotationsKept
    <3>2. m \in Active' /\ Methods'[m] = d
      BY <3>1, AnnotationsKept
    <3>3. WrittenFor(m, t, x)'
      BY <2>3, <3>1, <3>2 DEF WrittenFor
    <3>. QED  BY <3>3 DEF Came
  <2>4. ASSUME NEW k \in DOMAIN pending'
        PROVE  Came(pending[k][1], pending[k][2])'
    <3>1. pending'[k] \in Elements(WriteField(d))
      BY <2>1 DEF Elements
    <3>2. At(pending'[k][1], pending'[k][2]) \in Elements(WriteField(d))
      BY <3>1, WriteFieldCall
    <3>. QED  BY <2>3, <3>2
  <2>. QED  BY <1>1, <2>1, <2>4 DEF Sourced
<1>4. CASE EndBuilder
  <2>1. buffer' = buffer
    BY <1>4 DEF EndBuilder, writerVars
  <2>2. pending' = <<At("HEADER", Empty), At("SOURCE", Empty), At("INTERFACE", Empty)>>
    BY <1>4 DEF EndBuilder
  <2>3. \A k \in DOMAIN pending' : pending'[k][2] = Empty
    BY <2>2, ThreeLines DEF At
  <2>. QED  BY <1>1, <2>1, <2>3 DEF Sourced, Came
<1>5. CASE WriteLine
  <2>. DEFINE to == Head(pending)[1]
              text == Head(pending)[2]
  <2>1. /\ pending # <<>> /\ pending' = Tail(pending) /\ Write(to, text)
        /\ to \in Where /\ Came(to, text)
    BY <1>5, TailFacts DEF WriteLine, Typed, TypeOK, Sourced
  <2>2. \A k \in DOMAIN pending' : Came(pending'[k][1], pending'[k][2])
    BY <2>1, TailFacts DEF Typed, Sourced
  <2>. HIDE DEF to, text
  <2>3. ASSUME NEW w \in Where, NEW i \in DOMAIN buffer'[w]
        PROVE  Came(w, buffer'[w][i].text)
    <3>1. CASE buffer'[w] = buffer[w]
      BY <3>1 DEF Sourced
    <3>2. CASE w = to /\ buffer'[to] = Append(buffer[to], Indent(to, text))
      <4>1. IsSeq(buffer[to])
        BY <2>1 DEF Typed
      <4>2. i \in 1..Len(buffer[to]) + 1 /\ Len(buffer[to]) \in Nat
        BY <3>2, <4>1, Appended
      <4>3. CASE i \in 1..Len(buffer[to])
        BY <2>1, <3>2, <4>1, <4>3, Appended DEF Sourced
      <4>4. CASE i = Len(buffer[to]) + 1
        <5>1. buffer'[w][i] = Indent(to, text)
          BY <3>2, <4>1, <4>4, Appended
        <5>2. Indent(to, text).text = text
          BY DEF Indent
        <5>. QED  BY <2>1, <3>2, <5>1, <5>2
      <4>. QED  BY <4>2, <4>3, <4>4
    <3>. QED  BY <2>1, <3>1, <3>2, WriteEffect
  <2>. QED  BY <1>1, <2>2, <2>3 DEF Sourced
<1>. QED  BY <1>2, <1>3, <1>4, <1>5 DEF Next

LEMMA IncludedStep == Typed /\ Included /\ [Next]_vars => Included'
<1>. SUFFICES ASSUME Typed, Included, [Next]_vars,
                     NEW m \in Active, m < method', NEW to \in Where
              PROVE  FieldIncludes(Methods[m], to) \subseteq include_map'[to]
  BY AnnotationsKept DEF Included
<1>1. m \in Nat /\ method \in Nat
  BY MethodsFacts, AnnotationsKept DEF Typed, TypeOK, Active
<1>2. CASE m < method
  <2>1. FieldIncludes(Methods[m], to) \subseteq include_map[to]
    BY <1>2 DEF Included
  <2>2. include_map[to] \subseteq include_map'[to]
    BY DEF Next, SkipMethod, Die, WriteMethod, AddInclude, EndBuilder, WriteLine, vars, writerVars
  <2>. QED  BY <2>1, <2>2
<1>3. CASE ~ m < method
  <2>1. m = method /\ method' = method + 1
    BY <1>1, <1>3, AnnotationsKept
  <2>2. CASE WriteMethod
    BY <2>1, <2>2 DEF WriteMethod, AddInclude
  <2>3. CASE SkipMethod
    BY <2>1, <2>3 DEF SkipMethod, Active
  <2>4. WriteMethod \/ SkipMethod
    BY <1>1, <2>1 DEF Next, Die, EndBuilder, WriteLine, vars
  <2>. QED  BY <2>2, <2>3, <2>4
<1>. QED  BY <1>2, <1>3

(***************************************************************************)
(* What is said of single lines follows from where they come from.         *)
(***************************************************************************)
LEMMA LineSourced ==
    ASSUME Sourced, NEW to \in Where, NEW kind, kind # "empty", NEW i \in OfKind(to, kind)
    PROVE  \E m \in Active : /\ m \in DOMAIN Methods /\ m < method
                             /\ At(to, Text(to, i)) \in Elements(WriteField(Methods[m]))
<1>1. i \in DOMAIN buffer[to] /\ Text(to, i) = buffer[to][i].text /\ Text(to, i).kind = kind
  BY DEF OfKind, Text
<1>2. Text(to, i) # Empty
  BY <1>1, EmptyAssumption
<1>3. PICK m : WrittenFor(m, to, Text(to, i))
  BY <1>1, <1>2 DEF Sourced, Came
<1>. QED  BY <1>3 DEF WrittenFor, Active

\* The line of a method, of an annotation that makes sense.
LEMMA MethodLine ==
    ASSUME Typed, Sourced, NEW to \in Where, NEW i \in OfKind(to, "method")
    PROVE  \E m \in Active :
              LET d == Methods[m] IN
                /\ m \in DOMAIN Methods /\ m < method /\ IsValid(d) /\ Output(d) # "SKIP"
                /\ \/ Text(to, i) = Declared(d, to) /\ to # "SOURCE"
                   \/ Text(to, i) = Defined(d, to) /\ to # "INTERFACE"
                /\ d.config = input.config /\ d.field = input.field
                /\ GetTypeInfo(d.config, SourceLocation) = input.config[SourceLocation]
<1>1. PICK m \in Active : /\ m \in DOMAIN Methods /\ m < method
                          /\ At(to, Text(to, i)) \in Elements(WriteField(Methods[m]))
  BY LineSourced
<1>2. Text(to, i).kind = "method"
  BY DEF OfKind
<1>3. Output(Methods[m]) # "SKIP"
  BY <1>1, WriteFieldLine
<1>4. IsValid(Methods[m])
  BY <1>1, <1>2, WriteFieldLine, Kinds
<1>5. \/ Text(to, i) = Declared(Methods[m], to) /\ to # "SOURCE"
      \/ Text(to, i) = Defined(Methods[m], to) /\ to # "INTERFACE"
  BY <1>1, <1>2, LineOfKind
<1>6. Methods[m].config = input.config /\ Methods[m].field = input.field
  BY <1>1, MethodData
<1>7. GetTypeInfo(input.config, SourceLocation) = input.config[SourceLocation]
  BY DEF Typed, TypeOK, IsInput, GetTypeInfo
<1>. QED  BY <1>1, <1>3, <1>4, <1>5, <1>6, <1>7

LEMMA LocationIncluded == Typed /\ Sourced /\ Included => TypesIncluded
<1>. SUFFICES ASSUME Typed, Sourced, Included, NEW i \in OfKind("HEADER", "method"),
                     "location" \in ParamNames(Text("HEADER", i))
              PROVE  Get(input.config[SourceLocation], "include") \subseteq include_map["HEADER"]
  BY DEF TypesIncluded
<1>1. "HEADER" \in Where
  BY DEF Where
<1>2. PICK m \in Active :
          /\ m < method /\ IsValid(Methods[m]) /\ Output(Methods[m]) # "SKIP"
          /\ \/ Text("HEADER", i) = Declared(Methods[m], "HEADER")
             \/ Text("HEADER", i) = Defined(Methods[m], "HEADER")
          /\ GetTypeInfo(Methods[m].config, SourceLocation) = input.config[SourceLocation]
  BY <1>1, MethodLine
<1>3. Text("HEADER", i).params = MethodParam(Methods[m], "HEADER")
  BY <1>2, ParamsOf
<1>4. PICK p \in Elements(MethodParam(Methods[m], "HEADER")) : p.name = "location"
  BY <1>3 DEF ParamNames, Elements
<1>5. Option(Methods[m], "add_source_location")
  <2>1. ValueParam(Methods[m]).name # "location"
    BY ParamNamed
  <2>2. Elements(MethodParam(Methods[m], "HEADER")) =
            (IF Option(Methods[m], "value") # "" THEN {} ELSE {ValueParam(Methods[m])})
            \cup (IF Option(Methods[m], "add_source_location")
                    THEN {LocationParam(Methods[m], "HEADER")} ELSE {})
    BY MethodParams
  <2>. QED  BY <1>4, <2>1, <2>2
<1>6. Get(input.config[SourceLocation], "include") \subseteq FieldIncludes(Methods[m], "HEADER")
  BY <1>2, <1>5 DEF FieldIncludes
<1>. QED  BY <1>1, <1>2, <1>6 DEF Included

LEMMA Inserted == Typed /\ Sourced => MapsAreInserted
<1>. SUFFICES ASSUME Typed, Sourced, IsMap(input.field),
                     \A m \in Active : ~ (Output(Methods[m]) = "FOREACH" /\ Converts(Methods[m])),
                     NEW to \in Where, NEW i \in OfKind(to, "change")
              PROVE  Text(to, i).member \in {"insert", "setter"}
  BY DEF MapsAreInserted, AllActive
<1>1. PICK m \in Active : /\ m \in DOMAIN Methods
                          /\ At(to, Text(to, i)) \in Elements(WriteField(Methods[m]))
  BY LineSourced
<1>2. Text(to, i) = Body(Methods[m])
  BY <1>1, LineOfKind DEF OfKind
<1>3. IsMap(Methods[m].field)
  BY <1>1, MethodData
<1>. QED  BY <1>2, <1>3, MapBody

LEMMA DefaultsDeclared == Typed /\ Sourced => DefaultsDeclaredOnce
<1>. SUFFICES ASSUME Typed, Sourced, NEW to \in Where, NEW i \in OfKind(to, "method"),
                     NEW p \in DOMAIN Text(to, i).params
              PROVE  Text(to, i).params[p].optional <=>
                        /\ to # "SOURCE" /\ Text(to, i).params[p].name = "location"
                        /\ Get(input.config[SourceLocation], "value") # ""
  BY DEF DefaultsDeclaredOnce
<1>0. PICK param : param = Text(to, i).params[p]
  OBVIOUS
<1>1. PICK m \in Active :
          /\ \/ Text(to, i) = Declared(Methods[m], to) /\ to # "SOURCE"
             \/ Text(to, i) = Defined(Methods[m], to) /\ to # "INTERFACE"
          /\ GetTypeInfo(Methods[m].config, SourceLocation) = input.config[SourceLocation]
  BY MethodLine
<1>2. PICK t \in {"HEADER", "SOURCE"} : /\ Text(to, i).params = MethodParam(Methods[m], t)
                                        /\ t = "HEADER" <=> to # "SOURCE"
  <2>1. CASE Text(to, i) = Declared(Methods[m], to) /\ to # "SOURCE"
    <3>1. Text(to, i).params = MethodParam(Methods[m], "HEADER")
      BY <2>1, ParamsOf
    <3>. QED  BY <2>1, <3>1
  <2>2. CASE Text(to, i) = Defined(Methods[m], to) /\ to # "INTERFACE"
    <3>1. Text(to, i).params = MethodParam(Methods[m], to)
      BY <2>2, ParamsOf
    <3>. QED  BY <2>2, <3>1 DEF Where
  <2>. QED  BY <1>1, <2>1, <2>2
<1>3. param \in {ValueParam(Methods[m]), LocationParam(Methods[m], t)}
  <2>1. p \in DOMAIN MethodParam(Methods[m], t) /\ param = MethodParam(Methods[m], t)[p]
    BY <1>0, <1>2
  <2>2. param \in Elements(MethodParam(Methods[m], t))
    BY <2>1 DEF Elements
  <2>3. Elements(MethodParam(Methods[m], t)) =
            (IF Option(Methods[m], "value") # "" THEN {} ELSE {ValueParam(Methods[m])})
            \cup (IF Option(Methods[m], "add_source_location")
                    THEN {LocationParam(Methods[m], t)} ELSE {})
    BY MethodParams
  <2>. QED  BY <2>2, <2>3
<1>4. CASE param = ValueParam(Methods[m])
  <2>1. param.name # "location" /\ param.optional = FALSE
    BY <1>4, ParamNamed
  <2>. QED  BY <1>0, <2>1
<1>5. CASE param = LocationParam(Methods[m], t)
  <2>1. LocationParam(Methods[m], t).name = "location"
    BY ParamNamed
  <2>2. LocationParam(Methods[m], t).optional
            = (t = "HEADER" /\ Get(GetTypeInfo(Methods[m].config, SourceLocation), "value") # "")
    BY ParamNamed
  <2>3. param.name = "location"
    BY <1>5, <2>1
  <2>4. param.optional = (t = "HEADER" /\ Get(input.config[SourceLocation], "value") # "")
    BY <1>1, <1>5, <2>2
  <2>5. param.optional <=> t = "HEADER" /\ Get(input.config[SourceLocation], "value") # ""
    BY <2>4
  <2>6. t = "HEADER" <=> to # "SOURCE"
    BY <1>2
  <2>7. param.optional <=> to # "SOURCE" /\ param.name = "location"
                           /\ Get(input.config[SourceLocation], "value") # ""
    BY <2>3, <2>5, <2>6, Zenon
  <2>. QED  BY <1>0, <2>7, Zenon
<1>. QED  BY <1>3, <1>4, <1>5

LEMMA SourcedAlways == Spec => [](Typed /\ Sourced /\ Included)
<1>1. Typed /\ Sourced /\ Included /\ [Next]_vars => (Typed /\ Sourced /\ Included)'
  BY TypedStep, SourcedStep, IncludedStep
<1>. QED  BY TypedInit, SourcedInit, <1>1, PTL DEF Spec

\* Once a method takes a source location, the header includes what its type
\* needs, whichever annotation asked for it.
THEOREM TypesIncludedCorrect == Spec => []TypesIncluded
BY SourcedAlways, LocationIncluded, PTL

\* Whatever mix of annotations a map field has, apart from the one that the code
\* gets wrong, it is changed by `insert` or by a setter for one element.
THEOREM MapsAreInsertedCorrect == Spec => []MapsAreInserted
BY SourcedAlways, Inserted, PTL

\* Only declarations give the location a default, and all of them do if the
\* configuration has one.
THEOREM DefaultsDeclaredOnceCorrect == Spec => []DefaultsDeclaredOnce
BY SourcedAlways, DefaultsDeclared, PTL
=============================================================================
