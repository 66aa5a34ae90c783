------------------------- MODULE FieldMethodsProofs -------------------------
(***************************************************************************)
(* Proofs about the methods in the code for one field: how their lines     *)
(* follow each other, and that none is missing or written twice.           *)
(***************************************************************************)
EXTENDS FieldWriterProofs

(***************************************************************************)
(* ChangesGuarded: the line before a change, in the texts of a method, in  *)
(* the calls of WriteField and in the buffer.                              *)
(***************************************************************************)
GuardedTexts(texts) ==
    \A k \in DOMAIN texts : texts[k].kind = "change" => k > 1 /\ texts[k - 1].kind = "predicate"

GuardedCalls(calls) ==
    \A k \in DOMAIN calls : calls[k][2].kind = "change" =>
        k > 1 /\ calls[k - 1][1] = calls[k][1] /\ calls[k - 1][2].kind = "predicate"

\* A position is in the first or in the second of two sequences.
LEMMA Position ==
    ASSUME NEW s, NEW t, IsSeq(s), IsSeq(t), NEW k \in DOMAIN (s \o t)
    PROVE  /\ k \in Nat \ {0}
           /\ \/ k \in 1..Len(s) /\ (s \o t)[k] = s[k]
              \/ \E j \in 1..Len(t) : k = Len(s) + j /\ (s \o t)[k] = t[j]
<1>1. /\ Len(s) \in Nat /\ Len(t) \in Nat /\ k \in 1..Len(s) + Len(t)
      /\ \A i \in 1..Len(s) : (s \o t)[i] = s[i]
      /\ \A i \in 1..Len(t) : (s \o t)[Len(s) + i] = t[i]
  BY Concatenated, SeqFacts
<1>2. CASE k \in 1..Len(s)
  BY <1>1, <1>2
<1>3. CASE k \notin 1..Len(s)
  <2>1. PICK j : j = k - Len(s)
    OBVIOUS
  <2>2. j \in 1..Len(t) /\ k = Len(s) + j
    BY <1>1, <1>3, <2>1
  <2>. QED  BY <1>1, <2>2
<1>. QED  BY <1>2, <1>3

LEMMA GuardedTextsConcatenated ==
    ASSUME NEW s, NEW t, IsSeq(s), IsSeq(t), GuardedTexts(s), GuardedTexts(t)
    PROVE  GuardedTexts(s \o t)
<1>. SUFFICES ASSUME NEW k \in DOMAIN (s \o t), (s \o t)[k].kind = "change"
              PROVE  k > 1 /\ (s \o t)[k - 1].kind = "predicate"
  BY DEF GuardedTexts
<1>1. /\ Len(s) \in Nat /\ DOMAIN s = 1..Len(s) /\ DOMAIN t = 1..Len(t) /\ Len(t) \in Nat
      /\ \A i \in 1..Len(s) : (s \o t)[i] = s[i]
      /\ \A i \in 1..Len(t) : (s \o t)[Len(s) + i] = t[i]
  BY Concatenated, SeqFacts
<1>2. CASE k \in 1..Len(s) /\ (s \o t)[k] = s[k]
  <2>1. k > 1 /\ s[k - 1].kind = "predicate"
    BY <1>1, <1>2 DEF GuardedTexts
  <2>2. k - 1 \in 1..Len(s)
    BY <1>1, <1>2, <2>1
  <2>. QED  BY <1>1, <2>1, <2>2
<1>3. ASSUME NEW j \in 1..Len(t), k = Len(s) + j, (s \o t)[k] = t[j]
      PROVE  k > 1 /\ (s \o t)[k - 1].kind = "predicate"
  <2>1. j > 1 /\ t[j - 1].kind = "predicate"
    BY <1>1, <1>3 DEF GuardedTexts
  <2>2. j - 1 \in 1..Len(t) /\ k - 1 = Len(s) + (j - 1) /\ k > 1
    BY <1>1, <1>3, <2>1
  <2>3. (s \o t)[Len(s) + (j - 1)] = t[j - 1]
    BY <1>1, <2>2
  <2>. QED  BY <2>1, <2>2, <2>3
<1>. QED  BY <1>2, <1>3, Position

LEMMA GuardedCallsConcatenated ==
    ASSUME NEW s, NEW t, IsSeq(s), IsSeq(t), GuardedCalls(s), GuardedCalls(t)
    PROVE  GuardedCalls(s \o t)
<1>. SUFFICES ASSUME NEW k \in DOMAIN (s \o t), (s \o t)[k][2].kind = "change"
              PROVE  /\ k > 1 /\ (s \o t)[k - 1][1] = (s \o t)[k][1]
                     /\ (s \o t)[k - 1][2].kind = "predicate"
  BY DEF GuardedCalls
<1>1. /\ Len(s) \in Nat /\ DOMAIN s = 1..Len(s) /\ DOMAIN t = 1..Len(t) /\ Len(t) \in Nat
      /\ \A i \in 1..Len(s) : (s \o t)[i] = s[i]
      /\ \A i \in 1..Len(t) : (s \o t)[Len(s) + i] = t[i]
  BY Concatenated, SeqFacts
<1>2. CASE k \in 1..Len(s) /\ (s \o t)[k] = s[k]
  <2>1. k > 1 /\ s[k - 1][1] = s[k][1] /\ s[k - 1][2].kind = "predicate"
    BY <1>1, <1>2 DEF GuardedCalls
  <2>2. k - 1 \in 1..Len(s)
    BY <1>1, <1>2, <2>1
  <2>3. (s \o t)[k - 1] = s[k - 1]
    BY <1>1, <2>2
  <2>. QED  BY <1>2, <2>1, <2>3
<1>3. ASSUME NEW j \in 1..Len(t), k = Len(s) + j, (s \o t)[k] = t[j]
      PROVE  /\ k > 1 /\ (s \o t)[k - 1][1] = (s \o t)[k][1]
             /\ (s \o t)[k - 1][2].kind = "predicate"
  <2>1. j > 1 /\ t[j - 1][1] = t[j][1] /\ t[j - 1][2].kind = "predicate"
    BY <1>1, <1>3 DEF GuardedCalls
  <2>2. j - 1 \in 1..Len(t) /\ k - 1 = Len(s) + (j - 1) /\ k > 1
    BY <1>1, <1>3, <2>1
  <2>3. (s \o t)[Len(s) + (j - 1)] = t[j - 1]
    BY <1>1, <2>2
  <2>. QED  BY <1>3, <2>1, <2>2, <2>3
<1>. QED  BY <1>2, <1>3, Position

LEMMA GuardedLines ==
    ASSUME NEW to, NEW texts, IsSeq(texts), GuardedTexts(texts)
    PROVE  GuardedCalls(Lines(to, texts))
<1>1. /\ DOMAIN texts = 1..Len(texts) /\ Len(texts) \in Nat
      /\ DOMAIN Lines(to, texts) = DOMAIN texts
      /\ \A k \in DOMAIN texts : Lines(to, texts)[k][1] = to /\ Lines(to, texts)[k][2] = texts[k]
  BY SeqFacts DEF Lines, At
<1>2. \A k \in DOMAIN texts : k > 1 => k - 1 \in DOMAIN texts
  BY <1>1
<1>. QED  BY <1>1, <1>2 DEF GuardedCalls, GuardedTexts

LEMMA NothingToGuard ==
    /\ \A s : (\A x \in Elements(s) : x.kind # "change") => GuardedTexts(s)
    /\ \A s : (\A c \in Elements(s) : c[2].kind # "change") => GuardedCalls(s)
BY DEF Elements, GuardedTexts, GuardedCalls

\* A text directly after a predicate.
LEMMA GuardedByLast ==
    ASSUME NEW s, IsSeq(s), \A x \in Elements(s) : x.kind # "change",
           NEW predicate, predicate.kind = "predicate", NEW body
    PROVE  /\ IsSeq((s \o <<predicate>>) \o <<body>>)
           /\ GuardedTexts((s \o <<predicate>>) \o <<body>>)
<1>. DEFINE c == s \o <<predicate>>
            e == c \o <<body>>
<1>1. /\ IsSeq(c) /\ Len(c) = Len(s) + 1 /\ Len(s) \in Nat
      /\ \A k \in 1..Len(s) : c[k] = s[k]
      /\ c[Len(s) + 1] = predicate
  <2>. DEFINE p == <<predicate>>
  <2>1. Len(s) \in Nat /\ IsSeq(p) /\ Len(p) = 1 /\ p[1] = predicate
    BY SeqFacts, OneLine
  <2>. HIDE DEF p
  <2>2. /\ IsSeq(s \o p) /\ Len(s \o p) = Len(s) + Len(p)
        /\ \A k \in 1..Len(s) : (s \o p)[k] = s[k]
        /\ \A k \in 1..Len(p) : (s \o p)[Len(s) + k] = p[k]
    <3>1. IsSeq(s) /\ IsSeq(p)
      BY <2>1
    <3>2. IsSeq(s \o p)
      BY <3>1, Concatenated
    <3>3. Len(s \o p) = Len(s) + Len(p)
      BY <3>1, Concatenated
    <3>4. \A k \in 1..Len(s) : (s \o p)[k] = s[k]
      BY <3>1, Concatenated
    <3>5. \A k \in 1..Len(p) : (s \o p)[Len(s) + k] = p[k]
      BY <3>1, Concatenated
    <3>. QED  BY <3>2, <3>3, <3>4, <3>5
  <2>. QED  BY <2>1, <2>2 DEF p
<1>. HIDE DEF c
<1>2. /\ IsSeq(e) /\ DOMAIN e = 1..Len(c) + 1
      /\ \A k \in 1..Len(c) : e[k] = c[k]
  <2>1. IsSeq(<<body>>) /\ Len(<<body>>) = 1
    BY OneLine
  <2>2. IsSeq(c) /\ IsSeq(<<body>>)
    BY <1>1, <2>1
  <2>3. /\ IsSeq(c \o <<body>>) /\ DOMAIN (c \o <<body>>) = 1..Len(c) + Len(<<body>>)
        /\ \A k \in 1..Len(c) : (c \o <<body>>)[k] = c[k]
    BY <2>2, Concatenated
  <2>. QED  BY <2>1, <2>3
<1>. HIDE DEF e
<1>3. \A k \in 1..Len(s) : e[k].kind # "change"
  <2>1. 1..Len(s) \subseteq 1..Len(c) /\ DOMAIN s = 1..Len(s)
    BY <1>1, SeqFacts
  <2>2. \A k \in 1..Len(s) : e[k] = s[k] /\ s[k] \in Elements(s)
    BY <1>1, <1>2, <2>1 DEF Elements
  <2>. QED  BY <2>2
<1>4. e[Len(s) + 1].kind = "predicate" /\ Len(s) + 1 \in 1..Len(c)
  <2>1. Len(s) + 1 \in 1..Len(c)
    BY <1>1
  <2>. QED  BY <1>1, <1>2, <2>1
<1>5. ASSUME NEW k \in DOMAIN e, e[k].kind = "change"
      PROVE  k > 1 /\ e[k - 1].kind = "predicate"
  <2>1. k \in 1..Len(s) \/ k = Len(s) + 1 \/ k = Len(s) + 2
    BY <1>1, <1>2
  <2>2. k = Len(s) + 2
    BY <1>3, <1>4, <1>5, <2>1
  <2>3. k > 1 /\ k - 1 = Len(s) + 1
    BY <1>1, <2>2
  <2>. QED  BY <1>4, <2>3
<1>6. IsSeq(e) /\ GuardedTexts(e)
  BY <1>2, <1>5 DEF GuardedTexts
<1>. QED  BY <1>6 DEF c, e

\* The predicate is the line before the body.
LEMMA ImplementationGuarded ==
    ASSUME NEW d, "predicate" \in DOMAIN d.raw_field_options, NEW to
    PROVE  GuardedCalls(Implementation(d, to))
<1>. DEFINE override == to = "HEADER" /\ Get(d.raw_field_options, "override")
            signature == Signature(d, to, MethodParam(d, to), FALSE, override, TRUE)
            a == <<Empty>> \o TemplateLine(d)
            b == a \o <<signature>>
            e == (b \o PredicateLines(d)) \o <<Body(d)>>
            f == <<End, Empty>>
<1>1. Implementation(d, to) = Lines(to, e \o f)
  BY DEF Implementation, End
<1>2. signature.kind = "method"
  BY DEF Signature
<1>. HIDE DEF signature
<1>3. IsSeq(b) /\ \A x \in Elements(b) : x.kind # "change"
  <2>1. /\ IsSeq(<<Empty>>) /\ IsSeq(<<signature>>) /\ Elements(<<Empty>>) = {Empty}
        /\ Elements(<<signature>>) = {signature}
    BY OneLine
  <2>2. IsSeq(TemplateLine(d)) /\ \A x \in Elements(TemplateLine(d)) : x.kind # "change"
    BY TemplateTexts
  <2>3. IsSeq(a) /\ Elements(a) = {Empty} \cup Elements(TemplateLine(d))
    BY <2>1, <2>2, Concatenated, ConcatenatedElements
  <2>. HIDE DEF a
  <2>4. IsSeq(b) /\ Elements(b) = Elements(a) \cup {signature}
    BY <2>1, <2>3, Concatenated, ConcatenatedElements
  <2>. QED  BY <1>2, <2>2, <2>3, <2>4, EmptyAssumption
<1>. HIDE DEF a, b
<1>4. PICK predicate : PredicateLines(d) = <<predicate>> /\ predicate.kind = "predicate"
  BY DEF PredicateLines
<1>5. IsSeq(e) /\ GuardedTexts(e)
  BY <1>3, <1>4, GuardedByLast
<1>6. IsSeq(f) /\ GuardedTexts(f)
  <2>1. IsSeq(f) /\ Elements(f) = {End, Empty}
    BY TwoLines
  <2>2. End.kind # "change" /\ Empty.kind # "change"
    BY EmptyAssumption DEF End
  <2>. QED  BY <2>1, <2>2, NothingToGuard
<1>. HIDE DEF e, f
<1>7. IsSeq(e \o f) /\ GuardedTexts(e \o f)
  BY <1>5, <1>6, Concatenated, GuardedTextsConcatenated
<1>. QED  BY <1>1, <1>7, GuardedLines

LEMMA WriteFieldGuarded ==
    ASSUME NEW d, "predicate" \in DOMAIN d.raw_field_options
    PROVE  GuardedCalls(WriteField(d))
<1>1. GuardedCalls(<<>>)
  BY NoLines DEF GuardedCalls
<1>2. GuardedCalls(Error(d))
  <2>1. \A c \in Elements(Error(d)) : c[2].kind # "change"
    BY ErrorElements, EmptyAssumption DEF At, ErrorText
  <2>. QED  BY <2>1, NothingToGuard
<1>3. \A to : GuardedCalls(Implementation(d, to))
  BY ImplementationGuarded
<1>4. \A to : GuardedCalls(Declaration(d, to))
  <2>. SUFFICES ASSUME NEW to PROVE GuardedCalls(Declaration(d, to))
    OBVIOUS
  <2>1. \A x \in {Declared(d, to)} \cup Elements(TemplateLine(d)) : x.kind # "change"
    BY TemplateTexts, ParamsOf
  <2>2. \A x \in Elements(SetFromBuilder(d)) : x.kind # "change"
    BY BuilderTexts, EmptyAssumption
  <2>3. \A c \in Elements(Declaration(d, to)) :
            \E t, x : c = At(t, x) /\ x.kind # "change"
    BY <2>1, <2>2, DeclarationElements
  <2>4. \A c \in Elements(Declaration(d, to)) : c[2].kind # "change"
    BY <2>3 DEF At
  <2>. QED  BY <2>4, NothingToGuard
<1>5. /\ GuardedCalls(HeaderLines(d)) /\ GuardedCalls(SourceLines(d))
      /\ GuardedCalls(InterfaceLines(d))
  BY <1>1, <1>3, <1>4 DEF HeaderLines, SourceLines, InterfaceLines
<1>6. GuardedCalls((HeaderLines(d) \o SourceLines(d)) \o InterfaceLines(d))
  <2>1. /\ IsSeq(HeaderLines(d)) /\ IsSeq(SourceLines(d)) /\ IsSeq(InterfaceLines(d))
        /\ IsSeq(HeaderLines(d) \o SourceLines(d))
    BY WriteFieldParts
  <2>2. GuardedCalls(HeaderLines(d) \o SourceLines(d))
    BY <1>5, <2>1, GuardedCallsConcatenated
  <2>. QED  BY <1>5, <2>1, <2>2, GuardedCallsConcatenated
<1>7. WriteField(d) = IF Output(d) = "SKIP" THEN <<>>
                      ELSE IF ~ IsValid(d) THEN Error(d)
                      ELSE (HeaderLines(d) \o SourceLines(d)) \o InterfaceLines(d)
  BY WriteFieldParts
<1>. QED  BY <1>1, <1>2, <1>6, <1>7

\* Every change that is written or about to be follows a predicate.
Guarded ==
    AllActive(LAMBDA d : "predicate" \in DOMAIN d.raw_field_options) =>
        /\ \A to \in Where : \A i \in OfKind(to, "change") : i - 1 \in OfKind(to, "predicate")
        /\ \A k \in DOMAIN pending : pending[k][2].kind = "change" =>
              \/ /\ k > 1 /\ pending[k - 1][1] = pending[k][1]
                 /\ pending[k - 1][2].kind = "predicate"
              \/ k = 1 /\ Len(buffer[pending[1][1]]) \in OfKind(pending[1][1], "predicate")

LEMMA GuardedInit == Init => Guarded
BY DEF Init, WriterInit, Guarded, OfKind

\* The lines of a kind after a call of Write.
LEMMA OfKindWritten ==
    ASSUME Typed, NEW to \in Where, NEW text, Write(to, text), NEW kind, kind # "empty"
    PROVE  /\ \A w \in Where \ {to} : OfKind(w, kind)' = OfKind(w, kind)
           /\ \A w \in Where : OfKind(w, kind) \subseteq 1..Len(buffer[w]) /\ Len(buffer[w]) \in Nat
           /\ text # Empty => Len(buffer'[to]) = Len(buffer[to]) + 1
           /\ OfKind(to, kind)' = IF text.kind = kind THEN OfKind(to, kind) \cup {Len(buffer[to]) + 1}
                                  ELSE OfKind(to, kind)
           /\ \A w \in Where : \A i \in 1..Len(buffer[w]) : Text(w, i)' = Text(w, i)
           /\ text # Empty => buffer'[to][Len(buffer[to]) + 1].text = text
<1>1. /\ \A w \in Where \ {to} : buffer'[w] = buffer[w]
      /\ \/ buffer'[to] = Append(buffer[to], Indent(to, text))
         \/ buffer'[to] = buffer[to] /\ text = Empty
  BY WriteEffect
<1>2. \A w \in Where : /\ Len(buffer[w]) \in Nat /\ DOMAIN buffer[w] = 1..Len(buffer[w])
                        /\ OfKind(w, kind) \subseteq 1..Len(buffer[w])
  BY SeqFacts DEF Typed, OfKind
<1>3. \A w \in Where \ {to} : /\ OfKind(w, kind)' = OfKind(w, kind)
                              /\ \A i : Text(w, i)' = Text(w, i)
  BY <1>1 DEF OfKind, Text
<1>4. Empty.kind # kind
  BY EmptyAssumption
<1>5. CASE buffer'[to] = buffer[to] /\ text = Empty
  <2>1. OfKind(to, kind)' = OfKind(to, kind) /\ \A i : Text(to, i)' = Text(to, i)
    BY <1>5 DEF OfKind, Text
  <2>. QED  BY <1>2, <1>3, <1>4, <1>5, <2>1
<1>6. CASE buffer'[to] = Append(buffer[to], Indent(to, text))
  <2>. DEFINE n == Len(buffer[to])
  <2>1. /\ DOMAIN buffer'[to] = 1..n + 1 /\ Len(buffer'[to]) = n + 1
        /\ \A i \in 1..n : buffer'[to][i] = buffer[to][i]
        /\ buffer'[to][n + 1] = Indent(to, text)
    BY <1>6, Appended DEF Typed
  <2>2. PICK m : m = n
    OBVIOUS
  <2>3. /\ \A i \in 1..m : Text(to, i)' = Text(to, i)
        /\ Text(to, m + 1)' = text
    <3>1. Indent(to, text).text = text
      BY DEF Indent
    <3>2. buffer'[to][m + 1].text = text /\ \A i \in 1..m : buffer'[to][i].text = buffer[to][i].text
      BY <2>1, <2>2, <3>1
    <3>. QED  BY <3>2 DEF Text
  <2>4. DOMAIN buffer'[to] = 1..m \cup {m + 1} /\ m \in Nat
    BY <1>2, <2>1, <2>2
  <2>5. OfKind(to, kind)' = {i \in 1..m \cup {m + 1} : Text(to, i)'.kind = kind}
    BY <2>4 DEF OfKind
  <2>6. OfKind(to, kind) = {i \in 1..m : Text(to, i).kind = kind}
    BY <1>2, <2>2 DEF OfKind
  <2>7. OfKind(to, kind)' = IF text.kind = kind THEN OfKind(to, kind) \cup {m + 1}
                           ELSE OfKind(to, kind)
    BY <2>3, <2>5, <2>6
  <2>8. /\ OfKind(to, kind)' = IF text.kind = kind THEN OfKind(to, kind) \cup {Len(buffer[to]) + 1}
                              ELSE OfKind(to, kind)
        /\ \A i \in 1..Len(buffer[to]) : Text(to, i)' = Text(to, i)
    BY <2>2, <2>3, <2>7
  <2>9. buffer'[to][Len(buffer[to]) + 1].text = text /\ Len(buffer'[to]) = Len(buffer[to]) + 1
    <3>1. Indent(to, text).text = text
      BY DEF Indent
    <3>. QED  BY <2>1, <3>1
  <2>. QED  BY <1>2, <1>3, <2>8, <2>9
<1>. QED  BY <1>1, <1>5, <1>6

LEMMA GuardedStep == Typed /\ Guarded /\ [Next]_vars => Guarded'
<1>. SUFFICES ASSUME Typed, Guarded, [Next]_vars,
                     \A m \in Active : "predicate" \in DOMAIN Methods[m].raw_field_options
              PROVE  /\ \A to \in Where : \A i \in OfKind(to, "change")' :
                            i - 1 \in OfKind(to, "predicate")'
                     /\ \A k \in DOMAIN pending' : pending'[k][2].kind = "change" =>
                           \/ /\ k > 1 /\ pending'[k - 1][1] = pending'[k][1]
                              /\ pending'[k - 1][2].kind = "predicate"
                           \/ /\ k = 1
                              /\ Len(buffer'[pending'[1][1]]) \in OfKind(pending[1][1], "predicate")'
  BY AnnotationsKept DEF Guarded, AllActive
<1>1. /\ \A to \in Where : \A i \in OfKind(to, "change") : i - 1 \in OfKind(to, "predicate")
      /\ \A k \in DOMAIN pending : pending[k][2].kind = "change" =>
            \/ /\ k > 1 /\ pending[k - 1][1] = pending[k][1]
               /\ pending[k - 1][2].kind = "predicate"
            \/ k = 1 /\ Len(buffer[pending[1][1]]) \in OfKind(pending[1][1], "predicate")
  BY DEF Guarded, AllActive
<1>2. ASSUME buffer' = buffer
      PROVE  \A to \in Where : \A i \in OfKind(to, "change")' : i - 1 \in OfKind(to, "predicate")'
  BY <1>1, <1>2 DEF OfKind, Text
<1>3. CASE SkipMethod \/ Die \/ UNCHANGED vars
  <2>1. UNCHANGED <<buffer, pending>>
    BY <1>3 DEF SkipMethod, Die, vars, writerVars
  <2>2. \A to : OfKind(to, "predicate")' = OfKind(to, "predicate")
    BY <2>1 DEF OfKind, Text
  <2>. QED  BY <1>1, <1>2, <2>1, <2>2
<1>4. CASE WriteMethod
  <2>1. pending' = WriteField(Methods[method]) /\ buffer' = buffer
        /\ (WriteField(Methods[method]) # <<>> => method \in Active)
    BY <1>4, MethodWritten
  <2>2. GuardedCalls(pending')
    <3>1. CASE WriteField(Methods[method]) = <<>>
      BY <2>1, <3>1, NoLines DEF GuardedCalls
    <3>2. CASE method \in Active
      BY <2>1, <3>2, WriteFieldGuarded
    <3>. QED  BY <2>1, <3>1, <3>2
  <2>. QED  BY <1>2, <2>1, <2>2 DEF GuardedCalls
<1>5. CASE EndBuilder
  <2>1. buffer' = buffer
    BY <1>5 DEF EndBuilder, writerVars
  <2>2. pending' = <<At("HEADER", Empty), At("SOURCE", Empty), At("INTERFACE", Empty)>>
    BY <1>5 DEF EndBuilder
  <2>3. \A k \in DOMAIN pending' : pending'[k][2] = Empty
    BY <2>2, ThreeLines DEF At
  <2>. QED  BY <1>2, <2>1, <2>3, EmptyAssumption
<1>6. CASE WriteLine
  <2>1. PICK w, text : w = Head(pending)[1] /\ text = Head(pending)[2]
    OBVIOUS
  <2>2. /\ pending # <<>> /\ pending' = Tail(pending) /\ Write(w, text)
        /\ w \in Where /\ pending[1][1] = w /\ pending[1][2] = text /\ 1 \in DOMAIN pending
    BY <1>6, <2>1, TailFacts DEF WriteLine, Typed, TypeOK
  <2>3. PICK n : n = Len(buffer[w])
    OBVIOUS
  <2>4. /\ \A to \in Where \ {w} : /\ OfKind(to, "change")' = OfKind(to, "change")
                                   /\ OfKind(to, "predicate")' = OfKind(to, "predicate")
        /\ OfKind(w, "change")' = IF text.kind = "change" THEN OfKind(w, "change") \cup {n + 1}
                                  ELSE OfKind(w, "change")
        /\ OfKind(w, "predicate")' = IF text.kind = "predicate" THEN OfKind(w, "predicate") \cup {n + 1}
                                     ELSE OfKind(w, "predicate")
        /\ text # Empty => Len(buffer'[w]) = n + 1
        /\ n \in Nat
    <3>1. /\ \A to \in Where \ {w} : OfKind(to, "change")' = OfKind(to, "change")
          /\ OfKind(w, "change")' = IF text.kind = "change" THEN OfKind(w, "change") \cup {n + 1}
                                    ELSE OfKind(w, "change")
          /\ text # Empty => Len(buffer'[w]) = n + 1
          /\ n \in Nat
      BY <2>2, <2>3, OfKindWritten
    <3>2. /\ \A to \in Where \ {w} : OfKind(to, "predicate")' = OfKind(to, "predicate")
          /\ OfKind(w, "predicate")' = IF text.kind = "predicate" THEN OfKind(w, "predicate") \cup {n + 1}
                                       ELSE OfKind(w, "predicate")
      BY <2>2, <2>3, OfKindWritten
    <3>. QED  BY <3>1, <3>2
  <2>5. text.kind = "change" => n \in OfKind(w, "predicate")
    BY <1>1, <2>2, <2>3
  <2>6. ASSUME NEW to \in Where, NEW i \in OfKind(to, "change")'
        PROVE  i - 1 \in OfKind(to, "predicate")'
    <3>1. CASE i \in OfKind(to, "change")
      <4>1. i - 1 \in OfKind(to, "predicate")
        BY <1>1, <3>1
      <4>. QED  BY <2>4, <4>1
    <3>2. CASE to = w /\ i = n + 1 /\ text.kind = "change"
      <4>1. i - 1 = n
        BY <2>4, <3>2
      <4>. QED  BY <2>4, <2>5, <3>2, <4>1
    <3>. QED  BY <2>4, <2>6, <3>1, <3>2
  <2>7. ASSUME NEW k \in DOMAIN pending', pending'[k][2].kind = "change"
        PROVE  \/ /\ k > 1 /\ pending'[k - 1][1] = pending'[k][1]
                  /\ pending'[k - 1][2].kind = "predicate"
               \/ /\ k = 1
                  /\ Len(buffer'[pending'[1][1]]) \in OfKind(pending[1][1], "predicate")'
    <3>1. /\ k \in Nat \ {0} /\ k + 1 \in DOMAIN pending /\ pending'[k] = pending[k + 1]
          /\ \A l \in DOMAIN pending' : pending'[l] = pending[l + 1]
          /\ k > 1 => k - 1 \in DOMAIN pending'
      BY <2>2, TailFacts DEF Typed
    <3>2. pending[k][1] = pending[k + 1][1] /\ pending[k][2].kind = "predicate"
      <4>1. k + 1 # 1 /\ (k + 1) - 1 = k
        BY <3>1
      <4>2. pending[k + 1][2].kind = "change"
        BY <2>7, <3>1
      <4>. QED  BY <1>1, <3>1, <4>1, <4>2
    <3>3. CASE k > 1
      <4>1. pending'[k - 1] = pending[(k - 1) + 1] /\ (k - 1) + 1 = k
        BY <3>1, <3>3
      <4>. QED  BY <3>1, <3>2, <3>3, <4>1
    <3>4. CASE k = 1
      <4>1. text.kind = "predicate" /\ pending'[1][1] = w
        BY <2>2, <3>1, <3>2, <3>4
      <4>2. n + 1 \in OfKind(w, "predicate")' /\ Len(buffer'[w]) = n + 1
        BY <2>4, <4>1, EmptyAssumption
      <4>3. Len(buffer'[pending'[1][1]]) \in OfKind(pending[1][1], "predicate")'
        BY <4>1, <4>2 DEF OfKind, Text
      <4>. QED  BY <3>4, <4>3
    <3>. QED  BY <3>1, <3>3, <3>4
  <2>. QED  BY <2>6, <2>7
<1>. QED  BY <1>3, <1>4, <1>5, <1>6 DEF Next

\* If all annotations of a field have a predicate, it is asked directly before
\* every change to the field, in every target, whatever the modes and options.
THEOREM ChangesGuardedCorrect == Spec => []ChangesGuarded
<1>1. Guarded => ChangesGuarded
  BY DEF Guarded, ChangesGuarded
<1>. QED  BY TypedInit, TypedStep, GuardedInit, GuardedStep, <1>1, PTL DEF Spec

(***************************************************************************)
(* Nothing that WriteField writes for an annotation gets lost on its way.  *)
(***************************************************************************)
Complete ==
    /\ pc = "end" => method \notin DOMAIN Methods
    /\ \A m \in Active : m < method =>
          \A to \in Where : \A text :
              At(to, text) \in Elements(WriteField(Methods[m])) /\ text # Empty =>
                  \/ \E i \in DOMAIN buffer[to] : buffer[to][i].text = text
                  \/ At(to, text) \in Elements(pending)

LEMMA CompleteInit == Init => Complete
<1>. SUFFICES ASSUME Init PROVE Complete
  OBVIOUS
<1>1. \A m \in Active : m \in Nat \ {0}
  BY MethodsFacts, InputAssumption DEF Init, Active
<1>2. method = 1 /\ pc = "methods"
  BY DEF Init
<1>3. \A m \in Active : ~ m < method
  BY <1>1, <1>2
<1>. QED  BY <1>2, <1>3 DEF Complete

LEMMA CompleteStep == Typed /\ Complete /\ [Next]_vars => Complete'
<1>. SUFFICES ASSUME Typed, Complete, [Next]_vars PROVE Complete'
  OBVIOUS
<1>1. /\ Methods' = Methods /\ Active' = Active /\ method \in Nat
      /\ method' = method \/ method' = method + 1
  BY AnnotationsKept
<1>2. ASSUME pc' = "end" PROVE method' \notin DOMAIN Methods'
  <2>1. CASE pc = "end"
    <3>1. method' = method
      BY <2>1 DEF Next, SkipMethod, Die, WriteMethod, AtMethod, EndBuilder, WriteLine, vars
    <3>. QED  BY <1>1, <2>1, <3>1 DEF Complete
  <2>2. CASE pc # "end"
    <3>1. EndBuilder
      BY <1>2, <2>2 DEF Next, SkipMethod, Die, WriteMethod, EndBuilder, WriteLine, vars
    <3>. QED  BY <1>1, <3>1 DEF EndBuilder
  <2>. QED  BY <2>1, <2>2
<1>3. ASSUME NEW m \in Active, m < method', NEW to \in Where, NEW text, text # Empty,
             At(to, text) \in Elements(WriteField(Methods[m]))
      PROVE  \/ \E i \in DOMAIN buffer'[to] : buffer'[to][i].text = text
             \/ At(to, text) \in Elements(pending')
  <2>1. m \in Nat
    BY MethodsFacts DEF Active, Typed, TypeOK
  <2>2. CASE ~ m < method
    <3>1. m = method /\ method' = method + 1
      BY <1>1, <1>3, <2>1, <2>2
    <3>2. WriteMethod \/ SkipMethod
      BY <1>1, <3>1 DEF Next, Die, EndBuilder, WriteLine, vars
    <3>3. ~ SkipMethod
      BY <1>3, <3>1 DEF SkipMethod, Active
    <3>4. pending' = WriteField(Methods[m])
      BY <3>1, <3>2, <3>3 DEF WriteMethod
    <3>. QED  BY <1>3, <3>4
  <2>3. CASE m < method
    <3>1. \/ \E i \in DOMAIN buffer[to] : buffer[to][i].text = text
          \/ At(to, text) \in Elements(pending)
      BY <1>3, <2>3 DEF Complete
    <3>2. CASE buffer' = buffer /\ pending = <<>>
      BY <3>1, <3>2, NoLines
    <3>3. CASE UNCHANGED <<buffer, pending>>
      BY <3>1, <3>3
    <3>4. CASE WriteLine
      <4>1. PICK w, x : w = Head(pending)[1] /\ x = Head(pending)[2]
        OBVIOUS
      <4>2. /\ pending # <<>> /\ pending' = Tail(pending) /\ Write(w, x) /\ w \in Where
            /\ pending[1] = At(w, x) /\ DOMAIN pending = 1..Len(pending) /\ Len(pending) \in Nat
            /\ DOMAIN pending' = 1..Len(pending) - 1
            /\ \A k \in DOMAIN pending' : pending'[k] = pending[k + 1]
        BY <3>4, <4>1, TailFacts DEF WriteLine, Typed, TypeOK
      <4>3. /\ \A u \in Where \ {w} : buffer'[u] = buffer[u]
            /\ \/ buffer'[w] = Append(buffer[w], Indent(w, x))
               \/ buffer'[w] = buffer[w] /\ x = Empty
        BY <4>2, WriteEffect
      <4>4. CASE \E i \in DOMAIN buffer[to] : buffer[to][i].text = text
        <5>1. CASE buffer'[to] = buffer[to]
          BY <4>4, <5>1
        <5>2. CASE buffer'[to] = Append(buffer[to], Indent(to, x))
          <6>1. PICK i \in DOMAIN buffer[to] : buffer[to][i].text = text
            BY <4>4
          <6>2. i \in DOMAIN buffer'[to] /\ buffer'[to][i] = buffer[to][i]
            BY <5>2, Appended DEF Typed
          <6>. QED  BY <6>1, <6>2
        <5>. QED  BY <4>3, <5>1, <5>2
      <4>5. CASE At(to, text) \in Elements(pending)
        <5>1. PICK k \in DOMAIN pending : pending[k] = At(to, text)
          BY <4>5 DEF Elements
        <5>2. CASE k = 1
          <6>1. w = to /\ x = text
            BY <4>2, <5>1, <5>2 DEF At
          <6>2. buffer'[to] = Append(buffer[to], Indent(to, text))
            BY <1>3, <4>3, <6>1
          <6>3. /\ Len(buffer[to]) + 1 \in DOMAIN buffer'[to]
                /\ buffer'[to][Len(buffer[to]) + 1] = Indent(to, text)
            BY <6>2, Appended DEF Typed
          <6>4. Indent(to, text).text = text
            BY DEF Indent
          <6>. QED  BY <6>3, <6>4
        <5>3. CASE k # 1
          <6>1. k - 1 \in DOMAIN pending' /\ (k - 1) + 1 = k
            BY <4>2, <5>3
          <6>2. pending'[k - 1] = At(to, text)
            BY <4>2, <5>1, <6>1
          <6>. QED  BY <6>1, <6>2 DEF Elements
        <5>. QED  BY <5>2, <5>3
      <4>. QED  BY <3>1, <4>4, <4>5
    <3>5. \/ buffer' = buffer /\ pending = <<>>
          \/ UNCHANGED <<buffer, pending>>
          \/ WriteLine
      BY DEF Next, SkipMethod, Die, WriteMethod, AtMethod, EndBuilder, vars, writerVars
    <3>. QED  BY <3>2, <3>3, <3>4, <3>5
  <2>. QED  BY <2>2, <2>3
<1>. QED  BY <1>1, <1>2, <1>3 DEF Complete

\* In the end all of it is there.
LEMMA AllThere ==
    ASSUME Typed, Complete, Written, NEW m \in Active, NEW to \in Where, NEW text,
           text # Empty, At(to, text) \in Elements(WriteField(Methods[m]))
    PROVE  \E i \in DOMAIN buffer[to] : Text(to, i) = text
<1>1. m < method
  <2>1. /\ m \in 1..Len(Methods) /\ method \in 1..Len(Methods) + 1 /\ Len(Methods) \in Nat
        /\ method \notin 1..Len(Methods)
    BY MethodsFacts DEF Typed, TypeOK, Active, Written, Complete
  <2>. QED  BY <2>1
<1>2. At(to, text) \notin Elements(pending)
  BY NoLines DEF Written
<1>. QED  BY <1>1, <1>2 DEF Complete, Text

\* Where the header has a method of an annotation, and what it is.
LEMMA HeaderMethod ==
    ASSUME NEW d, IsValid(d), UseHeader(d)
    PROVE  \E x \in {Declared(d, "HEADER"), Defined(d, "HEADER")} :
              At("HEADER", x) \in Elements(WriteField(d))
<1>1. \E x \in {Declared(d, "HEADER"), Defined(d, "HEADER")} :
          At("HEADER", x) \in Elements(HeaderLines(d))
  <2>1. At("HEADER", Defined(d, "HEADER")) \in Elements(Implementation(d, "HEADER"))
    BY ImplementationElements
  <2>2. At("HEADER", Declared(d, "HEADER")) \in Elements(Declaration(d, "HEADER"))
    BY DeclarationElements
  <2>. QED  BY <2>1, <2>2 DEF HeaderLines
<1>2. Output(d) # "SKIP"
  BY DEF UseHeader
<1>. QED  BY <1>1, <1>2, WriteFieldParts

LEMMA InterfaceKept == Typed /\ Sourced /\ Complete => InterfaceImplemented
<1>. SUFFICES ASSUME Typed, Sourced, Complete, Written, \A m \in Active : Output(Methods[m]) # "SOURCE",
                     NEW i \in OfKind("INTERFACE", "method")
              PROVE  \E j \in OfKind("HEADER", "method") :
                        /\ Overload(Text("HEADER", j)) = Overload(Text("INTERFACE", i))
                        /\ Text("HEADER", j).override \/ Text("HEADER", j).defined
  BY DEF InterfaceImplemented, AllActive
<1>1. "INTERFACE" \in Where /\ "HEADER" \in Where
  BY DEF Where
<1>2. PICK m \in Active : /\ m \in DOMAIN Methods
                          /\ At("INTERFACE", Text("INTERFACE", i)) \in Elements(WriteField(Methods[m]))
  BY <1>1, LineSourced
<1>3. PICK d : d = Methods[m]
  OBVIOUS
<1>4. Text("INTERFACE", i).kind = "method"
  BY DEF OfKind
<1>5. /\ IsValid(d) /\ d.make_interface /\ Output(d) # "SKIP"
      /\ Text("INTERFACE", i) = Declared(d, "INTERFACE")
  <2>1. At("INTERFACE", Text("INTERFACE", i)) \in Elements(WriteField(d))
    BY <1>2, <1>3
  <2>2. /\ Text("INTERFACE", i).kind = "error" <=> ~ IsValid(d) /\ Text("INTERFACE", i) # Empty
        /\ Text("INTERFACE", i).kind = "empty" <=> Text("INTERFACE", i) = Empty
        /\ Text("INTERFACE", i).kind = "method" =>
              \/ Text("INTERFACE", i) = Declared(d, "INTERFACE") /\ "INTERFACE" # "SOURCE"
              \/ Text("INTERFACE", i) = Defined(d, "INTERFACE") /\ "INTERFACE" # "INTERFACE"
    BY <2>1, LineOfKind
  <2>3. Output(d) # "SKIP" /\ d.make_interface
    BY <2>1, WriteFieldLine
  <2>. QED  BY <1>4, <2>2, <2>3
<1>6. UseHeader(d)
  BY <1>3, <1>5 DEF UseHeader
<1>7. PICK x \in {Declared(d, "HEADER"), Defined(d, "HEADER")} :
          At("HEADER", x) \in Elements(WriteField(d))
  BY <1>5, <1>6, HeaderMethod
<1>8. /\ x.kind = "method" /\ x.name = MethodName(d) /\ x.params = MethodParam(d, "HEADER")
      /\ Declared(d, "INTERFACE").name = MethodName(d)
      /\ Declared(d, "INTERFACE").params = MethodParam(d, "HEADER")
  <2>1. /\ Declared(d, "HEADER").name = MethodName(d) /\ Defined(d, "HEADER").name = MethodName(d)
        /\ Declared(d, "INTERFACE").name = MethodName(d)
    BY DEF Declared, Defined, Signature
  <2>. QED  BY <1>7, <2>1, ParamsOf
<1>9. x.override \/ x.defined
  <2>1. CASE x = Declared(d, "HEADER")
    BY <1>5, <2>1 DEF Declared, Signature
  <2>2. CASE x = Defined(d, "HEADER")
    BY <2>2 DEF Defined, Signature
  <2>. QED  BY <2>1, <2>2
<1>10. x # Empty
  BY <1>8, EmptyAssumption
<1>11. PICK j \in DOMAIN buffer["HEADER"] : Text("HEADER", j) = x
  BY <1>1, <1>2, <1>3, <1>7, <1>10, AllThere
<1>12. j \in OfKind("HEADER", "method")
  BY <1>8, <1>11 DEF OfKind
<1>13. Overload(x) = Overload(Declared(d, "INTERFACE"))
  BY <1>8 DEF Overload
<1>. QED  BY <1>5, <1>9, <1>11, <1>12, <1>13

LEMMA CompleteAlways == Spec => [](Typed /\ Sourced /\ Complete)
<1>1. Typed /\ Sourced /\ Complete /\ [Next]_vars => (Typed /\ Sourced /\ Complete)'
  BY TypedStep, SourcedStep, CompleteStep
<1>. QED  BY TypedInit, SourcedInit, CompleteInit, <1>1, PTL DEF Spec

\* A builder that has an interface overrides or defines every method that the
\* interface demands, with the same parameters, unless one is to be written by
\* hand.
THEOREM InterfaceImplementedCorrect == Spec => []InterfaceImplemented
BY CompleteAlways, InterfaceKept, PTL

(***************************************************************************)
(* How often a sequence has an element of X: never, or at one position.    *)
(***************************************************************************)
Hits(s, X) == {k \in DOMAIN s : s[k] \in X}
Single(s, X) == \E k : Hits(s, X) = {k}

LEMMA NoHits == \A s, X : Hits(s, X) = {} <=> Elements(s) \cap X = {}
BY DEF Hits, Elements

LEMMA OneHit == ASSUME NEW x, NEW X, x \in X PROVE Single(<<x>>, X)
<1>1. DOMAIN <<x>> = {1} /\ <<x>>[1] = x
  BY OneLine
<1>2. Hits(<<x>>, X) = {1}
  BY <1>1 DEF Hits
<1>. QED  BY <1>2 DEF Single

LEMMA HitsConcatenated ==
    ASSUME NEW s, NEW t, IsSeq(s), IsSeq(t), NEW X
    PROVE  /\ Hits(s, X) = {} /\ Hits(t, X) = {} => Hits(s \o t, X) = {}
           /\ Single(s, X) /\ Hits(t, X) = {} => Single(s \o t, X)
           /\ Hits(s, X) = {} /\ Single(t, X) => Single(s \o t, X)
<1>1. /\ Len(s) \in Nat /\ DOMAIN s = 1..Len(s) /\ DOMAIN t = 1..Len(t) /\ Len(t) \in Nat
      /\ DOMAIN (s \o t) = 1..Len(s) + Len(t)
      /\ \A i \in 1..Len(s) : (s \o t)[i] = s[i]
      /\ \A i \in 1..Len(t) : (s \o t)[Len(s) + i] = t[i]
  BY Concatenated, SeqFacts
<1>2. ASSUME NEW k \in Hits(s \o t, X)
      PROVE  k \in Hits(s, X) \/ \E j \in Hits(t, X) : k = Len(s) + j
  <2>1. k \in DOMAIN (s \o t) /\ (s \o t)[k] \in X
    BY DEF Hits
  <2>2. \/ k \in 1..Len(s) /\ (s \o t)[k] = s[k]
        \/ \E j \in 1..Len(t) : k = Len(s) + j /\ (s \o t)[k] = t[j]
    BY <2>1, Position
  <2>. QED  BY <1>1, <2>1, <2>2 DEF Hits
<1>3. ASSUME NEW k \in Hits(s, X) PROVE k \in Hits(s \o t, X)
  <2>1. k \in 1..Len(s) /\ s[k] \in X
    BY <1>1 DEF Hits
  <2>2. k \in DOMAIN (s \o t) /\ (s \o t)[k] \in X
    BY <1>1, <2>1
  <2>. QED  BY <2>2 DEF Hits
<1>4. ASSUME NEW j \in Hits(t, X) PROVE Len(s) + j \in Hits(s \o t, X)
  <2>1. j \in 1..Len(t) /\ t[j] \in X
    BY <1>1 DEF Hits
  <2>2. Len(s) + j \in DOMAIN (s \o t) /\ (s \o t)[Len(s) + j] \in X
    BY <1>1, <2>1
  <2>. QED  BY <2>2 DEF Hits
<1>5. ASSUME Hits(s, X) = {}, Hits(t, X) = {} PROVE Hits(s \o t, X) = {}
  BY <1>2, <1>5
<1>6. ASSUME Single(s, X), Hits(t, X) = {} PROVE Single(s \o t, X)
  <2>1. PICK k : Hits(s, X) = {k}
    BY <1>6 DEF Single
  <2>2. Hits(s \o t, X) = {k}
    BY <1>2, <1>3, <1>6, <2>1
  <2>. QED  BY <2>2 DEF Single
<1>7. ASSUME Hits(s, X) = {}, Single(t, X) PROVE Single(s \o t, X)
  <2>1. PICK j : Hits(t, X) = {j}
    BY <1>7 DEF Single
  <2>2. Hits(s \o t, X) = {Len(s) + j}
    BY <1>2, <1>4, <1>7, <2>1
  <2>. QED  BY <2>2 DEF Single
<1>. QED  BY <1>5, <1>6, <1>7

LEMMA HitsOfLines ==
    ASSUME NEW to, NEW texts, IsSeq(texts), NEW X
    PROVE  Hits(Lines(to, texts), X) = Hits(texts, {x \in Elements(texts) : At(to, x) \in X})
<1>1. /\ DOMAIN Lines(to, texts) = DOMAIN texts
      /\ \A k \in DOMAIN texts : Lines(to, texts)[k] = At(to, texts[k])
  BY SeqFacts DEF Lines
<1>. QED  BY <1>1 DEF Hits, Elements

LEMMA HitsOfToAll ==
    ASSUME NEW targets, IsSeq(targets), NEW text, NEW X
    PROVE  Hits(ToAll(targets, text), X) =
              Hits(targets, {to \in Elements(targets) : At(to, text) \in X})
<1>1. /\ DOMAIN ToAll(targets, text) = DOMAIN targets
      /\ \A k \in DOMAIN targets : ToAll(targets, text)[k] = At(targets[k], text)
  BY SeqFacts DEF ToAll
<1>. QED  BY <1>1 DEF Hits, Elements

\* A method is defined once in its implementation.
LEMMA ImplementationOnce ==
    ASSUME NEW d, NEW to, NEW X, At(to, Defined(d, to)) \in X,
           \A x \in {Empty, Body(d), End} \cup Elements(TemplateLine(d)) \cup Elements(PredicateLines(d)) :
               At(to, x) \notin X
    PROVE  Single(Implementation(d, to), X)
<1>. DEFINE a == <<Empty>> \o TemplateLine(d)
            m == <<Defined(d, to)>>
            b == a \o m
            p == PredicateLines(d)
            c == b \o p
            y == <<Body(d)>>
            e == c \o y
            f == <<End, Empty>>
            texts == e \o f
            Y == {x \in Elements(texts) : At(to, x) \in X}
<1>1. Implementation(d, to) = Lines(to, texts)
  BY DEF Implementation, End, Defined
<1>2. /\ IsSeq(<<Empty>>) /\ IsSeq(TemplateLine(d)) /\ IsSeq(m) /\ IsSeq(p) /\ IsSeq(y) /\ IsSeq(f)
      /\ Elements(<<Empty>>) = {Empty} /\ Elements(m) = {Defined(d, to)} /\ Elements(y) = {Body(d)}
      /\ Elements(f) = {End, Empty}
  BY TemplateTexts, PredicateTexts, OneLine, TwoLines
<1>3. IsSeq(a) /\ Elements(a) = {Empty} \cup Elements(TemplateLine(d))
  BY <1>2, Concatenated, ConcatenatedElements
<1>. HIDE DEF a, m, p, y, f
<1>4. IsSeq(b) /\ Elements(b) = Elements(a) \cup Elements(m)
  BY <1>2, <1>3, Concatenated, ConcatenatedElements
<1>. HIDE DEF b
<1>5. IsSeq(c) /\ Elements(c) = Elements(b) \cup Elements(p)
  BY <1>2, <1>4, Concatenated, ConcatenatedElements
<1>. HIDE DEF c
<1>6. IsSeq(e) /\ Elements(e) = Elements(c) \cup Elements(y)
  BY <1>2, <1>5, Concatenated, ConcatenatedElements
<1>. HIDE DEF e
<1>7. IsSeq(texts) /\ Elements(texts) = Elements(e) \cup Elements(f)
  BY <1>2, <1>6, Concatenated, ConcatenatedElements
<1>. HIDE DEF texts
<1>8. /\ Hits(a, Y) = {} /\ Hits(p, Y) = {} /\ Hits(y, Y) = {} /\ Hits(f, Y) = {}
  <2>1. \A x \in Elements(a) \cup Elements(p) \cup Elements(y) \cup Elements(f) : x \notin Y
    BY <1>2, <1>3 DEF p
  <2>. QED  BY <2>1, NoHits
<1>9. Single(m, Y)
  <2>1. Defined(d, to) \in Y
    BY <1>2, <1>4, <1>5, <1>6, <1>7
  <2>. HIDE DEF Y
  <2>. QED  BY <2>1, OneHit DEF m
<1>. HIDE DEF Y
<1>10. Single(b, Y)
  BY <1>2, <1>3, <1>8, <1>9, HitsConcatenated DEF b
<1>11. Single(c, Y)
  BY <1>2, <1>4, <1>8, <1>10, HitsConcatenated DEF c
<1>12. Single(e, Y)
  BY <1>2, <1>5, <1>8, <1>11, HitsConcatenated DEF e
<1>13. Single(texts, Y)
  BY <1>2, <1>6, <1>8, <1>12, HitsConcatenated DEF texts
<1>14. Hits(Lines(to, texts), X) = Hits(texts, Y)
  BY <1>7, HitsOfLines DEF Y
<1>. QED  BY <1>1, <1>13, <1>14 DEF Single

\* So is it declared, and so is the setter that takes a builder.
LEMMA DeclarationOnce ==
    ASSUME NEW d, NEW to, NEW X
    PROVE  /\ /\ At(to, Declared(d, to)) \in X
              /\ \A x \in Elements(TemplateLine(d)) : At(to, x) \notin X
              /\ \A x \in Elements(SetFromBuilder(d)) : At("HEADER", x) \notin X
              => Single(Declaration(d, to), X)
           /\ /\ ~ d.make_interface /\ UseSetFromBuilder(d)
              /\ At(to, Declared(d, to)) \notin X
              /\ \A x \in Elements(TemplateLine(d)) : At(to, x) \notin X
              /\ At("HEADER", Empty) \notin X
              /\ \A x \in Elements(SetFromBuilder(d)) : x # Empty => At("HEADER", x) \in X
              => Single(Declaration(d, to), X)
<1>. DEFINE t == TemplateLine(d)
            m == <<Declared(d, to)>>
            texts == t \o m
            a == Lines(to, texts)
            b == IF d.make_interface THEN <<>> ELSE Lines("HEADER", SetFromBuilder(d))
<1>1. Declaration(d, to) = a \o b
  BY DEF Declaration, Declared
<1>2. IsSeq(t) /\ IsSeq(m) /\ Elements(m) = {Declared(d, to)} /\ IsSeq(SetFromBuilder(d))
  BY TemplateTexts, BuilderTexts, OneLine
<1>. HIDE DEF m
<1>3. IsSeq(texts) /\ Elements(texts) = Elements(t) \cup Elements(m)
  BY <1>2, Concatenated, ConcatenatedElements
<1>4. /\ IsSeq(a) /\ Elements(a) = {At(to, x) : x \in Elements(texts)}
      /\ IsSeq(b) /\ Elements(b) \subseteq {At("HEADER", x) : x \in Elements(SetFromBuilder(d))}
  <2>. HIDE DEF texts
  <2>1. IsSeq(a) /\ Elements(a) = {At(to, x) : x \in Elements(texts)}
    BY <1>3, LinesOfTexts
  <2>2. /\ IsSeq(Lines("HEADER", SetFromBuilder(d)))
        /\ Elements(Lines("HEADER", SetFromBuilder(d)))
              = {At("HEADER", x) : x \in Elements(SetFromBuilder(d))}
    BY <1>2, LinesOfTexts
  <2>. HIDE DEF a
  <2>. QED  BY <2>1, <2>2, NoLines
<1>5. ASSUME At(to, Declared(d, to)) \in X, \A x \in Elements(t) : At(to, x) \notin X,
             \A x \in Elements(SetFromBuilder(d)) : At("HEADER", x) \notin X
      PROVE  Single(Declaration(d, to), X)
  <2>. DEFINE Y == {x \in Elements(texts) : At(to, x) \in X}
  <2>1. Hits(t, Y) = {} /\ Declared(d, to) \in Y
    <3>1. \A x \in Elements(t) : x \notin Y
      BY <1>5
    <3>2. Declared(d, to) \in Y
      BY <1>2, <1>3, <1>5
    <3>. QED  BY <3>1, <3>2, NoHits
  <2>. HIDE DEF Y
  <2>2. Single(m, Y)
    BY <2>1, OneHit DEF m
  <2>3. Single(texts, Y)
    BY <1>2, <2>1, <2>2, HitsConcatenated
  <2>. HIDE DEF texts
  <2>4. Hits(a, X) = Hits(texts, Y)
    BY <1>3, HitsOfLines DEF Y
  <2>5. Hits(b, X) = {}
    <3>1. \A x \in Elements(b) : x \notin X
      BY <1>4, <1>5
    <3>. QED  BY <3>1, NoHits
  <2>6. Single(a, X)
    BY <2>3, <2>4 DEF Single
  <2>. HIDE DEF a, b
  <2>. QED  BY <1>1, <1>4, <2>5, <2>6, HitsConcatenated
<1>6. ASSUME ~ d.make_interface, UseSetFromBuilder(d), At(to, Declared(d, to)) \notin X,
             \A x \in Elements(t) : At(to, x) \notin X, At("HEADER", Empty) \notin X,
             \A x \in Elements(SetFromBuilder(d)) : x # Empty => At("HEADER", x) \in X
      PROVE  Single(Declaration(d, to), X)
  <2>1. Hits(a, X) = {}
    <3>1. \A c \in Elements(a) : c \notin X
      BY <1>2, <1>3, <1>4, <1>6
    <3>. QED  BY <3>1, NoHits
  <2>2. PICK x : SetFromBuilder(d) = <<Empty, x, Empty>> /\ x.kind = "from_builder"
    BY <1>6 DEF SetFromBuilder
  <2>3. x # Empty /\ x \in Elements(SetFromBuilder(d)) /\ At("HEADER", x) \in X
    <3>1. x # Empty
      BY <2>2, EmptyAssumption
    <3>2. x \in Elements(SetFromBuilder(d))
      BY <2>2, ThreeLines
    <3>. QED  BY <1>6, <3>1, <3>2
  <2>4. Hits(Lines("HEADER", SetFromBuilder(d)), X) = {2}
    <3>1. /\ DOMAIN Lines("HEADER", SetFromBuilder(d)) = 1..3
          /\ Lines("HEADER", SetFromBuilder(d))[1] = At("HEADER", Empty)
          /\ Lines("HEADER", SetFromBuilder(d))[2] = At("HEADER", x)
          /\ Lines("HEADER", SetFromBuilder(d))[3] = At("HEADER", Empty)
      BY <2>2, ThreeLines DEF Lines
    <3>2. 1..3 = {1, 2, 3}
      OBVIOUS
    <3>. QED  BY <1>6, <2>3, <3>1, <3>2 DEF Hits
  <2>5. Single(b, X)
    BY <1>6, <2>4 DEF Single
  <2>. HIDE DEF a, b
  <2>. QED  BY <1>1, <1>4, <2>1, <2>5, HitsConcatenated
<1>. QED  BY <1>5, <1>6

\* An error is written once for each of its targets.
LEMMA ErrorOnce ==
    ASSUME NEW d, NEW to \in Elements(ErrorTargets(d)), NEW X,
           \A t : At(t, Empty) \notin X, \A t : At(t, ErrorText) \in X <=> t = to
    PROVE  Single(Error(d), X)
<1>. DEFINE targets == ErrorTargets(d)
            a == ToAll(targets, Empty)
            e == ToAll(targets, ErrorText)
<1>1. Error(d) = (a \o e) \o a
  BY DEF Error, ErrorText
<1>2. IsSeq(targets) /\ IsSeq(a) /\ IsSeq(e)
  BY ErrorTargetsFacts, ToAllFacts
<1>3. Single(targets, {to})
  <2>. DEFINE h == IF UseHeader(d) THEN <<"HEADER">> ELSE <<>>
              s == IF UseSource(d) THEN <<"SOURCE">> ELSE <<>>
              i == IF d.make_interface THEN <<"INTERFACE">> ELSE <<>>
  <2>1. targets = (h \o s) \o i
    BY DEF ErrorTargets
  <2>2. /\ IsSeq(h) /\ IsSeq(s) /\ IsSeq(i)
        /\ Elements(h) = IF UseHeader(d) THEN {"HEADER"} ELSE {}
        /\ Elements(s) = IF UseSource(d) THEN {"SOURCE"} ELSE {}
        /\ Elements(i) = IF d.make_interface THEN {"INTERFACE"} ELSE {}
    BY NoLines, OneLine
  <2>3. /\ UseHeader(d) => Single(h, {"HEADER"})
        /\ UseSource(d) => Single(s, {"SOURCE"})
        /\ d.make_interface => Single(i, {"INTERFACE"})
    BY OneHit
  <2>. HIDE DEF h, s, i
  <2>4. /\ to # "HEADER" => Hits(h, {to}) = {}
        /\ to # "SOURCE" => Hits(s, {to}) = {}
        /\ to # "INTERFACE" => Hits(i, {to}) = {}
    <3>1. /\ to # "HEADER" => Elements(h) \cap {to} = {}
          /\ to # "SOURCE" => Elements(s) \cap {to} = {}
          /\ to # "INTERFACE" => Elements(i) \cap {to} = {}
      BY <2>2
    <3>. QED  BY <3>1, NoHits
  <2>5. IsSeq(h \o s)
    BY <2>2, Concatenated
  <2>6. CASE to = "HEADER"
    <3>1. Single(h, {to})
      BY <2>3, <2>6, ErrorTargetsFacts
    <3>2. Single(h \o s, {to})
      BY <2>2, <2>4, <2>6, <3>1, HitsConcatenated
    <3>3. Single((h \o s) \o i, {to})
      BY <2>2, <2>4, <2>5, <2>6, <3>2, HitsConcatenated
    <3>. QED  BY <2>1, <3>3
  <2>7. CASE to = "SOURCE"
    <3>1. Single(s, {to})
      BY <2>3, <2>7, ErrorTargetsFacts
    <3>2. Single(h \o s, {to})
      BY <2>2, <2>4, <2>7, <3>1, HitsConcatenated
    <3>3. Single((h \o s) \o i, {to})
      BY <2>2, <2>4, <2>5, <2>7, <3>2, HitsConcatenated
    <3>. QED  BY <2>1, <3>3
  <2>8. CASE to = "INTERFACE"
    <3>1. Single(i, {to})
      BY <2>3, <2>8, ErrorTargetsFacts
    <3>2. Hits(h \o s, {to}) = {}
      BY <2>2, <2>4, <2>8, HitsConcatenated
    <3>3. Single((h \o s) \o i, {to})
      BY <2>2, <2>5, <3>1, <3>2, HitsConcatenated
    <3>. QED  BY <2>1, <3>3
  <2>. QED  BY <2>6, <2>7, <2>8, ErrorTargetsFacts DEF Where
<1>. HIDE DEF targets
<1>4. Hits(a, X) = {} /\ Single(e, X)
  <2>1. Hits(a, X) = Hits(targets, {t \in Elements(targets) : At(t, Empty) \in X})
    BY <1>2, HitsOfToAll
  <2>2. {t \in Elements(targets) : At(t, Empty) \in X} = {}
    OBVIOUS
  <2>3. Hits(targets, {}) = {}
    BY DEF Hits
  <2>4. Hits(e, X) = Hits(targets, {t \in Elements(targets) : At(t, ErrorText) \in X})
    BY <1>2, HitsOfToAll
  <2>5. {t \in Elements(targets) : At(t, ErrorText) \in X} = {to}
    BY DEF targets
  <2>. QED  BY <1>3, <2>1, <2>2, <2>3, <2>4, <2>5 DEF Single
<1>. HIDE DEF a, e
<1>5. Single(a \o e, X) /\ IsSeq(a \o e)
  BY <1>2, <1>4, HitsConcatenated, Concatenated
<1>. QED  BY <1>1, <1>2, <1>4, <1>5, HitsConcatenated

(***************************************************************************)
(* The lines of a class that WriteField writes for a target: methods or    *)
(* errors; declarations; definitions; setters that take builders.          *)
(***************************************************************************)
Classes == {"one", "declared", "defined", "builder"}

Is(class, x) ==
    \/ class = "one" /\ x.kind \in {"method", "error"}
    \/ class = "declared" /\ x.kind = "method" /\ x.defined = FALSE
    \/ class = "defined" /\ x.kind = "method" /\ x.defined = TRUE
    \/ class = "builder" /\ x.kind = "from_builder"

InHeader(d) == Output(d) # "SKIP" /\ UseHeader(d)
InSource(d) == Output(d) # "SKIP" /\ UseSource(d)
InInterface(d) == Output(d) # "SKIP" /\ d.make_interface
HeaderDefines(d) == UseTemplate(d) \/ UseForeach(d)

\* Whether one is due.
Due(class, to, d) ==
    \/ /\ class = "one"
       /\ \/ to = "HEADER" /\ InHeader(d)
          \/ to = "SOURCE" /\ InSource(d)
          \/ to = "INTERFACE" /\ InInterface(d)
    \/ /\ class = "declared" /\ IsValid(d)
       /\ \/ to = "HEADER" /\ InHeader(d) /\ ~ HeaderDefines(d)
          \/ to = "INTERFACE" /\ InInterface(d)
    \/ /\ class = "defined" /\ IsValid(d)
       /\ \/ to = "HEADER" /\ InHeader(d) /\ HeaderDefines(d)
          \/ to = "SOURCE" /\ InSource(d)
    \/ /\ class = "builder" /\ IsValid(d)
       /\ to = "HEADER" /\ InHeader(d) /\ ~ HeaderDefines(d)
       /\ ~ d.make_interface /\ UseSetFromBuilder(d)

LEMMA IsOfKind ==
    ASSUME NEW class \in Classes
    PROVE  /\ ~ Is(class, Empty) /\ ~ Is(class, End)
           /\ Is(class, ErrorText) <=> class = "one"
           /\ \A d : ~ Is(class, Body(d))
           /\ \A d : \A x \in Elements(TemplateLine(d)) : ~ Is(class, x)
           /\ \A d : \A x \in Elements(PredicateLines(d)) : ~ Is(class, x)
           /\ \A d : \A x \in Elements(SetFromBuilder(d)) :
                 Is(class, x) <=> x # Empty /\ class = "builder"
           /\ \A d, to : Is(class, Declared(d, to)) <=> class \in {"one", "declared"}
           /\ \A d, to : Is(class, Defined(d, to)) <=> class \in {"one", "defined"}
<1>1. /\ \A x : x.kind \in {"empty", "end", "change", "template", "predicate"} => ~ Is(class, x)
      /\ \A x : x.kind = "error" => (Is(class, x) <=> class = "one")
      /\ \A x : x.kind = "from_builder" => (Is(class, x) <=> class = "builder")
  BY DEF Is, Classes
<1>2. \A x : x.kind = "method" /\ x.defined = FALSE => (Is(class, x) <=> class \in {"one", "declared"})
  BY DEF Is, Classes
<1>3. \A x : x.kind = "method" /\ x.defined = TRUE => (Is(class, x) <=> class \in {"one", "defined"})
  BY DEF Is, Classes
<1>4. ~ Is(class, Empty) /\ ~ Is(class, End) /\ (Is(class, ErrorText) <=> class = "one")
  BY <1>1, EmptyAssumption DEF End, ErrorText
<1>5. \A d : ~ Is(class, Body(d))
  BY <1>1, BodyText
<1>6. \A d : \A x \in Elements(TemplateLine(d)) : ~ Is(class, x)
  BY <1>1, TemplateTexts
<1>7. \A d : \A x \in Elements(PredicateLines(d)) : ~ Is(class, x)
  BY <1>1, PredicateTexts
<1>8. \A d : \A x \in Elements(SetFromBuilder(d)) : Is(class, x) <=> x # Empty /\ class = "builder"
  <2>. SUFFICES ASSUME NEW d, NEW x \in Elements(SetFromBuilder(d))
                PROVE  Is(class, x) <=> x # Empty /\ class = "builder"
    OBVIOUS
  <2>1. x = Empty \/ x.kind = "from_builder"
    BY BuilderTexts
  <2>. QED  BY <1>1, <1>4, <2>1, EmptyAssumption
<1>9. \A d, to : Is(class, Declared(d, to)) <=> class \in {"one", "declared"}
  <2>. SUFFICES ASSUME NEW d, NEW to PROVE Is(class, Declared(d, to)) <=> class \in {"one", "declared"}
    OBVIOUS
  <2>1. Declared(d, to).kind = "method" /\ Declared(d, to).defined = FALSE
    BY DEF Declared, Signature
  <2>. QED  BY <1>2, <2>1
<1>10. \A d, to : Is(class, Defined(d, to)) <=> class \in {"one", "defined"}
  <2>. SUFFICES ASSUME NEW d, NEW to PROVE Is(class, Defined(d, to)) <=> class \in {"one", "defined"}
    OBVIOUS
  <2>1. Defined(d, to).kind = "method" /\ Defined(d, to).defined = TRUE
    BY DEF Defined, Signature
  <2>. QED  BY <1>3, <2>1
<1>. QED  BY <1>4, <1>5, <1>6, <1>7, <1>8, <1>9, <1>10

LEMMA ImplementationIs ==
    ASSUME NEW d, NEW to, NEW class \in Classes, NEW X,
           \A x : At(to, x) \in Elements(Implementation(d, to)) => (At(to, x) \in X <=> Is(class, x))
    PROVE  IF class \in {"one", "defined"} THEN Single(Implementation(d, to), X)
           ELSE Hits(Implementation(d, to), X) = {}
<1>1. Elements(Implementation(d, to)) =
          {At(to, x) : x \in {Empty, Defined(d, to), Body(d), End}
                               \cup Elements(TemplateLine(d)) \cup Elements(PredicateLines(d))}
  BY ImplementationElements
<1>2. \A x \in {Empty, Body(d), End} \cup Elements(TemplateLine(d)) \cup Elements(PredicateLines(d)) :
          At(to, x) \notin X
  <2>. SUFFICES ASSUME NEW x \in {Empty, Body(d), End} \cup Elements(TemplateLine(d))
                                    \cup Elements(PredicateLines(d))
                PROVE  At(to, x) \notin X
    OBVIOUS
  <2>1. ~ Is(class, x)
    BY IsOfKind
  <2>2. At(to, x) \in Elements(Implementation(d, to))
    BY <1>1
  <2>. QED  BY <2>1, <2>2
<1>3. At(to, Defined(d, to)) \in X <=> class \in {"one", "defined"}
  <2>1. At(to, Defined(d, to)) \in Elements(Implementation(d, to))
    BY <1>1
  <2>. QED  BY <2>1, IsOfKind
<1>4. CASE class \in {"one", "defined"}
  BY <1>2, <1>3, <1>4, ImplementationOnce
<1>5. CASE class \notin {"one", "defined"}
  <2>1. \A c \in Elements(Implementation(d, to)) : c \notin X
    BY <1>1, <1>2, <1>3, <1>5
  <2>. QED  BY <1>5, <2>1, NoHits
<1>. QED  BY <1>4, <1>5

LEMMA DeclarationIs ==
    ASSUME NEW d, NEW to \in {"HEADER", "INTERFACE"}, to = "INTERFACE" => d.make_interface,
           NEW class \in Classes, NEW X,
           \A t, x : At(t, x) \in Elements(Declaration(d, to)) => (At(t, x) \in X <=> Is(class, x))
    PROVE  IF \/ class \in {"one", "declared"}
              \/ class = "builder" /\ ~ d.make_interface /\ UseSetFromBuilder(d)
             THEN Single(Declaration(d, to), X)
             ELSE Hits(Declaration(d, to), X) = {}
<1>1. Elements(Declaration(d, to)) =
          {At(to, x) : x \in {Declared(d, to)} \cup Elements(TemplateLine(d))}
          \cup IF d.make_interface THEN {} ELSE {At("HEADER", x) : x \in Elements(SetFromBuilder(d))}
  BY DeclarationElements
<1>2. \A x \in Elements(TemplateLine(d)) : At(to, x) \notin X
  BY <1>1, IsOfKind
<1>3. At(to, Declared(d, to)) \in X <=> class \in {"one", "declared"}
  <2>1. At(to, Declared(d, to)) \in Elements(Declaration(d, to))
    BY <1>1
  <2>. QED  BY <2>1, IsOfKind
<1>4. CASE ~ d.make_interface
  <2>1. \A x \in Elements(SetFromBuilder(d)) :
            At("HEADER", x) \in X <=> x # Empty /\ class = "builder"
    <3>1. \A x \in Elements(SetFromBuilder(d)) : At("HEADER", x) \in Elements(Declaration(d, to))
      BY <1>1, <1>4
    <3>2. \A x \in Elements(SetFromBuilder(d)) : Is(class, x) <=> x # Empty /\ class = "builder"
      BY IsOfKind
    <3>. QED  BY <3>1, <3>2
  <2>2. CASE class \in {"one", "declared"}
    <3>1. \A x \in Elements(SetFromBuilder(d)) : At("HEADER", x) \notin X
      BY <2>1, <2>2
    <3>2. At(to, Declared(d, to)) \in X
      BY <1>3, <2>2
    <3>3. Single(Declaration(d, to), X)
      BY <1>2, <3>1, <3>2, DeclarationOnce
    <3>. QED  BY <2>2, <3>3
  <2>3. CASE class = "builder" /\ UseSetFromBuilder(d)
    <3>1. At("HEADER", Empty) \notin X
      <4>1. Empty \in Elements(SetFromBuilder(d))
        <5>1. PICK x : SetFromBuilder(d) = <<Empty, x, Empty>>
          BY <2>3 DEF SetFromBuilder
        <5>. QED  BY <5>1, ThreeLines
      <4>. QED  BY <2>1, <4>1
    <3>2. At(to, Declared(d, to)) \notin X
      BY <1>3, <2>3
    <3>3. \A x \in Elements(SetFromBuilder(d)) : x # Empty => At("HEADER", x) \in X
      BY <2>1, <2>3
    <3>4. Single(Declaration(d, to), X)
      BY <1>2, <1>4, <2>3, <3>1, <3>2, <3>3, DeclarationOnce
    <3>. QED  BY <1>4, <2>3, <3>4
  <2>4. CASE class \notin {"one", "declared"} /\ ~ (class = "builder" /\ UseSetFromBuilder(d))
    <3>1. \A x \in Elements(SetFromBuilder(d)) : At("HEADER", x) \notin X
      <4>1. CASE class = "builder"
        <5>1. SetFromBuilder(d) = <<>>
          BY <2>4, <4>1 DEF SetFromBuilder
        <5>. QED  BY <5>1, NoLines
      <4>2. CASE class # "builder"
        BY <2>1, <4>2
      <4>. QED  BY <4>1, <4>2
    <3>2. \A c \in Elements(Declaration(d, to)) : c \notin X
      BY <1>1, <1>2, <1>3, <2>4, <3>1
    <3>3. Hits(Declaration(d, to), X) = {}
      BY <3>2, NoHits
    <3>. QED  BY <2>4, <3>3
  <2>. QED  BY <2>2, <2>3, <2>4
<1>5. CASE d.make_interface
  <2>2. CASE class \in {"one", "declared"}
    <3>1. Single(Declaration(d, to), X \ {At("HEADER", x) : x \in Elements(SetFromBuilder(d))})
      <4>. DEFINE Z == X \ {At("HEADER", x) : x \in Elements(SetFromBuilder(d))}
      <4>1. At(to, Declared(d, to)) \in Z
        <5>1. \A x \in Elements(SetFromBuilder(d)) : x.kind # "method"
          BY BuilderTexts, EmptyAssumption
        <5>2. \A x \in Elements(SetFromBuilder(d)) : At("HEADER", x) # At(to, Declared(d, to))
          BY <5>1, ParamsOf DEF At
        <5>. QED  BY <1>3, <2>2, <5>2
      <4>2. \A x \in Elements(TemplateLine(d)) : At(to, x) \notin Z
        BY <1>2
      <4>3. \A x \in Elements(SetFromBuilder(d)) : At("HEADER", x) \notin Z
        OBVIOUS
      <4>. HIDE DEF Z
      <4>4. Single(Declaration(d, to), Z)
        BY <4>1, <4>2, <4>3, DeclarationOnce
      <4>. QED  BY <4>4 DEF Z
    <3>2. \A x \in Elements(SetFromBuilder(d)) : At("HEADER", x) \in Elements(Declaration(d, to)) =>
              At("HEADER", x) \notin X
      <4>1. \A x \in Elements(SetFromBuilder(d)) : ~ Is(class, x)
        BY <2>2, IsOfKind
      <4>. QED  BY <4>1
    <3>3. Hits(Declaration(d, to), X \ {At("HEADER", x) : x \in Elements(SetFromBuilder(d))})
              = Hits(Declaration(d, to), X)
      BY <3>2 DEF Hits, Elements
    <3>4. Single(Declaration(d, to), X)
      BY <3>1, <3>3 DEF Single
    <3>. QED  BY <2>2, <3>4
  <2>3. CASE class \notin {"one", "declared"}
    <3>1. \A c \in Elements(Declaration(d, to)) : c \notin X
      BY <1>1, <1>2, <1>3, <1>5, <2>3
    <3>2. Hits(Declaration(d, to), X) = {}
      BY <3>1, NoHits
    <3>. QED  BY <1>5, <2>3, <3>2
  <2>. QED  BY <2>2, <2>3
<1>. QED  BY <1>4, <1>5

\* The calls for a line of the class.
Marked(class, to, calls) == {c \in Elements(calls) : c[1] = to /\ Is(class, c[2])}

\* WriteField writes one where one is due, and none where none is.
LEMMA WriteFieldOnce ==
    ASSUME NEW d, NEW class \in Classes, NEW to \in Where
    PROVE  LET X == Marked(class, to, WriteField(d)) IN
             IF Due(class, to, d) THEN Single(WriteField(d), X) ELSE X = {}
<1>. DEFINE X == Marked(class, to, WriteField(d))
<1>1. CASE Output(d) = "SKIP"
  <2>1. X = {}
    BY <1>1, WriteFieldParts DEF Marked
  <2>2. ~ Due(class, to, d)
    BY <1>1 DEF Due, InHeader, InSource, InInterface
  <2>. QED  BY <2>1, <2>2
<1>2. CASE Output(d) # "SKIP" /\ ~ IsValid(d)
  <2>1. /\ WriteField(d) = Error(d)
        /\ Elements(Error(d)) =
              {At(t, x) : t \in Elements(ErrorTargets(d)), x \in {Empty, ErrorText}}
    BY <1>2, WriteFieldParts, ErrorElements
  <2>2. Due(class, to, d) <=> class = "one" /\ to \in Elements(ErrorTargets(d))
    BY <1>2, ErrorTargetsFacts DEF Due, InHeader, InSource, InInterface, Where
  <2>3. \A t, x : At(t, x) \in X <=>
            At(t, x) \in Elements(Error(d)) /\ t = to /\ Is(class, x)
    BY <2>1 DEF Marked, At
  <2>4. \A t : At(t, Empty) \notin X
    BY <2>3, IsOfKind
  <2>5. \A t : At(t, ErrorText) \in X <=> t = to /\ to \in Elements(ErrorTargets(d)) /\ class = "one"
    <3>1. \A t : At(t, ErrorText) \in Elements(Error(d)) <=> t \in Elements(ErrorTargets(d))
      BY <2>1 DEF At
    <3>. QED  BY <2>3, <3>1, IsOfKind
  <2>6. X \subseteq Elements(Error(d))
    BY <2>1 DEF Marked
  <2>. HIDE DEF X
  <2>7. CASE class = "one" /\ to \in Elements(ErrorTargets(d))
    <3>1. Single(Error(d), X)
      BY <2>4, <2>5, <2>7, ErrorOnce
    <3>. QED  BY <2>1, <2>2, <2>7, <3>1 DEF X
  <2>8. CASE ~ (class = "one" /\ to \in Elements(ErrorTargets(d)))
    <3>1. X = {}
      BY <2>1, <2>4, <2>5, <2>6, <2>8
    <3>. QED  BY <2>2, <2>8, <3>1 DEF X
  <2>. QED  BY <2>7, <2>8
<1>3. CASE Output(d) # "SKIP" /\ IsValid(d)
  <2>. DEFINE h == HeaderLines(d)
              s == SourceLines(d)
              i == InterfaceLines(d)
  <2>1. /\ WriteField(d) = (h \o s) \o i
        /\ IsSeq(h) /\ IsSeq(s) /\ IsSeq(i) /\ IsSeq(h \o s)
        /\ Elements(WriteField(d)) = (Elements(h) \cup Elements(s)) \cup Elements(i)
    BY <1>3, WriteFieldParts
  <2>2. /\ \A c \in Elements(h) : c[1] = "HEADER"
        /\ \A c \in Elements(s) : c[1] = "SOURCE"
        /\ \A c \in Elements(i) : c[1] = "INTERFACE"
    <3>1. \A t : \A c \in Elements(Implementation(d, t)) : c[1] = t
      BY ImplementationElements DEF At
    <3>2. \A c \in Elements(Declaration(d, "HEADER")) : c[1] = "HEADER"
      BY DeclarationElements DEF At
    <3>3. d.make_interface => \A c \in Elements(Declaration(d, "INTERFACE")) : c[1] = "INTERFACE"
      BY DeclarationElements DEF At
    <3>. QED  BY <3>1, <3>2, <3>3, NoLines DEF HeaderLines, SourceLines, InterfaceLines
  <2>3. \A p \in {h, s, i} : \A t, x : At(t, x) \in Elements(p) =>
            (At(t, x) \in X <=> t = to /\ Is(class, x))
    <3>1. \A p \in {h, s, i} : Elements(p) \subseteq Elements(WriteField(d))
      BY <2>1
    <3>. QED  BY <3>1 DEF Marked, At
  <2>4. X \subseteq Elements(WriteField(d)) /\ \A c \in X : c[1] = to
    BY DEF Marked
  <2>. HIDE DEF X
  <2>5. /\ to # "HEADER" => Hits(h, X) = {}
        /\ to # "SOURCE" => Hits(s, X) = {}
        /\ to # "INTERFACE" => Hits(i, X) = {}
    <3>1. /\ to # "HEADER" => Elements(h) \cap X = {}
          /\ to # "SOURCE" => Elements(s) \cap X = {}
          /\ to # "INTERFACE" => Elements(i) \cap X = {}
      BY <2>2, <2>4
    <3>. QED  BY <3>1, NoHits
  <2>6. CASE to = "HEADER"
    <3>1. IF Due(class, to, d) THEN Single(h, X) ELSE Hits(h, X) = {}
      <4>1. CASE ~ UseHeader(d)
        <5>1. h = <<>> /\ ~ Due(class, to, d)
          BY <2>6, <4>1 DEF HeaderLines, Due, InHeader
        <5>2. Hits(h, X) = {}
          BY <5>1, NoLines, NoHits
        <5>. QED  BY <5>1, <5>2
      <4>2. CASE UseHeader(d) /\ HeaderDefines(d)
        <5>1. h = Implementation(d, "HEADER")
          BY <4>2 DEF HeaderLines, HeaderDefines
        <5>2. \A x : At("HEADER", x) \in Elements(Implementation(d, "HEADER")) =>
                  (At("HEADER", x) \in X <=> Is(class, x))
          BY <2>3, <2>6, <5>1
        <5>3. IF class \in {"one", "defined"} THEN Single(Implementation(d, "HEADER"), X)
              ELSE Hits(Implementation(d, "HEADER"), X) = {}
          BY <5>2, ImplementationIs
        <5>4. Due(class, to, d) <=> class \in {"one", "defined"}
          BY <1>3, <2>6, <4>2 DEF Due, InHeader, Classes
        <5>. QED  BY <5>1, <5>3, <5>4
      <4>3. CASE UseHeader(d) /\ ~ HeaderDefines(d)
        <5>1. h = Declaration(d, "HEADER")
          BY <4>3 DEF HeaderLines, HeaderDefines
        <5>2. \A t, x : At(t, x) \in Elements(Declaration(d, "HEADER")) =>
                  (At(t, x) \in X <=> Is(class, x))
          <6>1. \A t, x : At(t, x) \in Elements(Declaration(d, "HEADER")) => t = "HEADER"
            BY <2>2, <5>1 DEF At
          <6>. QED  BY <2>3, <2>6, <5>1, <6>1
        <5>3. IF \/ class \in {"one", "declared"}
                 \/ class = "builder" /\ ~ d.make_interface /\ UseSetFromBuilder(d)
                THEN Single(Declaration(d, "HEADER"), X)
                ELSE Hits(Declaration(d, "HEADER"), X) = {}
          BY <5>2, DeclarationIs
        <5>4. Due(class, to, d) <=>
                  \/ class \in {"one", "declared"}
                  \/ class = "builder" /\ ~ d.make_interface /\ UseSetFromBuilder(d)
          BY <1>3, <2>6, <4>3 DEF Due, InHeader, Classes
        <5>. QED  BY <5>1, <5>3, <5>4
      <4>. QED  BY <4>1, <4>2, <4>3
    <3>. HIDE DEF h, s, i
    <3>2. Hits(s, X) = {} /\ Hits(i, X) = {}
      BY <2>5, <2>6
    <3>3. /\ Single(h, X) => Single((h \o s) \o i, X)
          /\ Hits(h, X) = {} => Hits((h \o s) \o i, X) = {}
      <4>1. Single(h, X) => Single(h \o s, X)
        BY <2>1, <3>2, HitsConcatenated
      <4>2. Hits(h, X) = {} => Hits(h \o s, X) = {}
        BY <2>1, <3>2, HitsConcatenated
      <4>. QED  BY <2>1, <3>2, <4>1, <4>2, HitsConcatenated
    <3>. QED  BY <2>1, <2>4, <3>1, <3>3, NoHits DEF X
  <2>7. CASE to = "SOURCE"
    <3>1. IF Due(class, to, d) THEN Single(s, X) ELSE Hits(s, X) = {}
      <4>1. CASE ~ UseSource(d)
        <5>1. s = <<>> /\ ~ Due(class, to, d)
          BY <2>7, <4>1 DEF SourceLines, Due, InSource
        <5>2. Hits(s, X) = {}
          BY <5>1, NoLines, NoHits
        <5>. QED  BY <5>1, <5>2
      <4>2. CASE UseSource(d)
        <5>1. s = Implementation(d, "SOURCE")
          BY <4>2 DEF SourceLines
        <5>2. \A x : At("SOURCE", x) \in Elements(Implementation(d, "SOURCE")) =>
                  (At("SOURCE", x) \in X <=> Is(class, x))
          BY <2>3, <2>7, <5>1
        <5>3. IF class \in {"one", "defined"} THEN Single(Implementation(d, "SOURCE"), X)
              ELSE Hits(Implementation(d, "SOURCE"), X) = {}
          BY <5>2, ImplementationIs
        <5>4. Due(class, to, d) <=> class \in {"one", "defined"}
          BY <1>3, <2>7, <4>2 DEF Due, InSource, Classes
        <5>. QED  BY <5>1, <5>3, <5>4
      <4>. QED  BY <4>1, <4>2
    <3>. HIDE DEF h, s, i
    <3>2. Hits(h, X) = {} /\ Hits(i, X) = {}
      BY <2>5, <2>7
    <3>3. /\ Single(s, X) => Single((h \o s) \o i, X)
          /\ Hits(s, X) = {} => Hits((h \o s) \o i, X) = {}
      <4>1. Single(s, X) => Single(h \o s, X)
        BY <2>1, <3>2, HitsConcatenated
      <4>2. Hits(s, X) = {} => Hits(h \o s, X) = {}
        BY <2>1, <3>2, HitsConcatenated
      <4>. QED  BY <2>1, <3>2, <4>1, <4>2, HitsConcatenated
    <3>. QED  BY <2>1, <2>4, <3>1, <3>3, NoHits DEF X
  <2>8. CASE to = "INTERFACE"
    <3>1. IF Due(class, to, d) THEN Single(i, X) ELSE Hits(i, X) = {}
      <4>1. CASE ~ d.make_interface
        <5>1. i = <<>> /\ ~ Due(class, to, d)
          BY <2>8, <4>1 DEF InterfaceLines, Due, InInterface
        <5>2. Hits(i, X) = {}
          BY <5>1, NoLines, NoHits
        <5>. QED  BY <5>1, <5>2
      <4>2. CASE d.make_interface
        <5>1. i = Declaration(d, "INTERFACE")
          BY <4>2 DEF InterfaceLines
        <5>2. \A t, x : At(t, x) \in Elements(Declaration(d, "INTERFACE")) =>
                  (At(t, x) \in X <=> Is(class, x))
          <6>1. \A t, x : At(t, x) \in Elements(Declaration(d, "INTERFACE")) => t = "INTERFACE"
            BY <2>2, <5>1 DEF At
          <6>. QED  BY <2>3, <2>8, <5>1, <6>1
        <5>3. IF class \in {"one", "declared"} THEN Single(Declaration(d, "INTERFACE"), X)
                ELSE Hits(Declaration(d, "INTERFACE"), X) = {}
          BY <4>2, <5>2, DeclarationIs
        <5>4. Due(class, to, d) <=> class \in {"one", "declared"}
          BY <1>3, <2>8, <4>2 DEF Due, InInterface, Classes
        <5>. QED  BY <5>1, <5>3, <5>4
      <4>. QED  BY <4>1, <4>2
    <3>. HIDE DEF h, s, i
    <3>2. Hits(h, X) = {} /\ Hits(s, X) = {}
      BY <2>5, <2>8
    <3>3. /\ Single(i, X) => Single((h \o s) \o i, X)
          /\ Hits(i, X) = {} => Hits((h \o s) \o i, X) = {}
      <4>1. Hits(h \o s, X) = {}
        BY <2>1, <3>2, HitsConcatenated
      <4>. QED  BY <2>1, <4>1, HitsConcatenated
    <3>. QED  BY <2>1, <2>4, <3>1, <3>3, NoHits DEF X
  <2>. QED  BY <2>6, <2>7, <2>8 DEF Where
<1>. QED  BY <1>1, <1>2, <1>3

(***************************************************************************)
(* The lines of a class that are written or about to be are as many, and   *)
(* in the same order, as the annotations that one is due for.              *)
(***************************************************************************)
Chosen(class, to) == {i \in DOMAIN buffer[to] : Is(class, Text(to, i))}
Waiting(class, to) == {k \in DOMAIN pending : pending[k][1] = to /\ Is(class, pending[k][2])}
DueBefore(class, to, m) == {n \in Active : n < m /\ Due(class, to, Methods[n])}

NumberedFor(class, to) ==
    /\ \A k, l \in Waiting(class, to) : k = l
    /\ \A k \in Waiting(class, to) :
          \E m \in Active : /\ method = m + 1 /\ Due(class, to, Methods[m])
                            /\ pending[k] \in Elements(WriteField(Methods[m]))
    /\ Cardinality(Chosen(class, to)) + (IF Waiting(class, to) = {} THEN 0 ELSE 1)
          = Cardinality(DueBefore(class, to, method))
    /\ \A i \in Chosen(class, to) :
          \E m \in Active : /\ m < method /\ Due(class, to, Methods[m])
                            /\ At(to, Text(to, i)) \in Elements(WriteField(Methods[m]))
                            /\ Cardinality({k \in Chosen(class, to) : k <= i})
                                  = Cardinality(DueBefore(class, to, m)) + 1

Numbered == \A class \in Classes : \A to \in Where : NumberedFor(class, to)

LEMMA ActiveFacts ==
    ASSUME Typed
    PROVE  /\ Active \subseteq Nat \ {0} /\ method \in Nat
           /\ \A class, to, m : IsFiniteSet(DueBefore(class, to, m))
           /\ \A class, to, m : Cardinality(DueBefore(class, to, m)) \in Nat
<1>1. /\ DOMAIN Methods = 1..Len(Methods) /\ Len(Methods) \in Nat /\ method \in 1..Len(Methods) + 1
  BY MethodsFacts DEF Typed, TypeOK
<1>2. \A class, to, m : DueBefore(class, to, m) \subseteq 1..Len(Methods)
  BY <1>1 DEF DueBefore, Active
<1>3. \A class, to, m : IsFiniteSet(DueBefore(class, to, m))
  <2>1. IsFiniteSet(1..Len(Methods))
    BY <1>1, FS_Interval
  <2>. QED  BY <1>2, <2>1, FS_Subset
<1>. QED  BY <1>1, <1>3, FS_CardinalityType DEF Active

\* One more of them, or not, is before the next annotation.
LEMMA DueNext ==
    ASSUME Typed, NEW class, NEW to
    PROVE  Cardinality(DueBefore(class, to, method + 1)) =
              Cardinality(DueBefore(class, to, method))
              + (IF method \in Active /\ Due(class, to, Methods[method]) THEN 1 ELSE 0)
<1>. DEFINE b == DueBefore(class, to, method)
            c == DueBefore(class, to, method + 1)
<1>1. method \in Nat /\ IsFiniteSet(b) /\ Cardinality(b) \in Nat /\ Active \subseteq Nat
  BY ActiveFacts
<1>2. \A n \in Active : n < method + 1 <=> n < method \/ n = method
  BY <1>1
<1>3. method \notin b
  BY <1>1 DEF DueBefore
<1>4. CASE method \in Active /\ Due(class, to, Methods[method])
  <2>1. c = b \cup {method}
    BY <1>2, <1>4 DEF DueBefore
  <2>. HIDE DEF b, c
  <2>2. Cardinality(b \cup {method}) = Cardinality(b) + 1
    BY <1>1, <1>3, FS_AddElement
  <2>. QED  BY <1>4, <2>1, <2>2 DEF b, c
<1>5. CASE ~ (method \in Active /\ Due(class, to, Methods[method]))
  <2>1. c = b
    BY <1>2, <1>5 DEF DueBefore
  <2>. QED  BY <1>1, <1>5, <2>1
<1>. QED  BY <1>4, <1>5

LEMMA NumberedInit == Init => Numbered
<1>. SUFFICES ASSUME Init, NEW class \in Classes, NEW to \in Where PROVE NumberedFor(class, to)
  BY DEF Numbered
<1>1. /\ Chosen(class, to) = {} /\ Waiting(class, to) = {}
  BY NoLines DEF Init, WriterInit, Chosen, Waiting
<1>2. DueBefore(class, to, method) = {}
  <2>1. Active \subseteq Nat \ {0} /\ method = 1
    BY TypedInit, ActiveFacts DEF Init
  <2>2. \A n \in Active : ~ n < method
    BY <2>1
  <2>. QED  BY <2>2 DEF DueBefore
<1>3. Cardinality({}) = 0
  BY FS_EmptySet
<1>. QED  BY <1>1, <1>2, <1>3 DEF NumberedFor

\* The lines of the class after a call of Write.
LEMMA ChosenWritten ==
    ASSUME Typed, NEW w \in Where, NEW text, Write(w, text), NEW class \in Classes, NEW to \in Where
    PROVE  /\ Chosen(class, to)' = IF to = w /\ Is(class, text)
                                     THEN Chosen(class, to) \cup {Len(buffer[to]) + 1}
                                     ELSE Chosen(class, to)
           /\ Chosen(class, to) \subseteq 1..Len(buffer[to]) /\ Len(buffer[to]) \in Nat
           /\ \A i \in 1..Len(buffer[to]) : Text(to, i)' = Text(to, i)
           /\ to = w /\ Is(class, text) => buffer'[to][Len(buffer[to]) + 1].text = text
<1>1. /\ \A u \in Where \ {w} : buffer'[u] = buffer[u]
      /\ \/ buffer'[w] = Append(buffer[w], Indent(w, text))
         \/ buffer'[w] = buffer[w] /\ text = Empty
  BY WriteEffect
<1>2. Len(buffer[to]) \in Nat /\ DOMAIN buffer[to] = 1..Len(buffer[to])
  BY SeqFacts DEF Typed
<1>3. ~ Is(class, Empty)
  BY IsOfKind
<1>4. CASE buffer'[to] = buffer[to] /\ (to # w \/ text = Empty)
  <2>1. Chosen(class, to)' = Chosen(class, to) /\ \A i : Text(to, i)' = Text(to, i)
    BY <1>4 DEF Chosen, Text
  <2>2. Chosen(class, to) \subseteq 1..Len(buffer[to])
    BY <1>2 DEF Chosen
  <2>. QED  BY <1>2, <1>3, <1>4, <2>1, <2>2
<1>5. CASE to = w /\ buffer'[to] = Append(buffer[to], Indent(to, text))
  <2>1. PICK n : n = Len(buffer[to])
    OBVIOUS
  <2>2. /\ DOMAIN buffer'[to] = 1..n + 1
        /\ \A i \in 1..n : buffer'[to][i] = buffer[to][i]
        /\ buffer'[to][n + 1] = Indent(to, text)
    BY <1>5, <2>1, Appended DEF Typed
  <2>3. Indent(to, text).text = text
    BY DEF Indent
  <2>4. buffer'[to][n + 1].text = text /\ \A i \in 1..n : buffer'[to][i].text = buffer[to][i].text
    BY <2>2, <2>3
  <2>5. DOMAIN buffer'[to] = 1..n \cup {n + 1} /\ n \in Nat
    BY <1>2, <2>1, <2>2
  <2>6. Chosen(class, to)' = {i \in 1..n \cup {n + 1} : Is(class, buffer'[to][i].text)}
    BY <2>5 DEF Chosen, Text
  <2>7. Chosen(class, to) = {i \in 1..n : Is(class, buffer[to][i].text)}
    BY <1>2, <2>1 DEF Chosen, Text
  <2>8. Chosen(class, to)' = IF Is(class, text) THEN Chosen(class, to) \cup {n + 1} ELSE Chosen(class, to)
    BY <2>4, <2>6, <2>7
  <2>9. \A i \in 1..n : Text(to, i)' = Text(to, i)
    BY <2>4 DEF Text
  <2>. QED  BY <1>2, <1>5, <2>1, <2>4, <2>7, <2>8, <2>9
<1>. QED  BY <1>1, <1>4, <1>5

\* All that tells the class apart stays what it is.
LEMMA DueKept ==
    ASSUME Typed, [Next]_vars
    PROVE  /\ Methods' = Methods /\ Active' = Active
           /\ \A class, to, m : DueBefore(class, to, m)' = DueBefore(class, to, m)
<1>1. Methods' = Methods /\ Active' = Active
  BY AnnotationsKept
<1>. QED  BY <1>1 DEF DueBefore

\* If no line is written, those that are keep their places.
LEMMA ChosenKept ==
    ASSUME Typed, Numbered, [Next]_vars, buffer' = buffer, NEW class \in Classes, NEW to \in Where
    PROVE  /\ Chosen(class, to)' = Chosen(class, to)
           /\ \A i \in Chosen(class, to)' :
                 \E m \in Active' : /\ m < method' /\ Due(class, to, Methods'[m])
                                    /\ At(to, Text(to, i)') \in Elements(WriteField(Methods'[m]))
                                    /\ Cardinality({k \in Chosen(class, to)' : k <= i})
                                          = Cardinality(DueBefore(class, to, m)') + 1
<1>1. Chosen(class, to)' = Chosen(class, to) /\ \A i : Text(to, i)' = Text(to, i)
  BY DEF Chosen, Text
<1>2. ASSUME NEW i \in Chosen(class, to)
      PROVE  \E m \in Active' : /\ m < method' /\ Due(class, to, Methods'[m])
                                /\ At(to, Text(to, i)') \in Elements(WriteField(Methods'[m]))
                                /\ Cardinality({k \in Chosen(class, to)' : k <= i})
                                      = Cardinality(DueBefore(class, to, m)') + 1
  <2>1. PICK m \in Active : /\ m < method /\ Due(class, to, Methods[m])
                            /\ At(to, Text(to, i)) \in Elements(WriteField(Methods[m]))
                            /\ Cardinality({k \in Chosen(class, to) : k <= i})
                                  = Cardinality(DueBefore(class, to, m)) + 1
    BY DEF Numbered, NumberedFor
  <2>2. m < method'
    BY <2>1, ActiveFacts, AnnotationsKept
  <2>. QED  BY <1>1, <2>1, <2>2, DueKept
<1>. QED  BY <1>1, <1>2

LEMMA NumberedUnmoved ==
    ASSUME Typed, Numbered, [Next]_vars, UNCHANGED <<buffer, pending, method>>
    PROVE  Numbered'
<1>. SUFFICES ASSUME NEW class \in Classes, NEW to \in Where PROVE NumberedFor(class, to)'
  BY DEF Numbered
<1>1. Waiting(class, to)' = Waiting(class, to)
  BY DEF Waiting
<1>2. NumberedFor(class, to)
  BY DEF Numbered
<1>3. PICK m0 : m0 = method
  OBVIOUS
<1>4. DueBefore(class, to, method)' = DueBefore(class, to, method)
  <2>1. DueBefore(class, to, m0)' = DueBefore(class, to, m0)
    BY DueKept
  <2>. QED  BY <1>3, <2>1 DEF DueBefore
<1>5. \A k \in Waiting(class, to)' :
          \E m \in Active' : /\ method' = m + 1 /\ Due(class, to, Methods'[m])
                             /\ pending'[k] \in Elements(WriteField(Methods'[m]))
  BY <1>1, <1>2, DueKept DEF NumberedFor
<1>. QED  BY <1>1, <1>2, <1>4, <1>5, ChosenKept DEF NumberedFor

\* The next annotation is passed over or written: of that which is due for it.
LEMMA NumberedNext ==
    ASSUME Typed, Numbered, [Next]_vars, buffer' = buffer, method' = method + 1, pending = <<>>,
           NEW class \in Classes, NEW to \in Where,
           IF method \in Active /\ Due(class, to, Methods[method])
             THEN /\ \E k : Waiting(class, to)' = {k}
                  /\ \A k \in Waiting(class, to)' : pending'[k] \in Elements(WriteField(Methods[method]))
             ELSE Waiting(class, to)' = {}
    PROVE  NumberedFor(class, to)'
<1>. PICK m0 : m0 = method
  OBVIOUS
<1>1. Waiting(class, to) = {}
  BY NoLines DEF Waiting
<1>2. Cardinality(Chosen(class, to)) + 0 = Cardinality(DueBefore(class, to, method))
  BY <1>1 DEF Numbered, NumberedFor
<1>3. Chosen(class, to)' = Chosen(class, to)
  BY ChosenKept
<1>4. Cardinality(DueBefore(class, to, method)') = Cardinality(DueBefore(class, to, m0 + 1))
  <2>1. DueBefore(class, to, m0 + 1)' = DueBefore(class, to, m0 + 1)
    BY DueKept
  <2>2. DueBefore(class, to, method)' = DueBefore(class, to, m0 + 1)'
    BY DEF DueBefore
  <2>. QED  BY <2>1, <2>2
<1>5. IsFiniteSet(Chosen(class, to)) /\ Cardinality(Chosen(class, to)) \in Nat
  <2>1. Chosen(class, to) \subseteq 1..Len(buffer[to]) /\ Len(buffer[to]) \in Nat
    BY SeqFacts DEF Chosen, Typed
  <2>2. IsFiniteSet(1..Len(buffer[to]))
    BY <2>1, FS_Interval
  <2>. QED  BY <2>1, <2>2, FS_Subset, FS_CardinalityType
<1>6. CASE method \in Active /\ Due(class, to, Methods[method])
  <2>1. PICK k : Waiting(class, to)' = {k}
    BY <1>6
  <2>2. Cardinality(Chosen(class, to)') + 1 = Cardinality(DueBefore(class, to, method)')
    BY <1>2, <1>3, <1>4, <1>5, <1>6, DueNext
  <2>3. \A l \in Waiting(class, to)' :
            \E m \in Active' : /\ method' = m + 1 /\ Due(class, to, Methods'[m])
                               /\ pending'[l] \in Elements(WriteField(Methods'[m]))
    BY <1>6, DueKept
  <2>4. Waiting(class, to)' # {} /\ \A l, n \in Waiting(class, to)' : l = n
    BY <2>1
  <2>. QED  BY <2>2, <2>3, <2>4, ChosenKept DEF NumberedFor
<1>7. CASE ~ (method \in Active /\ Due(class, to, Methods[method]))
  <2>1. Waiting(class, to)' = {}
    BY <1>7
  <2>2. Cardinality(Chosen(class, to)') + 0 = Cardinality(DueBefore(class, to, method)')
    BY <1>2, <1>3, <1>4, <1>5, <1>7, DueNext
  <2>. QED  BY <2>1, <2>2, ChosenKept DEF NumberedFor
<1>. QED  BY <1>6, <1>7

LEMMA NumberedWriteMethod == Typed /\ Numbered /\ WriteMethod => Numbered'
<1>. SUFFICES ASSUME Typed, Numbered, WriteMethod, NEW class \in Classes, NEW to \in Where
              PROVE  NumberedFor(class, to)'
  BY DEF Numbered
<1>. DEFINE d == Methods[method]
            X == Marked(class, to, WriteField(d))
<1>1. [Next]_vars
  BY DEF Next
<1>2. /\ pending' = WriteField(d) /\ method' = method + 1 /\ buffer' = buffer /\ pending = <<>>
      /\ WriteField(d) # <<>> => method \in Active
  BY MethodWritten
<1>3. Waiting(class, to)' = Hits(WriteField(d), X)
  BY <1>2 DEF Waiting, Hits, Marked, Elements
<1>4. IF Due(class, to, d) THEN Single(WriteField(d), X) ELSE X = {}
  BY WriteFieldOnce
<1>5. CASE Due(class, to, d)
  <2>1. PICK k : Waiting(class, to)' = {k}
    BY <1>3, <1>4, <1>5 DEF Single
  <2>2. \A l \in Waiting(class, to)' : pending'[l] \in Elements(WriteField(d))
    BY <1>2, <1>3 DEF Hits, Elements
  <2>3. WriteField(d) # <<>>
    BY <1>2, <2>1, NoLines DEF Waiting
  <2>. QED  BY <1>1, <1>2, <1>5, <2>1, <2>2, <2>3, NumberedNext
<1>6. CASE ~ Due(class, to, d)
  <2>1. Waiting(class, to)' = {}
    BY <1>3, <1>4, <1>6 DEF Hits
  <2>. QED  BY <1>1, <1>2, <1>6, <2>1, NumberedNext
<1>. QED  BY <1>5, <1>6

LEMMA NumberedSkipMethod == Typed /\ Numbered /\ SkipMethod => Numbered'
<1>. SUFFICES ASSUME Typed, Numbered, SkipMethod, NEW class \in Classes, NEW to \in Where
              PROVE  NumberedFor(class, to)'
  BY DEF Numbered
<1>1. [Next]_vars
  BY DEF Next
<1>2. /\ pending' = <<>> /\ pending = <<>> /\ method' = method + 1 /\ buffer' = buffer
      /\ method \notin Active
  BY DEF SkipMethod, AtMethod, writerVars, Active
<1>3. Waiting(class, to)' = {}
  BY <1>2, NoLines DEF Waiting
<1>. QED  BY <1>1, <1>2, <1>3, NumberedNext

LEMMA NumberedEndBuilder == Typed /\ Numbered /\ EndBuilder => Numbered'
<1>. SUFFICES ASSUME Typed, Numbered, EndBuilder, NEW class \in Classes, NEW to \in Where
              PROVE  NumberedFor(class, to)'
  BY DEF Numbered
<1>1. [Next]_vars
  BY DEF Next
<1>2. /\ pending' = <<At("HEADER", Empty), At("SOURCE", Empty), At("INTERFACE", Empty)>>
      /\ pending = <<>> /\ method' = method /\ buffer' = buffer
  BY DEF EndBuilder, writerVars
<1>3. \A k \in DOMAIN pending' : pending'[k][2] = Empty
  BY <1>2, ThreeLines DEF At
<1>4. Waiting(class, to)' = {} /\ Waiting(class, to) = {}
  BY <1>2, <1>3, IsOfKind, NoLines DEF Waiting
<1>. PICK m0 : m0 = method
  OBVIOUS
<1>5. DueBefore(class, to, method)' = DueBefore(class, to, method)
  <2>1. DueBefore(class, to, m0)' = DueBefore(class, to, m0)
    BY <1>1, DueKept
  <2>. QED  BY <1>2, <2>1 DEF DueBefore
<1>6. Chosen(class, to)' = Chosen(class, to)
  BY <1>1, <1>2, ChosenKept
<1>7. Cardinality(Chosen(class, to)) + 0 = Cardinality(DueBefore(class, to, method))
  BY <1>4 DEF Numbered, NumberedFor
<1>8. Cardinality(Chosen(class, to)') + 0 = Cardinality(DueBefore(class, to, method)')
  BY <1>5, <1>6, <1>7
<1>. QED  BY <1>1, <1>2, <1>4, <1>8, ChosenKept DEF NumberedFor

LEMMA NumberedWriteLine == Typed /\ Numbered /\ WriteLine => Numbered'
<1>. SUFFICES ASSUME Typed, Numbered, WriteLine, NEW class \in Classes, NEW to \in Where
              PROVE  NumberedFor(class, to)'
  BY DEF Numbered
<1>1. [Next]_vars /\ method' = method /\ method \in Nat /\ NumberedFor(class, to)
  BY ActiveFacts DEF Next, WriteLine, Numbered
<1>2. PICK w, text, n, m0 : /\ w = Head(pending)[1] /\ text = Head(pending)[2]
                            /\ n = Len(buffer[to]) /\ m0 = method
  OBVIOUS
<1>3. /\ pending # <<>> /\ pending' = Tail(pending) /\ Write(w, text) /\ w \in Where
      /\ pending[1] = At(w, text) /\ 1 \in DOMAIN pending
  BY <1>2, TailFacts DEF WriteLine, Typed, TypeOK
<1>4. /\ DOMAIN pending = 1..Len(pending) /\ Len(pending) \in Nat
      /\ DOMAIN pending' = 1..Len(pending) - 1
      /\ \A k \in DOMAIN pending' : pending'[k] = pending[k + 1]
  BY <1>3, TailFacts DEF Typed
<1>5. /\ Chosen(class, to)' = IF to = w /\ Is(class, text) THEN Chosen(class, to) \cup {n + 1}
                              ELSE Chosen(class, to)
      /\ Chosen(class, to) \subseteq 1..n /\ n \in Nat
      /\ \A i \in 1..n : Text(to, i)' = Text(to, i)
      /\ to = w /\ Is(class, text) => buffer'[to][n + 1].text = text
  BY <1>2, <1>3, ChosenWritten
<1>6. 1 \in Waiting(class, to) <=> to = w /\ Is(class, text)
  BY <1>3 DEF Waiting, At
<1>7. \A k : k \in Waiting(class, to)' <=> k \in Nat \ {0} /\ k + 1 \in Waiting(class, to)
  <2>1. \A k : k \in DOMAIN pending' <=> k \in Nat \ {0} /\ k + 1 \in DOMAIN pending
    BY <1>4
  <2>. QED  BY <1>4, <2>1 DEF Waiting
<1>8. \A k \in Waiting(class, to) : k = 1 \/ k - 1 \in Waiting(class, to)'
  <2>1. \A k \in Waiting(class, to) : k \in Nat \ {0}
    BY <1>4 DEF Waiting
  <2>2. \A k \in Waiting(class, to) : k = 1 \/ (k - 1 \in Nat \ {0} /\ (k - 1) + 1 = k)
    BY <2>1
  <2>. QED  BY <1>7, <2>2
<1>9. \A k, l \in Waiting(class, to) : k = l
  BY <1>1 DEF NumberedFor
<1>10. \A k, l \in Waiting(class, to)' : k = l
  <2>. SUFFICES ASSUME NEW k \in Waiting(class, to)', NEW l \in Waiting(class, to)' PROVE k = l
    OBVIOUS
  <2>1. k \in Nat /\ l \in Nat /\ k + 1 \in Waiting(class, to) /\ l + 1 \in Waiting(class, to)
    BY <1>7
  <2>2. k + 1 = l + 1
    BY <1>9, <2>1
  <2>. QED  BY <2>1, <2>2
<1>11. ASSUME NEW k \in Waiting(class, to)'
       PROVE  \E m \in Active' : /\ method' = m + 1 /\ Due(class, to, Methods'[m])
                                 /\ pending'[k] \in Elements(WriteField(Methods'[m]))
  <2>1. k + 1 \in Waiting(class, to) /\ pending'[k] = pending[k + 1]
    BY <1>4, <1>7 DEF Waiting
  <2>2. PICK m \in Active : /\ method = m + 1 /\ Due(class, to, Methods[m])
                            /\ pending[k + 1] \in Elements(WriteField(Methods[m]))
    BY <1>1, <2>1 DEF NumberedFor
  <2>. QED  BY <1>1, <2>1, <2>2, DueKept
<1>12. IsFiniteSet(Chosen(class, to)) /\ Cardinality(Chosen(class, to)) \in Nat
  <2>1. IsFiniteSet(1..n)
    BY <1>5, FS_Interval
  <2>. QED  BY <1>5, <2>1, FS_Subset, FS_CardinalityType
<1>13. DueBefore(class, to, method)' = DueBefore(class, to, method)
  <2>1. DueBefore(class, to, m0)' = DueBefore(class, to, m0)
    BY <1>1, DueKept
  <2>. QED  BY <1>1, <1>2, <2>1 DEF DueBefore
<1>14. CASE to = w /\ Is(class, text)
  <2>1. Waiting(class, to) = {1} /\ Waiting(class, to)' = {}
    <3>1. Waiting(class, to) = {1}
      BY <1>6, <1>9, <1>14
    <3>2. \A k \in Nat \ {0} : k + 1 # 1
      OBVIOUS
    <3>. QED  BY <1>7, <3>1, <3>2
  <2>2. n + 1 \notin Chosen(class, to)
    BY <1>5
  <2>3. Cardinality(Chosen(class, to)') = Cardinality(Chosen(class, to)) + 1
    BY <1>5, <1>12, <1>14, <2>2, FS_AddElement
  <2>4. Cardinality(Chosen(class, to)) + 1 = Cardinality(DueBefore(class, to, method))
    BY <1>1, <2>1 DEF NumberedFor
  <2>5. Cardinality(Chosen(class, to)') + 0 = Cardinality(DueBefore(class, to, method)')
    BY <1>12, <1>13, <2>3, <2>4
  <2>6. PICK m \in Active : /\ method = m + 1 /\ Due(class, to, Methods[m])
                            /\ At(to, text) \in Elements(WriteField(Methods[m]))
    BY <1>1, <1>3, <1>14, <2>1 DEF NumberedFor
  <2>7. m \in Nat /\ m < method
    BY <1>1, <2>6, ActiveFacts
  <2>8. Cardinality(DueBefore(class, to, method)) = Cardinality(DueBefore(class, to, m)) + 1
    <3>1. \A x \in Active : x \in Nat
      BY ActiveFacts
    <3>2. \A x \in Active : x < method <=> x < m \/ x = m
      BY <2>6, <2>7, <3>1
    <3>3. DueBefore(class, to, method) = DueBefore(class, to, m) \cup {m}
      BY <2>6, <3>2 DEF DueBefore
    <3>4. m \notin DueBefore(class, to, m) /\ IsFiniteSet(DueBefore(class, to, m))
      BY <2>7, ActiveFacts DEF DueBefore
    <3>. QED  BY <3>3, <3>4, FS_AddElement
  <2>9. ASSUME NEW i \in Chosen(class, to)'
        PROVE  \E p \in Active : /\ p < method /\ Due(class, to, Methods[p])
                                 /\ At(to, buffer'[to][i].text) \in Elements(WriteField(Methods[p]))
                                 /\ Cardinality({k \in Chosen(class, to)' : k <= i})
                                       = Cardinality(DueBefore(class, to, p)) + 1
    <3>1. CASE i \in Chosen(class, to)
      <4>1. PICK p \in Active : /\ p < method /\ Due(class, to, Methods[p])
                                /\ At(to, Text(to, i)) \in Elements(WriteField(Methods[p]))
                                /\ Cardinality({k \in Chosen(class, to) : k <= i})
                                      = Cardinality(DueBefore(class, to, p)) + 1
        BY <1>1, <3>1 DEF NumberedFor
      <4>2. buffer'[to][i].text = Text(to, i)
        BY <1>5, <3>1 DEF Text
      <4>3. {k \in Chosen(class, to)' : k <= i} = {k \in Chosen(class, to) : k <= i}
        <5>1. ~ n + 1 <= i
          BY <1>5, <3>1
        <5>. QED  BY <1>5, <1>14, <5>1
      <4>. QED  BY <4>1, <4>2, <4>3
    <3>2. CASE i = n + 1
      <4>1. {k \in Chosen(class, to)' : k <= i} = Chosen(class, to)'
        <5>1. \A k \in 1..n \cup {n + 1} : k <= n + 1
          BY <1>5
        <5>. QED  BY <1>5, <3>2, <5>1
      <4>2. buffer'[to][i].text = text
        BY <1>5, <1>14, <3>2
      <4>3. Cardinality(Chosen(class, to)') = Cardinality(DueBefore(class, to, m)) + 1
        BY <2>3, <2>4, <2>8
      <4>. QED  BY <2>6, <2>7, <4>1, <4>2, <4>3
    <3>. QED  BY <1>5, <1>14, <2>9, <3>1, <3>2
  <2>10. \A i \in Chosen(class, to)' :
            \E p \in Active' : /\ p < method' /\ Due(class, to, Methods'[p])
                               /\ At(to, Text(to, i)') \in Elements(WriteField(Methods'[p]))
                               /\ Cardinality({k \in Chosen(class, to)' : k <= i})
                                     = Cardinality(DueBefore(class, to, p)') + 1
    BY <1>1, <2>9, DueKept DEF Text
  <2>. QED  BY <1>10, <1>11, <2>1, <2>5, <2>10 DEF NumberedFor
<1>15. CASE ~ (to = w /\ Is(class, text))
  <2>1. Waiting(class, to)' = {} <=> Waiting(class, to) = {}
    <3>1. 1 \notin Waiting(class, to)
      BY <1>6, <1>15
    <3>2. \A k \in Waiting(class, to) : k - 1 \in Waiting(class, to)'
      BY <1>8, <3>1
    <3>3. \A k \in Waiting(class, to)' : k + 1 \in Waiting(class, to)
      BY <1>7
    <3>. QED  BY <3>2, <3>3
  <2>2. Chosen(class, to)' = Chosen(class, to)
    BY <1>5, <1>15
  <2>3. Cardinality(Chosen(class, to)) + (IF Waiting(class, to) = {} THEN 0 ELSE 1)
            = Cardinality(DueBefore(class, to, method))
    BY <1>1 DEF NumberedFor
  <2>4. Cardinality(Chosen(class, to)') + (IF Waiting(class, to)' = {} THEN 0 ELSE 1)
            = Cardinality(DueBefore(class, to, method)')
    BY <1>13, <2>1, <2>2, <2>3
  <2>5. \A i \in Chosen(class, to)' :
            \E p \in Active' : /\ p < method' /\ Due(class, to, Methods'[p])
                               /\ At(to, Text(to, i)') \in Elements(WriteField(Methods'[p]))
                               /\ Cardinality({k \in Chosen(class, to)' : k <= i})
                                     = Cardinality(DueBefore(class, to, p)') + 1
    <3>. SUFFICES ASSUME NEW i \in Chosen(class, to)
                  PROVE  \E p \in Active' : /\ p < method' /\ Due(class, to, Methods'[p])
                               /\ At(to, Text(to, i)') \in Elements(WriteField(Methods'[p]))
                               /\ Cardinality({k \in Chosen(class, to)' : k <= i})
                                     = Cardinality(DueBefore(class, to, p)') + 1
      BY <2>2
    <3>1. PICK p \in Active : /\ p < method /\ Due(class, to, Methods[p])
                              /\ At(to, Text(to, i)) \in Elements(WriteField(Methods[p]))
                              /\ Cardinality({k \in Chosen(class, to) : k <= i})
                                    = Cardinality(DueBefore(class, to, p)) + 1
      BY <1>1 DEF NumberedFor
    <3>2. Text(to, i)' = Text(to, i)
      BY <1>5
    <3>. QED  BY <1>1, <2>2, <3>1, <3>2, DueKept
  <2>. QED  BY <1>10, <1>11, <2>4, <2>5 DEF NumberedFor
<1>. QED  BY <1>14, <1>15

LEMMA NumberedStep == Typed /\ Numbered /\ [Next]_vars => Numbered'
<1>. SUFFICES ASSUME Typed, Numbered, [Next]_vars PROVE Numbered'
  OBVIOUS
<1>1. CASE Die \/ UNCHANGED vars
  <2>1. UNCHANGED <<buffer, pending, method>>
    BY <1>1 DEF Die, vars, writerVars
  <2>. QED  BY <2>1, NumberedUnmoved
<1>. QED  BY <1>1, NumberedSkipMethod, NumberedWriteMethod, NumberedEndBuilder, NumberedWriteLine DEF Next

LEMMA NumberedAlways == Spec => [](Typed /\ Complete /\ Numbered)
<1>1. Typed /\ Complete /\ Numbered /\ [Next]_vars => (Typed /\ Complete /\ Numbered)'
  BY TypedStep, CompleteStep, NumberedStep
<1>. QED  BY TypedInit, CompleteInit, NumberedInit, <1>1, PTL DEF Spec

\* In the end there is a line for every annotation that one is due for.
DueOnes(class, to) == {m \in Active : Due(class, to, Methods[m])}

LEMMA WrittenNumbered ==
    ASSUME Typed, Complete, Numbered, Written, NEW class \in Classes, NEW to \in Where
    PROVE  Cardinality(Chosen(class, to)) = Cardinality(DueOnes(class, to))
<1>1. Waiting(class, to) = {}
  BY NoLines DEF Written, Waiting
<1>2. \A m \in Active : m < method
  <2>1. /\ Active \subseteq 1..Len(Methods) /\ Len(Methods) \in Nat
        /\ method \in 1..Len(Methods) + 1 /\ method \notin 1..Len(Methods)
    BY MethodsFacts DEF Typed, TypeOK, Active, Written, Complete
  <2>. QED  BY <2>1
<1>3. DueBefore(class, to, method) = DueOnes(class, to)
  BY <1>2 DEF DueBefore, DueOnes
<1>4. Cardinality(Chosen(class, to)) + 0 = Cardinality(DueBefore(class, to, method))
  BY <1>1 DEF Numbered, NumberedFor
<1>5. IsFiniteSet(Chosen(class, to)) /\ Cardinality(Chosen(class, to)) \in Nat
  <2>1. Chosen(class, to) \subseteq 1..Len(buffer[to]) /\ Len(buffer[to]) \in Nat
    BY SeqFacts DEF Chosen, Typed
  <2>2. IsFiniteSet(1..Len(buffer[to]))
    BY <2>1, FS_Interval
  <2>. QED  BY <2>1, <2>2, FS_Subset, FS_CardinalityType
<1>. QED  BY <1>3, <1>4, <1>5

LEMMA NothingLost == Typed /\ Complete /\ Numbered => NothingDropped
<1>. SUFFICES ASSUME Typed, Complete, Numbered, Written, NEW to \in Where
              PROVE  Cardinality(OfKind(to, "method") \cup OfKind(to, "error"))
                        = Cardinality({m \in Active : to \in Targets(Methods[m])})
  BY DEF NothingDropped
<1>1. "one" \in Classes
  BY DEF Classes
<1>2. OfKind(to, "method") \cup OfKind(to, "error") = Chosen("one", to)
  BY DEF OfKind, Chosen, Is
<1>3. {m \in Active : to \in Targets(Methods[m])} = DueOnes("one", to)
  <2>1. \A m \in Active : Output(Methods[m]) # "SKIP"
    BY DEF Active
  <2>2. \A m \in Active : to \in Targets(Methods[m]) <=> Due("one", to, Methods[m])
    BY <2>1 DEF Targets, Due, InHeader, InSource, InInterface, UseHeader, UseSource, Where
  <2>. QED  BY <2>2 DEF DueOnes
<1>. QED  BY <1>1, <1>2, <1>3, WrittenNumbered

\* Every annotation that is not passed over leaves exactly one method, or error,
\* in each of its targets, however many there are.
THEOREM NothingDroppedCorrect == Spec => []NothingDropped
BY NumberedAlways, NothingLost, PTL

\* Elements of a set of numbers are told apart by their place in it.
LEMMA PlaceTellsApart ==
    ASSUME NEW S \in SUBSET Nat, IsFiniteSet(S), NEW i \in S, NEW j \in S, Number(S, i) = Number(S, j)
    PROVE  i = j
<1>1. \A x, y \in S : x < y => Number(S, x) < Number(S, y)
  <2>. SUFFICES ASSUME NEW x \in S, NEW y \in S, x < y PROVE Number(S, x) < Number(S, y)
    OBVIOUS
  <2>0. x \in Nat /\ y \in Nat /\ \A k \in S : k \in Nat
    OBVIOUS
  <2>. DEFINE a == {k \in S : k <= x}
              b == {k \in S : k <= y}
  <2>1. IsFiniteSet(a) /\ IsFiniteSet(b)
    BY FS_Subset
  <2>2. y \notin a /\ a \cup {y} \subseteq b
    <3>1. ~ (y <= x) /\ y <= y
      BY <2>0
    <3>2. \A k \in S : k <= x => k <= y
      BY <2>0
    <3>. QED  BY <3>1, <3>2
  <2>. HIDE DEF a, b
  <2>3. Cardinality(a) \in Nat /\ Cardinality(b) \in Nat
    BY <2>1, FS_CardinalityType
  <2>4. Cardinality(a \cup {y}) = Cardinality(a) + 1
    BY <2>1, <2>2, FS_AddElement
  <2>5. Cardinality(a \cup {y}) <= Cardinality(b)
    BY <2>1, <2>2, FS_Subset
  <2>6. Cardinality(a) < Cardinality(b)
    BY <2>3, <2>4, <2>5
  <2>. QED  BY <2>6 DEF Number, a, b
<1>2. Number(S, i) \in Nat /\ Number(S, j) \in Nat
  <2>1. IsFiniteSet({k \in S : k <= i}) /\ IsFiniteSet({k \in S : k <= j})
    BY FS_Subset
  <2>. QED  BY <2>1, FS_CardinalityType DEF Number
<1>3. i \in Nat /\ j \in Nat
  OBVIOUS
<1>. QED  BY <1>1, <1>2, <1>3

\* The annotation that a line of a class comes from is the one with its number.
LEMMA LineNumbered ==
    ASSUME Typed, Numbered, NEW class \in Classes, NEW to \in Where, NEW i \in Chosen(class, to)
    PROVE  /\ Chosen(class, to) \in SUBSET Nat /\ IsFiniteSet(Chosen(class, to))
           /\ DueOnes(class, to) \in SUBSET Nat /\ IsFiniteSet(DueOnes(class, to))
           /\ \E m \in DueOnes(class, to) :
                 /\ At(to, Text(to, i)) \in Elements(WriteField(Methods[m]))
                 /\ Number(Chosen(class, to), i) = Number(DueOnes(class, to), m)
<1>1. Chosen(class, to) \in SUBSET Nat /\ IsFiniteSet(Chosen(class, to))
  <2>1. Chosen(class, to) \subseteq 1..Len(buffer[to]) /\ Len(buffer[to]) \in Nat
    BY SeqFacts DEF Chosen, Typed
  <2>2. IsFiniteSet(1..Len(buffer[to]))
    BY <2>1, FS_Interval
  <2>3. 1..Len(buffer[to]) \subseteq Nat
    BY <2>1
  <2>4. IsFiniteSet(Chosen(class, to))
    BY <2>1, <2>2, FS_Subset
  <2>. QED  BY <2>1, <2>3, <2>4
<1>2. DueOnes(class, to) \in SUBSET Nat /\ IsFiniteSet(DueOnes(class, to))
  <2>1. DueOnes(class, to) \subseteq 1..Len(Methods) /\ Len(Methods) \in Nat
    BY MethodsFacts DEF DueOnes, Active, Typed, TypeOK
  <2>2. IsFiniteSet(1..Len(Methods))
    BY <2>1, FS_Interval
  <2>3. 1..Len(Methods) \subseteq Nat
    BY <2>1
  <2>4. IsFiniteSet(DueOnes(class, to))
    BY <2>1, <2>2, FS_Subset
  <2>. QED  BY <2>1, <2>3, <2>4
<1>3. PICK m \in Active : /\ Due(class, to, Methods[m])
                          /\ At(to, Text(to, i)) \in Elements(WriteField(Methods[m]))
                          /\ Cardinality({k \in Chosen(class, to) : k <= i})
                                = Cardinality(DueBefore(class, to, m)) + 1
  BY DEF Numbered, NumberedFor
<1>4. m \in DueOnes(class, to) /\ m \in Nat
  BY <1>2, <1>3 DEF DueOnes
<1>5. Number(DueOnes(class, to), m) = Cardinality(DueBefore(class, to, m)) + 1
  <2>1. \A n \in DueOnes(class, to) : n <= m <=> n < m \/ n = m
    BY <1>2, <1>4
  <2>2. {n \in DueOnes(class, to) : n <= m} = DueBefore(class, to, m) \cup {m}
    BY <1>4, <2>1 DEF DueOnes, DueBefore
  <2>3. m \notin DueBefore(class, to, m) /\ IsFiniteSet(DueBefore(class, to, m))
    BY <1>4, ActiveFacts DEF DueBefore
  <2>. QED  BY <2>2, <2>3, FS_AddElement DEF Number
<1>. QED  BY <1>1, <1>2, <1>3, <1>4, <1>5 DEF Number

LEMMA BuilderSetterOnce ==
    ASSUME Typed, Numbered, NEW i \in OfKind("HEADER", "from_builder"),
           NEW j \in OfKind("HEADER", "from_builder")
    PROVE  i = j
<1>1. "HEADER" \in Where /\ "builder" \in Classes
  BY DEF Where, Classes
<1>2. OfKind("HEADER", "from_builder") = Chosen("builder", "HEADER")
  BY DEF OfKind, Chosen, Is
<1>3. \A m \in DueOnes("builder", "HEADER") : m = 1
  <2>1. \A m \in DueOnes("builder", "HEADER") : m \in DOMAIN Methods /\ Methods[m].first_method
    BY DEF DueOnes, Due, UseSetFromBuilder, Active
  <2>. QED  BY <2>1, MethodData
<1>4. \A k \in Chosen("builder", "HEADER") :
          Number(Chosen("builder", "HEADER"), k) = Number(DueOnes("builder", "HEADER"), 1)
  BY <1>1, <1>3, LineNumbered
<1>5. /\ Chosen("builder", "HEADER") \in SUBSET Nat /\ IsFiniteSet(Chosen("builder", "HEADER"))
  BY <1>1, <1>2, LineNumbered
<1>6. i \in Chosen("builder", "HEADER") /\ j \in Chosen("builder", "HEADER")
  BY <1>2
<1>7. Number(Chosen("builder", "HEADER"), i) = Number(Chosen("builder", "HEADER"), j)
  BY <1>4, <1>6
<1>. QED  BY <1>5, <1>6, <1>7, PlaceTellsApart

LEMMA BuilderSetterKept == Typed /\ Sourced /\ Complete /\ Numbered => BuilderSetterHasSetter
<1>. SUFFICES ASSUME Typed, Sourced, Complete, Numbered PROVE BuilderSetterHasSetter
  OBVIOUS
<1>1. \A i, j \in OfKind("HEADER", "from_builder") : i = j
  BY BuilderSetterOnce
<1>2. ASSUME Written, \A m \in Active : Option(Methods[m], "value") = "",
             NEW i \in OfKind("HEADER", "from_builder")
      PROVE  \E j \in OfKind("HEADER", "method") :
                /\ Text("HEADER", j).name = Text("HEADER", i).name
                /\ ~ Text("HEADER", j).params[1].optional
  <2>1. "HEADER" \in Where /\ Text("HEADER", i).kind = "from_builder"
    BY DEF Where, OfKind
  <2>2. PICK m \in Active : At("HEADER", Text("HEADER", i)) \in Elements(WriteField(Methods[m]))
    BY <2>1, LineSourced
  <2>3. PICK d, line : d = Methods[m] /\ line = Text("HEADER", i)
    OBVIOUS
  <2>4. /\ line.kind = "error" <=> ~ IsValid(d) /\ line # Empty
        /\ line.kind = "from_builder" => line.name = MethodName(d)
        /\ line.kind = "empty" <=> line = Empty
    BY <2>2, <2>3, LineOfKind
  <2>5. IsValid(d) /\ line.name = MethodName(d)
    BY <2>1, <2>3, <2>4
  <2>6. UseHeader(d) /\ Option(d, "value") = ""
    BY <1>2, <2>2, <2>3, WriteFieldLine
  <2>7. PICK x \in {Declared(d, "HEADER"), Defined(d, "HEADER")} :
            At("HEADER", x) \in Elements(WriteField(d))
    BY <2>5, <2>6, HeaderMethod
  <2>8. x.kind = "method" /\ x.name = MethodName(d) /\ x.params = MethodParam(d, "HEADER")
    <3>1. Declared(d, "HEADER").name = MethodName(d) /\ Defined(d, "HEADER").name = MethodName(d)
      BY DEF Declared, Defined, Signature
    <3>. QED  BY <2>7, <3>1, ParamsOf
  <2>9. ~ x.params[1].optional
    <3>1. MethodParam(d, "HEADER")[1] = ValueParam(d)
      BY <2>6, MethodParams
    <3>2. ValueParam(d).optional = FALSE
      BY ParamNamed
    <3>. QED  BY <2>8, <3>1, <3>2
  <2>10. x # Empty
    BY <2>8, EmptyAssumption
  <2>11. PICK j \in DOMAIN buffer["HEADER"] : Text("HEADER", j) = x
    BY <1>2, <2>1, <2>3, <2>7, <2>10, AllThere
  <2>12. j \in OfKind("HEADER", "method")
    BY <2>8, <2>11 DEF OfKind
  <2>. QED  BY <2>3, <2>5, <2>8, <2>9, <2>11, <2>12
<1>. QED  BY <1>1, <1>2 DEF BuilderSetterHasSetter, AllActive

LEMMA AllAlways == Spec => [](Typed /\ Sourced /\ Complete /\ Numbered)
BY CompleteAlways, NumberedAlways, PTL

\* However many annotations a field has, one setter at most takes a builder, and
\* there is a setter for the message that it can pass on.
THEOREM BuilderSetterHasSetterCorrect == Spec => []BuilderSetterHasSetter
BY AllAlways, BuilderSetterKept, PTL

(***************************************************************************)
(* DeclaredAndDefined.                                                     *)
(***************************************************************************)
\* The mode of an annotation, merged or not, is one of those there are.
LEMMA MergedMode ==
    ASSUME NEW base, NEW from, Get(base, "output") \in OutputMode, Get(from, "output") \in OutputMode
    PROVE  Get(MergeFrom(base, from), "output") \in OutputMode
BY DEF Get, MergeFrom

LEMMA ModeKnown ==
    ASSUME Typed, NEW m \in DOMAIN Methods
    PROVE  Output(Methods[m]) \in OutputMode
<1>. DEFINE d == Methods[m]
<1>1. /\ \A f \in DOMAIN input.options : Get(input.options[f], "output") \in OutputMode
      /\ \A k \in DOMAIN input.config : Get(input.config[k], "output") \in OutputMode
      /\ Get(NoOptions, "output") \in OutputMode
  BY DEF Typed, TypeOK, IsInput, Get, NoOptions, OptionDefaults, OutputMode
<1>2. Get(d.raw_field_options, "output") \in OutputMode
  <2>1. CASE input.options # <<>>
    <3>1. m \in DOMAIN input.options /\
          d.raw_field_options = MergeFieldBuilderOptions(input.config, input.options[m])
      BY <2>1 DEF Methods, FieldData
    <3>2. Get(MergeFieldBuilderOptions(input.config, input.options[m]), "output") \in OutputMode
      BY <1>1, <3>1, MergedMode DEF MergeFieldBuilderOptions
    <3>. QED  BY <3>1, <3>2
  <2>2. CASE input.options = <<>>
    <3>. DEFINE automatic == AutomaticKeys(input.config, input.field.type)
    <3>1. PICK k : k = CHOOSE l \in automatic : TRUE
      OBVIOUS
    <3>2. \/ Methods = <<FieldData(NoOptions, TRUE)>>
          \/ /\ automatic # {}
             /\ Methods = <<FieldData(NoOptions, TRUE), FieldData(input.config[k], FALSE)>>
      BY <2>2, <3>1 DEF Methods
    <3>3. automatic # {} => k \in DOMAIN input.config
      BY <3>1 DEF AutomaticKeys
    <3>4. \/ d = FieldData(NoOptions, TRUE)
          \/ automatic # {} /\ d = FieldData(input.config[k], FALSE)
      <4>. HIDE DEF automatic
      <4>0. PICK x, y : x = FieldData(NoOptions, TRUE) /\ y = FieldData(input.config[k], FALSE)
        OBVIOUS
      <4>1. CASE Methods = <<x>>
        <5>1. m = 1
          BY <4>1, OneLine
        <5>2. Methods[m] = x
          BY <4>1, <5>1
        <5>. QED  BY <4>0, <5>2
      <4>2. CASE automatic # {} /\ Methods = <<x, y>>
        <5>1. m \in 1..2
          BY <4>2, TwoLines
        <5>2. Methods[m] = x \/ Methods[m] = y
          BY <4>2, <5>1
        <5>. QED  BY <4>0, <4>2, <5>2
      <4>. QED  BY <3>2, <4>0, <4>1, <4>2
    <3>5. \A raw, first : FieldData(raw, first).raw_field_options = raw
      BY DEF FieldData
    <3>6. CASE d = FieldData(NoOptions, TRUE)
      <4>1. d.raw_field_options = NoOptions
        BY <3>5, <3>6
      <4>. QED  BY <1>1, <4>1
    <3>7. CASE automatic # {} /\ d = FieldData(input.config[k], FALSE)
      <4>1. d.raw_field_options = input.config[k]
        BY <3>5, <3>7
      <4>2. k \in DOMAIN input.config
        BY <3>3, <3>7
      <4>. QED  BY <1>1, <4>1, <4>2
    <3>. QED  BY <3>4, <3>6, <3>7
  <2>. QED  BY <2>1, <2>2
<1>3. d.config = input.config
  BY MethodData
<1>4. PICK info : info = GetTypeInfo(d.config, GetOptionsType(d))
  OBVIOUS
<1>5. Get(info, "output") \in OutputMode
  BY <1>1, <1>3, <1>4 DEF GetTypeInfo, NoOptions
<1>6. Get(MergeFrom(info, d.raw_field_options), "output") \in OutputMode
  BY <1>2, <1>5, MergedMode
<1>7. Output(d) = Get(MergeFrom(info, d.raw_field_options), "output")
  <2>1. \A o, t : Get([o EXCEPT !["type"] = t], "output") = Get(o, "output")
    BY DEF Get
  <2>. QED  BY <1>4, <2>1 DEF Output, Option, Options
<1>. QED  BY <1>6, <1>7

\* What tells methods apart is the same where they are declared and defined.
LEMMA SameOverload ==
    ASSUME NEW d
    PROVE  Overload(Declared(d, "HEADER")) = Overload(Defined(d, "SOURCE"))
<1>. DEFINE a == IF Option(d, "value") # "" THEN <<>> ELSE <<ValueParam(d)>>
            b(to) == IF ~ Option(d, "add_source_location") THEN <<>> ELSE <<LocationParam(d, to)>>
            p == MethodParam(d, "HEADER")
            q == MethodParam(d, "SOURCE")
<1>1. p = a \o b("HEADER") /\ q = a \o b("SOURCE")
  BY DEF MethodParam, ValueParam, LocationParam
<1>2. /\ IsSeq(a) /\ IsSeq(b("HEADER")) /\ IsSeq(b("SOURCE"))
      /\ Len(b("HEADER")) = Len(b("SOURCE"))
      /\ \A k \in 1..Len(b("HEADER")) :
            b("HEADER")[k] = LocationParam(d, "HEADER") /\ b("SOURCE")[k] = LocationParam(d, "SOURCE")
  <2>1. IsSeq(a)
    BY NoLines, OneLine
  <2>2. CASE Option(d, "add_source_location")
    <3>1. \A to : b(to) = <<LocationParam(d, to)>>
      BY <2>2
    <3>. HIDE DEF a, b
    <3>2. \A to : IsSeq(b(to)) /\ Len(b(to)) = 1 /\ b(to)[1] = LocationParam(d, to)
      BY <3>1, OneLine
    <3>. QED  BY <2>1, <3>2
  <2>3. CASE ~ Option(d, "add_source_location")
    <3>1. \A to : b(to) = <<>>
      BY <2>3
    <3>. HIDE DEF a, b
    <3>2. \A to : IsSeq(b(to)) /\ Len(b(to)) = 0
      BY <3>1, NoLines
    <3>. QED  BY <2>1, <3>2
  <2>. QED  BY <2>2, <2>3
<1>3. \A to : LocationParam(d, to).type = SourceLocation /\ LocationParam(d, to).name = "location"
  BY DEF LocationParam, Param
<1>. HIDE DEF a, b
<1>4. /\ DOMAIN p = 1..Len(a) + Len(b("HEADER")) /\ DOMAIN q = DOMAIN p
      /\ \A k \in 1..Len(a) : p[k] = a[k] /\ q[k] = a[k]
      /\ \A k \in 1..Len(b("HEADER")) : /\ p[Len(a) + k] = LocationParam(d, "HEADER")
                                        /\ q[Len(a) + k] = LocationParam(d, "SOURCE")
  <2>1. /\ DOMAIN (a \o b("HEADER")) = 1..Len(a) + Len(b("HEADER"))
        /\ \A k \in 1..Len(a) : (a \o b("HEADER"))[k] = a[k]
        /\ \A k \in 1..Len(b("HEADER")) : (a \o b("HEADER"))[Len(a) + k] = b("HEADER")[k]
    BY <1>2, Concatenated
  <2>2. /\ DOMAIN (a \o b("SOURCE")) = 1..Len(a) + Len(b("SOURCE"))
        /\ \A k \in 1..Len(a) : (a \o b("SOURCE"))[k] = a[k]
        /\ \A k \in 1..Len(b("SOURCE")) : (a \o b("SOURCE"))[Len(a) + k] = b("SOURCE")[k]
    BY <1>2, Concatenated
  <2>. QED  BY <1>1, <1>2, <2>1, <2>2
<1>. HIDE DEF p, q
<1>5. \A k \in DOMAIN p : p[k].type = q[k].type /\ p[k].name = q[k].name
  <2>. SUFFICES ASSUME NEW k \in DOMAIN p
                PROVE  p[k].type = q[k].type /\ p[k].name = q[k].name
    OBVIOUS
  <2>1. Len(a) \in Nat /\ Len(b("HEADER")) \in Nat
    BY <1>2, SeqFacts
  <2>2. CASE k \in 1..Len(a)
    BY <1>4, <2>2
  <2>3. CASE k \notin 1..Len(a)
    <3>1. PICK j : j = k - Len(a)
      OBVIOUS
    <3>2. j \in 1..Len(b("HEADER")) /\ k = Len(a) + j
      BY <1>4, <2>1, <2>3, <3>1
    <3>3. p[k] = LocationParam(d, "HEADER") /\ q[k] = LocationParam(d, "SOURCE")
      BY <1>4, <3>2
    <3>. QED  BY <1>3, <3>3
  <2>. QED  BY <2>2, <2>3
<1>6. [k \in DOMAIN p |-> [type |-> p[k].type, name |-> p[k].name]]
          = [k \in DOMAIN q |-> [type |-> q[k].type, name |-> q[k].name]]
  BY <1>4, <1>5
<1>7. /\ Declared(d, "HEADER").params = p /\ Defined(d, "SOURCE").params = q
      /\ Declared(d, "HEADER").name = MethodName(d) /\ Defined(d, "SOURCE").name = MethodName(d)
  BY ParamsOf DEF p, q, Declared, Defined, Signature
<1>. QED  BY <1>6, <1>7 DEF Overload

LEMMA DeclaredIsDefined == Typed /\ Complete /\ Numbered => DeclaredAndDefined
<1>. SUFFICES ASSUME Typed, Complete, Numbered, Written,
                     \A m \in Active : Output(Methods[m]) \notin {"HEADER", "SOURCE"}
              PROVE  LET declared == MethodLines("HEADER", FALSE)
                         defined == MethodLines("SOURCE", TRUE)
                     IN /\ Cardinality(declared) = Cardinality(defined)
                        /\ \A i \in declared : \A j \in defined :
                              Number(declared, i) = Number(defined, j) =>
                                  Overload(Text("HEADER", i)) = Overload(Text("SOURCE", j))
  BY DEF DeclaredAndDefined, AllActive
<1>1. /\ "HEADER" \in Where /\ "SOURCE" \in Where
      /\ "declared" \in Classes /\ "defined" \in Classes
  BY DEF Where, Classes
<1>2. /\ MethodLines("HEADER", FALSE) = Chosen("declared", "HEADER")
      /\ MethodLines("SOURCE", TRUE) = Chosen("defined", "SOURCE")
  BY DEF MethodLines, OfKind, Chosen, Is
<1>3. DueOnes("declared", "HEADER") = DueOnes("defined", "SOURCE")
  <2>. SUFFICES ASSUME NEW m \in Active
                PROVE  Due("declared", "HEADER", Methods[m]) <=> Due("defined", "SOURCE", Methods[m])
    BY DEF DueOnes
  <2>1. PICK d : d = Methods[m]
    OBVIOUS
  <2>2. Output(d) \in {"BOTH", "TEMPLATE", "FOREACH", "FOREACH_ADD", "INITIALIZER_LIST"}
    BY <2>1, ModeKnown DEF OutputMode, Active
  <2>3. InHeader(d) /\ (InSource(d) <=> ~ HeaderDefines(d))
    BY <2>2 DEF InHeader, InSource, HeaderDefines, UseHeader, UseSource, UseTemplate, UseForeach
  <2>. QED  BY <2>1, <2>3 DEF Due
<1>4. Cardinality(Chosen("declared", "HEADER")) = Cardinality(Chosen("defined", "SOURCE"))
  BY <1>1, <1>3, WrittenNumbered
<1>5. ASSUME NEW i \in Chosen("declared", "HEADER"), NEW j \in Chosen("defined", "SOURCE"),
             Number(Chosen("declared", "HEADER"), i) = Number(Chosen("defined", "SOURCE"), j)
      PROVE  Overload(Text("HEADER", i)) = Overload(Text("SOURCE", j))
  <2>. DEFINE S == DueOnes("declared", "HEADER")
  <2>1. PICK m \in S : /\ At("HEADER", Text("HEADER", i)) \in Elements(WriteField(Methods[m]))
                       /\ Number(Chosen("declared", "HEADER"), i) = Number(S, m)
    BY <1>1, LineNumbered
  <2>2. PICK n \in S : /\ At("SOURCE", Text("SOURCE", j)) \in Elements(WriteField(Methods[n]))
                       /\ Number(Chosen("defined", "SOURCE"), j) = Number(S, n)
    BY <1>1, <1>3, LineNumbered
  <2>3. S \in SUBSET Nat /\ IsFiniteSet(S)
    BY <1>1, LineNumbered
  <2>4. m = n
    BY <1>5, <2>1, <2>2, <2>3, PlaceTellsApart
  <2>5. /\ Text("HEADER", i).kind = "method" /\ Text("HEADER", i).defined = FALSE
        /\ Text("SOURCE", j).kind = "method"
    BY DEF Chosen, Is
  <2>6. PICK d, x, y : d = Methods[m] /\ x = Text("HEADER", i) /\ y = Text("SOURCE", j)
    OBVIOUS
  <2>7. x = Declared(d, "HEADER") \/ x = Defined(d, "HEADER")
    BY <2>1, <2>5, <2>6, LineOfKind
  <2>8. x # Defined(d, "HEADER")
    BY <2>5, <2>6 DEF Defined, Signature
  <2>9. y = Defined(d, "SOURCE")
    BY <2>2, <2>4, <2>5, <2>6, LineOfKind
  <2>. QED  BY <2>6, <2>7, <2>8, <2>9, SameOverload
<1>. QED  BY <1>2, <1>4, <1>5

\* If no annotation asks for one file alone, every method that the header
\* declares is defined in the source, with the same parameters and in the same
\* order, however many annotations of whatever modes there are.
THEOREM DeclaredAndDefinedCorrect == Spec => []DeclaredAndDefined
BY NumberedAlways, DeclaredIsDefined, PTL

(***************************************************************************)
(* NamesInScope: every change and predicate belongs to the method whose    *)
(* first line is the last one before it in its target.                     *)
(***************************************************************************)
Mentions(text) == text.kind \in {"change", "predicate"}

InScope(text, names) ==
    /\ text.kind = "change" =>
          /\ text.uses \subseteq names \cup (IF text.loop = "" THEN {} ELSE {"v"})
          /\ text.loop # "" => text.loop \in names
    /\ text.kind = "predicate" /\ names \cap {"values", "key_value_pairs"} = {} =>
          text.uses \subseteq names

\* The value that a setter is for, in its statement and in its predicate.
LEMMA LocationAsked ==
    ASSUME NEW d, Get(d.raw_field_options, "add_source_location")
    PROVE  Option(d, "add_source_location")
<1>. DEFINE o == "add_source_location"
            raw == d.raw_field_options
<1>1. o \in DOMAIN raw
  BY DEF Get, OptionDefaults
<1>2. \A base : o \in DOMAIN MergeFrom(base, raw) /\ MergeFrom(base, raw)[o] = raw[o]
  BY <1>1 DEF MergeFrom
<1>3. \A f, t : o \in DOMAIN f => /\ o \in DOMAIN [f EXCEPT !["type"] = t]
                                  /\ [f EXCEPT !["type"] = t][o] = f[o]
  OBVIOUS
<1>4. o \in DOMAIN Options(d) /\ Options(d)[o] = raw[o]
  <2>1. PICK info : info = GetTypeInfo(d.config, GetOptionsType(d))
    OBVIOUS
  <2>. DEFINE merged == MergeFrom(info, raw)
  <2>2. o \in DOMAIN merged /\ merged[o] = raw[o]
    BY <1>2
  <2>3. Options(d) = merged \/ \E t : Options(d) = [merged EXCEPT !["type"] = t]
    BY <2>1 DEF Options
  <2>. HIDE DEF merged
  <2>. QED  BY <1>3, <2>2, <2>3
<1>5. raw[o] = Get(raw, o) /\ Option(d, o) = raw[o]
  BY <1>1, <1>4, Zenon DEF Get, Option
<1>. QED  BY <1>5

LEMMA ValueAsked ==
    ASSUME NEW d, IsValid(d), UseTemplate(d)
    PROVE  Option(d, "value") = ""
BY DEF IsValid, Option, Get, OptionDefaults

LEMMA ModesTogether ==
    ASSUME NEW d
    PROVE  /\ UseForeach(d) => UseTemplate(d)
           /\ UseForeachAdd(d) => UseForeach(d)
           /\ UseInitializerList(d) => UseForeachAdd(d)
BY DEF UseForeach, UseTemplate, UseForeachAdd, UseInitializerList

\* The names of the parameters.
LEMMA NamesOfParams ==
    ASSUME NEW d, NEW to
    PROVE  /\ Option(d, "value") = "" => ValueParam(d).name \in ParamNames(Defined(d, to))
           /\ Option(d, "add_source_location") => "location" \in ParamNames(Defined(d, to))
<1>1. Defined(d, to).params = MethodParam(d, to)
  BY ParamsOf
<1>2. ParamNames(Defined(d, to)) = {x.name : x \in Elements(MethodParam(d, to))}
  BY <1>1 DEF ParamNames, Elements
<1>3. Option(d, "value") = "" => ValueParam(d) \in Elements(MethodParam(d, to))
  BY MethodParams
<1>4. Option(d, "add_source_location") => LocationParam(d, to) \in Elements(MethodParam(d, to))
  BY MethodParams
<1>5. LocationParam(d, to).name = "location"
  BY ParamNamed
<1>. QED  BY <1>2, <1>3, <1>4, <1>5

LEMMA Applied ==
    ASSUME NEW d, NEW o, NEW value, NEW to, NEW names,
           value \subseteq names, ParamNames(Defined(d, to)) \subseteq names
    PROVE  ApplyData(d, o, value) \subseteq names
<1>1. CASE Get(d.raw_field_options, "add_source_location")
  <2>1. Option(d, "add_source_location")
    BY <1>1, LocationAsked
  <2>2. "location" \in names
    BY <2>1, NamesOfParams
  <2>. QED  BY <2>2 DEF ApplyData
<1>2. CASE ~ Get(d.raw_field_options, "add_source_location")
  BY <1>2 DEF ApplyData
<1>. QED  BY <1>1, <1>2

\* A setter changes the field by what it is given.
LEMMA BodyInScope ==
    ASSUME NEW d, IsValid(d), NEW to
    PROVE  InScope(Body(d), ParamNames(Defined(d, to)))
<1>. DEFINE inserts == UseMapInsert(d) /\ ~ (UseForeach(d) /\ Converts(d))
            container == IF IsMap(d.field) THEN "key_value_pairs" ELSE "values"
            value == IF Option(d, "value") # "" THEN {}
                     ELSE IF UseMapInsert(d) /\ (~ UseForeach(d) \/ ~ Converts(d)) THEN {KeyValuePair(d)}
                     ELSE {IF UseForeach(d) THEN "v" ELSE "value"}
<1>1. PICK names : names = ParamNames(Defined(d, to))
  OBVIOUS
<1>2. SetValue(d) = ApplyData(d, "conversion", value)
  BY DEF SetValue
<1>3. UseMapInsert(d) => IsMap(d.field)
  BY DEF UseMapInsert
<1>4. IsMap(d.field) => IsRepeated(d.field)
  BY DEF IsMap, IsRepeated
<1>5. UseForeach(d) => IsRepeated(d.field) /\ Option(d, "value") = ""
  BY ModesTogether, ValueAsked DEF IsValid
<1>6. Option(d, "value") = "" =>
          (IF IsMap(d.field) THEN KeyValuePair(d) ELSE IF UseForeach(d) THEN "values" ELSE "value") \in names
  BY <1>1, NamesOfParams DEF ValueParam, Param
<1>7. IsMap(d.field) /\ ~ UseForeach(d) => inserts
  BY ModesTogether DEF UseMapInsert
<1>8. CASE inserts \/ ~ IsRepeated(d.field) \/ ~ (UseForeach(d) \/ IsMap(d.field))
  <2>1. value \subseteq names
    BY <1>3, <1>4, <1>5, <1>6, <1>8
  <2>2. SetValue(d) \subseteq names
    <3>1. value \subseteq names /\ ParamNames(Defined(d, to)) \subseteq names
      BY <1>1, <2>1
    <3>. HIDE DEF value
    <3>2. ApplyData(d, "conversion", value) \subseteq names
      BY <3>1, Applied
    <3>. QED  BY <1>2, <3>2
  <2>3. Body(d).kind = "change" /\ Body(d).loop = "" /\ Body(d).uses = SetValue(d)
    BY <1>8 DEF Body, Change
  <2>. QED  BY <1>1, <2>2, <2>3 DEF InScope
<1>9. CASE ~ (inserts \/ ~ IsRepeated(d.field) \/ ~ (UseForeach(d) \/ IsMap(d.field)))
  <2>1. UseForeach(d) /\ Option(d, "value") = ""
    BY <1>5, <1>7, <1>9
  <2>2. value = {"v"}
    BY <1>9, <2>1
  <2>3. SetValue(d) \subseteq names \cup {"v"}
    <3>. PICK more : more = names \cup {"v"}
      OBVIOUS
    <3>1. value \subseteq more /\ ParamNames(Defined(d, to)) \subseteq more
      BY <1>1, <2>2
    <3>. HIDE DEF value
    <3>2. ApplyData(d, "conversion", value) \subseteq more
      BY <3>1, Applied
    <3>. QED  BY <1>2, <3>2
  <2>4. container \in names
    BY <1>6, <2>1 DEF KeyValuePair
  <2>5. Location(d) \subseteq names
    BY <1>1, NamesOfParams DEF Location
  <2>6. \E member, uses : Body(d) = Change(member, container, uses)
                          /\ (uses = SetValue(d) \/ uses = SetValue(d) \cup Location(d))
    BY <1>9 DEF Body
  <2>7. container # ""
    OBVIOUS
  <2>. HIDE DEF container
  <2>8. PICK uses : /\ Body(d).kind = "change" /\ Body(d).loop = container /\ Body(d).uses = uses
                    /\ uses = SetValue(d) \/ uses = SetValue(d) \cup Location(d)
    BY <2>6 DEF Change
  <2>9. uses \subseteq names \cup {"v"}
    BY <2>3, <2>5, <2>8
  <2>. QED  BY <1>1, <2>4, <2>7, <2>8, <2>9 DEF InScope
<1>. QED  BY <1>8, <1>9

\* A predicate is asked of what the setter is given, if that is one value.
LEMMA PredicateInScope ==
    ASSUME NEW d, NEW to, NEW x \in Elements(PredicateLines(d))
    PROVE  InScope(x, ParamNames(Defined(d, to)))
<1>. DEFINE value == IF Option(d, "value") # "" THEN {}
                     ELSE {IF UseMapInsert(d) THEN KeyValuePair(d) ELSE "value"}
<1>1. PICK names : names = ParamNames(Defined(d, to))
  OBVIOUS
<1>2. x.kind = "predicate" /\ x.uses = ApplyData(d, "predicate", value)
  BY PredicateTexts DEF Predicate
<1>3. Option(d, "value") = "" =>
          (IF IsMap(d.field) THEN KeyValuePair(d) ELSE IF UseForeach(d) THEN "values" ELSE "value") \in names
  BY <1>1, NamesOfParams DEF ValueParam, Param
<1>4. ASSUME names \cap {"values", "key_value_pairs"} = {} PROVE value \subseteq names
  <2>1. UseMapInsert(d) => IsMap(d.field)
    BY DEF UseMapInsert
  <2>2. IsMap(d.field) /\ ~ UseForeach(d) => UseMapInsert(d)
    BY ModesTogether DEF UseMapInsert
  <2>3. UseForeach(d) => KeyValuePair(d) = "key_value_pairs"
    BY DEF KeyValuePair
  <2>. QED  BY <1>3, <1>4, <2>1, <2>2, <2>3
<1>5. names \cap {"values", "key_value_pairs"} = {} => x.uses \subseteq names
  <2>. SUFFICES ASSUME names \cap {"values", "key_value_pairs"} = {} PROVE x.uses \subseteq names
    OBVIOUS
  <2>1. value \subseteq names /\ ParamNames(Defined(d, to)) \subseteq names
    BY <1>1, <1>4
  <2>. HIDE DEF value
  <2>2. ApplyData(d, "predicate", value) \subseteq names
    BY <2>1, Applied
  <2>. QED  BY <1>2, <2>2
<1>. QED  BY <1>1, <1>2, <1>5 DEF InScope

\* `h` is the place of the method that the text at `k` belongs to.
HeadOf(texts, h, k) ==
    /\ h \in 1..k - 1 /\ texts[h].kind = "method" /\ InScope(texts[k], ParamNames(texts[h]))
    /\ \A g \in h + 1..k - 1 : texts[g].kind # "method"

ScopedTexts(texts) == \A k \in DOMAIN texts : Mentions(texts[k]) => \E h \in DOMAIN texts : HeadOf(texts, h, k)

\* The same for calls, those for other targets in between.
HeadCall(calls, h, k) ==
    /\ h \in 1..k - 1 /\ calls[h][1] = calls[k][1]
    /\ calls[h][2].kind = "method" /\ InScope(calls[k][2], ParamNames(calls[h][2]))
    /\ \A g \in h + 1..k - 1 : calls[g][1] = calls[k][1] => calls[g][2].kind # "method"

ScopedCalls(calls) ==
    \A k \in DOMAIN calls : Mentions(calls[k][2]) => \E h \in DOMAIN calls : HeadCall(calls, h, k)

LEMMA NothingMentioned ==
    /\ \A s : (\A x \in Elements(s) : ~ Mentions(x)) => ScopedTexts(s)
    /\ \A s : (\A c \in Elements(s) : ~ Mentions(c[2])) => ScopedCalls(s)
BY DEF Elements, ScopedTexts, ScopedCalls

\* The texts so far, the last method among them at `h`.
Under(texts, h) ==
    /\ IsSeq(texts) /\ ScopedTexts(texts)
    /\ h \in DOMAIN texts /\ texts[h].kind = "method"
    /\ \A g \in DOMAIN texts : g > h => texts[g].kind # "method"

LEMMA UnderExtended ==
    ASSUME NEW s, NEW h, Under(s, h), NEW t, IsSeq(t),
           \A x \in Elements(t) : x.kind # "method" /\ (Mentions(x) => InScope(x, ParamNames(s[h])))
    PROVE  Under(s \o t, h) /\ (s \o t)[h] = s[h]
<1>1. /\ IsSeq(s) /\ Len(s) \in Nat /\ Len(t) \in Nat /\ DOMAIN s = 1..Len(s) /\ DOMAIN t = 1..Len(t)
      /\ h \in 1..Len(s) /\ s[h].kind = "method"
      /\ \A g \in 1..Len(s) : g > h => s[g].kind # "method"
  BY SeqFacts DEF Under
<1>2. PICK u : u = s \o t
  OBVIOUS
<1>3. /\ IsSeq(u) /\ DOMAIN u = 1..Len(s) + Len(t)
      /\ \A i \in 1..Len(s) : u[i] = s[i]
      /\ \A i \in 1..Len(t) : u[Len(s) + i] = t[i]
  BY <1>1, <1>2, Concatenated
<1>4. ASSUME NEW k \in DOMAIN u, k > Len(s)
      PROVE  u[k].kind # "method" /\ (Mentions(u[k]) => InScope(u[k], ParamNames(s[h])))
  <2>1. PICK j : j = k - Len(s)
    OBVIOUS
  <2>2. j \in 1..Len(t) /\ k = Len(s) + j
    <3>1. Len(s) \in Nat /\ Len(t) \in Nat /\ k \in 1..Len(s) + Len(t)
      BY <1>1, <1>3
    <3>. QED  BY <1>4, <2>1, <3>1
  <2>3. u[k] = t[j] /\ t[j] \in Elements(t)
    BY <1>1, <1>3, <2>2 DEF Elements
  <2>. QED  BY <2>3
<1>5. ASSUME NEW g \in DOMAIN u, g > h PROVE u[g].kind # "method"
  <2>1. CASE g \in 1..Len(s)
    BY <1>1, <1>3, <1>5, <2>1
  <2>2. CASE g \notin 1..Len(s)
    <3>1. g > Len(s)
      BY <1>1, <1>3, <2>2
    <3>. QED  BY <1>4, <3>1
  <2>. QED  BY <2>1, <2>2
<1>6. h \in DOMAIN u /\ u[h] = s[h]
  BY <1>1, <1>3
<1>7. ASSUME NEW k \in DOMAIN u, Mentions(u[k]) PROVE \E i \in DOMAIN u : HeadOf(u, i, k)
  <2>1. CASE k \in 1..Len(s)
    <3>1. u[k] = s[k]
      BY <1>3, <2>1
    <3>2. PICK i \in DOMAIN s : HeadOf(s, i, k)
      BY <1>1, <1>7, <2>1, <3>1 DEF Under, ScopedTexts
    <3>3. i \in 1..Len(s) /\ i \in 1..k - 1 /\ \A g \in i + 1..k - 1 : g \in 1..Len(s)
      BY <1>1, <2>1, <3>2 DEF HeadOf
    <3>4. u[i] = s[i] /\ \A g \in i + 1..k - 1 : u[g] = s[g]
      BY <1>3, <3>3
    <3>5. HeadOf(u, i, k)
      BY <3>1, <3>2, <3>3, <3>4 DEF HeadOf
    <3>6. i \in DOMAIN u
      BY <1>1, <1>3, <3>3
    <3>. QED  BY <3>5, <3>6
  <2>2. CASE k \notin 1..Len(s)
    <3>1. k > Len(s) /\ k \in Nat
      BY <1>1, <1>3, <2>2
    <3>2. h \in 1..k - 1 /\ \A g \in h + 1..k - 1 : g \in DOMAIN u /\ g > h
      BY <1>1, <1>3, <3>1
    <3>3. InScope(u[k], ParamNames(u[h]))
      BY <1>4, <1>6, <1>7, <3>1
    <3>4. HeadOf(u, h, k)
      BY <1>1, <1>5, <1>6, <3>2, <3>3 DEF HeadOf
    <3>. QED  BY <1>6, <3>4
  <2>. QED  BY <2>1, <2>2
<1>8. Under(u, h)
  BY <1>1, <1>3, <1>5, <1>6, <1>7 DEF Under, ScopedTexts
<1>. QED  BY <1>2, <1>6, <1>8

LEMMA UnderSignature ==
    ASSUME NEW s, IsSeq(s), \A x \in Elements(s) : ~ Mentions(x),
           NEW signature, signature.kind = "method"
    PROVE  \E h : Under(s \o <<signature>>, h) /\ (s \o <<signature>>)[h] = signature
<1>1. IsSeq(<<signature>>) /\ Len(<<signature>>) = 1 /\ <<signature>>[1] = signature
      /\ Elements(<<signature>>) = {signature}
  BY OneLine
<1>2. PICK t : t = <<signature>>
  OBVIOUS
<1>3. PICK u : u = s \o t
  OBVIOUS
<1>4. /\ IsSeq(s) /\ IsSeq(t) /\ Len(t) = 1 /\ t[1] = signature /\ Elements(t) = {signature}
  BY <1>1, <1>2
<1>5. /\ IsSeq(u) /\ DOMAIN u = 1..Len(s) + 1 /\ Len(s) \in Nat
      /\ \A i \in 1..1 : u[Len(s) + i] = t[i]
      /\ Elements(u) = Elements(s) \cup Elements(t)
  <2>0. IsSeq(s) /\ IsSeq(t) /\ Len(t) = 1
    BY <1>4
  <2>1. IsSeq(u)
    BY <1>3, <2>0, Concatenated
  <2>4. DOMAIN u = 1..Len(s) + Len(t)
    BY <1>3, <2>0, Concatenated
  <2>5. \A i \in 1..Len(t) : u[Len(s) + i] = t[i]
    <3>1. \A i \in 1..Len(t) : (s \o t)[Len(s) + i] = t[i]
      BY <2>0, Concatenated
    <3>. QED  BY <1>3, <3>1
  <2>2. Elements(u) = Elements(s) \cup Elements(t)
    BY <1>3, <2>0, ConcatenatedElements
  <2>3. Len(s) \in Nat
    BY SeqFacts
  <2>. QED  BY <2>0, <2>1, <2>2, <2>3, <2>4, <2>5
<1>6. u[Len(s) + 1] = signature
  BY <1>4, <1>5
<1>7. ~ Mentions(signature)
  BY DEF Mentions
<1>8. ScopedTexts(u)
  BY <1>4, <1>5, <1>7, NothingMentioned
<1>9. Under(u, Len(s) + 1)
  BY <1>5, <1>6, <1>8 DEF Under
<1>. QED  BY <1>2, <1>3, <1>6, <1>9

LEMMA ScopedLines ==
    ASSUME NEW to, NEW texts, IsSeq(texts), ScopedTexts(texts)
    PROVE  ScopedCalls(Lines(to, texts))
<1>1. /\ DOMAIN texts = 1..Len(texts) /\ Len(texts) \in Nat
      /\ DOMAIN Lines(to, texts) = DOMAIN texts
      /\ \A k \in DOMAIN texts : Lines(to, texts)[k][1] = to /\ Lines(to, texts)[k][2] = texts[k]
  BY SeqFacts DEF Lines, At
<1>2. PICK calls : calls = Lines(to, texts)
  OBVIOUS
<1>3. ASSUME NEW k \in DOMAIN calls, Mentions(calls[k][2])
      PROVE  \E h \in DOMAIN calls : HeadCall(calls, h, k)
  <2>1. k \in 1..Len(texts) /\ Mentions(texts[k])
    BY <1>1, <1>2, <1>3
  <2>2. PICK h \in DOMAIN texts : HeadOf(texts, h, k)
    BY <1>1, <2>1 DEF ScopedTexts
  <2>3. \A g \in h + 1..k - 1 : g \in DOMAIN texts
    BY <1>1, <2>1
  <2>4. HeadCall(calls, h, k)
    BY <1>1, <1>2, <2>1, <2>2, <2>3 DEF HeadOf, HeadCall
  <2>. QED  BY <1>1, <1>2, <2>4
<1>. QED  BY <1>2, <1>3 DEF ScopedCalls

LEMMA ScopedCallsConcatenated ==
    ASSUME NEW s, NEW t, IsSeq(s), IsSeq(t), ScopedCalls(s), ScopedCalls(t)
    PROVE  ScopedCalls(s \o t)
<1>1. /\ Len(s) \in Nat /\ Len(t) \in Nat /\ DOMAIN s = 1..Len(s) /\ DOMAIN t = 1..Len(t)
  BY SeqFacts
<1>2. PICK u : u = s \o t
  OBVIOUS
<1>3. /\ DOMAIN u = 1..Len(s) + Len(t)
      /\ \A i \in 1..Len(s) : u[i] = s[i]
      /\ \A i \in 1..Len(t) : u[Len(s) + i] = t[i]
  BY <1>2, Concatenated
<1>4. ASSUME NEW k \in DOMAIN u, Mentions(u[k][2]) PROVE \E h \in DOMAIN u : HeadCall(u, h, k)
  <2>1. CASE k \in 1..Len(s)
    <3>1. u[k] = s[k]
      BY <1>3, <2>1
    <3>2. PICK h \in DOMAIN s : HeadCall(s, h, k)
      BY <1>1, <1>4, <2>1, <3>1 DEF ScopedCalls
    <3>3. h \in 1..Len(s) /\ h \in 1..k - 1 /\ \A g \in h + 1..k - 1 : g \in 1..Len(s)
      BY <1>1, <2>1, <3>2 DEF HeadCall
    <3>4. u[h] = s[h] /\ \A g \in h + 1..k - 1 : u[g] = s[g]
      BY <1>3, <3>3
    <3>5. HeadCall(u, h, k)
      BY <3>1, <3>2, <3>3, <3>4 DEF HeadCall
    <3>6. h \in DOMAIN u
      BY <1>1, <1>3, <3>3
    <3>. QED  BY <3>5, <3>6
  <2>2. CASE k \notin 1..Len(s)
    <3>1. PICK j : j = k - Len(s)
      OBVIOUS
    <3>2. j \in 1..Len(t) /\ k = Len(s) + j
      BY <1>1, <1>3, <2>2, <3>1
    <3>3. u[k] = t[j]
      BY <1>3, <3>2
    <3>4. PICK i \in DOMAIN t : HeadCall(t, i, j)
      BY <1>1, <1>4, <3>2, <3>3 DEF ScopedCalls
    <3>5. i \in 1..Len(t) /\ i \in 1..j - 1
      BY <1>1, <3>4 DEF HeadCall
    <3>6. PICK h : h = Len(s) + i
      OBVIOUS
    <3>7. u[h] = t[i] /\ h \in DOMAIN u /\ h \in 1..k - 1
      BY <1>1, <1>3, <3>2, <3>5, <3>6
    <3>8. ASSUME NEW g \in h + 1..k - 1 PROVE u[g][1] = u[k][1] => u[g][2].kind # "method"
      <4>1. PICK f : f = g - Len(s)
        OBVIOUS
      <4>2. f \in i + 1..j - 1 /\ f \in 1..Len(t) /\ g = Len(s) + f
        BY <1>1, <3>2, <3>5, <3>6, <3>8, <4>1
      <4>3. u[g] = t[f]
        BY <1>3, <4>2
      <4>. QED  BY <3>3, <3>4, <4>2, <4>3 DEF HeadCall
    <3>9. HeadCall(u, h, k)
      BY <3>3, <3>4, <3>7, <3>8 DEF HeadCall
    <3>. QED  BY <3>7, <3>9
  <2>. QED  BY <2>1, <2>2
<1>. QED  BY <1>2, <1>4 DEF ScopedCalls

\* The statements of a method belong to its first line.
LEMMA ImplementationScoped ==
    ASSUME NEW d, IsValid(d), NEW to
    PROVE  ScopedCalls(Implementation(d, to))
<1>. DEFINE a == <<Empty>> \o TemplateLine(d)
            b == a \o <<Defined(d, to)>>
            c == b \o PredicateLines(d)
            e == c \o <<Body(d)>>
            f == e \o <<End, Empty>>
<1>1. Implementation(d, to) = Lines(to, f)
  BY DEF Implementation, Defined, End
<1>2. IsSeq(a) /\ \A x \in Elements(a) : ~ Mentions(x)
  <2>1. IsSeq(<<Empty>>) /\ Elements(<<Empty>>) = {Empty} /\ ~ Mentions(Empty)
    BY OneLine, EmptyAssumption DEF Mentions
  <2>2. IsSeq(TemplateLine(d)) /\ \A x \in Elements(TemplateLine(d)) : ~ Mentions(x)
    BY TemplateTexts DEF Mentions
  <2>. QED  BY <2>1, <2>2, Concatenated, ConcatenatedElements
<1>. HIDE DEF a
<1>3. PICK h : Under(b, h) /\ b[h] = Defined(d, to)
  <2>1. Defined(d, to).kind = "method"
    BY ParamsOf
  <2>. QED  BY <1>2, <2>1, UnderSignature
<1>. HIDE DEF b
<1>4. Under(c, h) /\ c[h] = Defined(d, to)
  <2>1. /\ IsSeq(PredicateLines(d))
        /\ \A x \in Elements(PredicateLines(d)) :
              x.kind # "method" /\ InScope(x, ParamNames(Defined(d, to)))
    BY PredicateTexts, PredicateInScope
  <2>. QED  BY <1>3, <2>1, UnderExtended
<1>. HIDE DEF c
<1>5. Under(e, h) /\ e[h] = Defined(d, to)
  <2>1. IsSeq(<<Body(d)>>) /\ Elements(<<Body(d)>>) = {Body(d)}
    BY OneLine
  <2>2. Body(d).kind # "method" /\ InScope(Body(d), ParamNames(Defined(d, to)))
    BY BodyText, BodyInScope
  <2>. QED  BY <1>4, <2>1, <2>2, UnderExtended
<1>. HIDE DEF e
<1>6. Under(f, h)
  <2>1. IsSeq(<<End, Empty>>) /\ Elements(<<End, Empty>>) = {End, Empty}
    BY TwoLines
  <2>2. End.kind # "method" /\ Empty.kind # "method" /\ ~ Mentions(End) /\ ~ Mentions(Empty)
    BY EmptyAssumption DEF End, Mentions
  <2>. QED  BY <1>5, <2>1, <2>2, UnderExtended
<1>. HIDE DEF f
<1>. QED  BY <1>1, <1>6, ScopedLines DEF Under

LEMMA WriteFieldScoped ==
    ASSUME NEW d
    PROVE  ScopedCalls(WriteField(d))
<1>1. ScopedCalls(<<>>)
  BY NoLines DEF ScopedCalls
<1>2. ScopedCalls(Error(d))
  <2>1. \A c \in Elements(Error(d)) : ~ Mentions(c[2])
    BY ErrorElements, EmptyAssumption DEF At, ErrorText, Mentions
  <2>. QED  BY <2>1, NothingMentioned
<1>3. ASSUME NEW to PROVE ScopedCalls(Declaration(d, to))
  <2>1. \A x \in {Declared(d, to)} \cup Elements(TemplateLine(d)) : ~ Mentions(x)
    BY TemplateTexts, ParamsOf DEF Mentions
  <2>2. \A x \in Elements(SetFromBuilder(d)) : ~ Mentions(x)
    BY BuilderTexts, EmptyAssumption DEF Mentions
  <2>3. \A c \in Elements(Declaration(d, to)) : \E t, x : c = At(t, x) /\ ~ Mentions(x)
    BY <2>1, <2>2, DeclarationElements
  <2>4. \A c \in Elements(Declaration(d, to)) : ~ Mentions(c[2])
    BY <2>3 DEF At
  <2>. QED  BY <2>4, NothingMentioned
<1>4. ASSUME IsValid(d) PROVE ScopedCalls((HeaderLines(d) \o SourceLines(d)) \o InterfaceLines(d))
  <2>1. \A to : ScopedCalls(Implementation(d, to))
    BY <1>4, ImplementationScoped
  <2>2. /\ ScopedCalls(HeaderLines(d)) /\ ScopedCalls(SourceLines(d))
        /\ ScopedCalls(InterfaceLines(d))
    BY <1>1, <1>3, <2>1 DEF HeaderLines, SourceLines, InterfaceLines
  <2>3. /\ IsSeq(HeaderLines(d)) /\ IsSeq(SourceLines(d)) /\ IsSeq(InterfaceLines(d))
        /\ IsSeq(HeaderLines(d) \o SourceLines(d))
    BY WriteFieldParts
  <2>4. ScopedCalls(HeaderLines(d) \o SourceLines(d))
    BY <2>2, <2>3, ScopedCallsConcatenated
  <2>. QED  BY <2>2, <2>3, <2>4, ScopedCallsConcatenated
<1>5. WriteField(d) = IF Output(d) = "SKIP" THEN <<>>
                      ELSE IF ~ IsValid(d) THEN Error(d)
                      ELSE (HeaderLines(d) \o SourceLines(d)) \o InterfaceLines(d)
  BY WriteFieldParts
<1>. QED  BY <1>1, <1>2, <1>4, <1>5

\* The line of the method that a line belongs to, in what is written.
HeadLine(to, h, k) ==
    /\ h \in 1..k - 1 /\ Text(to, h).kind = "method"
    /\ InScope(Text(to, k), ParamNames(Text(to, h)))
    /\ \A g \in h + 1..k - 1 : Text(to, g).kind # "method"

\* Or for a call to come, whose method has begun.
HeadWritten(h, k) ==
    LET to == pending[k][1] IN
      /\ h \in DOMAIN buffer[to] /\ Text(to, h).kind = "method"
      /\ InScope(pending[k][2], ParamNames(Text(to, h)))
      /\ \A g \in DOMAIN buffer[to] : g > h => Text(to, g).kind # "method"
      /\ \A g \in 1..k - 1 : pending[g][1] = to => pending[g][2].kind # "method"

Scoped ==
    /\ \A to \in Where : \A k \in DOMAIN buffer[to] :
          Mentions(Text(to, k)) => \E h \in DOMAIN buffer[to] : HeadLine(to, h, k)
    /\ \A k \in DOMAIN pending : Mentions(pending[k][2]) =>
          \/ \E h \in DOMAIN pending : HeadCall(pending, h, k)
          \/ \E h : HeadWritten(h, k)

LEMMA ScopedInit == Init => Scoped
BY DEF Init, WriterInit, Scoped

LEMMA ScopedUnmoved ==
    ASSUME Scoped, buffer' = buffer, ScopedCalls(pending') \/ pending' = pending
    PROVE  Scoped'
<1>1. \A to, h, k : HeadLine(to, h, k)' <=> HeadLine(to, h, k)
  BY DEF HeadLine, Text
<1>2. \A to \in Where : \A k \in DOMAIN buffer'[to] :
          Mentions(Text(to, k))' => \E h \in DOMAIN buffer'[to] : HeadLine(to, h, k)'
  BY <1>1 DEF Scoped, Text, Mentions
<1>3. CASE ScopedCalls(pending')
  <2>1. \A k \in DOMAIN pending' : Mentions(pending'[k][2]) =>
            \E h \in DOMAIN pending' : HeadCall(pending', h, k)
    BY <1>3 DEF ScopedCalls
  <2>. QED  BY <1>2, <2>1 DEF Scoped, Mentions, HeadCall
<1>4. CASE pending' = pending
  <2>1. \A h, k : HeadWritten(h, k) => HeadWritten(h, k)'
    BY <1>4 DEF HeadWritten, Text
  <2>. QED  BY <1>2, <1>4, <2>1 DEF Scoped, Mentions, HeadCall
<1>. QED  BY <1>3, <1>4

\* The lines of a target after a call of Write.
LEMMA LinesWritten ==
    ASSUME Typed, NEW to \in Where, NEW text, Write(to, text), NEW n, n = Len(buffer[to])
    PROVE  /\ \A w \in Where : /\ Len(buffer[w]) \in Nat /\ DOMAIN buffer[w] = 1..Len(buffer[w])
                               /\ \A i \in DOMAIN buffer[w] : i \in DOMAIN buffer'[w] /\ Text(w, i)' = Text(w, i)
           /\ \A w \in Where \ {to} : DOMAIN buffer'[w] = DOMAIN buffer[w]
           /\ \/ DOMAIN buffer'[to] = DOMAIN buffer[to] /\ text = Empty
              \/ DOMAIN buffer'[to] = 1..n + 1 /\ Text(to, n + 1)' = text
<1>2. /\ \A w \in Where \ {to} : buffer'[w] = buffer[w]
      /\ \/ buffer'[to] = Append(buffer[to], Indent(to, text))
         \/ buffer'[to] = buffer[to] /\ text = Empty
  BY WriteEffect
<1>3. \A w \in Where : Len(buffer[w]) \in Nat /\ DOMAIN buffer[w] = 1..Len(buffer[w])
  BY SeqFacts DEF Typed
<1>4. \A w \in Where \ {to} : /\ DOMAIN buffer'[w] = DOMAIN buffer[w]
                              /\ \A i \in DOMAIN buffer[w] : Text(w, i)' = Text(w, i)
  BY <1>2 DEF Text
<1>5. CASE buffer'[to] = buffer[to] /\ text = Empty
  <2>1. \A i : Text(to, i)' = Text(to, i)
    BY <1>5 DEF Text
  <2>. QED  BY <1>3, <1>4, <1>5, <2>1
<1>6. CASE buffer'[to] = Append(buffer[to], Indent(to, text))
  <2>1. /\ DOMAIN buffer'[to] = 1..n + 1
        /\ \A i \in 1..n : buffer'[to][i] = buffer[to][i]
        /\ buffer'[to][n + 1] = Indent(to, text)
    BY <1>6, Appended DEF Typed
  <2>2. Indent(to, text).text = text
    BY DEF Indent
  <2>3. Text(to, n + 1)' = text /\ \A i \in 1..n : Text(to, i)' = Text(to, i)
    <3>1. buffer'[to][n + 1].text = text
      BY <2>1, <2>2
    <3>2. \A i \in 1..n : buffer'[to][i].text = buffer[to][i].text
      BY <2>1
    <3>. QED  BY <3>1, <3>2 DEF Text
  <2>4. n \in Nat /\ 1..n \subseteq 1..n + 1
    BY <1>3
  <2>5. \A i \in DOMAIN buffer[to] : i \in DOMAIN buffer'[to] /\ Text(to, i)' = Text(to, i)
    BY <1>3, <2>1, <2>3, <2>4
  <2>. QED  BY <1>3, <1>4, <2>1, <2>3, <2>5
<1>. QED  BY <1>2, <1>5, <1>6

LEMMA ScopedWriteLine == Typed /\ Scoped /\ WriteLine => Scoped'
<1>. SUFFICES ASSUME Typed, Scoped, WriteLine PROVE Scoped'
  OBVIOUS
<1>1. PICK w, text : w = Head(pending)[1] /\ text = Head(pending)[2]
  OBVIOUS
<1>2. /\ pending # <<>> /\ pending' = Tail(pending) /\ Write(w, text)
      /\ w \in Where /\ pending[1][1] = w /\ pending[1][2] = text /\ 1 \in DOMAIN pending
  BY <1>1, TailFacts DEF WriteLine, Typed, TypeOK
<1>3. PICK n : n = Len(buffer[w])
  OBVIOUS
<1>4. /\ \A to \in Where : /\ Len(buffer[to]) \in Nat /\ DOMAIN buffer[to] = 1..Len(buffer[to])
                           /\ \A i \in DOMAIN buffer[to] :
                                 i \in DOMAIN buffer'[to] /\ Text(to, i)' = Text(to, i)
      /\ \A to \in Where \ {w} : DOMAIN buffer'[to] = DOMAIN buffer[to]
      /\ \/ DOMAIN buffer'[w] = DOMAIN buffer[w] /\ text = Empty
         \/ DOMAIN buffer'[w] = 1..n + 1 /\ Text(w, n + 1)' = text
  BY <1>2, <1>3, LinesWritten
<1>5. /\ \A k \in DOMAIN pending' : k \in Nat \ {0} /\ k + 1 \in DOMAIN pending
                                    /\ pending'[k] = pending[k + 1]
      /\ DOMAIN pending' = 1..Len(pending) - 1 /\ DOMAIN pending = 1..Len(pending)
      /\ Len(pending) \in Nat
  <2>1. IsSeq(pending)
    BY DEF Typed
  <2>2. /\ DOMAIN Tail(pending) = 1..Len(pending) - 1 /\ DOMAIN pending = 1..Len(pending)
        /\ Len(pending) \in Nat
        /\ \A k \in DOMAIN Tail(pending) : k + 1 \in DOMAIN pending /\ Tail(pending)[k] = pending[k + 1]
    BY <1>2, <2>1, TailFacts
  <2>. QED  BY <1>2, <2>2
<1>6. n \in Nat /\ DOMAIN buffer[w] = 1..n
  BY <1>2, <1>3, <1>4
<1>7. ASSUME NEW to \in Where, NEW k \in DOMAIN buffer'[to], Mentions(Text(to, k))'
      PROVE  \E h \in DOMAIN buffer'[to] : HeadLine(to, h, k)'
  <2>1. CASE k \in DOMAIN buffer[to]
    <3>1. Text(to, k)' = Text(to, k)
      BY <1>4, <2>1
    <3>2. Mentions(Text(to, k))
      BY <1>7, <3>1 DEF Mentions
    <3>3. PICK h \in DOMAIN buffer[to] : HeadLine(to, h, k)
      BY <2>1, <3>2 DEF Scoped
    <3>4. h \in 1..k - 1 /\ \A g \in h + 1..k - 1 : g \in DOMAIN buffer[to]
      BY <1>4, <2>1, <3>3 DEF HeadLine
    <3>5. Text(to, h)' = Text(to, h) /\ h \in DOMAIN buffer'[to]
          /\ \A g \in h + 1..k - 1 : Text(to, g)' = Text(to, g)
      BY <1>4, <3>4
    <3>6. HeadLine(to, h, k)'
      BY <3>1, <3>3, <3>5 DEF HeadLine
    <3>. QED  BY <3>5, <3>6
  <2>2. CASE k \notin DOMAIN buffer[to]
    <3>1. to = w /\ k \in 1..n + 1 /\ Text(w, n + 1)' = text
      BY <1>4, <1>7, <2>2
    <3>2. k = n + 1
      BY <1>6, <2>2, <3>1
    <3>3. Text(to, k)' = text
      BY <3>1, <3>2
    <3>4. Mentions(pending[1][2])
      BY <1>2, <1>7, <3>3 DEF Mentions
    <3>5. PICK h : HeadWritten(h, 1)
      <4>1. \A h : ~ HeadCall(pending, h, 1)
        BY DEF HeadCall
      <4>. QED  BY <1>2, <3>4, <4>1 DEF Scoped
    <3>6. /\ h \in DOMAIN buffer[w] /\ Text(w, h).kind = "method"
          /\ InScope(text, ParamNames(Text(w, h)))
          /\ \A g \in DOMAIN buffer[w] : g > h => Text(w, g).kind # "method"
      BY <1>2, <3>5 DEF HeadWritten
    <3>7. h \in 1..k - 1 /\ \A g \in h + 1..k - 1 : g \in DOMAIN buffer[w] /\ g > h
      BY <1>6, <3>2, <3>6
    <3>8. Text(w, h)' = Text(w, h) /\ h \in DOMAIN buffer'[w]
          /\ \A g \in h + 1..k - 1 : Text(w, g)' = Text(w, g)
      BY <1>2, <1>4, <3>6, <3>7
    <3>9. HeadLine(to, h, k)'
      BY <3>1, <3>3, <3>6, <3>7, <3>8 DEF HeadLine
    <3>. QED  BY <3>1, <3>8, <3>9
  <2>. QED  BY <2>1, <2>2
<1>8. ASSUME NEW k \in DOMAIN pending', Mentions(pending'[k][2])
      PROVE  \/ \E h \in DOMAIN pending' : HeadCall(pending', h, k)
             \/ \E h : HeadWritten(h, k)'
  <2>1. /\ k \in Nat \ {0} /\ k + 1 \in DOMAIN pending /\ pending'[k] = pending[k + 1]
        /\ Mentions(pending[k + 1][2])
    BY <1>5, <1>8
  <2>2. PICK to : to = pending'[k][1] /\ to = pending[k + 1][1] /\ to \in Where
    BY <2>1 DEF Typed, TypeOK
  <2>3. ASSUME NEW h \in DOMAIN pending, HeadCall(pending, h, k + 1), h > 1
        PROVE  \E i \in DOMAIN pending' : HeadCall(pending', i, k)
    <3>1. PICK i : i = h - 1
      OBVIOUS
    <3>2. i + 1 = h /\ i \in 1..k - 1 /\ i \in DOMAIN pending'
      BY <1>5, <2>1, <2>3, <3>1 DEF HeadCall
    <3>3. pending'[i] = pending[h]
      BY <1>5, <3>2
    <3>4. ASSUME NEW g \in i + 1..k - 1, pending'[g][1] = pending'[k][1]
          PROVE  pending'[g][2].kind # "method"
      <4>1. g + 1 \in h + 1..(k + 1) - 1 /\ g \in DOMAIN pending'
        BY <1>5, <2>1, <3>2, <3>4
      <4>2. pending'[g] = pending[g + 1]
        BY <1>5, <4>1
      <4>. QED  BY <2>1, <2>3, <3>4, <4>1, <4>2 DEF HeadCall
    <3>5. HeadCall(pending', i, k)
      BY <2>1, <2>3, <3>2, <3>3, <3>4 DEF HeadCall
    <3>. QED  BY <3>2, <3>5
  <2>4. ASSUME HeadCall(pending, 1, k + 1) PROVE \E h : HeadWritten(h, k)'
    <3>1. /\ to = w /\ text.kind = "method" /\ InScope(pending[k + 1][2], ParamNames(text))
          /\ \A g \in 1 + 1..(k + 1) - 1 : pending[g][1] = to => pending[g][2].kind # "method"
      BY <1>2, <2>2, <2>4 DEF HeadCall
    <3>2. DOMAIN buffer'[w] = 1..n + 1 /\ Text(w, n + 1)' = text
      BY <1>4, <3>1, EmptyAssumption
    <3>3. PICK h : h = n + 1
      OBVIOUS
    <3>4. h \in DOMAIN buffer'[w] /\ Text(w, h)' = text /\ \A g \in DOMAIN buffer'[w] : ~ (g > h)
      BY <1>6, <3>2, <3>3
    <3>5. ASSUME NEW g \in 1..k - 1, pending'[g][1] = to PROVE pending'[g][2].kind # "method"
      <4>1. g + 1 \in 1 + 1..(k + 1) - 1 /\ g \in DOMAIN pending'
        BY <1>5, <2>1, <3>5
      <4>2. pending'[g] = pending[g + 1]
        BY <1>5, <4>1
      <4>. QED  BY <3>1, <3>5, <4>1, <4>2
    <3>6. HeadWritten(h, k)'
      BY <2>1, <2>2, <3>1, <3>4, <3>5 DEF HeadWritten
    <3>. QED  BY <3>6
  <2>5. ASSUME NEW h, HeadWritten(h, k + 1) PROVE \E i : HeadWritten(i, k)'
    <3>1. /\ h \in DOMAIN buffer[to] /\ Text(to, h).kind = "method"
          /\ InScope(pending[k + 1][2], ParamNames(Text(to, h)))
          /\ \A g \in DOMAIN buffer[to] : g > h => Text(to, g).kind # "method"
          /\ \A g \in 1..(k + 1) - 1 : pending[g][1] = to => pending[g][2].kind # "method"
      BY <2>2, <2>5 DEF HeadWritten
    <3>2. to = w => text.kind # "method"
      <4>1. 1 \in 1..(k + 1) - 1
        BY <2>1
      <4>. QED  BY <1>2, <3>1, <4>1
    <3>3. ASSUME NEW g \in DOMAIN buffer'[to], g > h PROVE Text(to, g)'.kind # "method"
      <4>1. CASE g \in DOMAIN buffer[to]
        <5>1. Text(to, g)' = Text(to, g)
          BY <1>4, <2>2, <4>1
        <5>. QED  BY <3>1, <3>3, <4>1, <5>1
      <4>2. CASE g \notin DOMAIN buffer[to]
        <5>1. to = w /\ g \in 1..n + 1 /\ Text(w, n + 1)' = text
          BY <1>4, <3>3, <4>2, <2>2
        <5>2. g = n + 1
          BY <1>6, <4>2, <5>1
        <5>. QED  BY <3>2, <5>1, <5>2
      <4>. QED  BY <4>1, <4>2
    <3>4. ASSUME NEW g \in 1..k - 1, pending'[g][1] = to PROVE pending'[g][2].kind # "method"
      <4>1. g + 1 \in 1..(k + 1) - 1 /\ g \in DOMAIN pending'
        BY <1>5, <2>1, <3>4
      <4>2. pending'[g] = pending[g + 1]
        BY <1>5, <4>1
      <4>. QED  BY <3>1, <3>4, <4>1, <4>2
    <3>5. h \in DOMAIN buffer'[to] /\ Text(to, h)' = Text(to, h)
      BY <1>4, <2>2, <3>1
    <3>6. HeadWritten(h, k)'
      BY <2>1, <2>2, <3>1, <3>3, <3>4, <3>5 DEF HeadWritten
    <3>. QED  BY <3>6
  <2>6. \/ \E h \in DOMAIN pending : HeadCall(pending, h, k + 1)
        \/ \E h : HeadWritten(h, k + 1)
    BY <2>1 DEF Scoped
  <2>7. ASSUME NEW h \in DOMAIN pending, HeadCall(pending, h, k + 1) PROVE h = 1 \/ h > 1
    BY <1>5
  <2>. QED  BY <2>3, <2>4, <2>5, <2>6, <2>7
<1>. QED  BY <1>7, <1>8 DEF Scoped, Mentions, HeadCall

LEMMA ScopedStep == Typed /\ Scoped /\ [Next]_vars => Scoped'
<1>. SUFFICES ASSUME Typed, Scoped, [Next]_vars PROVE Scoped'
  OBVIOUS
<1>1. CASE SkipMethod \/ Die \/ UNCHANGED vars
  <2>1. UNCHANGED <<buffer, pending>>
    BY <1>1 DEF SkipMethod, Die, vars, writerVars
  <2>. QED  BY <2>1, ScopedUnmoved
<1>2. CASE WriteMethod
  <2>1. pending' = WriteField(Methods[method]) /\ buffer' = buffer
    BY <1>2, MethodWritten
  <2>2. ScopedCalls(pending')
    BY <2>1, WriteFieldScoped
  <2>. QED  BY <2>1, <2>2, ScopedUnmoved
<1>3. CASE EndBuilder
  <2>1. buffer' = buffer
    BY <1>3 DEF EndBuilder, writerVars
  <2>2. pending' = <<At("HEADER", Empty), At("SOURCE", Empty), At("INTERFACE", Empty)>>
    BY <1>3 DEF EndBuilder
  <2>3. \A k \in DOMAIN pending' : pending'[k][2] = Empty
    BY <2>2, ThreeLines DEF At
  <2>4. ScopedCalls(pending')
    BY <2>3, EmptyAssumption DEF ScopedCalls, Mentions
  <2>. QED  BY <2>1, <2>4, ScopedUnmoved
<1>4. CASE WriteLine
  BY <1>4, ScopedWriteLine
<1>. QED  BY <1>1, <1>2, <1>3, <1>4 DEF Next

LEMMA ScopeKept == Typed /\ Scoped => NamesInScope
<1>. SUFFICES ASSUME Typed, Scoped, NEW to \in Where, NEW i \in DOMAIN buffer[to],
                     Mentions(Text(to, i))
              PROVE  InScope(Text(to, i), ParamNames(MethodOf(to, i)))
  BY DEF NamesInScope, InScope, Mentions
<1>1. PICK h \in DOMAIN buffer[to] : HeadLine(to, h, i)
  BY DEF Scoped
<1>2. DOMAIN buffer[to] = 1..Len(buffer[to]) /\ Len(buffer[to]) \in Nat
  BY SeqFacts DEF Typed
<1>. DEFINE IsHead(g) == g <= i /\ \A k \in OfKind(to, "method") : k <= i => k <= g
<1>3. h \in OfKind(to, "method") /\ h <= i
  BY <1>1, <1>2 DEF HeadLine, OfKind
<1>4. ASSUME NEW k \in OfKind(to, "method"), k <= i PROVE k <= h
  <2>1. k \in 1..Len(buffer[to]) /\ Text(to, k).kind = "method"
    BY <1>2, <1>4 DEF OfKind
  <2>2. k # i
    BY <2>1 DEF Mentions
  <2>3. k \notin h + 1..i - 1
    BY <1>1, <2>1 DEF HeadLine
  <2>. QED  BY <1>2, <1>4, <2>1, <2>2, <2>3
<1>5. IsHead(h)
  BY <1>3, <1>4
<1>6. \A g \in OfKind(to, "method") : IsHead(g) => g = h
  <2>1. \A g \in OfKind(to, "method") : g \in Nat
    BY <1>2 DEF OfKind
  <2>. QED  BY <1>2, <1>3, <1>4, <2>1
<1>7. MethodOf(to, i) = Text(to, CHOOSE g \in OfKind(to, "method") : IsHead(g))
  BY DEF MethodOf
<1>. HIDE DEF IsHead
<1>8. (CHOOSE g \in OfKind(to, "method") : IsHead(g)) = h
  BY <1>3, <1>5, <1>6
<1>. QED  BY <1>1, <1>7, <1>8 DEF HeadLine

LEMMA ScopedAlways == Spec => [](Typed /\ Scoped)
<1>1. Init => Typed /\ Scoped
  BY TypedInit, ScopedInit
<1>2. Typed /\ Scoped /\ [Next]_vars => (Typed /\ Scoped)'
  BY TypedStep, ScopedStep
<1>. QED  BY <1>1, <1>2, PTL DEF Spec

\* Whatever the mode, the conversion and the predicate of an annotation, setters
\* mention their own parameters only, those of the method they are written in
\* and of no other.
THEOREM NamesInScopeCorrect == Spec => []NamesInScope
BY ScopedAlways, ScopeKept, PTL

(***************************************************************************)
(* Automatic types.                                                        *)
(***************************************************************************)
\* What a configuration that was loaded looks like: an automatic type is under
\* its absolute name, so that there are no two entries for one.
AutomaticNormal(config) ==
    \A k \in DOMAIN config :
        Get(config[k], "automatic") => k = Type("=", AbsoluteCppTypeName[k.name])

\* However a built-in or a custom text spells a type, and in whichever order a
\* hash map has the entries, loading leaves one entry for it, under its absolute
\* name (VerifyProtoBuilderConfig).
THEOREM LoadedNormal ==
    ASSUME NEW text, NEW custom, NEW config \in VerifyProtoBuilderConfig(text, custom),
           \A k \in DOMAIN MergeMaps(Parsed(text), custom) : k.name \in DOMAIN AbsoluteCppTypeName
    PROVE  AutomaticNormal(config)
<1>1. PICK m : m = MergeMaps(Parsed(text), custom)
  OBVIOUS
<1>2. config \in Normalised(m)
  BY <1>1 DEF VerifyProtoBuilderConfig
<1>. DEFINE Normal(k) == NormalKey(k, m[k])
            keys == {Normal(k) : k \in DOMAIN m}
<1>3. PICK f \in [keys -> DOMAIN m] :
         /\ \A n \in keys : Normal(f[n]) = n
         /\ config = [n \in keys |-> NormalOptions(m[f[n]])]
  BY <1>2 DEF Normalised
<1>4. ASSUME NEW n \in DOMAIN config, Get(config[n], "automatic")
      PROVE  n = Type("=", AbsoluteCppTypeName[n.name])
  <2>1. PICK k \in DOMAIN m : k = f[n] /\ n = NormalKey(k, m[k]) /\ config[n] = NormalOptions(m[k])
    BY <1>3, <1>4
  <2>2. Get(m[k], "automatic")
    BY <1>4, <2>1 DEF NormalOptions
  <2>3. n = Type("=", AbsoluteCppTypeName[k.name])
    BY <2>1, <2>2, Zenon DEF NormalKey
  <2>4. n.name = AbsoluteCppTypeName[k.name]
    BY <2>3 DEF Type
  <2>5. AbsoluteCppTypeName[n.name] = n.name
    BY <1>1, <2>4, AbsoluteAssumption
  <2>. QED  BY <2>3, <2>4, <2>5
<1>. QED  BY <1>4 DEF AutomaticNormal

\* An entry that puts a type in the place of another one and says no more than how
\* to convert it and whether to write it into the header or both files; neither of
\* the two types has an entry of its own.
PutsInPlace(config, k, type) ==
    /\ DOMAIN config[k] \cap {"value", "decorated_type"} = {}
    /\ "type" \in DOMAIN config[k] /\ config[k].type # NoType
    /\ Get(config[k], "output") \in {"HEADER", "BOTH"}
    /\ DOMAIN config \cap {type, config[k].type} = {}

\* The setter for the field's own type.
LEMMA OwnTypeOffered ==
    ASSUME NEW d, d.raw_field_options = NoOptions, d.field.type \notin DOMAIN d.config
    PROVE  Output(d) = "BOTH" /\ IsValid(d) /\ MethodParam(d, "HEADER")[1].type = d.field.type
<1>1. GetOptionsType(d) = d.field.type
  BY DEF GetOptionsType, NoOptions
<1>2. GetTypeInfo(d.config, GetOptionsType(d)) = NoOptions
  BY <1>1 DEF GetTypeInfo
<1>3. DOMAIN NoOptions = {} /\ Get(NoOptions, "type") = NoType
  BY DEF NoOptions, Get, OptionDefaults
<1>4. DOMAIN MergeFrom(NoOptions, NoOptions) = {}
  BY <1>3 DEF MergeFrom
<1>5. DOMAIN Options(d) = {}
  BY <1>2, <1>3, <1>4 DEF Options
<1>6. \A o : Option(d, o) = OptionDefaults[o]
  BY <1>5 DEF Option, Get
<1>7. /\ OptionDefaults["output"] = "BOTH" /\ OptionDefaults["value"] = ""
      /\ OptionDefaults["type"] = NoType /\ OptionDefaults["decorated_type"] = NoType
  BY DEF OptionDefaults
<1>8. Output(d) = "BOTH"
  BY <1>6, <1>7 DEF Output
<1>9. ~ UseTemplate(d) /\ ~ UseForeach(d) /\ ~ UseInitializerList(d)
  BY <1>8 DEF UseTemplate, UseForeach, UseInitializerList
<1>10. MethodParam(d, "HEADER")[1] = ValueParam(d)
  BY <1>6, <1>7, MethodParams
<1>11. ParameterType(d) = d.field.type
  BY <1>6, <1>7, <1>9 DEF ParameterType
<1>12. ValueParam(d).type = ParameterType(d)
  BY DEF ValueParam, Param
<1>. QED  BY <1>8, <1>9, <1>10, <1>11, <1>12 DEF IsValid

\* The setter for the type in its place.
LEMMA PlacedTypeOffered ==
    ASSUME NEW d, NEW k, PutsInPlace(d.config, k, d.field.type),
           d.raw_field_options = d.config[k]
    PROVE  /\ Output(d) \in {"HEADER", "BOTH"} /\ IsValid(d)
           /\ MethodParam(d, "HEADER")[1].type = d.config[k].type
<1>1. PICK raw : raw = d.config[k]
  OBVIOUS
<1>2. /\ DOMAIN raw \cap {"value", "decorated_type"} = {}
      /\ "type" \in DOMAIN raw /\ raw.type # NoType
      /\ Get(raw, "output") \in {"HEADER", "BOTH"} /\ raw.type \notin DOMAIN d.config
      /\ d.raw_field_options = raw
  BY <1>1 DEF PutsInPlace
<1>3. GetOptionsType(d) = raw.type
  BY <1>2 DEF GetOptionsType
<1>4. GetTypeInfo(d.config, GetOptionsType(d)) = NoOptions
  BY <1>2, <1>3 DEF GetTypeInfo
<1>5. DOMAIN NoOptions = {} /\ Get(NoOptions, "type") = NoType
  BY DEF NoOptions, Get, OptionDefaults
<1>6. Options(d) = MergeFrom(NoOptions, raw)
  BY <1>2, <1>4, <1>5 DEF Options
<1>7. DOMAIN Options(d) = DOMAIN raw
  BY <1>5, <1>6 DEF MergeFrom
<1>8. \A o \in DOMAIN raw : o \notin {"include", "source_include", "dependency"} => Options(d)[o] = raw[o]
  BY <1>5, <1>6 DEF MergeFrom
<1>9. \A o : o \notin {"include", "source_include", "dependency"} => Option(d, o) = Get(raw, o)
  BY <1>7, <1>8 DEF Option, Get
<1>10. /\ OptionDefaults["value"] = "" /\ OptionDefaults["decorated_type"] = NoType
  BY DEF OptionDefaults
<1>11. /\ Option(d, "output") \in {"HEADER", "BOTH"} /\ Option(d, "type") = raw.type
       /\ Option(d, "value") = "" /\ Option(d, "decorated_type") = NoType
  BY <1>2, <1>9, <1>10 DEF Get
<1>12. Output(d) \in {"HEADER", "BOTH"}
  BY <1>11 DEF Output
<1>13. ~ UseTemplate(d) /\ ~ UseForeach(d) /\ ~ UseInitializerList(d)
  BY <1>12 DEF UseTemplate, UseForeach, UseInitializerList
<1>14. MethodParam(d, "HEADER")[1] = ValueParam(d)
  BY <1>11, MethodParams
<1>15. ParameterType(d) = raw.type
  BY <1>2, <1>11, <1>13 DEF ParameterType
<1>16. ValueParam(d).type = ParameterType(d)
  BY DEF ValueParam, Param
<1>. QED  BY <1>1, <1>12, <1>13, <1>14, <1>15, <1>16 DEF IsValid

\* An annotation that is written into the header leaves its method there.
LEMMA InHeaderThere ==
    ASSUME Typed, Complete, Written, NEW m \in Active, IsValid(Methods[m]),
           Output(Methods[m]) # "SOURCE"
    PROVE  \E i \in OfKind("HEADER", "method") :
              Text("HEADER", i).params = MethodParam(Methods[m], "HEADER")
<1>1. PICK d : d = Methods[m]
  OBVIOUS
<1>2. UseHeader(d) /\ IsValid(d)
  BY <1>1 DEF UseHeader, Active
<1>3. PICK x \in {Declared(d, "HEADER"), Defined(d, "HEADER")} :
          At("HEADER", x) \in Elements(WriteField(d))
  BY <1>2, HeaderMethod
<1>4. x.kind = "method" /\ x.params = MethodParam(d, "HEADER")
  BY <1>3, ParamsOf
<1>5. x # Empty /\ "HEADER" \in Where
  BY <1>4, EmptyAssumption DEF Where
<1>6. PICK i \in DOMAIN buffer["HEADER"] : Text("HEADER", i) = x
  BY <1>1, <1>3, <1>5, AllThere
<1>7. i \in OfKind("HEADER", "method")
  BY <1>4, <1>6 DEF OfKind
<1>. QED  BY <1>1, <1>4, <1>6, <1>7

\* The annotations that stand in for none.
LEMMA AutomaticMethods ==
    ASSUME input.options = <<>>, NEW k,
           AutomaticKeys(input.config, input.field.type) = {k}
    PROVE  /\ DOMAIN Methods = {1, 2}
           /\ Methods[1].raw_field_options = NoOptions
           /\ Methods[2].raw_field_options = input.config[k]
           /\ ~ SkipsField
<1>1. (CHOOSE j \in AutomaticKeys(input.config, input.field.type) : TRUE) = k
  OBVIOUS
<1>2. Methods = <<FieldData(NoOptions, TRUE), FieldData(input.config[k], FALSE)>>
  BY <1>1 DEF Methods
<1>3. \A raw, first : FieldData(raw, first).raw_field_options = raw
  BY DEF FieldData
<1>4. DOMAIN Methods = {1, 2} /\ Methods[1] = FieldData(NoOptions, TRUE)
      /\ Methods[2] = FieldData(input.config[k], FALSE)
  BY <1>2
<1>5. ~ SkipsField
  BY DEF SkipsField
<1>6. FieldData(NoOptions, TRUE).raw_field_options = NoOptions
  BY <1>3, Zenon
<1>7. FieldData(input.config[k], FALSE).raw_field_options = input.config[k]
  BY <1>3, Zenon
<1>. QED  BY <1>4, <1>5, <1>6, <1>7, Zenon

LEMMA BothOffered ==
    ASSUME Typed, Complete, AutomaticNormal(input.config),
           \A k \in DOMAIN input.config :
               Get(input.config[k], "automatic") /\ AbsoluteCppTypeName[k.name] = input.field.type.name =>
                   PutsInPlace(input.config, k, input.field.type)
    PROVE  AutomaticTypesOffered
<1>. SUFFICES ASSUME Written, input.options = <<>>, NEW k \in DOMAIN input.config,
                     Get(input.config[k], "automatic"),
                     AbsoluteCppTypeName[k.name] = input.field.type.name,
                     NEW type \in {input.field.type, input.config[k].type}
              PROVE  \E i \in OfKind("HEADER", "method") : Text("HEADER", i).params[1].type = type
  BY DEF AutomaticTypesOffered
<1>1. PutsInPlace(input.config, k, input.field.type)
  OBVIOUS
<1>2. AutomaticKeys(input.config, input.field.type) = {k}
  <2>1. k = Type("=", input.field.type.name)
    BY DEF AutomaticNormal
  <2>2. k.name = input.field.type.name
    BY <2>1 DEF Type
  <2>3. ASSUME NEW j \in DOMAIN input.config, Get(input.config[j], "automatic"),
               j.name = input.field.type.name
        PROVE  j = k
    <3>1. j = Type("=", AbsoluteCppTypeName[j.name])
      BY <2>3 DEF AutomaticNormal
    <3>2. AbsoluteCppTypeName[j.name] = AbsoluteCppTypeName[k.name]
      BY <2>2, <2>3
    <3>. QED  BY <2>1, <3>1, <3>2
  <2>. QED  BY <2>2, <2>3 DEF AutomaticKeys
<1>3. /\ DOMAIN Methods = {1, 2} /\ Methods[1].raw_field_options = NoOptions
      /\ Methods[2].raw_field_options = input.config[k] /\ ~ SkipsField
  BY <1>2, AutomaticMethods
<1>4. \A m \in {1, 2} : Methods[m].config = input.config /\ Methods[m].field = input.field
  BY <1>3, MethodData
<1>5. /\ Output(Methods[1]) = "BOTH" /\ IsValid(Methods[1])
      /\ MethodParam(Methods[1], "HEADER")[1].type = input.field.type
  <2>1. PICK d : d = Methods[1]
    OBVIOUS
  <2>2. /\ d.raw_field_options = NoOptions /\ d.config = input.config /\ d.field = input.field
        /\ d.field.type \notin DOMAIN d.config
    BY <1>1, <1>3, <1>4, <2>1 DEF PutsInPlace
  <2>. QED  BY <2>1, <2>2, OwnTypeOffered
<1>6. /\ Output(Methods[2]) \in {"HEADER", "BOTH"} /\ IsValid(Methods[2])
      /\ MethodParam(Methods[2], "HEADER")[1].type = input.config[k].type
  <2>1. PICK d : d = Methods[2]
    OBVIOUS
  <2>2. d.raw_field_options = input.config[k] /\ d.config = input.config /\ d.field = input.field
    BY <1>3, <1>4, <2>1
  <2>3. PutsInPlace(d.config, k, d.field.type) /\ d.raw_field_options = d.config[k]
    BY <1>1, <2>2
  <2>. QED  BY <2>1, <2>2, <2>3, PlacedTypeOffered
<1>7. 1 \in Active /\ 2 \in Active
  <2>1. Get(NoOptions, "output") = "BOTH"
    BY DEF Get, NoOptions, OptionDefaults
  <2>2. Get(input.config[k], "output") \in {"HEADER", "BOTH"}
    BY <1>1 DEF PutsInPlace
  <2>3. ~ Skipped(Methods[1]) /\ ~ Skipped(Methods[2])
    BY <1>3, <2>1, <2>2 DEF Skipped
  <2>. QED  BY <1>3, <1>5, <1>6, <2>3 DEF Active
<1>8. /\ \E i \in OfKind("HEADER", "method") :
            Text("HEADER", i).params = MethodParam(Methods[1], "HEADER")
      /\ \E i \in OfKind("HEADER", "method") :
            Text("HEADER", i).params = MethodParam(Methods[2], "HEADER")
  BY <1>5, <1>6, <1>7, InHeaderThere
<1>. QED  BY <1>5, <1>6, <1>8

\* A field without annotations of a type that a loaded configuration puts another
\* type in the place of has a setter for each of them in the header (WriteField of
\* message_builder.cc, GetAutomaticType). Such entries say no more than type,
\* conversion and includes, as the built-in ones do; one that says SKIP has
\* no setter, and one that a message brings along is found as it is spelled.
THEOREM AutomaticTypesOfferedCorrect ==
    ASSUME \A i \in Input :
               /\ AutomaticNormal(i.config)
               /\ \A k \in DOMAIN i.config :
                     /\ Get(i.config[k], "automatic")
                     /\ AbsoluteCppTypeName[k.name] = i.field.type.name
                     => PutsInPlace(i.config, k, i.field.type)
    PROVE  Spec => []AutomaticTypesOffered
<1>1. Init => input \in Input
  BY DEF Init
<1>2. input \in Input /\ [Next]_vars => (input \in Input)'
  BY DEF Next, SkipMethod, Die, WriteMethod, EndBuilder, WriteLine, vars
<1>3. Spec => [](input \in Input)
  BY <1>1, <1>2, PTL DEF Spec
<1>4. Typed /\ Sourced /\ Complete /\ input \in Input => AutomaticTypesOffered
  BY BothOffered
<1>. QED  BY <1>3, <1>4, CompleteAlways, PTL
=============================================================================
