------------------------- MODULE FieldBuilderProofs -------------------------
(***************************************************************************)
(* Lemmas about what WriteField writes for one annotation, for any field,  *)
(* options and configuration.                                              *)
(***************************************************************************)
EXTENDS FieldBuilder, FiniteSetTheorems, TLAPS

(***************************************************************************)
(* Sequences of elements of whatever kind.                                 *)
(***************************************************************************)
Elements(s) == {s[i] : i \in DOMAIN s}
IsSeq(s) == s \in Seq(Elements(s))

LEMMA SeqIsSeq == ASSUME NEW S, NEW s \in Seq(S) PROVE IsSeq(s)
BY DEF IsSeq, Elements

LEMMA SeqFacts ==
    ASSUME NEW s, IsSeq(s)
    PROVE  Len(s) \in Nat /\ DOMAIN s = 1..Len(s)
BY DEF IsSeq

LEMMA SeqIsFunction == ASSUME NEW s, IsSeq(s) PROVE s = [i \in DOMAIN s |-> s[i]]
<1>1. s \in [1..Len(s) -> Elements(s)]
  BY DEF IsSeq
<1>. QED  BY <1>1

LEMMA NoLines == IsSeq(<<>>) /\ DOMAIN <<>> = {} /\ Elements(<<>>) = {} /\ Len(<<>>) = 0
BY DEF IsSeq, Elements

LEMMA OneLine ==
    ASSUME NEW x
    PROVE  IsSeq(<<x>>) /\ DOMAIN <<x>> = {1} /\ Elements(<<x>>) = {x} /\ Len(<<x>>) = 1
BY DEF IsSeq, Elements

LEMMA TwoLines ==
    ASSUME NEW x, NEW y
    PROVE  /\ IsSeq(<<x, y>>) /\ DOMAIN <<x, y>> = 1..2 /\ Len(<<x, y>>) = 2
           /\ Elements(<<x, y>>) = {x, y}
<1>1. <<x, y>> \in Seq({x, y}) /\ DOMAIN <<x, y>> = 1..2 /\ Len(<<x, y>>) = 2
  OBVIOUS
<1>2. 1..2 = {1, 2}
  OBVIOUS
<1>3. Elements(<<x, y>>) = {x, y}
  BY <1>1, <1>2 DEF Elements
<1>. QED  BY <1>1, <1>3, SeqIsSeq

LEMMA ThreeLines ==
    ASSUME NEW x, NEW y, NEW z
    PROVE  /\ IsSeq(<<x, y, z>>) /\ DOMAIN <<x, y, z>> = 1..3 /\ Len(<<x, y, z>>) = 3
           /\ Elements(<<x, y, z>>) = {x, y, z}
<1>1. <<x, y, z>> \in Seq({x, y, z}) /\ DOMAIN <<x, y, z>> = 1..3 /\ Len(<<x, y, z>>) = 3
  OBVIOUS
<1>2. 1..3 = {1, 2, 3}
  OBVIOUS
<1>3. Elements(<<x, y, z>>) = {x, y, z}
  BY <1>1, <1>2 DEF Elements
<1>. QED  BY <1>1, <1>3, SeqIsSeq

\* A sequence after another one.
LEMMA Concatenated ==
    ASSUME NEW s, NEW t, IsSeq(s), IsSeq(t)
    PROVE  /\ IsSeq(s \o t)
           /\ Len(s \o t) = Len(s) + Len(t) /\ DOMAIN (s \o t) = 1..Len(s) + Len(t)
           /\ \A i \in 1..Len(s) : (s \o t)[i] = s[i]
           /\ \A i \in 1..Len(t) : (s \o t)[Len(s) + i] = t[i]
<1>. DEFINE S == Elements(s) \cup Elements(t)
<1>1. s \in Seq(S) /\ t \in Seq(S)
  BY DEF IsSeq
<1>. HIDE DEF S
<1>2. s \o t \in Seq(S) /\ Len(s \o t) = Len(s) + Len(t)
  BY <1>1
<1>3. \A i \in 1..Len(s) : (s \o t)[i] = s[i]
  BY <1>1
<1>4. \A i \in 1..Len(t) : (s \o t)[Len(s) + i] = t[i]
  BY <1>1
<1>5. IsSeq(s \o t)
  BY <1>2, SeqIsSeq
<1>6. DOMAIN (s \o t) = 1..Len(s) + Len(t)
  BY <1>2
<1>. QED  BY <1>2, <1>3, <1>4, <1>5, <1>6

LEMMA ConcatenatedElements ==
    ASSUME NEW s, NEW t, IsSeq(s), IsSeq(t)
    PROVE  Elements(s \o t) = Elements(s) \cup Elements(t)
<1>1. /\ Len(s) \in Nat /\ DOMAIN s = 1..Len(s)
      /\ Len(t) \in Nat /\ DOMAIN t = 1..Len(t)
  BY SeqFacts
<1>2. ASSUME NEW i \in DOMAIN (s \o t)
      PROVE  (s \o t)[i] \in Elements(s) \cup Elements(t)
  <2>1. i \in 1..Len(s) + Len(t)
    BY Concatenated
  <2>2. CASE i \in 1..Len(s)
    BY <1>1, <2>2, Concatenated DEF Elements
  <2>3. CASE i - Len(s) \in 1..Len(t)
    <3>1. i = Len(s) + (i - Len(s))
      BY <1>1, <2>1
    <3>2. (s \o t)[i] = t[i - Len(s)]
      BY <2>3, <3>1, Concatenated
    <3>. QED  BY <1>1, <2>3, <3>2 DEF Elements
  <2>. QED  BY <1>1, <2>1, <2>2, <2>3
<1>3. ASSUME NEW i \in DOMAIN s PROVE s[i] \in Elements(s \o t)
  <2>1. i \in DOMAIN (s \o t) /\ (s \o t)[i] = s[i]
    BY <1>1, Concatenated
  <2>. QED  BY <2>1 DEF Elements
<1>4. ASSUME NEW i \in DOMAIN t PROVE t[i] \in Elements(s \o t)
  <2>1. Len(s) + i \in DOMAIN (s \o t) /\ (s \o t)[Len(s) + i] = t[i]
    BY <1>1, Concatenated
  <2>. QED  BY <2>1 DEF Elements
<1>. QED  BY <1>2, <1>3, <1>4 DEF Elements

\* The texts of a target.
LEMMA LinesOfTexts ==
    ASSUME NEW to, NEW texts, IsSeq(texts)
    PROVE  /\ IsSeq(Lines(to, texts)) /\ Len(Lines(to, texts)) = Len(texts)
           /\ \A i \in 1..Len(texts) : Lines(to, texts)[i] = At(to, texts[i])
           /\ Elements(Lines(to, texts)) = {At(to, x) : x \in Elements(texts)}
<1>1. Len(texts) \in Nat /\ DOMAIN texts = 1..Len(texts)
  BY SeqFacts
<1>2. Lines(to, texts) \in Seq({At(to, texts[i]) : i \in DOMAIN texts})
  BY <1>1 DEF Lines
<1>3. DOMAIN Lines(to, texts) = DOMAIN texts
  BY DEF Lines
<1>4. Len(Lines(to, texts)) = Len(texts)
  BY <1>1, <1>2, <1>3
<1>5. \A i \in DOMAIN texts : Lines(to, texts)[i] = At(to, texts[i])
  BY DEF Lines
<1>6. Elements(Lines(to, texts)) = {At(to, x) : x \in Elements(texts)}
  BY <1>3, <1>5 DEF Elements
<1>. QED  BY <1>1, <1>2, <1>4, <1>5, <1>6, SeqIsSeq

(***************************************************************************)
(* The texts that a method is made of.                                     *)
(***************************************************************************)
LEMMA TemplateTexts ==
    ASSUME NEW d
    PROVE  /\ IsSeq(TemplateLine(d)) /\ Len(TemplateLine(d)) \in {0, 1}
           /\ \A x \in Elements(TemplateLine(d)) : x.kind = "template"
<1>1. CASE TemplateLine(d) = <<>>
  BY <1>1, NoLines
<1>2. CASE TemplateLine(d) # <<>>
  <2>. DEFINE type == IF UseInitializerList(d) THEN Type("", "Item") ELSE ParameterType(d)
              line == [kind |-> "template", type |-> type]
  <2>1. TemplateLine(d) = <<line>>
    BY <1>2 DEF TemplateLine
  <2>2. line.kind = "template"
    OBVIOUS
  <2>. HIDE DEF line
  <2>. QED  BY <2>1, <2>2, OneLine
<1>. QED  BY <1>1, <1>2

LEMMA PredicateTexts ==
    ASSUME NEW d
    PROVE  /\ IsSeq(PredicateLines(d)) /\ Len(PredicateLines(d)) \in {0, 1}
           /\ \A x \in Elements(PredicateLines(d)) :
                 x.kind = "predicate" /\ x.uses = Predicate(d)
           /\ "predicate" \in DOMAIN d.raw_field_options =>
                 Len(PredicateLines(d)) = 1 /\ PredicateLines(d)[1].kind = "predicate"
<1>1. CASE "predicate" \notin DOMAIN d.raw_field_options
  <2>1. PredicateLines(d) = <<>>
    BY <1>1 DEF PredicateLines
  <2>. QED  BY <1>1, <2>1, NoLines
<1>2. CASE "predicate" \in DOMAIN d.raw_field_options
  <2>1. PICK x : PredicateLines(d) = <<x>> /\ x.kind = "predicate" /\ x.uses = Predicate(d)
    BY <1>2 DEF PredicateLines
  <2>2. <<x>>[1] = x
    OBVIOUS
  <2>. QED  BY <2>1, <2>2, OneLine
<1>. QED  BY <1>1, <1>2

LEMMA BuilderTexts ==
    ASSUME NEW d
    PROVE  /\ IsSeq(SetFromBuilder(d))
           /\ \A x \in Elements(SetFromBuilder(d)) :
                 x = Empty \/ /\ x.kind = "from_builder" /\ x.name = MethodName(d)
                              /\ UseSetFromBuilder(d)
<1>1. CASE ~ UseSetFromBuilder(d)
  <2>1. SetFromBuilder(d) = <<>>
    BY <1>1 DEF SetFromBuilder
  <2>. QED  BY <2>1, NoLines
<1>2. CASE UseSetFromBuilder(d)
  <2>1. PICK x : /\ SetFromBuilder(d) = <<Empty, x, Empty>>
                 /\ x.kind = "from_builder" /\ x.name = MethodName(d)
    BY <1>2 DEF SetFromBuilder
  <2>. QED  BY <1>2, <2>1, ThreeLines
<1>. QED  BY <1>1, <1>2

LEMMA BodyText == ASSUME NEW d PROVE Body(d).kind = "change"
BY DEF Body, Change

(***************************************************************************)
(* The signatures of the methods that WriteField declares and defines.     *)
(***************************************************************************)
Defined(d, to) ==
    Signature(d, to, MethodParam(d, to), FALSE,
              to = "HEADER" /\ Get(d.raw_field_options, "override"), TRUE)

Declared(d, to) ==
    Signature(d, to, MethodParam(d, "HEADER"), to = "INTERFACE" /\ d.make_interface,
              (to # "INTERFACE" /\ d.make_interface) \/ Get(d.raw_field_options, "override"), FALSE)

End == [kind |-> "end"]

LEMMA ImplementationElements ==
    ASSUME NEW d, NEW to
    PROVE  /\ IsSeq(Implementation(d, to))
           /\ Elements(Implementation(d, to)) =
                 {At(to, x) : x \in {Empty, Defined(d, to), Body(d), End}
                                      \cup Elements(TemplateLine(d)) \cup Elements(PredicateLines(d))}
<1>. DEFINE a == <<Empty>> \o TemplateLine(d)
            b == a \o <<Defined(d, to)>>
            c == b \o PredicateLines(d)
            e == c \o <<Body(d)>>
            f == e \o <<End, Empty>>
<1>1. Implementation(d, to) = Lines(to, f)
  BY DEF Implementation, Defined, End
<1>2. IsSeq(a) /\ Elements(a) = {Empty} \cup Elements(TemplateLine(d))
  BY OneLine, TemplateTexts, Concatenated, ConcatenatedElements
<1>. HIDE DEF a
<1>3. IsSeq(b) /\ Elements(b) = Elements(a) \cup {Defined(d, to)}
  BY <1>2, OneLine, Concatenated, ConcatenatedElements
<1>. HIDE DEF b
<1>4. IsSeq(c) /\ Elements(c) = Elements(b) \cup Elements(PredicateLines(d))
  BY <1>3, PredicateTexts, Concatenated, ConcatenatedElements
<1>. HIDE DEF c
<1>5. IsSeq(e) /\ Elements(e) = Elements(c) \cup {Body(d)}
  BY <1>4, OneLine, Concatenated, ConcatenatedElements
<1>. HIDE DEF e
<1>6. IsSeq(f) /\ Elements(f) = Elements(e) \cup {End, Empty}
  BY <1>5, TwoLines, Concatenated, ConcatenatedElements
<1>. HIDE DEF f
<1>7. Elements(f) = {Empty, Defined(d, to), Body(d), End}
                      \cup Elements(TemplateLine(d)) \cup Elements(PredicateLines(d))
  BY <1>2, <1>3, <1>4, <1>5, <1>6
<1>. QED  BY <1>1, <1>6, <1>7, LinesOfTexts

LEMMA DeclarationElements ==
    ASSUME NEW d, NEW to
    PROVE  /\ IsSeq(Declaration(d, to))
           /\ Elements(Declaration(d, to)) =
                 {At(to, x) : x \in {Declared(d, to)} \cup Elements(TemplateLine(d))}
                 \cup IF d.make_interface THEN {}
                      ELSE {At("HEADER", x) : x \in Elements(SetFromBuilder(d))}
<1>. DEFINE a == TemplateLine(d) \o <<Declared(d, to)>>
            b == IF d.make_interface THEN <<>> ELSE Lines("HEADER", SetFromBuilder(d))
<1>1. Declaration(d, to) = Lines(to, a) \o b
  BY DEF Declaration, Declared
<1>2. IsSeq(a) /\ Elements(a) = Elements(TemplateLine(d)) \cup {Declared(d, to)}
  BY OneLine, TemplateTexts, Concatenated, ConcatenatedElements
<1>. HIDE DEF a
<1>3. /\ IsSeq(b)
      /\ Elements(b) = IF d.make_interface THEN {}
                       ELSE {At("HEADER", x) : x \in Elements(SetFromBuilder(d))}
  BY NoLines, BuilderTexts, LinesOfTexts
<1>. HIDE DEF b
<1>4. /\ IsSeq(Lines(to, a))
      /\ Elements(Lines(to, a)) =
             {At(to, x) : x \in {Declared(d, to)} \cup Elements(TemplateLine(d))}
  BY <1>2, LinesOfTexts
<1>. QED  BY <1>1, <1>3, <1>4, Concatenated, ConcatenatedElements

(***************************************************************************)
(* An error, at every target that there would be a method for.             *)
(***************************************************************************)
LEMMA ErrorTargetsFacts ==
    ASSUME NEW d
    PROVE  /\ IsSeq(ErrorTargets(d)) /\ Elements(ErrorTargets(d)) \subseteq Where
           /\ "HEADER" \in Elements(ErrorTargets(d)) <=> UseHeader(d)
           /\ "SOURCE" \in Elements(ErrorTargets(d)) <=> UseSource(d)
           /\ "INTERFACE" \in Elements(ErrorTargets(d)) <=> d.make_interface
<1>. DEFINE h == IF UseHeader(d) THEN <<"HEADER">> ELSE <<>>
            s == IF UseSource(d) THEN <<"SOURCE">> ELSE <<>>
            i == IF d.make_interface THEN <<"INTERFACE">> ELSE <<>>
<1>1. ErrorTargets(d) = (h \o s) \o i
  BY DEF ErrorTargets
<1>2. IsSeq(h) /\ Elements(h) = IF UseHeader(d) THEN {"HEADER"} ELSE {}
  BY OneLine, NoLines
<1>3. IsSeq(s) /\ Elements(s) = IF UseSource(d) THEN {"SOURCE"} ELSE {}
  BY OneLine, NoLines
<1>4. IsSeq(i) /\ Elements(i) = IF d.make_interface THEN {"INTERFACE"} ELSE {}
  BY OneLine, NoLines
<1>. HIDE DEF h, s, i
<1>5. IsSeq(h \o s) /\ Elements(h \o s) = Elements(h) \cup Elements(s)
  BY <1>2, <1>3, Concatenated, ConcatenatedElements
<1>6. /\ IsSeq((h \o s) \o i)
      /\ Elements((h \o s) \o i) = Elements(h) \cup Elements(s) \cup Elements(i)
  BY <1>4, <1>5, Concatenated, ConcatenatedElements
<1>. QED  BY <1>1, <1>2, <1>3, <1>4, <1>6 DEF Where

LEMMA ToAllFacts ==
    ASSUME NEW targets, IsSeq(targets), NEW text
    PROVE  /\ IsSeq(ToAll(targets, text)) /\ Len(ToAll(targets, text)) = Len(targets)
           /\ \A t \in 1..Len(targets) : ToAll(targets, text)[t] = At(targets[t], text)
           /\ Elements(ToAll(targets, text)) = {At(to, text) : to \in Elements(targets)}
<1>1. Len(targets) \in Nat /\ DOMAIN targets = 1..Len(targets)
  BY SeqFacts
<1>2. ToAll(targets, text) \in Seq({At(targets[t], text) : t \in DOMAIN targets})
  BY <1>1 DEF ToAll
<1>3. DOMAIN ToAll(targets, text) = DOMAIN targets
  BY DEF ToAll
<1>4. Len(ToAll(targets, text)) = Len(targets)
  BY <1>1, <1>2, <1>3
<1>5. \A t \in DOMAIN targets : ToAll(targets, text)[t] = At(targets[t], text)
  BY DEF ToAll
<1>6. Elements(ToAll(targets, text)) = {At(to, text) : to \in Elements(targets)}
  BY <1>3, <1>5 DEF Elements
<1>. QED  BY <1>1, <1>2, <1>4, <1>5, <1>6, SeqIsSeq

ErrorText == [kind |-> "error"]

LEMMA ErrorElements ==
    ASSUME NEW d
    PROVE  /\ IsSeq(Error(d))
           /\ Elements(Error(d)) = {At(to, x) : to \in Elements(ErrorTargets(d)), x \in {Empty, ErrorText}}
<1>. DEFINE targets == ErrorTargets(d)
            a == ToAll(targets, Empty)
            b == ToAll(targets, ErrorText)
<1>1. Error(d) = (a \o b) \o a
  BY DEF Error, ErrorText
<1>2. IsSeq(a) /\ Elements(a) = {At(to, Empty) : to \in Elements(targets)}
  BY ErrorTargetsFacts, ToAllFacts
<1>3. IsSeq(b) /\ Elements(b) = {At(to, ErrorText) : to \in Elements(targets)}
  BY ErrorTargetsFacts, ToAllFacts
<1>. HIDE DEF a, b
<1>4. IsSeq(a \o b) /\ Elements(a \o b) = Elements(a) \cup Elements(b)
  BY <1>2, <1>3, Concatenated, ConcatenatedElements
<1>5. IsSeq((a \o b) \o a) /\ Elements((a \o b) \o a) = Elements(a) \cup Elements(b)
  BY <1>2, <1>4, Concatenated, ConcatenatedElements
<1>. HIDE DEF targets
<1>6. {At(to, Empty) : to \in Elements(targets)} \cup {At(to, ErrorText) : to \in Elements(targets)}
        = {At(to, x) : to \in Elements(targets), x \in {Empty, ErrorText}}
  OBVIOUS
<1>. QED  BY <1>1, <1>2, <1>3, <1>5, <1>6 DEF targets

(***************************************************************************)
(* All of WriteField.                                                      *)
(***************************************************************************)
HeaderLines(d) ==
    IF ~ UseHeader(d) THEN <<>>
    ELSE IF UseTemplate(d) \/ UseForeach(d) THEN Implementation(d, "HEADER")
    ELSE Declaration(d, "HEADER")
SourceLines(d) == IF UseSource(d) THEN Implementation(d, "SOURCE") ELSE <<>>
InterfaceLines(d) == IF d.make_interface THEN Declaration(d, "INTERFACE") ELSE <<>>

LEMMA WriteFieldParts ==
    ASSUME NEW d
    PROVE  /\ WriteField(d) =
                 IF Output(d) = "SKIP" THEN <<>>
                 ELSE IF ~ IsValid(d) THEN Error(d)
                 ELSE (HeaderLines(d) \o SourceLines(d)) \o InterfaceLines(d)
           /\ IsSeq(HeaderLines(d)) /\ IsSeq(SourceLines(d)) /\ IsSeq(InterfaceLines(d))
           /\ IsSeq(HeaderLines(d) \o SourceLines(d))
           /\ IsSeq(WriteField(d))
           /\ Elements(WriteField(d)) =
                 IF Output(d) = "SKIP" THEN {}
                 ELSE IF ~ IsValid(d) THEN Elements(Error(d))
                 ELSE Elements(HeaderLines(d)) \cup Elements(SourceLines(d))
                        \cup Elements(InterfaceLines(d))
<1>1. /\ WriteField(d) =
             IF Output(d) = "SKIP" THEN <<>>
             ELSE IF ~ IsValid(d) THEN Error(d)
             ELSE (HeaderLines(d) \o SourceLines(d)) \o InterfaceLines(d)
  BY DEF WriteField, HeaderLines, SourceLines, InterfaceLines
<1>2. IsSeq(HeaderLines(d)) /\ IsSeq(SourceLines(d)) /\ IsSeq(InterfaceLines(d))
  BY NoLines, ImplementationElements, DeclarationElements DEF HeaderLines, SourceLines, InterfaceLines
<1>3. /\ IsSeq(HeaderLines(d) \o SourceLines(d))
      /\ Elements(HeaderLines(d) \o SourceLines(d)) = Elements(HeaderLines(d)) \cup Elements(SourceLines(d))
  BY <1>2, Concatenated, ConcatenatedElements
<1>4. /\ IsSeq((HeaderLines(d) \o SourceLines(d)) \o InterfaceLines(d))
      /\ Elements((HeaderLines(d) \o SourceLines(d)) \o InterfaceLines(d)) =
            Elements(HeaderLines(d)) \cup Elements(SourceLines(d)) \cup Elements(InterfaceLines(d))
  BY <1>2, <1>3, Concatenated, ConcatenatedElements
<1>5. /\ IsSeq(WriteField(d))
      /\ Elements(WriteField(d)) =
            IF Output(d) = "SKIP" THEN {}
            ELSE IF ~ IsValid(d) THEN Elements(Error(d))
            ELSE Elements(HeaderLines(d)) \cup Elements(SourceLines(d))
                   \cup Elements(InterfaceLines(d))
  <2>1. CASE Output(d) = "SKIP"
    BY <1>1, <2>1, NoLines
  <2>2. CASE Output(d) # "SKIP" /\ ~ IsValid(d)
    BY <1>1, <2>2, ErrorElements
  <2>3. CASE Output(d) # "SKIP" /\ IsValid(d)
    BY <1>1, <1>4, <2>3
  <2>. QED  BY <2>1, <2>2, <2>3
<1>. QED  BY <1>1, <1>2, <1>3, <1>5, Zenon

\* What a line for `to` may say if the annotation makes sense.
IsText(d, to, x) ==
    \/ x = Empty \/ x = End \/ x.kind = "template"
    \/ x = Declared(d, to) /\ to # "SOURCE"
    \/ x = Defined(d, to) /\ to # "INTERFACE"
    \/ x.kind = "predicate" /\ x.uses = Predicate(d)
    \/ x = Body(d)
    \/ /\ x.kind = "from_builder" /\ x.name = MethodName(d)
       /\ UseSetFromBuilder(d) /\ ~ d.make_interface /\ to = "HEADER"

LEMMA ImplementationLine ==
    ASSUME NEW d, NEW to \in {"HEADER", "SOURCE"}, NEW t, NEW x,
           At(t, x) \in Elements(Implementation(d, to))
    PROVE  t = to /\ IsText(d, t, x)
<1>1. PICK y \in {Empty, Defined(d, to), Body(d), End}
                    \cup Elements(TemplateLine(d)) \cup Elements(PredicateLines(d)) :
             At(t, x) = At(to, y)
  BY ImplementationElements
<1>2. t = to /\ x = y
  BY <1>1 DEF At
<1>. QED  BY <1>1, <1>2, TemplateTexts, PredicateTexts DEF IsText

LEMMA DeclarationLine ==
    ASSUME NEW d, NEW to \in {"HEADER", "INTERFACE"}, to = "INTERFACE" => d.make_interface,
           NEW t, NEW x, At(t, x) \in Elements(Declaration(d, to))
    PROVE  t = to /\ IsText(d, t, x)
<1>1. CASE At(t, x) \in {At(to, y) : y \in {Declared(d, to)} \cup Elements(TemplateLine(d))}
  <2>1. PICK y \in {Declared(d, to)} \cup Elements(TemplateLine(d)) : At(t, x) = At(to, y)
    BY <1>1
  <2>2. t = to /\ x = y
    BY <2>1 DEF At
  <2>. QED  BY <2>1, <2>2, TemplateTexts DEF IsText
<1>2. CASE ~ d.make_interface /\ At(t, x) \in {At("HEADER", y) : y \in Elements(SetFromBuilder(d))}
  <2>1. PICK y \in Elements(SetFromBuilder(d)) : At(t, x) = At("HEADER", y)
    BY <1>2
  <2>2. t = "HEADER" /\ x = y
    BY <2>1 DEF At
  <2>. QED  BY <1>2, <2>1, <2>2, BuilderTexts DEF IsText
<1>. QED  BY <1>1, <1>2, DeclarationElements

\* Every line, and the targets that it may be for.
LEMMA WriteFieldLine ==
    ASSUME NEW d, NEW t, NEW x, At(t, x) \in Elements(WriteField(d))
    PROVE  /\ Output(d) # "SKIP" /\ t \in Where
           /\ t = "HEADER" => UseHeader(d)
           /\ t = "SOURCE" => UseSource(d)
           /\ t = "INTERFACE" => d.make_interface
           /\ IF IsValid(d) THEN IsText(d, t, x) ELSE x \in {Empty, ErrorText}
<1>1. Output(d) # "SKIP"
  BY WriteFieldParts
<1>2. CASE ~ IsValid(d)
  <2>1. PICK to \in Elements(ErrorTargets(d)), y \in {Empty, ErrorText} : At(t, x) = At(to, y)
    BY <1>1, <1>2, WriteFieldParts, ErrorElements
  <2>2. t = to /\ x = y
    BY <2>1 DEF At
  <2>. QED  BY <1>1, <1>2, <2>1, <2>2, ErrorTargetsFacts DEF Where
<1>3. CASE IsValid(d) /\ At(t, x) \in Elements(HeaderLines(d))
  <2>1. UseHeader(d)
    BY <1>3, NoLines DEF HeaderLines
  <2>2. t = "HEADER" /\ IsText(d, t, x)
    BY <1>3, <2>1, ImplementationLine, DeclarationLine DEF HeaderLines
  <2>. QED  BY <1>1, <1>3, <2>1, <2>2 DEF Where
<1>4. CASE IsValid(d) /\ At(t, x) \in Elements(SourceLines(d))
  <2>1. UseSource(d)
    BY <1>4, NoLines DEF SourceLines
  <2>2. t = "SOURCE" /\ IsText(d, t, x)
    BY <1>4, <2>1, ImplementationLine DEF SourceLines
  <2>. QED  BY <1>1, <1>4, <2>1, <2>2 DEF Where
<1>5. CASE IsValid(d) /\ At(t, x) \in Elements(InterfaceLines(d))
  <2>1. d.make_interface
    BY <1>5, NoLines DEF InterfaceLines
  <2>2. t = "INTERFACE" /\ IsText(d, t, x)
    BY <1>5, <2>1, DeclarationLine DEF InterfaceLines
  <2>. QED  BY <1>1, <1>5, <2>1, <2>2 DEF Where
<1>6. IsValid(d) => At(t, x) \in Elements(HeaderLines(d)) \cup Elements(SourceLines(d))
                                   \cup Elements(InterfaceLines(d))
  BY <1>1, WriteFieldParts
<1>. QED  BY <1>2, <1>3, <1>4, <1>5, <1>6

\* Texts are told apart by their kind.
LEMMA Kinds ==
    ASSUME NEW d, NEW to
    PROVE  /\ Empty.kind = "empty" /\ End.kind = "end" /\ ErrorText.kind = "error"
           /\ Declared(d, to).kind = "method" /\ Defined(d, to).kind = "method"
           /\ Body(d).kind = "change"
           /\ Declared(d, to).name = MethodName(d) /\ Defined(d, to).name = MethodName(d)
           /\ Declared(d, to).params = MethodParam(d, "HEADER")
           /\ Defined(d, to).params = MethodParam(d, to)
           /\ Declared(d, to).defined = FALSE /\ Defined(d, to).defined = TRUE
BY EmptyAssumption, BodyText DEF End, ErrorText, Declared, Defined, Signature

LEMMA ParamsOf ==
    /\ Empty.kind = "empty"
    /\ \A d, to : Declared(d, to).kind = "method" /\ Defined(d, to).kind = "method"
    /\ \A d, to : Declared(d, to).params = MethodParam(d, "HEADER")
    /\ \A d, to : Defined(d, to).params = MethodParam(d, to)
BY Kinds, Zenon

LEMMA LineOfKind ==
    ASSUME NEW d, NEW t, NEW x, At(t, x) \in Elements(WriteField(d))
    PROVE  /\ x.kind \in {"method", "change", "predicate", "from_builder", "error", "template", "end", "empty"}
           /\ x.kind = "error" <=> ~ IsValid(d) /\ x # Empty
           /\ x.kind = "method" =>
                 (x = Declared(d, t) /\ t # "SOURCE") \/ (x = Defined(d, t) /\ t # "INTERFACE")
           /\ x.kind = "change" => x = Body(d)
           /\ x.kind = "predicate" => x.uses = Predicate(d)
           /\ x.kind = "from_builder" =>
                 /\ x.name = MethodName(d) /\ UseSetFromBuilder(d)
                 /\ ~ d.make_interface /\ t = "HEADER"
           /\ x.kind = "empty" <=> x = Empty
<1>1. CASE ~ IsValid(d)
  <2>1. x \in {Empty, ErrorText}
    BY <1>1, WriteFieldLine
  <2>. QED  BY <1>1, <2>1, Kinds
<1>2. CASE IsValid(d)
  <2>1. IsText(d, t, x)
    BY <1>2, WriteFieldLine
  <2>2. CASE x = Empty \/ x = End \/ x.kind = "template"
    BY <1>2, <2>2, Kinds
  <2>3. CASE (x = Declared(d, t) /\ t # "SOURCE") \/ (x = Defined(d, t) /\ t # "INTERFACE")
    <3>1. x.kind = "method" /\ x # Empty
      BY <2>3, ParamsOf
    <3>. QED  BY <1>2, <2>3, <3>1
  <2>4. CASE x.kind = "predicate" /\ x.uses = Predicate(d)
    BY <1>2, <2>4, Kinds
  <2>5. CASE x = Body(d)
    BY <1>2, <2>5, Kinds
  <2>6. CASE /\ x.kind = "from_builder" /\ x.name = MethodName(d)
             /\ UseSetFromBuilder(d) /\ ~ d.make_interface /\ t = "HEADER"
    BY <1>2, <2>6, Kinds
  <2>. QED  BY <2>1, <2>2, <2>3, <2>4, <2>5, <2>6 DEF IsText
<1>. QED  BY <1>1, <1>2

LEMMA WriteFieldCall ==
    ASSUME NEW d, NEW call \in Elements(WriteField(d))
    PROVE  call = At(call[1], call[2]) /\ call[1] \in Where
<1>1. \E to, x : call = At(to, x)
  <2>1. Elements(Error(d)) = {At(to, x) : to \in Elements(ErrorTargets(d)), x \in {Empty, ErrorText}}
    BY ErrorElements
  <2>2. \A to : \A c \in Elements(Implementation(d, to)) : \E t, x : c = At(t, x)
    BY ImplementationElements
  <2>3. \A to : \A c \in Elements(Declaration(d, to)) : \E t, x : c = At(t, x)
    BY DeclarationElements
  <2>4. \A c \in Elements(HeaderLines(d)) \cup Elements(SourceLines(d)) \cup Elements(InterfaceLines(d)) :
            \E t, x : c = At(t, x)
    BY <2>2, <2>3, NoLines DEF HeaderLines, SourceLines, InterfaceLines
  <2>5. call \in Elements(Error(d)) \cup
             (Elements(HeaderLines(d)) \cup Elements(SourceLines(d)) \cup Elements(InterfaceLines(d)))
    BY WriteFieldParts
  <2>. QED  BY <2>1, <2>4, <2>5
<1>2. call = At(call[1], call[2])
  BY <1>1 DEF At
<1>. QED  BY <1>2, WriteFieldLine

(***************************************************************************)
(* The parameters of a method.                                             *)
(***************************************************************************)
ValueParam(d) ==
    Param(ParameterType(d), IF IsMap(d.field) THEN KeyValuePair(d)
                            ELSE IF UseForeach(d) THEN "values" ELSE "value", FALSE)
LocationParam(d, to) ==
    Param(SourceLocation, "location",
          to = "HEADER" /\ Get(GetTypeInfo(d.config, SourceLocation), "value") # "")

LEMMA MethodParams ==
    ASSUME NEW d, NEW to
    PROVE  /\ IsSeq(MethodParam(d, to))
           /\ Elements(MethodParam(d, to)) =
                 (IF Option(d, "value") # "" THEN {} ELSE {ValueParam(d)})
                 \cup (IF Option(d, "add_source_location") THEN {LocationParam(d, to)} ELSE {})
           /\ Option(d, "value") = "" => MethodParam(d, to)[1] = ValueParam(d)
<1>. DEFINE a == IF Option(d, "value") # "" THEN <<>> ELSE <<ValueParam(d)>>
            b == IF ~ Option(d, "add_source_location") THEN <<>> ELSE <<LocationParam(d, to)>>
<1>1. MethodParam(d, to) = a \o b
  BY DEF MethodParam, ValueParam, LocationParam
<1>2. /\ IsSeq(a) /\ Elements(a) = IF Option(d, "value") # "" THEN {} ELSE {ValueParam(d)}
      /\ Option(d, "value") = "" => a[1] = ValueParam(d) /\ Len(a) = 1
  BY NoLines, OneLine
<1>3. /\ IsSeq(b)
      /\ Elements(b) = IF Option(d, "add_source_location") THEN {LocationParam(d, to)} ELSE {}
  BY NoLines, OneLine
<1>. HIDE DEF a, b
<1>4. ASSUME Option(d, "value") = "" PROVE (a \o b)[1] = ValueParam(d)
  <2>1. a[1] = ValueParam(d) /\ Len(a) = 1
    BY <1>2, <1>4, Zenon
  <2>2. 1 \in 1..Len(a)
    BY <2>1
  <2>3. (a \o b)[1] = a[1]
    <3>1. IsSeq(a) /\ IsSeq(b)
      BY <1>2, <1>3
    <3>2. \A i \in 1..Len(a) : (a \o b)[i] = a[i]
      BY <3>1, Concatenated
    <3>. QED  BY <2>2, <3>2
  <2>. QED  BY <2>1, <2>3
<1>5. IsSeq(a \o b) /\ Elements(a \o b) = Elements(a) \cup Elements(b)
  BY <1>2, <1>3, Concatenated, ConcatenatedElements
<1>6. /\ Elements(a) = IF Option(d, "value") # "" THEN {} ELSE {ValueParam(d)}
      /\ Elements(b) = IF Option(d, "add_source_location") THEN {LocationParam(d, to)} ELSE {}
  BY <1>2, <1>3
<1>. QED  BY <1>1, <1>4, <1>5, <1>6

LEMMA ParamNamed ==
    ASSUME NEW d, NEW to
    PROVE  /\ ValueParam(d).name \in {"key_value_pairs", "key_value_pair", "values", "value"}
           /\ ValueParam(d).optional = FALSE
           /\ LocationParam(d, to).name = "location"
           /\ LocationParam(d, to).optional =
                 (to = "HEADER" /\ Get(GetTypeInfo(d.config, SourceLocation), "value") # "")
BY DEF ValueParam, LocationParam, Param, KeyValuePair

\* Maps are inserted into, but for FOREACH with a conversion.
LEMMA MapBody ==
    ASSUME NEW d, IsMap(d.field), ~ (Output(d) = "FOREACH" /\ Converts(d))
    PROVE  Body(d).member \in {"insert", "setter"}
<1>1. CASE UseForeachAdd(d)
  BY <1>1 DEF Body, Change, IsMap, IsRepeated
<1>2. CASE ~ UseForeachAdd(d)
  <2>1. UseMapInsert(d) /\ ~ (UseForeach(d) /\ Converts(d))
    BY <1>2 DEF UseMapInsert, UseForeach, UseForeachAdd
  <2>. QED  BY <2>1 DEF Body, Change
<1>. QED  BY <1>1, <1>2
=============================================================================
