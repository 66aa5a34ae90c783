--------------------------- MODULE TemplateProofs ---------------------------
(***************************************************************************)
(* Proofs about templates: what their expansion leaves of the markers of   *)
(* sections, and what the lines of a file are. Expansion goes step by step *)
(* through a text, so all of it rests on induction over the number of the  *)
(* steps, which comes from counting.                                       *)
(***************************************************************************)
EXTENDS TemplateBuilder, FiniteSetTheorems, TLAPS

(***************************************************************************)
(* Induction. A finite set of numbers cannot be mapped into itself without *)
(* 0, so one with 0 has a last number.                                     *)
(***************************************************************************)
LEMMA LastNumber ==
    ASSUME NEW A \in SUBSET Nat, 0 \in A, IsFiniteSet(A)
    PROVE  \E n \in A : n + 1 \notin A
<1>. SUFFICES ASSUME \A n \in A : n + 1 \in A PROVE FALSE
  OBVIOUS
<1>1. /\ IsFiniteSet(A \ {0})
      /\ Cardinality(A \ {0}) = IF 0 \in A THEN Cardinality(A) - 1 ELSE Cardinality(A)
  BY FS_RemoveElement
<1>2. Cardinality(A) \in Nat /\ Cardinality(A \ {0}) < Cardinality(A)
  BY <1>1, FS_CardinalityType
<1>3. PICK B : B = A \ {0}
  OBVIOUS
<1>4. PICK f : f = [n \in A |-> n + 1]
  OBVIOUS
<1>5. f \in [A -> B]
  BY <1>3, <1>4
<1>6. IsFiniteSet(B) /\ Cardinality(B) < Cardinality(A)
  BY <1>1, <1>2, <1>3
<1>7. \E x, y \in A : x # y /\ f[x] = f[y]
  BY <1>5, <1>6, FS_PigeonHole
<1>8. \A x, y \in A : f[x] = f[y] => x = y
  BY <1>4
<1>. QED  BY <1>7, <1>8

LEMMA SetInduction ==
    ASSUME NEW T, 0 \in T, \A n \in Nat : n \in T => n + 1 \in T
    PROVE  \A n \in Nat : n \in T
<1>. SUFFICES ASSUME NEW m \in Nat, m \notin T PROVE FALSE
  OBVIOUS
<1>1. PICK A : A = {n \in 0..m : n \in T}
  OBVIOUS
<1>2. IsFiniteSet(0..m)
  BY FS_Interval
<1>3. A \in SUBSET (0..m)
  BY <1>1
<1>4. IsFiniteSet(A)
  BY <1>2, <1>3, FS_Subset
<1>5. A \in SUBSET Nat /\ 0 \in A
  BY <1>1
<1>6. PICK n \in A : n + 1 \notin A
  BY <1>4, <1>5, LastNumber
<1>7. n # m /\ n + 1 \in 0..m
  BY <1>1, <1>6
<1>. QED  BY <1>1, <1>6, <1>7

\* Up to the end of a finite sequence of steps.
LEMMA BoundedInduction ==
    ASSUME NEW n \in Nat, NEW T, 0 \in T, \A k \in 0..n - 1 : k \in T => k + 1 \in T
    PROVE  \A k \in 0..n : k \in T
<1>1. PICK U : U = {k \in Nat : k <= n => k \in T}
  OBVIOUS
<1>2. 0 \in U
  BY <1>1
<1>3. \A k \in Nat : k \in U => k + 1 \in U
  BY <1>1
<1>4. \A k \in Nat : k \in U
  BY <1>2, <1>3, SetInduction
<1>. QED  BY <1>1, <1>4

\* A set of numbers that is not empty has a least.
LEMMA LeastNumber ==
    ASSUME NEW S \in SUBSET Nat, S # {}
    PROVE  Min(S) \in S /\ \A n \in S : Min(S) <= n
<1>1. \E m \in S : \A n \in S : m <= n
  <2>. SUFFICES ASSUME \A m \in S : \E n \in S : n < m PROVE FALSE
    OBVIOUS
  <2>1. PICK T : T = {n \in Nat : \A m \in 0..n : m \notin S}
    OBVIOUS
  <2>2. 0 \in T
    BY <2>1
  <2>3. \A n \in Nat : n \in T => n + 1 \in T
    BY <2>1
  <2>4. \A n \in Nat : n \in T
    BY <2>2, <2>3, SetInduction
  <2>5. PICK m \in S : TRUE
    OBVIOUS
  <2>6. m \in Nat /\ m \in 0..m
    OBVIOUS
  <2>. QED  BY <2>1, <2>4, <2>6
<1>. QED  BY <1>1 DEF Min
-----------------------------------------------------------------------------
(***************************************************************************)
(* FlattenSeq and InTurn are recursive functions: there is one that goes   *)
(* on for another step wherever there is one for fewer.                    *)
(***************************************************************************)
LEMMA PrefixesExist ==
    ASSUME NEW ss
    PROVE  \A n \in Nat : \E g : g = [i \in 1..n |-> IF i = 1 THEN ss[i] ELSE g[i - 1] \o ss[i]]
<1>. DEFINE Part(g, i) == IF i = 1 THEN ss[i] ELSE g[i - 1] \o ss[i]
            IsParts(g, n) == g = [i \in 1..n |-> Part(g, i)]
<1>1. PICK T : T = {n \in Nat : \E g : IsParts(g, n)}
  OBVIOUS
<1>2. 0 \in T
  <2>1. PICK g : g = [i \in 1..0 |-> 0]
    OBVIOUS
  <2>2. IsParts(g, 0)
    BY <2>1
  <2>. QED  BY <1>1, <2>2
<1>3. ASSUME NEW n \in Nat, n \in T PROVE n + 1 \in T
  <2>1. PICK g : IsParts(g, n)
    BY <1>1, <1>3
  <2>2. PICK h : h = [i \in 1..n + 1 |-> IF i \in 1..n THEN g[i] ELSE Part(g, i)]
    OBVIOUS
  <2>3. ASSUME NEW i \in 1..n + 1 PROVE h[i] = Part(h, i)
    <3>1. i # 1 => i - 1 \in 1..n
      OBVIOUS
    <3>2. i # 1 => h[i - 1] = g[i - 1]
      BY <2>2, <3>1
    <3>3. Part(h, i) = Part(g, i)
      BY <3>2
    <3>4. i \in 1..n => g[i] = Part(g, i)
      BY <2>1
    <3>5. h[i] = IF i \in 1..n THEN g[i] ELSE Part(g, i)
      BY <2>2
    <3>. HIDE DEF Part
    <3>. QED  BY <3>3, <3>4, <3>5
  <2>4. IsParts(h, n + 1)
    <3>. HIDE DEF Part
    <3>1. h = [i \in 1..n + 1 |-> h[i]]
      BY <2>2
    <3>. QED  BY <2>3, <3>1
  <2>5. n + 1 \in Nat
    OBVIOUS
  <2>. HIDE DEF IsParts
  <2>. QED  BY <1>1, <2>4, <2>5
<1>4. \A n \in Nat : n \in T
  BY <1>2, <1>3, SetInduction
<1>. QED  BY <1>1, <1>4

LEMMA FlattenParts ==
    ASSUME NEW ss, Len(ss) \in Nat \ {0}
    PROVE  \E g : /\ g[1] = ss[1]
                  /\ \A i \in 1..Len(ss) - 1 : g[i + 1] = g[i] \o ss[i + 1]
                  /\ FlattenSeq(ss) = g[Len(ss)]
<1>. DEFINE flatten ==
       CHOOSE g : g = [i \in 1..Len(ss) |-> IF i = 1 THEN ss[i] ELSE g[i - 1] \o ss[i]]
<1>1. flatten = [i \in 1..Len(ss) |-> IF i = 1 THEN ss[i] ELSE flatten[i - 1] \o ss[i]]
  BY PrefixesExist, Zenon
<1>2. FlattenSeq(ss) = flatten[Len(ss)]
  BY Zenon DEF FlattenSeq
<1>. HIDE DEF flatten
<1>3. flatten[1] = ss[1]
  BY <1>1
<1>4. ASSUME NEW i \in 1..Len(ss) - 1 PROVE flatten[i + 1] = flatten[i] \o ss[i + 1]
  <2>1. i + 1 \in 1..Len(ss) /\ i + 1 # 1 /\ (i + 1) - 1 = i
    OBVIOUS
  <2>. QED  BY <1>1, <2>1
<1>. QED  BY <1>2, <1>3, <1>4

\* What is flattened has the elements of its parts.
LEMMA FlattenType ==
    ASSUME NEW S, NEW ss, Len(ss) \in Nat, DOMAIN ss = 1..Len(ss),
           \A i \in 1..Len(ss) : ss[i] \in Seq(S)
    PROVE  FlattenSeq(ss) \in Seq(S)
<1>1. CASE Len(ss) = 0
  <2>1. ss = <<>>
    BY <1>1
  <2>. QED  BY <1>1, <2>1 DEF FlattenSeq
<1>2. CASE Len(ss) # 0
  <2>1. PICK g : /\ g[1] = ss[1]
                 /\ \A i \in 1..Len(ss) - 1 : g[i + 1] = g[i] \o ss[i + 1]
                 /\ FlattenSeq(ss) = g[Len(ss)]
    BY <1>2, FlattenParts
  <2>2. PICK T : T = {k \in Nat : g[k + 1] \in Seq(S)}
    OBVIOUS
  <2>3. 0 \in T
    BY <1>2, <2>1, <2>2
  <2>4. ASSUME NEW k \in 0..(Len(ss) - 1) - 1, k \in T PROVE k + 1 \in T
    <3>1. k + 1 \in 1..Len(ss) - 1 /\ k + 1 \in Nat /\ (k + 1) + 1 \in 1..Len(ss)
      OBVIOUS
    <3>2. g[(k + 1) + 1] = g[k + 1] \o ss[(k + 1) + 1]
      BY <2>1, <3>1
    <3>3. g[k + 1] \in Seq(S) /\ ss[(k + 1) + 1] \in Seq(S)
      BY <2>2, <2>4, <3>1
    <3>4. g[(k + 1) + 1] \in Seq(S)
      BY <3>2, <3>3
    <3>. QED  BY <2>2, <3>1, <3>4
  <2>5. Len(ss) - 1 \in Nat
    BY <1>2
  <2>6. \A k \in 0..Len(ss) - 1 : k \in T
    BY <2>3, <2>4, <2>5, BoundedInduction
  <2>7. Len(ss) - 1 \in T
    BY <2>5, <2>6
  <2>8. (Len(ss) - 1) + 1 = Len(ss)
    OBVIOUS
  <2>. QED  BY <2>1, <2>2, <2>7, <2>8
<1>. QED  BY <1>1, <1>2

\* What the text is after each step.
AreSteps(g, steps, output, n) ==
    g = [k \in 0..n |-> IF k = 0 THEN Expanded(output)
                        ELSE IF g[k - 1].ok THEN steps[k][g[k - 1].output] ELSE NotExpanded]

LEMMA StepsExist ==
    ASSUME NEW steps, NEW output
    PROVE  \A n \in Nat : \E g : AreSteps(g, steps, output, n)
<1>. DEFINE Part(g, k) ==
              IF k = 0 THEN Expanded(output)
              ELSE IF g[k - 1].ok THEN steps[k][g[k - 1].output] ELSE NotExpanded
            IsParts(g, n) == AreSteps(g, steps, output, n)
<1>1. PICK T : T = {n \in Nat : \E g : IsParts(g, n)}
  OBVIOUS
<1>2. 0 \in T
  <2>1. PICK g : g = [k \in 0..0 |-> Expanded(output)]
    OBVIOUS
  <2>2. IsParts(g, 0)
    BY <2>1 DEF AreSteps
  <2>. HIDE DEF IsParts
  <2>. QED  BY <1>1, <2>2
<1>3. ASSUME NEW n \in Nat, n \in T PROVE n + 1 \in T
  <2>1. PICK g : IsParts(g, n)
    BY <1>1, <1>3
  <2>2. g = [k \in 0..n |-> Part(g, k)]
    BY <2>1 DEF AreSteps
  <2>3. PICK h : h = [k \in 0..n + 1 |-> IF k \in 0..n THEN g[k] ELSE Part(g, k)]
    OBVIOUS
  <2>4. ASSUME NEW k \in 0..n + 1 PROVE h[k] = Part(h, k)
    <3>1. k # 0 => k - 1 \in 0..n /\ k - 1 \in 0..n + 1
      OBVIOUS
    <3>2. k # 0 => h[k - 1] = g[k - 1]
      BY <2>3, <3>1
    <3>3. Part(h, k) = Part(g, k)
      BY <3>2
    <3>4. k \in 0..n => g[k] = Part(g, k)
      BY <2>2
    <3>5. h[k] = IF k \in 0..n THEN g[k] ELSE Part(g, k)
      BY <2>3
    <3>. HIDE DEF Part
    <3>. QED  BY <3>3, <3>4, <3>5
  <2>5. IsParts(h, n + 1)
    BY <2>3, <2>4 DEF AreSteps
  <2>6. n + 1 \in Nat
    OBVIOUS
  <2>. HIDE DEF IsParts
  <2>. QED  BY <1>1, <2>5, <2>6
<1>4. \A n \in Nat : n \in T
  BY <1>2, <1>3, SetInduction
<1>. QED  BY <1>1, <1>4

LEMMA InTurnParts ==
    ASSUME NEW steps, NEW output, Len(steps) \in Nat
    PROVE  \E g : /\ g[0] = Expanded(output)
                  /\ \A k \in 0..Len(steps) - 1 :
                        g[k + 1] = IF g[k].ok THEN steps[k + 1][g[k].output] ELSE NotExpanded
                  /\ InTurn(steps, output) = g[Len(steps)]
<1>. DEFINE done == CHOOSE g : AreSteps(g, steps, output, Len(steps))
<1>1. AreSteps(done, steps, output, Len(steps))
  BY StepsExist
<1>2. InTurn(steps, output) = done[Len(steps)]
  BY Zenon DEF InTurn, AreSteps
<1>. HIDE DEF done
<1>3. done = [k \in 0..Len(steps) |->
                 IF k = 0 THEN Expanded(output)
                 ELSE IF done[k - 1].ok THEN steps[k][done[k - 1].output] ELSE NotExpanded]
  BY <1>1 DEF AreSteps
<1>4. done[0] = Expanded(output)
  BY <1>3
<1>5. ASSUME NEW k \in 0..Len(steps) - 1
      PROVE  done[k + 1] = IF done[k].ok THEN steps[k + 1][done[k].output] ELSE NotExpanded
  <2>1. k + 1 \in 0..Len(steps) /\ k + 1 # 0 /\ (k + 1) - 1 = k
    OBVIOUS
  <2>. QED  BY <1>3, <2>1
<1>. QED  BY <1>2, <1>4, <1>5

\* What every step takes to the next set of texts, they take to the last.
LEMMA InTurnLeads ==
    ASSUME NEW steps, NEW output, NEW S, Len(steps) \in Nat,
           output \in S[0],
           \A k \in 1..Len(steps) : \A t \in S[k - 1] :
               steps[k][t].ok => steps[k][t].output \in S[k],
           InTurn(steps, output).ok
    PROVE  InTurn(steps, output).output \in S[Len(steps)]
<1>1. PICK g : /\ g[0] = Expanded(output)
               /\ \A k \in 0..Len(steps) - 1 :
                     g[k + 1] = IF g[k].ok THEN steps[k + 1][g[k].output] ELSE NotExpanded
               /\ InTurn(steps, output) = g[Len(steps)]
  BY InTurnParts
<1>2. PICK T : T = {k \in Nat : g[k].ok => g[k].output \in S[k]}
  OBVIOUS
<1>3. 0 \in T
  BY <1>1, <1>2 DEF Expanded
<1>4. ASSUME NEW k \in 0..Len(steps) - 1, k \in T PROVE k + 1 \in T
  <2>1. k + 1 \in Nat /\ k + 1 \in 1..Len(steps) /\ (k + 1) - 1 = k
    OBVIOUS
  <2>2. SUFFICES ASSUME g[k + 1].ok PROVE g[k + 1].output \in S[k + 1]
    BY <1>2, <2>1
  <2>3. g[k].ok
    BY <1>1, <2>2 DEF NotExpanded
  <2>4. g[k + 1] = steps[k + 1][g[k].output] /\ g[k].output \in S[k]
    BY <1>1, <1>2, <1>4, <2>3
  <2>. QED  BY <2>1, <2>2, <2>4
<1>5. \A k \in 0..Len(steps) : k \in T
  BY <1>3, <1>4, BoundedInduction
<1>6. Len(steps) \in T
  BY <1>5
<1>. QED  BY <1>1, <1>2, <1>6

\* In particular, what every step keeps, they keep.
LEMMA InTurnKeeps ==
    ASSUME NEW steps, NEW output, NEW S, Len(steps) \in Nat,
           output \in S,
           \A k \in 1..Len(steps) : \A t \in S : steps[k][t].ok => steps[k][t].output \in S,
           InTurn(steps, output).ok
    PROVE  InTurn(steps, output).output \in S
<1>1. PICK F : F = [k \in 0..Len(steps) |-> S]
  OBVIOUS
<1>2. \A k \in 1..Len(steps) : k - 1 \in 0..Len(steps) /\ k \in 0..Len(steps)
  OBVIOUS
<1>3. \A k \in 1..Len(steps) : \A t \in F[k - 1] :
         steps[k][t].ok => steps[k][t].output \in F[k]
  BY <1>1, <1>2
<1>4. output \in F[0]
  BY <1>1
<1>5. InTurn(steps, output).output \in F[Len(steps)]
  BY <1>3, <1>4, InTurnLeads
<1>. QED  BY <1>1, <1>5
-----------------------------------------------------------------------------
(***************************************************************************)
(* The steps of an expansion. `S` stands for tokens that a text has: what  *)
(* is in Seq(S) stays there, whatever is replaced.                         *)
(***************************************************************************)
\* A tag that is found is in the text.
LEMMA TagPlace ==
    ASSUME NEW S, NEW output \in Seq(S), NEW tag, FindTag(output, tag) # Absent
    PROVE  FindTag(output, tag).pos \in 1..Len(output) /\ FindTag(output, tag).len \in Nat
<1>1. Contains(output, tag)
  BY DEF FindTag
<1>2. PICK P : P = {i \in DOMAIN output : output[i] = tag}
  OBVIOUS
<1>3. P \in SUBSET Nat /\ P # {} /\ P \subseteq 1..Len(output)
  BY <1>1, <1>2 DEF Contains
<1>4. PICK at : at = Min(P)
  OBVIOUS
<1>5. at \in 1..Len(output)
  BY <1>3, <1>4, LeastNumber
<1>6. PICK L : L = {i \in 1..at : \A k \in i..at - 1 : output[k].t = "space"}
  OBVIOUS
<1>7. L \in SUBSET Nat /\ L # {} /\ L \subseteq 1..at
  <2>1. at \in 1..at /\ \A k \in at..at - 1 : FALSE
    BY <1>5
  <2>2. at \in L
    BY <1>6, <2>1
  <2>3. L \subseteq 1..at /\ L # {}
    BY <1>6, <2>2
  <2>. QED  BY <1>5, <2>3
<1>8. PICK line : line = Min(L)
  OBVIOUS
<1>9. line \in 1..at
  BY <1>7, <1>8, LeastNumber
<1>10. \/ FindTag(output, tag) = [pos |-> line, len |-> at - line + 2]
       \/ FindTag(output, tag) = [pos |-> at, len |-> 1]
  BY <1>1, <1>2, <1>4, <1>6, <1>8 DEF FindTag
<1>. QED  BY <1>5, <1>9, <1>10

LEMMA AroundType ==
    ASSUME NEW S, NEW output \in Seq(S), NEW found,
           found.pos \in 1..Len(output), found.len \in Nat
    PROVE  Before(output, found) \in Seq(S) /\ After(output, found) \in Seq(S)
<1>1. SubSeq(output, 1, found.pos - 1) \in Seq(S)
  OBVIOUS
<1>2. SubSeq(output, found.pos + found.len, Len(output)) \in Seq(S)
  OBVIOUS
<1>. QED  BY <1>1, <1>2 DEF Before, After

LEMMA HowOftenType ==
    ASSUME NEW S, NEW output \in Seq(S), NEW tag
    PROVE  HowOften(output, tag) \in Nat
<1>1. IsFiniteSet(1..Len(output))
  BY FS_Interval
<1>2. PICK P : P = {i \in DOMAIN output : output[i] = tag}
  OBVIOUS
<1>3. P \in SUBSET (1..Len(output))
  BY <1>2
<1>4. IsFiniteSet(P)
  BY <1>1, <1>3, FS_Subset
<1>5. Cardinality(P) \in Nat
  BY <1>4, FS_CardinalityType
<1>. QED  BY <1>2, <1>5 DEF HowOften

LEMMA WithoutFirstType ==
    ASSUME NEW S, NEW output \in Seq(S), NEW tag
    PROVE  WithoutFirst(tag, output) \in Seq(S)
<1>1. CASE FindTag(output, tag) = Absent
  BY <1>1 DEF WithoutFirst
<1>2. CASE FindTag(output, tag) # Absent
  <2>1. PICK found : found = FindTag(output, tag)
    OBVIOUS
  <2>2. Before(output, found) \in Seq(S) /\ After(output, found) \in Seq(S)
    BY <1>2, <2>1, TagPlace, AroundType
  <2>3. WithoutFirst(tag, output) = Before(output, found) \o After(output, found)
    BY <1>2, <2>1 DEF WithoutFirst
  <2>. QED  BY <2>2, <2>3
<1>. QED  BY <1>1, <1>2

LEMMA ReplaceFirstType ==
    ASSUME NEW S, NEW name, NEW new, NEW output \in Seq(S),
           \A t \in Seq(S) : new[t].ok => new[t].output \in Seq(S),
           ReplaceFirst(name, new, output).ok
    PROVE  ReplaceFirst(name, new, output).output \in Seq(S)
<1>1. PICK start, end : start = FindTag(output, Open(name)) /\ end = FindTag(output, Close(name))
  OBVIOUS
<1>2. PICK text : text = new[SubSeq(output, start.pos + start.len, end.pos - 1)]
  OBVIOUS
<1>3. CASE start = Absent /\ end = Absent
  BY <1>1, <1>3 DEF ReplaceFirst, Expanded
<1>4. CASE ~ (start = Absent /\ end = Absent)
  <2>1. /\ start # Absent /\ end # Absent /\ text.ok
        /\ ReplaceFirst(name, new, output) =
             Expanded(Before(output, start) \o text.output \o After(output, end))
    BY <1>1, <1>2, <1>4 DEF ReplaceFirst, NotExpanded
  <2>2. /\ start.pos \in 1..Len(output) /\ start.len \in Nat
        /\ end.pos \in 1..Len(output) /\ end.len \in Nat
    BY <1>1, <2>1, TagPlace
  <2>3. Before(output, start) \in Seq(S) /\ After(output, end) \in Seq(S)
    BY <2>2, AroundType
  <2>4. SubSeq(output, start.pos + start.len, end.pos - 1) \in Seq(S)
    BY <2>2
  <2>5. text.output \in Seq(S)
    BY <1>2, <2>1, <2>4
  <2>. QED  BY <2>1, <2>3, <2>5 DEF Expanded
<1>. QED  BY <1>3, <1>4

\* All of a section: nothing of the markers is left.
LEMMA ReplaceSectionsType ==
    ASSUME NEW S \in SUBSET Token, NEW name, NEW new, NEW output \in Seq(S),
           \A t \in Seq(S) : new[t].ok => new[t].output \in Seq(S),
           ReplaceSections(name, new, output).ok
    PROVE  ReplaceSections(name, new, output).output
               \in Seq({token \in S : token \notin {Open(name), Close(name)}})
<1>1. PICK steps : steps = [k \in 1..HowOften(output, Open(name)) |->
                              [o \in Seq(Token) |-> ReplaceFirst(name, new, o)]]
  OBVIOUS
<1>2. PICK replaced : replaced = InTurn(steps, output)
  OBVIOUS
<1>3. /\ replaced.ok /\ ReplaceSections(name, new, output) = replaced
      /\ ~ Contains(replaced.output, Open(name)) /\ ~ Contains(replaced.output, Close(name))
  BY <1>1, <1>2 DEF ReplaceSections, NotExpanded
<1>4. Len(steps) \in Nat /\ Len(steps) = HowOften(output, Open(name))
  BY <1>1, HowOftenType
<1>5. Seq(S) \subseteq Seq(Token)
  OBVIOUS
<1>6. ASSUME NEW k \in 1..Len(steps), NEW t \in Seq(S), steps[k][t].ok
      PROVE  steps[k][t].output \in Seq(S)
  <2>1. steps[k][t] = ReplaceFirst(name, new, t)
    BY <1>1, <1>4, <1>5
  <2>. QED  BY <1>6, <2>1, ReplaceFirstType
<1>7. replaced.output \in Seq(S)
  BY <1>2, <1>3, <1>4, <1>6, InTurnKeeps
<1>8. \A i \in 1..Len(replaced.output) : replaced.output[i] \notin {Open(name), Close(name)}
  BY <1>3 DEF Contains
<1>. QED  BY <1>3, <1>7, <1>8

LEMMA ExpandValueType ==
    ASSUME NEW S \in SUBSET Token, NEW name, NEW value \in Seq(S), NEW output \in Seq(S),
           ExpandValue(name, value, output).ok
    PROVE  ExpandValue(name, value, output).output \in Seq(S)
<1>1. CASE value = <<>>
  <2>1. PICK steps : steps = [k \in 1..HowOften(output, Tag(name)) |->
                                [o \in Seq(Token) |-> Expanded(WithoutFirst(Tag(name), o))]]
    OBVIOUS
  <2>2. ExpandValue(name, value, output) = InTurn(steps, output)
    BY <1>1, <2>1 DEF ExpandValue
  <2>3. Len(steps) \in Nat /\ Len(steps) = HowOften(output, Tag(name))
    BY <2>1, HowOftenType
  <2>4. ASSUME NEW k \in 1..Len(steps), NEW t \in Seq(S) PROVE steps[k][t].output \in Seq(S)
    <3>1. t \in Seq(Token)
      OBVIOUS
    <3>2. steps[k][t] = Expanded(WithoutFirst(Tag(name), t))
      BY <2>1, <2>3, <3>1
    <3>. QED  BY <3>2, WithoutFirstType DEF Expanded
  <2>. QED  BY <2>2, <2>3, <2>4, InTurnKeeps
<1>2. CASE value # <<>>
  <2>1. PICK parts : parts = [i \in DOMAIN output |->
                                IF output[i] = Tag(name) THEN value ELSE <<output[i]>>]
    OBVIOUS
  <2>2. Len(parts) = Len(output) /\ DOMAIN parts = 1..Len(output)
    BY <2>1
  <2>3. \A i \in 1..Len(output) : parts[i] \in Seq(S)
    BY <2>1
  <2>4. FlattenSeq(parts) \in Seq(S)
    BY <2>2, <2>3, FlattenType
  <2>. QED  BY <1>2, <2>1, <2>4 DEF ExpandValue, Expanded
<1>. QED  BY <1>1, <1>2

LEMMA OpenIsMark ==
    ASSUME NEW token \in Token, token.t = "open"
    PROVE  token = Open(token.name)
BY DEF Open, Mark, Token

LEMMA CloseIsMark ==
    ASSUME NEW token \in Token, token.t = "close"
    PROVE  token = Close(token.name)
BY DEF Close, Mark, Token

\* Nothing new comes into a text when sections are taken out, and no start is left.
LEMMA RemoveTagsType ==
    ASSUME NEW S \in SUBSET Token, NEW output \in Seq(S), RemoveTags(output).ok
    PROVE  RemoveTags(output).output \in Seq({token \in S : token.t # "open"})
<1>1. PICK nothing : nothing = [between \in Seq(Token) |-> Expanded(<<>>)]
  OBVIOUS
<1>2. PICK steps : steps =
         [i \in DOMAIN output |->
             [o \in Seq(Token) |->
                 IF output[i].t = "open" THEN ReplaceSections(output[i].name, nothing, o)
                 ELSE Expanded(o)]]
  OBVIOUS
<1>3. RemoveTags(output) = InTurn(steps, output)
  BY <1>1, <1>2 DEF RemoveTags
<1>4. Len(steps) = Len(output) /\ Len(steps) \in Nat
  BY <1>2
\* Only tokens of the text are there, and after k steps none of its first starts.
<1>5. PICK R : R = {output[i] : i \in 1..Len(output)}
  OBVIOUS
<1>6. PICK L : L = [k \in 0..Len(output) |->
                     {token \in R : \A i \in 1..k : output[i].t = "open" => token # output[i]}]
  OBVIOUS
<1>7. PICK F : F = [k \in 0..Len(output) |-> Seq(L[k])]
  OBVIOUS
<1>8. \A i \in 1..Len(output) : output[i] \in S /\ output[i] \in Token
  OBVIOUS
<1>9. output \in Seq(L[0])
  <2>1. L[0] = R
    BY <1>6
  <2>. QED  BY <1>5, <2>1
<1>10. ASSUME NEW k \in 1..Len(steps), NEW t \in Seq(L[k - 1]), steps[k][t].ok
      PROVE  steps[k][t].output \in Seq(L[k])
  <2>1. k \in 0..Len(output) /\ k - 1 \in 0..Len(output) /\ k \in 1..Len(output)
    BY <1>4
  <2>2. /\ L[k - 1] = {token \in R : \A i \in 1..k - 1 : output[i].t = "open" => token # output[i]}
        /\ L[k] = {token \in R : \A i \in 1..k : output[i].t = "open" => token # output[i]}
    BY <1>6, <2>1
  <2>3. L[k - 1] \in SUBSET Token /\ t \in Seq(Token)
    BY <1>5, <1>8, <2>2
  <2>4. CASE output[k].t = "open"
    <3>1. steps[k][t] = ReplaceSections(output[k].name, nothing, t)
      BY <1>2, <2>1, <2>3, <2>4
    <3>2. \A between \in Seq(L[k - 1]) : nothing[between].output \in Seq(L[k - 1])
      <4>1. Seq(L[k - 1]) \subseteq Seq(Token)
        BY <2>3
      <4>2. <<>> \in Seq(L[k - 1])
        OBVIOUS
      <4>. QED  BY <1>1, <4>1, <4>2 DEF Expanded
    <3>3. steps[k][t].output
             \in Seq({token \in L[k - 1] : token \notin {Open(output[k].name), Close(output[k].name)}})
      BY <1>10, <2>3, <3>1, <3>2, ReplaceSectionsType
    <3>4. output[k] = Open(output[k].name)
      BY <1>8, <2>1, <2>4, OpenIsMark
    <3>5. {token \in L[k - 1] : token \notin {Open(output[k].name), Close(output[k].name)}}
             \subseteq L[k]
      BY <2>1, <2>2, <3>4
    <3>. QED  BY <3>3, <3>5
  <2>5. CASE output[k].t # "open"
    <3>1. steps[k][t] = Expanded(t)
      BY <1>2, <2>1, <2>3, <2>5
    <3>2. L[k] = L[k - 1]
      BY <2>1, <2>2, <2>5
    <3>. QED  BY <3>1, <3>2 DEF Expanded
  <2>. QED  BY <2>4, <2>5
<1>11. InTurn(steps, output).output \in F[Len(steps)]
  <2>1. output \in F[0]
    BY <1>7, <1>9
  <2>2. ASSUME NEW k \in 1..Len(steps), NEW t \in F[k - 1], steps[k][t].ok
        PROVE  steps[k][t].output \in F[k]
    <3>1. F[k - 1] = Seq(L[k - 1]) /\ F[k] = Seq(L[k])
      BY <1>4, <1>7
    <3>. QED  BY <1>10, <2>2, <3>1
  <2>3. InTurn(steps, output).ok
    BY <1>3
  <2>. QED  BY <1>4, <2>1, <2>2, <2>3, InTurnLeads
<1>12. PICK t : t = RemoveTags(output).output
  OBVIOUS
<1>13. t \in Seq(L[Len(output)])
  BY <1>3, <1>4, <1>7, <1>11, <1>12
<1>14. L[Len(output)] \subseteq {token \in S : token.t # "open"}
  BY <1>5, <1>6, <1>8
<1>. QED  BY <1>12, <1>13, <1>14
-----------------------------------------------------------------------------
(***************************************************************************)
(* A dictionary, whatever its sections come to.                            *)
(***************************************************************************)
Keeps(expand, S) == \A t \in Seq(S) : expand[t].ok => expand[t].output \in Seq(S)

AllKeep(expands, S) ==
    /\ Len(expands) \in Nat /\ DOMAIN expands = 1..Len(expands)
    /\ \A d \in DOMAIN expands : Keeps(expands[d], S)

\* What is filled in has only tokens of S.
FillsFrom(dict, inner, S) ==
    /\ \A name \in DOMAIN dict : IsValue(dict[name]) => dict[name].value \in Seq(S)
    /\ \A name \in SectionsOf(dict) : AllKeep(inner[name], S)

LEMMA ExpandSectionType ==
    ASSUME NEW S, NEW dicts, AllKeep(dicts, S), NEW between \in Seq(S),
           ExpandSection(dicts, between).ok
    PROVE  ExpandSection(dicts, between).output \in Seq(S)
<1>1. PICK texts : texts = [d \in DOMAIN dicts |-> dicts[d][between]]
  OBVIOUS
<1>2. PICK outputs : outputs = [d \in DOMAIN texts |-> texts[d].output]
  OBVIOUS
<1>3. /\ \A d \in DOMAIN texts : texts[d].ok
      /\ ExpandSection(dicts, between) = Expanded(FlattenSeq(outputs))
  BY <1>1, <1>2 DEF ExpandSection, NotExpanded
<1>4. DOMAIN outputs = 1..Len(dicts) /\ Len(dicts) \in Nat
  BY <1>1, <1>2 DEF AllKeep
<1>5. Len(outputs) = Len(dicts)
  BY <1>4
<1>6. \A d \in 1..Len(outputs) : outputs[d] \in Seq(S)
  BY <1>1, <1>2, <1>3, <1>4, <1>5 DEF AllKeep, Keeps
<1>7. FlattenSeq(outputs) \in Seq(S)
  BY <1>4, <1>5, <1>6, FlattenType
<1>. QED  BY <1>3, <1>7 DEF Expanded

LEMMA ExpandNameType ==
    ASSUME NEW S \in SUBSET Token, NEW dict, NEW inner, FillsFrom(dict, inner, S),
           NEW name, NEW output \in Seq(S), ExpandName(dict, inner, name, output).ok
    PROVE  /\ ExpandName(dict, inner, name, output).output \in Seq(S)
           /\ name \in SectionsOf(dict) =>
                 ExpandName(dict, inner, name, output).output
                     \in Seq({token \in S : token \notin {Open(name), Close(name)}})
<1>1. CASE name \notin DOMAIN dict
  BY <1>1 DEF ExpandName, Expanded, SectionsOf
<1>2. CASE name \in DOMAIN dict /\ IsValue(dict[name])
  <2>1. name \notin SectionsOf(dict) /\ dict[name].value \in Seq(S)
    BY <1>2 DEF SectionsOf, FillsFrom
  <2>2. ExpandName(dict, inner, name, output) = ExpandValue(name, dict[name].value, output)
    BY <1>2 DEF ExpandName
  <2>. QED  BY <2>1, <2>2, ExpandValueType
<1>3. CASE name \in DOMAIN dict /\ ~ IsValue(dict[name])
  <2>1. PICK new : new = [between \in Seq(Token) |-> ExpandSection(inner[name], between)]
    OBVIOUS
  <2>2. ExpandName(dict, inner, name, output) = ReplaceSections(name, new, output)
    BY <1>3, <2>1 DEF ExpandName
  <2>3. AllKeep(inner[name], S)
    BY <1>3 DEF SectionsOf, FillsFrom
  <2>4. ASSUME NEW t \in Seq(S), new[t].ok PROVE new[t].output \in Seq(S)
    <3>1. t \in Seq(Token)
      OBVIOUS
    <3>2. new[t] = ExpandSection(inner[name], t)
      BY <2>1, <3>1
    <3>. QED  BY <2>3, <2>4, <3>2, ExpandSectionType
  <2>5. PICK W : W = {token \in S : token \notin {Open(name), Close(name)}}
    OBVIOUS
  <2>6. ExpandName(dict, inner, name, output).output \in Seq(W)
    BY <2>2, <2>4, <2>5, ReplaceSectionsType
  <2>7. W \subseteq S
    BY <2>5
  <2>8. ExpandName(dict, inner, name, output).output \in Seq(S)
    BY <2>6, <2>7
  <2>. QED  BY <2>5, <2>6, <2>8
<1>. QED  BY <1>1, <1>2, <1>3

LEMMA ExpandWithType ==
    ASSUME NEW S \in SUBSET Token, NEW dict, NEW inner, FillsFrom(dict, inner, S),
           NEW output \in Seq(S), ExpandWith(dict, inner, output).ok
    PROVE  ExpandWith(dict, inner, output).output \in Seq({token \in S : token.t # "open"})
<1>1. PICK steps : steps = [k \in DOMAIN Names |->
                              [o \in Seq(Token) |-> ExpandName(dict, inner, Names[k], o)]]
  OBVIOUS
<1>2. PICK expanded : expanded = InTurn(steps, output)
  OBVIOUS
<1>3. expanded.ok /\ ExpandWith(dict, inner, output) = RemoveTags(expanded.output)
  BY <1>1, <1>2 DEF ExpandWith, NotExpanded
<1>4. Len(steps) \in Nat /\ Len(steps) = Len(Names) /\ DOMAIN Names = 1..Len(Names)
  BY <1>1, NamesAssumption
<1>5. ASSUME NEW k \in 1..Len(steps), NEW t \in Seq(S), steps[k][t].ok
      PROVE  steps[k][t].output \in Seq(S)
  <2>1. t \in Seq(Token)
    OBVIOUS
  <2>2. steps[k][t] = ExpandName(dict, inner, Names[k], t)
    BY <1>1, <1>4, <2>1
  <2>. QED  BY <1>5, <2>2, ExpandNameType
<1>6. expanded.output \in Seq(S)
  BY <1>2, <1>3, <1>4, <1>5, InTurnKeeps
<1>. QED  BY <1>3, <1>6, RemoveTagsType

\* The end markers of a section that the dictionary has are gone as well.
LEMMA EndsGone ==
    ASSUME NEW S \in SUBSET Token, NEW dict, NEW inner,
           NEW n \in DOMAIN Names, Names[n] \in SectionsOf(dict),
           NEW W, W = {token \in S : token \notin {Open(Names[n]), Close(Names[n])}},
           FillsFrom(dict, inner, S), FillsFrom(dict, inner, W),
           NEW output \in Seq(S), ExpandWith(dict, inner, output).ok
    PROVE  ExpandWith(dict, inner, output).output \in Seq(W)
<1>1. PICK steps : steps = [k \in DOMAIN Names |->
                              [o \in Seq(Token) |-> ExpandName(dict, inner, Names[k], o)]]
  OBVIOUS
<1>2. PICK expanded : expanded = InTurn(steps, output)
  OBVIOUS
<1>3. expanded.ok /\ ExpandWith(dict, inner, output) = RemoveTags(expanded.output)
  BY <1>1, <1>2 DEF ExpandWith, NotExpanded
<1>4. /\ Len(steps) \in Nat /\ Len(steps) = Len(Names) /\ DOMAIN Names = 1..Len(Names)
      /\ W \in SUBSET Token
  BY <1>1, NamesAssumption
<1>5. PICK F : F = [k \in 0..Len(steps) |-> IF k < n THEN Seq(S) ELSE Seq(W)]
  OBVIOUS
<1>6. ASSUME NEW k \in 1..Len(steps), NEW t \in F[k - 1], steps[k][t].ok
      PROVE  steps[k][t].output \in F[k]
  <2>1. k \in 0..Len(steps) /\ k - 1 \in 0..Len(steps) /\ k \in DOMAIN Names /\ n \in Nat
    BY <1>4
  <2>2. CASE k < n
    <3>1. F[k - 1] = Seq(S) /\ F[k] = Seq(S)
      BY <1>5, <2>1, <2>2
    <3>2. t \in Seq(S) /\ t \in Seq(Token)
      BY <3>1
    <3>3. steps[k][t] = ExpandName(dict, inner, Names[k], t)
      BY <1>1, <2>1, <3>2
    <3>. QED  BY <1>6, <3>1, <3>2, <3>3, ExpandNameType
  <2>3. CASE k = n
    <3>1. F[k - 1] = Seq(S) /\ F[k] = Seq(W)
      BY <1>5, <2>1, <2>3
    <3>2. t \in Seq(S) /\ t \in Seq(Token)
      BY <3>1
    <3>3. steps[k][t] = ExpandName(dict, inner, Names[n], t)
      BY <1>1, <2>1, <2>3, <3>2
    <3>. QED  BY <1>6, <3>1, <3>2, <3>3, ExpandNameType
  <2>4. CASE k > n
    <3>1. F[k - 1] = Seq(W) /\ F[k] = Seq(W)
      BY <1>5, <2>1, <2>4
    <3>2. t \in Seq(W) /\ t \in Seq(Token)
      BY <1>4, <3>1
    <3>3. steps[k][t] = ExpandName(dict, inner, Names[k], t)
      BY <1>1, <2>1, <3>2
    <3>. QED  BY <1>4, <1>6, <3>1, <3>2, <3>3, ExpandNameType
  <2>. QED  BY <2>1, <2>2, <2>3, <2>4
<1>7. output \in F[0] /\ F[Len(steps)] = Seq(W)
  BY <1>4, <1>5
<1>8. expanded.output \in Seq(W)
  BY <1>2, <1>3, <1>4, <1>6, <1>7, InTurnLeads
<1>9. PICK V : V = {token \in W : token.t # "open"}
  OBVIOUS
<1>10. RemoveTags(expanded.output).output \in Seq(V) /\ V \subseteq W
  BY <1>3, <1>4, <1>8, <1>9, RemoveTagsType
<1>11. RemoveTags(expanded.output).output \in Seq(W)
  BY <1>10
<1>. QED  BY <1>3, <1>11
-----------------------------------------------------------------------------
(***************************************************************************)
(* The dictionaries of a TemplateBuilder.                                  *)
(***************************************************************************)
LEMMA ValuesKeep ==
    ASSUME NEW S \in SUBSET Token, Plain \subseteq S, NEW dict,
           HoldsTexts(dict), SectionsOf(dict) = {}, NEW output \in Seq(S),
           ExpandValues(dict, output).ok
    PROVE  ExpandValues(dict, output).output \in Seq(S)
<1>1. \A name \in DOMAIN dict : IsValue(dict[name]) => dict[name].value \in Seq(S)
  <2>1. Seq(Plain) \subseteq Seq(S)
    OBVIOUS
  <2>. QED  BY <2>1 DEF HoldsTexts
<1>2. FillsFrom(dict, <<>>, S)
  BY <1>1 DEF FillsFrom
<1>3. PICK V : V = {token \in S : token.t # "open"}
  OBVIOUS
<1>4. ExpandWith(dict, <<>>, output).output \in Seq(V) /\ V \subseteq S
  BY <1>2, <1>3, ExpandWithType DEF ExpandValues
<1>5. ExpandWith(dict, <<>>, output).output \in Seq(S)
  BY <1>4
<1>. QED  BY <1>5 DEF ExpandValues

\* One dictionary per section, each of which keeps the tokens of its texts.
LEMMA SectionsKeep ==
    ASSUME NEW S \in SUBSET Token, NEW dicts, NEW expands,
           Len(dicts) \in Nat, DOMAIN dicts = 1..Len(dicts), DOMAIN expands = DOMAIN dicts,
           \A d \in DOMAIN dicts : Keeps(expands[d], S)
    PROVE  AllKeep(expands, S)
<1>1. Len(expands) = Len(dicts)
  OBVIOUS
<1>. QED  BY <1>1 DEF AllKeep

LEMMA NestedKeeps ==
    ASSUME NEW S \in SUBSET Token, Plain \subseteq S, NEW dict, HoldsTexts(dict),
           \A option \in Nested(dict) : HoldsTexts(option) /\ SectionsOf(option) = {},
           NEW output \in Seq(S), ExpandNested(dict, output).ok
    PROVE  ExpandNested(dict, output).output \in Seq(S)
<1>1. PICK inner : inner =
         [name \in SectionsOf(dict) |-> [d \in DOMAIN dict[name].sections |->
            [o \in Seq(Token) |-> ExpandValues(dict[name].sections[d], o)]]]
  OBVIOUS
<1>2. ASSUME NEW name \in SectionsOf(dict) PROVE AllKeep(inner[name], S)
  <2>1. PICK dicts : dicts = dict[name].sections
    OBVIOUS
  <2>2. Len(dicts) \in Nat /\ DOMAIN dicts = 1..Len(dicts)
    BY <2>1 DEF HoldsTexts, SectionsOf
  <2>3. DOMAIN inner[name] = DOMAIN dicts
    BY <1>1, <2>1
  <2>4. ASSUME NEW d \in DOMAIN dicts PROVE Keeps(inner[name][d], S)
    <3>1. dicts[d] \in Nested(dict)
      BY <2>1 DEF Nested, ToSet
    <3>2. HoldsTexts(dicts[d]) /\ SectionsOf(dicts[d]) = {}
      BY <3>1
    <3>3. ASSUME NEW t \in Seq(S), inner[name][d][t].ok PROVE inner[name][d][t].output \in Seq(S)
      <4>1. t \in Seq(Token)
        OBVIOUS
      <4>2. inner[name][d][t] = ExpandValues(dicts[d], t)
        BY <1>1, <2>1, <4>1
      <4>. QED  BY <3>2, <3>3, <4>2, ValuesKeep
    <3>. QED  BY <3>3 DEF Keeps
  <2>. QED  BY <2>2, <2>3, <2>4, SectionsKeep
<1>3. \A name \in DOMAIN dict : IsValue(dict[name]) => dict[name].value \in Seq(S)
  <2>1. Seq(Plain) \subseteq Seq(S)
    OBVIOUS
  <2>. QED  BY <2>1 DEF HoldsTexts
<1>4. FillsFrom(dict, inner, S)
  BY <1>2, <1>3 DEF FillsFrom
<1>5. ExpandNested(dict, output) = ExpandWith(dict, inner, output)
  BY <1>1 DEF ExpandNested
<1>6. PICK V : V = {token \in S : token.t # "open"}
  OBVIOUS
<1>7. ExpandNested(dict, output).output \in Seq(V) /\ V \subseteq S
  BY <1>4, <1>5, <1>6, ExpandWithType
<1>. QED  BY <1>7

LEMMA DictionaryFills ==
    ASSUME NEW S \in SUBSET Token, Plain \subseteq S, NEW dict, IsDictionary(dict), NEW inner,
           inner = [name \in SectionsOf(dict) |-> [d \in DOMAIN dict[name].sections |->
                      [o \in Seq(Token) |-> ExpandNested(dict[name].sections[d], o)]]]
    PROVE  FillsFrom(dict, inner, S)
<1>1. ASSUME NEW name \in SectionsOf(dict) PROVE AllKeep(inner[name], S)
  <2>1. PICK dicts : dicts = dict[name].sections
    OBVIOUS
  <2>2. Len(dicts) \in Nat /\ DOMAIN dicts = 1..Len(dicts)
    BY <2>1 DEF IsDictionary, HoldsTexts, SectionsOf
  <2>3. DOMAIN inner[name] = DOMAIN dicts
    BY <2>1
  <2>4. ASSUME NEW d \in DOMAIN dicts PROVE Keeps(inner[name][d], S)
    <3>1. dicts[d] \in Nested(dict)
      BY <2>1 DEF Nested, ToSet
    <3>2. /\ HoldsTexts(dicts[d])
          /\ \A option \in Nested(dicts[d]) : HoldsTexts(option) /\ SectionsOf(option) = {}
      BY <3>1 DEF IsDictionary
    <3>3. ASSUME NEW t \in Seq(S), inner[name][d][t].ok PROVE inner[name][d][t].output \in Seq(S)
      <4>1. t \in Seq(Token)
        OBVIOUS
      <4>2. inner[name][d][t] = ExpandNested(dicts[d], t)
        BY <2>1, <4>1
      <4>. QED  BY <3>2, <3>3, <4>2, NestedKeeps
    <3>. QED  BY <3>3 DEF Keeps
  <2>. QED  BY <2>2, <2>3, <2>4, SectionsKeep
<1>2. \A name \in DOMAIN dict : IsValue(dict[name]) => dict[name].value \in Seq(S)
  <2>1. Seq(Plain) \subseteq Seq(S)
    OBVIOUS
  <2>. QED  BY <2>1 DEF IsDictionary, HoldsTexts
<1>. QED  BY <1>1, <1>2 DEF FillsFrom

\* What a text may have when it was expanded.
Clean(dict) ==
    {token \in Token : /\ token.t # "open"
                       /\ token.t = "close" => token.name \notin SectionsOf(dict)}

\* Whatever a template has, no start of a section is left in its expansion, and no
\* end of one that the dictionary has (TemplateDictionary::Expand, RemoveTags).
THEOREM ExpandsClean ==
    ASSUME NEW dict, IsDictionary(dict), NEW output \in Seq(Token), Expand(dict, output).ok
    PROVE  Expand(dict, output).output \in Seq(Clean(dict))
<1>1. PICK inner : inner =
         [name \in SectionsOf(dict) |-> [d \in DOMAIN dict[name].sections |->
            [o \in Seq(Token) |-> ExpandNested(dict[name].sections[d], o)]]]
  OBVIOUS
<1>2. Expand(dict, output) = ExpandWith(dict, inner, output)
  BY <1>1 DEF Expand
<1>3. PICK t : t = Expand(dict, output).output
  OBVIOUS
<1>4. Plain \subseteq Token
  BY DEF Plain
<1>5. FillsFrom(dict, inner, Token)
  BY <1>1, <1>4, DictionaryFills
<1>6. t \in Seq({token \in Token : token.t # "open"})
  BY <1>2, <1>3, <1>5, ExpandWithType
<1>7. ASSUME NEW i \in 1..Len(t), t[i].t = "close", t[i].name \in SectionsOf(dict) PROVE FALSE
  <2>1. PICK name : name = t[i].name
    OBVIOUS
  <2>2. PICK n \in DOMAIN Names : Names[n] = name
    BY <1>7, <2>1 DEF IsDictionary, HoldsTexts, SectionsOf, ToSet
  <2>3. PICK W : W = {token \in Token : token \notin {Open(Names[n]), Close(Names[n])}}
    OBVIOUS
  <2>4. Open(name) \notin Plain /\ Close(name) \notin Plain
    BY DEF Plain, Open, Close, Mark
  <2>5. Plain \subseteq W /\ W \in SUBSET Token
    BY <1>4, <2>2, <2>3, <2>4
  <2>6. FillsFrom(dict, inner, W)
    BY <1>1, <2>5, DictionaryFills
  <2>7. t \in Seq(W)
    BY <1>2, <1>3, <1>5, <1>7, <2>1, <2>2, <2>3, <2>6, EndsGone
  <2>8. t[i] \in Token /\ t[i] # Close(name)
    BY <2>2, <2>3, <2>7
  <2>. QED  BY <1>7, <2>1, <2>8, CloseIsMark
<1>8. \A i \in 1..Len(t) : t[i] \in Clean(dict)
  BY <1>6, <1>7 DEF Clean
<1>. QED  BY <1>3, <1>6, <1>8
-----------------------------------------------------------------------------
(***************************************************************************)
(* The lines of a text.                                                    *)
(***************************************************************************)
LEMMA LinesType ==
    ASSUME NEW S, NEW text \in Seq(S)
    PROVE  LinesOf(text) \in Seq(Seq(S))
<1>1. PICK parts : parts = [i \in DOMAIN text |-> IF text[i] = Newline THEN <<i>> ELSE <<>>]
  OBVIOUS
<1>2. PICK ends : ends = FlattenSeq(parts)
  OBVIOUS
<1>3. Len(parts) = Len(text) /\ DOMAIN parts = 1..Len(text)
  BY <1>1
<1>4. PICK R : R = 1..Len(text)
  OBVIOUS
<1>5. ends \in Seq(R)
  <2>1. ASSUME NEW i \in R PROVE parts[i] \in Seq(R)
    <3>1. parts[i] = <<i>> \/ parts[i] = <<>>
      BY <1>1, <1>4
    <3>2. <<i>> \in Seq(R) /\ <<>> \in Seq(R)
      OBVIOUS
    <3>. QED  BY <3>1, <3>2, Zenon
  <2>. QED  BY <1>2, <1>3, <1>4, <2>1, FlattenType
<1>6. PICK cuts : cuts = <<0>> \o ends \o <<Len(text) + 1>>
  OBVIOUS
<1>7. cuts \in Seq(0..Len(text) + 1) /\ Len(cuts) \in Nat /\ Len(cuts) >= 1
  <2>1. PICK C : C = 0..Len(text) + 1
    OBVIOUS
  <2>2. R \subseteq C /\ 0 \in C /\ Len(text) + 1 \in C
    BY <1>4, <2>1
  <2>3. ends \in Seq(C)
    BY <1>5, <2>2
  <2>4. <<0>> \in Seq(C) /\ <<Len(text) + 1>> \in Seq(C)
    BY <2>2
  <2>5. cuts \in Seq(C)
    BY <1>6, <2>3, <2>4
  <2>6. Len(cuts) = 1 + Len(ends) + 1 /\ Len(ends) \in Nat
    BY <1>6, <2>3
  <2>. QED  BY <2>1, <2>5, <2>6
<1>8. PICK n \in Nat : n = Len(cuts) - 1
  BY <1>7
<1>9. LinesOf(text) = [k \in 1..n |-> SubSeq(text, cuts[k] + 1, cuts[k + 1] - 1)]
  BY <1>1, <1>2, <1>6, <1>8 DEF LinesOf
<1>10. ASSUME NEW k \in 1..n PROVE SubSeq(text, cuts[k] + 1, cuts[k + 1] - 1) \in Seq(S)
  <2>1. k \in 1..Len(cuts) /\ k + 1 \in 1..Len(cuts)
    BY <1>7, <1>8
  <2>2. cuts[k] \in 0..Len(text) + 1 /\ cuts[k + 1] \in 0..Len(text) + 1
    BY <1>7, <2>1
  <2>3. PICK a, b : a = cuts[k] + 1 /\ b = cuts[k + 1] - 1
    OBVIOUS
  <2>4. a \in Int /\ b \in Int /\ a >= 1 /\ b <= Len(text)
    BY <2>2, <2>3
  <2>5. SubSeq(text, a, b) \in Seq(S)
    BY <2>4
  <2>. QED  BY <2>3, <2>5
<1>. QED  BY <1>9, <1>10

\* What LoadTemplate makes of a template is a text.
LEMMA RawTemplateType ==
    ASSUME NEW text \in Seq(Token)
    PROVE  RawTemplate(text) \in Seq(Token)
<1>1. PICK lines : lines = LinesOf(text)
  OBVIOUS
<1>2. lines \in Seq(Seq(Token))
  BY <1>1, LinesType
<1>3. CommentTags \subseteq Token /\ Directives \subseteq Token /\ Newline \in Token
      /\ Tag("HEADER_GUARD") \in Token
  BY TagsAssumption
<1>4. ASSUME NEW line \in Seq(Token) PROVE Append(Replaced(line), Newline) \in Seq(Token)
  <2>1. Replaced(line) \in Seq(Token)
    <3>1. PICK words : words = SelectSeq(line, LAMBDA token : token.t # "space")
      OBVIOUS
    <3>2. \/ words[2] \in CommentTags /\ Replaced(line) = <<words[2]>>
          \/ words[1] \in Directives /\ Replaced(line) = <<words[1], Tag("HEADER_GUARD")>>
          \/ Replaced(line) = line
      BY <3>1, Zenon DEF Replaced
    <3>3. CASE words[2] \in CommentTags /\ Replaced(line) = <<words[2]>>
      BY <1>3, <3>3
    <3>4. CASE words[1] \in Directives /\ Replaced(line) = <<words[1], Tag("HEADER_GUARD")>>
      BY <1>3, <3>4
    <3>5. CASE Replaced(line) = line
      BY <3>5
    <3>. QED  BY <3>2, <3>3, <3>4, <3>5
  <2>. QED  BY <1>3, <2>1
<1>5. PICK ended : ended = [i \in DOMAIN lines |-> Append(Replaced(lines[i]), Newline)]
  OBVIOUS
<1>6. Len(ended) = Len(lines) /\ DOMAIN ended = 1..Len(ended) /\ Len(ended) \in Nat
  BY <1>2, <1>5
<1>7. ASSUME NEW i \in 1..Len(ended) PROVE ended[i] \in Seq(Token)
  <2>1. PICK line : line = lines[i]
    OBVIOUS
  <2>2. line \in Seq(Token)
    BY <1>2, <1>5, <1>6, <2>1
  <2>3. ended[i] = Append(Replaced(line), Newline)
    BY <1>5, <1>6, <2>1
  <2>. QED  BY <1>4, <2>2, <2>3, Zenon
<1>8. FlattenSeq(ended) \in Seq(Token)
  BY <1>6, <1>7, FlattenType
<1>. QED  BY <1>1, <1>5, <1>8 DEF RawTemplate

\* No empty line at first or after another.
NoneInVain(lines) ==
    \A i \in DOMAIN lines : lines[i] = <<>> => i > 1 /\ lines[i - 1] # <<>>

\* Another line is written if it is not one in vain.
LEMMA NextLine ==
    ASSUME NEW S, NEW lines \in Seq(S), NoneInVain(lines), NEW line \in S,
           line = <<>> => lines # <<>> /\ lines[Len(lines)] # <<>>
    PROVE  NoneInVain(Append(lines, line))
<1>1. PICK more : more = Append(lines, line)
  OBVIOUS
<1>2. /\ DOMAIN more = 1..Len(lines) + 1 /\ more[Len(lines) + 1] = line /\ Len(lines) \in Nat
      /\ \A i \in 1..Len(lines) : more[i] = lines[i]
  BY <1>1
<1>3. ASSUME NEW i \in 1..Len(lines), more[i] = <<>> PROVE i > 1 /\ more[i - 1] # <<>>
  <2>1. i \in DOMAIN lines /\ lines[i] = <<>>
    BY <1>2, <1>3
  <2>2. i > 1 /\ lines[i - 1] # <<>>
    BY <2>1 DEF NoneInVain
  <2>3. i - 1 \in 1..Len(lines)
    BY <2>2
  <2>. QED  BY <1>2, <2>3, <2>2
<1>4. ASSUME line = <<>> PROVE Len(lines) + 1 > 1 /\ more[(Len(lines) + 1) - 1] # <<>>
  <2>1. Len(lines) \in 1..Len(lines) /\ (Len(lines) + 1) - 1 = Len(lines)
    BY <1>4
  <2>. QED  BY <1>2, <1>4, <2>1
<1>. QED  BY <1>1, <1>2, <1>3, <1>4 DEF NoneInVain

\* The lines of a file: they have the tokens of the text, none is in vain, and the
\* last is empty, which ends the one before it.
THEOREM WrittenTidy ==
    ASSUME NEW S, NEW text \in Seq(S)
    PROVE  /\ Written(text) \in Seq(Seq(S))
           /\ NoneInVain(Written(text))
           /\ Written(text) # <<>> => Written(text)[Len(Written(text))] = <<>>
<1>1. PICK lines : lines = Append(LinesOf(text), <<>>)
  OBVIOUS
<1>2. /\ lines \in Seq(Seq(S)) /\ Len(lines) \in Nat \ {0} /\ DOMAIN lines = 1..Len(lines)
      /\ lines[Len(lines)] = <<>>
  <2>1. LinesOf(text) \in Seq(Seq(S)) /\ <<>> \in Seq(S)
    BY LinesType
  <2>. QED  BY <1>1, <2>1
<1>3. PICK parts : parts =
         [i \in DOMAIN lines |->
             IF lines[i] = <<>> /\ (i = 1 \/ lines[i - 1] = <<>>) THEN <<>> ELSE <<lines[i]>>]
  OBVIOUS
<1>4. Len(parts) = Len(lines)
  BY <1>2, <1>3
<1>5. PICK g : /\ g[1] = parts[1]
               /\ \A i \in 1..Len(parts) - 1 : g[i + 1] = g[i] \o parts[i + 1]
               /\ FlattenSeq(parts) = g[Len(parts)]
  BY <1>2, <1>4, FlattenParts
<1>6. Written(text) = g[Len(lines)]
  BY <1>1, <1>3, <1>4, <1>5 DEF Written
\* What was written after line i ends as the lines up to i do.
<1>. DEFINE Good(i) ==
              /\ g[i] \in Seq(Seq(S)) /\ NoneInVain(g[i])
              /\ lines[i] = <<>> => g[i] = <<>> \/ g[i][Len(g[i])] = <<>>
              /\ lines[i] # <<>> => g[i] # <<>> /\ g[i][Len(g[i])] # <<>>
<1>7. PICK T : T = {k \in Nat : Good(k + 1)}
  OBVIOUS
<1>8. Good(1)
  <2>1. CASE lines[1] = <<>>
    <3>1. g[1] = <<>>
      BY <1>2, <1>3, <1>5, <2>1
    <3>. QED  BY <2>1, <3>1 DEF NoneInVain
  <2>2. CASE lines[1] # <<>>
    <3>1. 1 \in 1..Len(lines) /\ 1 \in DOMAIN lines
      BY <1>2
    <3>2. g[1] = <<lines[1]>>
      BY <1>3, <1>5, <2>2, <3>1
    <3>3. lines[1] \in Seq(S)
      BY <1>2, <3>1
    <3>4. g[1] \in Seq(Seq(S)) /\ g[1] # <<>> /\ Len(g[1]) = 1 /\ g[1][1] = lines[1]
      BY <3>2, <3>3
    <3>5. NoneInVain(g[1])
      BY <2>2, <3>2 DEF NoneInVain
    <3>. QED  BY <2>2, <3>4, <3>5
  <2>. QED  BY <2>1, <2>2
<1>9. ASSUME NEW i \in 1..Len(lines) - 1, Good(i) PROVE Good(i + 1)
  <2>1. i + 1 \in 1..Len(lines) /\ i \in 1..Len(lines) /\ i + 1 # 1 /\ (i + 1) - 1 = i
    BY <1>2
  <2>2. lines[i] \in Seq(S) /\ lines[i + 1] \in Seq(S)
    BY <1>2, <2>1
  <2>3. g[i + 1] = g[i] \o parts[i + 1]
    BY <1>4, <1>5
  <2>4. CASE lines[i + 1] = <<>> /\ lines[i] = <<>>
    <3>1. parts[i + 1] = <<>>
      BY <1>2, <1>3, <2>1, <2>4
    <3>2. g[i + 1] = g[i]
      BY <1>9, <2>3, <3>1
    <3>. QED  BY <1>9, <2>4, <3>2
  <2>5. CASE lines[i + 1] # <<>> \/ lines[i] # <<>>
    <3>1. parts[i + 1] = <<lines[i + 1]>>
      BY <1>2, <1>3, <2>1, <2>5
    <3>2. PICK before, line : before = g[i] /\ line = lines[i + 1]
      OBVIOUS
    <3>3. /\ before \in Seq(Seq(S)) /\ NoneInVain(before) /\ line \in Seq(S)
          /\ line = <<>> => before # <<>> /\ before[Len(before)] # <<>>
      BY <1>9, <2>2, <2>5, <3>2
    <3>4. g[i + 1] = Append(before, line)
      <4>1. g[i + 1] = before \o <<line>>
        BY <2>3, <3>1, <3>2
      <4>2. PICK R : R = Seq(S)
        OBVIOUS
      <4>3. before \in Seq(R) /\ line \in R
        BY <3>3, <4>2
      <4>4. before \o <<line>> = Append(before, line)
        BY <4>3
      <4>. QED  BY <4>1, <4>4
    <3>5. NoneInVain(g[i + 1])
      BY <3>3, <3>4, NextLine
    <3>6. PICK R : R = Seq(S)
      OBVIOUS
    <3>7. before \in Seq(R) /\ line \in R
      BY <3>3, <3>6
    <3>8. PICK after : after = Append(before, line)
      OBVIOUS
    <3>9. after \in Seq(R) /\ Len(after) = Len(before) + 1 /\ Len(before) \in Nat
      BY <3>7, <3>8
    <3>10. after # <<>> /\ after[Len(after)] = line
      BY <3>7, <3>8, <3>9
    <3>. QED  BY <3>2, <3>4, <3>5, <3>6, <3>8, <3>9, <3>10
  <2>. QED  BY <2>4, <2>5
<1>. HIDE DEF Good
<1>10. 0 \in T
  BY <1>7, <1>8
<1>11. ASSUME NEW k \in 0..(Len(lines) - 1) - 1, k \in T PROVE k + 1 \in T
  <2>1. k + 1 \in 1..Len(lines) - 1 /\ k + 1 \in Nat
    BY <1>2
  <2>2. Good((k + 1) + 1)
    BY <1>7, <1>9, <1>11, <2>1
  <2>. QED  BY <1>7, <2>1, <2>2
<1>12. Len(lines) - 1 \in Nat
  BY <1>2
<1>13. Len(lines) - 1 \in T
  <2>1. \A k \in 0..Len(lines) - 1 : k \in T
    BY <1>10, <1>11, <1>12, BoundedInduction
  <2>. QED  BY <1>12, <2>1
<1>14. Good(Len(lines))
  <2>1. (Len(lines) - 1) + 1 = Len(lines)
    BY <1>2
  <2>. QED  BY <1>7, <1>13, <2>1
<1>. QED  BY <1>2, <1>6, <1>14 DEF Good
-----------------------------------------------------------------------------
\* What a TemplateBuilder that succeeds has made.
LEMMA BuiltLines ==
    ASSUME NEW o, WriteBuilder(o).status = "ok"
    PROVE  /\ CanBuild(o)
           /\ \A w \in ToSet(Targets(o)) :
                 LET expanded == Expand(FillDictionary(o), RawTemplate(o.tpl[w])) IN
                   expanded.ok /\ WriteBuilder(o).lines[w] = Written(expanded.output)
<1>1. PICK expanded : expanded =
         [w \in ToSet(Targets(o)) |-> Expand(FillDictionary(o), RawTemplate(o.tpl[w]))]
  OBVIOUS
<1>2. /\ CanBuild(o)
      /\ \A w \in ToSet(Targets(o)) : expanded[w].ok
      /\ WriteBuilder(o) =
           [status |-> "ok", lines |-> [w \in ToSet(Targets(o)) |-> Written(expanded[w].output)]]
  BY <1>1 DEF WriteBuilder, BuildFailed
<1>. QED  BY <1>1, <1>2
=============================================================================
