------------------------ MODULE CompilationProofs ------------------------
(***************************************************************************)
(* Two components of the compiler, whose proofs rest on the same facts     *)
(* about sequences.  About Compilation, for every set of documents and     *)
(* every text:                                                             *)
(*   - a generated text earns trust only by being the deterministic text;  *)
(*   - an accepted given text says what the deterministic text says;       *)
(*   - the deterministic text of a document preserves its meaning.         *)
(* The last two need to know which mappings a document has and where, and  *)
(* so what FlattenSeq makes of a list of sequences, by a least             *)
(* counterexample in place of an induction.                                *)
(*                                                                         *)
(* About SymbolGeneration, for any symbols, tokenizer and limits:          *)
(*   - both recognizers allow exactly what leads towards a plan;           *)
(*   - what is accepted is the encoding of the plan, and EOS;              *)
(*   - a library that honours the recognizer is only ever cut off.         *)
(* These rest on a description of what leads towards a plan, a symbol      *)
(* under way after n complete ones, which each recognizer is shown to      *)
(* compute, and on what splitting the text of a plan gives.                *)
(***************************************************************************)
EXTENDS Compilation, SymbolGeneration, FiniteSetTheorems, SequenceTheorems, WellFoundedInduction,
        TLAPS

(* A call starts in a state of the right type. *)
LEMMA TypeInit == Init => TypeOK
  BY CompilationAssumption DEF Init, TypeOK, Compiles

(* Every step keeps it. *)
LEMMA TypeStep == TypeOK /\ [Next]_vars => TypeOK'
<1> SUFFICES ASSUME TypeOK, [Next]_vars PROVE TypeOK'
  OBVIOUS
<1> USE CompilationAssumption DEF TypeOK
<1>1. ASSUME NEW doc \in Documents, Load(doc) PROVE TypeOK'
  BY <1>1 DEF Load, Take, Fail, Done
<1>2. ASSUME NEW doc \in Documents, NEW quoted \in BOOLEAN, Propose(doc, quoted) PROVE TypeOK'
  BY <1>2 DEF Propose, Take, Fail, Done, Refused
<1>3. CASE ProviderFails
  BY <1>3 DEF ProviderFails, Fail, Done
<1>4. CASE RealizeDeterministically
  BY <1>4 DEF RealizeDeterministically
<1>5. CASE Symbolize
  BY <1>5 DEF Symbolize, Fail, Done
<1>6. CASE GeneratorFails
  BY <1>6 DEF GeneratorFails, Fail, Done
<1>7. CASE Depart
  BY <1>7 DEF Depart
<1>8. CASE AlignText
  BY <1>8 DEF AlignText
<1>9. CASE Validate
  BY <1>9 DEF Validate, Done
<1>10. CASE UNCHANGED vars
  BY <1>10 DEF vars
<1>11. CASE ValidateAlone
  BY <1>11 DEF ValidateAlone, Done
<1> QED
  BY <1>1, <1>2, <1>3, <1>4, <1>5, <1>6, <1>7, <1>8, <1>9, <1>10, <1>11 DEF Next, Begin

(* A document that is realized is one of the loaded or proposed ones and   *)
(* well formed, and a call that ended has a verdict (cli.py:862-952,       *)
(* frontend/llm.py:42-78).                                                 *)
THEOREM TypeCorrect == Spec => []TypeOK
  BY TypeInit, TypeStep, PTL DEF Spec

-----------------------------------------------------------------------------
(* A text that is not the deterministic one is aligned with no mapping, so *)
(* that every sentence of it is unmatched (neural.py:72-75,                *)
(* alignment.py:72-96).                                                    *)
LEMMA NothingInherited ==
    ASSUME NEW given, NEW doc, given # DeterministicText(doc)
    PROVE  Align(given, DeterministicText(doc), <<>>)
             = [i \in DOMAIN given.sentences |-> Unmatched(given.sentences[i])]
<1>1. DOMAIN << >> = {}
  OBVIOUS
<1> QED
  BY <1>1 DEF Align

(* The semantic validator passes mappings of unmatched sentences only if   *)
(* there are none and the document requires none (semantic.py:11-47,       *)
(* 133-188).                                                               *)
LEMMA UnmatchedIsRefused ==
    ASSUME NEW doc, NEW sentences,
           SemanticallyPreserved(doc, [i \in DOMAIN sentences |-> Unmatched(sentences[i])])
    PROVE  /\ DOMAIN sentences = {}
           /\ \A s \in Range(doc.statements) : Optional(s)
           /\ DOMAIN doc.relations = {}
<1> DEFINE ms == [i \in DOMAIN sentences |-> Unmatched(sentences[i])]
<1>1. DOMAIN sentences = {}
  <2> SUFFICES ASSUME NEW i \in DOMAIN sentences PROVE FALSE
    OBVIOUS
  <2>1. ms[i] \in Range(ms) /\ ms[i].nodes = <<>>
    BY DEF Range, Unmatched
  <2> QED
    BY <2>1 DEF SemanticallyPreserved
<1>2. \A nodes : Expresses(ms, nodes) = {}
  BY <1>1 DEF Expresses
<1>3. ASSUME NEW s \in Range(doc.statements) PROVE Optional(s)
  <2>1. StatementPreserved(ms, s)
    BY DEF SemanticallyPreserved
  <2> QED
    BY <1>2, <2>1 DEF StatementPreserved, Optional
<1>4. DOMAIN doc.relations = {}
  <2> SUFFICES ASSUME NEW i \in DOMAIN doc.relations PROVE FALSE
    OBVIOUS
  <2> DEFINE r == doc.relations[i]
  <2>1. RelationPreserved(ms, r)
    BY DEF SemanticallyPreserved, Range
  <2>2. \E m \in Expresses(ms, <<r.id, r.cause>>) : TRUE
    BY <2>1 DEF RelationPreserved
  <2> QED
    BY <1>2, <2>2
<1> QED
  BY <1>1, <1>3, <1>4

-----------------------------------------------------------------------------
(* No call starts with a verdict. *)
LEMMA NeuralInit == Init => NeuralInv
  BY DEF Init, NeuralInv, Compiles

(* No step accepts a generated text but Validate, with the mappings the    *)
(* aligner gave it (neural.py:72-101).                                     *)
LEMMA NeuralStep == NeuralInv /\ [Next]_vars => NeuralInv'
<1> SUFFICES ASSUME NeuralInv, [Next]_vars PROVE NeuralInv'
  OBVIOUS
<1> USE DEF NeuralInv, Compiles
<1>1. ASSUME NEW doc \in Documents, Load(doc) PROVE NeuralInv'
  BY <1>1 DEF Load, Take, Fail, Done
<1>2. ASSUME NEW doc \in Documents, NEW quoted \in BOOLEAN, Propose(doc, quoted) PROVE NeuralInv'
  BY <1>2 DEF Propose, Take, Fail, Done, Refused
<1>3. CASE ProviderFails
  BY <1>3 DEF ProviderFails, Fail, Done
<1>4. CASE RealizeDeterministically
  BY <1>4 DEF RealizeDeterministically
<1>5. CASE Symbolize
  BY <1>5 DEF Symbolize, Fail, Done
<1>6. CASE GeneratorFails
  BY <1>6 DEF GeneratorFails, Fail, Done
<1>7. CASE Depart
  BY <1>7 DEF Depart
<1>8. CASE AlignText
  BY <1>8 DEF AlignText, InheritedMappings
<1>9. CASE Validate
  BY <1>9 DEF Validate, Done, InheritedMappings
<1>10. CASE UNCHANGED vars
  BY <1>10 DEF vars, InheritedMappings
<1>11. CASE ValidateAlone
  BY <1>11 DEF ValidateAlone, Done
<1> QED
  BY <1>1, <1>2, <1>3, <1>4, <1>5, <1>6, <1>7, <1>8, <1>9, <1>10, <1>11 DEF Next, Begin

(* Generated texts are only ever accepted with the aligner's mappings      *)
(* (neural.py:66-101, cli.py:155-167).                                     *)
THEOREM NeuralInvariance == Spec => []NeuralInv
  BY NeuralInit, NeuralStep, PTL DEF Spec

(* Without inherited mappings only an empty text of a document that        *)
(* requires nothing preserves the meaning.                                 *)
LEMMA NeuralInvTrusts == NeuralInv => NeuralTextIsTrusted
<1> SUFFICES ASSUME NeuralInv, verdict = "accepted", realizer = "neural",
                    text # DeterministicText(document)
             PROVE  /\ DOMAIN text.sentences = {}
                    /\ \A s \in Range(document.statements) : Optional(s)
                    /\ DOMAIN document.relations = {}
  BY DEF NeuralTextIsTrusted
<1>1. mappings = Align(text, DeterministicText(document), <<>>)
  BY DEF NeuralInv, InheritedMappings
<1>2. mappings = [i \in DOMAIN text.sentences |-> Unmatched(text.sentences[i])]
  BY <1>1, NothingInherited
<1>3. SemanticallyPreserved(document, mappings)
  BY DEF NeuralInv
<1> QED
  BY <1>2, <1>3, UnmatchedIsRefused

(* A generated text is accepted only if it is the deterministic text, or   *)
(* if it holds no sentence and the document requires none                  *)
(* (neural.py:72-75, semantic.py:11-47).                                   *)
THEOREM NeuralTrust == Spec => []NeuralTextIsTrusted
  BY NeuralInvariance, NeuralInvTrusts, PTL

-----------------------------------------------------------------------------
(* Sequences and what FlattenSeq makes of them.                            *)

(* A set of numbers that is not empty has a least one: what the inductions *)
(* below rest on.                                                          *)
LEMMA Least ==
  ASSUME NEW T \in SUBSET Nat, T # {}
  PROVE  \E x \in T : \A y \in T : x <= y
<1> DEFINE R == OpToRel(<, Nat)
<1>1. IsWellFoundedOn(R, Nat)
  BY NatLessThanWellFounded
<1>2. \A x, y \in Nat : x < y => <<x, y>> \in R
  BY DEF OpToRel
<1> HIDE DEF R
<1>3. \E x \in T : \A y \in T : ~ (<<y, x>> \in R)
  BY <1>1, WFMin
<1>4. PICK x \in T : \A y \in T : ~ (<<y, x>> \in R)
  BY <1>3
<1>5. \A y \in T : x \in Nat /\ y \in Nat /\ ~ (y < x)
  BY <1>2, <1>4
<1> QED
  BY <1>5

(* f holds the concatenations of the first 1, 2, ... n of seqs. *)
Joins(f, seqs, n) == f = [i \in 1 .. n |-> IF i = 1 THEN seqs[i] ELSE f[i - 1] \o seqs[i]]

(* There is such a function for every list. *)
LEMMA Joined ==
    ASSUME NEW seqs, NEW N \in Nat
    PROVE  \E f : Joins(f, seqs, N)
<1> DEFINE T == {n \in Nat : ~ \E f : Joins(f, seqs, n)}
<1>1. SUFFICES ASSUME T # {} PROVE FALSE
  OBVIOUS
<1>2. T \in SUBSET Nat
  OBVIOUS
<1>3. PICK n \in T : \A m \in T : n <= m
  <2> HIDE DEF T
  <2> QED
    BY <1>1, <1>2, Least
<1>4. n \in Nat /\ ~ \E f : Joins(f, seqs, n)
  OBVIOUS
<1>5. CASE n = 0
  <2>1. Joins([i \in 1 .. 0 |-> i], seqs, 0)
    BY DEF Joins
  <2> QED
    BY <1>4, <1>5, <2>1
<1>6. CASE n > 0
  <2>1. n - 1 \in Nat /\ ~ n <= n - 1
    BY <1>4, <1>6
  <2>2. \E f : Joins(f, seqs, n - 1)
    BY <1>3, <2>1
  <2>3. PICK f : Joins(f, seqs, n - 1)
    BY <2>2
  <2> DEFINE last == IF n = 1 THEN seqs[n] ELSE f[n - 1] \o seqs[n]
             g == [i \in 1 .. n |-> IF i = n THEN last ELSE f[i]]
  <2>4. \A i \in 1 .. n - 1 : f[i] = IF i = 1 THEN seqs[i] ELSE f[i - 1] \o seqs[i]
    BY <2>3 DEF Joins
  <2>5. Joins(g, seqs, n)
    <3>1. \A i \in 1 .. n : g[i] = IF i = n THEN last ELSE f[i]
      OBVIOUS
    <3>2. \A i \in 1 .. n : i # n => i \in 1 .. n - 1
      BY <1>4
    <3>3. ASSUME NEW i \in 1 .. n PROVE g[i] = IF i = 1 THEN seqs[i] ELSE g[i - 1] \o seqs[i]
      <4>1. i # 1 => i - 1 \in 1 .. n /\ i - 1 # n
        BY <1>4
      <4> HIDE DEF g
      <4> QED
        BY <2>4, <3>1, <3>2, <4>1
    <3>4. g = [i \in 1 .. n |-> g[i]]
      OBVIOUS
    <3> HIDE DEF g
    <3> QED
      BY <3>3, <3>4 DEF Joins
  <2> QED
    BY <1>4, <2>5
<1> QED
  BY <1>4, <1>5, <1>6

(* What the concatenation of a list is. *)
LEMMA Flattened ==
    ASSUME NEW seqs, NEW N \in Nat \ {0}, Len(seqs) = N
    PROVE  \E f : Joins(f, seqs, N) /\ FlattenSeq(seqs) = f[N]
<1> DEFINE f == CHOOSE f : f = [i \in 1 .. Len(seqs) |-> IF i = 1 THEN seqs[i] ELSE f[i - 1] \o seqs[i]]
<1>1. FlattenSeq(seqs) = f[Len(seqs)]
  BY DEF FlattenSeq
<1>2. \E g : g = [i \in 1 .. Len(seqs) |-> IF i = 1 THEN seqs[i] ELSE g[i - 1] \o seqs[i]]
  BY Joined DEF Joins
<1>3. f = [i \in 1 .. Len(seqs) |-> IF i = 1 THEN seqs[i] ELSE f[i - 1] \o seqs[i]]
  BY <1>2
<1> HIDE DEF f
<1> QED
  BY <1>1, <1>3 DEF Joins

(* The length and the domain of a sequence. *)
LEMMA LengthOfSeq == ASSUME NEW s, IsSeq(s) PROVE Len(s) \in Nat /\ DOMAIN s = 1 .. Len(s)
  BY DEF IsSeq

(* A sequence over any set is one over its own elements. *)
LEMMA AnySeq == ASSUME NEW S, NEW s \in Seq(S) PROVE IsSeq(s)
<1>1. \A i \in 1 .. Len(s) : s[i] \in Range(s)
  BY DEF Range
<1>2. s \in Seq(Range(s))
  BY <1>1
<1> QED
  BY <1>2 DEF IsSeq

(* A function on 1 .. n is a sequence of length n. *)
LEMMA NumberedSeq ==
    ASSUME NEW n \in Nat, NEW s, s = [i \in 1 .. n |-> s[i]]
    PROVE  IsSeq(s) /\ Len(s) = n
<1>1. DOMAIN s = 1 .. n
  OBVIOUS
<1>2. \A i \in 1 .. n : s[i] \in Range(s)
  BY <1>1 DEF Range
<1>3. s \in Seq(Range(s))
  BY <1>2
<1> QED
  BY <1>1, <1>3 DEF IsSeq

(* One after the other. *)
After(r, s, t) == r = s \o t

(* What is where in the concatenation of two sequences. *)
LEMMA ConcatSeq ==
    ASSUME NEW s, NEW t, NEW r, IsSeq(s), IsSeq(t), After(r, s, t)
    PROVE  /\ IsSeq(r)
           /\ Len(r) = Len(s) + Len(t)
           /\ \A i \in 1 .. Len(s) : r[i] = s[i]
           /\ \A i \in 1 .. Len(t) : r[Len(s) + i] = t[i]
<1> DEFINE S == Range(s) \cup Range(t)
<1>1. s \in Seq(S) /\ t \in Seq(S)
  <2>1. s \in Seq(Range(s)) /\ t \in Seq(Range(t))
    BY DEF IsSeq
  <2> QED
    BY <2>1
<1> HIDE DEF S
<1>2. s \o t \in Seq(S)
  BY <1>1
<1>3. Len(s) \in Nat /\ Len(t) \in Nat
  BY <1>1
<1>4. /\ Len(s \o t) = Len(s) + Len(t)
      /\ \A i \in 1 .. Len(s) + Len(t) :
            (s \o t)[i] = IF i <= Len(s) THEN s[i] ELSE t[i - Len(s)]
  BY <1>1
<1>5. IsSeq(r)
  BY <1>2, AnySeq DEF After
<1> QED
  BY <1>3, <1>4, <1>5 DEF After

(* Where each of a list's sequences ends in their concatenation, ... *)
Bounds(at, seqs, N) ==
    /\ at \in [0 .. N -> Nat] /\ at[0] = 0
    /\ \A i \in 1 .. N : at[i] = at[i - 1] + Len(seqs[i])

(* ... and that s is the concatenation of the first m. *)
Covers(s, seqs, m, at) ==
    /\ IsSeq(s) /\ Len(s) = at[m]
    /\ \A i \in 1 .. m : \A j \in 1 .. Len(seqs[i]) :
          at[i - 1] + j \in 1 .. at[m] /\ s[at[i - 1] + j] = seqs[i][j]
    /\ \A k \in 1 .. at[m] : \E i \in 1 .. m : \E j \in 1 .. Len(seqs[i]) : k = at[i - 1] + j

(* seqs is a list of N sequences. *)
Parts(seqs, N) == DOMAIN seqs = 1 .. N /\ Len(seqs) = N /\ \A i \in 1 .. N : IsSeq(seqs[i])

(* One more sequence. *)
LEMMA CoversMore ==
    ASSUME NEW seqs, NEW at, NEW m \in Nat, NEW s, Covers(s, seqs, m, at), at[m] \in Nat,
           IsSeq(seqs[m + 1]), NEW r, After(r, s, seqs[m + 1]), at[m + 1] = Len(r)
    PROVE  Covers(r, seqs, m + 1, at) /\ at[m + 1] = at[m] + Len(seqs[m + 1])
<1> DEFINE t == seqs[m + 1]
           a == at[m]
           c == Len(t)
<1>1. IsSeq(s) /\ Len(s) = a
  BY DEF Covers
<1>2. /\ IsSeq(r) /\ Len(r) = a + c
      /\ \A i \in 1 .. a : r[i] = s[i]
      /\ \A i \in 1 .. c : r[a + i] = t[i]
  <2>1. IsSeq(s) /\ IsSeq(t) /\ After(r, s, t)
    BY <1>1
  <2> HIDE DEF t
  <2>2. /\ IsSeq(r)
        /\ Len(r) = Len(s) + Len(t)
        /\ \A i \in 1 .. Len(s) : r[i] = s[i]
        /\ \A i \in 1 .. Len(t) : r[Len(s) + i] = t[i]
    BY <2>1, ConcatSeq
  <2> QED
    BY <1>1, <2>2
<1>3. c \in Nat
  BY LengthOfSeq
<1>4. \A i \in 1 .. m + 1 : i = m + 1 \/ i \in 1 .. m
  OBVIOUS
<1>5. /\ \A i \in 1 .. m : \A j \in 1 .. Len(seqs[i]) :
           at[i - 1] + j \in 1 .. a /\ s[at[i - 1] + j] = seqs[i][j]
      /\ \A k \in 1 .. a : \E i \in 1 .. m : \E j \in 1 .. Len(seqs[i]) : k = at[i - 1] + j
  BY DEF Covers
<1>6. at[m + 1] = a + c /\ (m + 1) - 1 = m
  BY <1>2
<1> HIDE DEF a, c, t
<1>7. a \in Nat
  BY DEF a
<1>8. ASSUME NEW i \in 1 .. m + 1, NEW j \in 1 .. Len(seqs[i])
      PROVE  at[i - 1] + j \in 1 .. a + c /\ r[at[i - 1] + j] = seqs[i][j]
  <2>1. CASE i = m + 1
    <3>1. at[i - 1] = a /\ j \in 1 .. c /\ seqs[i] = t
      BY <1>6, <2>1 DEF a, c, t
    <3>2. a + j \in 1 .. a + c
      BY <1>3, <1>7, <3>1
    <3>3. r[a + j] = t[j]
      BY <1>2, <3>1
    <3> QED
      BY <3>1, <3>2, <3>3
  <2>2. CASE i \in 1 .. m
    <3> DEFINE k == at[i - 1] + j
    <3>1. k \in 1 .. a /\ s[k] = seqs[i][j]
      BY <1>5, <2>2
    <3> HIDE DEF k
    <3>2. k \in 1 .. a + c /\ r[k] = seqs[i][j]
      BY <1>2, <1>3, <1>7, <3>1
    <3> QED
      BY <3>2 DEF k
  <2> QED
    BY <1>4, <2>1, <2>2
<1>9. ASSUME NEW k \in 1 .. a + c
      PROVE  \E i \in 1 .. m + 1 : \E j \in 1 .. Len(seqs[i]) : k = at[i - 1] + j
  <2>1. CASE k \in 1 .. a
    <3>1. PICK i \in 1 .. m : \E j \in 1 .. Len(seqs[i]) : k = at[i - 1] + j
      BY <1>5, <2>1
    <3>2. i \in 1 .. m + 1
      OBVIOUS
    <3> QED
      BY <3>1, <3>2
  <2>2. CASE k > a
    <3>1. k - a \in 1 .. c /\ k = a + (k - a)
      BY <1>3, <1>7, <2>2
    <3>2. m + 1 \in 1 .. m + 1
      OBVIOUS
    <3>3. at[(m + 1) - 1] = a /\ Len(seqs[m + 1]) = c
      BY <1>6 DEF a, c, t
    <3> QED
      BY <3>1, <3>2, <3>3
  <2> QED
    BY <1>3, <1>7, <2>1, <2>2
<1> QED
  BY <1>2, <1>6, <1>8, <1>9 DEF Covers, a, c, t

(* FlattenSeq lays its sequences one after the other. *)
LEMMA Laid ==
    ASSUME NEW seqs, NEW N \in Nat, Parts(seqs, N)
    PROVE  \E at : Bounds(at, seqs, N) /\ Covers(FlattenSeq(seqs), seqs, N, at)
<1>0. DOMAIN seqs = 1 .. N /\ Len(seqs) = N /\ \A i \in 1 .. N : IsSeq(seqs[i])
  BY DEF Parts
<1>1. CASE N = 0
  <2> DEFINE at == [i \in 0 .. 0 |-> 0]
  <2>1. FlattenSeq(seqs) = seqs
    BY <1>0, <1>1 DEF FlattenSeq
  <2>2. IsSeq(seqs)
    <3>1. DOMAIN seqs = {}
      BY <1>0, <1>1
    <3>2. seqs = <<>>
      <4>1. Len(seqs) = 0
        BY <1>0, <1>1
      <4>2. seqs \in Seq({})
        BY <1>0, <1>1
      <4> QED
        BY <4>1, <4>2
    <3> QED
      BY <3>2 DEF IsSeq, Range
  <2>3. Bounds(at, seqs, N)
    BY <1>1 DEF Bounds
  <2>4. Covers(seqs, seqs, N, at)
    BY <1>0, <1>1, <2>2 DEF Covers
  <2> QED
    BY <2>1, <2>3, <2>4
<1>2. CASE N > 0
  <2>1. PICK f : Joins(f, seqs, N) /\ FlattenSeq(seqs) = f[N]
    BY <1>0, <1>2, Flattened
  <2> DEFINE at == [i \in 0 .. N |-> IF i = 0 THEN 0 ELSE Len(f[i])]
             Good(i) == Covers(f[i], seqs, i, at) /\ at[i] = at[i - 1] + Len(seqs[i]) /\ at[i] \in Nat
             T == {i \in 1 .. N : ~ Good(i)}
  <2>2. /\ f[1] = seqs[1]
        /\ \A i \in 2 .. N : f[i] = f[i - 1] \o seqs[i]
    <3>1. \A i \in 1 .. N : f[i] = IF i = 1 THEN seqs[i] ELSE f[i - 1] \o seqs[i]
      BY <2>1 DEF Joins
    <3>2. 1 \in 1 .. N /\ \A i \in 2 .. N : i \in 1 .. N /\ i # 1
      BY <1>2
    <3> QED
      BY <3>1, <3>2
  <2>3. at[0] = 0 /\ \A i \in 1 .. N : at[i] = Len(f[i])
    OBVIOUS
  <2>4. DOMAIN at = 0 .. N
    OBVIOUS
  <2>5. at = [i \in 0 .. N |-> at[i]]
    OBVIOUS
  <2> HIDE DEF at
  <2>6. Good(1)
    <3>1. 1 \in 1 .. N
      BY <1>2
    <3>2. IsSeq(f[1]) /\ at[1] = Len(seqs[1]) /\ at[1] \in Nat /\ at[1 - 1] = 0
      BY <1>0, <2>2, <2>3, <3>1, LengthOfSeq
    <3>3. \A i \in 1 .. 1 : i = 1
      OBVIOUS
    <3>4. ASSUME NEW i \in 1 .. 1, NEW j \in 1 .. Len(seqs[i])
          PROVE  at[i - 1] + j \in 1 .. at[1] /\ f[1][at[i - 1] + j] = seqs[i][j]
      <4>1. i = 1
        OBVIOUS
      <4>2. at[i - 1] + j = j
        BY <3>2, <4>1
      <4> QED
        BY <2>2, <3>2, <4>1, <4>2
    <3>5. ASSUME NEW k \in 1 .. at[1]
          PROVE  \E i \in 1 .. 1 : \E j \in 1 .. Len(seqs[i]) : k = at[i - 1] + j
      <4>1. 1 \in 1 .. 1 /\ k \in 1 .. Len(seqs[1]) /\ k = at[1 - 1] + k
        BY <3>2
      <4> QED
        BY <4>1
    <3>6. Covers(f[1], seqs, 1, at)
      BY <2>3, <3>1, <3>2, <3>4, <3>5 DEF Covers
    <3> QED
      BY <3>2, <3>6
  <2>7. ASSUME NEW i \in 2 .. N, Good(i - 1) PROVE Good(i)
    <3>1. i - 1 \in Nat /\ (i - 1) + 1 = i /\ i \in 1 .. N
      OBVIOUS
    <3>2. Covers(f[i - 1], seqs, i - 1, at) /\ at[i - 1] \in Nat
      BY <2>7
    <3>3. f[i] = f[i - 1] \o seqs[(i - 1) + 1] /\ at[(i - 1) + 1] = Len(f[i]) /\ IsSeq(seqs[(i - 1) + 1])
      BY <1>0, <2>2, <2>3, <3>1
    <3>4. Covers(f[i], seqs, (i - 1) + 1, at) /\ at[(i - 1) + 1] = at[i - 1] + Len(seqs[(i - 1) + 1])
      <4> DEFINE m == i - 1
                 s == f[m]
                 r == f[i]
      <4>1. /\ m \in Nat /\ Covers(s, seqs, m, at) /\ at[m] \in Nat
            /\ After(r, s, seqs[m + 1]) /\ at[m + 1] = Len(r) /\ IsSeq(seqs[m + 1])
        BY <3>1, <3>2, <3>3 DEF After
      <4> HIDE DEF m, s, r
      <4>2. Covers(r, seqs, m + 1, at) /\ at[m + 1] = at[m] + Len(seqs[m + 1])
        BY <4>1, CoversMore
      <4> QED
        BY <4>2 DEF m, r
    <3>5. Covers(f[i], seqs, i, at) /\ at[i] = at[i - 1] + Len(seqs[i])
      BY <3>1, <3>4
    <3>6. Len(seqs[i]) \in Nat
      BY <1>0, <3>1, LengthOfSeq
    <3> QED
      BY <3>2, <3>5, <3>6
  <2>8. T = {}
    <3> SUFFICES ASSUME T # {} PROVE FALSE
      OBVIOUS
    <3>1. T \in SUBSET Nat
      OBVIOUS
    <3>2. PICK i \in T : \A j \in T : i <= j
      <4> HIDE DEF T
      <4> QED
        BY <3>1, Least
    <3>3. i \in 1 .. N /\ ~ Good(i)
      OBVIOUS
    <3>4. i # 1
      <4> HIDE DEF Good
      <4> QED
        BY <2>6, <3>3
    <3>5. i \in 2 .. N /\ i - 1 \in 1 .. N /\ ~ i <= i - 1
      BY <3>3, <3>4
    <3>6. i - 1 \notin T
      <4> HIDE DEF T
      <4> QED
        BY <3>2, <3>5
    <3>7. Good(i - 1)
      <4> HIDE DEF Good
      <4> QED
        BY <3>5, <3>6
    <3>8. Good(i)
      <4> HIDE DEF Good
      <4> QED
        BY <2>7, <3>5, <3>7
    <3> HIDE DEF Good
    <3> QED
      BY <3>3, <3>8
  <2>9. \A i \in 1 .. N : Good(i)
    <3> HIDE DEF Good
    <3> QED
      BY <2>8
  <2>10. Bounds(at, seqs, N)
    <3>1. \A i \in 0 .. N : at[i] \in Nat
      BY <2>3, <2>9
    <3> QED
      BY <2>3, <2>5, <2>9, <3>1 DEF Bounds
  <2>11. Covers(FlattenSeq(seqs), seqs, N, at)
    <3>1. N \in 1 .. N
      BY <1>2
    <3> QED
      BY <2>1, <2>9, <3>1
  <2> QED
    BY <2>10, <2>11
<1> QED
  BY <1>1, <1>2

(* The sequences end one after the other. *)
LEMMA Rising ==
    ASSUME NEW at, NEW seqs, NEW N \in Nat, Parts(seqs, N), Bounds(at, seqs, N)
    PROVE  \A i, j \in 0 .. N : i <= j => at[i] <= at[j]
<1> SUFFICES ASSUME NEW i \in 0 .. N PROVE \A j \in 0 .. N : i <= j => at[i] <= at[j]
  OBVIOUS
<1> DEFINE T == {j \in 0 .. N : i <= j /\ ~ at[i] <= at[j]}
<1>1. SUFFICES ASSUME T # {} PROVE FALSE
  OBVIOUS
<1>2. T \in SUBSET Nat
  OBVIOUS
<1>3. PICK j \in T : \A k \in T : j <= k
  <2> HIDE DEF T
  <2> QED
    BY <1>1, <1>2, Least
<1>4. j \in 0 .. N /\ i <= j /\ ~ at[i] <= at[j]
  OBVIOUS
<1>5. \A k \in 0 .. N : at[k] \in Nat
  BY DEF Bounds
<1>6. i # j
  BY <1>4, <1>5
<1>7. j \in 1 .. N /\ j - 1 \in 0 .. N /\ i <= j - 1 /\ ~ j <= j - 1
  BY <1>4, <1>6
<1>8. j - 1 \notin T
  <2> HIDE DEF T
  <2> QED
    BY <1>3, <1>7
<1>9. at[i] <= at[j - 1]
  BY <1>7, <1>8
<1>10. at[j] = at[j - 1] + Len(seqs[j]) /\ Len(seqs[j]) \in Nat
  BY <1>7, LengthOfSeq DEF Bounds, Parts
<1> HIDE DEF T
<1>11. at[i] \in Nat /\ at[j] \in Nat /\ at[j - 1] \in Nat
  BY <1>4, <1>5, <1>7
<1> QED
  BY <1>4, <1>9, <1>10, <1>11

-----------------------------------------------------------------------------
(* The mappings of a document, and where they are. *)

(* The mappings of a statement, of a hazard of it, and of a relation. *)
Primary(s) == [text |-> Says("", s.contents), nodes |-> <<s.id>>, features |-> <<"statement", s>>]
OfHazard(s, j) ==
    [text |-> Says("", s.hazards[j].contents), nodes |-> <<s.id, s.hazards[j].id>>,
     features |-> <<"statement", s>>]
OfCause(doc, r) ==
    [text |-> Says("Cause", StatementContents(doc, r.cause)), nodes |-> <<r.id, r.cause>>,
     features |-> <<"relation", r, "cause">>]
OfEffect(doc, r) ==
    [text |-> Says("Effect", StatementContents(doc, r.effect)), nodes |-> <<r.id, r.effect>>,
     features |-> <<"relation", r, "effect">>]

(* A statement has a mapping for each hazard and then its own              *)
(* (deterministic.py:93-121).                                              *)
LEMMA OfStatement ==
    ASSUME NEW s, IsSeq(s.hazards), NEW ms, ms = StatementMappings(s)
    PROVE  /\ IsSeq(ms) /\ Len(ms) = Len(s.hazards) + 1
           /\ \A j \in 1 .. Len(s.hazards) : ms[j] = OfHazard(s, j)
           /\ ms[Len(s.hazards) + 1] = Primary(s)
<1> DEFINE n == Len(s.hazards)
           hs == [j \in DOMAIN s.hazards |-> OfHazard(s, j)]
           one == <<Primary(s)>>
<1>1. n \in Nat /\ DOMAIN s.hazards = 1 .. n
  BY LengthOfSeq
<1>2. After(ms, hs, one)
  BY DEF After, StatementMappings, OfHazard, Primary
<1>3. IsSeq(one) /\ Len(one) = 1 /\ one[1] = Primary(s)
  BY DEF IsSeq, Range
<1> HIDE DEF one, n
<1>4. hs = [j \in 1 .. n |-> hs[j]] /\ \A j \in 1 .. n : hs[j] = OfHazard(s, j)
  BY <1>1
<1> HIDE DEF hs
<1>5. IsSeq(hs) /\ Len(hs) = n
  BY <1>1, <1>4, NumberedSeq
<1>6. /\ IsSeq(ms)
      /\ Len(ms) = Len(hs) + Len(one)
      /\ \A i \in 1 .. Len(hs) : ms[i] = hs[i]
      /\ \A i \in 1 .. Len(one) : ms[Len(hs) + i] = one[i]
  <2>1. IsSeq(hs) /\ IsSeq(one) /\ After(ms, hs, one)
    BY <1>2, <1>3, <1>5
  <2> QED
    BY <2>1, ConcatSeq
<1>7. ms[n + 1] = Primary(s)
  <2>1. 1 \in 1 .. Len(one)
    BY <1>3
  <2> QED
    BY <1>3, <1>5, <1>6, <2>1
<1> QED
  BY <1>3, <1>4, <1>5, <1>6, <1>7 DEF n

(* A relation has a mapping for its cause and then one for its effect      *)
(* (deterministic.py:124-140).                                             *)
LEMMA OfRelation ==
    ASSUME NEW doc, NEW r, NEW ms, ms = RelationMappings(doc, r)
    PROVE  IsSeq(ms) /\ Len(ms) = 2 /\ ms[1] = OfCause(doc, r) /\ ms[2] = OfEffect(doc, r)
<1>1. ms = <<OfCause(doc, r), OfEffect(doc, r)>>
  BY DEF RelationMappings, OfCause, OfEffect
<1>2. ms \in Seq({OfCause(doc, r), OfEffect(doc, r)})
  BY <1>1
<1>3. IsSeq(ms)
  BY <1>2, AnySeq
<1> QED
  BY <1>1, <1>3

(* The mappings of each statement, and of each relation. *)
StatementParts(doc) == [i \in DOMAIN doc.statements |-> StatementMappings(doc.statements[i])]
RelationParts(doc) == [i \in DOMAIN doc.relations |-> RelationMappings(doc, doc.relations[i])]

(* What DocumentsAssumption says of the statements and hazards of a        *)
(* document, by their index.                                               *)
LEMMA DocumentIs ==
    ASSUME NEW doc \in Documents
    PROVE  /\ IsSeq(doc.statements) /\ IsSeq(doc.relations)
           /\ \A k \in DOMAIN doc.statements :
                /\ IsSeq(doc.statements[k].hazards)
                /\ IsSeq(doc.statements[k].contents) /\ Len(doc.statements[k].contents) \in Nat \ {0}
                /\ \A j \in DOMAIN doc.statements[k].hazards :
                     /\ IsSeq(doc.statements[k].hazards[j].contents)
                     /\ Len(doc.statements[k].hazards[j].contents) \in Nat \ {0}
<1>1. /\ IsSeq(doc.statements) /\ IsSeq(doc.relations)
      /\ \A s \in Range(doc.statements) :
             /\ s.contents \in Seq(Range(s.contents)) \ {<<>>}
             /\ s.hazards \in Seq(Range(s.hazards))
             /\ \A h \in Range(s.hazards) : h.contents \in Seq(Range(h.contents)) \ {<<>>}
  BY DocumentsAssumption DEF IsSeq
<1>2. ASSUME NEW S, NEW c \in Seq(S) \ {<<>>} PROVE Len(c) \in Nat \ {0}
  OBVIOUS
<1>3. ASSUME NEW k \in DOMAIN doc.statements
      PROVE  /\ IsSeq(doc.statements[k].hazards)
             /\ IsSeq(doc.statements[k].contents) /\ Len(doc.statements[k].contents) \in Nat \ {0}
             /\ \A j \in DOMAIN doc.statements[k].hazards :
                  /\ IsSeq(doc.statements[k].hazards[j].contents)
                  /\ Len(doc.statements[k].hazards[j].contents) \in Nat \ {0}
  <2> DEFINE s == doc.statements[k]
  <2>1. s \in Range(doc.statements)
    BY DEF Range
  <2>2. IsSeq(s.hazards) /\ s.contents \in Seq(Range(s.contents)) \ {<<>>}
    BY <1>1, <2>1 DEF IsSeq
  <2>3. ASSUME NEW j \in DOMAIN s.hazards
        PROVE  s.hazards[j].contents \in Seq(Range(s.hazards[j].contents)) \ {<<>>}
    <3>1. s.hazards[j] \in Range(s.hazards)
      BY DEF Range
    <3> QED
      BY <1>1, <2>1, <3>1
  <2> HIDE DEF s
  <2>4. /\ IsSeq(s.contents) /\ Len(s.contents) \in Nat \ {0}
        /\ \A j \in DOMAIN s.hazards :
             IsSeq(s.hazards[j].contents) /\ Len(s.hazards[j].contents) \in Nat \ {0}
    BY <1>2, <2>2, <2>3 DEF IsSeq
  <2> QED
    BY <2>2, <2>4 DEF s
<1> QED
  BY <1>1, <1>3

(* Where the mappings of the statements and those of the causes are in ms, *)
(* and that there is no other; a hazard is mapped before its statement, an *)
(* effect after its cause.                                                 *)
Mapped(doc, ms, p, c) ==
    /\ IsSeq(ms)
    /\ \A k \in DOMAIN doc.statements :
         /\ p[k] \in DOMAIN ms /\ ms[p[k]] = Primary(doc.statements[k])
         /\ \A j \in DOMAIN doc.statements[k].hazards :
              \E i \in DOMAIN ms : i < p[k] /\ ms[i] = OfHazard(doc.statements[k], j)
    /\ \A k \in DOMAIN doc.relations :
         /\ c[k] \in DOMAIN ms /\ c[k] + 1 \in DOMAIN ms
         /\ ms[c[k]] = OfCause(doc, doc.relations[k])
         /\ ms[c[k] + 1] = OfEffect(doc, doc.relations[k])
    /\ \A i \in DOMAIN ms :
         \/ \E k \in DOMAIN doc.statements : i = p[k]
         \/ \E k \in DOMAIN doc.statements : \E j \in DOMAIN doc.statements[k].hazards :
              i < p[k] /\ ms[i] = OfHazard(doc.statements[k], j)
         \/ \E k \in DOMAIN doc.relations : i = c[k] \/ i = c[k] + 1

(* ... which holds of the first part of the mappings ... *)
LEMMA StatementsMapped ==
    ASSUME NEW doc \in Documents
    PROVE  \E at : /\ Bounds(at, StatementParts(doc), Len(doc.statements))
                   /\ Covers(FlattenSeq(StatementParts(doc)), StatementParts(doc), Len(doc.statements), at)
                   /\ Parts(StatementParts(doc), Len(doc.statements))
<1> DEFINE N == Len(doc.statements)
           parts == StatementParts(doc)
<1>1. N \in Nat /\ DOMAIN doc.statements = 1 .. N
  BY DocumentIs, LengthOfSeq
<1>2. parts = [i \in 1 .. N |-> parts[i]] /\ \A i \in 1 .. N : parts[i] = StatementMappings(doc.statements[i])
  BY <1>1 DEF StatementParts
<1> HIDE DEF N, parts
<1>3. \A i \in 1 .. N : IsSeq(parts[i])
  BY <1>1, <1>2, DocumentIs, OfStatement
<1>4. Parts(parts, N)
  BY <1>1, <1>2, <1>3, NumberedSeq DEF Parts
<1> QED
  BY <1>1, <1>4, Laid DEF N, parts

(* ... and of the second. *)
LEMMA RelationsMapped ==
    ASSUME NEW doc \in Documents
    PROVE  \E at : /\ Bounds(at, RelationParts(doc), Len(doc.relations))
                   /\ Covers(FlattenSeq(RelationParts(doc)), RelationParts(doc), Len(doc.relations), at)
                   /\ Parts(RelationParts(doc), Len(doc.relations))
<1> DEFINE N == Len(doc.relations)
           parts == RelationParts(doc)
<1>1. N \in Nat /\ DOMAIN doc.relations = 1 .. N
  BY DocumentIs, LengthOfSeq
<1>2. parts = [i \in 1 .. N |-> parts[i]] /\ \A i \in 1 .. N : parts[i] = RelationMappings(doc, doc.relations[i])
  BY <1>1 DEF RelationParts
<1> HIDE DEF N, parts
<1>3. \A i \in 1 .. N : IsSeq(parts[i])
  BY <1>1, <1>2, OfRelation
<1>4. Parts(parts, N)
  BY <1>1, <1>2, <1>3, NumberedSeq DEF Parts
<1> QED
  BY <1>1, <1>4, Laid DEF N, parts

(* The deterministic mappings of a document are one for each hazard,       *)
(* statement, and end of a relation, in this order                         *)
(* (deterministic.py:83-146).                                              *)
LEMMA Structure ==
    ASSUME NEW doc \in Documents
    PROVE  \E p, c : Mapped(doc, DeterministicMappings(doc), p, c)
<1> DEFINE N == Len(doc.statements)
           R == Len(doc.relations)
           A == StatementParts(doc)
           B == RelationParts(doc)
           fa == FlattenSeq(A)
           fb == FlattenSeq(B)
           ms == DeterministicMappings(doc)
<1>1. /\ N \in Nat /\ DOMAIN doc.statements = 1 .. N
      /\ R \in Nat /\ DOMAIN doc.relations = 1 .. R
  BY DocumentIs, LengthOfSeq
<1>2. PICK at : Bounds(at, A, N) /\ Covers(fa, A, N, at) /\ Parts(A, N)
  BY StatementsMapped
<1>3. PICK bt : Bounds(bt, B, R) /\ Covers(fb, B, R, bt) /\ Parts(B, R)
  BY RelationsMapped
<1>4. After(ms, fa, fb)
  BY DEF After, DeterministicMappings, StatementParts, RelationParts
<1>5. \A k \in 1 .. N :
        /\ Len(A[k]) = Len(doc.statements[k].hazards) + 1
        /\ A[k][Len(doc.statements[k].hazards) + 1] = Primary(doc.statements[k])
        /\ Len(doc.statements[k].hazards) \in Nat
        /\ DOMAIN doc.statements[k].hazards = 1 .. Len(doc.statements[k].hazards)
        /\ \A j \in 1 .. Len(doc.statements[k].hazards) : A[k][j] = OfHazard(doc.statements[k], j)
  <2> TAKE k \in 1 .. N
  <2>1. A[k] = StatementMappings(doc.statements[k]) /\ IsSeq(doc.statements[k].hazards)
    BY <1>1, DocumentIs DEF StatementParts
  <2> QED
    BY <2>1, OfStatement, LengthOfSeq
<1>6. \A k \in 1 .. R : /\ Len(B[k]) = 2 /\ B[k][1] = OfCause(doc, doc.relations[k])
                        /\ B[k][2] = OfEffect(doc, doc.relations[k])
  BY <1>1, OfRelation DEF RelationParts
<1>7. IsSeq(fa) /\ IsSeq(fb) /\ Len(fa) = at[N] /\ Len(fb) = bt[R]
  BY <1>2, <1>3 DEF Covers
<1> HIDE DEF N, R, A, B, fa, fb, ms
<1> DEFINE a == at[N]
           b == bt[R]
<1>8. /\ IsSeq(ms) /\ Len(ms) = a + b
      /\ \A i \in 1 .. a : ms[i] = fa[i]
      /\ \A i \in 1 .. b : ms[a + i] = fb[i]
  <2>1. /\ IsSeq(ms)
        /\ Len(ms) = Len(fa) + Len(fb)
        /\ \A i \in 1 .. Len(fa) : ms[i] = fa[i]
        /\ \A i \in 1 .. Len(fb) : ms[Len(fa) + i] = fb[i]
    <3>1. IsSeq(fa) /\ IsSeq(fb) /\ After(ms, fa, fb)
      BY <1>4, <1>7
    <3> QED
      BY <3>1, ConcatSeq
  <2> QED
    BY <1>7, <2>1
<1>9. /\ \A i \in 0 .. N : at[i] \in Nat
      /\ \A i \in 0 .. R : bt[i] \in Nat
  BY <1>2, <1>3 DEF Bounds
<1>10. a \in Nat /\ b \in Nat
  BY <1>1, <1>9
<1>11. DOMAIN ms = 1 .. a + b
  BY <1>8, LengthOfSeq
<1>12. /\ \A k \in 1 .. N : at[k] = at[k - 1] + Len(A[k]) /\ at[k - 1] \in Nat
       /\ \A k \in 1 .. R : bt[k] = bt[k - 1] + Len(B[k]) /\ bt[k - 1] \in Nat
  <2>1. \A k \in 1 .. N : k - 1 \in 0 .. N
    BY <1>1
  <2>2. \A k \in 1 .. R : k - 1 \in 0 .. R
    BY <1>1
  <2> QED
    BY <1>2, <1>3, <1>9, <2>1, <2>2 DEF Bounds
<1>13. /\ \A k \in 1 .. N : \A j \in 1 .. Len(A[k]) :
            at[k - 1] + j \in 1 .. a /\ fa[at[k - 1] + j] = A[k][j]
       /\ \A i \in 1 .. a : \E k \in 1 .. N : \E j \in 1 .. Len(A[k]) : i = at[k - 1] + j
  BY <1>2 DEF Covers
<1>14. /\ \A k \in 1 .. R : \A j \in 1 .. Len(B[k]) :
            bt[k - 1] + j \in 1 .. b /\ fb[bt[k - 1] + j] = B[k][j]
       /\ \A i \in 1 .. b : \E k \in 1 .. R : \E j \in 1 .. Len(B[k]) : i = bt[k - 1] + j
  BY <1>3 DEF Covers
<1> HIDE DEF a, b
<1>15. ASSUME NEW k \in 1 .. N, NEW j \in 1 .. Len(doc.statements[k].hazards)
       PROVE  /\ at[k - 1] + j \in DOMAIN ms /\ at[k - 1] + j < at[k]
              /\ ms[at[k - 1] + j] = OfHazard(doc.statements[k], j)
  <2> DEFINE h == Len(doc.statements[k].hazards)
             x == at[k - 1]
  <2>1. h \in Nat /\ Len(A[k]) = h + 1 /\ x \in Nat /\ at[k] = x + (h + 1) /\ A[k][j] = OfHazard(doc.statements[k], j)
    BY <1>5, <1>12
  <2>2. j \in 1 .. h
    OBVIOUS
  <2> HIDE DEF h, x
  <2>3. j \in 1 .. Len(A[k]) /\ x + j < at[k]
    BY <2>1, <2>2
  <2>4. x + j \in 1 .. a /\ fa[x + j] = A[k][j]
    BY <1>13, <2>3 DEF x
  <2>5. x + j \in DOMAIN ms /\ ms[x + j] = fa[x + j]
    BY <1>8, <1>10, <1>11, <2>4
  <2> QED
    BY <2>1, <2>3, <2>4, <2>5 DEF x
<1>16. ASSUME NEW k \in 1 .. N
       PROVE  at[k] \in DOMAIN ms /\ ms[at[k]] = Primary(doc.statements[k])
  <2> DEFINE h == Len(doc.statements[k].hazards)
             x == at[k - 1]
  <2>1. h \in Nat /\ Len(A[k]) = h + 1 /\ x \in Nat /\ at[k] = x + (h + 1) /\ A[k][h + 1] = Primary(doc.statements[k])
    BY <1>5, <1>12
  <2> HIDE DEF h, x
  <2>2. h + 1 \in 1 .. Len(A[k])
    BY <2>1
  <2>3. x + (h + 1) \in 1 .. a /\ fa[x + (h + 1)] = A[k][h + 1]
    BY <1>13, <2>2 DEF x
  <2>4. at[k] \in 1 .. a /\ fa[at[k]] = Primary(doc.statements[k])
    BY <2>1, <2>3
  <2> QED
    BY <1>8, <1>10, <1>11, <2>4
<1> DEFINE c == [k \in 1 .. R |-> a + bt[k - 1] + 1]
<1>17. ASSUME NEW k \in 1 .. R, NEW j \in 1 .. 2
       PROVE  a + bt[k - 1] + j \in DOMAIN ms /\ ms[a + bt[k - 1] + j] = B[k][j]
  <2> DEFINE x == bt[k - 1]
  <2>1. x \in Nat /\ j \in 1 .. Len(B[k])
    BY <1>6, <1>12
  <2>2. x + j \in 1 .. b /\ fb[x + j] = B[k][j]
    BY <1>14, <2>1
  <2> HIDE DEF x
  <2>3. ms[a + (x + j)] = fb[x + j] /\ a + (x + j) = a + x + j
    <3>1. ms[a + (x + j)] = fb[x + j]
      BY <1>8, <1>10, <2>2
    <3>2. j \in Nat /\ a \in Nat
      BY <1>10
    <3> QED
      BY <2>1, <3>1, <3>2
  <2>4. a + x + j \in 1 .. a + b
    BY <1>10, <2>1, <2>2
  <2> QED
    BY <1>11, <2>2, <2>3, <2>4 DEF x
<1>18. ASSUME NEW k \in 1 .. R
       PROVE  /\ c[k] \in DOMAIN ms /\ c[k] + 1 \in DOMAIN ms
              /\ ms[c[k]] = OfCause(doc, doc.relations[k])
              /\ ms[c[k] + 1] = OfEffect(doc, doc.relations[k])
  <2>1. c[k] = a + bt[k - 1] + 1
    OBVIOUS
  <2>2. c[k] + 1 = a + bt[k - 1] + 2
    BY <1>10, <1>12, <2>1
  <2>3. 1 \in 1 .. 2 /\ 2 \in 1 .. 2
    OBVIOUS
  <2> HIDE DEF c
  <2> QED
    BY <1>6, <1>17, <2>1, <2>2, <2>3
<1>19. ASSUME NEW i \in DOMAIN ms
       PROVE  \/ \E k \in 1 .. N : i = at[k]
              \/ \E k \in 1 .. N : \E j \in 1 .. Len(doc.statements[k].hazards) :
                   i < at[k] /\ ms[i] = OfHazard(doc.statements[k], j)
              \/ \E k \in 1 .. R : i = c[k] \/ i = c[k] + 1
  <2>1. CASE i \in 1 .. a
    <3>1. PICK k \in 1 .. N : \E j \in 1 .. Len(A[k]) : i = at[k - 1] + j
      BY <1>13, <2>1
    <3>2. PICK j \in 1 .. Len(A[k]) : i = at[k - 1] + j
      BY <3>1
    <3> DEFINE h == Len(doc.statements[k].hazards)
    <3>3. h \in Nat /\ Len(A[k]) = h + 1 /\ at[k] = at[k - 1] + (h + 1)
      BY <1>5, <1>12
    <3>4. j \in 1 .. h \/ j = h + 1
      <4> HIDE DEF h
      <4> QED
        BY <3>3
    <3>5. CASE j = h + 1
      BY <3>2, <3>3, <3>5
    <3>6. CASE j \in 1 .. h
      BY <1>15, <3>2, <3>6
    <3> QED
      BY <3>4, <3>5, <3>6
  <2>2. CASE i > a
    <3>1. i - a \in 1 .. b
      BY <1>10, <1>11, <2>2
    <3>2. PICK k \in 1 .. R : \E j \in 1 .. Len(B[k]) : i - a = bt[k - 1] + j
      BY <1>14, <3>1
    <3>3. PICK j \in 1 .. 2 : i - a = bt[k - 1] + j
      BY <1>6, <3>2
    <3>4. c[k] = a + bt[k - 1] + 1 /\ bt[k - 1] \in Nat /\ i \in Nat
      BY <1>10, <1>11, <1>12
    <3> HIDE DEF c
    <3>5. i = c[k] \/ i = c[k] + 1
      BY <1>10, <3>3, <3>4
    <3> QED
      BY <3>5
  <2> QED
    BY <1>10, <1>11, <2>1, <2>2
<1>20. Mapped(doc, ms, at, c)
  <2> HIDE DEF c
  <2>1. ASSUME NEW k \in DOMAIN doc.statements
        PROVE  /\ at[k] \in DOMAIN ms /\ ms[at[k]] = Primary(doc.statements[k])
               /\ \A j \in DOMAIN doc.statements[k].hazards :
                    \E i \in DOMAIN ms : i < at[k] /\ ms[i] = OfHazard(doc.statements[k], j)
    BY <1>1, <1>5, <1>15, <1>16
  <2>2. ASSUME NEW i \in DOMAIN ms
        PROVE  \/ \E k \in DOMAIN doc.statements : i = at[k]
               \/ \E k \in DOMAIN doc.statements : \E j \in DOMAIN doc.statements[k].hazards :
                    i < at[k] /\ ms[i] = OfHazard(doc.statements[k], j)
               \/ \E k \in DOMAIN doc.relations : i = c[k] \/ i = c[k] + 1
    <3>1. CASE \E k \in 1 .. N : i = at[k]
      BY <1>1, <3>1
    <3>2. CASE \E k \in 1 .. N : \E j \in 1 .. Len(doc.statements[k].hazards) :
                 i < at[k] /\ ms[i] = OfHazard(doc.statements[k], j)
      <4>1. PICK k \in 1 .. N : \E j \in 1 .. Len(doc.statements[k].hazards) :
                 i < at[k] /\ ms[i] = OfHazard(doc.statements[k], j)
        BY <3>2
      <4>2. k \in DOMAIN doc.statements
            /\ DOMAIN doc.statements[k].hazards = 1 .. Len(doc.statements[k].hazards)
        BY <1>1, <1>5
      <4> QED
        BY <4>1, <4>2
    <3>3. CASE \E k \in 1 .. R : i = c[k] \/ i = c[k] + 1
      BY <1>1, <3>3
    <3> QED
      BY <1>19, <3>1, <3>2, <3>3
  <2> QED
    BY <1>1, <1>8, <1>18, <2>1, <2>2 DEF Mapped
<1> QED
  BY <1>20 DEF ms

(* The statements of a well-formed document have different ids             *)
(* (ir/models.py:179-182).                                                 *)
LEMMA IdsDiffer ==
    ASSUME NEW doc \in Documents, WellFormed(doc)
    PROVE  \A i, j \in DOMAIN doc.statements : doc.statements[i].id = doc.statements[j].id => i = j
<1> DEFINE N == Len(doc.statements)
           f == [i \in 1 .. N |-> doc.statements[i].id]
<1>1. N \in Nat /\ DOMAIN doc.statements = 1 .. N
  BY DocumentIs, LengthOfSeq
<1>2. Cardinality(StatementIds(doc)) = N
  BY DEF WellFormed
<1> HIDE DEF N
<1>3. f \in Surjection(1 .. N, StatementIds(doc))
  <2>1. f \in [1 .. N -> StatementIds(doc)]
    BY <1>1 DEF StatementIds
  <2>2. \A x \in StatementIds(doc) : \E i \in 1 .. N : f[i] = x
    BY <1>1 DEF StatementIds
  <2> QED
    BY <2>1, <2>2 DEF Surjection
<1>4. IsFiniteSet(1 .. N) /\ Cardinality(1 .. N) = N
  BY <1>1, FS_Interval
<1>5. f \in Injection(1 .. N, StatementIds(doc))
  <2> HIDE DEF f
  <2> QED
    BY <1>2, <1>3, <1>4, FS_Surjection
<1>6. \A i, j \in 1 .. N : f[i] = f[j] => i = j
  <2> HIDE DEF f
  <2> QED
    BY <1>5 DEF Injection, IsInjective
<1> QED
  BY <1>1, <1>6

(* What the nodes of a mapping are. *)
LEMMA NodesOf ==
    ASSUME NEW doc, NEW s, NEW j, NEW r
    PROVE  /\ Primary(s).nodes = <<s.id>>
           /\ OfHazard(s, j).nodes = <<s.id, s.hazards[j].id>>
           /\ OfCause(doc, r).nodes = <<r.id, r.cause>>
           /\ OfEffect(doc, r).nodes = <<r.id, r.effect>>
  BY DEF Primary, OfHazard, OfCause, OfEffect

(* What the mappings say. *)
LEMMA TextsOf ==
    ASSUME NEW doc, NEW s, NEW j, NEW r
    PROVE  /\ Primary(s).text = Says("", s.contents)
           /\ OfHazard(s, j).text = Says("", s.hazards[j].contents)
           /\ OfCause(doc, r).text = Says("Cause", StatementContents(doc, r.cause))
           /\ OfEffect(doc, r).text = Says("Effect", StatementContents(doc, r.effect))
  BY DEF Primary, OfHazard, OfCause, OfEffect

(* What the mappings claim to express. *)
LEMMA FeaturesOf ==
    ASSUME NEW doc, NEW s, NEW j, NEW r
    PROVE  /\ Primary(s).features = <<"statement", s>>
           /\ OfHazard(s, j).features = <<"statement", s>>
           /\ OfCause(doc, r).features = <<"relation", r, "cause">>
           /\ OfEffect(doc, r).features = <<"relation", r, "effect">>
  BY DEF Primary, OfHazard, OfCause, OfEffect

(* A relation of a well-formed document is between two statements, and     *)
(* shares its id with no statement and no other relation                   *)
(* (ir/models.py:199-225).                                                 *)
LEMMA RelationIs ==
    ASSUME NEW doc, WellFormed(doc), NEW k \in DOMAIN doc.relations
    PROVE  /\ doc.relations[k].cause # doc.relations[k].effect
           /\ \A i \in DOMAIN doc.statements : doc.relations[k].id # doc.statements[i].id
           /\ \E i \in DOMAIN doc.statements : doc.relations[k].cause = doc.statements[i].id
           /\ \E i \in DOMAIN doc.statements : doc.relations[k].effect = doc.statements[i].id
           /\ \A m \in DOMAIN doc.relations : doc.relations[m].id = doc.relations[k].id => m = k
  BY DEF WellFormed, StatementIds

(* Tuples of one and of two elements are equal where their elements are. *)
LEMMA Pairs == ASSUME NEW a, NEW b, NEW x, NEW y
               PROVE  /\ <<a>> = <<x>> => a = x
                      /\ <<a, b>> = <<x, y>> => a = x /\ b = y
                      /\ <<a>> # <<x, y>>
<1>1. ASSUME <<a>> = <<x>> PROVE a = x
  <2>1. <<a>>[1] = a /\ <<x>>[1] = x
    OBVIOUS
  <2> QED
    BY <1>1, <2>1
<1>2. Len(<<a>>) = 1 /\ Len(<<x, y>>) = 2
  OBVIOUS
<1> QED
  BY <1>1, <1>2

(* No two mappings are of the same statement, or of the same end of the    *)
(* same relation.                                                          *)
LEMMA MappedOnce ==
    ASSUME NEW doc \in Documents, WellFormed(doc), NEW ms, NEW p, NEW c, Mapped(doc, ms, p, c),
           NEW i \in DOMAIN ms
    PROVE  /\ \A k \in DOMAIN doc.statements : ms[i].nodes = <<doc.statements[k].id>> => i = p[k]
           /\ \A k \in DOMAIN doc.relations :
                ms[i].nodes = <<doc.relations[k].id, doc.relations[k].cause>> => i = c[k]
           /\ \A k \in DOMAIN doc.relations :
                ms[i].nodes = <<doc.relations[k].id, doc.relations[k].effect>> => i = c[k] + 1
<1>1. \/ \E m \in DOMAIN doc.statements : i = p[m]
      \/ \E m \in DOMAIN doc.statements : \E j \in DOMAIN doc.statements[m].hazards :
              i < p[m] /\ ms[i] = OfHazard(doc.statements[m], j)
      \/ \E m \in DOMAIN doc.relations : i = c[m] \/ i = c[m] + 1
  BY DEF Mapped
<1>2. \/ \E m \in DOMAIN doc.statements : i = p[m] /\ ms[i].nodes = <<doc.statements[m].id>>
      \/ \E m \in DOMAIN doc.statements : \E x : ms[i].nodes = <<doc.statements[m].id, x>>
      \/ \E m \in DOMAIN doc.relations :
            i = c[m] /\ ms[i].nodes = <<doc.relations[m].id, doc.relations[m].cause>>
      \/ \E m \in DOMAIN doc.relations :
            i = c[m] + 1 /\ ms[i].nodes = <<doc.relations[m].id, doc.relations[m].effect>>
  <2>1. CASE \E m \in DOMAIN doc.statements : i = p[m]
    <3>1. PICK m \in DOMAIN doc.statements : i = p[m]
      BY <2>1
    <3>2. ms[i] = Primary(doc.statements[m])
      BY <3>1 DEF Mapped
    <3>3. ms[i].nodes = <<doc.statements[m].id>>
      BY <3>2, NodesOf
    <3> QED
      BY <3>1, <3>3
  <2>2. CASE \E m \in DOMAIN doc.statements : \E j \in DOMAIN doc.statements[m].hazards :
              i < p[m] /\ ms[i] = OfHazard(doc.statements[m], j)
    <3>1. PICK m \in DOMAIN doc.statements : \E j : ms[i] = OfHazard(doc.statements[m], j)
      BY <2>2
    <3>2. \E x : ms[i].nodes = <<doc.statements[m].id, x>>
      BY <3>1, NodesOf
    <3> QED
      BY <3>2
  <2>3. CASE \E m \in DOMAIN doc.relations : i = c[m] \/ i = c[m] + 1
    <3>1. PICK m \in DOMAIN doc.relations : i = c[m] \/ i = c[m] + 1
      BY <2>3
    <3>2. /\ ms[c[m]] = OfCause(doc, doc.relations[m])
          /\ ms[c[m] + 1] = OfEffect(doc, doc.relations[m])
      BY DEF Mapped
    <3>3. \/ i = c[m] /\ ms[i].nodes = <<doc.relations[m].id, doc.relations[m].cause>>
          \/ i = c[m] + 1 /\ ms[i].nodes = <<doc.relations[m].id, doc.relations[m].effect>>
      BY <3>1, <3>2, NodesOf
    <3> QED
      BY <3>3
  <2> QED
    BY <1>1, <2>1, <2>2, <2>3
<1>3. ASSUME NEW k \in DOMAIN doc.statements, ms[i].nodes = <<doc.statements[k].id>> PROVE i = p[k]
  <2>1. PICK m \in DOMAIN doc.statements : i = p[m] /\ ms[i].nodes = <<doc.statements[m].id>>
    BY <1>2, <1>3, Pairs
  <2>2. doc.statements[k].id = doc.statements[m].id
    BY <1>3, <2>1, Pairs
  <2> QED
    BY <2>1, <2>2, IdsDiffer
<1>4. ASSUME NEW k \in DOMAIN doc.relations, NEW x, ms[i].nodes = <<doc.relations[k].id, x>>
      PROVE  \/ i = c[k] /\ x = doc.relations[k].cause
             \/ i = c[k] + 1 /\ x = doc.relations[k].effect
  <2>1. /\ \A m \in DOMAIN doc.statements : \A y :
              ms[i].nodes # <<doc.statements[m].id>> /\ ms[i].nodes # <<doc.statements[m].id, y>>
        /\ \A m \in DOMAIN doc.relations : doc.relations[m].id = doc.relations[k].id => m = k
    BY <1>4, RelationIs, Pairs
  <2>2. CASE \E m \in DOMAIN doc.relations :
               i = c[m] /\ ms[i].nodes = <<doc.relations[m].id, doc.relations[m].cause>>
    <3>1. PICK m \in DOMAIN doc.relations :
               i = c[m] /\ ms[i].nodes = <<doc.relations[m].id, doc.relations[m].cause>>
      BY <2>2
    <3>2. doc.relations[m].id = doc.relations[k].id /\ x = doc.relations[m].cause
      BY <1>4, <3>1, Pairs
    <3>3. m = k
      BY <2>1, <3>2
    <3> QED
      BY <3>1, <3>2, <3>3
  <2>3. CASE \E m \in DOMAIN doc.relations :
               i = c[m] + 1 /\ ms[i].nodes = <<doc.relations[m].id, doc.relations[m].effect>>
    <3>1. PICK m \in DOMAIN doc.relations :
               i = c[m] + 1 /\ ms[i].nodes = <<doc.relations[m].id, doc.relations[m].effect>>
      BY <2>3
    <3>2. doc.relations[m].id = doc.relations[k].id /\ x = doc.relations[m].effect
      BY <1>4, <3>1, Pairs
    <3>3. m = k
      BY <2>1, <3>2
    <3> QED
      BY <3>1, <3>2, <3>3
  <2> QED
    BY <1>2, <2>1, <2>2, <2>3
<1> QED
  BY <1>3, <1>4, RelationIs

(* The contents of an end of a relation are those of its statement. *)
LEMMA ContentsOf ==
    ASSUME NEW doc \in Documents, WellFormed(doc), NEW k \in DOMAIN doc.statements
    PROVE  StatementContents(doc, doc.statements[k].id) = doc.statements[k].contents
<1> DEFINE t == CHOOSE t \in Range(doc.statements) : t.id = doc.statements[k].id
<1>1. doc.statements[k] \in Range(doc.statements)
  BY DEF Range
<1>2. t \in Range(doc.statements) /\ t.id = doc.statements[k].id
  BY <1>1
<1>3. StatementContents(doc, doc.statements[k].id) = t.contents
  BY DEF StatementContents
<1> HIDE DEF t
<1>4. PICK m \in DOMAIN doc.statements : t = doc.statements[m]
  BY <1>2 DEF Range
<1>5. m = k
  BY <1>2, <1>4, IdsDiffer
<1> QED
  BY <1>3, <1>4, <1>5

(* A surface form is spoken in as many sentences as it has. *)
LEMMA SaysAre ==
    ASSUME NEW role, NEW contents, IsSeq(contents), NEW said, said = Says(role, contents)
    PROVE  IsSeq(said) /\ Len(said) = Len(contents)
<1>1. Len(contents) \in Nat /\ DOMAIN contents = 1 .. Len(contents)
  BY LengthOfSeq
<1>2. DOMAIN said = 1 .. Len(contents) /\ said = [i \in DOMAIN said |-> said[i]]
  BY <1>1 DEF Says
<1>3. said = [i \in 1 .. Len(contents) |-> said[i]]
  BY <1>2
<1> QED
  BY <1>1, <1>3, NumberedSeq

(* Each mapping holds a sentence. *)
LEMMA TextsAre ==
    ASSUME NEW doc \in Documents, WellFormed(doc), NEW ms, NEW p, NEW c, Mapped(doc, ms, p, c),
           NEW i \in DOMAIN ms
    PROVE  IsSeq(ms[i].text) /\ Len(ms[i].text) \in Nat \ {0}
<1>1. \E role, contents : /\ ms[i].text = Says(role, contents)
                          /\ IsSeq(contents) /\ Len(contents) \in Nat \ {0}
  <2>1. CASE \E m \in DOMAIN doc.statements : i = p[m]
    <3>1. PICK m \in DOMAIN doc.statements : i = p[m]
      BY <2>1
    <3>2. ms[i] = Primary(doc.statements[m])
      BY <3>1 DEF Mapped
    <3>3. ms[i].text = Says("", doc.statements[m].contents)
      BY <3>2, TextsOf
    <3> QED
      BY <3>3, DocumentIs
  <2>2. CASE \E m \in DOMAIN doc.statements : \E j \in DOMAIN doc.statements[m].hazards :
              i < p[m] /\ ms[i] = OfHazard(doc.statements[m], j)
    <3>1. PICK m \in DOMAIN doc.statements : \E j \in DOMAIN doc.statements[m].hazards :
             ms[i] = OfHazard(doc.statements[m], j)
      BY <2>2
    <3>2. PICK j \in DOMAIN doc.statements[m].hazards : ms[i] = OfHazard(doc.statements[m], j)
      BY <3>1
    <3> DEFINE s == doc.statements[m]
    <3>3. OfHazard(s, j).text = Says("", s.hazards[j].contents)
      <4> HIDE DEF s
      <4> QED
        BY DEF OfHazard
    <3>4. ms[i].text = Says("", s.hazards[j].contents)
      BY <3>2, <3>3
    <3> QED
      BY <3>4, DocumentIs
  <2>3. CASE \E m \in DOMAIN doc.relations : i = c[m] \/ i = c[m] + 1
    <3>1. PICK m \in DOMAIN doc.relations : i = c[m] \/ i = c[m] + 1
      BY <2>3
    <3>2. /\ ms[c[m]] = OfCause(doc, doc.relations[m])
          /\ ms[c[m] + 1] = OfEffect(doc, doc.relations[m])
      BY DEF Mapped
    <3> DEFINE r == doc.relations[m]
    <3>7. /\ OfCause(doc, r).text = Says("Cause", StatementContents(doc, r.cause))
          /\ OfEffect(doc, r).text = Says("Effect", StatementContents(doc, r.effect))
      BY TextsOf
    <3>3. \E role : \E id \in {r.cause, r.effect} : ms[i].text = Says(role, StatementContents(doc, id))
      BY <3>1, <3>2, <3>7
    <3>4. PICK role : \E id \in {doc.relations[m].cause, doc.relations[m].effect} :
             ms[i].text = Says(role, StatementContents(doc, id))
      BY <3>3
    <3>5. PICK k \in DOMAIN doc.statements :
             ms[i].text = Says(role, StatementContents(doc, doc.statements[k].id))
      BY <3>4, RelationIs
    <3>6. ms[i].text = Says(role, doc.statements[k].contents)
      BY <3>5, ContentsOf
    <3> QED
      BY <3>6, DocumentIs
  <2> QED
    BY <2>1, <2>2, <2>3 DEF Mapped
<1>2. PICK role, contents : /\ ms[i].text = Says(role, contents)
                            /\ IsSeq(contents) /\ Len(contents) \in Nat \ {0}
  BY <1>1
<1> QED
  BY <1>2, SaysAre

-----------------------------------------------------------------------------
(* What the mappings say. *)

(* The sentences of each mapping. *)
Texts(ms) == [i \in DOMAIN ms |-> ms[i].text]

(* Every mapping holds a sequence of sentences. *)
Said(ms) == IsSeq(ms) /\ \A i \in DOMAIN ms : IsSeq(ms[i].text)

(* The spoken sentences are those of the mappings, one mapping after the   *)
(* other.                                                                  *)
LEMMA SpokenAt ==
    ASSUME NEW ms, Said(ms)
    PROVE  \E at : /\ Bounds(at, Texts(ms), Len(ms))
                   /\ Covers(Spoken(ms), Texts(ms), Len(ms), at)
                   /\ Parts(Texts(ms), Len(ms))
<1> DEFINE N == Len(ms)
           texts == Texts(ms)
<1>1. N \in Nat /\ DOMAIN ms = 1 .. N
  BY LengthOfSeq DEF Said
<1>2. texts = [i \in 1 .. N |-> texts[i]] /\ \A i \in 1 .. N : texts[i] = ms[i].text
  BY <1>1 DEF Texts
<1>3. Spoken(ms) = FlattenSeq(texts)
  BY DEF Spoken, Texts
<1> HIDE DEF N, texts
<1>4. \A i \in 1 .. N : IsSeq(texts[i])
  BY <1>1, <1>2 DEF Said
<1>5. Parts(texts, N)
  BY <1>1, <1>2, <1>4, NumberedSeq DEF Parts
<1> QED
  BY <1>1, <1>3, <1>5, Laid DEF N, texts

(* The sentences of m sequences that hold one are at least m. *)
LEMMA AtLeast ==
    ASSUME NEW at, NEW seqs, NEW N \in Nat, Parts(seqs, N), Bounds(at, seqs, N),
           \A i \in 1 .. N : Len(seqs[i]) # 0
    PROVE  \A m \in 0 .. N : m <= at[m]
<1> DEFINE T == {m \in 0 .. N : ~ m <= at[m]}
<1>1. SUFFICES ASSUME T # {} PROVE FALSE
  OBVIOUS
<1>2. T \in SUBSET Nat
  OBVIOUS
<1>3. PICK m \in T : \A k \in T : m <= k
  <2> HIDE DEF T
  <2> QED
    BY <1>1, <1>2, Least
<1>4. m \in 0 .. N /\ ~ m <= at[m]
  OBVIOUS
<1>5. at[0] = 0 /\ \A k \in 0 .. N : at[k] \in Nat
  BY DEF Bounds
<1>6. m # 0
  BY <1>4, <1>5
<1>7. m \in 1 .. N /\ m - 1 \in 0 .. N /\ ~ m <= m - 1
  BY <1>4, <1>6
<1>8. m - 1 \notin T
  <2> HIDE DEF T
  <2> QED
    BY <1>3, <1>7
<1>9. m - 1 <= at[m - 1]
  BY <1>7, <1>8
<1>10. at[m] = at[m - 1] + Len(seqs[m]) /\ Len(seqs[m]) \in Nat /\ Len(seqs[m]) # 0
  BY <1>7, LengthOfSeq DEF Bounds, Parts
<1> HIDE DEF T
<1>11. at[m] \in Nat /\ at[m - 1] \in Nat
  BY <1>4, <1>5, <1>7
<1> QED
  BY <1>4, <1>7, <1>9, <1>10, <1>11

(* Where the first L sequences hold one sentence each, the m-th sentence   *)
(* is that of the m-th sequence.                                           *)
LEMMA OneEach ==
    ASSUME NEW at, NEW seqs, NEW N \in Nat, NEW L \in 0 .. N, Bounds(at, seqs, N),
           \A i \in 1 .. L : Len(seqs[i]) = 1
    PROVE  \A m \in 0 .. L : at[m] = m
<1> DEFINE T == {m \in 0 .. L : at[m] # m}
<1>1. SUFFICES ASSUME T # {} PROVE FALSE
  OBVIOUS
<1>2. T \in SUBSET Nat
  OBVIOUS
<1>3. PICK m \in T : \A k \in T : m <= k
  <2> HIDE DEF T
  <2> QED
    BY <1>1, <1>2, Least
<1>4. m \in 0 .. L /\ at[m] # m
  OBVIOUS
<1>5. at[0] = 0
  BY DEF Bounds
<1>6. m # 0
  BY <1>4, <1>5
<1>7. m \in 1 .. L /\ m \in 1 .. N /\ m - 1 \in 0 .. L /\ ~ m <= m - 1
  BY <1>4, <1>6
<1>8. m - 1 \notin T
  <2> HIDE DEF T
  <2> QED
    BY <1>3, <1>7
<1>9. at[m - 1] = m - 1
  BY <1>7, <1>8
<1>10. at[m] = at[m - 1] + Len(seqs[m]) /\ Len(seqs[m]) = 1
  BY <1>7 DEF Bounds
<1> HIDE DEF T
<1> QED
  BY <1>4, <1>7, <1>9, <1>10

(* Two mappings say no more than all do. *)
LEMMA TwoOfThem ==
    ASSUME NEW ms, Said(ms), NEW i \in DOMAIN ms, NEW j \in DOMAIN ms, i < j
    PROVE  /\ Len(Spoken(ms)) \in Nat /\ Len(ms[i].text) \in Nat /\ Len(ms[j].text) \in Nat
           /\ Len(ms[i].text) + Len(ms[j].text) <= Len(Spoken(ms))
<1> DEFINE N == Len(ms)
           texts == Texts(ms)
<1>1. N \in Nat /\ DOMAIN ms = 1 .. N
  BY LengthOfSeq DEF Said
<1>2. PICK at : Bounds(at, texts, N) /\ Covers(Spoken(ms), texts, N, at) /\ Parts(texts, N)
  BY SpokenAt
<1>3. /\ Len(texts[i]) = Len(ms[i].text) /\ Len(texts[j]) = Len(ms[j].text)
      /\ Len(ms[i].text) \in Nat /\ Len(ms[j].text) \in Nat
  BY LengthOfSeq DEF Said, Texts
<1>4. Len(Spoken(ms)) = at[N]
  BY <1>2 DEF Covers
<1> HIDE DEF N, texts
<1>5. i \in 1 .. N /\ j \in 1 .. N /\ i - 1 \in 0 .. N /\ j - 1 \in 0 .. N /\ i \in 0 .. N /\ j \in 0 .. N /\ N \in 0 .. N
  BY <1>1
<1>6. \A k \in 0 .. N : at[k] \in Nat
  BY <1>2 DEF Bounds
<1>7. at[i] = at[i - 1] + Len(texts[i]) /\ at[j] = at[j - 1] + Len(texts[j])
  BY <1>2, <1>5 DEF Bounds
<1>8. \A x, y \in 0 .. N : x <= y => at[x] <= at[y]
  BY <1>1, <1>2, Rising
<1>9. at[i] <= at[j - 1] /\ at[j] <= at[N]
  <2>1. i <= j - 1 /\ j <= N
    BY <1>1
  <2> QED
    BY <1>5, <1>8, <2>1
<1> DEFINE a == at[i - 1]
           b == at[i]
           c == at[j - 1]
           d == at[j]
           e == at[N]
           x == Len(ms[i].text)
           y == Len(ms[j].text)
<1>10. a \in Nat /\ b \in Nat /\ c \in Nat /\ d \in Nat /\ e \in Nat /\ x \in Nat /\ y \in Nat
  BY <1>3, <1>5, <1>6
<1>11. b = a + x /\ d = c + y /\ b <= c /\ d <= e /\ Len(Spoken(ms)) = e
  BY <1>3, <1>4, <1>7, <1>9
<1> HIDE DEF a, b, c, d, e, x, y
<1>12. x + y <= e
  BY <1>10, <1>11
<1> QED
  BY <1>10, <1>11, <1>12 DEF e, x, y

(* A pair of mappings says what its two mappings say. *)
LEMMA PairSays ==
    ASSUME NEW ms, Said(ms), Len(ms) = 2
    PROVE  Len(Spoken(ms)) = Len(ms[1].text) + Len(ms[2].text)
<1> DEFINE texts == Texts(ms)
<1>1. DOMAIN ms = 1 .. 2
  BY LengthOfSeq DEF Said
<1>2. PICK at : Bounds(at, texts, 2) /\ Covers(Spoken(ms), texts, 2, at)
  BY SpokenAt
<1>3. 1 \in DOMAIN ms /\ 2 \in DOMAIN ms
  BY <1>1
<1>4. Len(texts[1]) = Len(ms[1].text) /\ Len(texts[2]) = Len(ms[2].text) /\ Len(ms[1].text) \in Nat
  BY <1>3, LengthOfSeq DEF Said, Texts
<1>5. Len(Spoken(ms)) = at[2]
  BY <1>2 DEF Covers
<1> HIDE DEF texts
<1>6. at[0] = 0 /\ at[1] = at[1 - 1] + Len(texts[1]) /\ at[2] = at[2 - 1] + Len(texts[2])
  <2>1. 1 \in 1 .. 2 /\ 2 \in 1 .. 2
    OBVIOUS
  <2> QED
    BY <1>2, <2>1 DEF Bounds
<1>7. at[1] = Len(texts[1]) /\ at[2] = at[1] + Len(texts[2])
  BY <1>4, <1>6
<1> QED
  BY <1>4, <1>5, <1>7

-----------------------------------------------------------------------------
(* The deterministic mappings preserve the meaning of their document. *)

(* The only mapping with its nodes is the one they express. *)
LEMMA OnlyOne ==
    ASSUME NEW ms, IsSeq(ms), NEW nodes, NEW x \in DOMAIN ms, ms[x].nodes = nodes,
           \A i \in DOMAIN ms : ms[i].nodes = nodes => i = x
    PROVE  Expresses(ms, nodes) = {ms[x]}
<1>1. DOMAIN ms = 1 .. Len(ms) /\ Len(ms) \in Nat
  BY LengthOfSeq
<1>2. \A j \in 1 .. x - 1 : j \in DOMAIN ms /\ j # x
  BY <1>1
<1>3. \A j \in 1 .. x - 1 : ms[j].nodes # nodes
  BY <1>2
<1>4. {i \in DOMAIN ms : ms[i].nodes = nodes /\ \A j \in 1 .. i - 1 : ms[j].nodes # nodes} = {x}
  BY <1>3
<1> DEFINE earliest == {i \in DOMAIN ms : ms[i].nodes = nodes /\ \A j \in 1 .. i - 1 : ms[j].nodes # nodes}
<1>5. Expresses(ms, nodes) = {ms[i] : i \in earliest}
  BY DEF Expresses
<1>6. earliest = {x}
  BY <1>4
<1> HIDE DEF earliest
<1> QED
  BY <1>5, <1>6

(* The mapping of a statement expresses it, and that of each end of a      *)
(* relation the end.                                                       *)
LEMMA ExpressedBy ==
    ASSUME NEW doc \in Documents, WellFormed(doc), NEW ms, NEW p, NEW c, Mapped(doc, ms, p, c)
    PROVE  /\ \A k \in DOMAIN doc.statements :
                Expresses(ms, <<doc.statements[k].id>>) = {Primary(doc.statements[k])}
           /\ \A k \in DOMAIN doc.relations :
                /\ Expresses(ms, <<doc.relations[k].id, doc.relations[k].cause>>)
                     = {OfCause(doc, doc.relations[k])}
                /\ Expresses(ms, <<doc.relations[k].id, doc.relations[k].effect>>)
                     = {OfEffect(doc, doc.relations[k])}
<1>1. IsSeq(ms)
  BY DEF Mapped
<1>2. ASSUME NEW k \in DOMAIN doc.statements
      PROVE  Expresses(ms, <<doc.statements[k].id>>) = {Primary(doc.statements[k])}
  <2> DEFINE nodes == <<doc.statements[k].id>>
             x == p[k]
  <2>1. x \in DOMAIN ms /\ ms[x] = Primary(doc.statements[k])
    BY DEF Mapped
  <2>2. ms[x].nodes = nodes
    BY <2>1, NodesOf
  <2>3. \A i \in DOMAIN ms : ms[i].nodes = nodes => i = x
    BY MappedOnce
  <2> HIDE DEF nodes, x
  <2>4. Expresses(ms, nodes) = {ms[x]}
    BY <1>1, <2>1, <2>2, <2>3, OnlyOne
  <2> QED
    BY <2>1, <2>4 DEF nodes
<1>3. ASSUME NEW k \in DOMAIN doc.relations
      PROVE  Expresses(ms, <<doc.relations[k].id, doc.relations[k].cause>>)
               = {OfCause(doc, doc.relations[k])}
  <2> DEFINE nodes == <<doc.relations[k].id, doc.relations[k].cause>>
             x == c[k]
  <2>1. x \in DOMAIN ms /\ ms[x] = OfCause(doc, doc.relations[k])
    BY DEF Mapped
  <2>2. ms[x].nodes = nodes
    BY <2>1, NodesOf
  <2>3. \A i \in DOMAIN ms : ms[i].nodes = nodes => i = x
    BY MappedOnce
  <2> HIDE DEF nodes, x
  <2>4. Expresses(ms, nodes) = {ms[x]}
    BY <1>1, <2>1, <2>2, <2>3, OnlyOne
  <2> QED
    BY <2>1, <2>4 DEF nodes
<1>4. ASSUME NEW k \in DOMAIN doc.relations
      PROVE  Expresses(ms, <<doc.relations[k].id, doc.relations[k].effect>>)
               = {OfEffect(doc, doc.relations[k])}
  <2> DEFINE nodes == <<doc.relations[k].id, doc.relations[k].effect>>
             x == c[k] + 1
  <2>1. x \in DOMAIN ms /\ ms[x] = OfEffect(doc, doc.relations[k])
    BY DEF Mapped
  <2>2. ms[x].nodes = nodes
    <3>1. OfEffect(doc, doc.relations[k]).nodes = nodes
      BY NodesOf
    <3> QED
      BY <2>1, <3>1
  <2>3. \A i \in DOMAIN ms : ms[i].nodes = nodes => i = x
    BY MappedOnce
  <2> HIDE DEF nodes, x
  <2>4. Expresses(ms, nodes) = {ms[x]}
    BY <1>1, <2>1, <2>2, <2>3, OnlyOne
  <2> QED
    BY <2>1, <2>4 DEF nodes
<1> QED
  BY <1>2, <1>3, <1>4

(* A role labels the first sentence of what a statement says. *)
LEMMA Labelled ==
    ASSUME NEW role, NEW contents
    PROVE  Says(role, contents) = [Says("", contents) EXCEPT ![1].role = role]
  BY DEF Says

(* No mapping is without nodes. *)
LEMMA NodesAre ==
    ASSUME NEW doc \in Documents, NEW ms, NEW p, NEW c, Mapped(doc, ms, p, c), NEW i \in DOMAIN ms
    PROVE  ms[i].nodes # <<>>
<1>1. \A a, b : <<a>> # <<>> /\ <<a, b>> # <<>>
  <2> TAKE a, b
  <2>1. Len(<<a>>) = 1 /\ Len(<<a, b>>) = 2 /\ Len(<<>>) = 0
    OBVIOUS
  <2> QED
    BY <2>1
<1>2. \E a, b : ms[i].nodes = <<a>> \/ ms[i].nodes = <<a, b>>
  <2>1. CASE \E m \in DOMAIN doc.statements : i = p[m]
    <3>1. PICK m \in DOMAIN doc.statements : i = p[m]
      BY <2>1
    <3>2. ms[i] = Primary(doc.statements[m])
      BY <3>1 DEF Mapped
    <3>3. ms[i].nodes = <<doc.statements[m].id>>
      BY <3>2, NodesOf
    <3> QED
      BY <3>3
  <2>2. CASE \E m \in DOMAIN doc.statements : \E j \in DOMAIN doc.statements[m].hazards :
              i < p[m] /\ ms[i] = OfHazard(doc.statements[m], j)
    <3>1. PICK m \in DOMAIN doc.statements : \E j : ms[i] = OfHazard(doc.statements[m], j)
      BY <2>2
    <3>2. PICK j : ms[i] = OfHazard(doc.statements[m], j)
      BY <3>1
    <3> QED
      BY <3>2, NodesOf
  <2>3. CASE \E m \in DOMAIN doc.relations : i = c[m] \/ i = c[m] + 1
    <3>1. PICK m \in DOMAIN doc.relations : i = c[m] \/ i = c[m] + 1
      BY <2>3
    <3>2. ms[i] = OfCause(doc, doc.relations[m]) \/ ms[i] = OfEffect(doc, doc.relations[m])
      BY <3>1 DEF Mapped
    <3> DEFINE r == doc.relations[m]
    <3>3. OfCause(doc, r).nodes = <<r.id, r.cause>> /\ OfEffect(doc, r).nodes = <<r.id, r.effect>>
      BY NodesOf
    <3> QED
      BY <3>2, <3>3
  <2> QED
    BY <2>1, <2>2, <2>3 DEF Mapped
<1> QED
  BY <1>1, <1>2

(* The mappings of a document preserve its meaning, where the validator    *)
(* spells the quantities of its statements as the realizer does.           *)
LEMMA Preserves ==
    ASSUME NEW doc \in Documents, WellFormed(doc), NEW ms, NEW p, NEW c, Mapped(doc, ms, p, c),
           \A s \in Range(doc.statements) : s.renders
    PROVE  SemanticallyPreserved(doc, ms)
<1>1. ASSUME NEW m \in Range(ms) PROVE m.nodes # <<>>
  <2>1. PICK i \in DOMAIN ms : m = ms[i]
    BY DEF Range
  <2> QED
    BY <2>1, NodesAre
<1>2. ASSUME NEW s \in Range(doc.statements) PROVE StatementPreserved(ms, s)
  <2>1. PICK k \in DOMAIN doc.statements : s = doc.statements[k]
    BY DEF Range
  <2>2. Expresses(ms, <<s.id>>) = {Primary(s)}
    BY <2>1, ExpressedBy
  <2>3. Primary(s).features = <<"statement", s>>
    BY FeaturesOf
  <2>4. ASSUME NEW h \in Range(s.hazards)
        PROVE  \E m \in Range(ms) : h.id \in Range(m.nodes) /\ m.features = <<"statement", s>>
    <3>1. PICK j \in DOMAIN s.hazards : h = s.hazards[j]
      BY DEF Range
    <3>2. PICK i \in DOMAIN ms : ms[i] = OfHazard(s, j)
      BY <2>1, <3>1 DEF Mapped
    <3>3. ms[i].nodes = <<s.id, h.id>> /\ ms[i].features = <<"statement", s>>
      BY <3>1, <3>2, NodesOf, FeaturesOf
    <3>4. h.id \in Range(<<s.id, h.id>>)
      BY DEF Range
    <3>5. ms[i] \in Range(ms)
      BY DEF Range
    <3> QED
      BY <3>3, <3>4, <3>5
  <2> QED
    BY <2>2, <2>3, <2>4 DEF StatementPreserved
<1>3. ASSUME NEW r \in Range(doc.relations) PROVE RelationPreserved(ms, r)
  <2>1. PICK k \in DOMAIN doc.relations : r = doc.relations[k]
    BY DEF Range
  <2>2. /\ Expresses(ms, <<r.id, r.cause>>) = {OfCause(doc, r)}
        /\ Expresses(ms, <<r.id, r.effect>>) = {OfEffect(doc, r)}
    BY <2>1, ExpressedBy
  <2>3. PICK a \in DOMAIN doc.statements : r.cause = doc.statements[a].id
    BY <2>1, RelationIs
  <2>4. PICK e \in DOMAIN doc.statements : r.effect = doc.statements[e].id
    BY <2>1, RelationIs
  <2> DEFINE s == doc.statements[a]
             t == doc.statements[e]
  <2>5. Expresses(ms, <<r.cause>>) = {Primary(s)} /\ Expresses(ms, <<r.effect>>) = {Primary(t)}
    BY <2>3, <2>4, ExpressedBy
  <2>6. StatementContents(doc, r.cause) = s.contents /\ StatementContents(doc, r.effect) = t.contents
    BY <2>3, <2>4, ContentsOf
  <2> HIDE DEF s, t
  <2>7. OfCause(doc, r).text = Says("Cause", StatementContents(doc, r.cause)) /\ Primary(s).text = Says("", s.contents)
    BY TextsOf
  <2>8. OfEffect(doc, r).text = Says("Effect", StatementContents(doc, r.effect)) /\ Primary(t).text = Says("", t.contents)
    BY TextsOf
  <2>9. OfCause(doc, r).text = [Primary(s).text EXCEPT ![1].role = "Cause"]
    <3>1. Says("Cause", s.contents) = [Says("", s.contents) EXCEPT ![1].role = "Cause"]
      BY Labelled
    <3> QED
      BY <2>6, <2>7, <3>1
  <2>10. OfEffect(doc, r).text = [Primary(t).text EXCEPT ![1].role = "Effect"]
    <3>1. Says("Effect", t.contents) = [Says("", t.contents) EXCEPT ![1].role = "Effect"]
      BY Labelled
    <3> QED
      BY <2>6, <2>8, <3>1
  <2>11. /\ OfCause(doc, r).features = <<"relation", r, "cause">>
         /\ OfEffect(doc, r).features = <<"relation", r, "effect">>
    BY FeaturesOf
  <2> QED
    BY <2>2, <2>5, <2>9, <2>10, <2>11 DEF RelationPreserved
<1> QED
  BY <1>1, <1>2, <1>3 DEF SemanticallyPreserved

-----------------------------------------------------------------------------
(* No paragraph of a relation is longer than that of the statements. *)

(* The mappings of the statements alone. *)
LEMMA StatementsFirst ==
    ASSUME NEW doc \in Documents, WellFormed(doc)
    PROVE  \E q : /\ Said(FlattenSeq(StatementParts(doc)))
                  /\ \A k \in DOMAIN doc.statements :
                       /\ q[k] \in DOMAIN FlattenSeq(StatementParts(doc))
                       /\ FlattenSeq(StatementParts(doc))[q[k]] = Primary(doc.statements[k])
<1> DEFINE N == Len(doc.statements)
           A == StatementParts(doc)
           fa == FlattenSeq(A)
           fb == FlattenSeq(RelationParts(doc))
           ms == DeterministicMappings(doc)
<1>1. N \in Nat /\ DOMAIN doc.statements = 1 .. N
  BY DocumentIs, LengthOfSeq
<1>2. PICK at : Bounds(at, A, N) /\ Covers(fa, A, N, at) /\ Parts(A, N)
  BY StatementsMapped
<1>3. IsSeq(fb)
  BY RelationsMapped DEF Covers
<1>4. After(ms, fa, fb)
  BY DEF After, DeterministicMappings, StatementParts, RelationParts
<1>5. PICK p : \E c : Mapped(doc, ms, p, c)
  BY Structure
<1>6. PICK c : Mapped(doc, ms, p, c)
  BY <1>5
<1>7. \A i \in DOMAIN ms : IsSeq(ms[i].text)
  <2> HIDE DEF ms
  <2> QED
    BY <1>6, TextsAre
<1>8. \A k \in 1 .. N :
        /\ Len(A[k]) = Len(doc.statements[k].hazards) + 1
        /\ A[k][Len(doc.statements[k].hazards) + 1] = Primary(doc.statements[k])
        /\ Len(doc.statements[k].hazards) \in Nat
  <2> TAKE k \in 1 .. N
  <2>1. A[k] = StatementMappings(doc.statements[k]) /\ IsSeq(doc.statements[k].hazards)
    BY <1>1, DocumentIs DEF StatementParts
  <2> QED
    BY <2>1, OfStatement, LengthOfSeq
<1>9. IsSeq(fa)
  BY <1>2 DEF Covers
<1>10. /\ \A k \in 1 .. N : \A j \in 1 .. Len(A[k]) :
             at[k - 1] + j \in 1 .. at[N] /\ fa[at[k - 1] + j] = A[k][j]
       /\ Len(fa) = at[N]
  BY <1>2 DEF Covers
<1> HIDE DEF N, A, fa, fb, ms
<1>11. Said(fa)
  <2>1. IsSeq(fa) /\ IsSeq(fb) /\ After(ms, fa, fb)
    BY <1>3, <1>4, <1>9
  <2>2. IsSeq(ms) /\ Len(ms) = Len(fa) + Len(fb) /\ \A i \in 1 .. Len(fa) : ms[i] = fa[i]
    BY <2>1, ConcatSeq
  <2>3. /\ Len(fa) \in Nat /\ DOMAIN fa = 1 .. Len(fa)
        /\ Len(fb) \in Nat
        /\ DOMAIN ms = 1 .. Len(ms)
    BY <1>3, <1>9, <2>2, LengthOfSeq
  <2>4. \A i \in DOMAIN fa : i \in DOMAIN ms /\ ms[i] = fa[i]
    BY <2>2, <2>3
  <2> QED
    BY <1>7, <1>9, <2>4 DEF Said
<1>12. ASSUME NEW k \in 1 .. N
       PROVE  at[k] \in DOMAIN fa /\ fa[at[k]] = Primary(doc.statements[k])
  <2> DEFINE h == Len(doc.statements[k].hazards)
             x == at[k - 1]
  <2>0. k - 1 \in 0 .. N
    BY <1>1
  <2>1. h \in Nat /\ Len(A[k]) = h + 1 /\ x \in Nat /\ at[k] = x + (h + 1) /\ A[k][h + 1] = Primary(doc.statements[k])
    BY <1>2, <1>8, <2>0 DEF Bounds
  <2> HIDE DEF h, x
  <2>2. h + 1 \in 1 .. Len(A[k])
    BY <2>1
  <2>3. x + (h + 1) \in 1 .. at[N] /\ fa[x + (h + 1)] = A[k][h + 1]
    BY <1>10, <2>2 DEF x
  <2>4. DOMAIN fa = 1 .. at[N]
    BY <1>9, <1>10, LengthOfSeq
  <2> QED
    BY <2>1, <2>3, <2>4
<1>13. \A k \in DOMAIN doc.statements : at[k] \in DOMAIN fa /\ fa[at[k]] = Primary(doc.statements[k])
  BY <1>1, <1>12
<1> QED
  BY <1>11, <1>13 DEF fa, A

(* What the paragraphs of a document are. *)
LEMMA ParagraphsAre ==
    ASSUME NEW doc \in Documents
    PROVE  /\ Paragraphs(doc)[1] = Spoken(FlattenSeq(StatementParts(doc)))
           /\ \A i \in DOMAIN Paragraphs(doc) :
                i = 1 \/ \E k \in DOMAIN doc.relations :
                           Paragraphs(doc)[i] = Spoken(RelationMappings(doc, doc.relations[k]))
<1> DEFINE R == Len(doc.relations)
           one == <<Spoken(FlattenSeq(StatementParts(doc)))>>
           rest == [k \in DOMAIN doc.relations |-> Spoken(RelationMappings(doc, doc.relations[k]))]
           all == Paragraphs(doc)
<1>1. R \in Nat /\ DOMAIN doc.relations = 1 .. R
  BY DocumentIs, LengthOfSeq
<1>2. After(all, one, rest)
  BY DEF After, Paragraphs, StatementParts
<1>3. IsSeq(one) /\ Len(one) = 1 /\ one[1] = Spoken(FlattenSeq(StatementParts(doc)))
  BY DEF IsSeq, Range
<1>4. /\ rest = [k \in 1 .. R |-> rest[k]]
      /\ \A k \in 1 .. R : rest[k] = Spoken(RelationMappings(doc, doc.relations[k]))
  BY <1>1
<1> HIDE DEF R, one, rest, all
<1>5. IsSeq(rest) /\ Len(rest) = R
  BY <1>1, <1>4, NumberedSeq
<1>6. /\ IsSeq(all)
      /\ Len(all) = Len(one) + Len(rest)
      /\ \A i \in 1 .. Len(one) : all[i] = one[i]
      /\ \A i \in 1 .. Len(rest) : all[Len(one) + i] = rest[i]
  <2>1. IsSeq(one) /\ IsSeq(rest) /\ After(all, one, rest)
    BY <1>2, <1>3, <1>5
  <2> QED
    BY <2>1, ConcatSeq
<1>7. DOMAIN all = 1 .. 1 + R
  BY <1>3, <1>5, <1>6, LengthOfSeq
<1>8. all[1] = one[1]
  <2>1. 1 \in 1 .. Len(one)
    BY <1>3
  <2> QED
    BY <1>6, <2>1
<1>9. ASSUME NEW i \in DOMAIN all, i # 1
      PROVE  \E k \in DOMAIN doc.relations : all[i] = Spoken(RelationMappings(doc, doc.relations[k]))
  <2>1. i - 1 \in 1 .. R /\ 1 + (i - 1) = i
    BY <1>1, <1>7, <1>9
  <2>2. all[1 + (i - 1)] = rest[i - 1]
    BY <1>3, <1>5, <1>6, <2>1
  <2> QED
    BY <1>1, <1>4, <2>1, <2>2
<1> QED
  BY <1>3, <1>8, <1>9 DEF all

(* A relation says again what two statements said: its paragraph is no     *)
(* longer than theirs.                                                     *)
LEMMA ParagraphsFit ==
    ASSUME NEW doc \in Documents, WellFormed(doc), NEW i \in DOMAIN Paragraphs(doc)
    PROVE  /\ Len(Paragraphs(doc)[1]) \in Nat /\ Len(Paragraphs(doc)[i]) \in Nat
           /\ Len(Paragraphs(doc)[i]) <= Len(Paragraphs(doc)[1])
<1> DEFINE fa == FlattenSeq(StatementParts(doc))
<1>1. PICK q : /\ Said(fa)
               /\ \A k \in DOMAIN doc.statements : q[k] \in DOMAIN fa /\ fa[q[k]] = Primary(doc.statements[k])
  BY StatementsFirst
<1>2. /\ Paragraphs(doc)[1] = Spoken(fa)
      /\ i = 1 \/ \E k \in DOMAIN doc.relations :
                    Paragraphs(doc)[i] = Spoken(RelationMappings(doc, doc.relations[k]))
  BY ParagraphsAre
<1> HIDE DEF fa
<1>3. Len(Spoken(fa)) \in Nat
  <2>1. \E at : Bounds(at, Texts(fa), Len(fa)) /\ Covers(Spoken(fa), Texts(fa), Len(fa), at)
    BY <1>1, SpokenAt
  <2> QED
    BY <2>1, LengthOfSeq DEF Covers
<1>4. CASE i = 1
  BY <1>2, <1>3, <1>4
<1>5. CASE i # 1
  <2>1. PICK k \in DOMAIN doc.relations :
               Paragraphs(doc)[i] = Spoken(RelationMappings(doc, doc.relations[k]))
    BY <1>2, <1>5
  <2> DEFINE r == doc.relations[k]
             pair == RelationMappings(doc, r)
  <2>2. IsSeq(pair) /\ Len(pair) = 2 /\ pair[1] = OfCause(doc, r) /\ pair[2] = OfEffect(doc, r)
    BY OfRelation
  <2>3. PICK a \in DOMAIN doc.statements : r.cause = doc.statements[a].id
    BY RelationIs
  <2>4. PICK e \in DOMAIN doc.statements : r.effect = doc.statements[e].id
    BY RelationIs
  <2>5. a # e
    BY <2>3, <2>4, RelationIs
  <2> DEFINE s == doc.statements[a]
             t == doc.statements[e]
  <2>6. StatementContents(doc, r.cause) = s.contents /\ StatementContents(doc, r.effect) = t.contents
    BY <2>3, <2>4, ContentsOf
  <2>7. IsSeq(s.contents) /\ IsSeq(t.contents)
    BY DocumentIs
  <2>8. q[a] # q[e]
    <3>1. fa[q[a]] = Primary(s) /\ fa[q[e]] = Primary(t)
      BY <1>1
    <3>2. Primary(s).nodes = <<s.id>> /\ Primary(t).nodes = <<t.id>>
      BY NodesOf
    <3>3. s.id # t.id
      BY <2>5, IdsDiffer
    <3> HIDE DEF s, t
    <3>4. <<s.id>> # <<t.id>>
      BY <3>3, Pairs
    <3> QED
      BY <3>1, <3>2, <3>4
  <2>9. q[a] \in DOMAIN fa /\ q[e] \in DOMAIN fa /\ fa[q[a]] = Primary(s) /\ fa[q[e]] = Primary(t)
    BY <1>1
  <2> HIDE DEF s, t, r, pair
  <2>10. /\ OfCause(doc, r).text = Says("Cause", StatementContents(doc, r.cause))
         /\ OfEffect(doc, r).text = Says("Effect", StatementContents(doc, r.effect))
    BY TextsOf
  <2>11. pair[1].text = Says("Cause", s.contents) /\ pair[2].text = Says("Effect", t.contents)
    BY <2>2, <2>6, <2>10
  <2>12. fa[q[a]].text = Says("", s.contents) /\ fa[q[e]].text = Says("", t.contents)
    BY <2>9, TextsOf
  <2>13. /\ IsSeq(pair[1].text) /\ Len(pair[1].text) = Len(s.contents)
         /\ IsSeq(pair[2].text) /\ Len(pair[2].text) = Len(t.contents)
         /\ Len(fa[q[a]].text) = Len(s.contents)
         /\ Len(fa[q[e]].text) = Len(t.contents)
    <3>1. IsSeq(pair[1].text) /\ Len(pair[1].text) = Len(s.contents)
      BY <2>7, <2>11, SaysAre
    <3>2. IsSeq(pair[2].text) /\ Len(pair[2].text) = Len(t.contents)
      BY <2>7, <2>11, SaysAre
    <3>3. Len(fa[q[a]].text) = Len(s.contents)
      <4> DEFINE said == fa[q[a]].text
      <4>1. said = Says("", s.contents)
        BY <2>12
      <4> HIDE DEF said
      <4>2. Len(said) = Len(s.contents)
        BY <2>7, <4>1, SaysAre
      <4> QED
        BY <4>2 DEF said
    <3>4. Len(fa[q[e]].text) = Len(t.contents)
      <4> DEFINE said == fa[q[e]].text
      <4>1. said = Says("", t.contents)
        BY <2>12
      <4> HIDE DEF said
      <4>2. Len(said) = Len(t.contents)
        BY <2>7, <4>1, SaysAre
      <4> QED
        BY <4>2 DEF said
    <3> QED
      BY <3>1, <3>2, <3>3, <3>4
  <2>14. Said(pair)
    <3>1. DOMAIN pair = 1 .. 2
      BY <2>2, LengthOfSeq
    <3>2. \A j \in 1 .. 2 : j = 1 \/ j = 2
      OBVIOUS
    <3> QED
      BY <2>2, <2>13, <3>1, <3>2 DEF Said
  <2> DEFINE x == Len(s.contents)
             y == Len(t.contents)
             z == Len(Spoken(fa))
  <2>15. Len(Spoken(pair)) = x + y
    BY <2>2, <2>13, <2>14, PairSays
  <2>16. x \in Nat /\ y \in Nat
    BY <2>7, LengthOfSeq
  <2>17. q[a] \in Nat /\ q[e] \in Nat
    <3>1. DOMAIN fa = 1 .. Len(fa)
      BY <1>1, LengthOfSeq DEF Said
    <3> QED
      BY <2>9, <3>1
  <2>18. x + y <= z \/ y + x <= z
    <3>1. CASE q[a] < q[e]
      <4>1. Len(fa[q[a]].text) + Len(fa[q[e]].text) <= Len(Spoken(fa))
        BY <1>1, <2>9, <3>1, TwoOfThem
      <4> QED
        BY <2>13, <4>1
    <3>2. CASE q[e] < q[a]
      <4>1. Len(fa[q[e]].text) + Len(fa[q[a]].text) <= Len(Spoken(fa))
        BY <1>1, <2>9, <3>2, TwoOfThem
      <4> QED
        BY <2>13, <4>1
    <3>3. q[a] < q[e] \/ q[e] < q[a]
      BY <2>8, <2>17
    <3> QED
      BY <3>1, <3>2, <3>3
  <2>19. Paragraphs(doc)[i] = Spoken(pair) /\ Paragraphs(doc)[1] = Spoken(fa)
    BY <1>2, <2>1 DEF pair, r
  <2>20. z \in Nat
    BY <1>3
  <2> HIDE DEF x, y, z
  <2>21. x + y \in Nat /\ x + y <= z
    BY <2>16, <2>18, <2>20
  <2> QED
    BY <2>15, <2>19, <2>20, <2>21 DEF z
<1> QED
  BY <1>4, <1>5

-----------------------------------------------------------------------------
(* What the aligner makes of a given text. *)

(* A sequence that agrees with a longer one is a prefix of it. *)
LEMMA PrefixOf ==
    ASSUME NEW s, NEW t, IsSeq(s), IsSeq(t), Len(s) <= Len(t), \A i \in 1 .. Len(s) : s[i] = t[i]
    PROVE  IsPrefix(s, t)
<1> DEFINE n == Len(s)
           u == SubSeq(s, 1, n)
           v == SubSeq(t, 1, n)
           S == Range(s)
           T == Range(t)
<1>1. n \in Nat /\ Len(t) \in Nat
  BY LengthOfSeq
<1>2. s \in Seq(S) /\ t \in Seq(T)
  BY DEF IsSeq
<1> HIDE DEF S, T
<1>3. /\ u \in Seq(S) /\ Len(u) = n
      /\ \A i \in 1 .. n : u[i] = s[i]
  BY <1>1, <1>2
<1>4. /\ v \in Seq(T) /\ Len(v) = n
      /\ \A i \in 1 .. n : v[i] = t[i]
  BY <1>1, <1>2
<1> HIDE DEF u, v
<1>5. u = v
  <2>1. DOMAIN u = 1 .. n /\ u = [i \in DOMAIN u |-> u[i]] /\ DOMAIN v = 1 .. n /\ v = [i \in DOMAIN v |-> v[i]]
    BY <1>3, <1>4
  <2>2. \A i \in 1 .. n : u[i] = v[i]
    BY <1>3, <1>4
  <2> HIDE DEF n
  <2> QED
    BY <2>1, <2>2
<1> QED
  BY <1>5 DEF IsPrefix, u, v

(* Normalizing keeps every role and content, in their order. *)
LEMMA NormalizedIs ==
    ASSUME NEW s, IsSeq(s), NEW said, said = Normalized(s)
    PROVE  /\ IsSeq(said) /\ Len(said) = Len(s)
           /\ \A i \in 1 .. Len(s) : said[i] = [role |-> s[i].role, content |-> s[i].content]
<1>1. Len(s) \in Nat /\ DOMAIN s = 1 .. Len(s)
  BY LengthOfSeq
<1>2. DOMAIN said = 1 .. Len(s) /\ said = [i \in DOMAIN said |-> said[i]]
  BY <1>1 DEF Normalized
<1>3. said = [i \in 1 .. Len(s) |-> said[i]]
  BY <1>2
<1>4. \A i \in 1 .. Len(s) : said[i] = [role |-> s[i].role, content |-> s[i].content]
  BY <1>1 DEF Normalized
<1> QED
  BY <1>1, <1>3, <1>4, NumberedSeq

(* A text that reads like a single sentence is one. *)
LEMMA ReadsLikeOne ==
    ASSUME NEW t, IsSeq(t), NEW g, Normalized(<<g>>) = Normalized(t)
    PROVE  /\ Len(t) = 1
           /\ [role |-> g.role, content |-> g.content] = [role |-> t[1].role, content |-> t[1].content]
<1> DEFINE one == <<g>>
           a == Normalized(one)
           b == Normalized(t)
           n == Len(t)
<1>1. IsSeq(one) /\ Len(one) = 1 /\ one[1] = g
  BY DEF IsSeq, Range
<1>2. n \in Nat
  BY LengthOfSeq
<1> HIDE DEF one, n
<1>3. /\ IsSeq(a) /\ Len(a) = Len(one)
      /\ \A i \in 1 .. Len(one) : a[i] = [role |-> one[i].role, content |-> one[i].content]
  BY <1>1, NormalizedIs
<1>4. /\ IsSeq(b) /\ Len(b) = n
      /\ \A i \in 1 .. n : b[i] = [role |-> t[i].role, content |-> t[i].content]
  BY NormalizedIs DEF n
<1>5. a = b
  BY DEF one
<1> HIDE DEF a, b
<1>6. n = 1
  BY <1>1, <1>3, <1>4, <1>5
<1>7. 1 \in 1 .. Len(one) /\ 1 \in 1 .. n
  BY <1>1, <1>6
<1>8. a[1] = [role |-> g.role, content |-> g.content]
  BY <1>1, <1>3, <1>7
<1>9. b[1] = [role |-> t[1].role, content |-> t[1].content]
  BY <1>4, <1>7
<1> QED
  BY <1>5, <1>6, <1>8, <1>9 DEF n

(* The aligner replaces the text of a mapping and keeps its nodes          *)
(* (alignment.py:74-82).                                                   *)
LEMMA KeepsNodes ==
    ASSUME NEW doc, NEW ms, NEW p, NEW c, Mapped(doc, ms, p, c), NEW i \in DOMAIN ms, NEW z
    PROVE  [ms[i] EXCEPT !.text = z].nodes = ms[i].nodes
<1>1. \A s : [Primary(s) EXCEPT !.text = z].nodes = Primary(s).nodes
  BY DEF Primary
<1>2. \A s, j : [OfHazard(s, j) EXCEPT !.text = z].nodes = OfHazard(s, j).nodes
  BY DEF OfHazard
<1>3. \A r : [OfCause(doc, r) EXCEPT !.text = z].nodes = OfCause(doc, r).nodes
  BY DEF OfCause
<1>4. \A r : [OfEffect(doc, r) EXCEPT !.text = z].nodes = OfEffect(doc, r).nodes
  BY DEF OfEffect
<1>5. CASE \E m \in DOMAIN doc.statements : i = p[m]
  BY <1>1, <1>5 DEF Mapped
<1>6. CASE \E m \in DOMAIN doc.statements : \E j \in DOMAIN doc.statements[m].hazards :
              i < p[m] /\ ms[i] = OfHazard(doc.statements[m], j)
  <2>1. PICK m \in DOMAIN doc.statements : \E j : ms[i] = OfHazard(doc.statements[m], j)
    BY <1>6
  <2>2. PICK j : ms[i] = OfHazard(doc.statements[m], j)
    BY <2>1
  <2> QED
    BY <1>2, <2>2
<1>7. CASE \E m \in DOMAIN doc.relations : i = c[m] \/ i = c[m] + 1
  <2>1. PICK m \in DOMAIN doc.relations : i = c[m] \/ i = c[m] + 1
    BY <1>7
  <2>2. ms[i] = OfCause(doc, doc.relations[m]) \/ ms[i] = OfEffect(doc, doc.relations[m])
    BY <2>1 DEF Mapped
  <2> QED
    BY <1>3, <1>4, <2>2
<1> QED
  BY <1>5, <1>6, <1>7 DEF Mapped

(* What ValidatedTextIsFaithful says of an accepted text. *)
Faithful(doc, sentences) ==
    LET said == Normalized(sentences)
        expected == DeterministicMappings(doc)
    IN /\ IsPrefix(said, Normalized(Spoken(expected)))
       /\ \A i \in Len(said) + 1 .. Len(expected) :
            \E s \in Range(doc.statements) : Optional(s) /\ expected[i].features = <<"statement", s>>

(* No mapping has these nodes. *)
LEMMA NotExpressed ==
    ASSUME NEW ms, NEW nodes, \A x \in DOMAIN ms : ms[x].nodes # nodes
    PROVE  Expresses(ms, nodes) = {}
  BY DEF Expresses

(* The mappings of a document, whose statements are at p and relations at  *)
(* c, and what they say.                                                   *)
Reference(doc, p, c, at) ==
    LET ms == DeterministicMappings(doc) IN
    /\ Mapped(doc, ms, p, c)
    /\ Said(ms)
    /\ \A i \in DOMAIN ms : Len(ms[i].text) # 0
    /\ Bounds(at, Texts(ms), Len(ms))
    /\ Covers(Spoken(ms), Texts(ms), Len(ms), at)
    /\ Parts(Texts(ms), Len(ms))

(* Every well-formed document has such mappings. *)
LEMMA ReferenceIs ==
    ASSUME NEW doc \in Documents, WellFormed(doc)
    PROVE  \E p, c, at : Reference(doc, p, c, at)
<1> DEFINE ms == DeterministicMappings(doc)
<1>1. PICK p, c : Mapped(doc, ms, p, c)
  BY Structure
<1> HIDE DEF ms
<1>2. Said(ms) /\ \A i \in DOMAIN ms : Len(ms[i].text) # 0
  BY <1>1, TextsAre DEF Mapped, Said
<1>3. PICK at : /\ Bounds(at, Texts(ms), Len(ms))
                /\ Covers(Spoken(ms), Texts(ms), Len(ms), at)
                /\ Parts(Texts(ms), Len(ms))
  BY <1>2, SpokenAt
<1>4. Reference(doc, p, c, at)
  BY <1>1, <1>2, <1>3 DEF Reference, ms
<1> QED
  BY <1>4

(* The deterministic text says all of itself. *)
LEMMA ReferenceIsFaithful ==
    ASSUME NEW doc \in Documents, WellFormed(doc)
    PROVE  Faithful(doc, Spoken(DeterministicMappings(doc)))
<1> DEFINE ms == DeterministicMappings(doc)
           spoken == Spoken(ms)
           said == Normalized(spoken)
           N == Len(ms)
           texts == Texts(ms)
<1>1. PICK p, c, at : Reference(doc, p, c, at)
  BY ReferenceIs
<1>2. /\ Said(ms) /\ \A i \in DOMAIN ms : Len(ms[i].text) # 0
      /\ Bounds(at, texts, N) /\ Covers(spoken, texts, N, at) /\ Parts(texts, N)
  BY <1>1 DEF Reference
<1> HIDE DEF ms
<1>3. N \in Nat /\ DOMAIN ms = 1 .. N
  BY <1>2, LengthOfSeq DEF Said
<1>4. \A i \in 1 .. N : Len(texts[i]) # 0
  BY <1>2, <1>3 DEF Texts
<1>5. IsSeq(spoken) /\ Len(spoken) = at[N]
  BY <1>2 DEF Covers
<1> HIDE DEF N, texts, spoken
<1>6. N \in 0 .. N
  BY <1>3
<1>7. N <= at[N]
  BY <1>2, <1>3, <1>4, <1>6, AtLeast
<1>8. IsSeq(said) /\ Len(said) = Len(spoken)
  BY <1>5, NormalizedIs
<1> HIDE DEF said
<1>9. Len(said) \in Nat /\ N <= Len(said)
  BY <1>5, <1>7, <1>8, LengthOfSeq
<1>10. IsPrefix(said, said)
  BY <1>8, <1>9, PrefixOf
<1>11. Len(said) + 1 .. N = {}
  BY <1>3, <1>9
<1> QED
  BY <1>10, <1>11 DEF Faithful, said, spoken, N, ms

(* The sentences of a text, as the aligner matched them to the mappings of *)
(* the document.                                                           *)
Matched(ms, expected, sentences) ==
    ms = [i \in DOMAIN sentences |->
            LET sentence == sentences[i] IN
            IF i \in DOMAIN expected /\ Normalized(<<sentence>>) = Normalized(expected[i].text)
            THEN [expected[i] EXCEPT !.text = <<sentence>>]
            ELSE Unmatched(sentence)]

(* Every sentence of a text that preserves the meaning is matched, with    *)
(* the mapping at its place, which has no other sentence.                  *)
LEMMA MatchedIs ==
    ASSUME NEW doc, NEW expected, NEW p, NEW c, Mapped(doc, expected, p, c),
           \A i \in DOMAIN expected : IsSeq(expected[i].text),
           NEW sentences, NEW ms, Matched(ms, expected, sentences),
           \A m \in Range(ms) : m.nodes # <<>>
    PROVE  /\ DOMAIN ms = DOMAIN sentences
           /\ \A i \in DOMAIN sentences :
                /\ i \in DOMAIN expected /\ ms[i].nodes = expected[i].nodes
                /\ Len(expected[i].text) = 1
                /\ [role |-> sentences[i].role, content |-> sentences[i].content]
                     = [role |-> expected[i].text[1].role, content |-> expected[i].text[1].content]
<1>1. DOMAIN ms = DOMAIN sentences
  BY DEF Matched
<1>2. ASSUME NEW i \in DOMAIN sentences
      PROVE  /\ i \in DOMAIN expected /\ ms[i].nodes = expected[i].nodes
             /\ Normalized(<<sentences[i]>>) = Normalized(expected[i].text)
  <2>1. ms[i] \in Range(ms)
    BY <1>1 DEF Range
  <2>2. ms[i].nodes # <<>>
    BY <2>1
  <2>3. Unmatched(sentences[i]).nodes = <<>>
    BY DEF Unmatched
  <2>4. ms[i] = IF i \in DOMAIN expected /\ Normalized(<<sentences[i]>>) = Normalized(expected[i].text)
                THEN [expected[i] EXCEPT !.text = <<sentences[i]>>]
                ELSE Unmatched(sentences[i])
    BY DEF Matched
  <2>5. i \in DOMAIN expected /\ Normalized(<<sentences[i]>>) = Normalized(expected[i].text)
    BY <2>2, <2>3, <2>4
  <2>6. ms[i] = [expected[i] EXCEPT !.text = <<sentences[i]>>]
    BY <2>4, <2>5
  <2>7. [expected[i] EXCEPT !.text = <<sentences[i]>>].nodes = expected[i].nodes
    BY <2>5, KeepsNodes
  <2> QED
    BY <2>5, <2>6, <2>7
<1>3. ASSUME NEW i \in DOMAIN sentences
      PROVE  /\ Len(expected[i].text) = 1
             /\ [role |-> sentences[i].role, content |-> sentences[i].content]
                  = [role |-> expected[i].text[1].role, content |-> expected[i].text[1].content]
  <2> DEFINE t == expected[i].text
             g == sentences[i]
  <2>1. IsSeq(t) /\ Normalized(<<g>>) = Normalized(t)
    BY <1>2
  <2> HIDE DEF t, g
  <2>2. /\ Len(t) = 1
        /\ [role |-> g.role, content |-> g.content] = [role |-> t[1].role, content |-> t[1].content]
    BY <2>1, ReadsLikeOne
  <2> QED
    BY <2>2 DEF t, g
<1> QED
  BY <1>1, <1>2, <1>3

(* What a text that preserves the meaning leaves out is an optional        *)
(* instruction.                                                            *)
LEMMA LeftOutIsOptional ==
    ASSUME NEW doc \in Documents, WellFormed(doc),
           NEW expected, NEW p, NEW c, Mapped(doc, expected, p, c),
           NEW ms, NEW L \in Nat, SemanticallyPreserved(doc, ms),
           \A x \in DOMAIN ms : x \in DOMAIN expected /\ x <= L /\ ms[x].nodes = expected[x].nodes,
           NEW i \in DOMAIN expected, L < i
    PROVE  \E s \in Range(doc.statements) : Optional(s) /\ expected[i].features = <<"statement", s>>
<1>0. DOMAIN expected = 1 .. Len(expected) /\ Len(expected) \in Nat
  BY LengthOfSeq DEF Mapped
<1>1. ASSUME NEW k \in DOMAIN doc.statements, L < p[k] PROVE Optional(doc.statements[k])
  <2> DEFINE s == doc.statements[k]
             nodes == <<s.id>>
  <2>1. ASSUME NEW x \in DOMAIN ms, ms[x].nodes = nodes PROVE FALSE
    <3>1. x \in DOMAIN expected /\ expected[x].nodes = nodes /\ x <= L
      BY <2>1
    <3>2. x = p[k]
      BY <3>1, MappedOnce
    <3>3. x \in Nat
      BY <1>0, <3>1
    <3> QED
      BY <1>1, <3>1, <3>2, <3>3
  <2> HIDE DEF nodes
  <2>2. Expresses(ms, nodes) = {}
    BY <2>1, NotExpressed
  <2>3. s \in Range(doc.statements)
    BY DEF Range
  <2> HIDE DEF s
  <2>4. StatementPreserved(ms, s)
    BY <2>3 DEF SemanticallyPreserved
  <2>5. Optional(s)
    BY <2>2, <2>4 DEF StatementPreserved, Optional, nodes
  <2> QED
    BY <2>5 DEF s
<1>2. ASSUME NEW k \in DOMAIN doc.relations, L < c[k] + 1 PROVE FALSE
  <2> DEFINE r == doc.relations[k]
             nodes == <<r.id, r.effect>>
  <2>1. ASSUME NEW x \in DOMAIN ms, ms[x].nodes = nodes PROVE FALSE
    <3>1. x \in DOMAIN expected /\ expected[x].nodes = nodes /\ x <= L
      BY <2>1
    <3>2. x = c[k] + 1
      BY <3>1, MappedOnce
    <3>3. x \in Nat
      BY <1>0, <3>1
    <3> HIDE DEF nodes
    <3> QED
      BY <1>2, <3>1, <3>2, <3>3
  <2> HIDE DEF nodes
  <2>2. Expresses(ms, nodes) = {}
    BY <2>1, NotExpressed
  <2>3. r \in Range(doc.relations)
    BY DEF Range
  <2> HIDE DEF r
  <2>4. RelationPreserved(ms, r)
    BY <2>3 DEF SemanticallyPreserved
  <2>5. \E m \in Expresses(ms, <<r.id, r.effect>>) : TRUE
    BY <2>4 DEF RelationPreserved
  <2> QED
    BY <2>2, <2>5 DEF nodes
<1>3. CASE \E k \in DOMAIN doc.statements : i = p[k]
  <2>1. PICK k \in DOMAIN doc.statements : i = p[k]
    BY <1>3
  <2> DEFINE s == doc.statements[k]
  <2>2. s \in Range(doc.statements)
    BY DEF Range
  <2>3. expected[i] = Primary(s)
    BY <2>1 DEF Mapped
  <2>4. Optional(s)
    BY <1>1, <2>1
  <2>5. Primary(s).features = <<"statement", s>>
    BY FeaturesOf
  <2> HIDE DEF s
  <2> QED
    BY <2>2, <2>3, <2>4, <2>5
<1>4. CASE \E k \in DOMAIN doc.statements : \E j \in DOMAIN doc.statements[k].hazards :
              i < p[k] /\ expected[i] = OfHazard(doc.statements[k], j)
  <2>1. PICK k \in DOMAIN doc.statements : \E j : i < p[k] /\ expected[i] = OfHazard(doc.statements[k], j)
    BY <1>4
  <2>2. PICK j : i < p[k] /\ expected[i] = OfHazard(doc.statements[k], j)
    BY <2>1
  <2> DEFINE s == doc.statements[k]
  <2>3. s \in Range(doc.statements)
    BY DEF Range
  <2>4. p[k] \in DOMAIN expected
    BY DEF Mapped
  <2>5. L < p[k]
    BY <1>0, <2>2, <2>4
  <2>6. Optional(s)
    BY <1>1, <2>5
  <2>7. expected[i] = OfHazard(s, j)
    BY <2>2
  <2> HIDE DEF s
  <2>8. OfHazard(s, j).features = <<"statement", s>>
    BY FeaturesOf
  <2> QED
    BY <2>3, <2>6, <2>7, <2>8
<1>5. CASE \E k \in DOMAIN doc.relations : i = c[k] \/ i = c[k] + 1
  <2>1. PICK k \in DOMAIN doc.relations : i = c[k] \/ i = c[k] + 1
    BY <1>5
  <2>2. c[k] \in DOMAIN expected
    BY DEF Mapped
  <2>3. L < c[k] + 1
    BY <1>0, <2>1, <2>2
  <2> QED
    BY <1>2, <2>3
<1> QED
  BY <1>3, <1>4, <1>5 DEF Mapped

(* An aligned text that preserves the meaning says what the deterministic  *)
(* text says, and leaves out at most optional instructions at its end.     *)
LEMMA MatchedIsFaithful ==
    ASSUME NEW doc \in Documents, WellFormed(doc), NEW sentences, IsSeq(sentences), NEW ms,
           Matched(ms, DeterministicMappings(doc), sentences), SemanticallyPreserved(doc, ms)
    PROVE  Faithful(doc, sentences)
<1> DEFINE expected == DeterministicMappings(doc)
           N == Len(expected)
           L == Len(sentences)
           texts == Texts(expected)
           spoken == Spoken(expected)
           said == Normalized(sentences)
           all == Normalized(spoken)
<1>1. PICK p, c, at : Reference(doc, p, c, at)
  BY ReferenceIs
<1>2. /\ Mapped(doc, expected, p, c) /\ Said(expected)
      /\ Bounds(at, texts, N) /\ Covers(spoken, texts, N, at) /\ Parts(texts, N)
  BY <1>1 DEF Reference
<1>3. Matched(ms, expected, sentences)
  OBVIOUS
<1> HIDE DEF expected
<1>4. L \in Nat /\ DOMAIN sentences = 1 .. L
  BY LengthOfSeq
<1>5. N \in Nat /\ DOMAIN expected = 1 .. N
  BY <1>2, LengthOfSeq DEF Said
<1>6. /\ DOMAIN ms = DOMAIN sentences
      /\ \A i \in DOMAIN sentences :
            /\ i \in DOMAIN expected /\ ms[i].nodes = expected[i].nodes
            /\ Len(expected[i].text) = 1
            /\ [role |-> sentences[i].role, content |-> sentences[i].content]
                 = [role |-> expected[i].text[1].role, content |-> expected[i].text[1].content]
  <2>1. \A m \in Range(ms) : m.nodes # <<>>
    BY DEF SemanticallyPreserved
  <2>2. \A i \in DOMAIN expected : IsSeq(expected[i].text)
    BY <1>2 DEF Said
  <2> QED
    BY <1>2, <1>3, <2>1, <2>2, MatchedIs
<1>7. \A i \in 1 .. N : texts[i] = expected[i].text
  BY <1>5 DEF Texts
<1>8. IsSeq(spoken) /\ Len(spoken) = at[N]
  BY <1>2 DEF Covers
<1> HIDE DEF N, L, texts, spoken
<1>9. L \in 0 .. N
  <2>1. CASE L = 0
    BY <1>5, <2>1
  <2>2. CASE L # 0
    <3>1. L \in 1 .. L
      BY <1>4, <2>2
    <3>2. L \in DOMAIN expected
      BY <1>4, <1>6, <3>1
    <3> QED
      BY <1>4, <1>5, <3>2
  <2> QED
    BY <2>1, <2>2
<1>10. \A i \in 1 .. L : Len(texts[i]) = 1 /\ i \in 1 .. N
  <2> TAKE i \in 1 .. L
  <2>1. i \in DOMAIN expected /\ Len(expected[i].text) = 1
    BY <1>4, <1>6
  <2>2. i \in 1 .. N
    BY <1>5, <2>1
  <2>3. texts[i] = expected[i].text
    BY <1>7, <2>2
  <2> QED
    BY <2>1, <2>2, <2>3
<1>11. \A m \in 0 .. L : at[m] = m
  BY <1>2, <1>5, <1>9, <1>10, OneEach
<1>12. /\ IsSeq(said) /\ Len(said) = L
       /\ \A i \in 1 .. L : said[i] = [role |-> sentences[i].role, content |-> sentences[i].content]
  BY NormalizedIs DEF L
<1>13. /\ IsSeq(all) /\ Len(all) = Len(spoken)
       /\ \A i \in 1 .. Len(spoken) : all[i] = [role |-> spoken[i].role, content |-> spoken[i].content]
  BY <1>8, NormalizedIs
<1> HIDE DEF said, all
<1>14. ASSUME NEW i \in 1 .. L
       PROVE  i \in 1 .. Len(spoken) /\ spoken[i] = expected[i].text[1]
  <2>1. i - 1 \in 0 .. L /\ i \in 1 .. N /\ 1 \in 1 .. Len(texts[i]) /\ (i - 1) + 1 = i
    BY <1>4, <1>10
  <2>2. at[i - 1] = i - 1
    BY <1>11, <2>1
  <2>3. at[i - 1] + 1 \in 1 .. at[N] /\ spoken[at[i - 1] + 1] = texts[i][1]
    BY <1>2, <2>1 DEF Covers
  <2>4. at[i - 1] + 1 = i
    BY <2>1, <2>2
  <2>5. i \in 1 .. at[N] /\ spoken[i] = texts[i][1]
    BY <2>3, <2>4
  <2> QED
    BY <1>7, <1>8, <2>1, <2>5
<1>15. Len(said) <= Len(all)
  <2>1. Len(spoken) \in Nat
    BY <1>8, LengthOfSeq
  <2>2. CASE L = 0
    BY <1>12, <1>13, <2>1, <2>2
  <2>3. CASE L # 0
    <3>1. L \in 1 .. L
      BY <1>4, <2>3
    <3>2. L \in 1 .. Len(spoken)
      BY <1>14, <3>1
    <3> QED
      BY <1>12, <1>13, <2>1, <3>2
  <2> QED
    BY <2>2, <2>3
<1>16. \A i \in 1 .. Len(said) : said[i] = all[i]
  <2> SUFFICES ASSUME NEW i \in 1 .. L PROVE said[i] = all[i]
    BY <1>12
  <2>1. all[i] = [role |-> spoken[i].role, content |-> spoken[i].content] /\ spoken[i] = expected[i].text[1]
    BY <1>13, <1>14
  <2>2. [role |-> sentences[i].role, content |-> sentences[i].content]
          = [role |-> expected[i].text[1].role, content |-> expected[i].text[1].content]
    BY <1>4, <1>6
  <2> QED
    BY <1>12, <2>1, <2>2
<1>17. IsPrefix(said, all)
  BY <1>12, <1>13, <1>15, <1>16, PrefixOf
<1>18. ASSUME NEW i \in L + 1 .. N
       PROVE  \E s \in Range(doc.statements) : Optional(s) /\ expected[i].features = <<"statement", s>>
  <2>1. i \in DOMAIN expected /\ L < i
    BY <1>4, <1>5
  <2>2. \A x \in DOMAIN ms : x \in DOMAIN expected /\ x <= L /\ ms[x].nodes = expected[x].nodes
    <3> TAKE x \in DOMAIN ms
    <3>1. x \in 1 .. L /\ x \in DOMAIN sentences
      BY <1>4, <1>6
    <3>2. x \in DOMAIN expected /\ ms[x].nodes = expected[x].nodes
      BY <1>6, <3>1
    <3> QED
      BY <1>4, <3>1, <3>2
  <2> QED
    BY <1>2, <1>4, <2>1, <2>2, LeftOutIsOptional
<1> QED
  BY <1>12, <1>17, <1>18 DEF Faithful, said, all, spoken, N, expected

(* An aligned text that preserves the meaning is faithful. *)
LEMMA AlignedIsFaithful ==
    ASSUME NEW doc \in Documents, WellFormed(doc), NEW given, IsSeq(given.sentences), NEW ms,
           ms = Align(given, DeterministicText(doc), DeterministicMappings(doc)),
           SemanticallyPreserved(doc, ms)
    PROVE  Faithful(doc, given.sentences)
<1>1. CASE given = DeterministicText(doc)
  <2>1. given.sentences = Spoken(DeterministicMappings(doc))
    BY <1>1 DEF DeterministicText
  <2> QED
    BY <2>1, ReferenceIsFaithful
<1>2. CASE given # DeterministicText(doc)
  <2>1. Matched(ms, DeterministicMappings(doc), given.sentences)
    BY <1>2 DEF Matched, Align
  <2> QED
    BY <2>1, MatchedIsFaithful
<1> QED
  BY <1>1, <1>2

-----------------------------------------------------------------------------
(* A deterministic text is a text. *)
LEMMA DeterministicIsText ==
    ASSUME NEW doc \in Documents, WellFormed(doc)
    PROVE  IsText(DeterministicText(doc))
<1>1. PICK p, c, at : Reference(doc, p, c, at)
  BY ReferenceIs
<1>2. IsSeq(Spoken(DeterministicMappings(doc)))
  BY <1>1 DEF Reference, Covers
<1> QED
  BY <1>2 DEF IsText, DeterministicText

(* A text with other sentences is a text. *)
LEMMA Replaced ==
    ASSUME NEW given, IsText(given), NEW s, IsSeq(s)
    PROVE  IsText([given EXCEPT !.sentences = s])
<1> DEFINE other == [given EXCEPT !.sentences = s]
<1>1. given = [sentences |-> given.sentences, layout |-> given.layout]
  BY DEF IsText
<1>2. other = [sentences |-> s, layout |-> given.layout]
  BY <1>1
<1> HIDE DEF other
<1>3. other.sentences = s /\ other.layout = given.layout
  BY <1>2
<1>4. IsText(other)
  BY <1>2, <1>3 DEF IsText
<1> QED
  BY <1>4 DEF other

(* A sequence with other elements in the same places is a sequence. *)
LEMMA Updated ==
    ASSUME NEW s, IsSeq(s), NEW t, DOMAIN t = DOMAIN s, t = [i \in DOMAIN t |-> t[i]]
    PROVE  IsSeq(t)
<1>1. DOMAIN s = 1 .. Len(s) /\ Len(s) \in Nat
  BY LengthOfSeq
<1>2. t = [i \in 1 .. Len(s) |-> t[i]]
  BY <1>1
<1> QED
  BY <1>1, <1>2, NumberedSeq

(* A sequence without one of its elements is a sequence. *)
LEMMA WithoutOne ==
    ASSUME NEW s, IsSeq(s), NEW i \in DOMAIN s
    PROVE  IsSeq(RemoveAt(s, i))
<1> DEFINE S == Range(s)
<1>1. s \in Seq(S) /\ i \in 1 .. Len(s) /\ Len(s) \in Nat
  BY LengthOfSeq DEF IsSeq
<1> HIDE DEF S
<1>2. SubSeq(s, 1, i - 1) \in Seq(S) /\ SubSeq(s, i + 1, Len(s)) \in Seq(S)
  BY <1>1
<1>3. RemoveAt(s, i) \in Seq(S)
  BY <1>2 DEF RemoveAt
<1> QED
  BY <1>3, AnySeq

(* A sequence with one more element is a sequence. *)
LEMMA WithOneMore ==
    ASSUME NEW s, IsSeq(s), NEW i \in 1 .. Len(s) + 1, NEW o
    PROVE  IsSeq(InsertAt(s, i, o))
<1> DEFINE S == Range(s) \cup {o}
<1>1. s \in Seq(S) /\ Len(s) \in Nat
  <2>1. s \in Seq(Range(s))
    BY DEF IsSeq
  <2> QED
    BY <2>1, LengthOfSeq
<1>2. <<o>> \in Seq(S)
  OBVIOUS
<1> HIDE DEF S
<1>3. SubSeq(s, 1, i - 1) \in Seq(S) /\ SubSeq(s, i, Len(s)) \in Seq(S)
  BY <1>1
<1>4. InsertAt(s, i, o) \in Seq(S)
  BY <1>2, <1>3 DEF InsertAt
<1> QED
  BY <1>4, AnySeq

(* What departs from a text is a text. *)
LEMMA DeparturesAreTexts ==
    ASSUME NEW given, IsText(given), NEW other \in Departures(given)
    PROVE  IsText(other)
<1> DEFINE s == given.sentences
<1>1. IsSeq(s) /\ given = [sentences |-> s, layout |-> given.layout]
  BY DEF IsText
<1>2. ASSUME NEW i \in DOMAIN s, other = [given EXCEPT !.sentences = RemoveAt(s, i)] PROVE IsText(other)
  <2> DEFINE t == RemoveAt(s, i)
  <2>1. IsSeq(t)
    BY <1>1, WithoutOne
  <2> HIDE DEF t
  <2>2. IsText([given EXCEPT !.sentences = t])
    BY <2>1, Replaced
  <2> QED
    BY <1>2, <2>2 DEF t
<1>3. ASSUME NEW i \in 1 .. Len(s) + 1, NEW o, other = [given EXCEPT !.sentences = InsertAt(s, i, o)]
      PROVE  IsText(other)
  <2> DEFINE t == InsertAt(s, i, o)
  <2>1. IsSeq(t)
    BY <1>1, WithOneMore
  <2> HIDE DEF t
  <2>2. IsText([given EXCEPT !.sentences = t])
    BY <2>1, Replaced
  <2> QED
    BY <1>3, <2>2 DEF t
<1>4. ASSUME NEW i, NEW x, NEW y, other = [given EXCEPT !.sentences = [s EXCEPT ![i] = x, ![i + 1] = y]]
      PROVE  IsText(other)
  <2> DEFINE t == [s EXCEPT ![i] = x, ![i + 1] = y]
  <2>1. DOMAIN t = DOMAIN s /\ t = [j \in DOMAIN t |-> t[j]]
    OBVIOUS
  <2> HIDE DEF t
  <2>2. IsSeq(t)
    BY <1>1, <2>1, Updated
  <2>3. IsText([given EXCEPT !.sentences = t])
    BY <2>2, Replaced
  <2> QED
    BY <1>4, <2>3 DEF t
<1>5. ASSUME NEW i, other = [given EXCEPT !.sentences[i].exact = FALSE] PROVE IsText(other)
  <2> DEFINE t == [s EXCEPT ![i].exact = FALSE]
  <2>1. DOMAIN t = DOMAIN s /\ t = [j \in DOMAIN t |-> t[j]]
    OBVIOUS
  <2>2. other = [given EXCEPT !.sentences = t]
    BY <1>5
  <2> HIDE DEF t
  <2>3. IsSeq(t)
    BY <1>1, <2>1, Updated
  <2>4. IsText([given EXCEPT !.sentences = t])
    BY <2>3, Replaced
  <2> QED
    BY <2>2, <2>4
<1>6. ASSUME other = [given EXCEPT !.layout = "other"] PROVE IsText(other)
  <2>1. other = [sentences |-> s, layout |-> "other"]
    BY <1>1, <1>6
  <2> HIDE DEF s
  <2>2. other.sentences = s /\ other.layout = "other"
    BY <2>1
  <2> QED
    BY <1>1, <2>1, <2>2 DEF IsText
<1>7. ASSUME other = [sentences |-> <<>>, layout |-> "other"] PROVE IsText(other)
  BY <1>7 DEF IsText, IsSeq, Range
<1>8. CASE other \in Shorter(given)
  BY <1>2, <1>8 DEF Shorter
<1>9. CASE other \in Longer(given)
  <2>1. \E i \in 1 .. Len(s) + 1 : \E o : other = [given EXCEPT !.sentences = InsertAt(s, i, o)]
    BY <1>9 DEF Longer
  <2> QED
    BY <1>3, <2>1
<1>10. CASE other \in Swapped(given)
  <2>1. PICK i \in 1 .. Len(s) - 1 : other = [given EXCEPT !.sentences = [s EXCEPT ![i] = s[i + 1], ![i + 1] = s[i]]]
    BY <1>10 DEF Swapped
  <2> HIDE DEF s
  <2> QED
    BY <1>4, <2>1
<1>11. CASE other \in Respelled(given)
  BY <1>5, <1>11 DEF Respelled
<1>12. CASE other \in {[given EXCEPT !.layout = "other"], [sentences |-> <<>>, layout |-> "other"]}
  BY <1>6, <1>7, <1>12
<1> HIDE DEF s
<1> QED
  BY <1>8, <1>9, <1>10, <1>11, <1>12 DEF Departures

-----------------------------------------------------------------------------
(* No call starts with a verdict. *)
LEMMA VerdictInit == Init => VerdictInv
  BY DEF Init, VerdictInv, Compiles

(* No step judges anything but the mappings the aligner or the realizer    *)
(* made of a well-formed document (cli.py:155-167, alignment.py:56-96).    *)
LEMMA VerdictStep == VerdictInv /\ [Next]_vars => VerdictInv'
<1> SUFFICES ASSUME VerdictInv, [Next]_vars PROVE VerdictInv'
  OBVIOUS
<1>1. ASSUME NEW doc \in Documents, Load(doc) PROVE VerdictInv'
  BY <1>1 DEF VerdictInv, Load, Take, Fail, Done
<1>2. ASSUME NEW doc \in Documents, NEW quoted \in BOOLEAN, Propose(doc, quoted) PROVE VerdictInv'
  BY <1>2 DEF VerdictInv, Propose, Take, Fail, Done, Refused
<1>3. CASE ProviderFails
  BY <1>3 DEF VerdictInv, ProviderFails, Fail, Done
<1>4. CASE RealizeDeterministically
  <2>1. document \in Documents /\ WellFormed(document)
    BY <1>4 DEF VerdictInv, RealizeDeterministically
  <2>2. IsText(DeterministicText(document))
    BY <2>1, DeterministicIsText
  <2> QED
    BY <1>4, <2>1, <2>2 DEF VerdictInv, RealizeDeterministically
<1>5. CASE Symbolize
  <2>1. document \in Documents /\ WellFormed(document)
    BY <1>5 DEF VerdictInv, Symbolize
  <2>2. IsText(DeterministicText(document))
    BY <2>1, DeterministicIsText
  <2> QED
    BY <1>5, <2>1, <2>2 DEF VerdictInv, Symbolize, Fail, Done
<1>6. CASE GeneratorFails
  BY <1>6 DEF VerdictInv, GeneratorFails, Fail, Done
<1>7. CASE Depart
  <2>1. IsText(text')
    BY <1>7, DeparturesAreTexts DEF VerdictInv, Depart
  <2> QED
    BY <1>7, <2>1 DEF VerdictInv, Depart
<1>8. CASE AlignText
  BY <1>8 DEF VerdictInv, AlignText
<1>9. CASE Validate
  <2>1. stage = "validate" /\ stage' = "done"
    BY <1>9 DEF Validate, Done
  <2>2. UNCHANGED <<command, realizer, attempts, document, text, edits, mappings>>
    BY <1>9 DEF Validate
  <2>3. PICK written \in WellWritten :
           verdict' = IF written /\ SemanticallyPreserved(document, mappings) THEN "accepted" ELSE "rejected"
    BY <1>9 DEF Validate, Done
  <2>4. ASSUME realizer = "deterministic", command # "validate-text", verdict' = "rejected"
        PROVE  ~(document.authorized /\ WithinLimits(document) /\ SemanticallyPreserved(document, mappings))
    <3>1. text = DeterministicText(document)
      BY <2>1, <2>4 DEF VerdictInv
    <3>2. written = (document.authorized /\ WithinLimits(document))
      BY <3>1 DEF WellWritten
    <3> QED
      BY <2>3, <2>4, <3>2
  <2>5. verdict' = "accepted" => SemanticallyPreserved(document, mappings)
    BY <2>3
  <2> QED
    BY <2>1, <2>2, <2>4, <2>5 DEF VerdictInv
<1>10. CASE UNCHANGED vars
  BY <1>10 DEF VerdictInv, vars
<1>11. CASE ValidateAlone
  BY <1>11 DEF VerdictInv, ValidateAlone, Done
<1> QED
  BY <1>1, <1>2, <1>3, <1>4, <1>5, <1>6, <1>7, <1>8, <1>9, <1>10, <1>11 DEF Next, Begin

(* Every verdict is that of the validators on the mappings the realizer or *)
(* the aligner made of a well-formed document (cli.py:155-167,             *)
(* alignment.py:56-96).                                                    *)
THEOREM VerdictInvariance == Spec => []VerdictInv
  BY VerdictInit, VerdictStep, PTL DEF Spec

(* An accepted text was aligned and preserves the meaning, which makes it  *)
(* faithful.                                                               *)
LEMMA VerdictInvIsFaithful == VerdictInv => ValidatedTextIsFaithful
<1> SUFFICES ASSUME VerdictInv, verdict = "accepted", command = "validate-text"
             PROVE  ValidatedTextIsFaithful
  BY DEF ValidatedTextIsFaithful
<1>1. /\ document \in Documents /\ WellFormed(document)
      /\ IsText(text)
      /\ mappings = Align(text, DeterministicText(document), DeterministicMappings(document))
      /\ SemanticallyPreserved(document, mappings)
  BY DEF VerdictInv
<1>2. Faithful(document, text.sentences)
  BY <1>1, AlignedIsFaithful DEF IsText
<1> QED
  BY <1>2 DEF ValidatedTextIsFaithful, Faithful

(* A given text that is accepted says what the deterministic text says, in *)
(* its order, and leaves out at most optional instructions at its end      *)
(* (alignment.py:72-96, semantic.py:26-47).                                *)
THEOREM ValidatedFaithful == Spec => []ValidatedTextIsFaithful
  BY VerdictInvariance, VerdictInvIsFaithful, PTL

(* A document whose own text is rejected breaks a limit of its own or has  *)
(* a quantity that is spelled in two ways.                                 *)
LEMMA VerdictInvAccepts == VerdictInv => DeterministicIsAccepted
<1> SUFFICES ASSUME VerdictInv, verdict = "rejected", realizer = "deterministic", Compiles,
                    document.authorized, document.concise,
                    ~ Len(Paragraphs(document)[1]) > MaxParagraph,
                    \A s \in Range(document.statements) : s.renders
             PROVE  FALSE
  BY DEF DeterministicIsAccepted
<1>1. /\ document \in Documents /\ WellFormed(document)
      /\ mappings = DeterministicMappings(document)
      /\ ~(document.authorized /\ WithinLimits(document) /\ SemanticallyPreserved(document, mappings))
  BY DEF VerdictInv, Compiles
<1>2. SemanticallyPreserved(document, mappings)
  <2>1. PICK p, c : Mapped(document, DeterministicMappings(document), p, c)
    BY <1>1, Structure
  <2> QED
    BY <1>1, <2>1, Preserves
<1>3. WithinLimits(document)
  <2> DEFINE opening == Len(Paragraphs(document)[1])
  <2>1. ASSUME NEW i \in DOMAIN Paragraphs(document) PROVE Len(Paragraphs(document)[i]) <= MaxParagraph
    <3> DEFINE n == Len(Paragraphs(document)[i])
    <3>1. opening \in Nat /\ n \in Nat /\ n <= opening
      BY <1>1, ParagraphsFit
    <3>2. ~ opening > MaxParagraph /\ MaxParagraph \in Nat
      BY CompilationAssumption
    <3> HIDE DEF opening, n
    <3>3. n <= MaxParagraph
      BY <3>1, <3>2
    <3> QED
      BY <3>3 DEF n
  <2> QED
    BY <2>1 DEF WithinLimits
<1> QED
  BY <1>1, <1>2, <1>3

(* The deterministic text of a document is rejected only for a word, a     *)
(* length, or a quantity that validator and realizer spell differently,    *)
(* whatever its ids, hazards and relations (deterministic.py:83-146,       *)
(* semantic.py:9-188).                                                     *)
THEOREM DeterministicAccepted == Spec => []DeterministicIsAccepted
  BY VerdictInvariance, VerdictInvAccepts, PTL
----------------------------------------------------------------------------
(* Sequences, again: what the second half of this module is built from.    *)

(* Two sequences with the same elements are the same. *)
LEMMA SameSeq ==
    ASSUME NEW s, NEW t, IsSeq(s), IsSeq(t), Len(s) = Len(t), \A i \in 1 .. Len(s) : s[i] = t[i]
    PROVE  s = t
<1>1. DOMAIN s = 1 .. Len(s) /\ DOMAIN t = 1 .. Len(t)
  BY LengthOfSeq
<1>2. s = [i \in 1 .. Len(s) |-> s[i]] /\ t = [i \in 1 .. Len(t) |-> t[i]]
  BY <1>1 DEF IsSeq
<1> QED
  BY <1>2

(* The first n elements. *)
Cut(s, n) == SubSeq(s, 1, n)

(* The first n elements of a sequence. *)
LEMMA CutSeq ==
    ASSUME NEW s, IsSeq(s), NEW n \in 0 .. Len(s)
    PROVE  IsSeq(Cut(s, n)) /\ Len(Cut(s, n)) = n /\ \A i \in 1 .. n : Cut(s, n)[i] = s[i]
<1>1. Len(s) \in Nat /\ n \in Nat /\ n <= Len(s)
  BY LengthOfSeq
<1>2. s \in Seq(Range(s))
  BY DEF IsSeq
<1>3. Cut(s, n) = [i \in 1 .. n |-> s[i]]
  BY <1>1, <1>2 DEF Cut
<1>4. IsSeq([i \in 1 .. n |-> s[i]]) /\ Len([i \in 1 .. n |-> s[i]]) = n
  <2> DEFINE r == [i \in 1 .. n |-> s[i]]
  <2>1. r = [i \in 1 .. n |-> r[i]]
    OBVIOUS
  <2> HIDE DEF r
  <2>2. IsSeq(r) /\ Len(r) = n
    BY <1>1, <2>1, NumberedSeq
  <2> QED
    BY <2>2 DEF r
<1>5. \A i \in 1 .. n : [j \in 1 .. n |-> s[j]][i] = s[i]
  OBVIOUS
<1> QED
  BY <1>3, <1>4, <1>5

LEMMA NothingSeq == IsSeq(<<>>) /\ Len(<<>>) = 0
<1>1. \A S : <<>> \in Seq(S) /\ Len(<<>>) = 0
  BY EmptySeq
<1> QED
  BY <1>1 DEF IsSeq

LEMMA NoneIsEmpty == ASSUME NEW s, IsSeq(s), Len(s) = 0 PROVE s = <<>>
  BY DEF IsSeq

(* What one more makes of a concatenation. *)
LEMMA FlatOne ==
    ASSUME NEW seqs, Len(seqs) = 1
    PROVE  FlattenSeq(seqs) = seqs[1]
<1>0. 1 \in Nat \ {0}
  OBVIOUS
<1>1. PICK f : Joins(f, seqs, 1) /\ FlattenSeq(seqs) = f[1]
  BY <1>0, Flattened
<1> QED
  BY <1>1 DEF Joins

(* A concatenation of one sequence more. *)
LEMMA FlatMore ==
    ASSUME NEW seqs, NEW more, NEW N \in Nat \ {0}, Len(seqs) = N, Len(more) = N + 1,
           \A i \in 1 .. N : more[i] = seqs[i]
    PROVE  After(FlattenSeq(more), FlattenSeq(seqs), more[N + 1])
<1>0. N + 1 \in Nat \ {0}
  OBVIOUS
<1>1. \E f : Joins(f, more, N + 1) /\ FlattenSeq(more) = f[N + 1]
  BY <1>0, Flattened
<1>2. \E g : Joins(g, seqs, N) /\ FlattenSeq(seqs) = g[N]
  BY Flattened
<1>3. PICK f : Joins(f, more, N + 1) /\ FlattenSeq(more) = f[N + 1]
  BY <1>1
<1>4. PICK g : Joins(g, seqs, N) /\ FlattenSeq(seqs) = g[N]
  BY <1>2
<1>5. \A i \in 1 .. N + 1 : f[i] = IF i = 1 THEN more[i] ELSE f[i - 1] \o more[i]
  BY <1>3 DEF Joins
<1>6. \A i \in 1 .. N : g[i] = IF i = 1 THEN seqs[i] ELSE g[i - 1] \o seqs[i]
  BY <1>4 DEF Joins
<1> DEFINE T == {i \in 1 .. N : f[i] # g[i]}
<1>7. T = {}
  <2> SUFFICES ASSUME T # {} PROVE FALSE
    OBVIOUS
  <2>1. T \in SUBSET Nat
    OBVIOUS
  <2>2. \A i : i \in T <=> i \in 1 .. N /\ f[i] # g[i]
    OBVIOUS
  <2> HIDE DEF T
  <2>3. PICK i \in T : \A j \in T : i <= j
    BY <2>1, Least
  <2>4. i \in 1 .. N /\ i \in 1 .. N + 1 /\ f[i] # g[i]
    BY <2>2
  <2>5. CASE i = 1
    BY <1>5, <1>6, <2>4, <2>5
  <2>6. CASE i # 1
    <3>1. i - 1 \in 1 .. N /\ ~ i <= i - 1
      BY <2>4, <2>6
    <3>2. f[i - 1] = g[i - 1]
      BY <2>2, <2>3, <3>1
    <3> QED
      BY <1>5, <1>6, <2>4, <2>6, <3>2
  <2> QED
    BY <2>5, <2>6
<1>8. f[N] = g[N]
  BY <1>7
<1>9. f[N + 1] = f[N] \o more[N + 1]
  <2>1. N + 1 \in 1 .. N + 1 /\ N + 1 # 1 /\ (N + 1) - 1 = N
    OBVIOUS
  <2> QED
    BY <1>5, <2>1
<1> QED
  BY <1>3, <1>4, <1>8, <1>9 DEF After
----------------------------------------------------------------------------
(* Plans and their encodings.                                              *)

(* How a symbol can be encoded after n others. *)
Forms(n) == IF n = 0 THEN First ELSE Following

(* An encoding has tokens, and no special ones. *)
LEMMA EncodingIs ==
    ASSUME NEW chars, NEW e \in Encodings(chars)
    PROVE  /\ IsSeq(e) /\ e \in Seq(Token) /\ Len(e) \in Nat \ {0}
           /\ \A i \in 1 .. Len(e) : e[i] \in Token /\ e[i] # EOS
           /\ Decode(e) = chars
<1>1. e \in BoundedSeq(Token \ {EOS, Pad}, Len(chars)) /\ e # <<>> /\ Decode(e) = chars
  BY DEF Encodings
<1>2. e \in Seq(Token \ {EOS, Pad})
  <2>1. PICK m \in 0 .. Len(chars) : e \in [1 .. m -> Token \ {EOS, Pad}]
    BY <1>1 DEF BoundedSeq, SeqOf
  <2>2. m \in Nat
    OBVIOUS
  <2> QED
    BY <2>1, <2>2
<1>3. Len(e) \in Nat \ {0}
  BY <1>1, <1>2, EmptySeq
<1>4. \A i \in 1 .. Len(e) : e[i] \in Token /\ e[i] # EOS
  BY <1>2
<1>5. e \in Seq(Token)
  BY <1>2
<1> QED
  BY <1>1, <1>3, <1>4, <1>5, AnySeq

(* What an encoded symbol consists of: some tokens, none of them EOS.      *)
LEMMA FormIs ==
    ASSUME TokenizerInv, NEW n, NEW form \in Forms(n)
    PROVE  /\ IsSeq(form) /\ form \in Seq(Token) /\ Len(form) \in Nat \ {0}
           /\ \A i \in 1 .. Len(form) : form[i] \in Token /\ form[i] # EOS
<1>1. \E chars : form \in Encodings(chars)
  BY DEF Forms, First, Following, TokenizerInv
<1> QED
  BY <1>1, EncodingIs

(* The encodings of the symbols of a plan, one by one. *)
Encoded(w) == [i \in DOMAIN w |-> IF i = 1 THEN first[w[i]] ELSE following[w[i]]]

(* The encodings of a plan's symbols, which Target concatenates.           *)
LEMMA EncodedIs ==
    ASSUME NEW n \in Nat, NEW w \in [1 .. n -> symbols]
    PROVE  /\ IsSeq(Encoded(w)) /\ Len(Encoded(w)) = n
           /\ \A i \in 1 .. n : Encoded(w)[i] = IF i = 1 THEN first[w[i]] ELSE following[w[i]]
           /\ Target(w) = FlattenSeq(Encoded(w))
<1> DEFINE e == Encoded(w)
<1>1. DOMAIN w = 1 .. n
  OBVIOUS
<1>2. \A i \in 1 .. n : e[i] = IF i = 1 THEN first[w[i]] ELSE following[w[i]]
  BY <1>1 DEF Encoded
<1>3. e = [i \in 1 .. n |-> e[i]]
  BY <1>1 DEF Encoded
<1>4. Target(w) = FlattenSeq(e)
  BY DEF Target, Encoded
<1> HIDE DEF e
<1>5. IsSeq(e) /\ Len(e) = n
  BY <1>3, NumberedSeq
<1>6. /\ IsSeq(e) /\ Len(e) = n
      /\ \A i \in 1 .. n : e[i] = IF i = 1 THEN first[w[i]] ELSE following[w[i]]
      /\ Target(w) = FlattenSeq(e)
  BY <1>2, <1>4, <1>5
<1> QED
  BY <1>6 DEF e

(* The tokens spell a plan of n symbols. *)
Spells(n, tokens) == \E w \in [1 .. n -> symbols] : tokens = Target(w)

LEMMA SpellsNone ==
    ASSUME NEW tokens
    PROVE  Spells(0, tokens) <=> tokens = <<>>
<1>1. ASSUME NEW w \in [1 .. 0 -> symbols] PROVE Target(w) = <<>>
  <2>1. 0 \in Nat
    OBVIOUS
  <2>2. IsSeq(Encoded(w)) /\ Len(Encoded(w)) = 0 /\ Target(w) = FlattenSeq(Encoded(w))
    BY <2>1, EncodedIs
  <2>3. Encoded(w) = <<>>
    BY <2>2, NoneIsEmpty
  <2> QED
    BY <2>2, <2>3 DEF FlattenSeq
<1>2. \E w : w \in [1 .. 0 -> symbols]
  <2>1. [i \in 1 .. 0 |-> i] \in [1 .. 0 -> symbols]
    OBVIOUS
  <2> QED
    BY <2>1
<1> QED
  BY <1>1, <1>2 DEF Spells

(* One more symbol. *)
LEMMA TargetMore ==
    ASSUME NEW n \in Nat \ {0}, NEW w \in [1 .. n -> symbols], NEW v \in [1 .. n + 1 -> symbols],
           \A i \in 1 .. n : v[i] = w[i]
    PROVE  After(Target(v), Target(w), following[v[n + 1]])
<1>1. n \in Nat /\ n + 1 \in Nat
  OBVIOUS
<1>2. /\ Len(Encoded(w)) = n /\ Target(w) = FlattenSeq(Encoded(w))
      /\ \A i \in 1 .. n : Encoded(w)[i] = IF i = 1 THEN first[w[i]] ELSE following[w[i]]
  BY <1>1, EncodedIs
<1>3. /\ Len(Encoded(v)) = n + 1 /\ Target(v) = FlattenSeq(Encoded(v))
      /\ \A i \in 1 .. n + 1 : Encoded(v)[i] = IF i = 1 THEN first[v[i]] ELSE following[v[i]]
  BY <1>1, EncodedIs
<1>4. \A i \in 1 .. n : Encoded(v)[i] = Encoded(w)[i]
  BY <1>2, <1>3
<1>5. After(FlattenSeq(Encoded(v)), FlattenSeq(Encoded(w)), Encoded(v)[n + 1])
  BY <1>2, <1>3, <1>4, FlatMore
<1>6. Encoded(v)[n + 1] = following[v[n + 1]]
  BY <1>3
<1> QED
  BY <1>2, <1>3, <1>5, <1>6

(* A plan of one symbol is encoded as that symbol. *)
LEMMA TargetOne ==
    ASSUME NEW w \in [1 .. 1 -> symbols]
    PROVE  Target(w) = first[w[1]]
<1>1. 1 \in Nat
  OBVIOUS
<1>2. /\ Len(Encoded(w)) = 1 /\ Target(w) = FlattenSeq(Encoded(w))
      /\ \A i \in 1 .. 1 : Encoded(w)[i] = IF i = 1 THEN first[w[i]] ELSE following[w[i]]
  BY <1>1, EncodedIs
<1>3. FlattenSeq(Encoded(w)) = Encoded(w)[1]
  BY <1>2, FlatOne
<1> QED
  BY <1>2, <1>3

(* The encoding of n + 1 symbols is that of n and one form. *)
LEMMA SpellsMore ==
    ASSUME TokenizerInv, NEW n \in Nat, NEW u
    PROVE  Spells(n + 1, u) <=> \E t : \E form \in Forms(n) : Spells(n, t) /\ After(u, t, form)
<1>1. CASE n = 0
  <2>1. Spells(1, u) <=> u \in First
    <3>1. ASSUME NEW w \in [1 .. 1 -> symbols] PROVE Target(w) \in First
      BY TargetOne DEF First
    <3>2. ASSUME NEW s \in symbols PROVE \E w \in [1 .. 1 -> symbols] : first[s] = Target(w)
      <4> DEFINE w == [i \in 1 .. 1 |-> s]
      <4>1. w \in [1 .. 1 -> symbols] /\ w[1] = s
        OBVIOUS
      <4> HIDE DEF w
      <4>2. first[s] = Target(w)
        BY <4>1, TargetOne
      <4> QED
        BY <4>1, <4>2
    <3> QED
      BY <3>1, <3>2 DEF Spells, First
  <2>2. ASSUME NEW form \in First PROVE After(u, <<>>, form) <=> u = form
    <3>1. form \in Forms(0)
      BY DEF Forms
    <3>2. IsSeq(form)
      BY <3>1, FormIs
    <3>3. <<>> \o form = form
      BY <3>2, ConcatEmptySeq DEF IsSeq
    <3> QED
      BY <3>3 DEF After
  <2>3. \A t : Spells(0, t) <=> t = <<>>
    BY SpellsNone
  <2>4. Forms(0) = First
    BY DEF Forms
  <2> QED
    BY <1>1, <2>1, <2>2, <2>3, <2>4
<1>2. CASE n # 0
  <2>1. Forms(n) = Following /\ n \in Nat \ {0}
    BY <1>2 DEF Forms
  <2>2. ASSUME NEW v \in [1 .. n + 1 -> symbols], u = Target(v)
        PROVE  \E t : \E form \in Following : Spells(n, t) /\ After(u, t, form)
    <3> DEFINE w == [i \in 1 .. n |-> v[i]]
    <3>1. w \in [1 .. n -> symbols] /\ (\A i \in 1 .. n : v[i] = w[i]) /\ n + 1 \in 1 .. n + 1
      OBVIOUS
    <3> HIDE DEF w
    <3>2. After(Target(v), Target(w), following[v[n + 1]])
      BY <2>1, <3>1, TargetMore
    <3>3. following[v[n + 1]] \in Following /\ Spells(n, Target(w))
      BY <3>1 DEF Following, Spells
    <3> QED
      BY <2>2, <3>2, <3>3
  <2>3. ASSUME NEW w \in [1 .. n -> symbols], NEW s \in symbols, After(u, Target(w), following[s])
        PROVE  Spells(n + 1, u)
    <3> DEFINE v == [i \in 1 .. n + 1 |-> IF i = n + 1 THEN s ELSE w[i]]
    <3>1. \A i \in 1 .. n + 1 : i # n + 1 => i \in 1 .. n
      OBVIOUS
    <3>2. v \in [1 .. n + 1 -> symbols]
      BY <3>1
    <3>3. (\A i \in 1 .. n : v[i] = w[i]) /\ v[n + 1] = s
      OBVIOUS
    <3> HIDE DEF v
    <3>4. After(Target(v), Target(w), following[s])
      BY <2>1, <3>2, <3>3, TargetMore
    <3>5. u = Target(v)
      BY <2>3, <3>4 DEF After
    <3> QED
      BY <3>2, <3>5 DEF Spells
  <2> QED
    BY <2>1, <2>2, <2>3 DEF Spells, Following
<1> QED
  BY <1>1, <1>2

(* form is the end of u. *)
Ends(u, form) ==
    Len(form) <= Len(u) /\ \A j \in 1 .. Len(form) : u[Len(u) - Len(form) + j] = form[j]

(* A sequence that ends in form is what precedes form, and form, ...       *)
LEMMA EndIsAfter ==
    ASSUME NEW u, NEW form, IsSeq(u), IsSeq(form), Ends(u, form)
    PROVE  After(u, Cut(u, Len(u) - Len(form)), form)
<1> DEFINE q == Len(u) - Len(form)
           t == Cut(u, q)
           r == t \o form
<1>1. Len(u) \in Nat /\ Len(form) \in Nat /\ Len(form) <= Len(u)
  BY LengthOfSeq DEF Ends
<1>2. q \in 0 .. Len(u) /\ Len(u) = q + Len(form) /\ \A j \in 1 .. Len(form) : u[q + j] = form[j]
  BY <1>1 DEF Ends
<1> HIDE DEF q
<1>3. IsSeq(t) /\ Len(t) = q /\ \A i \in 1 .. q : t[i] = u[i]
  BY <1>2, CutSeq
<1>4. After(r, t, form)
  BY DEF After
<1> HIDE DEF t, r
<1>5. /\ IsSeq(r) /\ Len(r) = Len(t) + Len(form)
      /\ \A i \in 1 .. Len(t) : r[i] = t[i]
      /\ \A i \in 1 .. Len(form) : r[Len(t) + i] = form[i]
  <2>1. IsSeq(t) /\ IsSeq(form) /\ After(r, t, form)
    BY <1>3, <1>4
  <2> QED
    BY <2>1, ConcatSeq
<1>6. Len(r) = Len(u)
  BY <1>2, <1>3, <1>5
<1>7. ASSUME NEW i \in 1 .. Len(u) PROVE u[i] = r[i]
  <2>1. CASE i <= q
    BY <1>1, <1>2, <1>3, <1>5, <2>1
  <2>2. CASE ~ i <= q
    <3>1. i - q \in 1 .. Len(form) /\ i = q + (i - q)
      BY <1>1, <1>2, <2>2
    <3>2. u[q + (i - q)] = form[i - q] /\ r[q + (i - q)] = form[i - q]
      BY <1>2, <1>3, <1>5, <3>1
    <3> QED
      BY <3>1, <3>2
  <2> QED
    BY <2>1, <2>2
<1>8. u = r
  BY <1>5, <1>6, <1>7, SameSeq
<1> QED
  BY <1>4, <1>8 DEF t, q

(* ... and conversely. *)
LEMMA AfterEnds ==
    ASSUME NEW u, NEW t, NEW form, IsSeq(t), IsSeq(form), After(u, t, form)
    PROVE  IsSeq(u) /\ Ends(u, form) /\ Cut(u, Len(u) - Len(form)) = t
<1>1. /\ IsSeq(u) /\ Len(u) = Len(t) + Len(form)
      /\ \A i \in 1 .. Len(t) : u[i] = t[i]
      /\ \A i \in 1 .. Len(form) : u[Len(t) + i] = form[i]
  BY ConcatSeq
<1>2. Len(t) \in Nat /\ Len(form) \in Nat
  BY LengthOfSeq
<1>3. Len(u) - Len(form) = Len(t) /\ Len(t) \in 0 .. Len(u)
  BY <1>1, <1>2
<1>4. IsSeq(Cut(u, Len(t))) /\ Len(Cut(u, Len(t))) = Len(t) /\ \A i \in 1 .. Len(t) : Cut(u, Len(t))[i] = u[i]
  BY <1>1, <1>3, CutSeq
<1>5. \A i \in 1 .. Len(Cut(u, Len(t))) : Cut(u, Len(t))[i] = t[i]
  BY <1>1, <1>4
<1>6. Cut(u, Len(t)) = t
  BY <1>4, <1>5, SameSeq
<1>7. Ends(u, form)
  BY <1>1, <1>2, <1>3 DEF Ends
<1> QED
  BY <1>1, <1>3, <1>6, <1>7

(* What spells a plan has a token for each symbol at least, and no EOS. *)
LEMMA SpelledIs ==
    ASSUME TokenizerInv, NEW n \in Nat, NEW u, Spells(n, u)
    PROVE  /\ IsSeq(u) /\ Len(u) \in Nat /\ n <= Len(u)
           /\ \A i \in 1 .. Len(u) : u[i] \in Token /\ u[i] # EOS
<1> DEFINE Good(t, m) == /\ IsSeq(t) /\ Len(t) \in Nat /\ m <= Len(t)
                         /\ \A i \in 1 .. Len(t) : t[i] \in Token /\ t[i] # EOS
           T == {m \in Nat : \E t : Spells(m, t) /\ ~ Good(t, m)}
<1>1. T = {}
  <2> SUFFICES ASSUME T # {} PROVE FALSE
    OBVIOUS
  <2>1. T \in SUBSET Nat
    OBVIOUS
  <2>2. \A m : m \in T <=> m \in Nat /\ \E t : Spells(m, t) /\ ~ Good(t, m)
    OBVIOUS
  <2> HIDE DEF T
  <2>3. PICK m \in T : \A j \in T : m <= j
    BY <2>1, Least
  <2>4. m \in Nat
    BY <2>1
  <2>5. PICK t : Spells(m, t) /\ ~ Good(t, m)
    BY <2>2
  <2>6. CASE m = 0
    <3>1. t = <<>>
      BY <2>5, <2>6, SpellsNone
    <3> QED
      BY <2>5, <2>6, <3>1, NothingSeq
  <2>7. CASE m # 0
    <3>1. m - 1 \in Nat /\ ~ m <= m - 1 /\ (m - 1) + 1 = m
      BY <2>4, <2>7
    <3>2. Spells((m - 1) + 1, t)
      BY <2>5, <3>1
    <3>3. \E s : \E form \in Forms(m - 1) : Spells(m - 1, s) /\ After(t, s, form)
      BY <3>1, <3>2, SpellsMore
    <3>4. PICK s : \E form \in Forms(m - 1) : Spells(m - 1, s) /\ After(t, s, form)
      BY <3>3
    <3>5. PICK form \in Forms(m - 1) : Spells(m - 1, s) /\ After(t, s, form)
      BY <3>4
    <3>6. Good(s, m - 1)
      BY <2>2, <2>3, <3>1, <3>5
    <3>7. /\ IsSeq(form) /\ Len(form) \in Nat \ {0}
          /\ \A i \in 1 .. Len(form) : form[i] \in Token /\ form[i] # EOS
      BY FormIs
    <3>8. /\ IsSeq(t) /\ Len(t) = Len(s) + Len(form)
          /\ \A i \in 1 .. Len(s) : t[i] = s[i]
          /\ \A i \in 1 .. Len(form) : t[Len(s) + i] = form[i]
      BY <3>5, <3>6, <3>7, ConcatSeq
    <3>9. ASSUME NEW i \in 1 .. Len(t) PROVE t[i] \in Token /\ t[i] # EOS
      <4>1. CASE i <= Len(s)
        BY <3>6, <3>8, <4>1
      <4>2. CASE ~ i <= Len(s)
        <5>1. i - Len(s) \in 1 .. Len(form) /\ i = Len(s) + (i - Len(s))
          BY <3>6, <3>7, <3>8, <4>2
        <5> QED
          BY <3>7, <3>8, <5>1
      <4> QED
        BY <4>1, <4>2
    <3>10. Len(t) \in Nat /\ m <= Len(t)
      BY <2>4, <3>6, <3>7, <3>8
    <3> QED
      BY <2>5, <3>8, <3>9, <3>10
  <2> QED
    BY <2>6, <2>7
<1>2. Good(u, n)
  BY <1>1
<1> QED
  BY <1>2

(* One more symbol, seen from its end. *)
LEMMA SpellsEnd ==
    ASSUME TokenizerInv, NEW n \in Nat, NEW u, IsSeq(u)
    PROVE  Spells(n + 1, u) <=>
               \E form \in Forms(n) : Ends(u, form) /\ Spells(n, Cut(u, Len(u) - Len(form)))
<1>1. Spells(n + 1, u) <=> \E t : \E form \in Forms(n) : Spells(n, t) /\ After(u, t, form)
  BY SpellsMore
<1>2. ASSUME NEW t, NEW form \in Forms(n), Spells(n, t), After(u, t, form)
      PROVE  Ends(u, form) /\ Spells(n, Cut(u, Len(u) - Len(form)))
  <2>1. IsSeq(t) /\ IsSeq(form)
    BY <1>2, SpelledIs, FormIs
  <2>2. Ends(u, form) /\ Cut(u, Len(u) - Len(form)) = t
    BY <1>2, <2>1, AfterEnds
  <2> QED
    BY <1>2, <2>2
<1>3. ASSUME NEW form \in Forms(n), Ends(u, form), Spells(n, Cut(u, Len(u) - Len(form)))
      PROVE  \E t : Spells(n, t) /\ After(u, t, form)
  <2>1. IsSeq(form)
    BY FormIs
  <2>2. After(u, Cut(u, Len(u) - Len(form)), form)
    BY <1>3, <2>1, EndIsAfter
  <2> QED
    BY <1>3, <2>2
<1> QED
  BY <1>1, <1>2, <1>3

(* k tokens of an encoding follow a plan of n symbols, and it has more. *)
UnderWay(tokens, form, k, n) ==
    /\ form \in Forms(n) /\ k \in 0 .. Len(tokens) /\ k < Len(form)
    /\ Spells(n, Cut(tokens, Len(tokens) - k))
    /\ \A j \in 1 .. k : tokens[Len(tokens) - k + j] = form[j]

(* u begins with these tokens and has more. *)
Beyond(u, tokens) == Len(tokens) < Len(u) /\ \A i \in 1 .. Len(tokens) : u[i] = tokens[i]

(* A symbol under way leads to a plan that goes on with its next token.    *)
LEMMA LeadsOn ==
    ASSUME TokenizerInv, NEW tokens, IsSeq(tokens), NEW n \in Nat, NEW form, NEW k,
           UnderWay(tokens, form, k, n)
    PROVE  \E u : Spells(n + 1, u) /\ Beyond(u, tokens) /\ u[Len(tokens) + 1] = form[k + 1]
<1> DEFINE L == Len(tokens)
           t == Cut(tokens, L - k)
           u == t \o form
<1>1. L \in Nat
  BY LengthOfSeq
<1>2. /\ form \in Forms(n) /\ k \in 0 .. L /\ k < Len(form) /\ Spells(n, t)
      /\ \A j \in 1 .. k : tokens[L - k + j] = form[j]
  BY DEF UnderWay
<1>3. IsSeq(form) /\ Len(form) \in Nat \ {0}
  BY <1>2, FormIs
<1>4. L - k \in 0 .. Len(tokens)
  BY <1>1, <1>2
<1>5. IsSeq(t) /\ Len(t) = L - k /\ \A i \in 1 .. L - k : t[i] = tokens[i]
  BY <1>4, CutSeq
<1>6. After(u, t, form)
  BY DEF After
<1> HIDE DEF t, u
<1>7. /\ IsSeq(u) /\ Len(u) = Len(t) + Len(form)
      /\ \A i \in 1 .. Len(t) : u[i] = t[i]
      /\ \A i \in 1 .. Len(form) : u[Len(t) + i] = form[i]
  <2>1. IsSeq(t) /\ IsSeq(form) /\ After(u, t, form)
    BY <1>3, <1>5, <1>6
  <2> QED
    BY <2>1, ConcatSeq
<1>8. Spells(n + 1, u)
  BY <1>2, <1>6, SpellsMore
<1> HIDE DEF L
<1>9. L < Len(u)
  BY <1>1, <1>2, <1>3, <1>5, <1>7
<1>10. ASSUME NEW i \in 1 .. L PROVE u[i] = tokens[i]
  <2>1. CASE i <= L - k
    BY <1>1, <1>2, <1>5, <1>7, <2>1
  <2>2. CASE ~ i <= L - k
    <3>1. i - (L - k) \in 1 .. k /\ i - (L - k) \in 1 .. Len(form) /\ i = L - k + (i - (L - k))
      BY <1>1, <1>2, <1>3, <2>2
    <3> QED
      BY <1>2, <1>5, <1>7, <3>1
  <2> QED
    BY <2>1, <2>2
<1>11. u[L + 1] = form[k + 1]
  <2>1. k + 1 \in 1 .. Len(form) /\ L + 1 = L - k + (k + 1)
    BY <1>1, <1>2, <1>3
  <2> QED
    BY <1>5, <1>7, <2>1
<1> QED
  BY <1>8, <1>9, <1>10, <1>11 DEF Beyond, L
----------------------------------------------------------------------------
(* Continuations: the tokens that lead towards the encoding of a plan.     *)

(* Conversely, a plan that has more tokens goes through a symbol that is   *)
(* under way.                                                              *)
LEMMA CutShort ==
    ASSUME TokenizerInv, NEW tokens, IsSeq(tokens), NEW n \in Nat, NEW u,
           Spells(n, u), Beyond(u, tokens)
    PROVE  \E i \in 0 .. n - 1 : \E form, k :
               UnderWay(tokens, form, k, i) /\ form[k + 1] = u[Len(tokens) + 1]
<1> DEFINE L == Len(tokens)
           Through(v, m) == \E i \in 0 .. m - 1 : \E form, k :
                                UnderWay(tokens, form, k, i) /\ form[k + 1] = v[L + 1]
           T == {m \in Nat : \E v : Spells(m, v) /\ Beyond(v, tokens) /\ ~ Through(v, m)}
<1>0. L \in Nat
  BY LengthOfSeq
<1>1. T = {}
  <2> SUFFICES ASSUME T # {} PROVE FALSE
    OBVIOUS
  <2>1. T \in SUBSET Nat
    OBVIOUS
  <2>2. \A m : m \in T <=> m \in Nat /\ \E v : Spells(m, v) /\ Beyond(v, tokens) /\ ~ Through(v, m)
    OBVIOUS
  <2> HIDE DEF T
  <2>3. PICK m \in T : \A j \in T : m <= j
    BY <2>1, Least
  <2>4. m \in Nat
    BY <2>1
  <2>5. PICK v : Spells(m, v) /\ Beyond(v, tokens) /\ ~ Through(v, m)
    BY <2>2
  <2>6. IsSeq(v) /\ Len(v) \in Nat
    BY <2>4, <2>5, SpelledIs
  <2>7. L < Len(v) /\ \A i \in 1 .. L : v[i] = tokens[i]
    BY <2>5 DEF Beyond
  <2>8. m # 0
    <3> SUFFICES ASSUME m = 0 PROVE FALSE
      OBVIOUS
    <3>1. v = <<>>
      BY <2>5, SpellsNone
    <3>2. Len(v) = 0
      BY <3>1, NothingSeq
    <3> QED
      BY <1>0, <2>7, <3>2
  <2>9. m - 1 \in Nat /\ ~ m <= m - 1 /\ (m - 1) + 1 = m
    BY <2>4, <2>8
  <2>10. Spells((m - 1) + 1, v)
    BY <2>5, <2>9
  <2>11. PICK form \in Forms(m - 1) : Ends(v, form) /\ Spells(m - 1, Cut(v, Len(v) - Len(form)))
    BY <2>6, <2>9, <2>10, SpellsEnd
  <2>12. IsSeq(form) /\ Len(form) \in Nat \ {0}
    BY FormIs
  <2> DEFINE q == Len(v) - Len(form)
             t == Cut(v, q)
  <2>13. /\ Len(form) <= Len(v) /\ q \in 0 .. Len(v) /\ Len(v) = q + Len(form)
         /\ \A j \in 1 .. Len(form) : v[q + j] = form[j]
    BY <2>6, <2>11, <2>12 DEF Ends
  <2>14. Spells(m - 1, t)
    BY <2>11
  <2> HIDE DEF q
  <2>15. IsSeq(t) /\ Len(t) = q /\ \A i \in 1 .. q : t[i] = v[i]
    BY <2>6, <2>13, CutSeq
  <2> HIDE DEF t, L
  <2>16. q \in Nat
    BY <2>6, <2>13
  <2>17. CASE L < q
    <3>1. \A i \in 1 .. L : t[i] = tokens[i]
      BY <1>0, <2>7, <2>15, <2>16, <2>17
    <3>2. Beyond(t, tokens)
      BY <2>15, <2>17, <3>1 DEF Beyond, L
    <3>3. Through(t, m - 1)
      BY <2>2, <2>3, <2>9, <2>14, <3>2
    <3>4. t[L + 1] = v[L + 1]
      BY <1>0, <2>15, <2>16, <2>17
    <3>5. 0 .. (m - 1) - 1 \subseteq 0 .. m - 1
      BY <2>4
    <3>6. Through(v, m)
      BY <3>3, <3>4, <3>5
    <3> QED
      BY <2>5, <3>6
  <2>18. CASE q <= L
    <3> DEFINE k == L - q
    <3>1. k \in 0 .. L /\ k < Len(form) /\ L - k = q /\ L - k \in 0 .. L
      BY <1>0, <2>7, <2>12, <2>13, <2>16, <2>18
    <3> HIDE DEF k
    <3>2. /\ IsSeq(Cut(tokens, q)) /\ Len(Cut(tokens, q)) = q
          /\ \A i \in 1 .. q : Cut(tokens, q)[i] = tokens[i]
      BY <3>1, CutSeq DEF L
    <3>3. \A i \in 1 .. q : Cut(tokens, q)[i] = t[i]
      BY <1>0, <2>7, <2>15, <2>16, <2>18, <3>2
    <3>4. Cut(tokens, q) = t
      BY <2>15, <3>2, <3>3, SameSeq
    <3>5. ASSUME NEW j \in 1 .. k PROVE tokens[q + j] = form[j]
      <4>1. j \in 1 .. Len(form) /\ q + j \in 1 .. L
        BY <1>0, <2>12, <2>16, <3>1
      <4> QED
        BY <2>7, <2>13, <4>1
    <3>6. form[k + 1] = v[L + 1]
      <4>1. k + 1 \in 1 .. Len(form) /\ q + (k + 1) = L + 1
        BY <1>0, <2>12, <2>16, <3>1
      <4> QED
        BY <2>13, <4>1
    <3>7. UnderWay(tokens, form, k, m - 1)
      BY <2>14, <3>1, <3>4, <3>5 DEF UnderWay, L
    <3>8. m - 1 \in 0 .. m - 1
      BY <2>9
    <3>9. Through(v, m)
      BY <3>6, <3>7, <3>8
    <3> QED
      BY <2>5, <3>9
  <2> QED
    BY <1>0, <2>16, <2>17, <2>18
<1>2. Through(u, n)
  <2>1. n \notin T
    BY <1>1
  <2> QED
    BY <2>1
<1> QED
  BY <1>2

(* The most symbols of the plans that Targets ranges over. *)
Most(tokens) == IF kind = "encoder" THEN Len(tokens) + 1 ELSE MaxSymbols

LEMMA MostIs ==
    ASSUME NEW tokens, IsSeq(tokens)
    PROVE  Most(tokens) \in Nat \ {0}
<1>1. Len(tokens) \in Nat
  BY LengthOfSeq
<1>2. MaxSymbols \in Nat \ {0}
  BY GenerationAssumption
<1>3. Len(tokens) + 1 \in Nat \ {0}
  BY <1>1
<1> QED
  BY <1>2, <1>3 DEF Most

(* Targets are the encodings of plans of at most so many symbols.          *)
LEMMA TargetsAre ==
    ASSUME NEW tokens, IsSeq(tokens), NEW u
    PROVE  u \in Targets(tokens) <=> \E n \in 1 .. Most(tokens) : Spells(n, u)
<1> DEFINE M == Most(tokens)
<1>1. M \in Nat \ {0}
  BY MostIs
<1>2. Targets(tokens) = {Target(w) : w \in BoundedSeq(symbols, M) \ {<<>>}}
  BY DEF Targets, Most
<1> HIDE DEF M
<1>3. ASSUME NEW w PROVE w \in BoundedSeq(symbols, M) \ {<<>>} <=> \E n \in 1 .. M : w \in [1 .. n -> symbols]
  <2>1. w \in BoundedSeq(symbols, M) <=> \E n \in 0 .. M : w \in [1 .. n -> symbols]
    BY DEF BoundedSeq, SeqOf
  <2>2. ASSUME NEW n \in 0 .. M, w \in [1 .. n -> symbols] PROVE w # <<>> <=> n \in 1 .. M
    <3>1. n \in Nat
      BY <1>1
    <3>2. w \in Seq(symbols) /\ Len(w) = n
      BY <2>2, <3>1
    <3>3. w = <<>> <=> n = 0
      BY <3>2, EmptySeq
    <3> QED
      BY <1>1, <3>1, <3>3
  <2>3. 1 .. M \subseteq 0 .. M
    BY <1>1
  <2> QED
    BY <2>1, <2>2, <2>3
<1>4. u \in Targets(tokens) <=> \E n \in 1 .. M : \E w \in [1 .. n -> symbols] : u = Target(w)
  BY <1>2, <1>3
<1> QED
  BY <1>4 DEF Spells, M

(* The tokens that lead towards the encoding of a plan. *)
LEMMA ContinuationsAre ==
    ASSUME TokenizerInv, NEW tokens, IsSeq(tokens), NEW c
    PROVE  c \in Continuations(tokens) <=>
               \/ \E n \in 0 .. Most(tokens) - 1 : \E form, k :
                     UnderWay(tokens, form, k, n) /\ c = form[k + 1]
               \/ c = EOS /\ \E n \in 1 .. Most(tokens) : Spells(n, tokens)
<1> DEFINE M == Most(tokens)
           L == Len(tokens)
           longer == {w \in Targets(tokens) : Len(w) > Len(tokens) /\ IsPrefix(tokens, w)}
<1>1. M \in Nat \ {0} /\ L \in Nat
  BY MostIs, LengthOfSeq
<1>2. Continuations(tokens) = {w[L + 1] : w \in longer} \cup {EOS : w \in Targets(tokens) \cap {tokens}}
  BY DEF Continuations
<1>3. \A u : u \in Targets(tokens) <=> \E n \in 1 .. M : Spells(n, u)
  BY TargetsAre
<1>4. ASSUME NEW u \in Targets(tokens) PROVE u \in longer <=> Beyond(u, tokens)
  <2>1. PICK n \in 1 .. M : Spells(n, u)
    BY <1>3
  <2>2. n \in Nat
    BY <1>1
  <2>3. IsSeq(u) /\ Len(u) \in Nat
    BY <2>1, <2>2, SpelledIs
  <2>4. u \in longer <=> L < Len(u) /\ Cut(tokens, L) = Cut(u, L)
    BY <1>1, <2>3 DEF IsPrefix, Cut
  <2>5. ASSUME L < Len(u) PROVE Cut(tokens, L) = Cut(u, L) <=> \A i \in 1 .. L : u[i] = tokens[i]
    <3>1. L \in 0 .. Len(u) /\ L \in 0 .. Len(tokens)
      BY <1>1, <2>3, <2>5
    <3>2. IsSeq(Cut(u, L)) /\ Len(Cut(u, L)) = L /\ \A i \in 1 .. L : Cut(u, L)[i] = u[i]
      BY <2>3, <3>1, CutSeq
    <3>3. IsSeq(Cut(tokens, L)) /\ Len(Cut(tokens, L)) = L /\ \A i \in 1 .. L : Cut(tokens, L)[i] = tokens[i]
      BY <3>1, CutSeq
    <3> HIDE DEF L
    <3>4. (\A i \in 1 .. L : Cut(tokens, L)[i] = Cut(u, L)[i]) => Cut(tokens, L) = Cut(u, L)
      BY <3>2, <3>3, SameSeq
    <3>5. Cut(tokens, L) = Cut(u, L) => \A i \in 1 .. L : u[i] = tokens[i]
      BY <3>2, <3>3
    <3>6. (\A i \in 1 .. L : u[i] = tokens[i]) => Cut(tokens, L) = Cut(u, L)
      BY <3>2, <3>3, <3>4
    <3> QED
      BY <3>5, <3>6
  <2> QED
    BY <2>4, <2>5 DEF Beyond
<1>5. (\E w \in longer : c = w[L + 1]) <=> \E n \in 1 .. M : \E u : Spells(n, u) /\ Beyond(u, tokens) /\ c = u[L + 1]
  <2>1. longer \subseteq Targets(tokens)
    OBVIOUS
  <2> HIDE DEF longer
  <2> QED
    BY <1>3, <1>4, <2>1
<1>6. ASSUME NEW n \in 1 .. M, NEW u, Spells(n, u), Beyond(u, tokens), c = u[L + 1]
      PROVE  \E i \in 0 .. M - 1 : \E form, k : UnderWay(tokens, form, k, i) /\ c = form[k + 1]
  <2>1. n \in Nat /\ 0 .. n - 1 \subseteq 0 .. M - 1
    BY <1>1
  <2>2. \E i \in 0 .. n - 1 : \E form, k : UnderWay(tokens, form, k, i) /\ form[k + 1] = u[Len(tokens) + 1]
    BY <1>6, <2>1, CutShort
  <2> QED
    BY <1>6, <2>1, <2>2
<1>7. ASSUME NEW n \in 0 .. M - 1, NEW form, NEW k, UnderWay(tokens, form, k, n), c = form[k + 1]
      PROVE  \E i \in 1 .. M : \E u : Spells(i, u) /\ Beyond(u, tokens) /\ c = u[L + 1]
  <2>1. n \in Nat /\ n + 1 \in 1 .. M
    BY <1>1
  <2>2. \E u : Spells(n + 1, u) /\ Beyond(u, tokens) /\ u[Len(tokens) + 1] = form[k + 1]
    BY <1>7, <2>1, LeadsOn
  <2> QED
    BY <1>7, <2>1, <2>2
<1>8. c \in {EOS : w \in Targets(tokens) \cap {tokens}} <=> c = EOS /\ \E n \in 1 .. M : Spells(n, tokens)
  BY <1>3
<1>9. c \in Continuations(tokens) <=> (\E w \in longer : c = w[L + 1]) \/ c \in {EOS : w \in Targets(tokens) \cap {tokens}}
  BY <1>2
<1> HIDE DEF M, L, longer
<1>10. (\E w \in longer : c = w[L + 1]) <=> \E n \in 0 .. M - 1 : \E form, k : UnderWay(tokens, form, k, n) /\ c = form[k + 1]
  BY <1>5, <1>6, <1>7
<1> QED
  BY <1>8, <1>9, <1>10 DEF M
----------------------------------------------------------------------------
(* The encoder's recognizer.                                               *)

LEMMA CutAll == ASSUME NEW s, IsSeq(s) PROVE Cut(s, Len(s)) = s
<1>1. Len(s) \in 0 .. Len(s)
  BY LengthOfSeq
<1>2. IsSeq(Cut(s, Len(s))) /\ Len(Cut(s, Len(s))) = Len(s) /\ \A i \in 1 .. Len(s) : Cut(s, Len(s))[i] = s[i]
  BY <1>1, CutSeq
<1> QED
  BY <1>2, SameSeq

(* What is cut twice can be cut once. *)
LEMMA CutCut ==
    ASSUME NEW s, IsSeq(s), NEW p \in 0 .. Len(s), NEW q \in 0 .. p
    PROVE  Cut(Cut(s, p), q) = Cut(s, q)
<1> DEFINE t == Cut(s, p)
<1>1. Len(s) \in Nat
  BY LengthOfSeq
<1>2. IsSeq(t) /\ Len(t) = p /\ \A i \in 1 .. p : t[i] = s[i]
  BY CutSeq
<1>3. q \in 0 .. Len(s) /\ q \in 0 .. Len(t) /\ 1 .. q \subseteq 1 .. p
  BY <1>1, <1>2
<1> HIDE DEF t
<1>4. IsSeq(Cut(t, q)) /\ Len(Cut(t, q)) = q /\ \A i \in 1 .. q : Cut(t, q)[i] = t[i]
  BY <1>2, <1>3, CutSeq
<1>5. IsSeq(Cut(s, q)) /\ Len(Cut(s, q)) = q /\ \A i \in 1 .. q : Cut(s, q)[i] = s[i]
  BY <1>3, CutSeq
<1>6. \A i \in 1 .. q : Cut(t, q)[i] = Cut(s, q)[i]
  BY <1>2, <1>3, <1>4, <1>5
<1>7. Cut(t, q) = Cut(s, q)
  BY <1>4, <1>5, <1>6, SameSeq
<1> QED
  BY <1>7 DEF t

-----------------------------------------------------------------------------
(* The encoder's recognizer.                                               *)

(* Some plan ends at position p. *)
EndsAt(tokens, p) == \E n \in Nat : Spells(n, Cut(tokens, p))

(* The first symbol is the one at position 0. *)
LEMMA FormsAtIs ==
    ASSUME TokenizerInv, NEW tokens, IsSeq(tokens), NEW p \in 0 .. Len(tokens),
           NEW n \in Nat, Spells(n, Cut(tokens, p))
    PROVE  FormsAt(p) = Forms(n) /\ n <= p /\ (n = 0 <=> p = 0)
<1>1. Len(Cut(tokens, p)) = p
  BY CutSeq
<1>2. n <= p
  BY <1>1, SpelledIs
<1>3. n = 0 => p = 0
  <2> SUFFICES ASSUME n = 0 PROVE p = 0
    OBVIOUS
  <2>1. Cut(tokens, p) = <<>>
    BY SpellsNone
  <2> QED
    BY <1>1, <2>1, NothingSeq
<1>4. n = 0 <=> p = 0
  BY <1>2, <1>3
<1> QED
  BY <1>2, <1>4 DEF FormsAt, Forms

(* One symbol that ends at p began where another ended. *)
LEMMA EndsAtStep ==
    ASSUME TokenizerInv, NEW tokens, IsSeq(tokens), NEW p \in 0 .. Len(tokens)
    PROVE  EndsAt(tokens, p) <=>
               p = 0 \/ \E q \in 0 .. p - 1 : EndsAt(tokens, q) /\ \E form \in FormsAt(q) :
                            Len(form) = p - q /\ Matches(form, tokens, q)
<1> DEFINE u == Cut(tokens, p)
<1>0. Len(tokens) \in Nat /\ p \in Nat /\ p <= Len(tokens)
  BY LengthOfSeq
<1>1. IsSeq(u) /\ Len(u) = p /\ \A i \in 1 .. p : u[i] = tokens[i]
  BY CutSeq
<1>2. EndsAt(tokens, 0)
  <2>1. IsSeq(Cut(tokens, 0)) /\ Len(Cut(tokens, 0)) = 0
    BY <1>0, CutSeq
  <2>2. Cut(tokens, 0) = <<>>
    BY <2>1, NoneIsEmpty
  <2> QED
    BY <2>2, SpellsNone DEF EndsAt
<1>3. ASSUME NEW q \in 0 .. p - 1, NEW form, IsSeq(form), Len(form) = p - q
      PROVE  Ends(u, form) <=> Matches(form, tokens, q)
  <2>1. q \in Nat /\ Len(form) \in Nat /\ Len(u) - Len(form) = q /\ Len(form) <= Len(u)
    BY <1>0, <1>1, <1>3
  <2>2. \A i \in 1 .. Len(form) : q + i \in 1 .. p /\ q + i <= Len(tokens)
    BY <1>0, <1>3, <2>1
  <2> HIDE DEF u
  <2>3. Ends(u, form) <=> \A i \in 1 .. Len(form) : u[q + i] = form[i]
    BY <2>1 DEF Ends
  <2>4. Matches(form, tokens, q) <=> \A i \in 1 .. Len(form) : tokens[q + i] = form[i]
    BY <2>2 DEF Matches
  <2>5. \A i \in 1 .. Len(form) : u[q + i] = tokens[q + i]
    BY <1>1, <2>2
  <2> QED
    BY <2>3, <2>4, <2>5
<1>4. ASSUME EndsAt(tokens, p), p # 0
      PROVE  \E q \in 0 .. p - 1 : EndsAt(tokens, q) /\ \E form \in FormsAt(q) :
                            Len(form) = p - q /\ Matches(form, tokens, q)
  <2>1. PICK n \in Nat : Spells(n, u)
    BY <1>4 DEF EndsAt
  <2>2. n # 0
    BY <1>4, <2>1, FormsAtIs
  <2>3. n - 1 \in Nat /\ (n - 1) + 1 = n
    BY <2>2
  <2>4. Spells((n - 1) + 1, u)
    BY <2>1, <2>3
  <2>5. PICK form \in Forms(n - 1) : Ends(u, form) /\ Spells(n - 1, Cut(u, Len(u) - Len(form)))
    BY <1>1, <2>3, <2>4, SpellsEnd
  <2>6. IsSeq(form) /\ Len(form) \in Nat \ {0}
    BY FormIs
  <2> DEFINE q == p - Len(form)
  <2>7. Len(form) <= p /\ q \in 0 .. p - 1 /\ q \in 0 .. p /\ q \in 0 .. Len(tokens)
        /\ Len(form) = p - q /\ Len(u) - Len(form) = q
    BY <1>0, <1>1, <2>5, <2>6 DEF Ends
  <2> HIDE DEF q
  <2>8. Cut(u, q) = Cut(tokens, q)
    BY <2>7, CutCut
  <2>9. Spells(n - 1, Cut(tokens, q))
    BY <2>5, <2>7, <2>8
  <2>10. FormsAt(q) = Forms(n - 1)
    BY <2>3, <2>7, <2>9, FormsAtIs
  <2>11. Matches(form, tokens, q)
    BY <1>3, <2>5, <2>6, <2>7
  <2>12. EndsAt(tokens, q)
    BY <2>3, <2>9 DEF EndsAt
  <2> QED
    BY <2>7, <2>10, <2>11, <2>12
<1>5. ASSUME NEW q \in 0 .. p - 1, EndsAt(tokens, q), NEW form \in FormsAt(q),
             Len(form) = p - q, Matches(form, tokens, q)
      PROVE  EndsAt(tokens, p)
  <2>1. q \in 0 .. p /\ q \in 0 .. Len(tokens)
    BY <1>0
  <2>2. PICK n \in Nat : Spells(n, Cut(tokens, q))
    BY <1>5 DEF EndsAt
  <2>3. form \in Forms(n)
    BY <1>5, <2>1, <2>2, FormsAtIs
  <2>4. IsSeq(form)
    BY <2>3, FormIs
  <2>5. Ends(u, form)
    BY <1>3, <1>5, <2>4
  <2>6. Len(u) - Len(form) = q
    BY <1>0, <1>1, <1>5
  <2>7. Cut(u, q) = Cut(tokens, q)
    BY <2>1, CutCut
  <2>8. Spells(n, Cut(u, Len(u) - Len(form)))
    BY <2>2, <2>6, <2>7
  <2>9. Spells(n + 1, u)
    BY <1>1, <2>3, <2>5, <2>8, SpellsEnd
  <2>10. n + 1 \in Nat
    OBVIOUS
  <2> QED
    BY <2>9, <2>10 DEF EndsAt
<1> QED
  BY <1>2, <1>4, <1>5

(* The search finds the ends of plans. *)
LEMMA BoundariesAre ==
    ASSUME TokenizerInv, NEW tokens, IsSeq(tokens)
    PROVE  Boundaries(tokens) = {p \in 0 .. Len(tokens) : EndsAt(tokens, p)}
<1> DEFINE L == Len(tokens)
           Leads(r, p) == p = 0 \/ \E q \in 0 .. p - 1 : r[q] /\ \E form \in FormsAt(q) :
                                       Len(form) = p - q /\ Matches(form, tokens, q)
           reached == CHOOSE r : r = [p \in 0 .. L |-> Leads(r, p)]
           g == [p \in 0 .. L |-> EndsAt(tokens, p)]
<1>0. L \in Nat
  BY LengthOfSeq
<1>1. Boundaries(tokens) = {p \in 0 .. L : reached[p]}
  BY DEF Boundaries
<1>2. g = [p \in 0 .. L |-> Leads(g, p)]
  <2>1. ASSUME NEW p \in 0 .. L PROVE EndsAt(tokens, p) <=> Leads(g, p)
    <3>1. \A q \in 0 .. p - 1 : q \in 0 .. L /\ g[q] = EndsAt(tokens, q)
      BY <1>0
    <3> HIDE DEF g
    <3>2. Leads(g, p) <=> p = 0 \/ \E q \in 0 .. p - 1 : EndsAt(tokens, q) /\ \E form \in FormsAt(q) :
                                       Len(form) = p - q /\ Matches(form, tokens, q)
      BY <3>1
    <3> QED
      BY <3>2, EndsAtStep
  <2>2. ASSUME NEW p \in 0 .. L PROVE EndsAt(tokens, p) = Leads(g, p)
    <3>1. EndsAt(tokens, p) \in BOOLEAN /\ Leads(g, p) \in BOOLEAN
      BY DEF EndsAt
    <3> HIDE DEF Leads
    <3> QED
      BY <2>1, <3>1
  <2> HIDE DEF Leads
  <2> QED
    BY <2>2, Zenon
<1>3. reached = [p \in 0 .. L |-> Leads(reached, p)]
  <2> HIDE DEF g, Leads
  <2>1. \E r : r = [p \in 0 .. L |-> Leads(r, p)]
    BY <1>2
  <2> QED
    BY <2>1
<1> HIDE DEF reached
<1>4. \A p \in 0 .. L : reached[p] <=> Leads(reached, p)
  <2> HIDE DEF Leads
  <2> QED
    BY <1>3
<1> DEFINE T == {p \in 0 .. L : ~ (reached[p] <=> EndsAt(tokens, p))}
<1>5. T = {}
  <2> SUFFICES ASSUME T # {} PROVE FALSE
    OBVIOUS
  <2>1. T \in SUBSET Nat
    OBVIOUS
  <2>2. \A p : p \in T <=> p \in 0 .. L /\ ~ (reached[p] <=> EndsAt(tokens, p))
    OBVIOUS
  <2> HIDE DEF T
  <2>3. PICK p \in T : \A q \in T : p <= q
    BY <2>1, Least
  <2>4. p \in 0 .. L
    BY <2>2
  <2>5. \A q \in 0 .. p - 1 : q \in 0 .. L /\ ~ p <= q
    BY <1>0, <2>4
  <2>6. \A q \in 0 .. p - 1 : reached[q] <=> EndsAt(tokens, q)
    BY <2>2, <2>3, <2>5
  <2>7. reached[p] <=> p = 0 \/ \E q \in 0 .. p - 1 : EndsAt(tokens, q) /\ \E form \in FormsAt(q) :
                                       Len(form) = p - q /\ Matches(form, tokens, q)
    BY <1>4, <2>4, <2>6
  <2>8. reached[p] <=> EndsAt(tokens, p)
    BY <2>4, <2>7, EndsAtStep
  <2> QED
    BY <2>2, <2>8
<1> QED
  BY <1>1, <1>5

(* It allows what leads towards a plan. *)
LEMMA EncoderIsExact ==
    ASSUME TokenizerInv, kind = "encoder", NEW tokens, IsSeq(tokens)
    PROVE  EncoderAllowed(tokens) = Continuations(tokens)
<1> DEFINE L == Len(tokens)
<1>0. L \in Nat /\ Most(tokens) = L + 1 /\ Most(tokens) - 1 = L
  BY LengthOfSeq DEF Most
<1>1. ASSUME NEW c
      PROVE  c \in EncoderAllowed(tokens) <=>
                 \/ \E p \in Boundaries(tokens) : \E form \in Open(tokens, p) : c = form[L - p + 1]
                 \/ c = EOS /\ L \in Boundaries(tokens) \ {0}
  <2>1. c \in EncoderAllowed(tokens) <=>
            \/ \E p \in Boundaries(tokens) : c \in Onward(tokens, p)
            \/ c \in {EOS : p \in (Boundaries(tokens) \ {0}) \cap {L}}
    <3> DEFINE All == UNION {Onward(tokens, p) : p \in Boundaries(tokens)}
    <3>1. c \in All <=> \E p \in Boundaries(tokens) : c \in Onward(tokens, p)
      BY ZenonT(30)
    <3>2. EncoderAllowed(tokens) = All \cup {EOS : p \in (Boundaries(tokens) \ {0}) \cap {L}}
      BY DEF EncoderAllowed
    <3> HIDE DEF All
    <3> QED
      BY <3>1, <3>2
  <2>2. \A p : c \in Onward(tokens, p) <=> \E form \in Open(tokens, p) : c = form[L - p + 1]
    BY DEF Onward
  <2>3. c \in {EOS : p \in (Boundaries(tokens) \ {0}) \cap {L}} <=> c = EOS /\ L \in Boundaries(tokens) \ {0}
    OBVIOUS
  <2> QED
    BY <2>1, <2>2, <2>3
<1>2. \A p : p \in Boundaries(tokens) <=> p \in 0 .. L /\ EndsAt(tokens, p)
  BY BoundariesAre
<1>3. ASSUME NEW p \in Boundaries(tokens), NEW form \in Open(tokens, p)
      PROVE  \E n \in 0 .. L : \E k : UnderWay(tokens, form, k, n) /\ form[L - p + 1] = form[k + 1]
  <2> DEFINE k == L - p
  <2>1. p \in 0 .. L /\ form \in FormsAt(p) /\ p + Len(form) > L /\ Matches(form, tokens, p)
    BY <1>2 DEF Open
  <2>2. PICK n \in Nat : Spells(n, Cut(tokens, p))
    BY <1>2 DEF EndsAt
  <2>3. form \in Forms(n) /\ n \in 0 .. L
    <3>1. form \in Forms(n) /\ n <= p
      BY <2>1, <2>2, FormsAtIs
    <3> QED
      BY <1>0, <2>1, <3>1
  <2>4. Len(form) \in Nat
    BY <2>3, FormIs
  <2>5. k \in 0 .. L /\ k < Len(form) /\ L - k = p
    BY <1>0, <2>1, <2>4
  <2>6. ASSUME NEW j \in 1 .. k PROVE tokens[p + j] = form[j]
    <3>1. j \in 1 .. Len(form) /\ p + j <= Len(tokens)
      BY <1>0, <2>1, <2>4
    <3> QED
      BY <2>1, <3>1 DEF Matches
  <2> HIDE DEF k
  <2>7. UnderWay(tokens, form, k, n)
    BY <2>2, <2>3, <2>5, <2>6 DEF UnderWay
  <2> QED
    BY <2>3, <2>7 DEF k
<1>4. ASSUME NEW n \in 0 .. L, NEW form, NEW k, UnderWay(tokens, form, k, n)
      PROVE  \E p \in Boundaries(tokens) : form \in Open(tokens, p) /\ form[L - p + 1] = form[k + 1]
  <2> DEFINE p == L - k
  <2>1. /\ form \in Forms(n) /\ k \in 0 .. L /\ k < Len(form) /\ Spells(n, Cut(tokens, p))
        /\ \A j \in 1 .. k : tokens[p + j] = form[j]
    BY <1>4 DEF UnderWay
  <2>2. n \in Nat /\ Len(form) \in Nat
    BY <2>1, FormIs
  <2>3. p \in 0 .. L /\ p + Len(form) > L /\ L - p = k
    BY <1>0, <2>1, <2>2
  <2> HIDE DEF p
  <2>4. p \in Boundaries(tokens)
    BY <1>2, <2>1, <2>2, <2>3 DEF EndsAt
  <2>5. form \in FormsAt(p)
    BY <2>1, <2>2, <2>3, FormsAtIs
  <2>6. Matches(form, tokens, p)
    <3>1. ASSUME NEW i \in 1 .. Len(form), p + i <= L PROVE i \in 1 .. k
      BY <1>0, <2>1, <2>2, <2>3, <3>1
    <3> QED
      BY <2>1, <3>1 DEF Matches
  <2> QED
    BY <2>3, <2>4, <2>5, <2>6 DEF Open
<1>5. L \in Boundaries(tokens) \ {0} <=> \E n \in 1 .. L + 1 : Spells(n, tokens)
  <2>1. Cut(tokens, L) = tokens /\ L \in 0 .. L
    BY <1>0, CutAll
  <2>2. L \in Boundaries(tokens) <=> \E n \in Nat : Spells(n, tokens)
    BY <1>2, <2>1 DEF EndsAt
  <2>3. ASSUME NEW n \in Nat, Spells(n, tokens) PROVE n <= L /\ (n = 0 <=> L = 0)
    BY <2>1, <2>3, FormsAtIs
  <2>4. 1 .. L + 1 \subseteq Nat
    BY <1>0
  <2>5. ASSUME NEW n \in 1 .. L + 1, Spells(n, tokens) PROVE L \in Boundaries(tokens) \ {0}
    BY <2>2, <2>3, <2>4, <2>5
  <2>6. ASSUME NEW n \in Nat, Spells(n, tokens), L # 0 PROVE n \in 1 .. L + 1
    BY <1>0, <2>3, <2>6
  <2> QED
    BY <2>2, <2>5, <2>6
<1>6. ASSUME NEW c PROVE c \in EncoderAllowed(tokens) <=> c \in Continuations(tokens)
  <2>1. c \in Continuations(tokens) <=>
               \/ \E n \in 0 .. L : \E form, k : UnderWay(tokens, form, k, n) /\ c = form[k + 1]
               \/ c = EOS /\ \E n \in 1 .. L + 1 : Spells(n, tokens)
    BY <1>0, ContinuationsAre
  <2>2. (\E p \in Boundaries(tokens) : \E form \in Open(tokens, p) : c = form[L - p + 1])
            <=> \E n \in 0 .. L : \E form, k : UnderWay(tokens, form, k, n) /\ c = form[k + 1]
    <3> HIDE DEF L
    <3> QED
      BY <1>3, <1>4
  <2> QED
    BY <1>1, <1>5, <2>1, <2>2
<1> QED
  BY <1>6
----------------------------------------------------------------------------
(* The decoder's recognizer.                                               *)

(* What is where in a sequence with one element more. *)
LEMMA AppendIs ==
    ASSUME NEW s, IsSeq(s), NEW x
    PROVE  /\ IsSeq(Append(s, x)) /\ Len(Append(s, x)) = Len(s) + 1
           /\ \A i \in 1 .. Len(s) : Append(s, x)[i] = s[i]
           /\ Append(s, x)[Len(s) + 1] = x
<1> DEFINE S == Range(s) \cup {x}
<1>1. s \in Seq(S) /\ x \in S
  <2>1. s \in Seq(Range(s))
    BY DEF IsSeq
  <2> QED
    BY <2>1
<1> HIDE DEF S
<1>2. /\ Append(s, x) \in Seq(S) /\ Len(Append(s, x)) = Len(s) + 1
      /\ \A i \in 1 .. Len(s) : Append(s, x)[i] = s[i]
      /\ Append(s, x)[Len(s) + 1] = x
  BY <1>1
<1> QED
  BY <1>2, AnySeq

(* An element more does not change what is cut before it. *)
LEMMA CutAppend ==
    ASSUME NEW s, IsSeq(s), NEW x, NEW q \in 0 .. Len(s)
    PROVE  Cut(Append(s, x), q) = Cut(s, q)
<1> DEFINE u == Append(s, x)
<1>1. Len(s) \in Nat
  BY LengthOfSeq
<1>2. IsSeq(u) /\ Len(u) = Len(s) + 1 /\ \A i \in 1 .. Len(s) : u[i] = s[i]
  BY AppendIs
<1> HIDE DEF u
<1>3. q \in 0 .. Len(u) /\ 1 .. q \subseteq 1 .. Len(s)
  BY <1>1, <1>2
<1>4. IsSeq(Cut(u, q)) /\ Len(Cut(u, q)) = q /\ \A i \in 1 .. q : Cut(u, q)[i] = u[i]
  BY <1>2, <1>3, CutSeq
<1>5. IsSeq(Cut(s, q)) /\ Len(Cut(s, q)) = q /\ \A i \in 1 .. q : Cut(s, q)[i] = s[i]
  BY CutSeq
<1>6. \A i \in 1 .. q : Cut(u, q)[i] = Cut(s, q)[i]
  BY <1>2, <1>3, <1>4, <1>5
<1>7. Cut(u, q) = Cut(s, q)
  BY <1>4, <1>5, <1>6, SameSeq
<1> QED
  BY <1>7 DEF u

-----------------------------------------------------------------------------
(* The decoder's recognizer.                                               *)

(* One more token of a symbol that is under way. *)
LEMMA OneToken ==
    ASSUME TokenizerInv, NEW tokens, IsSeq(tokens), NEW x, NEW form, NEW k \in Nat, NEW n \in Nat
    PROVE  UnderWay(Append(tokens, x), form, k + 1, n) <=>
               UnderWay(tokens, form, k, n) /\ form[k + 1] = x /\ k + 1 < Len(form)
<1> DEFINE u == Append(tokens, x)
           L == Len(tokens)
<1>1. L \in Nat
  BY LengthOfSeq
<1>2. IsSeq(u) /\ Len(u) = L + 1 /\ (\A i \in 1 .. L : u[i] = tokens[i]) /\ u[L + 1] = x
  BY AppendIs
<1>3. ASSUME NEW q \in 0 .. L PROVE Cut(u, q) = Cut(tokens, q)
  BY CutAppend
<1>4. form \in Forms(n) => Len(form) \in Nat
  BY FormIs
<1>5. UnderWay(u, form, k + 1, n) <=>
          /\ form \in Forms(n) /\ k + 1 \in 0 .. Len(u) /\ k + 1 < Len(form)
          /\ Spells(n, Cut(u, Len(u) - (k + 1)))
          /\ \A j \in 1 .. k + 1 : u[Len(u) - (k + 1) + j] = form[j]
  BY DEF UnderWay
<1>6. UnderWay(tokens, form, k, n) <=>
          /\ form \in Forms(n) /\ k \in 0 .. L /\ k < Len(form)
          /\ Spells(n, Cut(tokens, L - k))
          /\ \A j \in 1 .. k : tokens[L - k + j] = form[j]
  BY DEF UnderWay
<1> HIDE DEF u, L
<1>7. (k + 1 \in 0 .. Len(u) <=> k \in 0 .. L) /\ Len(u) - (k + 1) = L - k
  BY <1>1, <1>2
<1>8. ASSUME k \in 0 .. L
      PROVE  (\A j \in 1 .. k + 1 : u[L - k + j] = form[j]) <=>
                 (\A j \in 1 .. k : tokens[L - k + j] = form[j]) /\ form[k + 1] = x
  <2>1. \A j \in 1 .. k : j \in 1 .. k + 1 /\ L - k + j \in 1 .. L
    BY <1>1, <1>8
  <2>2. \A j \in 1 .. k : u[L - k + j] = tokens[L - k + j]
    BY <1>2, <2>1
  <2>3. \A j \in 1 .. k + 1 : j \in 1 .. k \/ j = k + 1
    OBVIOUS
  <2>4. L - k + (k + 1) = L + 1 /\ k + 1 \in 1 .. k + 1
    BY <1>1
  <2>5. u[L - k + (k + 1)] = x
    BY <1>2, <2>4
  <2> QED
    BY <2>1, <2>2, <2>3, <2>4, <2>5
<1>9. ASSUME k \in 0 .. L PROVE Cut(u, L - k) = Cut(tokens, L - k)
  <2>1. L - k \in 0 .. L
    BY <1>1, <1>9
  <2> QED
    BY <1>3, <2>1
<1>10. form \in Forms(n) /\ k + 1 < Len(form) => k < Len(form)
  BY <1>4
<1>11. UnderWay(u, form, k + 1, n) <=> UnderWay(tokens, form, k, n) /\ form[k + 1] = x /\ k + 1 < Len(form)
  <2>1. CASE k \in 0 .. L
    BY <1>5, <1>6, <1>7, <1>8, <1>9, <1>10, <2>1
  <2>2. CASE k \notin 0 .. L
    BY <1>5, <1>6, <1>7, <2>2
  <2> QED
    BY <2>1, <2>2
<1> QED
  BY <1>11 DEF u

(* The last token of a symbol. *)
LEMMA LastToken ==
    ASSUME TokenizerInv, NEW tokens, IsSeq(tokens), NEW x, NEW n \in Nat
    PROVE  Spells(n + 1, Append(tokens, x)) <=>
               \E form : \E k \in Nat : UnderWay(tokens, form, k, n) /\ form[k + 1] = x /\ k + 1 = Len(form)
<1> DEFINE u == Append(tokens, x)
           L == Len(tokens)
<1>1. L \in Nat
  BY LengthOfSeq
<1>2. IsSeq(u) /\ Len(u) = L + 1 /\ (\A i \in 1 .. L : u[i] = tokens[i]) /\ u[L + 1] = x
  BY AppendIs
<1>3. ASSUME NEW q \in 0 .. L PROVE Cut(u, q) = Cut(tokens, q)
  BY CutAppend
<1>4. Spells(n + 1, u) <=> \E form \in Forms(n) : Ends(u, form) /\ Spells(n, Cut(u, Len(u) - Len(form)))
  BY <1>2, SpellsEnd
<1>5. ASSUME NEW form, NEW k
      PROVE  UnderWay(tokens, form, k, n) <=>
          /\ form \in Forms(n) /\ k \in 0 .. L /\ k < Len(form)
          /\ Spells(n, Cut(tokens, L - k))
          /\ \A j \in 1 .. k : tokens[L - k + j] = form[j]
  BY DEF UnderWay
<1> HIDE DEF u, L
<1>6. ASSUME NEW form \in Forms(n), NEW k \in Nat, k + 1 = Len(form), k \in 0 .. L
      PROVE  Ends(u, form) <=> (\A j \in 1 .. k : tokens[L - k + j] = form[j]) /\ form[k + 1] = x
  <2>1. Len(form) <= Len(u) /\ Len(u) - Len(form) = L - k
    BY <1>1, <1>2, <1>6
  <2>2. Ends(u, form) <=> \A j \in 1 .. k + 1 : u[L - k + j] = form[j]
    BY <1>6, <2>1 DEF Ends
  <2>3. \A j \in 1 .. k : j \in 1 .. k + 1 /\ L - k + j \in 1 .. L
    BY <1>1, <1>6
  <2>4. \A j \in 1 .. k : u[L - k + j] = tokens[L - k + j]
    BY <1>2, <2>3
  <2>5. \A j \in 1 .. k + 1 : j \in 1 .. k \/ j = k + 1
    OBVIOUS
  <2>6. L - k + (k + 1) = L + 1 /\ k + 1 \in 1 .. k + 1
    BY <1>1
  <2>7. u[L - k + (k + 1)] = x
    BY <1>2, <2>6
  <2> QED
    BY <2>2, <2>3, <2>4, <2>5, <2>6, <2>7
<1>7. ASSUME NEW form \in Forms(n), NEW k \in Nat, k + 1 = Len(form), k \in 0 .. L
      PROVE  Cut(u, Len(u) - Len(form)) = Cut(tokens, L - k)
  <2>1. L - k \in 0 .. L /\ Len(u) - Len(form) = L - k
    BY <1>1, <1>2, <1>7
  <2> QED
    BY <1>3, <2>1
<1>8. ASSUME NEW form \in Forms(n), Ends(u, form), Spells(n, Cut(u, Len(u) - Len(form)))
      PROVE  \E k \in Nat : UnderWay(tokens, form, k, n) /\ form[k + 1] = x /\ k + 1 = Len(form)
  <2> DEFINE k == Len(form) - 1
  <2>1. Len(form) \in Nat \ {0} /\ Len(form) <= Len(u)
    BY <1>8, FormIs DEF Ends
  <2>2. k \in Nat /\ k + 1 = Len(form) /\ k \in 0 .. L /\ k < Len(form)
    BY <1>1, <1>2, <2>1
  <2> HIDE DEF k
  <2>3. (\A j \in 1 .. k : tokens[L - k + j] = form[j]) /\ form[k + 1] = x
    BY <1>6, <1>8, <2>2
  <2>4. Spells(n, Cut(tokens, L - k))
    BY <1>7, <1>8, <2>2
  <2> QED
    BY <1>5, <2>2, <2>3, <2>4
<1>9. ASSUME NEW form, NEW k \in Nat, UnderWay(tokens, form, k, n), form[k + 1] = x, k + 1 = Len(form)
      PROVE  form \in Forms(n) /\ Ends(u, form) /\ Spells(n, Cut(u, Len(u) - Len(form)))
  <2>1. form \in Forms(n) /\ k \in 0 .. L /\ Spells(n, Cut(tokens, L - k))
        /\ \A j \in 1 .. k : tokens[L - k + j] = form[j]
    BY <1>5, <1>9
  <2> QED
    BY <1>6, <1>7, <1>9, <2>1
<1>10. Spells(n + 1, u) <=> \E form : \E k \in Nat : UnderWay(tokens, form, k, n) /\ form[k + 1] = x /\ k + 1 = Len(form)
  BY <1>4, <1>8, <1>9
<1> QED
  BY <1>10 DEF u

(* The state in which the decoder's recognizer should be after tokens: the *)
(* symbols of which it has read a token, ...                               *)
Triple == (First \cup Following) \X Nat \X Nat

UnderWayIn(tokens) ==
    {c \in Triple : c[3] < MaxSymbols /\ UnderWay(tokens, c[1], c[2], c[3]) /\ (c[2] # 0 \/ tokens = <<>>)}

(* ... and the numbers of symbols that are complete.                       *)
CompleteIn(tokens) == {n \in 1 .. MaxSymbols : Spells(n, tokens)}

Recognized(tokens) == [candidates |-> UnderWayIn(tokens), boundary |-> CompleteIn(tokens)]

(* The local definitions of Consume. *)
Begun(state) == {<<form, 0, n>> : form \in Following, n \in {m \in state.boundary : m < MaxSymbols}}

Reading(state, token) == {c \in state.candidates \cup Begun(state) : c[1][c[2] + 1] = token}

Moved(state, token) == {<<c[1], c[2] + 1, c[3]>> : c \in Reading(state, token)}

(* The code's step, by its parts. *)
LEMMA ConsumeIs ==
    ASSUME NEW state, NEW token
    PROVE  Consume(state, token) =
               [candidates |-> {c \in Moved(state, token) : c[2] < Len(c[1])},
                boundary |-> {c[3] + 1 : c \in {c \in Moved(state, token) : c[2] = Len(c[1])}}]
  BY DEF Consume, Moved, Reading, Begun

(* What a symbol under way is, as a candidate of the recognizer.           *)
LEMMA UnderWayIs ==
    ASSUME TokenizerInv, NEW tokens, IsSeq(tokens), NEW form, NEW k, NEW n \in Nat, UnderWay(tokens, form, k, n)
    PROVE  /\ form \in First \cup Following /\ k \in Nat /\ <<form, k, n>> \in Triple
           /\ Len(form) \in Nat /\ IsSeq(form)
           /\ k = 0 => Spells(n, tokens)
           /\ k = 0 /\ n = 0 => tokens = <<>>
<1>1. form \in Forms(n) /\ k \in 0 .. Len(tokens) /\ Spells(n, Cut(tokens, Len(tokens) - k))
  BY DEF UnderWay
<1>2. form \in First \cup Following /\ k \in Nat /\ Len(tokens) \in Nat
  BY <1>1, LengthOfSeq DEF Forms
<1>3. k = 0 => Spells(n, tokens)
  <2> SUFFICES ASSUME k = 0 PROVE Spells(n, tokens)
    OBVIOUS
  <2>1. Len(tokens) - k = Len(tokens)
    BY <1>2
  <2>2. Cut(tokens, Len(tokens)) = tokens
    BY CutAll
  <2> QED
    BY <1>1, <2>1, <2>2
<1>4. k = 0 /\ n = 0 => tokens = <<>>
  BY <1>3, SpellsNone
<1>5. <<form, k, n>> \in Triple
  BY <1>2 DEF Triple
<1>6. Len(form) \in Nat /\ IsSeq(form)
  BY <1>1, FormIs
<1> QED
  BY <1>2, <1>3, <1>4, <1>5, <1>6

(* What may get the next token. *)
LEMMA ReadableIs ==
    ASSUME TokenizerInv, NEW tokens, IsSeq(tokens), NEW c
    PROVE  c \in Recognized(tokens).candidates \cup Begun(Recognized(tokens)) <=>
               c \in Triple /\ c[3] < MaxSymbols /\ UnderWay(tokens, c[1], c[2], c[3])
<1>0. MaxSymbols \in Nat \ {0} /\ Len(tokens) \in Nat
  BY GenerationAssumption, LengthOfSeq
<1>1. c \in Recognized(tokens).candidates <=>
          c \in Triple /\ c[3] < MaxSymbols /\ UnderWay(tokens, c[1], c[2], c[3]) /\ (c[2] # 0 \/ tokens = <<>>)
  BY DEF Recognized, UnderWayIn
<1>2. c \in Begun(Recognized(tokens)) <=>
          \E form \in Following : \E n \in CompleteIn(tokens) : n < MaxSymbols /\ c = <<form, 0, n>>
  BY DEF Begun, Recognized
<1>3. \A n : n \in CompleteIn(tokens) <=> n \in 1 .. MaxSymbols /\ Spells(n, tokens)
  BY DEF CompleteIn
<1>4. ASSUME NEW form \in Following, NEW n \in CompleteIn(tokens), n < MaxSymbols
      PROVE  <<form, 0, n>> \in Triple /\ UnderWay(tokens, form, 0, n)
  <2>1. n \in Nat /\ n # 0 /\ Spells(n, tokens)
    BY <1>0, <1>3
  <2>2. form \in Forms(n)
    BY <2>1 DEF Forms
  <2>3. Len(form) \in Nat \ {0}
    BY <2>2, FormIs
  <2>4. Cut(tokens, Len(tokens) - 0) = tokens
    <3>1. Len(tokens) - 0 = Len(tokens)
      BY <1>0
    <3> QED
      BY <3>1, CutAll
  <2>5. 0 \in 0 .. Len(tokens) /\ 0 < Len(form) /\ 1 .. 0 = {}
    BY <1>0, <2>3
  <2>6. UnderWay(tokens, form, 0, n)
    BY <2>1, <2>2, <2>4, <2>5 DEF UnderWay
  <2> QED
    BY <2>1, <2>6, UnderWayIs
<1>5. ASSUME c \in Triple, c[3] < MaxSymbols, UnderWay(tokens, c[1], c[2], c[3]), c[2] = 0, tokens # <<>>
      PROVE  \E form \in Following : \E n \in CompleteIn(tokens) : n < MaxSymbols /\ c = <<form, 0, n>>
  <2>1. c[3] \in Nat /\ c = <<c[1], c[2], c[3]>>
    BY <1>5 DEF Triple
  <2>2. Spells(c[3], tokens) /\ c[3] # 0
    BY <1>5, <2>1, UnderWayIs
  <2>3. c[3] \in 1 .. MaxSymbols
    BY <1>0, <1>5, <2>1, <2>2
  <2>4. c[1] \in Following
    BY <1>5, <2>2 DEF UnderWay, Forms
  <2>5. c = <<c[1], 0, c[3]>> /\ c[3] \in CompleteIn(tokens)
    BY <1>3, <1>5, <2>1, <2>2, <2>3
  <2> QED
    BY <1>5, <2>4, <2>5
<1>6. ASSUME NEW form \in Following, NEW n \in CompleteIn(tokens), n < MaxSymbols, c = <<form, 0, n>>
      PROVE  c \in Triple /\ c[3] < MaxSymbols /\ UnderWay(tokens, c[1], c[2], c[3])
  <2>1. c[1] = form /\ c[2] = 0 /\ c[3] = n
    BY <1>6
  <2> QED
    BY <1>4, <1>6, <2>1
<1> QED
  BY <1>1, <1>2, <1>5, <1>6

(* The candidates that a token moves on are those that have it next.       *)
LEMMA MovedIs ==
    ASSUME TokenizerInv, NEW tokens, IsSeq(tokens), NEW x, NEW c
    PROVE  c \in Moved(Recognized(tokens), x) <=>
               \E form : \E k, n \in Nat :
                   /\ c = <<form, k + 1, n>> /\ n < MaxSymbols
                   /\ UnderWay(tokens, form, k, n) /\ form[k + 1] = x
<1> DEFINE R == Reading(Recognized(tokens), x)
<1>1. \A d : d \in R <=> d \in Triple /\ d[3] < MaxSymbols /\ UnderWay(tokens, d[1], d[2], d[3]) /\ d[1][d[2] + 1] = x
  <2>1. \A d : d \in R <=> d \in Recognized(tokens).candidates \cup Begun(Recognized(tokens)) /\ d[1][d[2] + 1] = x
    BY DEF Reading
  <2> HIDE DEF R
  <2> QED
    BY <2>1, ReadableIs
<1>2. c \in Moved(Recognized(tokens), x) <=> \E d \in R : c = <<d[1], d[2] + 1, d[3]>>
  BY DEF Moved
<1> HIDE DEF R
<1>3. ASSUME NEW d \in R, c = <<d[1], d[2] + 1, d[3]>>
      PROVE  \E form : \E k, n \in Nat : /\ c = <<form, k + 1, n>> /\ n < MaxSymbols
                                         /\ UnderWay(tokens, form, k, n) /\ form[k + 1] = x
  <2>1. d[2] \in Nat /\ d[3] \in Nat
    BY <1>1 DEF Triple
  <2> QED
    BY <1>1, <1>3, <2>1
<1>4. ASSUME NEW form, NEW k \in Nat, NEW n \in Nat, c = <<form, k + 1, n>>, n < MaxSymbols,
             UnderWay(tokens, form, k, n), form[k + 1] = x
      PROVE  \E d \in R : c = <<d[1], d[2] + 1, d[3]>>
  <2> DEFINE d == <<form, k, n>>
  <2>1. d[1] = form /\ d[2] = k /\ d[3] = n
    OBVIOUS
  <2>2. d \in Triple
    BY <1>4, UnderWayIs
  <2> HIDE DEF d
  <2>3. d \in R
    BY <1>1, <1>4, <2>1, <2>2
  <2> QED
    BY <1>4, <2>1, <2>3
<1> QED
  BY <1>2, <1>3, <1>4

(* A token leads from such a state to such a state. *)
LEMMA ConsumesOne ==
    ASSUME TokenizerInv, NEW tokens, IsSeq(tokens), NEW x
    PROVE  Consume(Recognized(tokens), x) = Recognized(Append(tokens, x))
<1> DEFINE u == Append(tokens, x)
           M == Moved(Recognized(tokens), x)
           A == {c \in M : c[2] < Len(c[1])}
           B == {c[3] + 1 : c \in {c \in M : c[2] = Len(c[1])}}
<1>0. MaxSymbols \in Nat \ {0} /\ Len(tokens) \in Nat
  BY GenerationAssumption, LengthOfSeq
<1>1. Consume(Recognized(tokens), x) = [candidates |-> A, boundary |-> B]
  BY ConsumeIs
<1>2. IsSeq(u) /\ u # <<>>
  <2>1. IsSeq(u) /\ Len(u) = Len(tokens) + 1
    BY AppendIs
  <2> QED
    BY <1>0, <2>1, NothingSeq
<1>3. \A form : \A k, n \in Nat : UnderWay(u, form, k + 1, n) <=>
          UnderWay(tokens, form, k, n) /\ form[k + 1] = x /\ k + 1 < Len(form)
  BY OneToken
<1>4. \A n \in Nat : Spells(n + 1, u) <=>
          \E form : \E k \in Nat : UnderWay(tokens, form, k, n) /\ form[k + 1] = x /\ k + 1 = Len(form)
  BY LastToken
<1>5. \A c : c \in M <=> \E form : \E k, n \in Nat :
          c = <<form, k + 1, n>> /\ n < MaxSymbols /\ UnderWay(tokens, form, k, n) /\ form[k + 1] = x
  BY MovedIs
<1>6. \A c : c \in A <=> c \in M /\ c[2] < Len(c[1])
  OBVIOUS
<1>7. \A m : m \in B <=> \E c \in M : c[2] = Len(c[1]) /\ m = c[3] + 1
  OBVIOUS
<1> HIDE DEF u, M, A, B
<1>8. ASSUME NEW c \in A PROVE c \in UnderWayIn(u)
  <2>1. PICK form : \E k, n \in Nat :
          c = <<form, k + 1, n>> /\ n < MaxSymbols /\ UnderWay(tokens, form, k, n) /\ form[k + 1] = x
    BY <1>5, <1>6
  <2>2. PICK k \in Nat, n \in Nat :
          c = <<form, k + 1, n>> /\ n < MaxSymbols /\ UnderWay(tokens, form, k, n) /\ form[k + 1] = x
    BY <2>1
  <2>3. c[1] = form /\ c[2] = k + 1 /\ c[3] = n
    BY <2>2
  <2>4. k + 1 < Len(form)
    BY <1>6, <2>3
  <2>5. UnderWay(u, form, k + 1, n)
    BY <1>3, <2>2, <2>4
  <2>6. c \in Triple
    BY <1>2, <2>2, <2>5, UnderWayIs
  <2>7. k + 1 # 0
    OBVIOUS
  <2> QED
    BY <2>2, <2>3, <2>5, <2>6, <2>7 DEF UnderWayIn
<1>9. ASSUME NEW c \in UnderWayIn(u) PROVE c \in A
  <2>1. c \in Triple /\ c[3] < MaxSymbols /\ UnderWay(u, c[1], c[2], c[3]) /\ c[2] # 0
    BY <1>2 DEF UnderWayIn
  <2> DEFINE k == c[2] - 1
  <2>2. k \in Nat /\ c[2] = k + 1 /\ c[3] \in Nat /\ c = <<c[1], k + 1, c[3]>>
    BY <2>1 DEF Triple
  <2> HIDE DEF k
  <2>3. UnderWay(tokens, c[1], k, c[3]) /\ c[1][k + 1] = x /\ k + 1 < Len(c[1])
    BY <1>3, <2>1, <2>2
  <2>4. c \in M
    BY <1>5, <2>1, <2>2, <2>3
  <2> QED
    BY <1>6, <2>2, <2>3, <2>4
<1>10. ASSUME NEW m \in B PROVE m \in CompleteIn(u)
  <2>1. PICK c \in M : c[2] = Len(c[1]) /\ m = c[3] + 1
    BY <1>7
  <2>2. PICK form : \E k, n \in Nat :
          c = <<form, k + 1, n>> /\ n < MaxSymbols /\ UnderWay(tokens, form, k, n) /\ form[k + 1] = x
    BY <1>5
  <2>3. PICK k \in Nat, n \in Nat :
          c = <<form, k + 1, n>> /\ n < MaxSymbols /\ UnderWay(tokens, form, k, n) /\ form[k + 1] = x
    BY <2>2
  <2>4. k + 1 = Len(form) /\ m = n + 1
    BY <2>1, <2>3
  <2>5. Spells(n + 1, u)
    BY <1>4, <2>3, <2>4
  <2>6. m \in 1 .. MaxSymbols
    BY <1>0, <2>3, <2>4
  <2> QED
    BY <2>4, <2>5, <2>6 DEF CompleteIn
<1>11. ASSUME NEW m \in CompleteIn(u) PROVE m \in B
  <2>1. m \in 1 .. MaxSymbols /\ Spells(m, u)
    BY DEF CompleteIn
  <2> DEFINE n == m - 1
  <2>2. n \in Nat /\ m = n + 1 /\ n < MaxSymbols
    BY <1>0, <2>1
  <2> HIDE DEF n
  <2>3. PICK form : \E k \in Nat : UnderWay(tokens, form, k, n) /\ form[k + 1] = x /\ k + 1 = Len(form)
    BY <1>4, <2>1, <2>2
  <2>4. PICK k \in Nat : UnderWay(tokens, form, k, n) /\ form[k + 1] = x /\ k + 1 = Len(form)
    BY <2>3
  <2> DEFINE c == <<form, k + 1, n>>
  <2>5. c[1] = form /\ c[2] = k + 1 /\ c[3] = n
    OBVIOUS
  <2>6. c \in M
    BY <1>5, <2>2, <2>4
  <2> HIDE DEF c
  <2> QED
    BY <1>7, <2>2, <2>4, <2>5, <2>6
<1>12. A = UnderWayIn(u)
  BY <1>8, <1>9
<1>13. B = CompleteIn(u)
  BY <1>10, <1>11
<1> QED
  BY <1>1, <1>12, <1>13 DEF Recognized, u

LEMMA CutMore ==
    ASSUME NEW s, IsSeq(s), NEW i \in 1 .. Len(s)
    PROVE  Cut(s, i) = Append(Cut(s, i - 1), s[i])
<1>0. Len(s) \in Nat
  BY LengthOfSeq
<1>1. i \in 0 .. Len(s) /\ i - 1 \in 0 .. Len(s) /\ (i - 1) + 1 = i
  BY <1>0
<1>2. IsSeq(Cut(s, i)) /\ Len(Cut(s, i)) = i /\ \A j \in 1 .. i : Cut(s, i)[j] = s[j]
  BY <1>1, CutSeq
<1> DEFINE t == Cut(s, i - 1)
           u == Append(t, s[i])
<1>3. IsSeq(t) /\ Len(t) = i - 1 /\ \A j \in 1 .. i - 1 : t[j] = s[j]
  BY <1>1, CutSeq
<1> HIDE DEF t
<1>4. /\ IsSeq(u) /\ Len(u) = Len(t) + 1
      /\ \A j \in 1 .. Len(t) : u[j] = t[j]
      /\ u[Len(t) + 1] = s[i]
  BY <1>3, AppendIs
<1> HIDE DEF u
<1>5. Len(u) = i /\ u[i] = s[i] /\ \A j \in 1 .. i - 1 : u[j] = s[j]
  BY <1>1, <1>3, <1>4
<1>6. \A j \in 1 .. i : j = i \/ j \in 1 .. i - 1
  OBVIOUS
<1>7. \A j \in 1 .. i : Cut(s, i)[j] = u[j]
  BY <1>2, <1>5, <1>6
<1>8. Cut(s, i) = u
  BY <1>2, <1>4, <1>5, <1>7, SameSeq
<1> QED
  BY <1>8 DEF t, u

LEMMA CutNone == ASSUME NEW s, IsSeq(s) PROVE Cut(s, 0) = <<>>
<1>1. 0 \in 0 .. Len(s)
  BY LengthOfSeq
<1>2. IsSeq(Cut(s, 0)) /\ Len(Cut(s, 0)) = 0
  BY <1>1, CutSeq
<1> QED
  BY <1>2, NoneIsEmpty

(* The recognizer starts in the state it should. *)
LEMMA StartIs == ASSUME TokenizerInv PROVE Recognized(<<>>) = Start
<1>0. MaxSymbols \in Nat \ {0} /\ IsSeq(<<>>) /\ Len(<<>>) = 0 /\ Cut(<<>>, 0) = <<>>
  BY GenerationAssumption, NothingSeq, CutNone
<1>1. CompleteIn(<<>>) = {}
  <2>1. ASSUME NEW n \in CompleteIn(<<>>) PROVE FALSE
    <3>1. n \in Nat /\ n # 0 /\ Spells(n, <<>>)
      BY <1>0 DEF CompleteIn
    <3>2. n <= Len(<<>>)
      BY <3>1, SpelledIs
    <3> QED
      BY <1>0, <3>1, <3>2
  <2> QED
    BY <2>1
<1>2. ASSUME NEW form \in First PROVE <<form, 0, 0>> \in UnderWayIn(<<>>)
  <2>1. form \in Forms(0)
    BY DEF Forms
  <2>2. Len(form) \in Nat \ {0}
    BY <2>1, FormIs
  <2>3. Spells(0, <<>>) /\ Len(<<>>) - 0 = 0 /\ 0 \in 0 .. Len(<<>>) /\ 0 < Len(form) /\ 1 .. 0 = {}
    BY <1>0, <2>2, SpellsNone
  <2>4. UnderWay(<<>>, form, 0, 0)
    BY <1>0, <2>1, <2>3 DEF UnderWay
  <2>5. <<form, 0, 0>> \in Triple
    BY DEF Triple
  <2> DEFINE c == <<form, 0, 0>>
  <2>6. c[1] = form /\ c[2] = 0 /\ c[3] = 0 /\ c \in Triple
    BY <2>5
  <2> HIDE DEF c
  <2>7. c \in UnderWayIn(<<>>)
    BY <1>0, <2>4, <2>6 DEF UnderWayIn
  <2> QED
    BY <2>7 DEF c
<1>3. ASSUME NEW c \in UnderWayIn(<<>>) PROVE c \in {<<form, 0, 0>> : form \in First}
  <2>1. c \in Triple /\ UnderWay(<<>>, c[1], c[2], c[3])
    BY DEF UnderWayIn
  <2>2. c[2] = 0
    BY <1>0, <2>1 DEF UnderWay
  <2>3. c[3] \in Nat
    BY <2>1 DEF Triple
  <2>4. Spells(c[3], <<>>)
    BY <1>0, <2>1, <2>2, <2>3, UnderWayIs
  <2>5. c[3] = 0
    <3>1. c[3] <= Len(<<>>)
      BY <2>3, <2>4, SpelledIs
    <3> QED
      BY <1>0, <2>3, <3>1
  <2>6. c[1] \in First
    BY <2>1, <2>5 DEF UnderWay, Forms
  <2>7. c = <<c[1], 0, 0>>
    BY <2>1, <2>2, <2>5 DEF Triple
  <2> QED
    BY <2>6, <2>7
<1>4. UnderWayIn(<<>>) = {<<form, 0, 0>> : form \in First}
  BY <1>2, <1>3
<1> QED
  BY <1>1, <1>4 DEF Recognized, Start

(* Token by token, the recognizer gets there. *)
LEMMA StateAfterIs ==
    ASSUME TokenizerInv, NEW tokens, IsSeq(tokens)
    PROVE  StateAfter(tokens) = Recognized(tokens)
<1> DEFINE L == Len(tokens)
           Runs(f) == f = [i \in 0 .. L |-> IF i = 0 THEN Start ELSE Consume(f[i - 1], tokens[i])]
           state == CHOOSE f : Runs(f)
           g == [i \in 0 .. L |-> Recognized(Cut(tokens, i))]
<1>0. L \in Nat
  BY LengthOfSeq
<1>1. StateAfter(tokens) = state[L]
  BY DEF StateAfter
<1>2. ASSUME NEW i \in 0 .. L
      PROVE  Recognized(Cut(tokens, i)) =
                 IF i = 0 THEN Start ELSE Consume(Recognized(Cut(tokens, i - 1)), tokens[i])
  <2>1. CASE i = 0
    BY <2>1, CutNone, StartIs
  <2>2. CASE i # 0
    <3>1. i \in 1 .. Len(tokens) /\ i - 1 \in 0 .. Len(tokens)
      BY <1>0, <2>2
    <3>2. IsSeq(Cut(tokens, i - 1))
      BY <3>1, CutSeq
    <3>3. Cut(tokens, i) = Append(Cut(tokens, i - 1), tokens[i])
      BY <3>1, CutMore
    <3>4. Consume(Recognized(Cut(tokens, i - 1)), tokens[i]) = Recognized(Append(Cut(tokens, i - 1), tokens[i]))
      BY <3>2, ConsumesOne
    <3> QED
      BY <2>2, <3>3, <3>4
  <2> QED
    BY <2>1, <2>2
<1>3. Runs(g)
  <2>1. \A i \in 0 .. L : g[i] = Recognized(Cut(tokens, i))
    OBVIOUS
  <2>2. \A i \in 0 .. L : i # 0 => i - 1 \in 0 .. L
    BY <1>0
  <2>3. g = [i \in 0 .. L |-> g[i]]
    OBVIOUS
  <2> HIDE DEF g
  <2>4. \A i \in 0 .. L : g[i] = IF i = 0 THEN Start ELSE Consume(g[i - 1], tokens[i])
    BY <1>2, <2>1, <2>2
  <2> QED
    BY <2>3, <2>4
<1>4. Runs(state)
  <2>1. \E f : Runs(f)
    BY <1>3
  <2> HIDE DEF Runs
  <2> QED
    BY <2>1
<1> HIDE DEF state
<1>5. \A i \in 0 .. L : state[i] = IF i = 0 THEN Start ELSE Consume(state[i - 1], tokens[i])
  BY <1>4
<1> DEFINE T == {i \in 0 .. L : state[i] # Recognized(Cut(tokens, i))}
<1>6. T = {}
  <2> SUFFICES ASSUME T # {} PROVE FALSE
    OBVIOUS
  <2>1. T \in SUBSET Nat
    OBVIOUS
  <2>2. \A i : i \in T <=> i \in 0 .. L /\ state[i] # Recognized(Cut(tokens, i))
    OBVIOUS
  <2> HIDE DEF T
  <2>3. PICK i \in T : \A j \in T : i <= j
    BY <2>1, Least
  <2>4. i \in 0 .. L
    BY <2>2
  <2>5. CASE i = 0
    BY <1>2, <1>5, <2>2, <2>4, <2>5
  <2>6. CASE i # 0
    <3>1. i - 1 \in 0 .. L /\ ~ i <= i - 1
      BY <1>0, <2>4, <2>6
    <3>2. state[i - 1] = Recognized(Cut(tokens, i - 1))
      BY <2>2, <2>3, <3>1
    <3>3. state[i] = Consume(Recognized(Cut(tokens, i - 1)), tokens[i])
      BY <1>5, <2>4, <2>6, <3>2
    <3> QED
      BY <1>2, <2>2, <2>4, <2>6, <3>3
  <2> QED
    BY <2>5, <2>6
<1>7. L \in 0 .. L
  BY <1>0
<1>8. state[L] = Recognized(Cut(tokens, L))
  BY <1>6, <1>7
<1> QED
  BY <1>1, <1>8, CutAll

(* The decoder's recognizer allows what leads towards a plan. *)
LEMMA DecoderIsExact ==
    ASSUME TokenizerInv, kind = "decoder", NEW tokens, IsSeq(tokens)
    PROVE  DecoderAllowed(tokens) = Continuations(tokens)
<1> DEFINE C == UnderWayIn(tokens)
           B == CompleteIn(tokens)
<1>0. Most(tokens) = MaxSymbols /\ MaxSymbols \in Nat \ {0} /\ Len(tokens) \in Nat
  BY GenerationAssumption, LengthOfSeq DEF Most
<1>1. StateAfter(tokens) = [candidates |-> C, boundary |-> B]
  BY StateAfterIs DEF Recognized
<1>2. ASSUME NEW x
      PROVE  x \in DecoderAllowed(tokens) <=>
                 \/ \E c \in C : x = c[1][c[2] + 1]
                 \/ x = EOS /\ B # {}
                 \/ \E form \in Following : \E n \in B : n < MaxSymbols /\ x = form[1]
  <2> HIDE DEF C, B
  <2>1. DecoderAllowed(tokens) =
            {c[1][c[2] + 1] : c \in C} \cup {EOS : n \in B}
            \cup {form[1] : form \in {f \in Following : \E n \in B : n < MaxSymbols}}
    BY <1>1 DEF DecoderAllowed
  <2>2. x \in {EOS : n \in B} <=> x = EOS /\ B # {}
    OBVIOUS
  <2>3. x \in {form[1] : form \in {f \in Following : \E n \in B : n < MaxSymbols}} <=>
            \E form \in Following : \E n \in B : n < MaxSymbols /\ x = form[1]
    OBVIOUS
  <2> QED
    BY <2>1, <2>2, <2>3
<1>3. \A n : n \in B <=> n \in 1 .. MaxSymbols /\ Spells(n, tokens)
  BY DEF CompleteIn
<1>4. \A c : c \in C <=> /\ c \in Triple /\ c[3] < MaxSymbols
                         /\ UnderWay(tokens, c[1], c[2], c[3]) /\ (c[2] # 0 \/ tokens = <<>>)
  BY DEF UnderWayIn
<1>5. \A c : c \in Recognized(tokens).candidates \cup Begun(Recognized(tokens)) <=>
               c \in Triple /\ c[3] < MaxSymbols /\ UnderWay(tokens, c[1], c[2], c[3])
  BY ReadableIs
<1>6. Recognized(tokens).candidates = C
  BY DEF Recognized
<1>7. \A c : c \in Begun(Recognized(tokens)) <=>
          \E form \in Following : \E n \in B : n < MaxSymbols /\ c = <<form, 0, n>>
  BY DEF Begun, Recognized
<1> HIDE DEF C, B
<1> DEFINE GoesOn(x) == \E n \in 0 .. MaxSymbols - 1 : \E form, k : UnderWay(tokens, form, k, n) /\ x = form[k + 1]
<1>8. ASSUME NEW x, GoesOn(x)
      PROVE  \/ \E c \in C : x = c[1][c[2] + 1]
             \/ \E form \in Following : \E n \in B : n < MaxSymbols /\ x = form[1]
  <2>1. PICK n \in 0 .. MaxSymbols - 1 : \E form, k : UnderWay(tokens, form, k, n) /\ x = form[k + 1]
    BY <1>8
  <2>2. PICK form, k : UnderWay(tokens, form, k, n) /\ x = form[k + 1]
    BY <2>1
  <2>3. n \in Nat /\ n < MaxSymbols
    BY <1>0
  <2> DEFINE c == <<form, k, n>>
  <2>4. c[1] = form /\ c[2] = k /\ c[3] = n
    OBVIOUS
  <2>5. c \in Triple
    BY <2>2, <2>3, UnderWayIs
  <2> HIDE DEF c
  <2>6. c \in C \/ c \in Begun(Recognized(tokens))
    BY <1>5, <1>6, <2>2, <2>3, <2>4, <2>5
  <2>7. CASE c \in C
    BY <2>2, <2>4, <2>7
  <2>8. CASE c \in Begun(Recognized(tokens))
    <3>1. PICK f \in Following : \E m \in B : m < MaxSymbols /\ c = <<f, 0, m>>
      BY <1>7, <2>8
    <3>2. PICK m \in B : m < MaxSymbols /\ c = <<f, 0, m>>
      BY <3>1
    <3>3. c[1] = f /\ c[2] = 0
      BY <3>2
    <3>4. x = f[0 + 1]
      BY <2>2, <2>4, <3>3
    <3>5. x = f[1]
      BY <3>4
    <3> QED
      BY <3>2, <3>5
  <2> QED
    BY <2>6, <2>7, <2>8
<1>9. ASSUME NEW x, NEW c \in C, x = c[1][c[2] + 1] PROVE GoesOn(x)
  <2>1. c \in Triple /\ c[3] < MaxSymbols /\ UnderWay(tokens, c[1], c[2], c[3])
    BY <1>4
  <2>2. c[3] \in 0 .. MaxSymbols - 1
    BY <1>0, <2>1 DEF Triple
  <2> QED
    BY <1>9, <2>1, <2>2
<1>10. ASSUME NEW x, NEW form \in Following, NEW n \in B, n < MaxSymbols, x = form[1] PROVE GoesOn(x)
  <2> DEFINE c == <<form, 0, n>>
  <2>1. c[1] = form /\ c[2] = 0 /\ c[3] = n
    OBVIOUS
  <2>2. c \in Begun(Recognized(tokens))
    BY <1>7, <1>10
  <2> HIDE DEF c
  <2>3. c \in Triple /\ UnderWay(tokens, c[1], c[2], c[3])
    BY <1>5, <2>2
  <2>4. UnderWay(tokens, form, 0, n) /\ n \in 0 .. MaxSymbols - 1
    BY <1>0, <1>3, <1>10, <2>1, <2>3
  <2>5. x = form[0 + 1]
    BY <1>10
  <2> QED
    BY <2>4, <2>5
<1>11. ASSUME NEW x PROVE x \in DecoderAllowed(tokens) <=> x \in Continuations(tokens)
  <2>1. x \in Continuations(tokens) <=> GoesOn(x) \/ (x = EOS /\ \E n \in 1 .. MaxSymbols : Spells(n, tokens))
    BY <1>0, ContinuationsAre
  <2>2. B # {} <=> \E n \in 1 .. MaxSymbols : Spells(n, tokens)
    BY <1>3
  <2> HIDE DEF GoesOn
  <2> QED
    BY <1>2, <1>8, <1>9, <1>10, <2>1, <2>2
<1> QED
  BY <1>11

(* Both recognizers allow the tokens that lead towards a plan. *)
LEMMA AllowedIsExact ==
    ASSUME TokenizerInv, NEW tokens, IsSeq(tokens)
    PROVE  Allowed(tokens) = Continuations(tokens)
<1>1. kind \in {"encoder", "decoder"}
  BY GenerationAssumption DEF TokenizerInv
<1>2. CASE kind = "encoder"
  BY <1>2, EncoderIsExact DEF Allowed
<1>3. CASE kind = "decoder"
  <2>1. kind # "encoder"
    BY <1>3
  <2> QED
    BY <1>3, <2>1, DecoderIsExact DEF Allowed
<1> QED
  BY <1>1, <1>2, <1>3
-----------------------------------------------------------------------------
(* Text.                                                                   *)

(* Concatenation is associative, ... *)
LEMMA ConcatAssoc ==
    ASSUME NEW s, NEW t, NEW u, IsSeq(s), IsSeq(t), IsSeq(u)
    PROVE  (s \o t) \o u = s \o (t \o u)
<1> DEFINE S == Range(s) \cup Range(t) \cup Range(u)
<1>1. s \in Seq(S) /\ t \in Seq(S) /\ u \in Seq(S)
  <2>1. s \in Seq(Range(s)) /\ t \in Seq(Range(t)) /\ u \in Seq(Range(u))
    BY DEF IsSeq
  <2> QED
    BY <2>1
<1> HIDE DEF S
<1> QED
  BY <1>1, ConcatAssociative

(* ... and nothing is neutral for it. *)
LEMMA ConcatNothing == ASSUME NEW s, IsSeq(s) PROVE s \o <<>> = s /\ <<>> \o s = s
<1>1. s \in Seq(Range(s))
  BY DEF IsSeq
<1> QED
  BY <1>1, ConcatEmptySeq

(* A sequence of sequences. *)
AllSeqs(seqs) == IsSeq(seqs) /\ \A i \in 1 .. Len(seqs) : IsSeq(seqs[i])

LEMMA FlatNone == FlattenSeq(<<>>) = <<>>
<1>1. Len(<<>>) = 0
  BY NothingSeq
<1> QED
  BY <1>1 DEF FlattenSeq

(* FlattenSeq from the right. *)
LEMMA FlatStep ==
    ASSUME NEW seqs, AllSeqs(seqs), NEW n \in Nat, Len(seqs) = n + 1
    PROVE  After(FlattenSeq(seqs), FlattenSeq(Cut(seqs, n)), seqs[n + 1])
<1>1. IsSeq(seqs) /\ n \in 0 .. Len(seqs) /\ n + 1 \in 1 .. Len(seqs)
  BY DEF AllSeqs
<1>2. IsSeq(Cut(seqs, n)) /\ Len(Cut(seqs, n)) = n /\ \A i \in 1 .. n : Cut(seqs, n)[i] = seqs[i]
  BY <1>1, CutSeq
<1>3. CASE n = 0
  <2>1. FlattenSeq(seqs) = seqs[n + 1]
    BY <1>3, FlatOne
  <2>2. Cut(seqs, n) = <<>>
    BY <1>2, <1>3, NoneIsEmpty
  <2>3. IsSeq(seqs[n + 1])
    BY <1>1 DEF AllSeqs
  <2>4. <<>> \o seqs[n + 1] = seqs[n + 1]
    BY <2>3, ConcatNothing
  <2> QED
    BY <2>1, <2>2, <2>4, FlatNone DEF After
<1>4. CASE n # 0
  <2>1. n \in Nat \ {0} /\ \A i \in 1 .. n : seqs[i] = Cut(seqs, n)[i]
    BY <1>2, <1>4
  <2> QED
    BY <1>2, <2>1, FlatMore
<1> QED
  BY <1>3, <1>4

LEMMA CutSeqs ==
    ASSUME NEW seqs, AllSeqs(seqs), NEW n \in 0 .. Len(seqs)
    PROVE  AllSeqs(Cut(seqs, n)) /\ Len(Cut(seqs, n)) = n
<1>1. IsSeq(seqs) /\ Len(seqs) \in Nat
  BY LengthOfSeq DEF AllSeqs
<1>2. IsSeq(Cut(seqs, n)) /\ Len(Cut(seqs, n)) = n /\ \A i \in 1 .. n : Cut(seqs, n)[i] = seqs[i]
  BY <1>1, CutSeq
<1>3. \A i \in 1 .. n : i \in 1 .. Len(seqs)
  BY <1>1
<1> QED
  BY <1>2, <1>3 DEF AllSeqs

(* FlattenSeq of sequences is a sequence. *)
LEMMA FlatIsSeq ==
    ASSUME NEW seqs, AllSeqs(seqs)
    PROVE  IsSeq(FlattenSeq(seqs))
<1> DEFINE T == {n \in Nat : \E s : AllSeqs(s) /\ Len(s) = n /\ ~ IsSeq(FlattenSeq(s))}
<1>1. T = {}
  <2> SUFFICES ASSUME T # {} PROVE FALSE
    OBVIOUS
  <2>1. T \in SUBSET Nat
    OBVIOUS
  <2>2. \A n : n \in T <=> n \in Nat /\ \E s : AllSeqs(s) /\ Len(s) = n /\ ~ IsSeq(FlattenSeq(s))
    OBVIOUS
  <2> HIDE DEF T
  <2>3. PICK n \in T : \A m \in T : n <= m
    BY <2>1, Least
  <2>4. PICK s : n \in Nat /\ AllSeqs(s) /\ Len(s) = n /\ ~ IsSeq(FlattenSeq(s))
    BY <2>2
  <2>5. CASE n = 0
    <3>1. s = <<>>
      BY <2>4, <2>5, NoneIsEmpty DEF AllSeqs
    <3> QED
      BY <2>4, <3>1, FlatNone, NothingSeq
  <2>6. CASE n # 0
    <3>1. n - 1 \in Nat /\ ~ n <= n - 1 /\ Len(s) = (n - 1) + 1 /\ n - 1 \in 0 .. Len(s) /\ (n - 1) + 1 \in 1 .. Len(s)
      BY <2>4, <2>6
    <3>2. AllSeqs(Cut(s, n - 1)) /\ Len(Cut(s, n - 1)) = n - 1
      BY <2>4, <3>1, CutSeqs
    <3>3. IsSeq(FlattenSeq(Cut(s, n - 1)))
      BY <2>2, <2>3, <3>1, <3>2
    <3>4. After(FlattenSeq(s), FlattenSeq(Cut(s, n - 1)), s[(n - 1) + 1])
      BY <2>4, <3>1, FlatStep
    <3>5. IsSeq(s[(n - 1) + 1])
      BY <2>4, <3>1 DEF AllSeqs
    <3>6. IsSeq(FlattenSeq(s))
      BY <3>3, <3>4, <3>5, ConcatSeq
    <3> QED
      BY <2>4, <3>6
  <2> QED
    BY <2>5, <2>6
<1>2. Len(seqs) \in Nat
  BY LengthOfSeq DEF AllSeqs
<1> QED
  BY <1>1, <1>2

(* The concatenation of two lists. *)
LEMMA FlatConcat ==
    ASSUME NEW a, AllSeqs(a), NEW b, AllSeqs(b), NEW c, After(c, a, b)
    PROVE  After(FlattenSeq(c), FlattenSeq(a), FlattenSeq(b))
<1> DEFINE Wrong(s, r) == AllSeqs(s) /\ After(r, a, s) /\ ~ After(FlattenSeq(r), FlattenSeq(a), FlattenSeq(s))
           T == {n \in Nat : \E s, r : Wrong(s, r) /\ Len(s) = n}
<1>0. IsSeq(a) /\ IsSeq(FlattenSeq(a)) /\ Len(a) \in Nat
  BY FlatIsSeq, LengthOfSeq DEF AllSeqs
<1>1. T = {}
  <2> SUFFICES ASSUME T # {} PROVE FALSE
    OBVIOUS
  <2>1. T \in SUBSET Nat
    OBVIOUS
  <2>2. \A n : n \in T <=> n \in Nat /\ \E s, r : Wrong(s, r) /\ Len(s) = n
    OBVIOUS
  <2> HIDE DEF T
  <2>3. PICK n \in T : \A m \in T : n <= m
    BY <2>1, Least
  <2>4. PICK s, r : n \in Nat /\ Wrong(s, r) /\ Len(s) = n
    BY <2>2
  <2>5. IsSeq(s) /\ AllSeqs(s)
    BY <2>4 DEF AllSeqs
  <2>6. CASE n = 0
    <3>1. s = <<>>
      BY <2>4, <2>5, <2>6, NoneIsEmpty
    <3>2. r = a
      BY <1>0, <2>4, <3>1, ConcatNothing DEF After
    <3>3. FlattenSeq(a) \o <<>> = FlattenSeq(a)
      BY <1>0, ConcatNothing
    <3>4. After(FlattenSeq(r), FlattenSeq(a), FlattenSeq(s))
      BY <3>1, <3>2, <3>3, FlatNone DEF After
    <3> QED
      BY <2>4, <3>4
  <2>7. CASE n # 0
    <3> DEFINE m == n - 1
               t == Cut(s, m)
               q == a \o t
               x == s[m + 1]
    <3>1. m \in Nat /\ ~ n <= m /\ Len(s) = m + 1 /\ m \in 0 .. Len(s) /\ m + 1 \in 1 .. Len(s)
      BY <2>4, <2>7
    <3> HIDE DEF m
    <3>2. AllSeqs(t) /\ Len(t) = m /\ IsSeq(t) /\ \A i \in 1 .. m : t[i] = s[i]
      BY <2>5, <3>1, CutSeqs, CutSeq DEF AllSeqs
    <3>3. IsSeq(x)
      BY <2>5, <3>1 DEF AllSeqs
    <3>4. After(q, a, t)
      BY DEF After
    <3> HIDE DEF t, q
    <3>5. After(FlattenSeq(q), FlattenSeq(a), FlattenSeq(t))
      BY <2>2, <2>3, <3>1, <3>2, <3>4
    <3>6. After(FlattenSeq(s), FlattenSeq(t), x)
      BY <2>5, <3>1, FlatStep DEF t
    <3>7. /\ IsSeq(r) /\ Len(r) = Len(a) + Len(s)
          /\ (\A i \in 1 .. Len(a) : r[i] = a[i]) /\ (\A i \in 1 .. Len(s) : r[Len(a) + i] = s[i])
      BY <1>0, <2>4, <2>5, ConcatSeq
    <3>8. /\ IsSeq(q) /\ Len(q) = Len(a) + Len(t)
          /\ (\A i \in 1 .. Len(a) : q[i] = a[i]) /\ (\A i \in 1 .. Len(t) : q[Len(a) + i] = t[i])
      BY <1>0, <3>2, <3>4, ConcatSeq
    <3> DEFINE N == Len(a) + m
    <3>9. N \in Nat /\ Len(r) = N + 1 /\ Len(q) = N /\ N + 1 = Len(a) + (m + 1) /\ N \in 0 .. Len(r)
      BY <1>0, <3>1, <3>2, <3>7, <3>8
    <3>10. r[N + 1] = x
      BY <3>1, <3>7, <3>9
    <3>11. ASSUME NEW i \in 1 .. N PROVE r[i] = q[i]
      <4>1. CASE i <= Len(a)
        BY <1>0, <3>7, <3>8, <4>1
      <4>2. CASE ~ i <= Len(a)
        <5> DEFINE j == i - Len(a)
        <5>1. j \in 1 .. m /\ j \in 1 .. Len(s) /\ j \in 1 .. Len(t) /\ i = Len(a) + j
          BY <1>0, <3>1, <3>2, <4>2
        <5> HIDE DEF j
        <5>2. r[Len(a) + j] = s[j] /\ q[Len(a) + j] = t[j] /\ t[j] = s[j]
          BY <3>2, <3>7, <3>8, <5>1
        <5> QED
          BY <5>1, <5>2
      <4> QED
        BY <4>1, <4>2
    <3>12. ASSUME NEW i \in 1 .. Len(r) PROVE IsSeq(r[i])
      <4>1. CASE i <= Len(a)
        BY <1>0, <3>7, <4>1 DEF AllSeqs
      <4>2. CASE ~ i <= Len(a)
        <5> DEFINE j == i - Len(a)
        <5>1. j \in 1 .. Len(s) /\ i = Len(a) + j
          BY <1>0, <3>1, <3>7, <4>2
        <5> HIDE DEF j
        <5>2. r[Len(a) + j] = s[j] /\ IsSeq(s[j])
          BY <2>5, <3>7, <5>1 DEF AllSeqs
        <5> QED
          BY <5>1, <5>2
      <4> QED
        BY <4>1, <4>2
    <3>13. AllSeqs(r)
      BY <3>7, <3>12 DEF AllSeqs
    <3> HIDE DEF N
    <3>14. IsSeq(Cut(r, N)) /\ Len(Cut(r, N)) = N /\ \A i \in 1 .. N : Cut(r, N)[i] = r[i]
      BY <3>7, <3>9, CutSeq
    <3>15. \A i \in 1 .. N : Cut(r, N)[i] = q[i]
      BY <3>11, <3>14
    <3>16. Cut(r, N) = q
      BY <3>8, <3>9, <3>14, <3>15, SameSeq
    <3>17. After(FlattenSeq(r), FlattenSeq(q), x)
      BY <3>9, <3>10, <3>13, <3>16, FlatStep
    <3>18. IsSeq(FlattenSeq(t))
      BY <3>2, FlatIsSeq
    <3>19. (FlattenSeq(a) \o FlattenSeq(t)) \o x = FlattenSeq(a) \o (FlattenSeq(t) \o x)
      <4>1. IsSeq(FlattenSeq(a)) /\ IsSeq(FlattenSeq(t)) /\ IsSeq(x)
        BY <1>0, <3>3, <3>18
      <4> HIDE DEF x
      <4> QED
        BY <4>1, ConcatAssoc
    <3>20. After(FlattenSeq(r), FlattenSeq(a), FlattenSeq(s))
      BY <3>5, <3>6, <3>17, <3>19 DEF After
    <3> QED
      BY <2>4, <3>20
  <2> QED
    BY <2>6, <2>7
<1>2. Len(b) \in Nat
  BY LengthOfSeq DEF AllSeqs
<1>3. ~ Wrong(b, c)
  BY <1>1, <1>2
<1> QED
  BY <1>3

(* The texts of tokens, one by one. *)
Pieces(tokens) == [i \in DOMAIN tokens |-> Piece[tokens[i]]]

(* tokens are tokens. *)
Tokens(tokens) == IsSeq(tokens) /\ \A i \in 1 .. Len(tokens) : tokens[i] \in Token

(* What the texts of tokens are. *)
LEMMA PiecesAre ==
    ASSUME NEW tokens, Tokens(tokens)
    PROVE  /\ AllSeqs(Pieces(tokens)) /\ Len(Pieces(tokens)) = Len(tokens)
           /\ \A i \in 1 .. Len(tokens) : Pieces(tokens)[i] = Piece[tokens[i]]
           /\ Decode(tokens) = FlattenSeq(Pieces(tokens))
<1> DEFINE t == Pieces(tokens)
           L == Len(tokens)
<1>1. L \in Nat /\ DOMAIN tokens = 1 .. L
  BY LengthOfSeq DEF Tokens
<1>2. t = [i \in 1 .. L |-> t[i]] /\ \A i \in 1 .. L : t[i] = Piece[tokens[i]]
  BY <1>1 DEF Pieces
<1>3. Decode(tokens) = FlattenSeq(t)
  BY DEF Decode, Pieces
<1> HIDE DEF t, L
<1>4. IsSeq(t) /\ Len(t) = L
  BY <1>1, <1>2, NumberedSeq
<1>5. \A i \in 1 .. L : IsSeq(Piece[tokens[i]])
  BY GenerationAssumption DEF Tokens, Token, L, IsSeq
<1>6. \A i \in 1 .. Len(t) : IsSeq(t[i])
  BY <1>2, <1>4, <1>5
<1>7. AllSeqs(t)
  BY <1>4, <1>6 DEF AllSeqs
<1>8. AllSeqs(t) /\ Len(t) = Len(tokens) /\ (\A i \in 1 .. Len(tokens) : t[i] = Piece[tokens[i]])
  BY <1>2, <1>4, <1>7 DEF L
<1> QED
  BY <1>3, <1>8 DEF t

LEMMA DecodeIsSeq == ASSUME NEW tokens, Tokens(tokens) PROVE IsSeq(Decode(tokens))
  BY PiecesAre, FlatIsSeq

(* Decoding one after the other. *)
LEMMA DecodeConcat ==
    ASSUME NEW s, Tokens(s), NEW t, Tokens(t), NEW u, After(u, s, t)
    PROVE  Tokens(u) /\ After(Decode(u), Decode(s), Decode(t))
<1>0. IsSeq(s) /\ IsSeq(t)
  BY DEF Tokens
<1>1. Len(s) \in Nat /\ Len(t) \in Nat
  BY <1>0, LengthOfSeq
<1>2. /\ IsSeq(u) /\ Len(u) = Len(s) + Len(t)
      /\ (\A i \in 1 .. Len(s) : u[i] = s[i]) /\ (\A i \in 1 .. Len(t) : u[Len(s) + i] = t[i])
  BY <1>0, ConcatSeq
<1>3. ASSUME NEW i \in 1 .. Len(u)
      PROVE  i \in 1 .. Len(s) \/ \E j \in 1 .. Len(t) : i = Len(s) + j
  <2>1. CASE i <= Len(s)
    BY <1>1, <2>1
  <2>2. CASE ~ i <= Len(s)
    <3>1. i - Len(s) \in 1 .. Len(t) /\ i = Len(s) + (i - Len(s))
      BY <1>1, <1>2, <2>2
    <3> QED
      BY <3>1
  <2> QED
    BY <2>1, <2>2
<1>4. Tokens(u)
  <2>1. ASSUME NEW i \in 1 .. Len(u) PROVE u[i] \in Token
    <3>1. CASE i \in 1 .. Len(s)
      BY <1>2, <3>1 DEF Tokens
    <3>2. CASE \E j \in 1 .. Len(t) : i = Len(s) + j
      BY <1>2, <3>2 DEF Tokens
    <3> QED
      BY <1>3, <3>1, <3>2
  <2> QED
    BY <1>2, <2>1 DEF Tokens
<1> DEFINE a == Pieces(s)
           b == Pieces(t)
           c == Pieces(u)
           r == a \o b
<1>5. AllSeqs(a) /\ Len(a) = Len(s) /\ (\A i \in 1 .. Len(s) : a[i] = Piece[s[i]]) /\ Decode(s) = FlattenSeq(a)
  BY PiecesAre
<1>6. AllSeqs(b) /\ Len(b) = Len(t) /\ (\A i \in 1 .. Len(t) : b[i] = Piece[t[i]]) /\ Decode(t) = FlattenSeq(b)
  BY PiecesAre
<1>7. AllSeqs(c) /\ Len(c) = Len(u) /\ (\A i \in 1 .. Len(u) : c[i] = Piece[u[i]]) /\ Decode(u) = FlattenSeq(c)
  BY <1>4, PiecesAre
<1>8. After(r, a, b)
  BY DEF After
<1> HIDE DEF a, b, c, r
<1>9. IsSeq(a) /\ IsSeq(b) /\ IsSeq(c)
  BY <1>5, <1>6, <1>7 DEF AllSeqs
<1>10. /\ IsSeq(r) /\ Len(r) = Len(a) + Len(b)
       /\ (\A i \in 1 .. Len(a) : r[i] = a[i]) /\ (\A i \in 1 .. Len(b) : r[Len(a) + i] = b[i])
  BY <1>8, <1>9, ConcatSeq
<1>11. ASSUME NEW i \in 1 .. Len(c) PROVE c[i] = r[i]
  <2>0. i \in 1 .. Len(u)
    BY <1>7
  <2>1. CASE i \in 1 .. Len(s)
    <3>1. c[i] = Piece[s[i]] /\ r[i] = Piece[s[i]]
      BY <1>2, <1>5, <1>7, <1>10, <2>0, <2>1
    <3> QED
      BY <3>1
  <2>2. CASE \E j \in 1 .. Len(t) : i = Len(s) + j
    <3>1. PICK j \in 1 .. Len(t) : i = Len(s) + j
      BY <2>2
    <3>2. c[i] = Piece[t[j]]
      BY <1>2, <1>7, <2>0, <3>1
    <3>3. r[i] = b[j] /\ b[j] = Piece[t[j]]
      BY <1>5, <1>6, <1>10, <3>1
    <3> QED
      BY <3>2, <3>3
  <2> QED
    BY <1>3, <2>0, <2>1, <2>2
<1>12. Len(c) = Len(r)
  BY <1>2, <1>5, <1>6, <1>7, <1>10
<1>13. c = r
  BY <1>9, <1>10, <1>11, <1>12, SameSeq
<1>14. After(FlattenSeq(c), FlattenSeq(a), FlattenSeq(b))
  BY <1>5, <1>6, <1>8, <1>13, FlatConcat
<1> QED
  BY <1>4, <1>5, <1>6, <1>7, <1>14

-----------------------------------------------------------------------------
(* Plans as text. *)

Words(w) == [i \in DOMAIN w |-> IF i = 1 THEN w[i] ELSE <<Space>> \o w[i]]

(* The words of a plan as Join concatenates them. *)
LEMMA WordsAre ==
    ASSUME NEW n \in Nat, NEW w \in [1 .. n -> symbols]
    PROVE  /\ IsSeq(Words(w)) /\ Len(Words(w)) = n
           /\ \A i \in 1 .. n : Words(w)[i] = IF i = 1 THEN w[i] ELSE <<Space>> \o w[i]
           /\ Join(w) = FlattenSeq(Words(w))
<1> DEFINE e == Words(w)
<1>1. DOMAIN w = 1 .. n
  OBVIOUS
<1>2. \A i \in 1 .. n : e[i] = IF i = 1 THEN w[i] ELSE <<Space>> \o w[i]
  BY <1>1 DEF Words
<1>3. e = [i \in 1 .. n |-> e[i]]
  BY <1>1 DEF Words
<1>4. Join(w) = FlattenSeq(e)
  BY DEF Join, Words
<1> HIDE DEF e
<1>5. IsSeq(e) /\ Len(e) = n
  BY <1>3, NumberedSeq
<1>6. /\ IsSeq(e) /\ Len(e) = n
      /\ \A i \in 1 .. n : e[i] = IF i = 1 THEN w[i] ELSE <<Space>> \o w[i]
      /\ Join(w) = FlattenSeq(e)
  BY <1>2, <1>4, <1>5
<1> QED
  BY <1>6 DEF e

(* A plan of one symbol more, as text. *)
LEMMA JoinMore ==
    ASSUME NEW n \in Nat \ {0}, NEW w \in [1 .. n -> symbols], NEW v \in [1 .. n + 1 -> symbols],
           \A i \in 1 .. n : v[i] = w[i]
    PROVE  After(Join(v), Join(w), <<Space>> \o v[n + 1])
<1>1. n \in Nat /\ n + 1 \in Nat
  OBVIOUS
<1>2. /\ Len(Words(w)) = n /\ Join(w) = FlattenSeq(Words(w))
      /\ \A i \in 1 .. n : Words(w)[i] = IF i = 1 THEN w[i] ELSE <<Space>> \o w[i]
  BY <1>1, WordsAre
<1>3. /\ Len(Words(v)) = n + 1 /\ Join(v) = FlattenSeq(Words(v))
      /\ \A i \in 1 .. n + 1 : Words(v)[i] = IF i = 1 THEN v[i] ELSE <<Space>> \o v[i]
  BY <1>1, WordsAre
<1>4. ASSUME NEW i \in 1 .. n PROVE Words(v)[i] = Words(w)[i]
  <2>1. v[i] = w[i] /\ i \in 1 .. n + 1
    OBVIOUS
  <2>2. Words(v)[i] = IF i = 1 THEN v[i] ELSE <<Space>> \o v[i]
    BY <1>3, <2>1
  <2>3. Words(w)[i] = IF i = 1 THEN w[i] ELSE <<Space>> \o w[i]
    BY <1>2
  <2> QED
    BY <2>1, <2>2, <2>3
<1>5. After(FlattenSeq(Words(v)), FlattenSeq(Words(w)), Words(v)[n + 1])
  BY <1>2, <1>3, <1>4, FlatMore
<1>6. Words(v)[n + 1] = <<Space>> \o v[n + 1]
  BY <1>3
<1> QED
  BY <1>2, <1>3, <1>5, <1>6

LEMMA JoinOne ==
    ASSUME NEW w \in [1 .. 1 -> symbols]
    PROVE  Join(w) = w[1]
<1>1. 1 \in Nat
  OBVIOUS
<1>2. /\ Len(Words(w)) = 1 /\ Join(w) = FlattenSeq(Words(w))
      /\ \A i \in 1 .. 1 : Words(w)[i] = IF i = 1 THEN w[i] ELSE <<Space>> \o w[i]
  BY <1>1, WordsAre
<1>3. FlattenSeq(Words(w)) = Words(w)[1]
  BY <1>2, FlatOne
<1> QED
  BY <1>2, <1>3

(* A plan but its last symbol. *)
LEMMA Shortened ==
    ASSUME NEW S, NEW n \in Nat, NEW v \in [1 .. n + 1 -> S]
    PROVE  /\ [i \in 1 .. n |-> v[i]] \in [1 .. n -> S] /\ v[n + 1] \in S
           /\ \A i \in 1 .. n : v[i] = [j \in 1 .. n |-> v[j]][i]
<1>1. \A i \in 1 .. n : i \in 1 .. n + 1
  OBVIOUS
<1> QED
  BY <1>1

(* The encoding of a plan decodes to its text. *)
LEMMA DecodeTarget ==
    ASSUME TokenizerInv, NEW n \in Nat \ {0}, NEW w \in [1 .. n -> symbols]
    PROVE  Tokens(Target(w)) /\ Decode(Target(w)) = Join(w)
<1> DEFINE Right(v) == Tokens(Target(v)) /\ Decode(Target(v)) = Join(v)
           T == {m \in Nat \ {0} : \E v \in [1 .. m -> symbols] : ~ Right(v)}
<1>1. T = {}
  <2> SUFFICES ASSUME T # {} PROVE FALSE
    OBVIOUS
  <2>1. T \in SUBSET Nat
    OBVIOUS
  <2>2. \A m : m \in T <=> m \in Nat \ {0} /\ \E v \in [1 .. m -> symbols] : ~ Right(v)
    OBVIOUS
  <2> HIDE DEF T
  <2>3. PICK m \in T : \A k \in T : m <= k
    BY <2>1, Least
  <2>4. m \in Nat \ {0}
    BY <2>2
  <2>5. PICK v \in [1 .. m -> symbols] : ~ Right(v)
    BY <2>2
  <2>6. Tokens(Target(v))
    <3>1. m \in Nat /\ Spells(m, Target(v))
      BY <2>4 DEF Spells
    <3> QED
      BY <3>1, SpelledIs DEF Tokens
  <2>7. \A s \in symbols : first[s] \in Encodings(s) /\ following[s] \in Encodings(<<Space>> \o s)
    BY DEF TokenizerInv
  <2>8. CASE m = 1
    <3>1. v \in [1 .. 1 -> symbols] /\ v[1] \in symbols
      BY <2>8
    <3>2. Target(v) = first[v[1]] /\ Join(v) = v[1]
      BY <3>1, TargetOne, JoinOne
    <3>3. Decode(first[v[1]]) = v[1]
      BY <2>7, <3>1 DEF Encodings
    <3> QED
      BY <2>5, <2>6, <3>2, <3>3
  <2>9. CASE m # 1
    <3> DEFINE k == m - 1
               u == [i \in 1 .. k |-> v[i]]
               s == v[k + 1]
    <3>1. k \in Nat \ {0} /\ k \in Nat /\ m = k + 1 /\ ~ m <= k
      BY <2>4, <2>9
    <3> HIDE DEF k
    <3>2. v \in [1 .. k + 1 -> symbols]
      BY <3>1
    <3>3. u \in [1 .. k -> symbols] /\ s \in symbols /\ \A i \in 1 .. k : v[i] = u[i]
      BY <3>1, <3>2, Shortened
    <3> HIDE DEF u
    <3>4. Right(u)
      BY <2>2, <2>3, <3>1, <3>3
    <3>5. After(Target(v), Target(u), following[s]) /\ After(Join(v), Join(u), <<Space>> \o s)
      BY <3>1, <3>2, <3>3, TargetMore, JoinMore
    <3>6. Tokens(following[s]) /\ Decode(following[s]) = <<Space>> \o s
      <4>1. following[s] \in Encodings(<<Space>> \o s)
        BY <2>7, <3>3
      <4>2. \A chars : \A e \in Encodings(chars) : Tokens(e) /\ Decode(e) = chars
        BY EncodingIs DEF Tokens
      <4> QED
        BY <4>1, <4>2
    <3> HIDE DEF s
    <3>7. After(Decode(Target(v)), Decode(Target(u)), Decode(following[s]))
      BY <3>4, <3>5, <3>6, DecodeConcat
    <3>8. Decode(Target(v)) = Join(v)
      BY <3>4, <3>5, <3>6, <3>7 DEF After
    <3> QED
      BY <2>5, <2>6, <3>8
  <2> QED
    BY <2>8, <2>9
<1>2. Right(w)
  BY <1>1
<1> QED
  BY <1>2
----------------------------------------------------------------------------
(* Words.                                                                  *)

(* The words of the first i characters, from those of the i - 1 first. *)
WordsAt(chars, words, i) ==
    CASE i = 0 -> <<>>
      [] i > 0 /\ chars[i] = Space -> words[i - 1]
      [] i > 0 /\ chars[i] # Space /\ (i = 1 \/ chars[i - 1] = Space) ->
             Append(words[i - 1], <<chars[i]>>)
      [] OTHER -> [words[i - 1] EXCEPT ![Len(words[i - 1])] = Append(@, chars[i])]

Reads(words, chars, n) == words = [i \in 0 .. n |-> WordsAt(chars, words, i)]

(* Which of them is which. *)
LEMMA WordsAtIs ==
    ASSUME NEW chars, NEW words, NEW i \in Nat
    PROVE  /\ i = 0 => WordsAt(chars, words, i) = <<>>
           /\ i # 0 /\ chars[i] = Space => WordsAt(chars, words, i) = words[i - 1]
           /\ i # 0 /\ chars[i] # Space /\ (i = 1 \/ chars[i - 1] = Space) =>
                  WordsAt(chars, words, i) = Append(words[i - 1], <<chars[i]>>)
           /\ i # 0 /\ chars[i] # Space /\ i # 1 /\ chars[i - 1] # Space =>
                  WordsAt(chars, words, i) = [words[i - 1] EXCEPT ![Len(words[i - 1])] = Append(@, chars[i])]
<1>1. CASE i = 0
  BY <1>1 DEF WordsAt
<1>2. CASE i > 0 /\ chars[i] = Space
  BY <1>2 DEF WordsAt
<1>3. CASE i > 0 /\ chars[i] # Space /\ (i = 1 \/ chars[i - 1] = Space)
  BY <1>3 DEF WordsAt
<1>4. CASE i > 0 /\ chars[i] # Space /\ ~ (i = 1 \/ chars[i - 1] = Space)
  BY <1>4 DEF WordsAt
<1> QED
  BY <1>1, <1>2, <1>3, <1>4

(* It depends on nothing else. *)
LEMMA WordsAtSame ==
    ASSUME NEW chars, NEW other, NEW words, NEW those, NEW i \in Nat,
           i # 0 => words[i - 1] = those[i - 1] /\ chars[i] = other[i],
           i # 0 /\ i # 1 => chars[i - 1] = other[i - 1]
    PROVE  WordsAt(chars, words, i) = WordsAt(other, those, i)
<1>1. CASE i = 0
  BY <1>1, WordsAtIs
<1>2. CASE i # 0 /\ chars[i] = Space
  <2>1. WordsAt(chars, words, i) = words[i - 1]
    BY <1>2, WordsAtIs
  <2>2. WordsAt(other, those, i) = those[i - 1]
    BY <1>2, WordsAtIs
  <2> QED
    BY <1>2, <2>1, <2>2
<1>3. CASE i # 0 /\ chars[i] # Space /\ (i = 1 \/ chars[i - 1] = Space)
  <2>1. WordsAt(chars, words, i) = Append(words[i - 1], <<chars[i]>>)
    BY <1>3, WordsAtIs
  <2>2. WordsAt(other, those, i) = Append(those[i - 1], <<other[i]>>)
    BY <1>3, WordsAtIs
  <2> QED
    BY <1>3, <2>1, <2>2
<1>4. CASE i # 0 /\ chars[i] # Space /\ i # 1 /\ chars[i - 1] # Space
  <2>1. WordsAt(chars, words, i) = [words[i - 1] EXCEPT ![Len(words[i - 1])] = Append(@, chars[i])]
    BY <1>4, WordsAtIs
  <2>2. WordsAt(other, those, i) = [those[i - 1] EXCEPT ![Len(those[i - 1])] = Append(@, other[i])]
    BY <1>4, WordsAtIs
  <2> QED
    BY <1>4, <2>1, <2>2
<1> QED
  BY <1>1, <1>2, <1>3, <1>4

(* The words of every beginning of a text exist, ... *)
LEMMA ReadsExists ==
    ASSUME NEW chars, NEW N \in Nat
    PROVE  \E f : Reads(f, chars, N)
<1> DEFINE T == {n \in Nat : ~ \E f : Reads(f, chars, n)}
<1>1. SUFFICES ASSUME T # {} PROVE FALSE
  OBVIOUS
<1>2. T \in SUBSET Nat
  OBVIOUS
<1>3. PICK n \in T : \A m \in T : n <= m
  <2> HIDE DEF T
  <2> QED
    BY <1>1, <1>2, Least
<1>4. n \in Nat /\ ~ \E f : Reads(f, chars, n)
  OBVIOUS
<1>5. \E f : \A i \in 0 .. n : i # n => f[i] = WordsAt(chars, f, i)
  <2>1. CASE n = 0
    <3>1. \A i \in 0 .. n : i = n
      BY <2>1
    <3> QED
      BY <3>1
  <2>2. CASE n # 0
    <3>1. n - 1 \in Nat /\ ~ n <= n - 1
      BY <1>4, <2>2
    <3>2. \E f : Reads(f, chars, n - 1)
      BY <1>3, <3>1
    <3>3. PICK f : Reads(f, chars, n - 1)
      BY <3>2
    <3>4. \A i \in 0 .. n - 1 : f[i] = WordsAt(chars, f, i)
      BY <3>3 DEF Reads
    <3>5. \A i \in 0 .. n : i # n => i \in 0 .. n - 1
      BY <1>4
    <3> QED
      BY <3>4, <3>5
  <2> QED
    BY <2>1, <2>2
<1>6. PICK f : \A i \in 0 .. n : i # n => f[i] = WordsAt(chars, f, i)
  BY <1>5
<1> DEFINE g == [i \in 0 .. n |-> IF i = n THEN WordsAt(chars, f, n) ELSE f[i]]
<1>7. \A i \in 0 .. n : g[i] = IF i = n THEN WordsAt(chars, f, n) ELSE f[i]
  OBVIOUS
<1>8. g = [i \in 0 .. n |-> g[i]]
  OBVIOUS
<1> HIDE DEF g
<1>9. ASSUME NEW i \in 0 .. n PROVE WordsAt(chars, g, i) = WordsAt(chars, f, i)
  <2>1. i \in Nat /\ (i # 0 => i - 1 \in 0 .. n /\ i - 1 # n)
    BY <1>4
  <2>2. i # 0 => g[i - 1] = f[i - 1]
    BY <1>7, <2>1
  <2> QED
    BY <2>1, <2>2, WordsAtSame
<1>10. \A i \in 0 .. n : g[i] = WordsAt(chars, g, i)
  BY <1>6, <1>7, <1>9
<1>11. Reads(g, chars, n)
  BY <1>8, <1>10 DEF Reads
<1> QED
  BY <1>4, <1>11

(* ... and Split gives those of the whole text. *)
LEMMA SplitIs ==
    ASSUME NEW chars, IsSeq(chars)
    PROVE  \E f : Reads(f, chars, Len(chars)) /\ Split(chars) = f[Len(chars)]
<1> DEFINE words == CHOOSE f : f = [i \in 0 .. Len(chars) |->
            CASE i = 0 -> <<>>
              [] i > 0 /\ chars[i] = Space -> f[i - 1]
              [] i > 0 /\ chars[i] # Space /\ (i = 1 \/ chars[i - 1] = Space) ->
                     Append(f[i - 1], <<chars[i]>>)
              [] OTHER -> [f[i - 1] EXCEPT ![Len(f[i - 1])] = Append(@, chars[i])]]
<1>0. Len(chars) \in Nat
  BY LengthOfSeq
<1>1. Split(chars) = words[Len(chars)]
  BY DEF Split
<1>2. words = CHOOSE f : Reads(f, chars, Len(chars))
  BY DEF Reads, WordsAt
<1> HIDE DEF words
<1>3. Reads(words, chars, Len(chars))
  BY <1>0, <1>2, ReadsExists
<1> QED
  BY <1>1, <1>3

(* What comes later changes nothing. *)
LEMMA ReadsPrefix ==
    ASSUME NEW chars, NEW other, NEW n \in Nat, NEW m \in Nat, NEW f, NEW g, n <= m,
           \A i \in 1 .. n : chars[i] = other[i],
           Reads(f, chars, n), Reads(g, other, m)
    PROVE  f[n] = g[n]
<1>1. \A i \in 0 .. n : f[i] = WordsAt(chars, f, i)
  BY DEF Reads
<1>2. \A i \in 0 .. m : g[i] = WordsAt(other, g, i)
  BY DEF Reads
<1> DEFINE T == {i \in 0 .. n : f[i] # g[i]}
<1>3. T = {}
  <2> SUFFICES ASSUME T # {} PROVE FALSE
    OBVIOUS
  <2>1. T \in SUBSET Nat
    OBVIOUS
  <2>2. \A i : i \in T <=> i \in 0 .. n /\ f[i] # g[i]
    OBVIOUS
  <2> HIDE DEF T
  <2>3. PICK i \in T : \A j \in T : i <= j
    BY <2>1, Least
  <2>4. i \in 0 .. n /\ i \in 0 .. m /\ i \in Nat
    BY <2>2
  <2>5. i # 0 => f[i - 1] = g[i - 1] /\ chars[i] = other[i]
    <3> SUFFICES ASSUME i # 0 PROVE f[i - 1] = g[i - 1] /\ chars[i] = other[i]
      OBVIOUS
    <3>1. i - 1 \in 0 .. n /\ ~ i <= i - 1 /\ i \in 1 .. n
      BY <2>4
    <3> QED
      BY <2>2, <2>3, <3>1
  <2>6. i # 0 /\ i # 1 => chars[i - 1] = other[i - 1]
    <3> SUFFICES ASSUME i # 0, i # 1 PROVE chars[i - 1] = other[i - 1]
      OBVIOUS
    <3>1. i - 1 \in 1 .. n
      BY <2>4
    <3> QED
      BY <3>1
  <2>7. WordsAt(chars, f, i) = WordsAt(other, g, i)
    BY <2>4, <2>5, <2>6, WordsAtSame
  <2> QED
    BY <1>1, <1>2, <2>2, <2>4, <2>7
<1> QED
  BY <1>3

(* A word gets one more character. *)
LEMMA LastGrows ==
    ASSUME NEW ws, IsSeq(ws), NEW v, NEW c
    PROVE  [Append(ws, v) EXCEPT ![Len(Append(ws, v))] = Append(@, c)] = Append(ws, Append(v, c))
<1> DEFINE S == Range(ws) \cup {v, Append(v, c)}
           a == Append(ws, v)
           b == Append(ws, Append(v, c))
           n == Len(ws)
<1>1. ws \in Seq(S) /\ v \in S /\ Append(v, c) \in S
  <2>1. ws \in Seq(Range(ws))
    BY DEF IsSeq
  <2> QED
    BY <2>1
<1> HIDE DEF S
<1>2. /\ a \in Seq(S) /\ Len(a) = n + 1 /\ n \in Nat
      /\ (\A i \in 1 .. n : a[i] = ws[i]) /\ a[n + 1] = v
  BY <1>1
<1>3. /\ b \in Seq(S) /\ Len(b) = n + 1
      /\ (\A i \in 1 .. n : b[i] = ws[i]) /\ b[n + 1] = Append(v, c)
  BY <1>1
<1> HIDE DEF a, b, n
<1> DEFINE e == [a EXCEPT ![n + 1] = Append(a[n + 1], c)]
<1>4. n + 1 \in 1 .. Len(a) /\ Append(a[n + 1], c) \in S
  BY <1>1, <1>2
<1>5. /\ e \in Seq(S) /\ Len(e) = Len(a)
      /\ \A j \in 1 .. Len(a) : e[j] = IF j = n + 1 THEN Append(a[n + 1], c) ELSE a[j]
  BY <1>2, <1>4, ExceptSeq
<1> HIDE DEF e
<1>6. \A j \in 1 .. Len(e) : e[j] = b[j]
  <2>1. \A j \in 1 .. n + 1 : j = n + 1 \/ j \in 1 .. n
    BY <1>2
  <2> QED
    BY <1>2, <1>3, <1>5, <2>1
<1>7. IsSeq(e) /\ IsSeq(b) /\ Len(e) = Len(b)
  BY <1>2, <1>3, <1>5, AnySeq
<1>8. e = b
  BY <1>6, <1>7, SameSeq
<1>9. [a EXCEPT ![Len(a)] = Append(@, c)] = e
  BY <1>2 DEF e
<1> QED
  BY <1>8, <1>9 DEF a, b

LEMMA WordBegins ==
    ASSUME NEW chars, NEW words, NEW i \in Nat,
           i # 0, chars[i] # Space, i = 1 \/ chars[i - 1] = Space
    PROVE  WordsAt(chars, words, i) = Append(words[i - 1], <<chars[i]>>)
BY WordsAtIs

(* The last word grows by a character. *)
Grown(ws, c) == [ws EXCEPT ![Len(ws)] = Append(@, c)]

LEMMA WordGoesOn ==
    ASSUME NEW chars, NEW words, NEW i \in Nat,
           i # 0, chars[i] # Space, i # 1, chars[i - 1] # Space
    PROVE  WordsAt(chars, words, i) = Grown(words[i - 1], chars[i])
<1>1. WordsAt(chars, words, i) = [words[i - 1] EXCEPT ![Len(words[i - 1])] = Append(@, chars[i])]
  BY WordsAtIs
<1> QED
  BY <1>1 DEF Grown

(* A word s follows the first p characters, read as words f. *)
WordAt(chars, f, n, p, s) ==
    /\ n \in Nat /\ p \in 0 .. n /\ Reads(f, chars, n)
    /\ p = 0 \/ chars[p] = Space
    /\ IsSeq(f[p]) /\ IsSeq(s) /\ Len(s) \in Nat \ {0} /\ p + Len(s) <= n
    /\ \A k \in 1 .. Len(s) : s[k] # Space /\ chars[p + k] = s[k]

(* A word after a space, or the first, is read as a word. *)
LEMMA ReadsWord ==
    ASSUME NEW chars, NEW n, NEW f, NEW p, NEW s, WordAt(chars, f, n, p, s)
    PROVE  f[p + Len(s)] = Append(f[p], s)
<1> n \in Nat /\ p \in 0 .. n /\ Reads(f, chars, n) /\ (p = 0 \/ chars[p] = Space) /\ IsSeq(f[p])
  BY DEF WordAt
<1> IsSeq(s) /\ Len(s) \in Nat \ {0} /\ p + Len(s) <= n
  BY DEF WordAt
<1> \A k \in 1 .. Len(s) : s[k] # Space /\ chars[p + k] = s[k]
  BY DEF WordAt
<1>1. \A i \in 0 .. n : f[i] = WordsAt(chars, f, i)
  BY DEF Reads
<1> DEFINE T == {k \in 1 .. Len(s) : f[p + k] # Append(f[p], Cut(s, k))}
<1>2. T = {}
  <2> SUFFICES ASSUME T # {} PROVE FALSE
    OBVIOUS
  <2>1. T \in SUBSET Nat
    OBVIOUS
  <2>2. \A k : k \in T <=> k \in 1 .. Len(s) /\ f[p + k] # Append(f[p], Cut(s, k))
    OBVIOUS
  <2> HIDE DEF T
  <2>3. PICK k \in T : \A j \in T : k <= j
    BY <2>1, Least
  <2>4. k \in 1 .. Len(s) /\ k \in Nat /\ k # 0 /\ f[p + k] # Append(f[p], Cut(s, k))
    <3>1. k \in 1 .. Len(s) /\ f[p + k] # Append(f[p], Cut(s, k))
      BY <2>2
    <3>2. k \in Nat /\ k # 0
      BY <3>1
    <3> QED
      BY <3>1, <3>2
  <2> DEFINE i == p + k
  <2>5. i \in 0 .. n /\ i \in Nat /\ i # 0 /\ i - 1 = p + (k - 1)
    BY <2>4
  <2>6. chars[i] = s[k] /\ chars[i] # Space
    BY <2>4
  <2>7. Cut(s, k) = Append(Cut(s, k - 1), s[k])
    BY <2>4, CutMore
  <2>8. f[i] = WordsAt(chars, f, i)
    BY <1>1, <2>5
  <2>9. f[i] # Append(f[p], Cut(s, k))
    BY <2>4
  <2>10. CASE k = 1
    <3>1. i - 1 = p /\ (i = 1 \/ chars[i - 1] = Space)
      BY <2>10
    <3> HIDE DEF i
    <3>2. f[i] = Append(f[p], <<s[k]>>)
      <4>1. i \in Nat /\ i # 0 /\ chars[i] # Space /\ (i = 1 \/ chars[i - 1] = Space)
        BY <2>5, <2>6, <3>1
      <4>2. WordsAt(chars, f, i) = Append(f[i - 1], <<chars[i]>>)
        BY <4>1, WordBegins
      <4> QED
        BY <2>6, <2>8, <3>1, <4>2
    <3>3. Cut(s, k - 1) = <<>>
      <4>1. k - 1 = 0
        BY <2>10
      <4> QED
        BY <4>1, CutNone
    <3>4. Append(<<>>, s[k]) = <<s[k]>>
      OBVIOUS
    <3> QED
      BY <2>7, <2>9, <3>2, <3>3, <3>4
  <2>11. CASE k # 1
    <3>1. k - 1 \in 1 .. Len(s) /\ ~ k <= k - 1 /\ i # 1
      BY <2>4, <2>11
    <3>2. chars[i - 1] # Space
      BY <2>5, <3>1
    <3>3. f[p + (k - 1)] = Append(f[p], Cut(s, k - 1))
      BY <2>2, <2>3, <3>1
    <3>4. f[i - 1] = Append(f[p], Cut(s, k - 1))
      BY <2>5, <3>3
    <3> HIDE DEF i
    <3>5. f[i] = Grown(f[i - 1], chars[i])
      <4>1. i \in Nat /\ i # 0 /\ chars[i] # Space /\ i # 1 /\ chars[i - 1] # Space
        BY <2>5, <2>6, <3>1, <3>2
      <4>2. WordsAt(chars, f, i) = Grown(f[i - 1], chars[i])
        BY <4>1, WordGoesOn
      <4> QED
        BY <2>8, <4>2
    <3>6. f[i] = Append(f[p], Append(Cut(s, k - 1), s[k]))
      <4> DEFINE ws == f[p]
                 v == Cut(s, k - 1)
                 c == s[k]
                 long == Append(ws, v)
      <4>1. f[i] = Grown(long, c)
        BY <2>6, <3>4, <3>5
      <4>2. IsSeq(ws)
        OBVIOUS
      <4>3. Grown(long, c) = Append(ws, Append(v, c))
        <5> HIDE DEF ws, v, c
        <5> QED
          BY <4>2, LastGrows DEF Grown
      <4> QED
        BY <4>1, <4>3
    <3> QED
      BY <2>7, <2>9, <3>6
  <2> QED
    BY <2>10, <2>11
<1>3. Len(s) \in 1 .. Len(s)
  OBVIOUS
<1>4. f[p + Len(s)] = Append(f[p], Cut(s, Len(s)))
  BY <1>2, <1>3
<1> QED
  BY <1>4, CutAll

(* A symbol is a word: not empty, without a space. *)
LEMMA SymbolIs ==
    ASSUME NEW s \in Symbol
    PROVE  IsSeq(s) /\ Len(s) \in Nat \ {0} /\ \A k \in 1 .. Len(s) : s[k] # Space
<1>1. IsSeq(s) /\ s # <<>> /\ Space \notin Range(s)
  BY GenerationAssumption DEF Space, IsSeq
<1>2. Len(s) \in Nat /\ DOMAIN s = 1 .. Len(s)
  BY <1>1, LengthOfSeq
<1>3. Len(s) # 0
  BY <1>1, NoneIsEmpty
<1> QED
  BY <1>1, <1>2, <1>3 DEF Range

(* A single symbol splits to itself. *)
LEMMA SplitOne ==
    ASSUME NEW s \in Symbol
    PROVE  Split(s) = Append(<<>>, s)
<1>1. IsSeq(s) /\ Len(s) \in Nat \ {0} /\ \A k \in 1 .. Len(s) : s[k] # Space
  BY SymbolIs
<1>2. PICK f : Reads(f, s, Len(s)) /\ Split(s) = f[Len(s)]
  BY <1>1, SplitIs
<1>3. f[0] = <<>>
  <2>1. 0 \in 0 .. Len(s) /\ 0 \in Nat
    BY <1>1
  <2>2. f[0] = WordsAt(s, f, 0)
    BY <1>2, <2>1 DEF Reads
  <2> QED
    BY <2>1, <2>2, WordsAtIs
<1>4. /\ Len(s) \in Nat /\ 0 \in 0 .. Len(s) /\ 0 + Len(s) = Len(s) /\ 0 + Len(s) <= Len(s) /\ IsSeq(f[0])
      /\ \A k \in 1 .. Len(s) : s[k] # Space /\ s[0 + k] = s[k]
  BY <1>1, <1>3, NothingSeq
<1>5. f[0 + Len(s)] = Append(f[0], s)
  <2>1. WordAt(s, f, Len(s), 0, s)
    BY <1>1, <1>2, <1>4 DEF WordAt
  <2> QED
    BY <2>1, ReadsWord
<1> QED
  BY <1>2, <1>3, <1>4, <1>5

(* A text, a space and a symbol split to the words of the text and it.     *)
LEMMA SplitMore ==
    ASSUME NEW chars, IsSeq(chars), IsSeq(Split(chars)), NEW s \in Symbol, NEW u, After(u, chars, <<Space>> \o s)
    PROVE  IsSeq(u) /\ Split(u) = Append(Split(chars), s)
<1> DEFINE gap == <<Space>>
           more == gap \o s
           L == Len(chars)
           p == L + 1
           N == Len(u)
<1>1. IsSeq(s) /\ Len(s) \in Nat \ {0} /\ \A k \in 1 .. Len(s) : s[k] # Space
  BY SymbolIs
<1>2. L \in Nat
  BY LengthOfSeq
<1>3. IsSeq(gap) /\ Len(gap) = 1 /\ gap[1] = Space
  <2>1. gap \in Seq({Space}) /\ Len(gap) = 1 /\ gap[1] = Space
    OBVIOUS
  <2> HIDE DEF gap
  <2> QED
    BY <2>1, AnySeq
<1>4. After(more, gap, s) /\ After(u, chars, more)
  BY DEF After
<1> HIDE DEF gap, more
<1>5. /\ IsSeq(more) /\ Len(more) = 1 + Len(s)
      /\ (\A i \in 1 .. 1 : more[i] = gap[i]) /\ (\A i \in 1 .. Len(s) : more[1 + i] = s[i])
  <2>1. IsSeq(gap) /\ IsSeq(s) /\ After(more, gap, s)
    BY <1>1, <1>3, <1>4
  <2>2. /\ IsSeq(more) /\ Len(more) = Len(gap) + Len(s)
        /\ (\A i \in 1 .. Len(gap) : more[i] = gap[i]) /\ (\A i \in 1 .. Len(s) : more[Len(gap) + i] = s[i])
    BY <2>1, ConcatSeq
  <2> QED
    BY <1>3, <2>2
<1>6. /\ IsSeq(u) /\ N = L + Len(more)
      /\ (\A i \in 1 .. L : u[i] = chars[i]) /\ (\A i \in 1 .. Len(more) : u[L + i] = more[i])
  BY <1>4, <1>5, ConcatSeq
<1> HIDE DEF L, N
<1>7. N = p + Len(s) /\ N \in Nat /\ p \in 0 .. N /\ p \in Nat /\ p # 0 /\ p - 1 = L /\ L <= N /\ p + Len(s) <= N
  BY <1>1, <1>2, <1>5, <1>6
<1>8. u[p] = Space
  <2>1. 1 \in 1 .. Len(more) /\ 1 \in 1 .. 1
    BY <1>1, <1>5
  <2>2. u[L + 1] = more[1] /\ more[1] = gap[1]
    BY <1>5, <1>6, <2>1
  <2> QED
    BY <1>3, <2>2
<1>9. ASSUME NEW k \in 1 .. Len(s) PROVE s[k] # Space /\ u[p + k] = s[k]
  <2>1. 1 + k \in 1 .. Len(more) /\ L + (1 + k) = p + k
    BY <1>1, <1>2, <1>5
  <2>2. u[L + (1 + k)] = more[1 + k] /\ more[1 + k] = s[k]
    BY <1>5, <1>6, <2>1
  <2> QED
    BY <1>1, <2>1, <2>2
<1> HIDE DEF p
<1>10. PICK f : Reads(f, chars, L) /\ Split(chars) = f[L]
  BY SplitIs DEF L
<1>11. PICK g : Reads(g, u, N) /\ Split(u) = g[N]
  BY <1>6, SplitIs DEF N
<1>12. \A i \in 1 .. L : chars[i] = u[i]
  BY <1>6
<1>13. f[L] = g[L]
  <2>1. Reads(f, chars, L) /\ Reads(g, u, N) /\ L \in Nat /\ N \in Nat /\ L <= N
    BY <1>2, <1>7, <1>10, <1>11
  <2> QED
    BY <1>12, <2>1, ReadsPrefix, SMTT(30)
<1>14. g[p] = g[L]
  <2>1. g[p] = WordsAt(u, g, p)
    BY <1>7, <1>11 DEF Reads
  <2>2. WordsAt(u, g, p) = g[p - 1]
    BY <1>7, <1>8, WordsAtIs
  <2> QED
    BY <1>7, <2>1, <2>2
<1>15. IsSeq(g[p])
  BY <1>10, <1>13, <1>14
<1>16. g[p + Len(s)] = Append(g[p], s)
  <2>1. /\ Reads(g, u, N) /\ N \in Nat /\ p \in 0 .. N /\ (p = 0 \/ u[p] = Space) /\ IsSeq(g[p])
        /\ IsSeq(s) /\ Len(s) \in Nat \ {0} /\ p + Len(s) <= N
        /\ \A k \in 1 .. Len(s) : s[k] # Space /\ u[p + k] = s[k]
    BY <1>1, <1>7, <1>8, <1>9, <1>11, <1>15
  <2> QED
    <3>1. WordAt(u, g, N, p, s)
      BY <2>1 DEF WordAt
    <3> QED
      BY <3>1, ReadsWord
<1> QED
  BY <1>6, <1>7, <1>10, <1>11, <1>13, <1>14, <1>16

(* str.split() finds the words of a plan that str.join() put together. *)
LEMMA SplitJoin ==
    ASSUME symbols \subseteq Symbol, NEW n \in Nat \ {0}, NEW w \in [1 .. n -> symbols]
    PROVE  Split(Join(w)) = w
<1> DEFINE Right(v) == IsSeq(Join(v)) /\ Split(Join(v)) = v
           T == {m \in Nat \ {0} : \E v \in [1 .. m -> symbols] : ~ Right(v)}
<1>1. T = {}
  <2> SUFFICES ASSUME T # {} PROVE FALSE
    OBVIOUS
  <2>1. T \in SUBSET Nat
    OBVIOUS
  <2>2. \A m : m \in T <=> m \in Nat \ {0} /\ \E v \in [1 .. m -> symbols] : ~ Right(v)
    OBVIOUS
  <2> HIDE DEF T
  <2>3. PICK m \in T : \A k \in T : m <= k
    BY <2>1, Least
  <2>4. m \in Nat \ {0}
    BY <2>2
  <2>5. PICK v \in [1 .. m -> symbols] : ~ Right(v)
    BY <2>2
  <2>6. CASE m = 1
    <3>1. v \in [1 .. 1 -> symbols] /\ v[1] \in symbols /\ v[1] \in Symbol
      BY <2>6
    <3>2. Join(v) = v[1]
      BY <3>1, JoinOne
    <3>3. IsSeq(v[1]) /\ Split(v[1]) = Append(<<>>, v[1])
      BY <3>1, SymbolIs, SplitOne
    <3>4. Append(<<>>, v[1]) = v
      <4>1. IsSeq(<<>>) /\ Len(<<>>) = 0
        BY NothingSeq
      <4>2. IsSeq(Append(<<>>, v[1])) /\ Len(Append(<<>>, v[1])) = 0 + 1 /\ Append(<<>>, v[1])[0 + 1] = v[1]
        <5>1. /\ IsSeq(Append(<<>>, v[1])) /\ Len(Append(<<>>, v[1])) = Len(<<>>) + 1
              /\ Append(<<>>, v[1])[Len(<<>>) + 1] = v[1]
          BY <4>1, AppendIs, ZenonT(30)
        <5> QED
          BY <4>1, <5>1
      <4>3. IsSeq(v) /\ Len(v) = 1
        <5>1. v = [i \in 1 .. 1 |-> v[i]] /\ 1 \in Nat
          BY <3>1
        <5> QED
          BY <5>1, NumberedSeq
      <4>4. \A i \in 1 .. Len(v) : Append(<<>>, v[1])[i] = v[i]
        BY <4>2, <4>3
      <4>5. Len(Append(<<>>, v[1])) = Len(v)
        BY <4>2, <4>3
      <4>6. IsSeq(Append(<<>>, v[1])) /\ IsSeq(v) /\ \A i \in 1 .. Len(Append(<<>>, v[1])) : Append(<<>>, v[1])[i] = v[i]
        BY <4>2, <4>3, <4>4, <4>5
      <4> QED
        BY <4>5, <4>6, SameSeq
    <3> QED
      BY <2>5, <3>2, <3>3, <3>4
  <2>7. CASE m # 1
    <3> DEFINE k == m - 1
               u == [i \in 1 .. k |-> v[i]]
               s == v[k + 1]
    <3>1. k \in Nat \ {0} /\ k \in Nat /\ m = k + 1 /\ ~ m <= k
      BY <2>4, <2>7
    <3> HIDE DEF k
    <3>2. v \in [1 .. k + 1 -> symbols]
      BY <3>1
    <3>3. u \in [1 .. k -> symbols] /\ s \in symbols /\ \A i \in 1 .. k : v[i] = u[i]
      BY <3>1, <3>2, Shortened
    <3> HIDE DEF u
    <3>4. Right(u)
      BY <2>2, <2>3, <3>1, <3>3
    <3>5. After(Join(v), Join(u), <<Space>> \o s)
      BY <3>1, <3>2, <3>3, JoinMore
    <3>6. IsSeq(u) /\ Len(u) = k
      <4>1. u = [i \in 1 .. k |-> u[i]]
        BY <3>3
      <4> QED
        BY <3>1, <4>1, NumberedSeq
    <3>7. IsSeq(v) /\ Len(v) = k + 1
      <4>1. v = [i \in 1 .. k + 1 |-> v[i]] /\ k + 1 \in Nat
        BY <3>1, <3>2
      <4> QED
        BY <4>1, NumberedSeq
    <3>8. s \in Symbol
      BY <3>3
    <3> DEFINE a == Append(u, s)
    <3>9. /\ IsSeq(a) /\ Len(a) = Len(u) + 1 /\ a[Len(u) + 1] = s
          /\ \A i \in 1 .. Len(u) : a[i] = u[i]
      BY <3>6, AppendIs
    <3>10. IsSeq(Join(v)) /\ Split(Join(v)) = a
      BY <3>4, <3>5, <3>6, <3>8, SplitMore
    <3> HIDE DEF a
    <3>11. ASSUME NEW i \in 1 .. k + 1 PROVE a[i] = v[i]
      <4>1. i = k + 1 \/ i \in 1 .. k
        BY <3>1
      <4> QED
        BY <3>3, <3>6, <3>9, <4>1
    <3>12. Len(a) = k + 1
      BY <3>6, <3>9
    <3>13. a = v
      BY <3>7, <3>9, <3>11, <3>12, SameSeq
    <3> QED
      BY <2>5, <3>10, <3>13
  <2> QED
    BY <2>6, <2>7
<1>2. Right(w)
  BY <1>1
<1> QED
  BY <1>2

----------------------------------------------------------------------------
(* What the recognizers promise of what is generated.                      *)

(* When the recognizer allows EOS, what was generated is the encoding of a *)
(* plan, and decodes and splits to it.                                     *)
LEMMA CompleteIsPlan ==
    ASSUME TokenizerInv, NEW tokens, IsSeq(tokens), EOS \in Allowed(tokens)
    PROVE  \E n \in 1 .. Most(tokens) : \E w \in [1 .. n -> symbols] :
               /\ tokens = Target(w) /\ Decode(tokens) = Join(w) /\ Split(Decode(tokens)) = w
               /\ Len(w) = n /\ w \in Seq(symbols) /\ Authorized(w)
<1>1. EOS \in Continuations(tokens)
  BY AllowedIsExact
<1>2. Most(tokens) \in Nat \ {0}
  BY MostIs
<1>3. ASSUME NEW n \in 0 .. Most(tokens) - 1, NEW form, NEW k, UnderWay(tokens, form, k, n)
      PROVE  EOS # form[k + 1]
  <2>1. form \in Forms(n) /\ k \in 0 .. Len(tokens) /\ k < Len(form)
    BY <1>3 DEF UnderWay
  <2>2. Len(form) \in Nat /\ \A i \in 1 .. Len(form) : form[i] # EOS
    BY <2>1, FormIs
  <2>3. Len(tokens) \in Nat
    BY LengthOfSeq
  <2>4. k + 1 \in 1 .. Len(form)
    BY <2>1, <2>2, <2>3
  <2> QED
    BY <2>2, <2>4
<1>4. \E n \in 1 .. Most(tokens) : Spells(n, tokens)
  BY <1>1, <1>3, ContinuationsAre
<1>5. PICK n \in 1 .. Most(tokens) : Spells(n, tokens)
  BY <1>4
<1>6. PICK w \in [1 .. n -> symbols] : tokens = Target(w)
  BY <1>5 DEF Spells
<1>7. n \in Nat \ {0} /\ n \in Nat
  BY <1>2
<1>8. Decode(tokens) = Join(w)
  BY <1>6, <1>7, DecodeTarget
<1>9. Split(Join(w)) = w
  <2>1. symbols \subseteq Symbol
    BY DEF TokenizerInv
  <2> QED
    BY <1>7, <2>1, SplitJoin
<1>10. Len(w) = n /\ w \in Seq(symbols)
  BY <1>7
<1>11. Authorized(w)
  <2>1. w # <<>>
    BY <1>7, <1>10, NothingSeq
  <2>2. Range(w) \subseteq symbols
    BY DEF Range
  <2> QED
    BY <2>1, <2>2 DEF Authorized
<1> QED
  BY <1>6, <1>8, <1>9, <1>10, <1>11

(* As long as the recognizer is honoured there is a token to go on with,   *)
(* or EOS.                                                                 *)
Honest(tokens) ==
    /\ IsSeq(tokens)
    /\ \A i \in 1 .. Len(tokens) : tokens[i] # EOS /\ tokens[i] \in Allowed(Cut(tokens, i - 1))

(* After tokens that were each allowed, something is allowed: the next     *)
(* token of the symbol under way, or EOS after a complete one.             *)
LEMMA NeverStuck ==
    ASSUME TokenizerInv, NEW tokens, Honest(tokens)
    PROVE  Allowed(tokens) # {}
<1>1. IsSeq(tokens) /\ Len(tokens) \in Nat
  BY LengthOfSeq DEF Honest
<1>2. Most(tokens) \in Nat \ {0}
  BY <1>1, MostIs
<1>3. ASSUME NEW n \in 0 .. Most(tokens) - 1, NEW form, NEW k, UnderWay(tokens, form, k, n)
      PROVE  Allowed(tokens) # {}
  <2>1. form[k + 1] \in Continuations(tokens)
    BY <1>1, <1>3, ContinuationsAre
  <2> QED
    BY <1>1, <2>1, AllowedIsExact
<1>4. CASE Len(tokens) = 0
  <2>1. tokens = <<>>
    BY <1>1, <1>4, NoneIsEmpty
  <2>2. PICK s \in symbols : TRUE
    BY DEF TokenizerInv
  <2> DEFINE form == first[s]
  <2>3. form \in Forms(0)
    BY DEF Forms, First
  <2> HIDE DEF form
  <2>4. Len(form) \in Nat \ {0}
    BY <2>3, FormIs
  <2>5. Spells(0, Cut(tokens, Len(tokens) - 0))
    <3>1. Len(tokens) - 0 = Len(tokens)
      BY <1>1
    <3> QED
      BY <1>1, <2>1, <3>1, CutAll, SpellsNone
  <2>6. UnderWay(tokens, form, 0, 0)
    BY <1>1, <2>3, <2>4, <2>5 DEF UnderWay
  <2>7. 0 \in 0 .. Most(tokens) - 1
    BY <1>2
  <2> QED
    BY <1>3, <2>6, <2>7
<1>5. CASE Len(tokens) # 0
  <2> DEFINE m == Len(tokens)
             t == Cut(tokens, m - 1)
             x == tokens[m]
  <2>1. m \in 1 .. Len(tokens) /\ m \in Nat /\ m - 1 \in 0 .. Len(tokens) /\ m - 1 \in Nat
    BY <1>1, <1>5
  <2>2. IsSeq(t) /\ Len(t) = m - 1
    BY <1>1, <2>1, CutSeq
  <2>3. tokens = Append(t, x)
    <3>1. Cut(tokens, m) = Append(Cut(tokens, m - 1), tokens[m])
      BY <1>1, <2>1, CutMore
    <3>2. Cut(tokens, m) = tokens
      BY <1>1, CutAll
    <3> QED
      BY <3>1, <3>2
  <2>4. x # EOS /\ x \in Allowed(t)
    BY <2>1 DEF Honest
  <2> HIDE DEF m, t, x
  <2>5. x \in Continuations(t)
    BY <2>2, <2>4, AllowedIsExact
  <2>6. \E n \in 0 .. Most(t) - 1 : \E form, k : UnderWay(t, form, k, n) /\ x = form[k + 1]
    BY <2>2, <2>4, <2>5, ContinuationsAre
  <2>7. PICK n \in 0 .. Most(t) - 1 : \E form, k : UnderWay(t, form, k, n) /\ x = form[k + 1]
    BY <2>6
  <2>8. PICK form, k : UnderWay(t, form, k, n) /\ x = form[k + 1]
    BY <2>7
  <2>9. Most(t) \in Nat /\ Most(t) <= Most(tokens)
    <3>1. Most(t) \in Nat
      BY <2>2, MostIs
    <3>2. Len(t) + 1 <= Len(tokens) + 1
      BY <2>1, <2>2, <1>1 DEF m
    <3>3. MaxSymbols \in Nat
      BY GenerationAssumption
    <3> QED
      BY <3>1, <3>2, <3>3 DEF Most
  <2>10. n \in Nat /\ n \in 0 .. Most(tokens) - 1 /\ n + 1 \in 1 .. Most(tokens)
    BY <1>2, <2>9
  <2>11. form \in Forms(n) /\ k \in 0 .. Len(t) /\ k < Len(form) /\ k \in Nat /\ Len(form) \in Nat
    <3>1. form \in Forms(n) /\ k \in 0 .. Len(t) /\ k < Len(form)
      BY <2>8 DEF UnderWay
    <3>2. Len(form) \in Nat
      BY <3>1, FormIs
    <3> QED
      BY <2>1, <2>2, <3>1, <3>2
  <2>12. CASE k + 1 < Len(form)
    <3>1. UnderWay(Append(t, x), form, k + 1, n)
      <4>1. IsSeq(t) /\ k \in Nat /\ n \in Nat
        BY <2>2, <2>10, <2>11
      <4>2. UnderWay(t, form, k, n) /\ form[k + 1] = x /\ k + 1 < Len(form)
        BY <2>8, <2>12
      <4> QED
        <5>1. UnderWay(Append(t, x), form, k + 1, n) <=>
                  UnderWay(t, form, k, n) /\ form[k + 1] = x /\ k + 1 < Len(form)
          BY <4>1, OneToken
        <5> QED
          BY <4>2, <5>1
    <3> QED
      BY <1>3, <2>3, <2>10, <3>1
  <2>13. CASE k + 1 = Len(form)
    <3>1. Spells(n + 1, Append(t, x))
      BY <2>2, <2>8, <2>10, <2>11, <2>13, LastToken
    <3>2. EOS \in Continuations(tokens)
      BY <1>1, <2>3, <2>10, <3>1, ContinuationsAre
    <3> QED
      BY <1>1, <3>2, AllowedIsExact
  <2>14. k + 1 < Len(form) \/ k + 1 = Len(form)
    BY <2>11
  <2> QED
    BY <2>12, <2>13, <2>14
<1> QED
  BY <1>4, <1>5

----------------------------------------------------------------------------
(* What the library returns.                                               *)

(* What comes after the first p elements. *)
Rest(s, p) == SubSeq(s, p + 1, Len(s))

(* The elements of the rest. *)
LEMMA RestSeq ==
    ASSUME NEW s, IsSeq(s), NEW p \in 0 .. Len(s)
    PROVE  /\ IsSeq(Rest(s, p)) /\ Len(Rest(s, p)) = Len(s) - p
           /\ \A i \in 1 .. Len(s) - p : Rest(s, p)[i] = s[p + i]
<1> DEFINE k == Len(s) - p
<1>1. s \in Seq(Range(s)) /\ Len(s) \in Nat /\ p \in Nat /\ k \in Nat /\ Len(s) = p + k
  BY DEF IsSeq
<1> HIDE DEF k
<1>2. Rest(s, p) = [i \in 1 .. k |-> s[p + i]]
  BY <1>1 DEF Rest
<1> DEFINE r == [i \in 1 .. k |-> s[p + i]]
<1>3. r = [i \in 1 .. k |-> r[i]] /\ \A i \in 1 .. k : r[i] = s[p + i]
  OBVIOUS
<1> HIDE DEF r
<1>4. IsSeq(r) /\ Len(r) = k
  BY <1>1, <1>3, NumberedSeq
<1>5. Rest(s, p) = r
  BY <1>2 DEF r
<1> QED
  BY <1>3, <1>4, <1>5 DEF k

(* The first EOS of the output. *)
LEMMA TerminationIs ==
    ASSUME IsSeq(output), EOS \in Range(output)
    PROVE  /\ Termination \in 1 .. Len(output) /\ output[Termination] = EOS
           /\ \A j \in 1 .. Termination - 1 : output[j] # EOS
<1> DEFINE T == {i \in DOMAIN output : output[i] = EOS}
<1>1. DOMAIN output = 1 .. Len(output) /\ Len(output) \in Nat
  BY LengthOfSeq
<1>2. T \in SUBSET Nat
  BY <1>1
<1>3. T # {}
  BY DEF Range
<1>4. \A i : i \in T <=> i \in DOMAIN output /\ output[i] = EOS
  OBVIOUS
<1> HIDE DEF T
<1>5. PICK i \in T : \A j \in T : i <= j
  BY <1>2, <1>3, Least
<1>6. i \in 1 .. Len(output) /\ output[i] = EOS
  BY <1>1, <1>4
<1>7. ASSUME NEW j \in 1 .. i - 1 PROVE output[j] # EOS
  <2>1. j \in DOMAIN output /\ ~ i <= j
    BY <1>1, <1>6
  <2> QED
    BY <1>4, <1>5, <2>1
<1>8. \E i_1 \in DOMAIN output : output[i_1] = EOS /\ \A j \in 1 .. i_1 - 1 : output[j] # EOS
  BY <1>1, <1>6, <1>7
<1>9. Termination \in DOMAIN output /\ output[Termination] = EOS /\ \A j \in 1 .. Termination - 1 : output[j] # EOS
  BY <1>8 DEF Termination
<1> QED
  BY <1>1, <1>9

(* What is accepted is the encoding of the plan. *)
LEMMA AcceptedTokens ==
    ASSUME TokenizerInv, IsSeq(output), EOS \in Range(output), Replay
    PROVE  \E n \in 1 .. Most(BeforeEOS) : \E w \in [1 .. n -> symbols] :
               /\ BeforeEOS = Target(w) /\ Decode(BeforeEOS) = Join(w) /\ Split(Decode(BeforeEOS)) = w
               /\ Len(w) = n /\ w \in Seq(symbols) /\ Authorized(w)
<1> DEFINE q == Termination - 1
<1>1. Termination \in 1 .. Len(output) /\ Len(output) \in Nat
  BY TerminationIs, LengthOfSeq
<1>2. q \in 0 .. Len(output)
  BY <1>1
<1>3. BeforeEOS = Cut(output, q)
  BY DEF BeforeEOS, Cut
<1> HIDE DEF q
<1>4. IsSeq(BeforeEOS)
  BY <1>2, <1>3, CutSeq
<1>5. EOS \in Allowed(BeforeEOS)
  BY DEF Replay, Complete
<1> QED
  BY <1>4, <1>5, CompleteIsPlan

(* A generated plan, EOS and what follows it are told apart. *)
LEMMA OutputParts ==
    ASSUME NEW g, NEW tail, IsSeq(g), IsSeq(tail), \A i \in 1 .. Len(g) : g[i] # EOS,
           output = g \o <<EOS>> \o tail
    PROVE  /\ IsSeq(output) /\ EOS \in Range(output) /\ BeforeEOS = g /\ AfterEOS = tail
           /\ Len(output) = Len(g) + 1 + Len(tail)
<1> DEFINE one == <<EOS>>
           ended == g \o one
           L == Len(g)
           N == Len(output)
           e == Termination
<1>1. IsSeq(one) /\ Len(one) = 1 /\ one[1] = EOS
  <2>1. one \in Seq({EOS}) /\ Len(one) = 1 /\ one[1] = EOS
    OBVIOUS
  <2> HIDE DEF one
  <2> QED
    BY <2>1, AnySeq
<1>2. After(ended, g, one) /\ After(output, ended, tail)
  BY DEF After
<1> HIDE DEF one, ended
<1>3. L \in Nat /\ Len(tail) \in Nat
  BY LengthOfSeq
<1>4. /\ IsSeq(ended) /\ Len(ended) = L + Len(one)
      /\ (\A i \in 1 .. L : ended[i] = g[i]) /\ (\A i \in 1 .. Len(one) : ended[L + i] = one[i])
  <2>1. IsSeq(g) /\ IsSeq(one) /\ After(ended, g, one)
    BY <1>1, <1>2
  <2> QED
    BY <2>1, ConcatSeq
<1>5. /\ IsSeq(output) /\ N = Len(ended) + Len(tail)
      /\ (\A i \in 1 .. Len(ended) : output[i] = ended[i])
      /\ (\A i \in 1 .. Len(tail) : output[Len(ended) + i] = tail[i])
  <2>1. IsSeq(ended) /\ IsSeq(tail) /\ After(output, ended, tail)
    BY <1>2, <1>4
  <2>2. PICK r : r = output
    OBVIOUS
  <2>3. After(r, ended, tail)
    BY <2>1, <2>2
  <2>4. /\ IsSeq(r) /\ Len(r) = Len(ended) + Len(tail)
        /\ (\A i \in 1 .. Len(ended) : r[i] = ended[i])
        /\ (\A i \in 1 .. Len(tail) : r[Len(ended) + i] = tail[i])
    BY <2>1, <2>3, ConcatSeq
  <2> QED
    BY <2>2, <2>4
<1> HIDE DEF L, N
<1>6. N = L + 1 + Len(tail) /\ N \in Nat /\ Len(ended) = L + 1
  BY <1>1, <1>3, <1>4, <1>5
<1>7. output[L + 1] = EOS
  <2>1. 1 \in 1 .. Len(one) /\ L + 1 \in 1 .. Len(ended)
    BY <1>1, <1>3, <1>6
  <2> QED
    BY <1>1, <1>4, <1>5, <2>1
<1>8. ASSUME NEW i \in 1 .. L PROVE output[i] = g[i] /\ output[i] # EOS
  <2>1. i \in 1 .. Len(ended)
    BY <1>3, <1>6
  <2> QED
    BY <1>4, <1>5, <2>1 DEF L
<1>9. EOS \in Range(output)
  <2>1. L + 1 \in DOMAIN output
    BY <1>3, <1>5, <1>6, LengthOfSeq DEF N
  <2> QED
    BY <1>7, <2>1 DEF Range
<1>10. e = L + 1
  <2>1. e \in 1 .. N /\ output[e] = EOS /\ \A j \in 1 .. e - 1 : output[j] # EOS
    BY <1>5, <1>9, TerminationIs DEF N
  <2> HIDE DEF e
  <2>2. ~ e \in 1 .. L
    BY <1>8, <2>1
  <2>3. ~ L + 1 \in 1 .. e - 1
    BY <1>7, <2>1
  <2>4. e \in Nat /\ e >= 1
    BY <1>6, <2>1
  <2>5. e >= L + 1
    BY <1>3, <2>2, <2>4
  <2>6. e <= L + 1
    BY <1>3, <2>3, <2>4
  <2> QED
    BY <1>3, <2>4, <2>5, <2>6
<1>11. BeforeEOS = g
  <2>1. BeforeEOS = Cut(output, L)
    <3>1. Termination - 1 = L
      BY <1>3, <1>10
    <3> QED
      BY <3>1 DEF BeforeEOS, Cut
  <2>2. L \in 0 .. Len(output)
    BY <1>3, <1>6 DEF N
  <2>3. IsSeq(Cut(output, L)) /\ Len(Cut(output, L)) = L /\ \A i \in 1 .. L : Cut(output, L)[i] = output[i]
    BY <1>5, <2>2, CutSeq
  <2>4. \A i \in 1 .. L : Cut(output, L)[i] = g[i]
    BY <1>8, <2>3
  <2>5. Cut(output, L) = g
    <3>1. IsSeq(Cut(output, L)) /\ Len(Cut(output, L)) = Len(g)
      BY <2>3 DEF L
    <3>2. \A i \in 1 .. Len(Cut(output, L)) : Cut(output, L)[i] = g[i]
      BY <2>3, <2>4
    <3> QED
      BY <3>1, <3>2, SameSeq
  <2> QED
    BY <2>1, <2>5
<1>12. AfterEOS = tail
  <2> DEFINE p == L + 1
             rest == Rest(output, p)
  <2>1. AfterEOS = rest
    <3>1. Termination + 1 = p + 1
      BY <1>10
    <3> QED
      BY <3>1 DEF AfterEOS, Rest
  <2>2. IsSeq(output) /\ p \in Nat /\ Len(tail) \in Nat /\ Len(output) = p + Len(tail)
    BY <1>3, <1>5, <1>6 DEF N
  <2>3. p = Len(ended)
    BY <1>6
  <2> HIDE DEF p
  <2>4. /\ IsSeq(rest) /\ Len(rest) = Len(tail) /\ \A i \in 1 .. Len(tail) : rest[i] = output[p + i]
    <3>1. p \in 0 .. Len(output) /\ Len(output) - p = Len(tail)
      BY <2>2
    <3>2. /\ IsSeq(Rest(output, p)) /\ Len(Rest(output, p)) = Len(output) - p
          /\ \A i \in 1 .. Len(output) - p : Rest(output, p)[i] = output[p + i]
      BY <2>2, <3>1, RestSeq
    <3> QED
      BY <3>1, <3>2
  <2> HIDE DEF rest
  <2>5. \A i \in 1 .. Len(tail) : rest[i] = tail[i]
    BY <1>5, <2>3, <2>4
  <2>6. rest = tail
    <3>1. \A i \in 1 .. Len(rest) : rest[i] = tail[i]
      BY <2>4, <2>5
    <3> QED
      BY <2>4, <3>1, SameSeq
  <2> QED
    BY <2>1, <2>6
<1> QED
  BY <1>5, <1>6, <1>9, <1>11, <1>12 DEF L, N

(* A library that honours the recognizer and ends with EOS is accepted. *)
LEMMA EndedIsAccepted ==
    ASSUME TokenizerInv, GenerationTypeOK, honoured, HonouredInv, Ended
    PROVE  /\ kind = "encoder" => EncoderAccepts
           /\ kind = "decoder" => DecoderAccepts
<1>1. generated \in Seq(Token \ {EOS}) /\ prompt
  BY DEF GenerationTypeOK, HonouredInv
<1>2. IsSeq(generated) /\ DOMAIN generated = 1 .. Len(generated)
  BY <1>1, AnySeq, LengthOfSeq
<1>3. \A i \in 1 .. Len(generated) : generated[i] # EOS
  BY <1>1
<1>4. EOS \in Allowed(generated)
  BY DEF Ended
<1>5. PICK tail \in {<<>>, <<Pad>>} : output = generated \o <<EOS>> \o tail /\ (kind = "decoder" => tail = <<>>)
  BY DEF Ended
<1>6. IsSeq(tail) /\ Range(tail) \subseteq {Pad}
  <2>1. tail \in Seq({Pad})
    <3>1. <<>> \in Seq({Pad}) /\ <<Pad>> \in Seq({Pad})
      BY EmptySeq
    <3> QED
      BY <3>1
  <2>2. \A i \in DOMAIN tail : tail[i] = Pad
    BY <2>1
  <2> QED
    BY <2>1, <2>2, AnySeq DEF Range
<1>7. IsSeq(output) /\ EOS \in Range(output) /\ BeforeEOS = generated /\ AfterEOS = tail
  BY <1>2, <1>3, <1>5, <1>6, OutputParts
<1>8. Replay
  <2>1. \A i \in DOMAIN generated : generated[i] \in Allowed(SubSeq(generated, 1, i - 1))
    BY DEF HonouredInv
  <2>2. Complete(generated)
    BY <1>4, <2>1 DEF Complete
  <2> QED
    BY <1>7, <2>2 DEF Replay
<1>9. PICK n \in 1 .. Most(generated) : \E w \in [1 .. n -> symbols] :
          /\ generated = Target(w) /\ Decode(generated) = Join(w) /\ Split(Decode(generated)) = w
          /\ Len(w) = n /\ w \in Seq(symbols) /\ Authorized(w)
  BY <1>2, <1>4, CompleteIsPlan
<1>10. PICK w \in [1 .. n -> symbols] :
          /\ generated = Target(w) /\ Decode(generated) = Join(w) /\ Split(Decode(generated)) = w
          /\ Len(w) = n /\ w \in Seq(symbols) /\ Authorized(w)
  BY <1>9
<1>11. kind = "encoder" => EncoderAccepts
  BY <1>6, <1>7, <1>8, <1>10 DEF EncoderAccepts
<1>12. kind = "decoder" => DecoderAccepts
  <2> SUFFICES ASSUME kind = "decoder" PROVE DecoderAccepts
    OBVIOUS
  <2>1. n <= MaxSymbols
    <3>1. Most(generated) = MaxSymbols /\ MaxSymbols \in Nat
      BY GenerationAssumption DEF Most
    <3> QED
      BY <3>1
  <2>2. AfterEOS = <<>>
    BY <1>5, <1>7
  <2>3. Split(Decode(BeforeEOS)) = w /\ Decode(BeforeEOS) = Join(w)
    BY <1>7, <1>10
  <2> QED
    BY <1>1, <1>7, <1>8, <1>10, <2>1, <2>2, <2>3 DEF DecoderAccepts
<1> QED
  BY <1>11, <1>12

----------------------------------------------------------------------------
(* The inductive invariant.                                                *)

(* What no step changes, and what depends on nothing else. *)
Settled == UNCHANGED <<kind, symbols, first, following>>

(* What the recognizers allow depends on what no step changes. *)
LEMMA SettledAllowed ==
    ASSUME Settled, NEW tokens
    PROVE  Allowed(tokens)' = Allowed(tokens)
  BY DEF Settled, Allowed, EncoderAllowed, DecoderAllowed, Boundaries, Open, Onward, FormsAt, First,
    Following, Matches, StateAfter, Start, Consume

LEMMA SettledTokenizer ==
    ASSUME Settled, TokenizerInv
    PROVE  TokenizerInv'
  BY DEF Settled, TokenizerInv

(* Generation starts with the invariant, ... *)
LEMMA GenerationStart == GenerationInit => GenerationInv
<1> SUFFICES ASSUME GenerationInit PROVE GenerationInv
  OBVIOUS
<1>1. kind \in Kinds /\ symbols \in (SUBSET Symbol) \ {{}}
  BY DEF GenerationInit
<1>2. /\ DOMAIN first = symbols /\ DOMAIN following = symbols
      /\ \A s \in symbols : first[s] \in Encodings(s) /\ following[s] \in Encodings(<<Space>> \o s)
  BY DEF GenerationInit
<1>3. TokenizerInv
  BY <1>1, <1>2 DEF TokenizerInv
<1>4. /\ generated = <<>> /\ output = <<>> /\ prompt = TRUE /\ honoured \in BOOLEAN
      /\ status = "generating" /\ plan = <<>>
  BY DEF GenerationInit
<1>5. GenerationTypeOK
  <2>1. MaxNewTokens \in Nat
    BY GenerationAssumption
  <2>2. \A S : <<>> \in Seq(S)
    BY EmptySeq
  <2>3. Len(<<>>) <= MaxNewTokens /\ Len(<<>>) <= MaxNewTokens + 1
    BY <2>1, NothingSeq
  <2>4. generated \in Seq(Token \ {EOS}) /\ output \in Seq(Token) /\ plan \in Seq(Symbol)
    BY <1>4, <2>2
  <2>5. {honoured, prompt} \subseteq BOOLEAN
    BY <1>4
  <2> QED
    BY <1>1, <1>2, <1>4, <2>3, <2>4, <2>5 DEF GenerationTypeOK
<1>6. HonouredInv
  <2>1. DOMAIN generated = {}
    BY <1>4
  <2> QED
    BY <1>4, <2>1 DEF HonouredInv
<1>7. AcceptedIsPlan /\ OnlyTruncationRefuses
  BY <1>4 DEF AcceptedIsPlan, OnlyTruncationRefuses
<1> QED
  BY <1>3, <1>5, <1>6, <1>7 DEF GenerationInv

(* ... a token keeps it, ... *)
LEMMA GenerateKeeps ==
    ASSUME GenerationInv, NEW t \in Token, Generate(t)
    PROVE  GenerationInv'
<1> DEFINE g == Append(generated, t)
           L == Len(generated)
<1>1. TokenizerInv /\ GenerationTypeOK /\ HonouredInv
  BY DEF GenerationInv
<1>2. /\ status = "generating" /\ L < MaxNewTokens /\ t # EOS /\ generated' = g
      /\ UNCHANGED <<kind, symbols, first, following, honoured, output, prompt, status, plan>>
  BY DEF Generate
<1>3. Settled
  BY <1>2 DEF Settled
<1>4. TokenizerInv'
  BY <1>1, <1>3, SettledTokenizer
<1>5. generated \in Seq(Token \ {EOS}) /\ IsSeq(generated) /\ L \in Nat
  BY <1>1, AnySeq, LengthOfSeq DEF GenerationTypeOK
<1>6. generated' \in Seq(Token \ {EOS}) /\ Len(generated') = L + 1
  BY <1>2, <1>5
<1>7. MaxNewTokens \in Nat
  BY GenerationAssumption
<1>8. GenerationTypeOK'
  <2>1. Len(generated') <= MaxNewTokens
    BY <1>2, <1>5, <1>6, <1>7
  <2> QED
    BY <1>1, <1>2, <1>6, <2>1 DEF GenerationTypeOK
<1>9. HonouredInv'
  <2> SUFFICES ASSUME honoured PROVE HonouredInv'
    BY <1>2 DEF HonouredInv
  <2>1. t \in Allowed(generated)
    BY DEF Generate
  <2>2. prompt /\ \A i \in DOMAIN generated : generated[i] \in Allowed(SubSeq(generated, 1, i - 1))
    BY <1>1 DEF HonouredInv
  <2>3. /\ IsSeq(g) /\ Len(g) = L + 1
        /\ \A i \in 1 .. L : g[i] = generated[i]
        /\ g[L + 1] = t
    BY <1>5, AppendIs
  <2>4. \A q \in 0 .. L : Cut(g, q) = Cut(generated, q)
    BY <1>5, CutAppend
  <2>5. Cut(generated, L) = generated /\ DOMAIN generated = 1 .. L
    BY <1>5, CutAll, LengthOfSeq
  <2>6. DOMAIN g = 1 .. L + 1
    BY <2>3, LengthOfSeq
  <2> HIDE DEF g, L
  <2>7. ASSUME NEW i \in 1 .. L + 1 PROVE g[i] \in Allowed(Cut(g, i - 1))
    <3>1. i - 1 \in 0 .. L /\ (i \in 1 .. L \/ i = L + 1)
      BY <1>5
    <3>2. Cut(g, i - 1) = Cut(generated, i - 1)
      BY <2>4, <3>1
    <3>3. CASE i \in 1 .. L
      BY <2>2, <2>3, <2>5, <3>2, <3>3 DEF Cut
    <3>4. CASE i = L + 1
      <4>1. i - 1 = L
        BY <1>5, <3>4
      <4> QED
        BY <2>1, <2>3, <2>5, <3>2, <3>4, <4>1
    <3> QED
      BY <3>1, <3>3, <3>4
  <2>8. ASSUME NEW i \in DOMAIN g PROVE g[i] \in Allowed(SubSeq(generated, 1, i - 1))'
    <3>1. g[i] \in Allowed(Cut(g, i - 1))
      BY <2>6, <2>7
    <3>2. PICK h : h = Cut(g, i - 1)
      OBVIOUS
    <3>3. Allowed(h)' = Allowed(h)
      BY <1>3, SettledAllowed
    <3>4. h = SubSeq(generated, 1, i - 1)'
      BY <1>2, <3>2 DEF Cut
    <3> QED
      BY <3>1, <3>2, <3>3, <3>4
  <2> QED
    BY <1>2, <2>2, <2>8 DEF HonouredInv
<1>10. AcceptedIsPlan' /\ OnlyTruncationRefuses'
  BY <1>2 DEF AcceptedIsPlan, OnlyTruncationRefuses
<1> QED
  BY <1>4, <1>8, <1>9, <1>10 DEF GenerationInv

(* A step that generates nothing leaves what was generated allowed. *)
LEMMA AllowedStays ==
    ASSUME Settled, generated' = generated, NEW i
    PROVE  (generated[i] \in Allowed(SubSeq(generated, 1, i - 1)))' <=>
               generated[i] \in Allowed(SubSeq(generated, 1, i - 1))
<1>1. PICK h : h = SubSeq(generated, 1, i - 1)
  OBVIOUS
<1>2. Allowed(h)' = Allowed(h)
  BY SettledAllowed
<1>3. h = SubSeq(generated, 1, i - 1)'
  BY <1>1
<1> QED
  BY <1>1, <1>2, <1>3

LEMMA EOSStays ==
    ASSUME Settled, generated' = generated
    PROVE  (EOS \in Allowed(generated))' <=> EOS \in Allowed(generated)
<1>1. PICK h : h = generated
  OBVIOUS
<1>2. Allowed(h)' = Allowed(h)
  BY SettledAllowed
<1> QED
  BY <1>1, <1>2

LEMMA EndedStays ==
    ASSUME Settled, UNCHANGED <<generated, output>>, Truncated \/ Ended
    PROVE  (Truncated \/ Ended)'
<1>1. kind' = kind /\ ((EOS \in Allowed(generated))' <=> EOS \in Allowed(generated))
  BY EOSStays DEF Settled
<1>2. CASE Truncated
  BY <1>2 DEF Truncated
<1>3. CASE Ended
  BY <1>1, <1>3 DEF Ended
<1> QED
  BY <1>2, <1>3

(* ... the end of a plan keeps it, ... *)
LEMMA FinishKeeps ==
    ASSUME GenerationInv, Finish
    PROVE  GenerationInv'
<1>1. TokenizerInv /\ GenerationTypeOK /\ HonouredInv
  BY DEF GenerationInv
<1>2. /\ status = "generating" /\ Len(generated) < MaxNewTokens /\ status' = "returned"
      /\ UNCHANGED <<kind, symbols, first, following, honoured, generated, plan>>
      /\ honoured => EOS \in Allowed(generated)
      /\ prompt' \in BOOLEAN /\ (honoured => prompt')
  BY DEF Finish, Return
<1>3. PICK tail \in {<<>>, <<Pad>>, <<EOS>>} :
        /\ honoured => IF kind = "encoder" THEN tail \in {<<>>, <<Pad>>} ELSE tail = <<>>
        /\ output' = generated \o <<EOS>> \o tail
  BY DEF Finish, Return
<1>4. Settled
  BY <1>2 DEF Settled
<1>5. TokenizerInv'
  BY <1>1, <1>4, SettledTokenizer
<1>6. Pad \in Token /\ EOS \in Token /\ MaxNewTokens \in Nat
  BY GenerationAssumption DEF Token
<1>7. output' \in Seq(Token) /\ Len(output') <= MaxNewTokens + 1
  <2>1. tail \in Seq(Token) /\ Len(tail) <= 1 /\ Len(tail) \in Nat
    <3>1. <<>> \in Seq(Token) /\ <<Pad>> \in Seq(Token) /\ <<EOS>> \in Seq(Token)
      BY <1>6, EmptySeq
    <3>2. Len(<<>>) = 0 /\ Len(<<Pad>>) = 1 /\ Len(<<EOS>>) = 1
      BY NothingSeq
    <3>3. tail \in Seq(Token) /\ (Len(tail) = 0 \/ Len(tail) = 1)
      BY <3>1, <3>2
    <3>4. 0 \in Nat /\ 1 \in Nat /\ 0 <= 1 /\ 1 <= 1
      OBVIOUS
    <3> QED
      BY <3>3, <3>4
  <2>2. generated \in Seq(Token) /\ Len(generated) \in Nat
    BY <1>1 DEF GenerationTypeOK
  <2>3. <<EOS>> \in Seq(Token) /\ Len(<<EOS>>) = 1
    BY <1>6
  <2>4. generated \o <<EOS>> \in Seq(Token) /\ Len(generated \o <<EOS>>) = Len(generated) + 1
    BY <2>2, <2>3
  <2>5. output' \in Seq(Token) /\ Len(output') = Len(generated) + 1 + Len(tail)
    BY <1>3, <2>1, <2>4
  <2> QED
    BY <1>2, <1>6, <2>1, <2>2, <2>5
<1>8. GenerationTypeOK'
  BY <1>1, <1>2, <1>7 DEF GenerationTypeOK
<1>9. HonouredInv'
  <2> SUFFICES ASSUME honoured PROVE HonouredInv'
    BY <1>2 DEF HonouredInv
  <2>1. \A i \in DOMAIN generated : generated[i] \in Allowed(SubSeq(generated, 1, i - 1))
    BY <1>1 DEF HonouredInv
  <2>2. ASSUME NEW i \in DOMAIN generated PROVE (generated[i] \in Allowed(SubSeq(generated, 1, i - 1)))'
    BY <1>2, <1>4, <2>1, AllowedStays
  <2>3. Ended'
    <3>1. (EOS \in Allowed(generated))'
      BY <1>2, <1>4, EOSStays
    <3>2. tail \in {<<>>, <<Pad>>} /\ (kind = "decoder" => tail = <<>>)
      BY <1>3
    <3> QED
      BY <1>2, <1>3, <3>1, <3>2 DEF Ended
  <2> QED
    BY <1>2, <2>2, <2>3 DEF HonouredInv
<1>10. AcceptedIsPlan' /\ OnlyTruncationRefuses'
  BY <1>2 DEF AcceptedIsPlan, OnlyTruncationRefuses
<1> QED
  BY <1>5, <1>8, <1>9, <1>10 DEF GenerationInv

(* ... max_new_tokens, the only end without EOS of an honoured recognizer, *)
(* keeps it, ...                                                           *)
LEMMA TruncateKeeps ==
    ASSUME GenerationInv, Truncate
    PROVE  GenerationInv'
<1>1. TokenizerInv /\ GenerationTypeOK /\ HonouredInv
  BY DEF GenerationInv
<1>2. /\ status = "generating" /\ status' = "returned" /\ output' = generated /\ ~ CanGoOn
      /\ UNCHANGED <<kind, symbols, first, following, honoured, generated, prompt, plan>>
  BY DEF Truncate, Return
<1>3. Settled
  BY <1>2 DEF Settled
<1>4. TokenizerInv'
  BY <1>1, <1>3, SettledTokenizer
<1>5. /\ generated \in Seq(Token \ {EOS}) /\ Len(generated) \in Nat /\ Len(generated) <= MaxNewTokens
      /\ MaxNewTokens \in Nat
  <2>1. generated \in Seq(Token \ {EOS}) /\ Len(generated) <= MaxNewTokens
    BY <1>1 DEF GenerationTypeOK
  <2>2. MaxNewTokens \in Nat
    BY GenerationAssumption
  <2> QED
    BY <2>1, <2>2
<1>6. GenerationTypeOK'
  <2>1. output' \in Seq(Token) /\ Len(output') <= MaxNewTokens + 1
    BY <1>2, <1>5
  <2> QED
    BY <1>1, <1>2, <2>1 DEF GenerationTypeOK
<1>7. HonouredInv'
  <2> SUFFICES ASSUME honoured PROVE HonouredInv'
    BY <1>2 DEF HonouredInv
  <2>1. prompt /\ \A i \in DOMAIN generated : generated[i] \in Allowed(SubSeq(generated, 1, i - 1))
    BY <1>1 DEF HonouredInv
  <2>2. ASSUME NEW i \in DOMAIN generated PROVE (generated[i] \in Allowed(SubSeq(generated, 1, i - 1)))'
    BY <1>2, <1>3, <2>1, AllowedStays
  <2>3. Honest(generated)
    <3>1. IsSeq(generated) /\ DOMAIN generated = 1 .. Len(generated)
      BY <1>5, AnySeq, LengthOfSeq
    <3>2. \A i \in 1 .. Len(generated) : generated[i] # EOS
      BY <1>5
    <3> QED
      BY <2>1, <3>1, <3>2 DEF Honest, Cut
  <2>4. Allowed(generated) # {}
    BY <1>1, <2>3, NeverStuck
  <2>5. Len(generated) = MaxNewTokens
    BY <1>2, <1>5, <2>4 DEF CanGoOn
  <2>6. Truncated'
    BY <1>2, <2>5 DEF Truncated
  <2> QED
    BY <1>2, <2>1, <2>2, <2>6 DEF HonouredInv
<1>8. AcceptedIsPlan' /\ OnlyTruncationRefuses'
  BY <1>2 DEF AcceptedIsPlan, OnlyTruncationRefuses
<1> QED
  BY <1>4, <1>6, <1>7, <1>8 DEF GenerationInv

(* What neither the check of the output nor a stutter disturbs. *)
LEMMA HonouredStays ==
    ASSUME HonouredInv, Settled, UNCHANGED <<honoured, generated, output, prompt>>,
           status = "generating" => status' = "generating"
    PROVE  HonouredInv'
<1> SUFFICES ASSUME honoured PROVE HonouredInv'
  BY DEF HonouredInv
<1>1. prompt /\ \A i \in DOMAIN generated : generated[i] \in Allowed(SubSeq(generated, 1, i - 1))
  BY DEF HonouredInv
<1>2. ASSUME NEW i \in DOMAIN generated PROVE (generated[i] \in Allowed(SubSeq(generated, 1, i - 1)))'
  BY <1>1, AllowedStays
<1>3. status' # "generating" => (Truncated \/ Ended)'
  BY EndedStays DEF HonouredInv
<1> QED
  BY <1>1, <1>2, <1>3 DEF HonouredInv

LEMMA SettledOutput ==
    ASSUME Settled, output' = output
    PROVE  BeforeEOS' = BeforeEOS
  BY DEF Settled, BeforeEOS, Termination

LEMMA SettledTarget ==
    ASSUME Settled, NEW w
    PROVE  Target(w)' = Target(w)
  BY DEF Settled, Target

(* ... and so does the check: an accepted output replays to a plan, and    *)
(* one that an honoured recognizer ended is accepted.                      *)
LEMMA CheckKeeps ==
    ASSUME GenerationInv, Check
    PROVE  GenerationInv'
<1> DEFINE accepts == IF kind = "encoder" THEN EncoderAccepts ELSE DecoderAccepts
<1>1. TokenizerInv /\ GenerationTypeOK /\ HonouredInv
  BY DEF GenerationInv
<1>2. /\ status = "returned"
      /\ UNCHANGED <<kind, symbols, first, following, honoured, generated, output, prompt>>
  BY DEF Check
<1>3. \/ accepts /\ status' = "accepted" /\ plan' = Split(Decode(BeforeEOS))
      \/ ~ accepts /\ status' = "refused" /\ plan' = plan
  BY DEF Check
<1>4. Settled
  BY <1>2 DEF Settled
<1>5. TokenizerInv' /\ HonouredInv'
  BY <1>1, <1>2, <1>4, SettledTokenizer, HonouredStays
<1>6. output \in Seq(Token) /\ IsSeq(output) /\ symbols \subseteq Symbol
  BY <1>1, AnySeq DEF GenerationTypeOK
<1>7. kind \in {"encoder", "decoder"}
  BY <1>1, GenerationAssumption DEF TokenizerInv
<1>8. CASE accepts /\ status' = "accepted" /\ plan' = Split(Decode(BeforeEOS))
  <2>1. EOS \in Range(output) /\ Replay
    BY <1>8 DEF EncoderAccepts, DecoderAccepts
  <2>2. PICK n \in 1 .. Most(BeforeEOS) : \E w \in [1 .. n -> symbols] :
            /\ BeforeEOS = Target(w) /\ Decode(BeforeEOS) = Join(w) /\ Split(Decode(BeforeEOS)) = w
            /\ Len(w) = n /\ w \in Seq(symbols) /\ Authorized(w)
    BY <1>1, <1>6, <2>1, AcceptedTokens
  <2>3. PICK w \in [1 .. n -> symbols] :
            /\ BeforeEOS = Target(w) /\ Decode(BeforeEOS) = Join(w) /\ Split(Decode(BeforeEOS)) = w
            /\ Len(w) = n /\ w \in Seq(symbols) /\ Authorized(w)
    BY <2>2
  <2>4. plan' = w /\ w \in Seq(Symbol)
    BY <1>6, <1>8, <2>3
  <2>5. BeforeEOS' = Target(w)'
    BY <1>2, <1>4, <2>3, SettledOutput, SettledTarget
  <2>6. kind = "decoder" => Len(w) <= MaxSymbols
    <3> SUFFICES ASSUME kind = "decoder" PROVE Len(w) <= MaxSymbols
      OBVIOUS
    <3>1. Most(BeforeEOS) = MaxSymbols /\ MaxSymbols \in Nat
      BY GenerationAssumption DEF Most
    <3> QED
      BY <2>3, <3>1
  <2>7. AcceptedIsPlan'
    <3>1. w # <<>> /\ Range(w) \subseteq symbols
      BY <2>3 DEF Authorized
    <3> QED
      BY <1>2, <2>4, <2>5, <2>6, <3>1 DEF AcceptedIsPlan
  <2>8. OnlyTruncationRefuses'
    BY <1>8 DEF OnlyTruncationRefuses
  <2>9. GenerationTypeOK'
    BY <1>1, <1>2, <1>8, <2>4 DEF GenerationTypeOK
  <2> QED
    BY <1>5, <2>7, <2>8, <2>9 DEF GenerationInv
<1>9. CASE ~ accepts /\ status' = "refused" /\ plan' = plan
  <2>1. GenerationTypeOK'
    BY <1>1, <1>2, <1>9 DEF GenerationTypeOK
  <2>2. AcceptedIsPlan'
    BY <1>9 DEF AcceptedIsPlan
  <2>3. ASSUME honoured PROVE Len(output) = MaxNewTokens /\ EOS \notin Range(output)
    <3>1. ~ Ended
      BY <1>1, <1>7, <1>9, <2>3, EndedIsAccepted
    <3>2. Truncated
      BY <1>1, <1>2, <2>3, <3>1 DEF HonouredInv
    <3>3. generated \in Seq(Token \ {EOS})
      BY <1>1 DEF GenerationTypeOK
    <3>4. EOS \notin Range(generated)
      BY <3>3 DEF Range
    <3> QED
      BY <3>2, <3>4 DEF Truncated
  <2>4. OnlyTruncationRefuses'
    BY <1>2, <2>3 DEF OnlyTruncationRefuses
  <2> QED
    BY <1>5, <2>1, <2>2, <2>4 DEF GenerationInv
<1> QED
  BY <1>3, <1>8, <1>9

LEMMA GenerationStutters ==
    ASSUME GenerationInv, UNCHANGED generationVars
    PROVE  GenerationInv'
<1>1. TokenizerInv /\ GenerationTypeOK /\ HonouredInv /\ AcceptedIsPlan /\ OnlyTruncationRefuses
  BY DEF GenerationInv
<1>2. UNCHANGED <<kind, symbols, first, following, honoured, generated, output, prompt, status, plan>>
  BY DEF generationVars
<1>3. Settled
  BY <1>2 DEF Settled
<1>4. TokenizerInv'
  BY <1>1, <1>3, SettledTokenizer
<1>5. GenerationTypeOK' /\ OnlyTruncationRefuses'
  BY <1>1, <1>2 DEF GenerationTypeOK, OnlyTruncationRefuses
<1>6. HonouredInv'
  BY <1>1, <1>2, <1>3, HonouredStays
<1>7. AcceptedIsPlan'
  <2>1. PICK w : w = plan
    OBVIOUS
  <2>2. BeforeEOS' = BeforeEOS /\ Target(w)' = Target(w)
    BY <1>2, <1>3, SettledOutput, SettledTarget
  <2> QED
    BY <1>1, <1>2, <2>1, <2>2 DEF AcceptedIsPlan
<1> QED
  BY <1>1, <1>4, <1>5, <1>6, <1>7 DEF GenerationInv

LEMMA GenerationStep == GenerationInv /\ [GenerationNext]_generationVars => GenerationInv'
<1> SUFFICES ASSUME GenerationInv, [GenerationNext]_generationVars PROVE GenerationInv'
  OBVIOUS
<1>1. ASSUME NEW t \in Token, Generate(t) PROVE GenerationInv'
  BY <1>1, GenerateKeeps
<1>2. CASE Finish
  BY <1>2, FinishKeeps
<1>3. CASE Truncate
  BY <1>3, TruncateKeeps
<1>4. CASE Check
  BY <1>4, CheckKeeps
<1>5. CASE UNCHANGED generationVars
  BY <1>5, GenerationStutters
<1> QED
  BY <1>1, <1>2, <1>3, <1>4, <1>5 DEF GenerationNext

----------------------------------------------------------------------------
(* Theorems about generation.                                              *)

(* The inductive invariant holds for any alphabet, symbols, tokenizer and  *)
(* limits, whether or not the library honours the recognizer.              *)
THEOREM GenerationInvariance == GenerationSpec => []GenerationInv
  BY GenerationStart, GenerationStep, PTL DEF GenerationSpec

(* Every variable has its type: nothing is generated beyond                *)
(* max_new_tokens, and a plan consists of symbols.                         *)
THEOREM GenerationTypeCorrect == GenerationSpec => []GenerationTypeOK
<1>1. GenerationInv => GenerationTypeOK
  BY DEF GenerationInv
<1> QED
  BY <1>1, GenerationInvariance, PTL

(* Both recognizers allow exactly the tokens that lead towards the         *)
(* encoding of a plan, and EOS exactly at its end, for any tokenizer,      *)
(* however the symbols' encodings overlap (decoder_lora.py:176-232,        *)
(* encoder_decoder.py:245-272).                                            *)
THEOREM RecognizersExact == GenerationSpec => []RecognizersAreExact
<1>1. GenerationInv => RecognizersAreExact
  <2> SUFFICES ASSUME GenerationInv PROVE RecognizersAreExact
    OBVIOUS
  <2>1. TokenizerInv /\ generated \in Seq(Token \ {EOS})
    BY DEF GenerationInv, GenerationTypeOK
  <2>2. Allowed(generated) = Continuations(generated)
    BY <2>1, AnySeq, AllowedIsExact
  <2> QED
    BY <2>2 DEF RecognizersAreExact
<1> QED
  BY <1>1, GenerationInvariance, PTL

(* Whether or not the library honours the recognizer, an accepted output   *)
(* is the encoding of the plan in training and EOS: the replay and the     *)
(* checks of decoder_lora.py:583-606 and encoder_decoder.py admit no       *)
(* other.                                                                  *)
THEOREM AcceptedPlan == GenerationSpec => []AcceptedIsPlan
<1>1. GenerationInv => AcceptedIsPlan
  BY DEF GenerationInv
<1> QED
  BY <1>1, GenerationInvariance, PTL

(* A library that honours the recognizer never gets stuck and is refused   *)
(* only when max_new_tokens cut it off: no later check contradicts the     *)
(* recognizer (encoder_decoder.py:220-228).                                *)
THEOREM TruncationOnly == GenerationSpec => []OnlyTruncationRefuses
<1>1. GenerationInv => OnlyTruncationRefuses
  BY DEF GenerationInv
<1> QED
  BY <1>1, GenerationInvariance, PTL
=============================================================================
