---------------------------- MODULE Compilation ----------------------------
(***************************************************************************)
(* One call of ste-compiler from a document to a verdict:                  *)
(*                                                                         *)
(*   compile         cli.py:882, loads a document and realizes it          *)
(*   compile-source  cli.py:938, the document is proposed by a provider    *)
(*                   and checked by frontend/llm.py, which asks again      *)
(*   validate-text   cli.py:863, aligns a given text with a document, or   *)
(*                   without --ir judges the words of the text alone       *)
(*                                                                         *)
(* A document is realized deterministically, or by a neural generator      *)
(* whose text is trusted only where it equals the deterministic text.      *)
(* Whatever is produced goes through the validators.                       *)
(*                                                                         *)
(* A text is a sequence of sentences and its layout, the whitespace        *)
(* between them.  A sentence has a role label, a content, and either the   *)
(* spelling of the deterministic text or another one that differs from it  *)
(* in letter case or whitespace only.                                      *)
(***************************************************************************)
EXTENDS Naturals, Sequences, SequencesExt, FiniteSets

CONSTANTS
    Commands,      \* which commands are called
    Realizers,     \* "deterministic", "neural"
    Documents,     \* documents that are loaded or proposed, sound or not
    Foreign,       \* a content of no document
    Retries,       \* retries of the frontend
    MaxParagraph,  \* max_paragraph_sentences of StructuralValidator
    MaxEdits       \* bound: how far a text is from the deterministic one

ASSUME CompilationAssumption ==
    /\ Commands \subseteq {"compile", "compile-source", "validate-text", "validate-text-alone"}
    /\ Realizers \subseteq {"deterministic", "neural"}
    /\ Retries \in Nat /\ MaxParagraph \in Nat /\ MaxEdits \in Nat

IsSeq(s) == s \in Seq(Range(s))

(* What the schema says of any document, and that a surface form has a     *)
(* sentence.                                                               *)
ASSUME DocumentsAssumption ==
    \A doc \in Documents :
       /\ IsSeq(doc.statements) /\ IsSeq(doc.relations)
       /\ \A s \in Range(doc.statements) :
             /\ IsSeq(s.contents) /\ s.contents # <<>>
             /\ IsSeq(s.hazards)
             /\ \A h \in Range(s.hazards) : IsSeq(h.contents) /\ h.contents # <<>>

VARIABLES
    command, realizer,
    stage,      \* "document", "realize", "text", "validate" or "done"
    attempts,   \* proposals refused so far
    document,
    text,
    edits,      \* changes made to the text so far
    mappings,   \* sentence mappings that are validated
    verdict     \* "none", "accepted", "rejected", or "failed": an exception

vars == <<command, realizer, stage, attempts, document, text, edits, mappings, verdict>>
-----------------------------------------------------------------------------
(* A document has statements, relations, and whether its words are         *)
(* authorized and its statements' sentences concise.  A statement has an   *)
(* id, its kind, contents, hazards, and whether validator and realizer     *)
(* render its quantities alike, which they do not for 1e16 and -0.0.       *)
(* Document.valid_causal_graph decides which documents there are.          *)

StatementIds(doc) == {doc.statements[i].id : i \in DOMAIN doc.statements}
HazardIds(doc) == UNION {{h.id : h \in Range(s.hazards)} : s \in Range(doc.statements)}

(* Mutant: statements may share an id. *)
WellFormedShared(doc) ==
    LET relations == doc.relations IN
    \A i \in DOMAIN relations :
       /\ relations[i].id \notin StatementIds(doc) \cup HazardIds(doc)
       /\ relations[i].cause # relations[i].effect
       /\ {relations[i].cause, relations[i].effect} \subseteq StatementIds(doc)

WellFormed(doc) ==
    LET relations == doc.relations IN
    /\ Cardinality(StatementIds(doc)) = Len(doc.statements)
    /\ \A i \in DOMAIN relations :
          /\ relations[i].id \notin StatementIds(doc) \cup HazardIds(doc)
          /\ relations[i].cause # relations[i].effect
          /\ {relations[i].cause, relations[i].effect} \subseteq StatementIds(doc)
          /\ \A j \in DOMAIN relations \ {i} :
                /\ relations[i].id # relations[j].id
                /\ <<relations[i].cause, relations[i].effect>> # <<relations[j].cause, relations[j].effect>>
-----------------------------------------------------------------------------
(* DeterministicRealizer.realize                                           *)

(* The sentences of a surface form, which holds several where a name, a    *)
(* manner or a purpose has a sentence end in it; a role labels the first.  *)
Says(role, contents) ==
    [i \in DOMAIN contents |->
        [role |-> IF i = 1 THEN role ELSE "", content |-> contents[i], exact |-> TRUE]]

StatementMappings(s) ==
    [i \in DOMAIN s.hazards |->
        [text |-> Says("", s.hazards[i].contents), nodes |-> <<s.id, s.hazards[i].id>>,
         features |-> <<"statement", s>>]]
    \o <<[text |-> Says("", s.contents), nodes |-> <<s.id>>, features |-> <<"statement", s>>]>>

StatementContents(doc, id) == (CHOOSE s \in Range(doc.statements) : s.id = id).contents

RelationMappings(doc, r) ==
    <<[text |-> Says("Cause", StatementContents(doc, r.cause)), nodes |-> <<r.id, r.cause>>,
       features |-> <<"relation", r, "cause">>],
      [text |-> Says("Effect", StatementContents(doc, r.effect)), nodes |-> <<r.id, r.effect>>,
       features |-> <<"relation", r, "effect">>]>>

DeterministicMappings(doc) ==
    FlattenSeq([i \in DOMAIN doc.statements |-> StatementMappings(doc.statements[i])])
    \o FlattenSeq([i \in DOMAIN doc.relations |-> RelationMappings(doc, doc.relations[i])])

Spoken(ms) == FlattenSeq([i \in DOMAIN ms |-> ms[i].text])

DeterministicText(doc) == [sentences |-> Spoken(DeterministicMappings(doc)), layout |-> "reference"]

(* All statements are one paragraph, each relation is another.             *)
Paragraphs(doc) ==
    <<Spoken(FlattenSeq([i \in DOMAIN doc.statements |-> StatementMappings(doc.statements[i])]))>>
    \o [i \in DOMAIN doc.relations |-> Spoken(RelationMappings(doc, doc.relations[i]))]
-----------------------------------------------------------------------------
(* align_controlled_text                                                   *)

(* Casefolded, with whitespace collapsed. *)
Normalized(sentences) ==
    [i \in DOMAIN sentences |-> [role |-> sentences[i].role, content |-> sentences[i].content]]

Unmatched(sentence) == [text |-> <<sentence>>, nodes |-> <<>>, features |-> <<>>]

(* Mutant: a sentence is matched wherever it stands. *)
AlignAnywhere(given, reference, expected) ==
    IF given = reference THEN expected
    ELSE [i \in DOMAIN given.sentences |->
            LET sentence == given.sentences[i]
                same == {j \in DOMAIN expected : Normalized(<<sentence>>) = Normalized(expected[j].text)}
            IN IF same # {} THEN [expected[CHOOSE j \in same : TRUE] EXCEPT !.text = <<sentence>>]
               ELSE Unmatched(sentence)]

Align(given, reference, expected) ==
    IF given = reference THEN expected
    ELSE [i \in DOMAIN given.sentences |->
            LET sentence == given.sentences[i] IN
            IF i \in DOMAIN expected /\ Normalized(<<sentence>>) = Normalized(expected[i].text)
            THEN [expected[i] EXCEPT !.text = <<sentence>>]
            ELSE Unmatched(sentence)]
-----------------------------------------------------------------------------
(* SemanticValidator.validate: whether it reports nothing.                 *)

(* The first of the mappings with these nodes, as a set. *)
Expresses(ms, nodes) ==
    {ms[i] : i \in {i \in DOMAIN ms : ms[i].nodes = nodes /\ \A j \in 1 .. i - 1 : ms[j].nodes # nodes}}

StatementPreserved(ms, s) ==
    LET primary == Expresses(ms, <<s.id>>) IN
    IF primary = {} THEN s.instruction /\ ~s.required
    ELSE s.instruction =>
           /\ \A m \in primary : m.features = <<"statement", s>>
           /\ \A h \in Range(s.hazards) :
                 \E m \in Range(ms) : h.id \in Range(m.nodes) /\ m.features = <<"statement", s>>
           /\ s.renders

RelationPreserved(ms, r) ==
    \A role \in {"cause", "effect"} :
       LET endpoint == IF role = "cause" THEN r.cause ELSE r.effect
           label == IF role = "cause" THEN "Cause" ELSE "Effect"
       IN \E m \in Expresses(ms, <<r.id, endpoint>>), p \in Expresses(ms, <<endpoint>>) :
             /\ m.features = <<"relation", r, role>>
             /\ m.text = [p.text EXCEPT ![1].role = label]

SemanticallyPreserved(doc, ms) ==
    /\ \A m \in Range(ms) : m.nodes # <<>>
    /\ \A s \in Range(doc.statements) : StatementPreserved(ms, s)
    /\ \A r \in Range(doc.relations) : RelationPreserved(ms, r)

(* StructuralValidator on the deterministic text: a relation's label is no  *)
(* word, so its sentences are as long as those of its statements.          *)
WithinLimits(doc) == doc.concise /\ \A i \in DOMAIN Paragraphs(doc) : Len(Paragraphs(doc)[i]) <= MaxParagraph
-----------------------------------------------------------------------------
Compiles == command \in {"compile", "compile-source"}

Init ==
    /\ command \in Commands
    /\ realizer \in IF Compiles THEN Realizers ELSE {"deterministic"}
    /\ stage = "document" /\ attempts = 0 /\ document = <<>>
    /\ text = <<>> /\ edits = 0 /\ mappings = <<>> /\ verdict = "none"

Done(v) == stage' = "done" /\ verdict' = v

Take(doc) ==
    /\ document' = doc /\ stage' = "realize" /\ attempts' = 0
    /\ UNCHANGED <<command, realizer, text, edits, mappings, verdict>>

Fail ==
    /\ Done("failed")
    /\ UNCHANGED <<command, realizer, attempts, document, text, edits, mappings>>

(* load_document *)
Load(doc) ==
    /\ stage = "document" /\ command \in {"compile", "validate-text"}
    /\ IF WellFormed(doc) THEN Take(doc) ELSE Fail

(* validate-text without --ir: no document is loaded, the text is aligned  *)
(* with nothing, and only the lexical and structural validators judge it.  *)
ValidateAlone ==
    /\ stage = "document" /\ command = "validate-text-alone"
    /\ \E written \in BOOLEAN : Done(IF written THEN "accepted" ELSE "rejected")
    /\ UNCHANGED <<command, realizer, attempts, document, text, edits, mappings>>

(* One turn of LLMFrontend.parse: a proposal is taken if it is well formed *)
(* and every claim quotes the source where it says so.                     *)
Refused == /\ attempts < Retries
           /\ attempts' = attempts + 1
           /\ UNCHANGED <<command, realizer, stage, document, text, edits, mappings, verdict>>

Propose(doc, quoted) ==
    /\ stage = "document" /\ command = "compile-source"
    /\ IF WellFormed(doc) /\ quoted THEN Take(doc)
       ELSE IF attempts = Retries THEN Fail ELSE Refused

(* An exception of the provider is not answered by a retry. *)
ProviderFails == stage = "document" /\ command = "compile-source" /\ Fail

RealizeDeterministically ==
    /\ stage = "realize" /\ realizer = "deterministic"
    /\ text' = DeterministicText(document)
    /\ mappings' = DeterministicMappings(document)
    /\ stage' = IF command = "validate-text" THEN "text" ELSE "validate"
    /\ UNCHANGED <<command, realizer, attempts, document, edits, verdict>>

(* The reference plan of a neural realization; a text with words outside   *)
(* the vocabulary has none.                                                *)
Symbolize ==
    /\ stage = "realize" /\ realizer = "neural"
    /\ IF document.authorized
       THEN /\ text' = DeterministicText(document)
            /\ stage' = "text"
            /\ UNCHANGED <<command, realizer, attempts, document, edits, mappings, verdict>>
       ELSE Fail

(* The generator gives no plan, one without the marker, or a symbol that   *)
(* is not allowed for the document.                                        *)
GeneratorFails == stage = "text" /\ realizer = "neural" /\ Fail

(* How the given text, or the one lexicalized from the generated plan,     *)
(* departs from the deterministic one: a sentence fewer, one more, two in  *)
(* the other order, one spelled otherwise, another layout, or no text.     *)
Shorter(given) ==
    {[given EXCEPT !.sentences = RemoveAt(given.sentences, i)] : i \in DOMAIN given.sentences}

Unlabelled(given) ==
    LET s == given.sentences IN
    [role : {""}, content : {s[i].content : i \in DOMAIN s} \cup {Foreign}, exact : {TRUE}]

Longer(given) ==
    {[given EXCEPT !.sentences = InsertAt(given.sentences, i, o)] :
        i \in 1 .. Len(given.sentences) + 1, o \in Unlabelled(given)}

Swapped(given) ==
    LET s == given.sentences IN
    {[given EXCEPT !.sentences = [s EXCEPT ![i] = s[i + 1], ![i + 1] = s[i]]] : i \in 1 .. Len(s) - 1}

Respelled(given) == {[given EXCEPT !.sentences[i].exact = FALSE] : i \in DOMAIN given.sentences}

Departures(given) ==
    Shorter(given) \cup Longer(given) \cup Swapped(given) \cup Respelled(given)
    \cup {[given EXCEPT !.layout = "other"], [sentences |-> <<>>, layout |-> "other"]}

Depart ==
    /\ stage = "text" /\ edits < MaxEdits
    /\ text' \in Departures(text)
    /\ edits' = edits + 1
    /\ UNCHANGED <<command, realizer, stage, attempts, document, mappings, verdict>>

(* Mutant: a generated text is aligned with the deterministic mappings. *)
TrustedMappings(given) == DeterministicMappings(document)

(* Deterministic mappings are kept for the deterministic text only.        *)
InheritedMappings(given) ==
    IF given = DeterministicText(document) THEN DeterministicMappings(document) ELSE <<>>

AlignText ==
    /\ stage = "text"
    /\ mappings' = Align(text, DeterministicText(document),
                         IF realizer = "neural" THEN InheritedMappings(text)
                         ELSE DeterministicMappings(document))
    /\ stage' = "validate"
    /\ UNCHANGED <<command, realizer, attempts, document, text, edits, verdict>>

(* The lexical and the structural validator report nothing; what they say  *)
(* of a text that is not the deterministic one is left open.               *)
WellWritten ==
    IF text = DeterministicText(document)
    THEN {document.authorized /\ WithinLimits(document)} ELSE BOOLEAN

(* ValidationPipeline.validate; a rejection is exit code 1. *)
Validate ==
    /\ stage = "validate"
    /\ \E written \in WellWritten :
          Done(IF written /\ SemanticallyPreserved(document, mappings) THEN "accepted" ELSE "rejected")
    /\ UNCHANGED <<command, realizer, attempts, document, text, edits, mappings>>

Begin ==
    /\ stage = "document"
    /\ \/ \E doc \in Documents : Load(doc)
       \/ \E doc \in Documents, quoted \in BOOLEAN : Propose(doc, quoted)
       \/ ValidateAlone \/ ProviderFails

Next ==
    \/ Begin
    \/ RealizeDeterministically \/ Symbolize \/ GeneratorFails
    \/ Depart \/ AlignText \/ Validate

Spec == Init /\ [][Next]_vars
-----------------------------------------------------------------------------
TypeOK ==
    /\ command \in Commands /\ realizer \in Realizers \cup {"deterministic"}
    /\ stage \in {"document", "realize", "text", "validate", "done"}
    /\ attempts \in 0 .. Retries /\ edits \in 0 .. MaxEdits
    /\ stage \notin {"document", "done"} => document \in Documents /\ WellFormed(document)
    /\ verdict \in {"none", "accepted", "rejected", "failed"}
    /\ stage = "done" <=> verdict # "none"

(* The deterministic text of a well-formed document passes the semantic    *)
(* validator, whatever its ids, hazards, relations and sentence ends; and  *)
(* its relations never break a limit its statements keep                   *)
(* (deterministic.py:90-146, semantic.py:9-188, docs/architecture.md:13). *)
(* It is rejected for a word, for the length of a statement's sentence or  *)
(* of the paragraph of statements, or for a quantity that validator and    *)
(* realizer spell differently (semantic.py:107, deterministic.py:27).      *)
DeterministicIsAccepted ==
    (verdict = "rejected" /\ realizer = "deterministic" /\ Compiles) =>
        \/ ~document.authorized \/ ~document.concise
        \/ Len(Paragraphs(document)[1]) > MaxParagraph
        \/ \E s \in Range(document.statements) : ~s.renders

Optional(s) == s.instruction /\ ~s.required

(* A generated text is accepted only if it is the deterministic text, or   *)
(* holds no sentence and the document requires none                        *)
(* (neural.py:66-75, alignment.py:56-96, semantic.py:11-47).  The          *)
(* documents exclude the second case: see AcceptedTextIsExact.              *)
NeuralTextIsTrusted ==
    verdict = "accepted" /\ realizer = "neural" =>
        \/ text = DeterministicText(document)
        \/ /\ DOMAIN text.sentences = {}
           /\ \A s \in Range(document.statements) : Optional(s)
           /\ DOMAIN document.relations = {}

(* A given text that is accepted says what the deterministic text says,    *)
(* in its order, up to letter case and whitespace, and leaves out at most  *)
(* optional instructions at its end (alignment.py:72-96,                   *)
(* semantic.py:26-47).  The documents promise that neither departure is    *)
(* accepted: see AcceptedTextIsExact.                                      *)
ValidatedTextIsFaithful ==
    verdict = "accepted" /\ command = "validate-text" =>
        LET said == Normalized(text.sentences)
            expected == DeterministicMappings(document)
        IN /\ IsPrefix(said, Normalized(Spoken(expected)))
           /\ \A i \in Len(said) + 1 .. Len(expected) :
                 \E s \in Range(document.statements) : Optional(s) /\ expected[i].features = <<"statement", s>>

(* What docs/architecture.md:22 says of generated texts: "The independent  *)
(* surface aligner then grants IR mappings only to exact generated output, *)
(* so reordering, omission, or any surface change fails semantic           *)
(* validation."  Not so: where every statement is an optional instruction, *)
(* a text without a sentence passes (semantic.py:37).                      *)
GeneratedTextIsExact ==
    verdict = "accepted" /\ realizer = "neural" => text = DeterministicText(document)

(* What docs/architecture.md:13 says of given texts: "The parser-free CLI  *)
(* aligner grants mappings only to position-preserving exact matches of    *)
(* deterministic controlled sentences; changed, omitted, reordered, and    *)
(* extra sentences remain unmapped and are rejected."  Not so of a         *)
(* sentence changed in its letter case or whitespace (alignment.py:75).    *)
ChangedTextIsRejected ==
    verdict = "accepted" /\ command = "validate-text" =>
        \A i \in DOMAIN text.sentences :
            /\ i \in DOMAIN DeterministicText(document).sentences
            /\ text.sentences[i] = DeterministicText(document).sentences[i]

(* The same sentence says that texts with omitted sentences are rejected.  *)
(* Not so of the sentences of optional instructions at the end             *)
(* (semantic.py:37).                                                       *)
OmittedTextIsRejected ==
    verdict = "accepted" /\ command = "validate-text" =>
        Len(text.sentences) >= Len(DeterministicText(document).sentences)

(* What docs/architecture.md:13 and :22 and the docstring at               *)
(* alignment.py:57 say of the texts the aligner is given: what is accepted *)
(* is exactly what the deterministic realizer says.                        *)
AcceptedTextIsExact == GeneratedTextIsExact /\ ChangedTextIsRejected /\ OmittedTextIsRejected

(* What makes NeuralTextIsTrusted inductive: a generated text is only ever *)
(* validated with the mappings the aligner gave it, and accepted only if   *)
(* these preserve the document.                                            *)
NeuralInv ==
    /\ realizer = "neural" => Compiles
    /\ verdict = "accepted" /\ realizer = "neural" => stage = "done" /\ SemanticallyPreserved(document, mappings)
    /\ realizer = "neural" /\ (stage = "validate" \/ verdict = "accepted") =>
          mappings = Align(text, DeterministicText(document), InheritedMappings(text))

IsText(given) == given = [sentences |-> given.sentences, layout |-> given.layout] /\ IsSeq(given.sentences)

(* What makes the other two inductive: what is validated is a well-formed  *)
(* document with its own mappings, or with those a given text was aligned  *)
(* with, and the verdict is that of the validators on them.                *)
VerdictInv ==
    LET judged == verdict \in {"accepted", "rejected"} /\ command # "validate-text-alone"
        given == command = "validate-text"
        compiled == realizer = "deterministic" /\ ~given
        own == DeterministicMappings(document)
    IN /\ judged => stage = "done"
       /\ stage \in {"realize", "text", "validate"} \/ judged => document \in Documents /\ WellFormed(document)
       /\ given => realizer = "deterministic"
       /\ stage = "text" => ~compiled
       /\ stage \in {"text", "validate"} \/ judged => IsText(text)
       /\ given /\ (stage = "validate" \/ judged) => mappings = Align(text, DeterministicText(document), own)
       /\ compiled /\ (stage = "validate" \/ judged) => text = DeterministicText(document) /\ mappings = own
       /\ judged /\ verdict = "accepted" => SemanticallyPreserved(document, mappings)
       /\ judged /\ verdict = "rejected" /\ compiled =>
             ~(document.authorized /\ WithinLimits(document) /\ SemanticallyPreserved(document, mappings))

=============================================================================
