--------------------------- MODULE EvidenceReport ---------------------------
(***************************************************************************)
(* generate_evidence_report of evaluation/evidence.py: the prediction file *)
(* is read line by line, the lines must cover the benchmark's cases and    *)
(* systems in order, the metrics of each system are computed from its      *)
(* records, and the metrics' own schema checks them once more before they  *)
(* are published.  A metric is a numerator and a denominator; rates, F1    *)
(* and confidence intervals are functions of them and left out, and so are *)
(* provenance and repeatability, two further counts over all records.      *)
(* How the report appears at its path is the subject of                    *)
(* DirectoryPublication.                                                   *)
(***************************************************************************)
EXTENDS EvidenceRecord

CONSTANTS
    Cases, Systems,   \* how many cases and systems the benchmark has
    Contracts,        \* gold contracts a record may state
    Observations,     \* what an evaluator may have observed
    Pending           \* nothing observed that is not recorded

ASSUME ReportAssumption ==
    /\ Cases \in Nat \ {0} /\ Systems \in Nat \ {0}
    /\ Contracts \subseteq Gold
    /\ Observations \subseteq [frontend : Frontend, realizer : Realizer, validator : Validator]

VARIABLES
    case, system,  \* the pair the next line must be about
    contract,      \* the gold contract stated first for this case
    outcome,       \* what the evaluator has observed and not yet recorded
    tally,         \* what is counted over the records of each system
    result         \* "open", "reading", "metrics", or how the call ended

vars == <<case, system, contract, outcome, tally, result>>

Counter == {"records", "schema", "fields", "predicted", "matched", "nodes", "hallucinated",
            "ambiguities", "preserved", "spans", "exactSpans", "overlapping",
            "attempts", "exactPlan", "grammar", "eos", "symbols", "unauthorized", "rejections",
            "validated", "accepted", "rejected", "falseAccepts", "goldRejections"}
Tally == [sum : [Counter -> Nat], stage : [Stage -> Nat], code : [FailureCode -> Nat]]

----------------------------------------------------------------------------
(* _system_metrics                                                         *)

Bit(b) == IF b THEN 1 ELSE 0

\* What one record contributes to each sum.
Contribution(o, gold) ==
    LET f == o.frontend  r == o.realizer  v == o.validator
        ran == v.status # "not_run"
    IN  [records |-> 1, schema |-> Bit(f.schema),
         fields |-> gold.fields, predicted |-> f.predicted, matched |-> f.matched,
         nodes |-> f.nodes, hallucinated |-> f.hallucinated,
         ambiguities |-> gold.ambiguities, preserved |-> f.preserved,
         spans |-> gold.spans, exactSpans |-> f.exact, overlapping |-> f.overlapping,
         attempts |-> Bit(r.status # "not_run"), exactPlan |-> Bit(r.exact),
         grammar |-> Bit(r.grammar), eos |-> Bit(r.eos), symbols |-> r.symbols,
         unauthorized |-> r.unauthorized, rejections |-> Bit(r.rejected),
         validated |-> Bit(ran), accepted |-> Bit(v.status = "accepted"),
         rejected |-> Bit(v.status = "rejected"),
         falseAccepts |-> Bit(FalseAccept(o, gold)),
         goldRejections |-> Bit(ran /\ ~gold.accepts)]

Zero == [sum |-> [c \in Counter |-> 0], stage |-> [s \in Stage |-> 0],
         code |-> [c \in FailureCode |-> 0]]

Add(t, code, o, gold) ==
    [sum |-> [c \in Counter |-> t.sum[c] + Contribution(o, gold)[c]],
     stage |-> [s \in Stage |-> t.stage[s] + Bit(s = FailureStage(o, gold))],
     code |-> [c \in FailureCode |-> t.code[c] + Bit(c = code)]]

----------------------------------------------------------------------------
(* frozen_metric_inventory: how the counts of a system must fit together.  *)

FrontendCodes(t) ==
    t.code["schema_invalid"] + t.code["required_field_omission"]
      + t.code["source_span_mismatch"] + t.code["hallucinated_node"]
      + t.code["ambiguity_not_preserved"]
RealizerCodes(t) ==
    t.code["unauthorized_symbol"] + t.code["incomplete_eos"] + t.code["grammar_invalid"]
      + t.code["constraint_rejection"]
RejectionCodes(t) == t.code["semantic"] + t.code["lexical"] + t.code["structural"]

\* Every record has one stage, and every failure one code of its stage.
CodesFitStages(t) ==
    /\ t.stage["none"] + t.stage["frontend"] + t.stage["realizer"] + t.stage["validator"]
         = t.sum["records"]
    /\ FrontendCodes(t) = t.stage["frontend"]
    /\ RealizerCodes(t) = t.stage["realizer"]
    /\ RejectionCodes(t) + t.code["false_accept"] = t.stage["validator"]

RealizerPopulation(t) == t.sum["records"] - t.stage["frontend"]
ValidatorPopulation(t) == RealizerPopulation(t) - t.stage["realizer"]

PopulationsFit(t) ==
    /\ t.sum["attempts"] = RealizerPopulation(t)
    /\ t.sum["validated"] = ValidatorPopulation(t)
    /\ t.sum["schema"] >= RealizerPopulation(t)

RealizerCountsFit(t) ==
    /\ t.sum["grammar"] >= ValidatorPopulation(t) /\ t.sum["eos"] >= ValidatorPopulation(t)
    /\ t.sum["exactPlan"] <= t.sum["grammar"] /\ t.sum["exactPlan"] <= t.sum["eos"]
    /\ t.sum["rejections"] <= t.stage["realizer"]
    /\ t.stage["realizer"] = 0 => t.sum["unauthorized"] = 0

ValidatorCountsFit(t) ==
    LET wrong == t.sum["falseAccepts"]
        rejections == (t.stage["validator"] - wrong) + (t.sum["goldRejections"] - wrong)
    IN  /\ t.sum["accepted"] + t.sum["rejected"] = ValidatorPopulation(t)
        /\ t.sum["goldRejections"] <= ValidatorPopulation(t)
        /\ wrong <= t.sum["accepted"] /\ wrong <= t.stage["validator"]
        /\ t.sum["rejected"] = rejections
        /\ t.sum["accepted"] = ValidatorPopulation(t) - rejections

\* No code is given more often than the event it speaks of was observed.
CodesFitEvents(t) ==
    /\ t.sum["exactSpans"] <= t.sum["overlapping"]
    /\ t.code["schema_invalid"] <= t.sum["records"] - t.sum["schema"]
    /\ t.code["required_field_omission"] <= t.sum["fields"] - t.sum["matched"]
    /\ t.code["source_span_mismatch"] <= t.sum["spans"] - t.sum["exactSpans"]
    /\ t.code["hallucinated_node"] <= t.sum["hallucinated"]
    /\ t.code["ambiguity_not_preserved"] <= t.sum["ambiguities"] - t.sum["preserved"]
    /\ t.code["unauthorized_symbol"] <= t.sum["unauthorized"]
    /\ t.code["incomplete_eos"] <= t.sum["attempts"] - t.sum["eos"]
    /\ t.code["grammar_invalid"] <= t.sum["attempts"] - t.sum["grammar"]
    /\ t.code["constraint_rejection"] <= t.sum["rejections"]

ValidatorCodesFit(t) ==
    /\ RejectionCodes(t) <= t.sum["rejected"]
    /\ t.code["false_accept"] = t.sum["falseAccepts"]
    /\ RejectionCodes(t) = t.stage["validator"] - t.sum["falseAccepts"]

ExactWithoutFailures(t) ==
    t.stage["frontend"] = 0 =>
      /\ t.sum["matched"] = t.sum["predicted"] /\ t.sum["matched"] = t.sum["fields"]
      /\ t.sum["preserved"] = t.sum["ambiguities"]
      /\ t.sum["exactSpans"] = t.sum["spans"] /\ t.sum["overlapping"] = t.sum["spans"]
      /\ t.sum["hallucinated"] = 0

\* Every numerator is bounded by its denominator (MetricEstimateV1).
RatesAreRates(t) ==
    /\ t.sum["schema"] <= t.sum["records"] /\ t.stage["none"] <= t.sum["records"]
    /\ t.sum["matched"] <= t.sum["predicted"] /\ t.sum["matched"] <= t.sum["fields"]
    /\ t.sum["hallucinated"] <= t.sum["nodes"]
    /\ t.sum["preserved"] <= t.sum["ambiguities"]
    /\ t.sum["exactSpans"] <= t.sum["spans"] /\ t.sum["overlapping"] <= t.sum["spans"]
    /\ t.sum["unauthorized"] <= t.sum["symbols"]
    /\ t.sum["grammar"] <= t.sum["attempts"] /\ t.sum["eos"] <= t.sum["attempts"]
    /\ t.sum["exactPlan"] <= t.sum["attempts"] /\ t.sum["rejections"] <= t.sum["attempts"]
    /\ t.sum["accepted"] <= t.sum["validated"] /\ t.sum["rejected"] <= t.sum["validated"]
    /\ t.sum["falseAccepts"] <= t.sum["goldRejections"]

MetricsAccepted(t) ==
    /\ t.sum["records"] > 0
    /\ CodesFitStages(t) /\ PopulationsFit(t) /\ RealizerCountsFit(t) /\ ValidatorCountsFit(t)
    /\ CodesFitEvents(t) /\ ValidatorCodesFit(t) /\ ExactWithoutFailures(t) /\ RatesAreRates(t)

----------------------------------------------------------------------------
(* generate_evidence_report                                                *)

Init ==
    /\ case = 1 /\ system = 1
    /\ contract \in Contracts
    /\ outcome = Pending
    /\ tally = [s \in 1..Systems |-> Zero]
    /\ result = "open"

\* Specification, taxonomy, manifest, predictions and dataset release name
\* each other by digest.
BindInputs ==
    /\ result = "open"
    /\ result' \in {"reading", "refused"}
    /\ UNCHANGED <<case, system, contract, outcome, tally>>

\* The evaluator has run a system on a case.
Evaluate ==
    /\ result = "reading" /\ outcome = Pending
    /\ \E o \in Observations, gold \in Contracts :
         /\ Observed(o, gold) /\ CausallyOrdered(o)
         /\ outcome' = [observed |-> o, gold |-> gold]
    /\ UNCHANGED <<case, system, contract, tally, result>>

\* Fault: only one of the four values is compared.
AgreesOnFields(gold) == system = 1 \/ contract.fields = gold.fields

\* The first record of a case states its gold contract, the others repeat it.
AgreesOnGold(gold) == system = 1 \/ contract = gold

NextPair ==
    /\ system' = IF system = Systems THEN 1 ELSE system + 1
    /\ case' = IF system = Systems THEN case + 1 ELSE case

\* The line is about the pair that is next, and agrees on its gold contract.
CountLine(code) ==
    /\ result = "reading" /\ outcome # Pending /\ case <= Cases
    /\ ValidRecord(code, outcome.observed, outcome.gold) /\ AgreesOnGold(outcome.gold)
    /\ tally' = [tally EXCEPT ![system] = Add(@, code, outcome.observed, outcome.gold)]
    /\ contract' = outcome.gold
    /\ outcome' = Pending
    /\ NextPair
    /\ UNCHANGED result

\* The line is about another pair, or of another contract, or one too many.
RefuseLine ==
    /\ result = "reading" /\ outcome # Pending
    /\ result' = "refused"
    /\ UNCHANGED <<case, system, contract, outcome, tally>>

\* No code fits the outcome: the evaluator can write no record of it.
CannotRecord ==
    /\ result = "reading" /\ outcome # Pending
    /\ \A code \in FailureCode \cup {NoCode} :
         ~Admissible(code, outcome.observed, outcome.gold)
    /\ result' = "unrecorded"
    /\ UNCHANGED <<case, system, contract, outcome, tally>>

EndOfFile ==
    /\ result = "reading" /\ outcome = Pending
    /\ result' = IF case > Cases THEN "metrics" ELSE "refused"
    /\ UNCHANGED <<case, system, contract, outcome, tally>>

\* Metrics that their own schema rejects end the call with an error.
RecomputeMetrics ==
    /\ result = "metrics"
    /\ result' = IF \A s \in 1..Systems : MetricsAccepted(tally[s])
                 THEN "published" ELSE "inconsistent"
    /\ UNCHANGED <<case, system, contract, outcome, tally>>

Next ==
    \/ BindInputs \/ Evaluate \/ RefuseLine \/ CannotRecord \/ EndOfFile \/ RecomputeMetrics
    \/ \E code \in FailureCode \cup {NoCode} : CountLine(code)

Spec == Init /\ [][Next]_vars

----------------------------------------------------------------------------
(* Properties.                                                             *)

\* The three dozen cross-checks of the metrics' schema, written one by one,
\* never reject what is computed from records that their own schema accepts:
\* a complete benchmark always has a report.
ComputedMetricsAreAccepted == result # "inconsistent"

\* The systems of a published report are measured against the same gold: their
\* recall, ambiguity and span rates have equal denominators.
SystemsAreComparable ==
    result = "published" =>
      \A s, r \in 1..Systems : \A c \in {"records", "fields", "ambiguities", "spans"} :
        tally[s].sum[c] = tally[r].sum[c]

\* Whatever the pipeline did on a case can be recorded, so that no failure is
\* censored (docs/evaluation.md:7, docs/benchmark-evidence.md:90).
EveryOutcomeIsRecorded == result # "unrecorded"
=============================================================================
