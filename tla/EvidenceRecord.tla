--------------------------- MODULE EvidenceRecord ---------------------------
(***************************************************************************)
(* A prediction record of the benchmark (evaluation/evidence.py): what was *)
(* observed of the frontend, the realizer and the validator on one case,   *)
(* and the failure it is put down to.  A stage that did not run has no     *)
(* measurements; FALSE and 0 stand for them, and nothing looks at them.    *)
(* A diagnostic code is represented by its kind; warnings reject nothing   *)
(* and are left out.                                                       *)
(***************************************************************************)
EXTENDS Integers

CONSTANT Count   \* the counts an observation may hold

ASSUME CountAssumption == Count \subseteq Nat

Stage == {"none", "frontend", "realizer", "validator"}
FrontendCode == {"schema_invalid", "required_field_omission", "source_span_mismatch",
                 "hallucinated_node", "ambiguity_not_preserved"}
RealizerCode == {"unauthorized_symbol", "incomplete_eos", "grammar_invalid",
                 "constraint_rejection"}
ValidatorCode == {"semantic", "lexical", "structural", "false_accept"}
FailureCode == FrontendCode \cup RealizerCode \cup ValidatorCode
NoCode == "no failure"

CodesOf(stage) ==
    CASE stage = "frontend" -> FrontendCode
      [] stage = "realizer" -> RealizerCode
      [] stage = "validator" -> ValidatorCode
      [] OTHER -> {NoCode}

----------------------------------------------------------------------------
(* What one stage may report of itself.                                    *)

Gold == [fields : Count, ambiguities : Count, spans : Count, accepts : BOOLEAN]

Frontend == [status : {"succeeded", "failed"}, schema : BOOLEAN,
             predicted : Count, matched : Count, nodes : Count, hallucinated : Count,
             preserved : Count, exact : Count, overlapping : Count]

PassesEveryBoundary(f, gold) ==
    /\ f.schema
    /\ f.matched = gold.fields /\ f.predicted = gold.fields
    /\ f.hallucinated = 0
    /\ f.preserved = gold.ambiguities
    /\ f.exact = gold.spans

BoundedCounts(f, gold) ==
    /\ f.matched <= gold.fields /\ f.matched <= f.predicted
    /\ f.hallucinated <= f.nodes
    /\ f.preserved <= gold.ambiguities
    /\ f.exact <= f.overlapping /\ f.overlapping <= gold.spans
    /\ f.status = "succeeded" => PassesEveryBoundary(f, gold)

Realizer == [status : {"succeeded", "failed", "not_run"}, exact : BOOLEAN, grammar : BOOLEAN,
             eos : BOOLEAN, symbols : Count, unauthorized : Count, rejected : BOOLEAN]

NoAttempt == [status |-> "not_run", exact |-> FALSE, grammar |-> FALSE, eos |-> FALSE,
              symbols |-> 0, unauthorized |-> 0, rejected |-> FALSE]

WellFormed(r) == r.grammar /\ r.eos /\ r.unauthorized = 0

StatusControlsMeasurements(r) ==
    /\ r.unauthorized <= r.symbols
    /\ r.exact => WellFormed(r)
    /\ r.status = "not_run" => r = NoAttempt
    /\ r.status = "succeeded" => WellFormed(r) /\ ~r.rejected
    /\ r.status = "failed" => ~WellFormed(r) \/ r.rejected

Validator == [status : {"accepted", "rejected", "not_run"},
              diagnostics : SUBSET {"semantic", "lexical", "structural"}]

\* The text is rejected exactly when a diagnostic rejects it.
DiagnosticsDecide(v) == v.status = "rejected" <=> v.diagnostics # {}

Observed(o, gold) ==
    /\ BoundedCounts(o.frontend, gold)
    /\ StatusControlsMeasurements(o.realizer)
    /\ DiagnosticsDecide(o.validator)

----------------------------------------------------------------------------
(* causal_failure_stage                                                    *)

\* A stage runs exactly if the one before it succeeded.
CausallyOrdered(o) ==
    /\ o.realizer.status = "not_run" <=> o.frontend.status = "failed"
    /\ o.validator.status = "not_run" <=> o.realizer.status # "succeeded"

FalseAccept(o, gold) == o.validator.status = "accepted" /\ ~gold.accepts
FalseRejection(o, gold) == o.validator.status = "rejected" /\ gold.accepts

FailureStage(o, gold) ==
    CASE o.frontend.status = "failed" -> "frontend"
      [] o.realizer.status = "failed" -> "realizer"
      [] FalseAccept(o, gold) \/ FalseRejection(o, gold) -> "validator"
      [] OTHER -> "none"

\* Fault: a plan that is refused for no other reason is not asked to be refused.
AnyFailedAttempt(o) == o.realizer.status = "failed"

StandaloneRejection(o) == o.realizer.status = "failed" /\ WellFormed(o.realizer)

\* The event a code speaks of is among the observations.
Shows(code, o, gold) ==
    /\ code = "schema_invalid" => ~o.frontend.schema
    /\ code = "required_field_omission" => o.frontend.matched < gold.fields
    /\ code = "source_span_mismatch" => o.frontend.exact < gold.spans
    /\ code = "hallucinated_node" => o.frontend.hallucinated > 0
    /\ code = "ambiguity_not_preserved" => o.frontend.preserved < gold.ambiguities
    /\ code = "unauthorized_symbol" => o.realizer.unauthorized > 0
    /\ code = "incomplete_eos" => ~o.realizer.eos
    /\ code = "grammar_invalid" => ~o.realizer.grammar
    /\ code = "constraint_rejection" => StandaloneRejection(o)
    /\ code \in {"semantic", "lexical", "structural"} =>
         FalseRejection(o, gold) /\ code \in o.validator.diagnostics
    /\ code = "false_accept" => FalseAccept(o, gold)

Admissible(code, o, gold) ==
    /\ code \in CodesOf(FailureStage(o, gold))
    /\ Shows(code, o, gold)

\* A record that the schema accepts.
ValidRecord(code, o, gold) ==
    /\ Observed(o, gold)
    /\ CausallyOrdered(o)
    /\ Admissible(code, o, gold)
=============================================================================
