-------------------------- MODULE MCEvidenceReport --------------------------
(* A finite instance: two systems on two cases, with every kind of failure,*)
(* several of them at once.                                                *)
EXTENDS EvidenceReport

Accepts == [fields |-> 1, ambiguities |-> 1, spans |-> 1, accepts |-> TRUE]
Golds == {Accepts, [Accepts EXCEPT !.accepts = FALSE, !.spans = 0]}

Perfect == [status |-> "succeeded", schema |-> TRUE, predicted |-> 1, matched |-> 1,
            nodes |-> 1, hallucinated |-> 0, preserved |-> 1, exact |-> 1, overlapping |-> 1]
Failing == [Perfect EXCEPT !.status = "failed"]
Frontends ==
    {Perfect, [Perfect EXCEPT !.exact = 0, !.overlapping = 0],
     [Failing EXCEPT !.schema = FALSE, !.predicted = 0, !.matched = 0],
     [Failing EXCEPT !.matched = 0, !.hallucinated = 1, !.preserved = 0],
     [Failing EXCEPT !.exact = 0, !.overlapping = 0, !.predicted = 2]}

Plan == [status |-> "succeeded", exact |-> TRUE, grammar |-> TRUE, eos |-> TRUE,
         symbols |-> 2, unauthorized |-> 0, rejected |-> FALSE]
Broken == [Plan EXCEPT !.status = "failed", !.exact = FALSE]
Realizers ==
    {NoAttempt, Plan,
     [Broken EXCEPT !.rejected = TRUE], [Broken EXCEPT !.eos = FALSE, !.grammar = FALSE],
     [Broken EXCEPT !.unauthorized = 2, !.rejected = TRUE]}

Validators ==
    {[status |-> "not_run", diagnostics |-> {}], [status |-> "accepted", diagnostics |-> {}],
     [status |-> "rejected", diagnostics |-> {"lexical", "semantic"}]}

Observable == [frontend : Frontends, realizer : Realizers, validator : Validators]
=============================================================================
