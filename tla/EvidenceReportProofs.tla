------------------------ MODULE EvidenceReportProofs ------------------------
(***************************************************************************)
(* Proofs about EvidenceReport, for any number of cases, systems, counts   *)
(* and observations: the metrics' schema accepts what is computed, and the *)
(* systems of a report are measured against the same gold.                 *)
(*                                                                         *)
(* Every cross-check of the metrics holds of the tally of one record that  *)
(* the record's own schema accepts, and of a sum of two tallies of which   *)
(* it holds.                                                               *)
(***************************************************************************)
EXTENDS EvidenceReport, TLAPS

USE CountAssumption, ReportAssumption

Outcome == [frontend : Frontend, realizer : Realizer, validator : Validator]

(* The tally of a single record.                                           *)
One(code, o, gold) ==
    [sum |-> Contribution(o, gold),
     stage |-> [s \in Stage |-> Bit(s = FailureStage(o, gold))],
     code |-> [c \in FailureCode |-> Bit(c = code)]]

(* u counts what t and d count together.                                   *)
IsSum(u, t, d) ==
    /\ \A c \in Counter : u.sum[c] = t.sum[c] + d.sum[c]
    /\ \A s \in Stage : u.stage[s] = t.stage[s] + d.stage[s]
    /\ \A c \in FailureCode : u.code[c] = t.code[c] + d.code[c]

Consistent(t) ==
    /\ CodesFitStages(t) /\ PopulationsFit(t) /\ RealizerCountsFit(t) /\ ValidatorCountsFit(t)
    /\ CodesFitEvents(t) /\ ValidatorCodesFit(t) /\ ExactWithoutFailures(t) /\ RatesAreRates(t)

(* The same, count by count.                                               *)
SumsAdd(u, t, d) ==
    /\ u.sum["records"] = t.sum["records"] + d.sum["records"]
    /\ u.sum["schema"] = t.sum["schema"] + d.sum["schema"]
    /\ u.sum["fields"] = t.sum["fields"] + d.sum["fields"]
    /\ u.sum["predicted"] = t.sum["predicted"] + d.sum["predicted"]
    /\ u.sum["matched"] = t.sum["matched"] + d.sum["matched"]
    /\ u.sum["nodes"] = t.sum["nodes"] + d.sum["nodes"]
    /\ u.sum["hallucinated"] = t.sum["hallucinated"] + d.sum["hallucinated"]
    /\ u.sum["ambiguities"] = t.sum["ambiguities"] + d.sum["ambiguities"]
    /\ u.sum["preserved"] = t.sum["preserved"] + d.sum["preserved"]
    /\ u.sum["spans"] = t.sum["spans"] + d.sum["spans"]
    /\ u.sum["exactSpans"] = t.sum["exactSpans"] + d.sum["exactSpans"]
    /\ u.sum["overlapping"] = t.sum["overlapping"] + d.sum["overlapping"]
    /\ u.sum["attempts"] = t.sum["attempts"] + d.sum["attempts"]
    /\ u.sum["exactPlan"] = t.sum["exactPlan"] + d.sum["exactPlan"]
    /\ u.sum["grammar"] = t.sum["grammar"] + d.sum["grammar"]
    /\ u.sum["eos"] = t.sum["eos"] + d.sum["eos"]
    /\ u.sum["symbols"] = t.sum["symbols"] + d.sum["symbols"]
    /\ u.sum["unauthorized"] = t.sum["unauthorized"] + d.sum["unauthorized"]
    /\ u.sum["rejections"] = t.sum["rejections"] + d.sum["rejections"]
    /\ u.sum["validated"] = t.sum["validated"] + d.sum["validated"]
    /\ u.sum["accepted"] = t.sum["accepted"] + d.sum["accepted"]
    /\ u.sum["rejected"] = t.sum["rejected"] + d.sum["rejected"]
    /\ u.sum["falseAccepts"] = t.sum["falseAccepts"] + d.sum["falseAccepts"]
    /\ u.sum["goldRejections"] = t.sum["goldRejections"] + d.sum["goldRejections"]

StagesAdd(u, t, d) ==
    /\ u.stage["none"] = t.stage["none"] + d.stage["none"]
    /\ u.stage["frontend"] = t.stage["frontend"] + d.stage["frontend"]
    /\ u.stage["realizer"] = t.stage["realizer"] + d.stage["realizer"]
    /\ u.stage["validator"] = t.stage["validator"] + d.stage["validator"]

CodesAdd(u, t, d) ==
    /\ u.code["schema_invalid"] = t.code["schema_invalid"] + d.code["schema_invalid"]
    /\ u.code["required_field_omission"] = t.code["required_field_omission"] + d.code["required_field_omission"]
    /\ u.code["source_span_mismatch"] = t.code["source_span_mismatch"] + d.code["source_span_mismatch"]
    /\ u.code["hallucinated_node"] = t.code["hallucinated_node"] + d.code["hallucinated_node"]
    /\ u.code["ambiguity_not_preserved"] = t.code["ambiguity_not_preserved"] + d.code["ambiguity_not_preserved"]
    /\ u.code["unauthorized_symbol"] = t.code["unauthorized_symbol"] + d.code["unauthorized_symbol"]
    /\ u.code["incomplete_eos"] = t.code["incomplete_eos"] + d.code["incomplete_eos"]
    /\ u.code["grammar_invalid"] = t.code["grammar_invalid"] + d.code["grammar_invalid"]
    /\ u.code["constraint_rejection"] = t.code["constraint_rejection"] + d.code["constraint_rejection"]
    /\ u.code["semantic"] = t.code["semantic"] + d.code["semantic"]
    /\ u.code["lexical"] = t.code["lexical"] + d.code["lexical"]
    /\ u.code["structural"] = t.code["structural"] + d.code["structural"]
    /\ u.code["false_accept"] = t.code["false_accept"] + d.code["false_accept"]

Naturals(t) ==
    /\ t.sum["records"] \in Nat /\ t.sum["schema"] \in Nat /\ t.sum["fields"] \in Nat
    /\ t.sum["predicted"] \in Nat /\ t.sum["matched"] \in Nat /\ t.sum["nodes"] \in Nat
    /\ t.sum["hallucinated"] \in Nat /\ t.sum["ambiguities"] \in Nat /\ t.sum["preserved"] \in Nat
    /\ t.sum["spans"] \in Nat /\ t.sum["exactSpans"] \in Nat /\ t.sum["overlapping"] \in Nat
    /\ t.sum["attempts"] \in Nat /\ t.sum["exactPlan"] \in Nat /\ t.sum["grammar"] \in Nat
    /\ t.sum["eos"] \in Nat /\ t.sum["symbols"] \in Nat /\ t.sum["unauthorized"] \in Nat
    /\ t.sum["rejections"] \in Nat /\ t.sum["validated"] \in Nat /\ t.sum["accepted"] \in Nat
    /\ t.sum["rejected"] \in Nat /\ t.sum["falseAccepts"] \in Nat /\ t.sum["goldRejections"] \in Nat
    /\ t.stage["none"] \in Nat /\ t.stage["frontend"] \in Nat /\ t.stage["realizer"] \in Nat
    /\ t.stage["validator"] \in Nat
    /\ t.code["schema_invalid"] \in Nat /\ t.code["required_field_omission"] \in Nat /\ t.code["source_span_mismatch"] \in Nat
    /\ t.code["hallucinated_node"] \in Nat /\ t.code["ambiguity_not_preserved"] \in Nat /\ t.code["unauthorized_symbol"] \in Nat
    /\ t.code["incomplete_eos"] \in Nat /\ t.code["grammar_invalid"] \in Nat /\ t.code["constraint_rejection"] \in Nat
    /\ t.code["semantic"] \in Nat /\ t.code["lexical"] \in Nat /\ t.code["structural"] \in Nat
    /\ t.code["false_accept"] \in Nat

(* Counts as 0 or 1.                                                       *)
LEMMA BitIsNatural == ASSUME NEW b \in BOOLEAN PROVE Bit(b) \in Nat
  BY DEF Bit

LEMMA OneIsTally ==
    ASSUME NEW code \in FailureCode \cup {NoCode}, NEW o \in Outcome, NEW gold \in Gold
    PROVE  One(code, o, gold) \in Tally
  <1> DEFINE f == o.frontend  r == o.realizer  v == o.validator
  <1>1. /\ f.predicted \in Nat /\ f.matched \in Nat /\ f.nodes \in Nat /\ f.hallucinated \in Nat
        /\ f.preserved \in Nat /\ f.exact \in Nat /\ f.overlapping \in Nat
    BY DEF Outcome, Frontend
  <1>2. r.symbols \in Nat /\ r.unauthorized \in Nat
    BY DEF Outcome, Realizer
  <1>3. gold.fields \in Nat /\ gold.ambiguities \in Nat /\ gold.spans \in Nat
    BY DEF Gold
  <1>4. \A b : Bit(b) \in Nat
    BY DEF Bit
  <1>5. Contribution(o, gold) \in [Counter -> Nat]
    BY <1>1, <1>2, <1>3, <1>4 DEF Contribution, Counter
  <1> QED BY <1>4, <1>5 DEF One, Tally

LEMMA AddIsSum ==
    ASSUME NEW t \in Tally, NEW code \in FailureCode \cup {NoCode},
           NEW o \in Outcome, NEW gold \in Gold
    PROVE  /\ IsSum(Add(t, code, o, gold), t, One(code, o, gold))
           /\ Add(t, code, o, gold) \in Tally
  <1> DEFINE d == One(code, o, gold)  u == Add(t, code, o, gold)
  <1>1. d \in Tally
    BY OneIsTally
  <1>2. /\ \A c \in Counter : u.sum[c] = t.sum[c] + d.sum[c]
        /\ \A s \in Stage : u.stage[s] = t.stage[s] + d.stage[s]
        /\ \A c \in FailureCode : u.code[c] = t.code[c] + d.code[c]
    BY DEF One, Add
  <1>3. u \in Tally
    BY <1>1, <1>2 DEF Tally, Add
  <1> QED BY <1>2, <1>3 DEF IsSum

LEMMA TallyIsNatural == ASSUME NEW t \in Tally PROVE Naturals(t)
  <1>1. /\ \A c \in Counter : t.sum[c] \in Nat
        /\ \A s \in Stage : t.stage[s] \in Nat
        /\ \A c \in FailureCode : t.code[c] \in Nat
    BY DEF Tally
  <1> QED BY <1>1 DEF Naturals, Counter, Stage, FailureCode, FrontendCode, RealizerCode, ValidatorCode

LEMMA SumAdds ==
    ASSUME NEW t, NEW d, NEW u, IsSum(u, t, d)
    PROVE  SumsAdd(u, t, d) /\ StagesAdd(u, t, d) /\ CodesAdd(u, t, d)
  BY DEF IsSum, SumsAdd, StagesAdd, CodesAdd, Counter, Stage, FailureCode, FrontendCode,
         RealizerCode, ValidatorCode

(* Each cross-check holds of a sum if it holds of its terms.               *)

LEMMA SumIsConsistent ==
    ASSUME NEW t \in Tally, NEW d \in Tally, NEW u \in Tally, IsSum(u, t, d),
           Consistent(t), Consistent(d)
    PROVE  Consistent(u)
  <1>0. /\ Naturals(t) /\ Naturals(d) /\ Naturals(u)
        /\ SumsAdd(u, t, d) /\ StagesAdd(u, t, d) /\ CodesAdd(u, t, d)
    BY TallyIsNatural, SumAdds
  <1>1. CodesFitStages(u)
    <2>1. CodesFitStages(t) /\ CodesFitStages(d)
      BY DEF Consistent
    <2> QED BY <2>1, <1>0, SMTT(30) DEF CodesFitStages, FrontendCodes, RealizerCodes, RejectionCodes, StagesAdd, CodesAdd, SumsAdd, Naturals
  <1>2. PopulationsFit(u)
    <2>1. PopulationsFit(t) /\ PopulationsFit(d)
      BY DEF Consistent
    <2> QED BY <2>1, <1>0 DEF PopulationsFit, RealizerPopulation, ValidatorPopulation, SumsAdd, StagesAdd, Naturals
  <1>3. RealizerCountsFit(u)
    <2>1. RealizerCountsFit(t) /\ RealizerCountsFit(d)
      BY DEF Consistent
    <2>2. /\ ValidatorPopulation(u) = ValidatorPopulation(t) + ValidatorPopulation(d)
          /\ ValidatorPopulation(t) \in Int /\ ValidatorPopulation(d) \in Int
      BY <1>0 DEF RealizerPopulation, ValidatorPopulation, SumsAdd, StagesAdd, Naturals
    <2>3. /\ u.sum["grammar"] >= ValidatorPopulation(u) /\ u.sum["eos"] >= ValidatorPopulation(u)
      BY <2>1, <2>2, <1>0 DEF RealizerCountsFit, SumsAdd, Naturals
    <2>4. u.sum["exactPlan"] <= u.sum["grammar"] /\ u.sum["exactPlan"] <= u.sum["eos"]
      BY <2>1, <1>0 DEF RealizerCountsFit, SumsAdd, Naturals
    <2>5. u.sum["rejections"] <= u.stage["realizer"]
      BY <2>1, <1>0 DEF RealizerCountsFit, SumsAdd, StagesAdd, Naturals
    <2>6. u.stage["realizer"] = 0 => u.sum["unauthorized"] = 0
      <3>1. u.stage["realizer"] = t.stage["realizer"] + d.stage["realizer"]
            /\ t.stage["realizer"] \in Nat /\ d.stage["realizer"] \in Nat
        BY <1>0 DEF StagesAdd, Naturals
      <3>2. u.sum["unauthorized"] = t.sum["unauthorized"] + d.sum["unauthorized"]
        BY <1>0 DEF SumsAdd
      <3>3. /\ t.stage["realizer"] = 0 => t.sum["unauthorized"] = 0
            /\ d.stage["realizer"] = 0 => d.sum["unauthorized"] = 0
        BY <2>1 DEF RealizerCountsFit
      <3> QED BY <3>1, <3>2, <3>3
    <2> QED BY <2>3, <2>4, <2>5, <2>6 DEF RealizerCountsFit
  <1>4. ValidatorCountsFit(u)
    <2>1. ValidatorCountsFit(t) /\ ValidatorCountsFit(d)
      BY DEF Consistent
    <2>3. /\ ValidatorPopulation(u) = ValidatorPopulation(t) + ValidatorPopulation(d)
          /\ ValidatorPopulation(t) \in Int /\ ValidatorPopulation(d) \in Int
      BY <1>0 DEF RealizerPopulation, ValidatorPopulation, SumsAdd, StagesAdd, Naturals
    <2>4. /\ u.sum["accepted"] = t.sum["accepted"] + d.sum["accepted"] /\ t.sum["accepted"] \in Nat /\ d.sum["accepted"] \in Nat
          /\ u.sum["rejected"] = t.sum["rejected"] + d.sum["rejected"] /\ t.sum["rejected"] \in Nat /\ d.sum["rejected"] \in Nat
          /\ u.sum["falseAccepts"] = t.sum["falseAccepts"] + d.sum["falseAccepts"] /\ t.sum["falseAccepts"] \in Nat /\ d.sum["falseAccepts"] \in Nat
          /\ u.sum["goldRejections"] = t.sum["goldRejections"] + d.sum["goldRejections"] /\ t.sum["goldRejections"] \in Nat /\ d.sum["goldRejections"] \in Nat
          /\ u.stage["validator"] = t.stage["validator"] + d.stage["validator"] /\ t.stage["validator"] \in Nat /\ d.stage["validator"] \in Nat
      BY <1>0 DEF SumsAdd, StagesAdd, Naturals
    <2> QED BY <2>1, <2>3, <2>4, SMTT(30) DEF ValidatorCountsFit
  <1>5. CodesFitEvents(u)
    <2>1. CodesFitEvents(t) /\ CodesFitEvents(d)
      BY DEF Consistent
    <2> QED BY <2>1, <1>0 DEF CodesFitEvents, SumsAdd, CodesAdd, Naturals
  <1>6. ValidatorCodesFit(u)
    <2>1. ValidatorCodesFit(t) /\ ValidatorCodesFit(d)
      BY DEF Consistent
    <2> QED BY <2>1, <1>0 DEF ValidatorCodesFit, RejectionCodes, SumsAdd, StagesAdd, CodesAdd, Naturals
  <1>7. ExactWithoutFailures(u)
    <2>1. ExactWithoutFailures(t) /\ ExactWithoutFailures(d)
      BY DEF Consistent
    <2> QED BY <2>1, <1>0 DEF ExactWithoutFailures, SumsAdd, StagesAdd, Naturals
  <1>8. RatesAreRates(u)
    <2>1. RatesAreRates(t) /\ RatesAreRates(d)
      BY DEF Consistent
    <2> QED BY <2>1, <1>0 DEF RatesAreRates, SumsAdd, StagesAdd, Naturals
  <1> QED BY <1>1, <1>2, <1>3, <1>4, <1>5, <1>6, <1>7, <1>8 DEF Consistent

(* The tally of a record that its schema accepts passes every cross-check, *)
(* whichever stage it fails in.                                            *)
LEMMA OneIsConsistent ==
    ASSUME NEW code \in FailureCode \cup {NoCode}, NEW o \in Outcome, NEW gold \in Gold,
           ValidRecord(code, o, gold)
    PROVE  Consistent(One(code, o, gold))
  <1> DEFINE f == o.frontend  r == o.realizer  v == o.validator
             d == One(code, o, gold)  stage == FailureStage(o, gold)
  <1>1. /\ d.sum["records"] = 1
        /\ d.sum["schema"] = Bit(f.schema)
        /\ d.sum["fields"] = gold.fields
        /\ d.sum["predicted"] = f.predicted
        /\ d.sum["matched"] = f.matched
        /\ d.sum["nodes"] = f.nodes
        /\ d.sum["hallucinated"] = f.hallucinated
        /\ d.sum["ambiguities"] = gold.ambiguities
        /\ d.sum["preserved"] = f.preserved
        /\ d.sum["spans"] = gold.spans
        /\ d.sum["exactSpans"] = f.exact
        /\ d.sum["overlapping"] = f.overlapping
        /\ d.sum["attempts"] = Bit(r.status # "not_run")
        /\ d.sum["exactPlan"] = Bit(r.exact)
        /\ d.sum["grammar"] = Bit(r.grammar)
        /\ d.sum["eos"] = Bit(r.eos)
        /\ d.sum["symbols"] = r.symbols
        /\ d.sum["unauthorized"] = r.unauthorized
        /\ d.sum["rejections"] = Bit(r.rejected)
        /\ d.sum["validated"] = Bit(v.status # "not_run")
        /\ d.sum["accepted"] = Bit(v.status = "accepted")
        /\ d.sum["rejected"] = Bit(v.status = "rejected")
        /\ d.sum["falseAccepts"] = Bit(v.status = "accepted" /\ ~gold.accepts)
        /\ d.sum["goldRejections"] = Bit(v.status # "not_run" /\ ~gold.accepts)
    BY DEF One, Contribution, FalseAccept
  <1>2. /\ d.stage["none"] = Bit(stage = "none")
        /\ d.stage["frontend"] = Bit(stage = "frontend")
        /\ d.stage["realizer"] = Bit(stage = "realizer")
        /\ d.stage["validator"] = Bit(stage = "validator")
    BY DEF One, Stage, Bit
  <1>3. /\ d.code["schema_invalid"] = Bit(code = "schema_invalid")
        /\ d.code["required_field_omission"] = Bit(code = "required_field_omission")
        /\ d.code["source_span_mismatch"] = Bit(code = "source_span_mismatch")
        /\ d.code["hallucinated_node"] = Bit(code = "hallucinated_node")
        /\ d.code["ambiguity_not_preserved"] = Bit(code = "ambiguity_not_preserved")
        /\ d.code["unauthorized_symbol"] = Bit(code = "unauthorized_symbol")
        /\ d.code["incomplete_eos"] = Bit(code = "incomplete_eos")
        /\ d.code["grammar_invalid"] = Bit(code = "grammar_invalid")
        /\ d.code["constraint_rejection"] = Bit(code = "constraint_rejection")
        /\ d.code["semantic"] = Bit(code = "semantic")
        /\ d.code["lexical"] = Bit(code = "lexical")
        /\ d.code["structural"] = Bit(code = "structural")
        /\ d.code["false_accept"] = Bit(code = "false_accept")
    BY DEF One, FailureCode, FrontendCode, RealizerCode, ValidatorCode, Bit
  <1>4. /\ f.status \in {"succeeded", "failed"} /\ f.schema \in BOOLEAN
        /\ f.predicted \in Nat /\ f.matched \in Nat /\ f.nodes \in Nat /\ f.hallucinated \in Nat
        /\ f.preserved \in Nat /\ f.exact \in Nat /\ f.overlapping \in Nat
        /\ BoundedCounts(f, gold)
    BY DEF Outcome, Frontend, ValidRecord, Observed
  <1>5. /\ r.status \in {"succeeded", "failed", "not_run"}
        /\ r.exact \in BOOLEAN /\ r.grammar \in BOOLEAN /\ r.eos \in BOOLEAN /\ r.rejected \in BOOLEAN
        /\ r.symbols \in Nat /\ r.unauthorized \in Nat
        /\ StatusControlsMeasurements(r)
    BY DEF Outcome, Realizer, ValidRecord, Observed
  <1>6. /\ v.status \in {"accepted", "rejected", "not_run"}
        /\ r.status = "not_run" <=> f.status = "failed"
        /\ v.status = "not_run" <=> r.status # "succeeded"
    BY DEF Outcome, Validator, ValidRecord, CausallyOrdered
  <1>7. /\ gold.fields \in Nat /\ gold.ambiguities \in Nat /\ gold.spans \in Nat
        /\ gold.accepts \in BOOLEAN
    BY DEF Gold
  <1>8. code \in CodesOf(stage) /\ Shows(code, o, gold)
    BY DEF ValidRecord, Admissible

  <1> HIDE DEF f, r, v, d, stage
  <1>9. Naturals(d)
    BY OneIsTally, TallyIsNatural DEF d
  <1>10. /\ d.sum["records"] = 1 /\ d.sum["schema"] <= 1
         /\ d.sum["matched"] <= d.sum["fields"] /\ d.sum["matched"] <= d.sum["predicted"]
         /\ d.sum["hallucinated"] <= d.sum["nodes"]
         /\ d.sum["preserved"] <= d.sum["ambiguities"]
         /\ d.sum["exactSpans"] <= d.sum["overlapping"] /\ d.sum["overlapping"] <= d.sum["spans"]
    BY <1>1, <1>4, <1>7 DEF Bit, BoundedCounts

  <1>11. CASE f.status = "failed"
    <2>1. /\ stage = "frontend" /\ r = NoAttempt /\ v.status = "not_run"
          /\ code \in FrontendCode
          /\ code = "schema_invalid" => ~f.schema
          /\ code = "required_field_omission" => f.matched < gold.fields
          /\ code = "source_span_mismatch" => f.exact < gold.spans
          /\ code = "hallucinated_node" => f.hallucinated > 0
          /\ code = "ambiguity_not_preserved" => f.preserved < gold.ambiguities
      BY <1>11, <1>4, <1>5, <1>6, <1>7, <1>8 DEF f, r, v, stage, FailureStage, CodesOf,
         FrontendCode, RealizerCode, ValidatorCode, NoCode, Shows, FalseAccept,
         FalseRejection, StandaloneRejection, WellFormed, StatusControlsMeasurements,
         NoAttempt, BoundedCounts, PassesEveryBoundary
    <2>2. /\ d.stage["none"] = 0
          /\ d.stage["frontend"] = 1
          /\ d.stage["realizer"] = 0
          /\ d.stage["validator"] = 0
      BY <1>2, <2>1 DEF Bit
    <2>3. /\ d.code["unauthorized_symbol"] = 0
          /\ d.code["incomplete_eos"] = 0
          /\ d.code["grammar_invalid"] = 0
          /\ d.code["constraint_rejection"] = 0
          /\ d.code["semantic"] = 0
          /\ d.code["lexical"] = 0
          /\ d.code["structural"] = 0
          /\ d.code["false_accept"] = 0
      BY <1>3, <2>1 DEF Bit, FrontendCode
    <2>4. /\ d.code["schema_invalid"] + d.code["required_field_omission"] + d.code["source_span_mismatch"] + d.code["hallucinated_node"] + d.code["ambiguity_not_preserved"] = 1
      BY <1>3, <2>1 DEF Bit, FrontendCode
    <2>5. /\ d.code["schema_invalid"] <= 1 - d.sum["schema"]
          /\ d.code["required_field_omission"] <= d.sum["fields"] - d.sum["matched"]
          /\ d.code["source_span_mismatch"] <= d.sum["spans"] - d.sum["exactSpans"]
          /\ d.code["hallucinated_node"] <= d.sum["hallucinated"]
          /\ d.code["ambiguity_not_preserved"] <= d.sum["ambiguities"] - d.sum["preserved"]
      BY <1>1, <1>3, <1>4, <1>7, <2>1 DEF Bit, BoundedCounts
    <2>6. /\ d.sum["attempts"] = 0
          /\ d.sum["exactPlan"] = 0
          /\ d.sum["grammar"] = 0
          /\ d.sum["eos"] = 0
          /\ d.sum["symbols"] = 0
          /\ d.sum["unauthorized"] = 0
          /\ d.sum["rejections"] = 0
      BY <1>1, <2>1 DEF Bit, NoAttempt
    <2>7. /\ d.sum["validated"] = 0
          /\ d.sum["accepted"] = 0
          /\ d.sum["rejected"] = 0
          /\ d.sum["falseAccepts"] = 0
          /\ d.sum["goldRejections"] = 0
      BY <1>1, <2>1 DEF Bit
    <2>8. CodesFitStages(d)
      BY <2>2, <2>3, <2>4, <2>5, <2>6, <2>7, <1>9, <1>10 DEF CodesFitStages,
         FrontendCodes, RealizerCodes, RejectionCodes, Naturals
    <2>9. PopulationsFit(d)
      BY <2>2, <2>3, <2>4, <2>5, <2>6, <2>7, <1>9, <1>10 DEF PopulationsFit,
         RealizerPopulation, ValidatorPopulation, Naturals
    <2>10. RealizerCountsFit(d)
      BY <2>2, <2>3, <2>4, <2>5, <2>6, <2>7, <1>9, <1>10 DEF RealizerCountsFit,
         RealizerPopulation, ValidatorPopulation, Naturals
    <2>11. ValidatorCountsFit(d)
      BY <2>2, <2>7, <1>9, <1>10 DEF ValidatorCountsFit, RealizerPopulation,
         ValidatorPopulation, Naturals
    <2>12. CodesFitEvents(d)
      BY <2>2, <2>3, <2>4, <2>5, <2>6, <2>7, <1>9, <1>10 DEF CodesFitEvents, Naturals
    <2>13. ValidatorCodesFit(d)
      BY <2>2, <2>3, <2>4, <2>5, <2>6, <2>7, <1>9, <1>10 DEF ValidatorCodesFit,
         RejectionCodes, Naturals
    <2>14. ExactWithoutFailures(d)
      BY <2>2, <2>3, <2>4, <2>5, <2>6, <2>7, <1>9, <1>10 DEF ExactWithoutFailures, Naturals
    <2>15. RatesAreRates(d)
      BY <2>2, <2>3, <2>4, <2>5, <2>6, <2>7, <1>9, <1>10 DEF RatesAreRates, Naturals
    <2> QED BY <2>8, <2>9, <2>10, <2>11, <2>12, <2>13, <2>14, <2>15 DEF Consistent, d
  <1>12. CASE f.status = "succeeded" /\ r.status = "failed"
    <2>1. /\ stage = "realizer" /\ v.status = "not_run"
          /\ PassesEveryBoundary(f, gold)
          /\ code \in RealizerCode
          /\ code = "unauthorized_symbol" => r.unauthorized > 0
          /\ code = "incomplete_eos" => ~r.eos
          /\ code = "grammar_invalid" => ~r.grammar
          /\ code = "constraint_rejection" => r.rejected
      BY <1>12, <1>4, <1>5, <1>6, <1>7, <1>8 DEF f, r, v, stage, FailureStage, CodesOf,
         FrontendCode, RealizerCode, ValidatorCode, NoCode, Shows, FalseAccept,
         FalseRejection, StandaloneRejection, WellFormed, StatusControlsMeasurements,
         NoAttempt, BoundedCounts, PassesEveryBoundary
    <2>2. /\ d.stage["none"] = 0
          /\ d.stage["frontend"] = 0
          /\ d.stage["realizer"] = 1
          /\ d.stage["validator"] = 0
      BY <1>2, <2>1 DEF Bit
    <2>3. /\ d.code["schema_invalid"] = 0
          /\ d.code["required_field_omission"] = 0
          /\ d.code["source_span_mismatch"] = 0
          /\ d.code["hallucinated_node"] = 0
          /\ d.code["ambiguity_not_preserved"] = 0
          /\ d.code["semantic"] = 0
          /\ d.code["lexical"] = 0
          /\ d.code["structural"] = 0
          /\ d.code["false_accept"] = 0
      BY <1>3, <2>1 DEF Bit, RealizerCode
    <2>4. /\ d.code["unauthorized_symbol"] + d.code["incomplete_eos"] + d.code["grammar_invalid"] + d.code["constraint_rejection"] = 1
      BY <1>3, <2>1 DEF Bit, RealizerCode
    <2>5. /\ d.sum["schema"] = 1
          /\ d.sum["matched"] = d.sum["fields"]
          /\ d.sum["predicted"] = d.sum["fields"]
          /\ d.sum["hallucinated"] = 0
          /\ d.sum["preserved"] = d.sum["ambiguities"]
          /\ d.sum["exactSpans"] = d.sum["spans"]
          /\ d.sum["overlapping"] = d.sum["spans"]
      BY <1>1, <1>4, <1>7, <2>1 DEF Bit, BoundedCounts, PassesEveryBoundary
    <2>6. /\ d.sum["attempts"] = 1
          /\ d.sum["rejections"] <= 1
          /\ d.sum["grammar"] <= 1
          /\ d.sum["eos"] <= 1
          /\ d.sum["exactPlan"] <= d.sum["grammar"]
          /\ d.sum["exactPlan"] <= d.sum["eos"]
          /\ d.sum["unauthorized"] <= d.sum["symbols"]
      BY <1>1, <1>5, <1>12 DEF Bit, StatusControlsMeasurements, WellFormed
    <2>7. /\ d.code["unauthorized_symbol"] <= d.sum["unauthorized"]
          /\ d.code["incomplete_eos"] <= 1 - d.sum["eos"]
          /\ d.code["grammar_invalid"] <= 1 - d.sum["grammar"]
          /\ d.code["constraint_rejection"] <= d.sum["rejections"]
      BY <1>1, <1>3, <1>5, <2>1 DEF Bit
    <2>8. /\ d.sum["validated"] = 0
          /\ d.sum["accepted"] = 0
          /\ d.sum["rejected"] = 0
          /\ d.sum["falseAccepts"] = 0
          /\ d.sum["goldRejections"] = 0
      BY <1>1, <2>1 DEF Bit
    <2>9. CodesFitStages(d)
      BY <2>2, <2>3, <2>4, <2>5, <2>6, <2>7, <2>8, <1>9, <1>10 DEF CodesFitStages,
         FrontendCodes, RealizerCodes, RejectionCodes, Naturals
    <2>10. PopulationsFit(d)
      BY <2>2, <2>3, <2>4, <2>5, <2>6, <2>7, <2>8, <1>9, <1>10 DEF PopulationsFit,
         RealizerPopulation, ValidatorPopulation, Naturals
    <2>11. RealizerCountsFit(d)
      BY <2>2, <2>3, <2>4, <2>5, <2>6, <2>7, <2>8, <1>9, <1>10 DEF RealizerCountsFit,
         RealizerPopulation, ValidatorPopulation, Naturals
    <2>12. ValidatorCountsFit(d)
      BY <2>2, <2>8, <1>9, <1>10 DEF ValidatorCountsFit, RealizerPopulation,
         ValidatorPopulation, Naturals
    <2>13. CodesFitEvents(d)
      BY <2>2, <2>3, <2>4, <2>5, <2>6, <2>7, <2>8, <1>9, <1>10 DEF CodesFitEvents, Naturals
    <2>14. ValidatorCodesFit(d)
      BY <2>2, <2>3, <2>4, <2>5, <2>6, <2>7, <2>8, <1>9, <1>10 DEF ValidatorCodesFit,
         RejectionCodes, Naturals
    <2>15. ExactWithoutFailures(d)
      BY <2>2, <2>3, <2>4, <2>5, <2>6, <2>7, <2>8, <1>9, <1>10 DEF ExactWithoutFailures,
         Naturals
    <2>16. RatesAreRates(d)
      BY <2>2, <2>3, <2>4, <2>5, <2>6, <2>7, <2>8, <1>9, <1>10 DEF RatesAreRates, Naturals
    <2> QED BY <2>9, <2>10, <2>11, <2>12, <2>13, <2>14, <2>15, <2>16 DEF Consistent, d
  <1>13. CASE f.status = "succeeded" /\ r.status = "succeeded" /\ stage = "validator"
    <2>1. /\ PassesEveryBoundary(f, gold) /\ WellFormed(r) /\ ~r.rejected
          /\ \/ v.status = "accepted" /\ ~gold.accepts /\ code = "false_accept"
             \/ v.status = "rejected" /\ gold.accepts /\ code \in {"semantic", "lexical", "structural"}
      BY <1>13, <1>4, <1>5, <1>6, <1>7, <1>8 DEF f, r, v, stage, FailureStage, CodesOf,
         FrontendCode, RealizerCode, ValidatorCode, NoCode, Shows, FalseAccept,
         FalseRejection, StandaloneRejection, WellFormed, StatusControlsMeasurements,
         NoAttempt, BoundedCounts, PassesEveryBoundary
    <2>2. /\ d.stage["none"] = 0
          /\ d.stage["frontend"] = 0
          /\ d.stage["realizer"] = 0
          /\ d.stage["validator"] = 1
      BY <1>2, <1>13 DEF Bit
    <2>3. /\ d.code["schema_invalid"] = 0
          /\ d.code["required_field_omission"] = 0
          /\ d.code["source_span_mismatch"] = 0
          /\ d.code["hallucinated_node"] = 0
          /\ d.code["ambiguity_not_preserved"] = 0
          /\ d.code["unauthorized_symbol"] = 0
          /\ d.code["incomplete_eos"] = 0
          /\ d.code["grammar_invalid"] = 0
          /\ d.code["constraint_rejection"] = 0
      BY <1>3, <2>1 DEF Bit
    <2>4. /\ d.sum["schema"] = 1
          /\ d.sum["matched"] = d.sum["fields"]
          /\ d.sum["predicted"] = d.sum["fields"]
          /\ d.sum["hallucinated"] = 0
          /\ d.sum["preserved"] = d.sum["ambiguities"]
          /\ d.sum["exactSpans"] = d.sum["spans"]
          /\ d.sum["overlapping"] = d.sum["spans"]
      BY <1>1, <1>4, <1>7, <2>1 DEF Bit, BoundedCounts, PassesEveryBoundary
    <2>5. /\ d.sum["attempts"] = 1
          /\ d.sum["grammar"] = 1
          /\ d.sum["eos"] = 1
          /\ d.sum["unauthorized"] = 0
          /\ d.sum["rejections"] = 0
          /\ d.sum["exactPlan"] <= 1
          /\ d.sum["unauthorized"] <= d.sum["symbols"]
      BY <1>1, <1>5, <1>13, <2>1 DEF Bit, StatusControlsMeasurements, WellFormed
    <2>6. /\ d.code["semantic"] + d.code["lexical"] + d.code["structural"] + d.code["false_accept"] = 1
          /\ d.code["false_accept"] = d.sum["falseAccepts"]
      BY <1>1, <1>3, <2>1 DEF Bit
    <2>7. /\ d.sum["validated"] = 1
          /\ d.sum["accepted"] + d.sum["rejected"] = 1
          /\ d.sum["falseAccepts"] = d.sum["accepted"]
          /\ d.sum["goldRejections"] = d.sum["accepted"]
      BY <1>1, <2>1 DEF Bit
    <2>8. CodesFitStages(d)
      BY <2>2, <2>3, <2>4, <2>5, <2>6, <2>7, <1>9, <1>10 DEF CodesFitStages,
         FrontendCodes, RealizerCodes, RejectionCodes, Naturals
    <2>9. PopulationsFit(d)
      BY <2>2, <2>3, <2>4, <2>5, <2>6, <2>7, <1>9, <1>10 DEF PopulationsFit,
         RealizerPopulation, ValidatorPopulation, Naturals
    <2>10. RealizerCountsFit(d)
      BY <2>2, <2>3, <2>4, <2>5, <2>6, <2>7, <1>9, <1>10 DEF RealizerCountsFit,
         RealizerPopulation, ValidatorPopulation, Naturals
    <2>11. ValidatorCountsFit(d)
      BY <2>2, <2>7, <1>9, <1>10 DEF ValidatorCountsFit, RealizerPopulation,
         ValidatorPopulation, Naturals
    <2>12. CodesFitEvents(d)
      BY <2>2, <2>3, <2>4, <2>5, <2>6, <2>7, <1>9, <1>10 DEF CodesFitEvents, Naturals
    <2>13. ValidatorCodesFit(d)
      BY <2>2, <2>3, <2>4, <2>5, <2>6, <2>7, <1>9, <1>10 DEF ValidatorCodesFit,
         RejectionCodes, Naturals
    <2>14. ExactWithoutFailures(d)
      BY <2>2, <2>3, <2>4, <2>5, <2>6, <2>7, <1>9, <1>10 DEF ExactWithoutFailures, Naturals
    <2>15. RatesAreRates(d)
      BY <2>2, <2>3, <2>4, <2>5, <2>6, <2>7, <1>9, <1>10 DEF RatesAreRates, Naturals
    <2> QED BY <2>8, <2>9, <2>10, <2>11, <2>12, <2>13, <2>14, <2>15 DEF Consistent, d
  <1>14. CASE f.status = "succeeded" /\ r.status = "succeeded" /\ stage # "validator"
    <2>1. /\ stage = "none" /\ PassesEveryBoundary(f, gold) /\ WellFormed(r) /\ ~r.rejected
          /\ code = NoCode
          /\ v.status = (IF gold.accepts THEN "accepted" ELSE "rejected")
      BY <1>14, <1>4, <1>5, <1>6, <1>7, <1>8 DEF f, r, v, stage, FailureStage, CodesOf,
         FrontendCode, RealizerCode, ValidatorCode, NoCode, Shows, FalseAccept,
         FalseRejection, StandaloneRejection, WellFormed, StatusControlsMeasurements,
         NoAttempt, BoundedCounts, PassesEveryBoundary
    <2>2. /\ d.stage["none"] = 1
          /\ d.stage["frontend"] = 0
          /\ d.stage["realizer"] = 0
          /\ d.stage["validator"] = 0
      BY <1>2, <2>1 DEF Bit
    <2>3. /\ d.code["schema_invalid"] = 0
          /\ d.code["required_field_omission"] = 0
          /\ d.code["source_span_mismatch"] = 0
          /\ d.code["hallucinated_node"] = 0
          /\ d.code["ambiguity_not_preserved"] = 0
          /\ d.code["unauthorized_symbol"] = 0
          /\ d.code["incomplete_eos"] = 0
          /\ d.code["grammar_invalid"] = 0
          /\ d.code["constraint_rejection"] = 0
          /\ d.code["semantic"] = 0
          /\ d.code["lexical"] = 0
          /\ d.code["structural"] = 0
          /\ d.code["false_accept"] = 0
      BY <1>3, <2>1 DEF Bit, NoCode
    <2>4. /\ d.sum["schema"] = 1
          /\ d.sum["matched"] = d.sum["fields"]
          /\ d.sum["predicted"] = d.sum["fields"]
          /\ d.sum["hallucinated"] = 0
          /\ d.sum["preserved"] = d.sum["ambiguities"]
          /\ d.sum["exactSpans"] = d.sum["spans"]
          /\ d.sum["overlapping"] = d.sum["spans"]
      BY <1>1, <1>4, <1>7, <2>1 DEF Bit, BoundedCounts, PassesEveryBoundary
    <2>5. /\ d.sum["attempts"] = 1
          /\ d.sum["grammar"] = 1
          /\ d.sum["eos"] = 1
          /\ d.sum["unauthorized"] = 0
          /\ d.sum["rejections"] = 0
          /\ d.sum["exactPlan"] <= 1
          /\ d.sum["unauthorized"] <= d.sum["symbols"]
      BY <1>1, <1>5, <1>14, <2>1 DEF Bit, StatusControlsMeasurements, WellFormed
    <2>6. /\ d.sum["validated"] = 1
          /\ d.sum["accepted"] + d.sum["rejected"] = 1
          /\ d.sum["falseAccepts"] = 0
          /\ d.sum["goldRejections"] = d.sum["rejected"]
      BY <1>1, <1>7, <2>1 DEF Bit
    <2>7. CodesFitStages(d)
      BY <2>2, <2>3, <2>4, <2>5, <2>6, <1>9, <1>10 DEF CodesFitStages, FrontendCodes,
         RealizerCodes, RejectionCodes, Naturals
    <2>8. PopulationsFit(d)
      BY <2>2, <2>3, <2>4, <2>5, <2>6, <1>9, <1>10 DEF PopulationsFit, RealizerPopulation,
         ValidatorPopulation, Naturals
    <2>9. RealizerCountsFit(d)
      BY <2>2, <2>3, <2>4, <2>5, <2>6, <1>9, <1>10 DEF RealizerCountsFit,
         RealizerPopulation, ValidatorPopulation, Naturals
    <2>10. ValidatorCountsFit(d)
      BY <2>2, <2>6, <1>9, <1>10 DEF ValidatorCountsFit, RealizerPopulation,
         ValidatorPopulation, Naturals
    <2>11. CodesFitEvents(d)
      BY <2>2, <2>3, <2>4, <2>5, <2>6, <1>9, <1>10 DEF CodesFitEvents, Naturals
    <2>12. ValidatorCodesFit(d)
      BY <2>2, <2>3, <2>4, <2>5, <2>6, <1>9, <1>10 DEF ValidatorCodesFit, RejectionCodes,
         Naturals
    <2>13. ExactWithoutFailures(d)
      BY <2>2, <2>3, <2>4, <2>5, <2>6, <1>9, <1>10 DEF ExactWithoutFailures, Naturals
    <2>14. RatesAreRates(d)
      BY <2>2, <2>3, <2>4, <2>5, <2>6, <1>9, <1>10 DEF RatesAreRates, Naturals
    <2> QED BY <2>7, <2>8, <2>9, <2>10, <2>11, <2>12, <2>13, <2>14 DEF Consistent, d
  <1> QED BY <1>4, <1>5, <1>6, <1>11, <1>12, <1>13, <1>14 DEF d, f, r, v, stage

----------------------------------------------------------------------------
(* The reading of the file.                                                *)

TypeOK ==
    /\ case \in 1..(Cases + 1) /\ system \in 1..Systems
    /\ contract \in Contracts
    /\ outcome = Pending \/ /\ outcome.observed \in Observations /\ outcome.gold \in Contracts
    /\ tally \in [1..Systems -> Tally]
    /\ result \in {"open", "reading", "metrics", "published", "refused", "unrecorded",
                   "inconsistent"}

(* The systems before the next one have one record more.                   *)
LinesInOrder ==
    /\ \A s \in 1..Systems :
         tally[s].sum["records"] = IF s < system THEN case ELSE case - 1
    /\ case = Cases + 1 => system = 1
    /\ result \in {"metrics", "published", "inconsistent"} => case > Cases

AllConsistent == \A s \in 1..Systems : Consistent(tally[s])

(* What the gold contracts of a system sum up to.                          *)
SameGold(s, r) ==
    /\ tally[s].sum["fields"] = tally[r].sum["fields"]
    /\ tally[s].sum["ambiguities"] = tally[r].sum["ambiguities"]
    /\ tally[s].sum["spans"] = tally[r].sum["spans"]

(* The systems whose record of this case was read have its contract added. *)
ContractAhead(s, r) ==
    /\ tally[s].sum["fields"] = tally[r].sum["fields"] + contract.fields
    /\ tally[s].sum["ambiguities"] = tally[r].sum["ambiguities"] + contract.ambiguities
    /\ tally[s].sum["spans"] = tally[r].sum["spans"] + contract.spans

GoldInStep ==
    \A s, r \in 1..Systems :
      /\ (s < system <=> r < system) => SameGold(s, r)
      /\ s < system /\ r >= system => ContractAhead(s, r)

IInv == TypeOK /\ LinesInOrder /\ AllConsistent /\ GoldInStep /\ ComputedMetricsAreAccepted

LEMMA ZeroIsConsistent == Zero \in Tally /\ Consistent(Zero)
  <1>1. Zero \in Tally
    BY DEF Zero, Tally
  <1>2. /\ \A c \in Counter : Zero.sum[c] = 0
        /\ \A s \in Stage : Zero.stage[s] = 0
        /\ \A c \in FailureCode : Zero.code[c] = 0
    BY DEF Zero
  <1>3. CodesFitStages(Zero)
    BY <1>2 DEF CodesFitStages, FrontendCodes, RealizerCodes, RejectionCodes, Counter, Stage,
       FailureCode, FrontendCode, RealizerCode, ValidatorCode
  <1>4. PopulationsFit(Zero) /\ RealizerCountsFit(Zero) /\ ValidatorCountsFit(Zero)
    BY <1>2 DEF PopulationsFit, RealizerCountsFit, ValidatorCountsFit, RealizerPopulation,
       ValidatorPopulation, Counter, Stage
  <1>5. CodesFitEvents(Zero) /\ ValidatorCodesFit(Zero)
    BY <1>2 DEF CodesFitEvents, ValidatorCodesFit, RejectionCodes, Counter, Stage,
       FailureCode, FrontendCode, RealizerCode, ValidatorCode
  <1>6. ExactWithoutFailures(Zero) /\ RatesAreRates(Zero)
    BY <1>2 DEF ExactWithoutFailures, RatesAreRates, Counter, Stage
  <1> QED BY <1>1, <1>3, <1>4, <1>5, <1>6 DEF Consistent

(* What a recorded line adds to the tally of its system.                   *)
LEMMA LineAdds ==
    ASSUME NEW t \in Tally, NEW code \in FailureCode \cup {NoCode}, NEW o \in Outcome,
           NEW gold \in Gold, ValidRecord(code, o, gold), Consistent(t)
    PROVE  LET u == Add(t, code, o, gold) IN
           /\ u \in Tally /\ Consistent(u)
           /\ u.sum["records"] = t.sum["records"] + 1
           /\ u.sum["fields"] = t.sum["fields"] + gold.fields
           /\ u.sum["ambiguities"] = t.sum["ambiguities"] + gold.ambiguities
           /\ u.sum["spans"] = t.sum["spans"] + gold.spans
  <1> DEFINE d == One(code, o, gold)  u == Add(t, code, o, gold)
  <1>1. d \in Tally /\ u \in Tally /\ IsSum(u, t, d)
    BY OneIsTally, AddIsSum
  <1>2. Consistent(d)
    BY OneIsConsistent
  <1>3. Consistent(u)
    BY <1>1, <1>2, SumIsConsistent
  <1>4. /\ d.sum["records"] = 1 /\ d.sum["fields"] = gold.fields
        /\ d.sum["ambiguities"] = gold.ambiguities /\ d.sum["spans"] = gold.spans
    BY DEF One, Contribution
  <1>5. SumsAdd(u, t, d)
    BY <1>1, SumAdds
  <1> QED BY <1>1, <1>3, <1>4, <1>5 DEF SumsAdd

LEMMA InitIInv == Init => IInv
  <1> SUFFICES ASSUME Init PROVE IInv
    OBVIOUS
  <1>1. /\ \A s \in 1..Systems : tally[s] = Zero
        /\ case = 1 /\ system = 1 /\ result = "open" /\ outcome = Pending
        /\ contract \in Contracts
    BY DEF Init
  <1>2. TypeOK
    BY <1>1, ZeroIsConsistent DEF TypeOK, Init
  <1>3. \A s \in 1..Systems : /\ tally[s].sum["records"] = 0 /\ tally[s].sum["fields"] = 0
                              /\ tally[s].sum["ambiguities"] = 0 /\ tally[s].sum["spans"] = 0
    BY <1>1 DEF Zero, Counter
  <1>4. LinesInOrder
    BY <1>1, <1>3 DEF LinesInOrder
  <1>5. AllConsistent
    BY <1>1, ZeroIsConsistent DEF AllConsistent
  <1>6. GoldInStep
    BY <1>1, <1>3 DEF GoldInStep, SameGold
  <1> QED BY <1>1, <1>2, <1>4, <1>5, <1>6 DEF IInv, ComputedMetricsAreAccepted

(* A line that is counted keeps the systems in step.                       *)
LEMMA CountLineKeeps ==
    ASSUME IInv, NEW code \in FailureCode \cup {NoCode}, CountLine(code)
    PROVE  IInv'
  <1> DEFINE o == outcome.observed  gold == outcome.gold  t == tally[system]
             u == Add(t, code, o, gold)
  <1>1. /\ o \in Outcome /\ gold \in Gold /\ gold \in Contracts /\ t \in Tally /\ Consistent(t)
        /\ ValidRecord(code, o, gold)
        /\ case \in 1..Cases /\ system \in 1..Systems /\ result = "reading"
    BY DEF IInv, TypeOK, CountLine, AllConsistent, Outcome
  <1>2. /\ u \in Tally /\ Consistent(u)
        /\ u.sum["records"] = t.sum["records"] + 1
        /\ u.sum["fields"] = t.sum["fields"] + gold.fields
        /\ u.sum["ambiguities"] = t.sum["ambiguities"] + gold.ambiguities
        /\ u.sum["spans"] = t.sum["spans"] + gold.spans
    BY <1>1, LineAdds
  <1>3. /\ tally \in [1..Systems -> Tally] /\ tally' = [tally EXCEPT ![system] = u]
        /\ contract' = gold /\ outcome' = Pending /\ result' = result
    BY DEF CountLine, IInv, TypeOK
  <1> HIDE DEF u, o, gold
  <1>4. /\ tally' \in [1..Systems -> Tally]
        /\ tally'[system] = u
        /\ \A s \in 1..Systems : s # system => tally'[s] = tally[s]
    BY <1>1, <1>2, <1>3
  <1>5. /\ system' = IF system = Systems THEN 1 ELSE system + 1
        /\ case' = IF system = Systems THEN case + 1 ELSE case
    BY DEF CountLine, NextPair
  <1>6. /\ case' \in 1..(Cases + 1) /\ system' \in 1..Systems
        /\ case' = Cases + 1 => system' = 1
    BY <1>1, <1>5
  <1>7. TypeOK'
    BY <1>1, <1>3, <1>4, <1>6 DEF TypeOK
  <1>8. LinesInOrder'
    <2>1. ASSUME NEW s \in 1..Systems
          PROVE  tally'[s].sum["records"] = IF s < system' THEN case' ELSE case' - 1
      <3>1. tally[s].sum["records"] = IF s < system THEN case ELSE case - 1
        BY DEF IInv, LinesInOrder
      <3>2. tally'[s].sum["records"] = IF s <= system THEN case ELSE case - 1
        BY <1>1, <1>2, <1>4, <3>1
      <3> QED BY <1>1, <1>5, <3>2
    <2> QED BY <1>1, <1>3, <1>6, <2>1 DEF LinesInOrder
  <1>9. AllConsistent'
    <2>1. \A s \in 1..Systems : Consistent(tally'[s])
      BY <1>2, <1>4 DEF IInv, AllConsistent
    <2> QED BY <2>1 DEF AllConsistent
  <1>10. GoldInStep'
    <2>1. \A s \in 1..Systems : s < system => contract = gold
      BY <1>1 DEF CountLine, AgreesOnGold, gold
    <2>2. ASSUME NEW s \in 1..Systems, NEW q \in 1..Systems, s <= system, q <= system
          PROVE  SameGold(s, q)'
      <3>1. /\ s # system /\ q # system => SameGold(s, q)
            /\ s # system => ContractAhead(s, system) /\ contract = gold
            /\ q # system => ContractAhead(q, system) /\ contract = gold
        BY <1>1, <2>1, <2>2 DEF IInv, GoldInStep
      <3>2. CASE s # system /\ q # system
        BY <1>4, <3>1, <3>2 DEF SameGold
      <3>3. CASE s # system /\ q = system
        BY <1>2, <1>4, <3>1, <3>3 DEF SameGold, ContractAhead
      <3>4. CASE s = system /\ q # system
        BY <1>2, <1>4, <3>1, <3>4 DEF SameGold, ContractAhead
      <3>5. CASE s = system /\ q = system
        BY <3>5 DEF SameGold
      <3> QED BY <3>2, <3>3, <3>4, <3>5
    <2>3. ASSUME NEW s \in 1..Systems, NEW q \in 1..Systems, s > system, q > system
          PROVE  SameGold(s, q)'
      <3>1. SameGold(s, q)
        BY <1>1, <2>3 DEF IInv, GoldInStep
      <3> QED BY <1>1, <1>4, <2>3, <3>1 DEF SameGold
    <2>4. ASSUME NEW s \in 1..Systems, NEW q \in 1..Systems, s <= system, q > system
          PROVE  ContractAhead(s, q)'
      <3>1. tally'[q] = tally[q]
        BY <1>1, <1>4, <2>4
      <3>2. CASE s = system
        <4>1. SameGold(system, q)
          BY <1>1, <2>4 DEF IInv, GoldInStep
        <4> QED BY <1>2, <1>3, <1>4, <3>1, <3>2, <4>1 DEF SameGold, ContractAhead
      <3>3. CASE s # system
        <4>1. ContractAhead(s, q) /\ contract = gold /\ tally'[s] = tally[s]
          BY <1>1, <1>4, <2>1, <2>4, <3>3 DEF IInv, GoldInStep
        <4> QED BY <1>3, <3>1, <4>1 DEF ContractAhead
      <3> QED BY <3>2, <3>3
    <2>5. CASE system = Systems
      BY <1>1, <1>5, <2>2, <2>5 DEF GoldInStep
    <2>6. CASE system # Systems
      BY <1>1, <1>5, <2>2, <2>3, <2>4, <2>6 DEF GoldInStep
    <2> QED BY <2>5, <2>6
  <1>11. ComputedMetricsAreAccepted'
    BY <1>1, <1>3 DEF ComputedMetricsAreAccepted
  <1> QED BY <1>7, <1>8, <1>9, <1>10, <1>11 DEF IInv

LEMMA NextIInv == IInv /\ [Next]_vars => IInv'
  <1> SUFFICES ASSUME IInv, [Next]_vars PROVE IInv'
    OBVIOUS
  <1> USE DEF IInv, TypeOK, LinesInOrder, AllConsistent, GoldInStep, SameGold, ContractAhead,
              ComputedMetricsAreAccepted
  <1>1. CASE BindInputs
    BY <1>1 DEF BindInputs
  <1>2. CASE Evaluate
    BY <1>2 DEF Evaluate
  <1>3. ASSUME NEW code \in FailureCode \cup {NoCode}, CountLine(code) PROVE IInv'
    BY <1>3, CountLineKeeps
  <1>4. CASE RefuseLine
    BY <1>4 DEF RefuseLine
  <1>5. CASE CannotRecord
    BY <1>5 DEF CannotRecord
  <1>6. CASE EndOfFile
    BY <1>6 DEF EndOfFile
  <1>7. CASE RecomputeMetrics
    <2>1. case = Cases + 1 /\ system = 1
      BY <1>7 DEF RecomputeMetrics
    <2>2. \A s \in 1..Systems : MetricsAccepted(tally[s])
      BY <2>1 DEF MetricsAccepted, Consistent
    <2> QED BY <1>7, <2>1, <2>2 DEF RecomputeMetrics
  <1>8. CASE UNCHANGED vars
    BY <1>8 DEF vars
  <1> QED BY <1>1, <1>2, <1>3, <1>4, <1>5, <1>6, <1>7, <1>8 DEF Next

(* IInv holds of every behaviour.                                          *)
THEOREM Inductive == Spec => []IInv
  BY InitIInv, NextIInv, PTL DEF Spec

(* The schema of the metrics (evidence.py, frozen_metric_inventory) never  *)
(* rejects what is computed from records that their own schema accepts,    *)
(* whatever the benchmark's size and whatever was observed.                *)
THEOREM MetricsFit == Spec => []ComputedMetricsAreAccepted
  <1>1. IInv => ComputedMetricsAreAccepted
    BY DEF IInv
  <1> QED BY <1>1, Inductive, PTL

(* The systems of a published report are measured against the same gold.   *)
THEOREM Comparable == Spec => []SystemsAreComparable
  <1>1. IInv => SystemsAreComparable
    <2> SUFFICES ASSUME IInv, result = "published", NEW s \in 1..Systems, NEW r \in 1..Systems,
                        NEW c \in {"records", "fields", "ambiguities", "spans"}
                 PROVE  tally[s].sum[c] = tally[r].sum[c]
      BY DEF SystemsAreComparable
    <2>1. case = Cases + 1 /\ system = 1
      BY DEF IInv, TypeOK, LinesInOrder
    <2>2. tally[s].sum["records"] = case - 1 /\ tally[r].sum["records"] = case - 1
      BY <2>1 DEF IInv, LinesInOrder
    <2>3. SameGold(s, r)
      BY <2>1 DEF IInv, GoldInStep
    <2> QED BY <2>2, <2>3 DEF SameGold
  <1> QED BY <1>1, Inductive, PTL

=============================================================================
