-------------------------- MODULE MCTrainingRun --------------------------
(* Small constructions, of four to six records, one departure each from one  *)
(* that can be built; most departures make it unacceptable.                  *)
EXTENDS TrainingRun, TLC

Entry(id, split, text, shape) ==
  [id |-> id, source |-> id, split |-> split, text |-> text,
   quotes |-> [n \in {"s1"} |-> text[1]], license |-> "MIT",
   document |-> [id |-> id, claims |-> <<"s1">>, shape |-> shape, terms |-> {"T1"}]]

MCFold == [t \in {"lamp", "LAMP", "fan", "on", "off", "nl"} |-> IF t = "LAMP" THEN "lamp" ELSE t]

Snapshot == [version |-> 1, terms |-> [t \in {"T1"} |-> "lamp"], spelled |-> "canonical"]
Respelled == [Snapshot EXCEPT !.spelled = "otherwise"]
MCResources == {Snapshot, Respelled, [Snapshot EXCEPT !.version = 2]}

Base ==
  [version |-> 1, license |-> "MIT", resources |-> Snapshot,
   records |-> <<Entry("r1", "train", <<"lamp", "on">>, {"condition"}),
                 Entry("r2", "validation", <<"fan", "on">>, {"condition"}),
                 Entry("r3", "test", <<"lamp", "nl", "off">>, {"hazard"}),
                 Entry("r4", "adversarial", <<"fan", "off">>, {"hazard", "reference"}),
                 Entry("r5", "train", <<"LAMP", "fan">>, {"condition", "reference"})>>]

MCConstructions ==
  LET Second == [Base EXCEPT !.version = 2]
  IN  {Base, Second,
       [Second EXCEPT !.records[5].split = "validation"],
       [Base EXCEPT !.records = SubSeq(@, 1, 4)],
       [Base EXCEPT !.records = Append(@, Entry("r6", "train", <<"on", "lamp">>, {"condition"}))],
       [Base EXCEPT !.resources = Respelled],
       [Base EXCEPT !.license = "BSD"],
       [Base EXCEPT !.records[5].split = "validation"],
       [Base EXCEPT !.records[2].split = "train"],
       [Base EXCEPT !.records[5].text = <<"LAMP", "on">>],
       [Base EXCEPT !.records[5].text = <<"LAMP", "off">>],
       [Base EXCEPT !.records[5].document.shape = {"hazard"}],
       [Base EXCEPT !.records[3].document.claims = <<"s1", "s2">>,
                    !.records[3].quotes = [n \in {"s1", "s2"} |-> "lamp"]],
       [Base EXCEPT !.records[3].quotes = [n \in {"s1"} |-> "off"]],
       [Base EXCEPT !.records[3].document.claims = <<"s1", "s1">>],
       [Base EXCEPT !.records[3].text = <<"lamp", "lamp">>],
       [Base EXCEPT !.records[3].document.terms = {"T2"}],
       [Base EXCEPT !.records[5].id = "r1"],
       [Base EXCEPT !.records[5].source = "r1"],
       [Base EXCEPT !.records[5].id = "r6"]}
MCCounts2 == [s \in Splits |-> IF s = "train" THEN 2 ELSE 1]

MCSymmetry == Permutations(Builders)

MCSchedules == {[steps |-> 1, accumulation |-> 2, size |-> 1, targets |-> {}],
                [steps |-> 1, accumulation |-> 3, size |-> 3, targets |-> {}],
                [steps |-> 2, accumulation |-> 1, size |-> 3, targets |-> {"q", "x"}],
                [steps |-> 2, accumulation |-> 1, size |-> 2, targets |-> {"q", "o", "v"}],
                [steps |-> 2, accumulation |-> 1, size |-> 1, targets |-> {"o", "v", "w"}],
                [steps |-> 2, accumulation |-> 2, size |-> 2, targets |-> {"q"}],
                [steps |-> 2, accumulation |-> 2, size |-> 1, targets |-> {"q", "v"}]}
MCModules == {<<"a", "q">>, <<"a", "v">>, <<"b", "q">>, <<"q", "o">>, <<"c", "w">>}
\* The constructions of five records are within the limits, those of six are not.
MCCapacity == [file |-> 5, total |-> 16]
MCRoom == [run |-> 8, config |-> 2, weights |-> 6]
MCLimits == [source |-> 2, target |-> 2, sequence |-> 3]
=============================================================================
