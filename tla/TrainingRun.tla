--------------------------- MODULE TrainingRun ---------------------------
(***************************************************************************)
(* A training run on the release of TrainingRelease: the release is read   *)
(* against the pinned digests, every record of every split is prepared, an *)
(* endless seeded stream of shuffled passes over the train split feeds     *)
(* micro-batches to the optimizer, and the run is recorded in a bundle of  *)
(* files that list each other's digests.  The encoder-decoder trainer      *)
(* (training/encoder_decoder.py) evaluates such a bundle later: it reads   *)
(* the release again and draws the recorded order again from the seed.     *)
(* The decoder trainer (training/decoder_lora.py) checks its bundle only.  *)
(*                                                                         *)
(* What a model has learnt is the batches it was given; its loss on the    *)
(* validation split is determined by both.  Publication of the bundle is   *)
(* modelled in DirectoryPublication, its capture in TreeCapture.           *)
(***************************************************************************)
EXTENDS TrainingRelease

CONSTANTS
  Schedules,  \* [steps, accumulation, size, targets]: max_steps, gradient_accumulation_steps,
              \* micro_batch_size, and the target modules of the decoder's adapter
  Modules,    \* the modules of the decoder's base model, each a path of names
  Reproduced, \* the tokens the tokenizer of the base model decodes as it encoded them
  Limits,     \* [source, target, sequence]: the token limits
  Room        \* [run, config, weights]: the entries admitted in a file of a bundle

ASSUME SchedulesAssumption ==
  \A s \in Schedules : {s.steps, s.accumulation, s.size} \subseteq Nat \ {0}

VARIABLE run

Architectures == {"encoder", "decoder"}

-----------------------------------------------------------------------------
(* Preparing the records. *)

AllRecords(release) ==
  release.train \o release.validation \o release.test \o release.adversarial

\* Both trainers encode every record of every split before the first step, and
\* refuse the release if one does not come back from the tokenizer or is too
\* long; an EOS follows the target.
Quotes(record) == {record.ir.spans[n].quote : n \in DOMAIN record.ir.spans}

EncoderFits(record) ==
  /\ Quotes(record) \union Range(record.target.terms) \subseteq Reproduced
  /\ Cardinality(DOMAIN record.ir.spans) <= Limits.source
  /\ Cardinality(DOMAIN record.target.terms) + 1 <= Limits.target

DecoderFits(record) ==
  /\ Quotes(record) \union Range(record.target.terms) \subseteq Reproduced
  /\ Cardinality(DOMAIN record.ir.spans) + Cardinality(DOMAIN record.target.terms) + 1
       <= Limits.sequence

Prepared(arch, release) ==
  \A i \in DOMAIN AllRecords(release) :
    IF arch = "encoder" THEN EncoderFits(AllRecords(release)[i])
                        ELSE DecoderFits(AllRecords(release)[i])

\* A fault: everything that was prepared is trained on.
AnySplit(arch, release, split) ==
  IF arch = "encoder"
  THEN AllRecords(release)
  ELSE release[split]

\* The encoder-decoder trainer selects the train records from those prepared,
\* the decoder trainer builds examples from the train split.
OfSplit(arch, release, split) ==
  IF arch = "encoder"
  THEN InSplit(AllRecords(release), split)
  ELSE release[split]

IdsOf(records) == [i \in DOMAIN records |-> records[i].id]

-----------------------------------------------------------------------------
(* The seeded stream. *)

Shuffles(n) == {p \in [1..n -> 1..n] : IsInjective(p)}

\* The first k records of the stream over records that shuffles lead to.
Take(records, shuffles, k) ==
  LET n == Len(records)
  IN  [i \in 1..k |-> records[shuffles[((i - 1) \div n) + 1][((i - 1) % n) + 1]]]

-----------------------------------------------------------------------------
(* The bundle. *)

\* The validation records are scored one by one, or in batches of which the
\* last may be smaller; the loss is the mean over the batches.
ValidationBatches(arch, records, size) ==
  LET each == IF arch = "encoder" THEN 1 ELSE size
  IN  [k \in 1..((Len(records) + each - 1) \div each) |->
         SubSeq(records, (k - 1) * each + 1,
                IF k * each < Len(records) THEN k * each ELSE Len(records))]

Validation(arch, learnt, release, size) ==
  LET records == IdsOf(OfSplit(arch, release, "validation"))
  IN  [count |-> Len(records),
       loss  |-> [learnt |-> learnt, on |-> ValidationBatches(arch, records, size)]]

\* The library adapts the modules whose last name is a target, and saves two
\* matrices for each.
Adapted(targets) == {m \in Modules : m[Len(m)] \in targets}

Outputs(arch, state) ==
  [f \in {"weights", "config"} \union (IF arch = "encoder" THEN {"metrics"} ELSE {}) |->
     CASE f = "weights" -> [learnt  |-> state.seen,
                            tensors |-> IF arch = "encoder" THEN {}
                                        ELSE Adapted(state.config.targets) \X {"A", "B"}]
       [] f = "config"  -> state.config
       [] OTHER         -> Validation(arch, state.seen, state.release, state.config.size)]

\* A saved adapter holds complete pairs, of target modules only and of each of
\* them, and is not too large.
AdapterHolds(weights, config) ==
  LET modules == {t[1] : t \in weights.tensors}
  IN  /\ modules # {}
      /\ Cardinality(weights.tensors) <= Room.weights
      /\ weights.tensors = modules \X {"A", "B"}
      /\ \A m \in modules : m[Len(m)] \in config.targets
      /\ \A target \in config.targets : \E m \in modules : m[Len(m)] = target

RunManifest(arch, state) ==
  [config     |-> state.config,
   corpus     |-> state.release.manifest,
   order      |-> state.order,
   steps      |-> state.step,
   micro      |-> state.micro,
   losses     |-> state.step,
   validation |-> Validation(arch, state.seen, state.release, state.config.size),
   outputs    |-> Outputs(arch, state)]

With(files, name, content) ==
  [f \in DOMAIN files \union {name} |-> IF f = name THEN content ELSE files[f]]

Listing(files) == [f \in DOMAIN files \ {"checksums", "artifact-manifest"} |-> files[f]]

ArtifactManifest(arch, files) ==
  [arch |-> arch, run |-> files["run-manifest"], files |-> files]

\* What any manifest of artifacts must satisfy to be read.
Consistent(manifest) ==
  /\ "artifact-manifest" \notin DOMAIN manifest.files
  /\ "run-manifest" \in DOMAIN manifest.files
  /\ manifest.files["run-manifest"] = manifest.run
  /\ manifest.arch = "decoder" => "weights" \in DOMAIN manifest.files

\* Each file is written after those it lists.
Bundle(arch, state) ==
  LET recorded == With(Outputs(arch, state), "run-manifest", RunManifest(arch, state))
      listed == IF arch = "decoder" THEN With(recorded, "checksums", Listing(recorded))
                ELSE recorded
  IN  With(listed, "artifact-manifest", ArtifactManifest(arch, listed))

\* A bundle is what its manifest lists (its capture is modelled in TreeCapture) ...
Verified(bundle) ==
  LET manifest == bundle["artifact-manifest"]
  IN  /\ Consistent(manifest)
      /\ manifest.files = [f \in DOMAIN bundle \ {"artifact-manifest"} |-> bundle[f]]

\* Its metadata are refused when they are too large: the run manifest holds the
\* whole order and every loss, the configuration the targets of the adapter.
Concise(bundle) ==
  LET manifest == bundle["run-manifest"]
  IN  /\ Len(manifest.order) + manifest.losses <= Room.run
      /\ Cardinality(bundle["config"].targets) <= Room.config

\* ... and a bundle of the trainer that would use it.
EncoderIdentity(manifest) ==
  /\ manifest.arch = "encoder"
  /\ {"run-manifest", "config", "metrics"} \subseteq DOMAIN manifest.files

DecoderIdentity(manifest) ==
  /\ manifest.arch = "decoder"
  /\ DOMAIN manifest.files = {"weights", "config", "run-manifest", "checksums"}

EncoderPreflight(bundle) ==
  LET manifest == bundle["run-manifest"]
      outputs == DOMAIN bundle \ {"run-manifest", "artifact-manifest"}
  IN  /\ EncoderIdentity(bundle["artifact-manifest"])
      /\ Concise(bundle)
      /\ "weights" \in outputs
      /\ manifest.outputs = [f \in outputs |-> bundle[f]]
      /\ bundle["config"] = manifest.config
      /\ bundle["metrics"] = manifest.validation

DecoderPreflight(bundle) ==
  LET manifest == bundle["run-manifest"]
  IN  /\ DecoderIdentity(bundle["artifact-manifest"])
      /\ Concise(bundle)
      /\ bundle["config"] = manifest.config
      /\ manifest.steps = manifest.config.steps
      /\ manifest.losses = manifest.config.steps
      /\ AdapterHolds(bundle["weights"], manifest.config)
      /\ manifest.outputs = [f \in {"weights", "config"} |-> bundle[f]]
      /\ bundle["checksums"] = Listing(bundle)

Preflight(arch, bundle) ==
  /\ Verified(bundle)
  /\ IF arch = "encoder" THEN EncoderPreflight(bundle) ELSE DecoderPreflight(bundle)

\* evaluate_decoder_lora_adapter: the loss of a saved adapter, from the
\* configuration and the release alone.
AdapterLoss(config, files, weights) ==
  Validation("decoder", weights.learnt, files, config.size).loss

\* A fault: accumulated micro-batches are not counted.
EvaluatesWhole(config, files, bundle, shuffles) ==
  LET manifest == bundle["run-manifest"]
      steps == config.steps
      records == OfSplit("encoder", files, "train")
  IN  /\ Reads(files, config.corpus)
      /\ Concise(bundle)
      /\ bundle["config"] = config
      /\ Prepared("encoder", files)
      /\ manifest.config = config
      /\ manifest.corpus = files.manifest
      /\ manifest.steps = config.steps
      /\ manifest.micro = steps
      /\ manifest.order = IdsOf(Take(records, shuffles, steps * config.size))
      /\ manifest.losses = config.steps
      /\ manifest.validation.count = Len(files.validation)
      /\ bundle["metrics"] = manifest.validation
      /\ manifest.outputs = [f \in DOMAIN bundle \ {"run-manifest", "artifact-manifest"} |-> bundle[f]]
      /\ manifest.validation =
           Validation("encoder", bundle["weights"].learnt, files, config.size)

\* evaluate_encoder_decoder_checkpoint: the release is read again, the order
\* drawn again from the seed, and the checkpoint scored again.
Evaluates(config, files, bundle, shuffles) ==
  LET manifest == bundle["run-manifest"]
      steps == config.steps * config.accumulation
      records == OfSplit("encoder", files, "train")
  IN  /\ Reads(files, config.corpus)
      /\ Concise(bundle)
      /\ bundle["config"] = config
      /\ Prepared("encoder", files)
      /\ manifest.config = config
      /\ manifest.corpus = files.manifest
      /\ manifest.steps = config.steps
      /\ manifest.micro = steps
      /\ manifest.order = IdsOf(Take(records, shuffles, steps * config.size))
      /\ manifest.losses = config.steps
      /\ manifest.validation.count = Len(files.validation)
      /\ bundle["metrics"] = manifest.validation
      /\ manifest.outputs = [f \in DOMAIN bundle \ {"run-manifest", "artifact-manifest"} |-> bundle[f]]
      /\ manifest.validation =
           Validation("encoder", bundle["weights"].learnt, files, config.size)

-----------------------------------------------------------------------------
(* The run. *)

RunInit == run = [at |-> "idle"]

\* The decoder trainer makes smoke runs only.
SmokeOnly(schedule) == schedule.steps = 2

\* A run whose release is refused, or does not fit, writes nothing.  A bound:
\* only a release that one builder wrote is trained on.
StartRun(arch, schedule) ==
  /\ run.at = "idle"
  /\ arch = "decoder" => SmokeOnly(schedule) /\ Adapted(schedule.targets) # {}
  /\ Cardinality(Started) = 1
  /\ DOMAIN directory = Files
  /\ Reads(directory, Selection(directory))
  /\ Prepared(arch, directory)
  /\ run' = [at |-> "training", arch |-> arch,
             release |-> [f \in Splits \union {"manifest"} |-> directory[f]],
             config |-> [corpus |-> Selection(directory), steps |-> schedule.steps,
                         accumulation |-> schedule.accumulation, size |-> schedule.size,
                         targets |-> IF arch = "decoder" THEN schedule.targets ELSE {}],
             shuffles |-> <<>>, position |-> 0, batch |-> <<>>,
             order |-> <<>>, seen |-> <<>>, micro |-> 0, step |-> 0]

Training == run.at = "training"
Due == run.step < run.config.steps /\ run.micro < run.config.accumulation * (run.step + 1)

\* The stream yields its next record, after a new shuffle when a pass ends; a
\* batch may straddle two passes.
TakeRecord ==
  /\ Training
  /\ Due
  /\ Len(run.batch) < run.config.size
  /\ LET records == OfSplit(run.arch, run.release, "train")
         ended == run.position % Len(records) = 0
     IN  \E p \in IF ended THEN Shuffles(Len(records)) ELSE {run.shuffles[Len(run.shuffles)]} :
           LET position == IF ended THEN 1 ELSE run.position + 1
           IN  run' = [run EXCEPT !.shuffles = IF ended THEN Append(@, p) ELSE @,
                                  !.position = position,
                                  !.batch = Append(@, records[p[position]].id)]

\* A full batch is recorded, then scored and propagated.
MicroStep ==
  /\ Training
  /\ Len(run.batch) = run.config.size
  /\ run' = [run EXCEPT !.order = @ \o run.batch,
                        !.seen = Append(@, run.batch),
                        !.batch = <<>>,
                        !.micro = @ + 1]

LossNotFinite ==
  /\ Training
  /\ Len(run.batch) = run.config.size
  /\ run' = [at |-> "failed"]

OptimizerStep ==
  /\ Training
  /\ run.micro = run.config.accumulation * (run.step + 1)
  /\ run' = [run EXCEPT !.step = @ + 1]

Trained == Training /\ run.step = run.config.steps

\* The decoder trainer reads the adapter it has saved before it records it.
AdapterRefused ==
  /\ Trained
  /\ run.arch = "decoder"
  /\ ~ AdapterHolds(Outputs(run.arch, run)["weights"], run.config)
  /\ run' = [at |-> "failed"]

RecordRun ==
  /\ Trained
  /\ run.arch = "decoder" => AdapterHolds(Outputs(run.arch, run)["weights"], run.config)
  /\ run' = [at |-> "ended", arch |-> run.arch, config |-> run.config, shuffles |-> run.shuffles,
             seen |-> run.seen, release |-> run.release, bundle |-> Bundle(run.arch, run)]

Running ==
  \/ \E arch \in Architectures, schedule \in Schedules : StartRun(arch, schedule)
  \/ TakeRecord
  \/ MicroStep
  \/ LossNotFinite
  \/ OptimizerStep
  \/ AdapterRefused
  \/ RecordRun

-----------------------------------------------------------------------------
vars == <<directory, linked, builder, disturbed, run>>

Init == ReleaseInit /\ RunInit

\* A run looks at the directory when it starts; a bound: others change it
\* only before.
Next ==
  \/ Building /\ UNCHANGED run
  \/ run.at = "idle" /\ Disturbing /\ UNCHANGED run
  \/ Running /\ UNCHANGED <<directory, linked, builder, disturbed>>

Spec == Init /\ [][Next]_vars
-----------------------------------------------------------------------------
(* What a run records.                                                     *)

\* The manifest's order is that of the batches the optimizer was given, one
\* batch for each micro-step of each step.
OrderIsOfBatches ==
  run.at = "ended" =>
    LET order == run.bundle["run-manifest"].order
        size == run.config.size
    IN  /\ Len(run.seen) = run.config.steps * run.config.accumulation
        /\ Len(order) = Len(run.seen) * size
        /\ \A b \in 1..Len(run.seen), i \in 1..size : order[(b - 1) * size + i] = run.seen[b][i]

\* It is what drawing steps * accumulation * size records again from the same
\* shuffles gives (encoder_decoder.py:1759-1766).
OrderIsDrawnAgain ==
  run.at = "ended" =>
    LET records == OfSplit(run.arch, run.release, "train")
        drawn == run.config.steps * run.config.accumulation * run.config.size
    IN  Len(records) \in Nat \ {0} =>
          run.bundle["run-manifest"].order = IdsOf(Take(records, run.shuffles, drawn))

\* Every pass of it holds each train record of the construction once and no
\* other, although batches straddle passes and the last may be cut short.
PassesAreTheTrainSplit ==
  run.at = "ended" =>
    LET manifest == run.bundle["run-manifest"]
        order == manifest.order
        n == manifest.corpus.counts["train"]
        made == manifest.corpus.construction.records
    IN  /\ \A p \in 0..Len(order), i, j \in 1..n :
             /\ p * n + i <= Len(order)
             /\ p * n + j <= Len(order)
             /\ order[p * n + i] = order[p * n + j]
             => i = j
        /\ \A k \in 1..Len(order) : \E i \in DOMAIN made :
             made[i].id = order[k] /\ made[i].split = "train"

\* What a manifest says of a run's data is what the optimizer has seen: the
\* order it records is that of the batches, the seed leads to it again, and it
\* consists of passes over the train split (encoder_decoder.py:697-759,
\* decoder_lora.py:1024-1048).
TrainedAsRecorded == OrderIsOfBatches /\ OrderIsDrawnAgain /\ PassesAreTheTrainSplit

\* Whether the metadata of a run stay within their limits is decided by its
\* configuration, before the first step; nothing asks then.
Recordable(config) ==
  /\ config.steps * config.accumulation * config.size + config.steps <= Room.run
  /\ Cardinality(config.targets) <= Room.config

\* A bundle a run has recorded passes the checks made before it is published
\* and whenever it is used exactly if its configuration is not too long: no
\* configuration is refused for its length (config.py:76-78), and a run whose
\* manifest exceeds its limit (encoder_decoder.py:109, 893-900,
\* decoder_lora.py:1640) is refused after its last step, by its own preflight.
\* Its loss was taken over each validation record once, and, but for such
\* a run, an encoder-decoder checkpoint evaluates: drawing the order again
\* from the seed and scoring the validation split again give what the run
\* recorded (encoder_decoder.py:1710-1811), as scoring a saved adapter does
\* (decoder_lora.py:1721-1760).
EndedRunIsUsable ==
  run.at = "ended" =>
    LET validation == run.bundle["run-manifest"].validation
        scored == validation.loss.on
    IN  /\ Preflight(run.arch, run.bundle) <=> Recordable(run.config)
        /\ \A i \in DOMAIN directory.validation :
             Cardinality({b \in DOMAIN scored : directory.validation[i].id \in Range(scored[b])}) = 1
        /\ \A b \in DOMAIN scored : IsInjective(scored[b])
        /\ UNION {Range(scored[b]) : b \in DOMAIN scored}
             = {directory.validation[i].id : i \in 1..validation.count}
        /\ IF run.arch = "encoder"
           THEN Evaluates(run.config, directory, run.bundle, run.shuffles) <=> Recordable(run.config)
           ELSE AdapterLoss(run.config, directory, run.bundle["weights"]) = validation.loss
=============================================================================
