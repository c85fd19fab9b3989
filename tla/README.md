# TLA+ models of ste-compiler

This directory holds formal models of the ste-compiler repository: TLA+ modules translated from its
Python source, TLC configurations that check them on small instances, and proofs checked by TLAPS.
Source references such as `corpus.py:431` mean line 431 of that file; the table in section 1 gives its
directory (`training/corpus.py` is `src/ste_compiler/training/corpus.py`). `PROJECT.json` maps every
definition to the lines it models and lists all runs, mutants, findings, hazards and theorems.

ste-compiler turns a causal intermediate representation (IR) into controlled technical English. Most
of it is deterministic text processing. It is hard to test where processes share a directory
(publication of corpora, trained adapters, reports), where bytes are captured from files that others
may change, where a model is asked again after a rejected answer, and where the output of a neural
realizer is trusted only after it has been aligned with a reference, and where one file vouches for
another by its digest.

## 1. Inventory

| Component | Code | State it keeps | Operations | Interacts with | What makes it correct | Modelled |
|---|---|---|---|---|---|---|
| Symbolic corpus store | `training/corpus.py` | output directory: lock, generations, `current` selector, staging entries | `export_symbolic_corpus`, `read_symbolic_corpus` | many exporting processes and lock-free readers, through the file system and `flock` | one publisher at a time; the selector always names a complete generation; readers never see a mixture; leftovers of crashed calls are cleared or, in cases that are stated, refused; success is durable | yes: CorpusStore, CorpusReaders, CorpusDurability |
| Corpus input discovery | `training/corpus.py:171` | none | `_input_paths` | a source directory that may be the output directory | the tool's own files are never inputs | no |
| Trainer publication | `training/encoder_decoder.py`, `training/decoder_lora.py` | stage directory pinned by inode, final output | seal, rename without replacing, verify, withdraw | competing trainers, readers | what is reported is whole, verified, durable; what is rejected is withdrawn; nobody else's directory is touched, but perhaps an empty one | DirectoryPublication |
| Report, reference release and candidate publication | `evaluation/evidence.py`, `reference_release.py`, `scripts/release/release_candidates.py` | stage directory, final directory | write, rename, clean up | competing builders | no partial output, no stage left once the handler watches over it | DirectoryPublication |
| Artifact bundles, release reader, snapshot readers | `artifacts.py`, `training/release_reader.py`, `training/decoder_lora.py`, `reference_release.py` | open descriptors, captured bytes | capture a tree and verify it against a manifest | processes that change the tree meanwhile | what is accepted was read whole; a bundle's names were held | TreeCapture |
| Demonstration corpus release | `training/release.py`, `release_reader.py`, `records.py` | release directory | build, verify, read | competing builders, trainers, others who change files | the reader accepts what the builder makes, within its limits, and nothing the builder could not have made | TrainingRelease |
| Training loops | `training/encoder_decoder.py`, `decoder_lora.py` | record order, step counters, bundle | prepare, train, validate, record, preflight, evaluate | release corpus, publication | what the manifest records is what the optimizer saw; what is recorded passes every later check, if its manifest is not too long | TrainingRun |
| Release contract, candidate building | `scripts/release/release_contract.py`, `release_candidates.py` | checkout, release directory | validate-ref, build, finalize, verify-bundle | Git, the release workflow, others in both directories | what is accepted was there at one instant and, where a job built it, holds the commit's bytes | ReleaseSource, ReleaseContract |
| Evaluation | `evaluation/evidence.py` | records, metrics | read predictions, count, check, report | evaluators of several systems | every outcome can be recorded; the metrics' schema fits the metrics; systems are comparable | EvidenceRecord, EvidenceReport |
| Constrained generation | `realizer/encoder_decoder.py`, `realizer/decoder_lora.py` | tokens generated | allowed next tokens, final check | a model library that may not honour the constraint | an accepted output is the encoding of an authorized plan; a constrained model never gets stuck | SymbolGeneration |
| LLM frontend | `frontend/llm.py` | attempt counter, last error | propose, validate, retry | an untrusted provider | only well-formed quoted documents leave it | Compilation |
| IR | `ir/models.py` | none | validation of the causal graph | frontend, realizers | every well-formed document can be realized and validated | Compilation |
| Realizers | `realizer/deterministic.py`, `realizer/neural.py` | none | `realize` | validators | the deterministic text is accepted; a generated one only if it is the same, or empty | Compilation |
| Validators | `validators/*.py` | diagnostics | align, semantic, structural and lexical checks | realizers, CLI | what is accepted says what the document says, but for what is optional | Compilation |
| Symbolic lexicalizer | `realizer/constrained.py` | none | `symbolize`, `lexicalize` | vocabulary, terminology | the round trip reproduces every character | no |
| Terminology, vocabulary | `terminology/*.py` | immutable tables | lookup, whole-word spans | lexicalizer, validators | one surface, one meaning | no |
| Realizer configuration | `realizer/factory.py`, `config.py`, `local_decoder.py` | lazily loaded generator | load, prepare | bundles | configuration, bundle and snapshot agree | no |
| Reference release contents | `reference_release.py` | none | plan, pack, verify an archive | | the archive is what its plan says | no |
| CLI, results, examples, CI scripts | `cli.py`, `results.py`, `examples/`, `scripts/ci/` | none | dispatch, compare | everything | | the three realizing commands: Compilation |

### How the parts interact

    provider -> LLM frontend -> IR -> realizer -> text -> alignment -> validators -> verdict
                                        |                                  (Compilation)
                 constrained generation + lexicalizer (neural realizer)    (SymbolGeneration)

    documents -> corpus store <-> readers                  (CorpusStore, CorpusReaders, CorpusDurability)

    construction -> release -> capture -> training -> publication -> bundle -> capture -> realizer
         (TrainingRelease)  (TreeCapture) (TrainingRun) (DirectoryPublication)  (TreeCapture)

    observations -> records -> metrics -> report -> publication
         (EvidenceRecord)  (EvidenceReport)     (DirectoryPublication)

    commit -> identity -> candidates -> publication -> finalize -> verify
             (ReleaseSource)       (DirectoryPublication)  (ReleaseContract)

The first row is one process with one call at a time; its difficulty is in the combinations of
documents and texts. The others share directories with processes they do not know of, or rely on
digests that other files state.

### Hard behaviours

* Interleaving: first exports that create one lock; readers beside a selector switch; trainers that
  rename to one path; files changed while they are read.
* Crashes and interrupts between any two system calls, and what the next call makes of the leftovers; handlers
  that do not watch yet, or look at a path and act on it in two system calls.
* Power loss with unsynced directory entries, the output's own among them.
* Partial failure: any system call of an export or a publication can fail.
* Liveness: publishers block on `flock`; every call must return.
* Overlapping encodings of symbols; a library that ignores the constraint; plans that are cut off.
* Alignment by index of sentences that are missing, duplicated, or spelled otherwise.
* Rules that two pieces of code state independently: builder and reader of a release, trainer and
  evaluator of a checkpoint, records and metrics; limits on sizes that one of them knows.
* Digests that vouch for each other; directories that are filled in place.

`PROJECT.json` lists each hazard at its line, with the properties that would show it going wrong.

## 2. Modules

### Corpus store

**CorpusStore** models `_publish_generation` (`corpus.py:743`) and everything it calls. A publisher
makes one call; a retry is another publisher. A step is one system call that others can observe, named
after the function and the call (`CreateInit`, `LinkLock`, `Flock`, `RenameStage`, `ReplaceCurrent`, ...);
`pc` is the place in the code. The lock is modelled down to inodes: initializers are created, written
and linked as `_create_output_lock` does, `flock` is held on an inode, and the holder checks that
the name still leads to it (`corpus.py:448`). `IOError` fails any system call, `Crash` ends a process
at any point (the kernel drops its lock, the directory keeps its leftovers). File contents are the
document they were computed from; a generation id is an injective digest, hence the document.
The module also holds the inductive invariant `IInv`, and the fairness of section 3.

**CorpusReaders** adds `read_symbolic_corpus` (`corpus.py:781`): readers take no lock, resolve the
selector once and then open files by the name found. **CorpusRegister** is the abstract promise: a
set of immutable generations and one selector, a read that takes the selector at one instant. The
refinement mapping is in CorpusReaders; `RegisterSpec` is its image.

**CorpusDurability** models the same call from the disk's side: which directory entries are visible, which
are durable, and which data was synced. `PowerLoss` keeps everything synced and any subset of the rest. Calls make
the output, the lock and its initializers side by side (`Begin` to `SyncLock`); the one that has entered the lock runs
alone to its end (that calls exclude each other is proved for CorpusStore). `init` is the initializer of each call,
empty, synced or gone; `output` is the output's entry in its parent, which `mkdir` makes (`corpus.py:752`) and no call
syncs, and `dropped` whether a power loss has taken it since the last success.

### Publication

**DirectoryPublication** models the five publications of a directory or file in one module, since
they share one shape (make a stage, write, synchronise, rename without replacing, verify, undo) and
differ in what they check and undo: `encoder`, `decoder`, `report`, `reference`, `candidate`. `kind`
selects the one that runs. Competing calls, failed system calls, interrupts at any point
(`KeyboardInterrupt` runs the handlers, a kill does not), changes by others (`Meddle`: the output
moved away or taken, by a directory with files or an empty one, the stage moved, a file altered), and power loss are
actions. A call whose stage is made is `Preparing`, and no handler knows of the stage, until it has entered the try
statement (`Enter`, or pinning in the decoder), from when on it is `guarded`. A handler compares the inode of a path and
removes what is there in two steps, between which others act, and `rmdir` refuses a directory that is not empty.

### Capture

**TreeCapture** models three ways to read a tree that others change: the bundle reader, which
descends through directory descriptors and compares names with descriptors before and after; and
the release and snapshot readers, which read a flat directory and compare descriptors only. Each
reader is a sequence of tasks (`Program`), one for a file or for a listing of a directory, and each task a
sequence of system calls; `task` and `step` are the place in the code. A *stamp* stands for the fields of
`stat_result` the code compares; every change gives a new one. Others rewrite chunks of files, rename and
restore files and directories, and add names. History variables say what each path really held meanwhile:
`whole` what the file opened for a name has had since, `present` what stood under the full path while the
path was captured, `shape` what an open directory listed.

### Compilation

**SymbolGeneration** models both token recognizers as operators over token prefixes, translated from
`_allowed_next`, `allowed_next` and their helpers, the generating library (honouring the recognizer or returning
anything), and the final check. It never mentions beams: beam search changes which allowed token is
taken, not which are allowed. **MCSymbolGeneration** gives symbols and tokens.

**Compilation** models the three commands `compile`, `compile-source` and `validate-text`, the last also without
`--ir`, when nothing but the words is judged (`ValidateAlone`): the frontend's
retry loop, well-formedness of the causal graph, the sentence mappings of the deterministic realizer,
the neural realizer's alignment, and the validators. A sentence is a role label, an abstract content
and a spelling (as the deterministic text spells it, or differing in case or whitespace only). A text
is the deterministic one with at most `MaxEdits` departures: a sentence removed, inserted, swapped or
respelled, the layout changed, or everything gone. **MCCompilation** gives the documents.

**MCRealization** checks both in one run. All a call sees of a generation is whether it fails, which Compilation leaves
open, and neither module looks at the other's variables; so generation is explored in full beside one call, and
every call after one generation.

### Release

**ReleaseSource** models a release job on a checkout that others change: `validate-ref` fixes the identity,
and every tracked file is read on its own and bound to the commit. The bytes of a file are the commit
whose blob they equal. **ReleaseContract** extends it with the release directory: the job stages its
artifacts, `finalize_release` opens, reads, lists and confirms them one by one and writes manifest and
checksums, `verify_release_bundle` does the same from the verifier's side. A step is one system call.
Others alter, replace, restore or add files at any point, copying in what another job built (`Genuine`) or archives
that no job built and that only agree with each other (`Forgeries`), and the job may be cut short. Each change
gives a path a new stamp, which stands for the stat identity the code compares. `witnessed` is a history
variable: whether the directory was what the call answers for at some instant since it began; `disturbed`
another: whether anyone else has touched the directory, or verification began before finalization had ended.

### Evidence

**EvidenceRecord** is what a prediction record may say: the measurements of each stage, and the failure
code each outcome admits, translated rule by rule from `evidence.py:366-560`. **EvidenceReport** reads the
predictions line by line, checks gold contracts between systems, counts, and subjects the counts to the
metrics' own schema. `outcome` is what an evaluator has observed and not yet recorded.

### Training

**TrainingRelease** holds the builder of the demonstration corpus as an operator, `Artifacts`, from a
construction and resources to files, its checks as `Buildable`, and the reader's checks as `Accepts`, each
translated from its own code (`InSplit` takes the records of a split in the order of the construction): the two sides state the same rules on splits, leakage, spans, features
and targets in different ways and orders. A digest is the content it was computed from. Builders test the
directory for emptiness and then write file by file in place (`CheckEmpty`, `WriteNext`), may
stop in between, and may do so side by side; others alter records, inputs, checksums and manifest, or give a file
a second name (`linked`). The reader's limits on a file and on their sum are counted in entries (`Capacity`).
**TrainingRun** extends it with a run of either trainer: the checks before the first step, the seeded stream
of shuffles (any permutation per pass), micro-batches and accumulation, the validation loss, the bundle whose
files list each other, the preflights with the limits on the size of what they read (`Room`, in entries of the run
manifest and target modules of a configuration), and the evaluation that draws the order again. What a model has
learnt is the sequence of its batches. **MCTrainingRun** gives constructions that each depart once from
one that can be built.

### Proofs

**CorpusStoreProofs** holds the theorems of CorpusStore and, after them, those of CorpusReaders, which cite the
store's. **CorpusDurabilityProofs**, **DirectoryPublicationProofs**, **TreeCaptureProofs**,
**CompilationProofs**, **ReleaseContractProofs**, **EvidenceReportProofs** and **TrainingRunProofs** hold those
of the modules they are named after; the last also those of TrainingRelease, and CompilationProofs those of
SymbolGeneration, since both need the same facts about sequences of sequences. The inductive invariants of
CorpusStore, CorpusDurability, DirectoryPublication, TreeCapture, Compilation (`NeuralInv`, `VerdictInv`) and
SymbolGeneration (`GenerationInv`) are stated in these modules themselves,
the others beside their proofs.

## 3. What the runs show

| Run | Question | Result |
|---|---|---|
| `corpus_store` | two exports and a lock-free reader race from an empty directory, two faults anywhere | the lock excludes; the selector names a complete generation; generations are immutable; success means selected and tidy; leftovers of interrupted calls are accepted but for three stated cases; every call returns; a read is never missing, foreign or mixed, and finds something once an export has reported success; the store implements CorpusRegister |
| `corpus_durability` | three calls that may have to make output, lock and directory, two interrupts, two power losses | no generation is torn; without interrupts generations, selector and leftovers stay acceptable, the lock is durable from the first success on, and the store never falls behind the last acknowledged export, unless the output itself is lost |
| `directory_publication` | two calls of each of the five publications with one error, one interrupt or kill, two outside changes and one power loss | what was reported stands, whole and verified; what a trainer rejects is withdrawn; no stage is left once its handler watches over it; others' directories are untouched, but for an empty one |
| `tree_capture` | each reader with any two changes at any points | what is accepted was read whole; a bundle's names were held while it was read |
| `realization` | both recognizers with every encoding of two symbols of which one begins the other; and all commands, `validate-text` also without a document, over small documents and texts two departures away | the recognizers are exact; what a generator returns is the training encoding of an authorized plan; only truncation refuses a constrained model; the deterministic text is accepted; a generated one only if it is the deterministic one, or empty where nothing is required; an accepted given text is faithful up to case, whitespace and trailing optional instructions |
| `release_contract` | a job, its finalization and a verification beside two changes of checkout, tag and directory, and an interruption | what is finalized or accepted was so at one instant of the call; the candidates of an accepted bundle name the wanted commit, agree with each other and, where some job built them, hold its bytes; an untouched bundle is accepted |
| `evidence` | two systems on two cases, every failure, several at once | the metrics' schema rejects nothing that is computed; systems of one report share their gold |
| `training` | two builds into one directory, two changes by others, runs of both trainers | what the reader accepts is what its construction leads to; with a build's digests pinned it accepts no other files; it refuses nothing the builder makes, within its limits and without hard links; the order recorded is that of the batches, drawn again by the evaluation, in passes over the train split; what is recorded passes preflight and evaluation exactly if its configuration is not too long |
| `corpus_selector_survives` | does the selector survive a power loss after interrupted calls? | violated, see findings |
| `report_interrupted` | can an interrupt leave a partial report? | violated |
| `evidence_outcomes` | can every outcome of a run be recorded? | violated |
| `accepted_text_exact` | is an accepted text, generated or given, always the deterministic one, but for layout? | violated |

### Findings

1. **The selector can dangle after a power loss** (`corpus.py:613`, `694`): an export reuses the unsynced
   directory entry an interrupted one left, and switches to it. `docs/architecture.md:22` promises the
   order synced generation, then selector. Without an interrupted call it holds (`StoreUsable`,
   `AcknowledgedSurvives`).
2. **An interrupt right after its rename empties a report** (`evidence.py:1601-1607`): the handler goes
   by a flag set one statement later. `tests/unit/test_benchmark_evidence.py:2222` says that no partial
   output is left; the candidates' handler compares inodes and has no such window.
3. **A prediction may have no record** (`evidence.py:382-427`): a frontend that matches every field and
   predicts one more has failed, but each frontend code asks for an event that did not happen; without
   a record there is no report. `docs/benchmark-evidence.md:90` says every record carries a code.
4. **Texts that are not the deterministic one are accepted**, in three ways:
   (a) `validate-text` accepts a text in another letter case or whitespace (`alignment.py:75`);
   (b) it accepts a text that leaves out optional instructions at its end (`semantic.py:37`);
   (c) an empty generated text is accepted for a document whose statements are all optional instructions (`semantic.py:37`).
   `docs/architecture.md:13` and the docstring at `alignment.py:57` call the matches of given texts exact, and changed and
   omitted sentences rejected; `docs/architecture.md:22` says that omission or any surface change of a
   generated text fails. The run ends with one of the three; the conjuncts of the property, `ChangedTextIsRejected` (a),
   `OmittedTextIsRejected` (b) and `GeneratedTextIsExact` (c), are each violated when checked alone.
   `NeuralTextIsTrusted` and `ValidatedTextIsFaithful` say what remains true, and show that nothing else gets through.

Several properties state an exception that the code has and no document denies:

* `LeftoversAccepted`: the lock holder refuses its call when it meets an initializer between creation and
  write, and unlinks a complete one its creator is about to link (`corpus.py:408-438`), so that concurrent first exports can
  fail each other (`tests/unit/test_training.py:677` releases its threads after both initializers are complete); an
  incomplete initializer of a dead export blocks every later one; and the preflight stats `generations` before
  `current` without the lock (`corpus.py:662-669`), so that an export beside the first publication can be refused for
  an orphaned selector that is none.
* `StoreUsable`: a power loss can leave such an incomplete initializer too, until a first export has succeeded.
* `AcknowledgedSurvives`: the output that `mkdir` makes (`corpus.py:752`) is not synced in its parent, and a power loss
  may take it with everything in it.
* `NoStageLeft`: an interrupt between the call that makes the stage and the try statement leaves it
  (`evidence.py:1593-1596`, `release_candidates.py:985-987`); the trainers leave theirs also if a system call fails there
  (`encoder_decoder.py:1510`, the decoder until it has pinned the stage); the reference's handler does not see
  `KeyboardInterrupt`.
* `OthersUntouched`: between comparison and `rmdir` (`decoder_lora.py:745`, `encoder_decoder.py:1378`) the path may be
  exchanged, and an empty directory of somebody else removed.
* `AcceptedIsTheCommit`: verification never asks Git for the bytes (`release_candidates.py:1356-1419`); an archive that no
  job built and that agrees with itself is accepted under the wanted commit.
* `VerifiedIsAccepted`: the reader limits sizes and refuses hard links (`release_reader.py:143-148`, `221-224`), the
  builder and `verify` do not.
* `EndedRunIsUsable`: the run manifest lists every record drawn and every loss, the number of steps is not limited
  (`config.py:76-78`), and a manifest beyond 2 MiB is refused by the run's own preflight, after training.

Smaller observations, on which no document of the repository takes a stand, or which no run singles out:

* A trainer interrupted between rename and flag leaves a complete output it has not verified.
* A report or reference stays published though the call raises when synchronising the parent fails.
* Candidates are never synchronised.
* A quantity from 1e16 on, or -0.0, is spelled differently by realizer and validator, so that the
  realizer's own text is rejected (`semantic.py:107`).
* An exception of the provider ends `compile-source` although retries are left (`llm.py:45`).
* `finalize` takes the manifest's stat identity again after writing the checksums
  (`release_contract.py:568-574`) and does not compare its bytes with those it wrote.
* The release reader accepts files the builder would not write byte by byte: resource snapshots spelled
  otherwise, if the construction names their digests (`release_reader.py:419-427`; the builder compares canonical
  bytes, `release.py:587-593`), and records and checksum lines in another order.
* Compositions of validation records may equal those of train records; only test and adversarial
  records are held out by composition (`release.py:641`).
* `verify` reads vocabulary, terminology and construction after the files it compares with them
  (`release.py:787-793`).
* The decoder's validation loss is a mean of batch means and depends on the batch size where the last
  batch is short (`decoder_lora.py:1090-1116`); neither its preflight nor its evaluation draws the order again.
* A target module that matches nothing in the base model is refused only after training (`decoder_lora.py:1873`).

### Bounds, and why they are enough

* **Corpus store.** Two publishers, two documents, two faults: a lock has one holder and one
  competitor, a selector an old and a new value, and a leftover is made by one fault and met by a call
  with another. What holds for two is proved for any number (section 4). One reader, since readers
  write nothing. No symmetry, because the run checks liveness.
* **Durability.** Three calls (`Caller`): one interrupted, one that builds on it, one after the loss, or two that
  make the lock side by side; two interrupts and two losses bound what happens, not what the code keeps.
* **Publication.** Two calls race for one rename; two files distinguish partial from whole; one failure
  of each sort may coincide with all the others, and two outside changes: one that takes a path, one that exchanges it
  between comparison and removal. Proved for any numbers.
* **Capture.** Two changes: one that damages and one that restores. Two chunks per file distinguish a
  mixture; one subdirectory and its twin distinguish a name from a descriptor.
* **Generation** (in the run `realization`). Symbols `a` and `ab` with seven tokens: shared prefixes, several encodings, a symbol
  that ends where another goes on; plans of up to two symbols, four tokens, so that truncation and
  `max_symbols` both occur. Proved for any symbols, any tokenizer and any limits.
* **Compilation** (in the same run). Documents of up to two statements with hazards, relations and ids that coincide where
  the model permits it; two departures; paragraphs of three sentences, one retry: each limit is
  reached and exceeded. Proved for any documents and any number of departures.
* **Release.** Two commits, one version, two changes: one that departs and one that hides it; one
  interruption. A forged dataset and a report forged to fit it. The SBOM stands for the distributions, which are read
  in the same way. Proved for any commits, forgeries and numbers of changes.
* **Evidence.** Counts from 0 to 2 distinguish none, some and all; two cases and two systems are what
  a comparison needs. Proved for any counts, cases and systems.
* **Training.** Two builders, two changes (one that alters and one that hides it by new digests), five
  records: each split has one and train two. Each construction departs once from an acceptable one:
  a missing split, a repeated id, source or text, a leaking composition, an unlisted term, a wrong quote, and a sixth
  record, which is beyond the reader's limit. Two of the schedules and two of the sets of target modules are
  beyond the limits of a bundle.
  Schedules of one and two steps with batches of one and three records, so that a batch straddles two
  passes and the last pass is cut short. Only a release of a single builder is altered in its records or
  trained on, and others change it only before a run starts; the builders are symmetric, and no property of the
  run is a liveness property. Thirteen files are grouped to nine: those that are derived, listed
  and checked alike are one.

### Fairness

Only `EveryCallReturns` (run `corpus_store`, specification `AllFairSpec`) needs fairness: weak
fairness of each publisher's steps once its call has begun. Nobody is obliged to begin a call. A process that is neither dead nor blocked
is scheduled; a blocked `flock` becomes possible when the holder releases it, fails or crashes. Weak
fairness suffices since each publisher calls once, so that a released lock is contended by finitely
many. Crashes and errors are never fair. All other properties are safety properties without fairness.

Deadlock is checked in the corpus store, durability and publication, whose modules state in which states
nothing is left to do. In the other runs the single call, job or training run ends.

## 4. What is proved

The runs check finite instances; the theorems hold for any sets of publishers, documents, files,
readers, commits, symbols, tokenizers, constructions, builders, schedules and any bounds, under the modules' named assumptions on constants (distinct null values,
natural bounds).

* **CorpusStoreProofs.** `Invariance`: `IInv` is inductive. Mutual exclusion alone is not: that two
  processes do not hold the lock depends on which inode the name leads to, on initializers being
  linked once, and on `VerifyLock`. The invariant joins `TypeOK`, `LockInv` (the lock name, once
  linked, keeps its inode, and whoever is past `VerifyLock` holds its flock), `InitInv` (whose an initializer without
  marker is, and that one which is gone was removed under a lock), `StoreInv` (everything under a
  final name is complete; selector and staged links name installed generations), `ProcInv` (what a publisher
  knows of directory, generation and staging entries at each place) and `NothingDamaged` (no call ever meets a foreign lock,
  directory or generation). From it: `TypeCorrect`, `LockExcludes`,
  `SelectorSafe`, `LeftoversSafe`, `Immutability`, `SuccessCorrect`, `SuccessTidy`.
  Of the readers: `ReaderInvariance` (what a reader holds at each step), `ReadersSafe`, `Readable`, and `Refinement`:
  every step of store and readers is a step of CorpusRegister or a stutter. These cite the store's
  invariance, so that readers are only proved about themselves.
* **CorpusDurabilityProofs.** `NoGenerationIsTorn`: whatever calls are interrupted and whatever a power loss drops, no
  generation that is named holds unsynced artifacts (`ArtifactsInv`: an entry is synced before it is renamed).
  `StoreStaysUsable` and `AcknowledgedIsKept`, of executions without an interrupt, rest on `DurableInv` and `SelectorInv`:
  visible and durable state differ in one entry at a time, the one that the call is about to synchronise, and
  everything that refers to an entry is made after the entry is durable. That order is what finding 1 shows an
  interrupted call to break, and the reason why this part of the invariant has the hypothesis `interrupts = 0`. That the
  lock is durable once a call has succeeded rests on `LockInv`: as long as it is not, its maker's initializer is there,
  and a holder of the lock that removes it synchronises the output before it goes on. The output's own entry is
  exempted by `dropped`.
* **DirectoryPublicationProofs.** `Invariance` of the conjunction of `TypeOK`, `BuildingInv`, `WrittenInv`,
  `RenamedInv`, `VerifiedInv`, `UndoInv`, `WholeInv`, `RejectedIsWithdrawn`, `StageInv` and `NoStageLeft`; from it `SuccessIsKept`, `OutputIsWhole`,
  `RejectedOutputIsWithdrawn`, `ReportedOutputIsVerified`, `OthersAreUntouched`, `StageIsCleared`. `OutputIsWhole` is about
  all publications but the report's, for which it is false (finding 2). That a call leaves no stage rests on `StageInv`:
  at each place of the code, where the stage is that the handlers will look for, and since when they do (`guarded`).
  `OthersAreUntouched` does not rest on the comparison alone, which others may outdate, but on `rmdir`, too.
* **TreeCaptureProofs.** `AcceptedIsWhole`, of all readers: each accepted file is what the manifest identifies and
  was so at one instant. The argument is about stamps: while the stamp of an open file is the one taken before
  the read, the chunks read so far are the chunks it has (`FileInv`), and a digest compared after the last look
  refuses all else. `AcceptedWerePresent` and `AcceptedHeld`, of the bundle reader: its files stood under
  their full paths, and no name of its directories came or went meanwhile. A path leads through a directory that can be
  moved away and back, which the file's own identity does not show; `LookedInv` and `CapturedInv` therefore claim
  presence only as long as the root's stamp stands (`OnPath`), and `DirInv` says what a directory whose stamp stands
  still lists. The second look at the root, after the last file, turns the condition into a fact (`After(10, 1)`).
* **CompilationProofs.** For every set of documents and every text. `NeuralTrust`: what a neural realizer is
  trusted with is the deterministic text, or a text without sentences where the document requires none; it rests on
  `NeuralInvariance` and on what the aligner makes of a text without inherited mappings. `DeterministicAccepted`: a
  document's own text passes the semantic validator, and its relations break no limit its statements keep.
  `ValidatedFaithful`: an accepted given text says what the deterministic text says and leaves out only optional
  instructions at its end. Both follow from `VerdictInvariance` (whatever is judged is a well-formed document with
  its own mappings, or with those a given text was aligned with) and from two facts about the mappings of a document:
  where they are (`Structure`: one for each hazard, statement and end of a relation) and that no two are of
  the same statement or end (`MappedOnce`, from the ids of a well-formed document). A sentence is matched by its index, so a
  text that is accepted meets only mappings with one sentence until it ends, and sentence and mapping keep the
  same number (`OneEach`); what follows is expressed by nothing, which only optional instructions may be
  (`LeftOutIsOptional`). A relation repeats the sentences of two different statements, so that its paragraph is no
  longer than theirs (`ParagraphsFit`). `TypeCorrect`: what is realized is well formed, and an ended call has a verdict.
* **CompilationProofs**, of SymbolGeneration. `RecognizersExact`: at every prefix, of any length, each recognizer allows exactly
  the tokens that lead towards the encoding of a plan. Both are compared with one description of what is under way
  (`UnderWay`: a symbol begun after n complete ones that spell the tokens before it; `LeadsOn` and `CutShort` show that the
  description is what the encodings of plans go on with, `ContinuationsAre`). The encoder's search from the left finds the ends of
  all such spellings (`BoundariesAre`), the decoder's sets are, token by token, the symbols under way
  (`ConsumesOne`, `StateAfterIs`). No symbol is assumed to be unambiguous: two spellings of a prefix remain two.
  `AcceptedPlan`: a path that replays is the encoding of a plan (`CompleteIsPlan`), its text is the plan's words joined
  (`DecodeTarget`), and splitting that text gives the plan back (`SplitJoin`), since symbols are not empty and hold no space.
  `TruncationOnly`: the inductive invariant `GenerationInv` keeps that the encodings decode to their symbols
  (`TokenizerInv`) and that a library that honours the recognizer has taken only tokens that were allowed after those
  before them (`HonouredInv`). The last is what makes the property inductive: a path of allowed tokens always has a
  next one (`NeverStuck`), and one that ended is accepted by every later check (`EndedIsAccepted`). `GenerationTypeCorrect`:
  token sequences and plans stay within their types and limits.
* **ReleaseContractProofs.** `OneInstant`: an accepted or finalized bundle was what it claims at one instant.
  Files are read one after the other and compared again one after the other; the argument is that if
  nothing had changed when the last loop began, that was the instant, and a path that had changed keeps
  its new stamp until the loop finds it (`FreshInv`, `VerifyInv`, `FinalizeInv`). `RightCommit`: an accepted
  bundle names the wanted commit, its candidates agree with each other, and what is not one of the forgeries holds that
  commit's bytes, from `OriginInv`, what any copy of a candidate can say. Nothing is assumed of the forgeries but that
  they say something.
  `UntouchedAccepted`: a finalized bundle that nobody touched is never rejected when the commit and mode of its job are
  asked for. Finalization and verification check in different orders and state the rules separately; the proof goes by what
  finalization leaves at each place (`FinalizeUntouched`), shows that the finished directory is the release asked
  for (`GoodBundle`), and then that no comparison of the verifier can fail (`VerifyUntouched`). It assumes of the
  abstraction that metadata and SPDX documents are neither absent nor partial (`MetadataAssumption`, `ContractAssumption`).
* **EvidenceReportProofs.** `MetricsFit`: each cross-check of the metrics' schema holds of what one valid record
  contributes and is preserved by sums, hence of any number of records. `Comparable`: the systems of a
  published report have equal numbers of records and equal gold denominators.
* **TrainingRunProofs**, of releases. `PinnedBuild`: with the digests of a build pinned, no other files are accepted.
  `ReaderAcceptsDerived`: what is accepted is what its own construction leads to, however often it was altered
  and sealed again. This rests on the reader's checks alone: that the records stand at different places with
  different ids, that each comes from a record of the construction, and that the counts in the manifest are those of
  the construction leave no room for another record (`AcceptedConstruction`, `AcceptedCounts`), and then each of the
  builder's checks follows from one of the reader's (`AcceptedDerived`). `ReaderAcceptsVerified`: the converse for files within the
  reader's limits that have one name each, that no other check of the reader is stricter than the builder's
  (`BuiltAccepted`), and that an undisturbed build verifies. `ReleaseInv` is the
  inductive invariant: what kind of thing each file of a directory is, that what a builder writes could be built, and that
  what a lone builder has written is there.
* **TrainingRunProofs**, of runs. `Invariance`: counters (`Counted`), batches in the order (`Batched`) and the place in the
  stream of shuffles (`Streamed`) agree at every step of a run. The order alone says nothing of the
  record taken next; the invariant relates its length to passes and position, which rests on
  the uniqueness of quotient and remainder. From it `OrderRecorded`: the recorded order is that of the
  batches, steps times accumulation of them, and drawing as many records again from the same shuffles gives
  it again. That the train split has a record is a hypothesis of the second; `Reading` shows that it always has:
  `RunReads` says that what a run has read was accepted, and nothing changes it any more. With both, `PassesOfTheTrainSplit`:
  places in one pass are different elements of one permutation (`InPass`, `StreamOfPasses`); the three together are
  `TrainedIsRecorded`. `EndedUsable`: the bundle passes the preflight exactly
  if its configuration can be recorded within the limits (`Recordable`), since its files list each other in the order in
  which they are written (`BundleFiles`, `BundlePreflight`) and the recorded order has one entry for each record drawn; each validation record is in exactly one batch
  (`ScoredOnce`), and the evaluation draws and scores what the run did (`ValidationRead`).

The theorems of CompilationProofs assume what the schema says of a document's parts: statements, relations, hazards and
the sentences of a surface form are sequences, and a surface form has a sentence (`DocumentsAssumption`). Those about
SymbolGeneration assume that special tokens decode to nothing and that a symbol is a word of a split text, hence not empty and
without a space (`GenerationAssumption`; `neural.py:58-59`).
The theorems of TrainingRunProofs assume that the builders are finitely many (`BuildersAssumption`), that constructions and resources have
the fields of their schemas (`InputsAssumption`), and that steps, accumulation and batch size are positive
(`SchedulesAssumption`, which the configuration's schema demands).

The prover cannot instantiate the library's induction theorems. Where a fact about lists of every length is
needed, the proofs take the least counterexample instead (`Least`, from the well-foundedness of the natural numbers):
that the places of a split can be listed in order (`Orderable`), that a concatenation of splits gives each of them
back (`TogetherInSplit`), that `FlattenSeq` lays its sequences one after the other (`Laid`) and maps a concatenation to a
concatenation (`FlatConcat`), and that the search for boundaries finds all of them (`BoundariesAre`). For that reason the
records of a split are listed by `InSplit`, and not by a recursive selection.

Only model-checked: `EveryCallReturns`, since liveness under fairness is beyond the prover. Every other property of
a passing run is stated by a theorem.

## 5. What is not modelled, and why

* Digests are injective and canonical JSON is unambiguous; parsing of files is a verdict.
* The neural libraries, git, the build tools and the provider appear through what the code asks of them.
* File systems: POSIX rename, link, `O_EXCL`, `flock`; a power loss may keep or drop each unsynced
  entry on its own. Network file systems are outside.
* Processes other than the tool's change trees only where a module says so (Meddle, Others). The corpus
  store assumes that its directory is changed by exports only.
* A change that leaves the stat fields alone is not seen by any reader; the stamps assume that none does.
* Sizes in bytes: the limits of readers and preflights are counted in the entries a file lists. How long the strings
  of a configuration, a construction or package metadata are is not counted.
* The attestation workflow, which builds released candidates again from the tag: verification here is what
  `verify_release_bundle` does.
* Wording of sentences, diagnostics and messages; rates and confidence intervals; tensors, model snapshots,
  the random state and package provenance.
* **Symbolic lexicalizer, terminology.** Pure. In an exact plan every symbol carries the surface that was
  read, so that the round trip would hold of any model of it; what can go wrong is in character arithmetic,
  which the repository's property tests reach.
* **Corpus input discovery.** The traversal decides once whether the tool owns the generations in a source
  that is also the output. An export that creates them meanwhile makes it refuse the source, and nothing else.
* **Reference release contents, realizer configuration, CLI, examples, CI scripts.** Sequential code of one
  process without state that outlives a call; a model would repeat it.

## 6. Limits of the composition

Each module takes its neighbours' promises as given: TrainingRun reads a release at one instant, which is what
TreeCapture shows of the reader's capture as far as each file goes; its bundle is published as
DirectoryPublication shows. EvidenceReport and ReleaseSource end where DirectoryPublication begins. ReleaseContract
and CorpusReaders compose their parts in one module. A composition of all of training, from builder to
evaluation, with captures step by step would be the next step; the state space of the parts together
is out of reach for the instances in which their interesting cases happen.

## 7. Running

In this directory, with TLC and TLAPS installed and the community modules on the library path:

    tlc -workers 2 -config CorpusReaders.cfg CorpusReaders
    tlapm CorpusStoreProofs.tla

`PROJECT.json` lists the module and configuration of each run. A run marked `violation` is expected to
end with a counterexample; all others end without an error in a few seconds to about a minute. For each
property of a passing run, `PROJECT.json` names a mutant: a plausible bug in a definition under which the
property fails in that run.
