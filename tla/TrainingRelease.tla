------------------------- MODULE TrainingRelease -------------------------
(***************************************************************************)
(* The demonstration corpus release: how it is built from a construction   *)
(* (training/release.py), written file by file into a directory, verified  *)
(* by rebuilding it, and read by the trainers against pinned digests       *)
(* (training/release_reader.py).  The builder derives every record from    *)
(* the construction; the reader is handed the derived files and decides by *)
(* checks of its own whether they are what a builder could have made.      *)
(*                                                                         *)
(* A text is a sequence of tokens, a quote is one token, and a document is *)
(* its claims, the features its shape shows and the terms it refers to.  A *)
(* digest is the content it was computed from.  How the reader captures    *)
(* the bytes of a directory that changes meanwhile is modelled in          *)
(* TreeCapture; here it looks at the directory at one instant.             *)
(***************************************************************************)
EXTENDS Integers, Sequences, FiniteSets, Functions

CONSTANTS
  Builders,      \* calls of build_demonstration_corpus with one output
  Constructions, \* source-construction files
  Resources,     \* vocabulary and terminology snapshots: [version, terms, spelled]
  Fold,          \* the NFKC and case folding of each token
  Spaces,        \* the tokens that are white space
  Upper,         \* the tokens in upper case
  Structural,    \* the features that make up a composition
  Required,      \* the features a release must show ...
  Required2,     \* ... and those demonstration-corpus-2 must
  Counts2,       \* the frozen split counts of demonstration-corpus-2
  Capacity,      \* [file, total]: the entries the reader admits in a file and in all
  Disturbances   \* bound on the changes others make to a release

ASSUME BuildersAssumption == IsFiniteSet(Builders)

\* What the schemas of the two inputs say of any file that is read.
ASSUME InputsAssumption ==
  /\ \A c \in Constructions :
       /\ c = [version |-> c.version, license |-> c.license,
               resources |-> c.resources, records |-> c.records]
       /\ c.records \in Seq(Range(c.records))
       /\ \A i \in DOMAIN c.records : c.records[i].split \in {"train", "validation", "test", "adversarial"}
  /\ \A r \in Resources : r = [version |-> r.version, terms |-> r.terms, spelled |-> r.spelled]

VARIABLES
  directory, \* the release directory: its files and their contents
  linked,    \* whether others hold a further link to one of the files
  builder,   \* what each builder is doing, and what it builds
  disturbed  \* the number of changes made by others

Splits == {"train", "validation", "test", "adversarial"}
FileOrder == <<"train", "validation", "test", "adversarial", "construction",
               "resources", "reports", "manifest", "checksums">>
Files == Range(FileOrder)
Data == Files \ {"manifest", "checksums"}

-----------------------------------------------------------------------------
(* The records of a split, in the order in which they are listed. *)

InOrder(places) ==
  CHOOSE f \in [1..Cardinality(places) -> places] : \A i, j \in DOMAIN f : i < j => f[i] < f[j]

InSplit(records, split) ==
  LET places == {i \in DOMAIN records : records[i].split = split}
      order == InOrder(places)
  IN  [k \in 1..Cardinality(places) |-> records[order[k]]]

-----------------------------------------------------------------------------
(* What a construction record is turned into. *)

Normal(text) ==
  LET kept == SelectSeq(text, LAMBDA token : token \notin Spaces)
  IN  [i \in DOMAIN kept |-> Fold[kept[i]]]

Features(document, text, version, resources) ==
  document.shape
    \union {f \in {"document.multi_statement"} : Len(document.claims) > 1}
    \union {f \in {"source.whitespace_newline"} : Range(text) \intersect Spaces # {}}
    \union {f \in {"source.casing_upper"} :
              version = 2 /\ Range(text) \intersect Upper # {}}
    \union {f \in {"terminology.canonical_surface"} :
              /\ version = 2
              /\ \E t \in document.terms \intersect DOMAIN resources.terms :
                   resources.terms[t] \in Range(Normal(text))}

Composition(features) == features \intersect Structural

\* The places at which a quote is found; a span needs exactly one.
Found(record, claim) ==
  {i \in DOMAIN record.text : record.text[i] = record.quotes[claim]}

Materializes(record) ==
  LET claims == record.document.claims
  IN  /\ \A i, j \in DOMAIN claims : claims[i] = claims[j] => i = j
      /\ DOMAIN record.quotes = Range(claims)
      /\ \A n \in Range(claims) : /\ record.quotes[n] \notin Spaces
                                  /\ Cardinality(Found(record, n)) = 1
      /\ record.document.id = record.id

IR(record, resources) ==
  [document |-> record.document,
   spans    |-> [n \in Range(record.document.claims) |->
                   [source |-> record.source, quote |-> record.quotes[n],
                    start  |-> CHOOSE i \in Found(record, n) : TRUE]],
   profile  |-> resources.version]

\* build_training_record: the text, symbols and metadata are functions of the
\* document and the resources; it fails on a profile of other resources and on
\* a document it cannot realize.
Trainable(ir, resources) ==
  /\ ir.profile = resources.version
  /\ ir.document.terms \subseteq DOMAIN resources.terms

Target(ir, resources) ==
  [realizes |-> ir.document.id,
   terms    |-> Restrict(resources.terms, ir.document.terms),
   profile  |-> resources.version]

Released(record, construction, resources) ==
  LET ir == IR(record, resources)
  IN  [id       |-> record.id,
       split    |-> record.split,
       source   |-> [id |-> record.source, text |-> record.text,
                     license |-> record.license],
       ir       |-> ir,
       target   |-> Target(ir, resources),
       features |-> Features(record.document, record.text,
                             construction.version, resources)]

-----------------------------------------------------------------------------
(* What both sides ask of a release as a whole. *)

\* The snapshot as the builder writes it; a file may spell the same data in
\* another way, and then has another digest.
Canonical(resources) == [resources EXCEPT !.spelled = "canonical"]

Provenance(construction, snapshot) ==
  /\ construction.resources = snapshot
  /\ \A i \in DOMAIN construction.records :
       construction.records[i].license = construction.license

Profile(version, counts, observed) ==
  /\ (IF version = 2 THEN Required2 ELSE Required) \subseteq observed
  /\ version = 2 => counts = Counts2

-----------------------------------------------------------------------------
(* build_demonstration_corpus *)

Evaluation == {"test", "adversarial"}

Buildable(construction, resources) ==
  LET records == construction.records
      released == [i \in DOMAIN records |-> Released(records[i], construction, resources)]
  IN  /\ \A i, j \in DOMAIN records :
           \/ records[i].id = records[j].id
           \/ records[i].source = records[j].source
           => i = j
      /\ Provenance(construction, Canonical(resources))
      /\ \A i \in DOMAIN records : /\ Materializes(records[i])
                                   /\ Trainable(IR(records[i], resources), resources)
      /\ \A i, j \in DOMAIN records :
           Normal(records[i].text) = Normal(records[j].text)
             => records[i].split = records[j].split
      /\ \A i, j \in DOMAIN records :
           records[i].split = "train" /\ records[j].split \in Evaluation
             => Composition(released[i].features) # Composition(released[j].features)
      /\ \A s \in Splits : \E i \in DOMAIN records : records[i].split = s
      /\ Profile(construction.version,
                 [s \in Splits |-> Cardinality({i \in DOMAIN records : records[i].split = s})],
                 UNION {released[i].features : i \in DOMAIN records})

LicenseInventory(records) ==
  {[record |-> records[i].id, source |-> records[i].source, license |-> records[i].license]
     : i \in DOMAIN records}

\* How many records show a feature, and in which splits.
Coverage(released) ==
  LET Showing(f) == {i \in DOMAIN released : f \in released[i].features}
  IN  [f \in UNION {released[i].features : i \in DOMAIN released} |->
         [count |-> Cardinality(Showing(f)), splits |-> {released[i].split : i \in Showing(f)}]]

Card(construction, counts, coverage) ==
  [version |-> construction.version, counts |-> counts,
   features |-> Cardinality(DOMAIN coverage)]

Manifest(files) ==
  [version      |-> files.construction.version,
   construction |-> files.construction,
   counts       |-> [s \in Splits |-> Len(files[s])],
   profiles     |-> UNION {{files[s][i].target.profile : i \in DOMAIN files[s]} : s \in Splits},
   artifacts    |-> [f \in Data |-> files[f]]]

Checksums(files) == [f \in Files \ {"checksums"} |-> files[f]]

DataFiles(construction, resources) ==
  LET records == construction.records
      coverage == Coverage([i \in DOMAIN records |->
                              Released(records[i], construction, resources)])
      Of(s) == LET taken == InSplit(records, s)
               IN  [i \in DOMAIN taken |-> Released(taken[i], construction, resources)]
  IN  [f \in Data |->
         IF f \in Splits THEN Of(f)
         ELSE IF f = "construction" THEN construction
         ELSE IF f = "resources" THEN Canonical(resources)
         ELSE [licenses |-> LicenseInventory(records), coverage |-> coverage,
               card |-> Card(construction, [s \in Splits |-> Len(Of(s))], coverage)]]

\* The manifest is made of the data, the list of checksums of both.
WithManifest(data) ==
  [f \in Data \union {"manifest"} |-> IF f = "manifest" THEN Manifest(data) ELSE data[f]]

Artifacts(construction, resources) ==
  LET sealed == WithManifest(DataFiles(construction, resources))
  IN  [f \in Files |-> IF f = "checksums" THEN Checksums(sealed) ELSE sealed[f]]

-----------------------------------------------------------------------------
(* verify_demonstration_corpus: rebuild and compare every byte. *)

Verifies(files) ==
  /\ DOMAIN files = Files
  /\ Buildable(files.construction, files.resources)
  /\ files = Artifacts(files.construction, files.resources)

-----------------------------------------------------------------------------
(* read_training_release *)

\* What a training configuration pins: CorpusSelectionV1.
Selection(files) == [version    |-> files.manifest.version,
                     manifest   |-> files.manifest,
                     train      |-> files.train,
                     validation |-> files.validation]

\* The list of checksums names every other file once, with its digest.
Listed(files) ==
  /\ DOMAIN files.checksums = Files \ {"checksums"}
  /\ \A f \in DOMAIN files.checksums : files.checksums[f] = files[f]

\* The size of a file, in the entries it lists; the manifest and the list of
\* checksums have a fixed number of them.
Size(f, content) ==
  CASE f \in Splits       -> Len(content)
    [] f = "construction" -> Len(content.records)
    [] f = "resources"    -> Cardinality(DOMAIN content.terms)
    [] f = "reports"      -> Cardinality(content.licenses)

\* The reader bounds each file and their sum, by the sizes the manifest declares.
WithinLimits(files) ==
  LET sizes == [f \in Data |-> Size(f, files.manifest.artifacts[f])]
  IN  /\ \A f \in Data : sizes[f] <= Capacity.file
      /\ FoldFunction(+, 0, sizes) <= Capacity.total

\* A fault: the list of checksums stands for the identities in the manifest.
SealedByTheList(files, pin) ==
  /\ DOMAIN files = Files
  /\ files.manifest = pin.manifest
  /\ files.manifest.version = pin.version
  /\ DOMAIN files.manifest.artifacts = Data
  /\ WithinLimits(files)
  /\ Listed(files)
  /\ files.manifest.artifacts.train = pin.train
  /\ files.manifest.artifacts.validation = pin.validation
  /\ files.manifest.construction = files.manifest.artifacts.construction
  /\ files.construction.version = files.manifest.version

Sealed(files, pin) ==
  /\ DOMAIN files = Files
  /\ files.manifest = pin.manifest
  /\ files.manifest.version = pin.version
  /\ DOMAIN files.manifest.artifacts = Data
  /\ WithinLimits(files)
  /\ Listed(files)
  /\ \A f \in Data : files.manifest.artifacts[f] = files[f]
  /\ files.manifest.artifacts.train = pin.train
  /\ files.manifest.artifacts.validation = pin.validation
  /\ files.manifest.construction = files.manifest.artifacts.construction
  /\ files.construction.version = files.manifest.version

Places(files) == UNION {{<<s, i>> : i \in DOMAIN files[s]} : s \in Splits}
At(files, place) == files[place[1]][place[2]]
RecordsOf(files) == {At(files, p) : p \in Places(files)}

\* Each line of a split is a record of that split, filed under its document.
LinesHold(files, split) ==
  /\ files[split] # <<>>
  /\ \A i \in DOMAIN files[split] : /\ files[split][i].split = split
                                   /\ files[split][i].id = files[split][i].ir.document.id

Inventory(files) ==
  LET ids == [i \in DOMAIN files.construction.records |-> files.construction.records[i].id]
  IN  /\ \A s \in Splits : LinesHold(files, s)
      /\ \A p, q \in Places(files) :
           \/ At(files, p).id = At(files, q).id
           \/ At(files, p).source.id = At(files, q).source.id
           => p = q
      /\ files.manifest.counts = [s \in Splits |-> Len(files[s])]
      /\ files.manifest.profiles = {r.target.profile : r \in RecordsOf(files)}
      /\ IsInjective(ids)
      /\ Range(ids) = {r.id : r \in RecordsOf(files)}

\* A fault: validation records are held out as well.
NothingRepeats(files) ==
  /\ \A q, r \in RecordsOf(files) :
       Normal(q.source.text) = Normal(r.source.text) => q.split = r.split
  /\ \A q, r \in RecordsOf(files) :
       q.split = "train" /\ r.split # "train"
         => Composition(q.features) # Composition(r.features)

NothingLeaks(files) ==
  /\ \A q, r \in RecordsOf(files) :
       Normal(q.source.text) = Normal(r.source.text) => q.split = r.split
  /\ \A q, r \in RecordsOf(files) :
       q.split = "train" /\ r.split \in Evaluation
         => Composition(q.features) # Composition(r.features)

SpansHold(record) ==
  \A n \in Range(record.ir.document.claims) :
    LET span == record.ir.spans[n]
    IN  /\ span.source = record.source.id
        /\ span.start \in DOMAIN record.source.text
        /\ span.quote \notin Spaces
        /\ record.source.text[span.start] = span.quote

\* A record says what the construction says of its source, and holds its document.
MadeFrom(record, made, resources) ==
  /\ made.id = record.id
  /\ made.split = record.split
  /\ record.source = [id |-> made.source, text |-> made.text, license |-> made.license]
  /\ Materializes(made)
  /\ IR(made, resources) = record.ir

\* A fault: the features of a record are believed.
RecordHoldsAsLabelled(record, construction, resources) ==
  /\ \E i \in DOMAIN construction.records : MadeFrom(record, construction.records[i], resources)
  /\ SpansHold(record)
  /\ Trainable(record.ir, resources)
  /\ Target(record.ir, resources) = record.target

RecordHolds(record, construction, resources) ==
  /\ \E i \in DOMAIN construction.records : MadeFrom(record, construction.records[i], resources)
  /\ SpansHold(record)
  /\ Features(record.ir.document, record.source.text, construction.version, resources)
       = record.features
  /\ Trainable(record.ir, resources)
  /\ Target(record.ir, resources) = record.target

Accepts(files, pin) ==
  /\ Sealed(files, pin)
  /\ Inventory(files)
  /\ Provenance(files.construction, files.resources)
  /\ NothingLeaks(files)
  /\ \A r \in RecordsOf(files) : RecordHolds(r, files.construction, files.resources)
  /\ Profile(files.manifest.version, files.manifest.counts,
             UNION {r.features : r \in RecordsOf(files)})

\* The reader opens no file that has a second name.
Reads(files, pin) == ~ linked /\ Accepts(files, pin)

-----------------------------------------------------------------------------
(* The directory and those who write to it. *)

Nothing == [f \in {} |-> 0]

ReleaseInit ==
  /\ directory = Nothing
  /\ linked = FALSE
  /\ builder = [b \in Builders |-> [at |-> "idle"]]
  /\ disturbed = 0

\* Everything is built in memory; the output must be empty, or not exist, when
\* the writing starts.  A build that fails before leaves nothing.
CheckEmpty(b, construction, resources) ==
  /\ builder[b].at = "idle"
  /\ directory = Nothing
  /\ Buildable(construction, resources)
  /\ builder' = [builder EXCEPT ![b] =
                   [at |-> "writing", written |-> 0,
                    construction |-> construction, resources |-> Canonical(resources)]]
  /\ UNCHANGED <<directory, linked, disturbed>>

WriteNext(b) ==
  /\ builder[b].at = "writing"
  /\ LET n == builder[b].written + 1
         files == Artifacts(builder[b].construction, builder[b].resources)
         name == FileOrder[n]
     IN  /\ directory' = [f \in DOMAIN directory \union {name} |->
                            IF f = name THEN files[name] ELSE directory[f]]
         /\ builder' = [builder EXCEPT ![b].written = n,
                          ![b].at = IF n = Len(FileOrder) THEN "ended" ELSE "writing"]
  /\ UNCHANGED <<linked, disturbed>>

\* The process ends, or a write fails, with some of the files written.
StopWriting(b) ==
  /\ builder[b].at = "writing"
  /\ builder' = [builder EXCEPT ![b] = [at |-> "stopped"]]
  /\ UNCHANGED <<directory, linked, disturbed>>

\* Others change a complete release that nobody writes.
MayDisturb ==
  /\ disturbed < Disturbances
  /\ DOMAIN directory = Files
  /\ \A b \in Builders : builder[b].at # "writing"

Started == {b \in Builders : builder[b].at # "idle"}

\* A bound: only one that a single builder wrote is altered.
MayAlter ==
  /\ MayDisturb
  /\ Cardinality(Started) = 1

\* The ways a record is altered: what it says, and what it was derived from.
Altered(record) ==
  {[record EXCEPT !.features = @ \ {f}] : f \in record.features}
    \union {[record EXCEPT !.source.text = Append(@, t)] : t \in Spaces}
    \union {[record EXCEPT !.target.realizes = r] : r \in {At(directory, p).id : p \in Places(directory)}}
    \union {[record EXCEPT !.ir.spans[n].start = @ + 1] : n \in DOMAIN record.ir.spans}

Disturb(name, content) ==
  /\ directory' = [directory EXCEPT ![name] = content]
  /\ directory' # directory
  /\ disturbed' = disturbed + 1
  /\ UNCHANGED <<builder, linked>>

AlterRecord == MayAlter /\ \E p \in Places(directory) : \E r \in Altered(At(directory, p)) :
  Disturb(p[1], [directory[p[1]] EXCEPT ![p[2]] = r])

Reorder == MayAlter /\ \E s \in Splits : Len(directory[s]) > 1
  /\ Disturb(s, [i \in DOMAIN directory[s] |-> directory[s][Len(directory[s]) + 1 - i]])

DropRecord == MayAlter /\ \E s \in Splits : directory[s] # <<>> /\ Disturb(s, Tail(directory[s]))

AlterInputs == MayAlter
  /\ \/ \E c \in Constructions : Disturb("construction", c)
     \/ \E r \in Resources : Disturb("resources", r)
     \/ Disturb("reports", [directory.reports EXCEPT !.licenses = {}])

\* Whoever changed the files lists their digests again, or makes a manifest
\* that fits them too.
Relist == MayDisturb /\ Disturb("checksums", Checksums(directory))

Reseal ==
  /\ MayDisturb
  /\ LET fitting == [directory EXCEPT !.manifest = Manifest(directory)]
     IN  directory' = [fitting EXCEPT !.checksums = Checksums(fitting)]
  /\ directory' # directory
  /\ disturbed' = disturbed + 1
  /\ UNCHANGED <<builder, linked>>

\* A file is given a second name, or loses it.
Link ==
  /\ MayDisturb
  /\ linked' = ~ linked
  /\ disturbed' = disturbed + 1
  /\ UNCHANGED <<directory, builder>>

Building ==
  \E b \in Builders : \/ \E c \in Constructions, r \in Resources : CheckEmpty(b, c, r)
                      \/ WriteNext(b)
                      \/ StopWriting(b)

Disturbing == AlterRecord \/ Reorder \/ DropRecord \/ AlterInputs \/ Relist \/ Reseal \/ Link
-----------------------------------------------------------------------------
(* What makes a release trustworthy. *)

\* What the reader accepts, whoever wrote it and whatever was pinned, is what
\* its construction leads to: the same records, each derived by the builder's
\* own rules, none of them lost, and no text or composition of the held-out
\* splits among those trained on (release_reader.py:341-539 repeats by other
\* means what release.py:573-693 does).  Only the spelling of the resource
\* snapshot is left to its digest: the reader compares the bytes it has
\* (release_reader.py:441), the builder those it would write (release.py:588).
Derived(files) ==
  LET made == files.construction.records
  IN  /\ RecordsOf(files) =
           {Released(made[i], files.construction, files.resources) : i \in DOMAIN made}
      /\ Buildable([files.construction EXCEPT !.resources = Canonical(@)], files.resources)

AcceptedIsDerived ==
  DOMAIN directory = Files /\ Accepts(directory, Selection(directory)) => Derived(directory)

\* When the pinned digests are those of the manifest a build returned, what is
\* accepted is that build, file by file (but for the order of the lines in the
\* list of checksums), although another build may have
\* written into the same directory (release.py:544-551 tests for emptiness and
\* then writes) and although others may have changed files since.
AcceptedIsThePinnedBuild ==
  \A b \in Builders : builder[b].at = "ended" =>
    LET built == Artifacts(builder[b].construction, builder[b].resources)
    IN  Accepts(directory, Selection(built)) =>
          \A f \in Files \ {"checksums"} : directory[f] = built[f]

\* What verify_demonstration_corpus accepts by rebuilding it (release.py:784),
\* as it does what an undisturbed build wrote, the reader accepts too: what it
\* asks of the records is nowhere stricter than what the builder does.  It is
\* stricter about the files, whose sizes and links neither the builder nor the
\* verification looks at (release_reader.py:143-148, 221-224): a release beyond
\* its limits, or with a hard-linked file, is excepted.
VerifiedIsAccepted ==
  /\ Verifies(directory) /\ WithinLimits(directory) /\ ~ linked
       => Reads(directory, Selection(directory))
  /\ \A b \in Builders :
       /\ builder[b].at = "ended"
       /\ \A other \in Builders \ {b} : builder[other].at = "idle"
       /\ disturbed = 0
       => Verifies(directory) /\ ~ linked
=============================================================================
