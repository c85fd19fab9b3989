--------------------------- MODULE ReleaseSource ---------------------------
(***************************************************************************)
(* A release job on a Git checkout that others may change meanwhile:       *)
(* validate-ref of scripts/release/release_contract.py fixes the release   *)
(* identity, build_candidate_directory of release_candidates.py packages   *)
(* the dataset and the report of exactly that commit.                      *)
(*                                                                         *)
(* A step is one Git command or one file read.  The bytes of a tracked     *)
(* file are the commit whose blob they equal, or Edited; a digest is the   *)
(* value it was computed from.  How the candidate directory appears at its *)
(* path is the subject of DirectoryPublication.                            *)
(***************************************************************************)
EXTENDS Naturals

CONSTANTS
    Commit,           \* commits a checkout may be at
    Version,          \* package versions; a tag is named by its version
    Edited,           \* bytes no commit has
    None,             \* no tag, no file, no dependency
    ProjectVersion,   \* version in pyproject.toml, for the bytes of each commit and for Edited
    CitationVersion,  \* version in CITATION.cff, likewise
    InitialTags,      \* the tag of each version when the job begins
    Reproducible,     \* bytes of a dataset, and of a report, that their own inputs reproduce
    MaxChanges        \* bound on what others change

ASSUME SourceAssumption ==
    /\ Edited \notin Commit
    /\ None \notin Commit \cup Version
    /\ MaxChanges \in Nat

Bytes == Commit \cup {Edited}
Mode == {"dry-run", "tag"}
TrackedFile == {"project", "citation", "corpus", "benchmark"}
TagRef == [annotated : BOOLEAN, commit : Commit \cup {None}]
Request == [mode : Mode, commit : Commit, tag : Version \cup {None}]

VARIABLES
    head,      \* the commit HEAD names
    worktree,  \* the bytes of each tracked file in the checkout
    tagRef,    \* the tag of each version: whether annotated, and its commit
    request,   \* what the job was asked to release
    job,       \* where the job is, or how it ended
    version,   \* the project version validate-ref has read
    identity,  \* the identity it accepted
    payload,   \* the tracked bytes the candidates are made of
    changes    \* changes made by others so far

repoVars == <<head, worktree, tagRef>>
jobVars == <<request, version, identity, payload>>
sourceVars == <<repoVars, jobVars, job, changes>>

SourceInit ==
    /\ head \in Commit
    /\ worktree = [f \in TrackedFile |-> head]
    /\ tagRef = InitialTags
    /\ request \in Request
    /\ job = "start"
    /\ version = None
    /\ identity = None
    /\ payload = [corpus |-> None, benchmark |-> None]
    /\ changes = 0

\* A failed check ends the job: no later step of the workflow is run.
JobStep(at, condition, next) ==
    /\ job = at
    /\ job' = IF condition THEN next ELSE "rejected"
    /\ UNCHANGED <<repoVars, request, changes>>

----------------------------------------------------------------------------
(* validate_release_ref                                                    *)

CheckHead ==
    /\ JobStep("start", head = request.commit, "status")
    /\ UNCHANGED <<version, identity, payload>>

CheckClean ==
    /\ JobStep("status", \A f \in TrackedFile : worktree[f] = head, "project")
    /\ UNCHANGED <<version, identity, payload>>

ReadProjectVersion ==
    /\ JobStep("project", TRUE, "citation")
    /\ version' = ProjectVersion[worktree["project"]]
    /\ UNCHANGED <<identity, payload>>

\* The citation agrees, and in tag mode the tag is named by the version.
CheckCitation ==
    /\ JobStep("citation",
               /\ CitationVersion[worktree["citation"]] = version
               /\ request.tag = IF request.mode = "tag" THEN version ELSE None,
               IF request.mode = "tag" THEN "tagType" ELSE "identity")
    /\ UNCHANGED <<version, identity, payload>>

CheckTagType ==
    /\ JobStep("tagType", tagRef[request.tag].annotated, "tagCommit")
    /\ UNCHANGED <<version, identity, payload>>

CheckTagCommit ==
    /\ JobStep("tagCommit", tagRef[request.tag].commit = request.commit, "identity")
    /\ UNCHANGED <<version, identity, payload>>

WriteIdentity ==
    /\ JobStep("identity", TRUE, "bindHead")
    /\ identity' = [mode |-> request.mode, commit |-> request.commit,
                    version |-> version, tag |-> request.tag]
    /\ UNCHANGED <<version, payload>>

----------------------------------------------------------------------------
(* build_candidate_directory                                               *)

\* A tracked file is used only if its bytes are those of the commit's blob.
IsCommitted(f) == worktree[f] = identity.commit

BindHead ==
    /\ JobStep("bindHead", head = identity.commit, "bindClean")
    /\ UNCHANGED <<version, identity, payload>>

BindClean ==
    /\ JobStep("bindClean", \A f \in TrackedFile : worktree[f] = head, "bindProject")
    /\ UNCHANGED <<version, identity, payload>>

BindProject ==
    /\ JobStep("bindProject",
               IsCommitted("project") /\ ProjectVersion[worktree["project"]] = identity.version,
               "bindCitation")
    /\ UNCHANGED <<version, identity, payload>>

BindCitation ==
    /\ JobStep("bindCitation",
               IsCommitted("citation") /\ CitationVersion[worktree["citation"]] = identity.version,
               "readCorpus")
    /\ UNCHANGED <<version, identity, payload>>

\* Fault: the bytes in the checkout are not compared with the blob.
RebuildDatasetUnchecked ==
    /\ JobStep("readCorpus", worktree["corpus"] \in Reproducible, "readBenchmark")
    /\ payload' = [payload EXCEPT !.corpus = worktree["corpus"]]
    /\ UNCHANGED <<version, identity>>

RebuildDataset ==
    /\ JobStep("readCorpus",
               IsCommitted("corpus") /\ worktree["corpus"] \in Reproducible, "readBenchmark")
    /\ payload' = [payload EXCEPT !.corpus = worktree["corpus"]]
    /\ UNCHANGED <<version, identity>>

RegenerateReport ==
    /\ JobStep("readBenchmark",
               IsCommitted("benchmark") /\ worktree["benchmark"] \in Reproducible, "package")
    /\ payload' = [payload EXCEPT !.benchmark = worktree["benchmark"]]
    /\ UNCHANGED <<version, identity>>

\* An archive embeds the release identity; the report also names the dataset
\* archive it was computed with.
Candidate(kind, id, bytes, dependency) ==
    [kind |-> kind, id |-> id, corpus |-> bytes.corpus,
     benchmark |-> IF kind = "report" THEN bytes.benchmark ELSE None,
     dependency |-> dependency]

Archive(id, bytes) ==
    LET dataset == Candidate("dataset", id, bytes, None)
    IN  [dataset |-> dataset, report |-> Candidate("report", id, bytes, dataset)]

\* The archive's own manifest names its kind and the release identity.
ReadsAs(archive, kind, id) == archive.kind = kind /\ archive.id = id

\* The report depends on one archive, this very dataset, which has no dependency.
DependsOn(report, dataset) == dataset.dependency = None /\ report.dependency = dataset

\* The dataset is built again from its own inputs, and the report of the
\* packaged records again with the packaged dataset.
Reconstructs(dataset) == dataset.corpus \in Reproducible
Regenerates(report, dataset) ==
    report.corpus = dataset.corpus /\ report.benchmark \in Reproducible

CandidatesVerify(dataset, report, id) ==
    /\ ReadsAs(dataset, "dataset", id) /\ ReadsAs(report, "report", id)
    /\ DependsOn(report, dataset)
    /\ Reconstructs(dataset)
    /\ Regenerates(report, dataset)

SourceStep ==
    \/ CheckHead \/ CheckClean \/ ReadProjectVersion \/ CheckCitation
    \/ CheckTagType \/ CheckTagCommit \/ WriteIdentity
    \/ BindHead \/ BindClean \/ BindProject \/ BindCitation
    \/ RebuildDataset \/ RegenerateReport

----------------------------------------------------------------------------
(* What others do to the repository, as long as the job reads it.          *)

Change ==
    /\ job \notin {"rejected", "package"}
    /\ changes < MaxChanges
    /\ changes' = changes + 1
    /\ UNCHANGED <<jobVars, job>>

Checkout(c) ==
    /\ Change
    /\ head' = c
    /\ worktree' = [f \in TrackedFile |-> c]
    /\ UNCHANGED tagRef

Edit(f, b) ==
    /\ Change
    /\ worktree' = [worktree EXCEPT ![f] = b]
    /\ UNCHANGED <<head, tagRef>>

Retag(v, ref) ==
    /\ Change
    /\ tagRef' = [tagRef EXCEPT ![v] = ref]
    /\ UNCHANGED <<head, worktree>>

RepositoryChanges ==
    \/ \E c \in Commit : Checkout(c)
    \/ \E f \in TrackedFile, b \in Bytes : Edit(f, b)
    \/ \E v \in Version, ref \in TagRef : Retag(v, ref)
=============================================================================
