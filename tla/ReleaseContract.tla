-------------------------- MODULE ReleaseContract --------------------------
(***************************************************************************)
(* The release directory of scripts/release/release_contract.py: the job   *)
(* of ReleaseSource stages its artifacts there and finalizes them          *)
(* (finalize_release), a verifier checks the bundle                        *)
(* (verify_release_bundle), and files may change at any moment.            *)
(*                                                                         *)
(* A path has an inode and a stamp; the stamp stands for the stat identity *)
(* the code compares: every change, in place or by replacement, gives the  *)
(* path a stamp it never had.  A digest is the bytes it was computed from. *)
(***************************************************************************)
EXTENDS ReleaseSource, Sequences

CONSTANTS
    Expected,       \* the commit and mode the verifier asks for
    Genuine,        \* identities of other jobs, whose builds others copy in
    Forgeries,      \* archives no job built, sealed like a job's and copied in
    Sboms,          \* bytes that are an SPDX document
    Partial,        \* bytes that are none of what is expected
    MaxFaults       \* bound on interrupted finalizations

\* What _parse_identity accepts; an identity it refuses is Partial bytes.
Identity ==
    {id \in [mode : Mode, commit : Commit, version : Version, tag : Version \cup {None}] :
        id.tag = IF id.mode = "tag" THEN id.version ELSE None}

\* Other jobs have bound their version to their commit as well.  A forger may
\* seal any bytes under any identity.
ASSUME ContractAssumption ==
    /\ Expected \in [commit : Commit, mode : Mode]
    /\ Genuine \subseteq Identity
    /\ \A id \in Genuine : id.version = ProjectVersion[id.commit]
    /\ \A archive \in Forgeries :
         archive.id \in Identity /\ archive.corpus \in Bytes /\ archive.benchmark \in Bytes \cup {None}
    /\ {None, Partial} \cap Sboms = {}
    /\ MaxFaults \in Nat

VARIABLES
    files,      \* the bytes under each path, None if absent
    inode,      \* the inode of each path
    stamp,      \* its stat identity
    stray,      \* whether the directory has an entry nobody expects
    pc,         \* where finalization and verification are, or how they ended
    todo,       \* what remains of the loop each is in
    seen,       \* the stamp at which it opened a path
    data,       \* the bytes it captured
    own,        \* the inode of the file finalization is writing
    witnessed,  \* whether the directory was what it answers for, at some
                \* instant of its call
    disturbed,  \* whether others changed the directory since it was staged,
                \* or verification began before finalization had ended
    faults      \* interruptions so far

rootVars == <<files, inode, stamp, stray>>
captureVars == <<todo, seen, data>>
bundleVars == <<rootVars, pc, captureVars, own, disturbed, faults>>
vars == <<sourceVars, bundleVars, witnessed>>

\* The two distributions are read, listed and confirmed like the SBOM, except
\* that their bytes are not checked: the SBOM stands for them.
Subjects == <<"dataset", "report", "sbom">>
Listed == <<"dataset", "report", "sbom", "manifest">>
Everything == <<"dataset", "report", "sbom", "manifest", "checksums">>
Subject == {"dataset", "report", "sbom"}
Path == Subject \cup {"manifest", "checksums"}
Actor == {"finalize", "verify"}
Ended == {"waiting", "rejected", "interrupted", "finalized", "accepted"}

BundleInit ==
    /\ files = [p \in Path |-> None]
    /\ inode = [p \in Path |-> 0]
    /\ stamp = [p \in Path |-> 0]
    /\ stray = FALSE
    /\ pc = [a \in Actor |-> "waiting"]
    /\ todo = [a \in Actor |-> <<>>]
    /\ seen = [a \in Actor |-> [p \in Path |-> 0]]
    /\ data = [a \in Actor |-> [p \in Path |-> None]]
    /\ own = 0
    /\ disturbed = FALSE
    /\ faults = 0

----------------------------------------------------------------------------
(* What a bundle says and when it is right.                                *)

Artifacts(bytes) == [s \in Subject |-> bytes[s]]
ManifestOf(id, bytes) == [id |-> id, artifacts |-> Artifacts(bytes)]
ChecksumsOf(bytes) == [manifest |-> bytes["manifest"], artifacts |-> Artifacts(bytes)]

Readable(b) == b \notin {None, Partial}

ContentsVerify(bytes, id) ==
    /\ Readable(bytes["dataset"]) /\ Readable(bytes["report"])
    /\ CandidatesVerify(bytes["dataset"], bytes["report"], id)
    /\ bytes["sbom"] \in Sboms

IsAskedFor(id, wanted) == id.commit = wanted.commit /\ id.mode = wanted.mode

\* The bundle is the release of the wanted commit and mode.
BundleHolds(bytes, wanted) ==
    /\ Readable(bytes["manifest"])
    /\ IsAskedFor(bytes["manifest"].id, wanted)
    /\ bytes["manifest"].artifacts = Artifacts(bytes)
    /\ ContentsVerify(bytes, bytes["manifest"].id)
    /\ bytes["checksums"] = ChecksumsOf(bytes)

\* What finalization answers for: verified artifacts, listed with the
\* manifest that is there.
SumsHold(bytes, id) ==
    /\ ContentsVerify(bytes, id)
    /\ bytes["checksums"] = ChecksumsOf(bytes)

\* What a job that was asked for a release builds.
Built(id) == Archive(id, [corpus |-> id.commit, benchmark |-> id.commit])
IdentityOf(asked) ==
    [mode |-> asked.mode, commit |-> asked.commit,
     version |-> ProjectVersion[asked.commit], tag |-> asked.tag]
BuiltSubjects(id, sbom) ==
    [dataset |-> Built(id).dataset, report |-> Built(id).report, sbom |-> sbom]

\* The metadata of such a release is neither absent nor partial.
ASSUME MetadataAssumption ==
    \A asked \in Request, sbom \in Sboms :
        LET id == IdentityOf(asked)
            subjects == BuiltSubjects(id, sbom)
            manifest == ManifestOf(id, subjects)
        IN  /\ Readable(manifest)
            /\ [manifest |-> manifest, artifacts |-> Artifacts(subjects)] # None

----------------------------------------------------------------------------
(* Steps that finalization and verification share.                         *)

Goto(a, condition, next) == pc' = [pc EXCEPT ![a] = IF condition THEN next ELSE "rejected"]
Loop(a, paths) == todo' = [todo EXCEPT ![a] = paths]
Step(a, at) ==
    /\ pc[a] = at
    /\ UNCHANGED <<sourceVars, stray, faults>>

\* The directory is listed: nothing is missing and nothing is unexpected.
Layout(a) ==
    /\ Step(a, "layout")
    /\ Goto(a, ~stray /\ {p \in Path : files[p] # None} =
                         IF a = "finalize" THEN Subject ELSE Path, "open")
    /\ Loop(a, IF a = "finalize" THEN Subjects ELSE <<"manifest">>)
    /\ UNCHANGED <<files, inode, stamp, seen, data, own, disturbed>>

Open(a) ==
    LET p == Head(todo[a])
    IN  /\ Step(a, "open")
        /\ Goto(a, files[p] # None, "read")
        /\ seen' = [seen EXCEPT ![a][p] = stamp[p]]
        /\ UNCHANGED <<files, inode, stamp, todo, data, own, disturbed>>

AfterRead(a, p) ==
    CASE p = "sbom" /\ a = "finalize" -> "candidates"
      [] p = "manifest" -> IF a = "finalize" THEN "createChecksums" ELSE "identity"
      [] p = "checksums" -> "compare"
      [] OTHER -> "open"

\* The bytes count only if the stat identity is still that of the open.
Read(a) ==
    LET p == Head(todo[a])
    IN  /\ Step(a, "read")
        /\ Goto(a, stamp[p] = seen[a][p], AfterRead(a, p))
        /\ Loop(a, Tail(todo[a]))
        /\ data' = [data EXCEPT ![a][p] = files[p]]
        /\ UNCHANGED <<files, inode, stamp, seen, own, disturbed>>

AfterConfirm(a, p) ==
    CASE p = "sbom" /\ a = "finalize" /\ data[a]["manifest"] = None -> "createManifest"
      [] p = "manifest" /\ a = "finalize" -> "finalized"
      [] p = "checksums" -> "accepted"
      [] OTHER -> "confirm"

Confirm(a) ==
    LET p == Head(todo[a])
    IN  /\ Step(a, "confirm")
        /\ Goto(a, stamp[p] = seen[a][p], AfterConfirm(a, p))
        /\ Loop(a, Tail(todo[a]))
        /\ UNCHANGED <<files, inode, stamp, seen, data, own, disturbed>>

----------------------------------------------------------------------------
(* finalize_release                                                        *)

\* The workflow moves the candidates in and generates the other artifacts.
Stage ==
    /\ job = "package" /\ pc["finalize"] = "waiting"
    /\ \E s \in Sboms :
         files' = [p \in Path |->
                     CASE p = "dataset" -> Archive(identity, payload).dataset
                       [] p = "report" -> Archive(identity, payload).report
                       [] p = "sbom" -> s
                       [] OTHER -> None]
    /\ inode' = [p \in Path |-> 1]
    /\ stamp' = [p \in Path |-> 1]
    /\ pc' = [pc EXCEPT !["finalize"] = "layout"]
    /\ UNCHANGED <<sourceVars, stray, captureVars, own, disturbed, faults>>

\* The code parses the captured SBOM after it has looked at the files again,
\* and writes nothing in between: the order of the two makes no difference.
VerifyCandidates ==
    /\ Step("finalize", "candidates")
    /\ Goto("finalize", ContentsVerify(data["finalize"], identity), "confirm")
    /\ Loop("finalize", Subjects)
    /\ UNCHANGED <<files, inode, stamp, seen, data, own, disturbed>>

\* O_EXCL: a name that exists is refused.
Create(p, at, next) ==
    /\ Step("finalize", at)
    /\ Goto("finalize", files[p] = None, next)
    /\ IF files[p] = None
       THEN /\ files' = [files EXCEPT ![p] = Partial]
            /\ stamp' = [stamp EXCEPT ![p] = @ + 1]
            /\ inode' = [inode EXCEPT ![p] = stamp[p] + 1]
            /\ own' = stamp[p] + 1
       ELSE UNCHANGED <<files, stamp, inode, own>>
    /\ UNCHANGED <<captureVars, disturbed>>

\* What is written through the descriptor shows only while its inode is named.
Write(p, bytes, at, next) ==
    /\ Step("finalize", at)
    /\ Goto("finalize", TRUE, next)
    /\ IF inode[p] = own
       THEN /\ files' = [files EXCEPT ![p] = bytes]
            /\ stamp' = [stamp EXCEPT ![p] = @ + 1]
       ELSE UNCHANGED <<files, stamp>>
    /\ UNCHANGED <<inode, captureVars, own, disturbed>>

\* The name must still be the written file, and of the written size: bytes
\* that others put there may have the same size.
StatWritten(p, bytes, at, next, paths) ==
    /\ Step("finalize", at)
    /\ \E sameSize \in BOOLEAN :
         Goto("finalize", inode[p] = own /\ (files[p] = bytes \/ sameSize), next)
    /\ Loop("finalize", paths)
    /\ UNCHANGED <<files, inode, stamp, seen, data, own, disturbed>>

\* Fault: the tag is left out of the manifest.
NewManifestUntagged == ManifestOf([identity EXCEPT !.tag = None], data["finalize"])

NewManifest == ManifestOf(identity, data["finalize"])

NewChecksums == ChecksumsOf(data["finalize"])

WriteManifest ==
    \/ Create("manifest", "createManifest", "writeManifest")
    \/ Write("manifest", NewManifest, "writeManifest", "statManifest")
    \/ StatWritten("manifest", NewManifest, "statManifest", "open", <<"manifest">>)

WriteChecksums ==
    \/ Create("checksums", "createChecksums", "writeChecksums")
    \/ Write("checksums", NewChecksums, "writeChecksums", "statChecksums")
    \/ StatWritten("checksums", NewChecksums, "statChecksums", "confirm", Listed)

\* An I/O error or a kill: what is on disk stays.  Before the first file is
\* created it leaves what a rejection leaves.
Interrupt ==
    /\ pc["finalize"] \notin Ended /\ own # 0
    /\ faults < MaxFaults
    /\ faults' = faults + 1
    /\ pc' = [pc EXCEPT !["finalize"] = "interrupted"]
    /\ UNCHANGED <<sourceVars, rootVars, captureVars, own, disturbed>>

----------------------------------------------------------------------------
(* verify_release_bundle                                                   *)

\* A verification that lists the directory before the job has created the
\* last file is refused and leaves nothing: it is not followed.
StartVerify ==
    /\ pc["verify"] = "waiting"
    /\ pc["finalize"] \in Ended \ {"waiting"} \/ files["checksums"] # None
    /\ pc' = [pc EXCEPT !["verify"] = "layout"]
    /\ disturbed' = (disturbed \/ pc["finalize"] # "finalized")
    /\ UNCHANGED <<sourceVars, rootVars, captureVars, own, faults>>

\* The manifest must be for what the caller asks, and its subjects be there.
CheckIdentity ==
    LET manifest == data["verify"]["manifest"]
    IN  /\ Step("verify", "identity")
        /\ Goto("verify", /\ Readable(manifest) /\ IsAskedFor(manifest.id, Expected)
                          /\ \A s \in Subject : files[s] # None, "open")
        /\ Loop("verify", Subjects \o <<"checksums">>)
        /\ UNCHANGED <<files, inode, stamp, seen, data, own, disturbed>>

\* Fault: nothing is looked at again after the comparison.
CompareLast ==
    /\ Step("verify", "compare")
    /\ Goto("verify", BundleHolds(data["verify"], Expected), "accepted")
    /\ Loop("verify", <<>>)
    /\ UNCHANGED <<files, inode, stamp, seen, data, own, disturbed>>

Compare ==
    /\ Step("verify", "compare")
    /\ Goto("verify", BundleHolds(data["verify"], Expected), "confirm")
    /\ Loop("verify", Everything)
    /\ UNCHANGED <<files, inode, stamp, seen, data, own, disturbed>>

----------------------------------------------------------------------------
(* What others do to the directory.                                        *)

Forged(kind) == {archive \in Forgeries : archive.kind = kind}
ForeignIdentity == Genuine \cup {archive.id : archive \in Forgeries}

\* Others copy in what some job built or a forger made, metadata made for the
\* files that are there, or something unreadable.
Foreign(p) ==
    CASE p = "dataset" -> {Built(id).dataset : id \in Genuine} \cup Forged("dataset")
      [] p = "report" -> {Built(id).report : id \in Genuine} \cup Forged("report")
      [] p = "sbom" -> Sboms \cup {Partial}
      [] p = "manifest" -> {ManifestOf(id, files) : id \in ForeignIdentity} \cup {Partial}
      [] p = "checksums" -> {ChecksumsOf(files), Partial}

RootChange ==
    /\ pc["finalize"] # "waiting" /\ pc["verify"] \notin {"rejected", "accepted"}
    /\ changes < MaxChanges
    /\ changes' = changes + 1
    /\ disturbed' = TRUE
    /\ UNCHANGED <<repoVars, jobVars, job, pc, captureVars, own, faults>>

Alter(p, bytes, i) ==
    /\ RootChange
    /\ files' = [files EXCEPT ![p] = bytes]
    /\ stamp' = [stamp EXCEPT ![p] = @ + 1]
    /\ inode' = [inode EXCEPT ![p] = i]
    /\ UNCHANGED stray

\* A replaced file has a new inode; only the job's own files are ever told
\* from files of another inode, so only they are also altered in place.
RootChanges ==
    \/ \E p \in Path : \E bytes \in Foreign(p) \cup {None} :
         Alter(p, bytes, stamp[p] + 1)
    \/ \E p \in Path \ Subject : \E bytes \in Foreign(p) :
         files[p] # None /\ Alter(p, bytes, inode[p])
    \/ RootChange /\ stray' = TRUE /\ UNCHANGED <<files, stamp, inode>>

----------------------------------------------------------------------------
BundleStep ==
    \/ Stage \/ VerifyCandidates \/ WriteManifest \/ WriteChecksums \/ Interrupt
    \/ StartVerify \/ CheckIdentity \/ Compare
    \/ \E a \in Actor : Layout(a) \/ Open(a) \/ Read(a) \/ Confirm(a)
    \/ RootChanges

\* History: what the directory was at some instant while the call was running.
Watch ==
    witnessed' = [a \in Actor |->
        \/ witnessed[a]
        \/ /\ pc'[a] \notin Ended
           /\ IF a = "verify" THEN BundleHolds(files', Expected) ELSE SumsHold(files', identity')]

Init == SourceInit /\ BundleInit /\ witnessed = [a \in Actor |-> FALSE]

Next ==
    /\ \/ (SourceStep \/ RepositoryChanges) /\ UNCHANGED bundleVars
       \/ BundleStep
    /\ Watch

Spec == Init /\ [][Next]_vars

----------------------------------------------------------------------------
(* Properties.                                                             *)

\* A bundle that is accepted was the wanted release at one instant of the
\* call, all files together, although they were read one after the other
\* while others could change them; a finalization that succeeds has likewise
\* listed artifacts that were there, verified, at one instant.
HeldAtOneInstant ==
    /\ pc["verify"] = "accepted" => witnessed["verify"]
    /\ pc["finalize"] = "finalized" => witnessed["finalize"]

\* The candidates of an accepted bundle name the wanted commit, the report is
\* that of this very dataset, and each of them that some job built, in this
\* directory or another, holds the bytes and the version of that commit,
\* however the checkout and the directory changed meanwhile.  Of a candidate no
\* job built verification shows no more than that it is consistent: it never
\* asks Git for the bytes.
AcceptedIsTheCommit ==
    pc["verify"] = "accepted" =>
      LET dataset == data["verify"]["dataset"]
          report == data["verify"]["report"] IN
      /\ dataset.id = data["verify"]["manifest"].id /\ report.id = dataset.id
      /\ dataset.id.commit = Expected.commit
      /\ report.dependency = dataset /\ report.corpus = dataset.corpus
      /\ dataset \notin Forgeries =>
           /\ dataset.corpus = Expected.commit
           /\ dataset.id.version = ProjectVersion[Expected.commit]
      /\ report \notin Forgeries => report.benchmark = Expected.commit

\* A finalized release that nobody touched is accepted when it is asked for.
UntouchedIsAccepted ==
    pc["verify"] = "rejected" /\ ~disturbed => ~IsAskedFor(identity, Expected)
=============================================================================
