----------------------- MODULE ReleaseContractProofs -----------------------
(***************************************************************************)
(* Proofs about ReleaseContract.  Files are read one after the other, and  *)
(* any of them may change afterwards; the last loop of a call compares     *)
(* them again, also one after the other.  The argument: if no file had     *)
(* changed when the loop began, the directory was right at that instant;   *)
(* and a file that had changed keeps its new stamp until the loop finds it.*)
(***************************************************************************)
EXTENDS ReleaseContract, SequenceTheorems, TLAPS

Labels == Ended \cup
    {"layout", "open", "read", "candidates", "confirm", "createManifest", "writeManifest",
     "statManifest", "createChecksums", "writeChecksums", "statChecksums", "identity", "compare"}

BundleTypeOK ==
    /\ files = [p \in Path |-> files[p]]
    /\ stamp \in [Path -> Nat]
    /\ inode \in [Path -> Nat]
    /\ pc \in [Actor -> Labels]
    /\ todo = [a \in Actor |-> todo[a]]
    /\ seen \in [Actor -> [Path -> Nat]]
    /\ data = [a \in Actor |-> [p \in Path |-> data[a][p]]]
    /\ own \in Nat
    /\ witnessed \in [Actor -> BOOLEAN]

\* Until the artifacts are staged there is nothing in the directory.
WaitingInv ==
    /\ pc["finalize"] = "waiting" =>
         /\ pc["verify"] = "waiting"
         /\ \A p \in Path : stamp[p] = 0 /\ files[p] = None
         /\ \A a \in Actor, p \in Path : seen[a][p] = 0
    /\ pc["finalize"] # "waiting" => job = "package"
    /\ \A p \in Path : inode[p] <= stamp[p]

SeenInv == \A a \in Actor, p \in Path : seen[a][p] <= stamp[p]

\* A path whose stamp is still the one that was seen holds what was captured,
\* unless it is just being read.
Reading(a, p) == pc[a] = "read" /\ p = Head(todo[a])
FreshInv ==
    \A a \in Actor, p \in Path :
        /\ pc[a] \notin {"rejected", "interrupted"} /\ stamp[p] = seen[a][p] /\ ~Reading(a, p)
             => files[p] = data[a][p]
        /\ Reading(a, p) /\ stamp[p] = seen[a][p] => files[p] # None

\* Something that was captured has changed since, and the loop is yet to see it.
Stale(a, paths) == \E p \in paths : stamp[p] # seen[a][p]

Remaining(s) == {s[i] : i \in 1 .. Len(s)}

\* What is left of a loop over some paths that ends with the given one.
IsLoop(s, paths, last) ==
    /\ s \in Seq(paths) /\ s # <<>>
    /\ \A i \in 1 .. Len(s) : s[i] = last <=> i = Len(s)

VerifyInv ==
    /\ pc["verify"] = "confirm" =>
         /\ IsLoop(todo["verify"], Path, "checksums")
         /\ witnessed["verify"] \/ Stale("verify", Remaining(todo["verify"]))
    /\ pc["verify"] = "accepted" => witnessed["verify"]

Checked == ContentsVerify(data["finalize"], identity)
NoManifest == data["finalize"]["manifest"] = None

FinalizeInv ==
    /\ pc["finalize"] \in {"waiting", "layout", "candidates"} => NoManifest
    /\ pc["finalize"] \in {"open", "read"} =>
         \/ IsLoop(todo["finalize"], Subject, "sbom") /\ NoManifest
         \/ todo["finalize"] = <<"manifest">> /\ Checked
    /\ pc["finalize"] \in {"createManifest", "writeManifest", "statManifest"} => Checked
    /\ pc["finalize"] \in {"createChecksums", "writeChecksums", "statChecksums"} =>
         Checked /\ ~NoManifest
    /\ pc["finalize"] \in {"writeChecksums", "statChecksums"} => own <= stamp["checksums"]
    /\ pc["finalize"] = "statChecksums" /\ inode["checksums"] = own =>
         witnessed["finalize"] \/ Stale("finalize", Path \ {"checksums"})
    /\ pc["finalize"] = "confirm" =>
         \/ IsLoop(todo["finalize"], Subject, "sbom") /\ NoManifest /\ Checked
         \/ /\ IsLoop(todo["finalize"], Path, "manifest") /\ ~NoManifest
            /\ witnessed["finalize"] \/ Stale("finalize", Remaining(todo["finalize"]))
    /\ pc["finalize"] = "finalized" => witnessed["finalize"]

IInv == BundleTypeOK /\ WaitingInv /\ SeenInv /\ FreshInv /\ VerifyInv /\ FinalizeInv

----------------------------------------------------------------------------
(* Lemmas about single steps.                                              *)

\* Only what precedes staging changes the repository or the job.
LEMMA SourceOnlyWaits ==
    ASSUME WaitingInv, SourceStep \/ RepositoryChanges
    PROVE  pc["finalize"] = "waiting"
<1>1. SourceStep => job # "package"
  BY DEF SourceStep, JobStep, CheckHead, CheckClean, ReadProjectVersion, CheckCitation,
     CheckTagType, CheckTagCommit, WriteIdentity, BindHead, BindClean, BindProject,
     BindCitation, RebuildDataset, RegenerateReport
<1>2. RepositoryChanges => job # "package"
  BY DEF RepositoryChanges, Checkout, Edit, Retag, Change
<1> QED
  BY <1>1, <1>2 DEF WaitingInv

\* A history variable is never forgotten, and notes what it watches for.
LEMMA Watching ==
    ASSUME BundleTypeOK, Watch
    PROVE  /\ witnessed' \in [Actor -> BOOLEAN]
           /\ \A a \in Actor : witnessed[a] => witnessed'[a]
           /\ pc'["verify"] \notin Ended /\ BundleHolds(files', Expected) => witnessed'["verify"]
           /\ pc'["finalize"] \notin Ended /\ SumsHold(files', identity') => witnessed'["finalize"]
  BY DEF BundleTypeOK, Watch, Actor

LEMMA LoopStep ==
    ASSUME NEW paths, NEW last, NEW s, IsLoop(s, paths, last)
    PROVE  /\ Head(s) \in paths
           /\ Head(s) = last => Remaining(Tail(s)) = {}
           /\ Head(s) # last => IsLoop(Tail(s), paths, last)
           /\ \A p \in Remaining(s) : p = Head(s) \/ p \in Remaining(Tail(s))
<1> DEFINE t == Tail(s)
<1>1. /\ Head(s) \in paths /\ Head(s) = s[1]
      /\ t \in Seq(paths) /\ Len(t) = Len(s) - 1 /\ Len(s) \in Nat \ {0} /\ Len(t) \in Nat
      /\ \A i \in 1 .. Len(t) : t[i] = s[i + 1]
  BY HeadTailProperties, LenProperties, EmptySeq DEF IsLoop
<1> HIDE DEF t
<1>2. Head(s) = last => Remaining(t) = {}
  BY <1>1 DEF IsLoop, Remaining
<1>3. ASSUME Head(s) # last  PROVE IsLoop(t, paths, last)
  <2>1. Len(s) # 1
    BY <1>1, <1>3 DEF IsLoop
  <2>2. t # <<>>
    BY <1>1, <2>1, EmptySeq
  <2> QED
    BY <1>1, <2>1, <2>2 DEF IsLoop
<1>4. ASSUME NEW p \in Remaining(s)  PROVE p = Head(s) \/ p \in Remaining(t)
  <2>1. PICK i \in 1 .. Len(s) : p = s[i]
    BY DEF Remaining
  <2>2. CASE i = 1
    BY <1>1, <2>1, <2>2
  <2>3. CASE i # 1
    <3>1. i - 1 \in 1 .. Len(t) /\ t[i - 1] = p
      BY <1>1, <2>1, <2>3
    <3> QED
      BY <3>1 DEF Remaining
  <2> QED
    BY <2>2, <2>3
<1> QED
  BY <1>1, <1>2, <1>3, <1>4 DEF t

LEMMA LoopPaths ==
    ASSUME NEW paths, NEW last, NEW s, IsLoop(s, paths, last)
    PROVE  Remaining(s) \subseteq paths
  BY ElementOfSeq DEF IsLoop, Remaining

LEMMA WholeLoops ==
    /\ IsLoop(Subjects, Subject, "sbom")
    /\ IsLoop(Listed, Path, "manifest") /\ Remaining(Listed) = Path \ {"checksums"}
    /\ IsLoop(Everything, Path, "checksums") /\ Remaining(Everything) = Path
<1>1. IsLoop(Subjects, Subject, "sbom")
  <2>1. /\ Subjects \in Seq(Subject) /\ Len(Subjects) = 3 /\ Subjects # <<>>
        /\ Subjects[1] = "dataset" /\ Subjects[2] = "report" /\ Subjects[3] = "sbom"
    BY DEF Subjects, Subject
  <2>2. \A i \in 1 .. 3 : i = 1 \/ i = 2 \/ i = 3
    OBVIOUS
  <2> QED
    BY <2>1, <2>2 DEF IsLoop
<1>2. IsLoop(Listed, Path, "manifest") /\ Remaining(Listed) = Path \ {"checksums"}
  <2>1. /\ Listed \in Seq(Path) /\ Len(Listed) = 4 /\ Listed # <<>>
        /\ Listed[1] = "dataset" /\ Listed[2] = "report" /\ Listed[3] = "sbom"
        /\ Listed[4] = "manifest"
    BY DEF Listed, Path, Subject
  <2>2. \A i \in 1 .. 4 : i = 1 \/ i = 2 \/ i = 3 \/ i = 4
    OBVIOUS
  <2> QED
    BY <2>1, <2>2 DEF IsLoop, Remaining, Path, Subject
<1>3. IsLoop(Everything, Path, "checksums") /\ Remaining(Everything) = Path
  <2>1. /\ Everything \in Seq(Path) /\ Len(Everything) = 5 /\ Everything # <<>>
        /\ Everything[1] = "dataset" /\ Everything[2] = "report" /\ Everything[3] = "sbom"
        /\ Everything[4] = "manifest" /\ Everything[5] = "checksums"
    BY DEF Everything, Path, Subject
  <2>2. \A i \in 1 .. 5 : i = 1 \/ i = 2 \/ i = 3 \/ i = 4 \/ i = 5
    OBVIOUS
  <2> QED
    BY <2>1, <2>2 DEF IsLoop, Remaining, Path, Subject
<1> QED
  BY <1>1, <1>2, <1>3

----------------------------------------------------------------------------
(* Each action preserves the invariant.                                    *)

\* Fresh files are the captured ones.
LEMMA FreshFiles ==
    ASSUME BundleTypeOK, NEW a \in Actor, \A p \in Path : files[p] = data[a][p]
    PROVE  files = data[a]
<1>1. data[a] = [p \in Path |-> data[a][p]]
  BY DEF BundleTypeOK
<1> QED
  BY <1>1 DEF BundleTypeOK

\* A change gives a path a stamp nobody has seen.
LEMMA Grows ==
    ASSUME BundleTypeOK, SeenInv, NEW p \in Path, NEW bytes, UNCHANGED seen,
           files' = [files EXCEPT ![p] = bytes], stamp' = [stamp EXCEPT ![p] = @ + 1]
    PROVE  /\ stamp' \in [Path -> Nat] /\ files' = [q \in Path |-> files'[q]]
           /\ \A a \in Actor, q \in Path : stamp'[q] = seen'[a][q] =>
                files'[q] = files[q] /\ stamp[q] = seen[a][q]
           /\ \A a \in Actor, S \in SUBSET Path : Stale(a, S) => Stale(a, S)'
<1>1. stamp' \in [Path -> Nat] /\ files' = [q \in Path |-> files'[q]]
  <2>1. stamp[p] + 1 \in Nat
    BY DEF BundleTypeOK
  <2>2. files = [q \in Path |-> files[q]] /\ stamp \in [Path -> Nat]
    BY DEF BundleTypeOK
  <2>3. stamp' \in [Path -> Nat]
    BY <2>1, <2>2
  <2>4. files' = [q \in Path |-> files'[q]]
    BY <2>2
  <2> QED
    BY <2>3, <2>4
<1>2. \A a \in Actor, q \in Path : seen[a][q] \in Nat /\ stamp[q] \in Nat /\ seen[a][q] <= stamp[q]
  BY DEF BundleTypeOK, SeenInv
<1>3. stamp'[p] = stamp[p] + 1 /\ \A q \in Path \ {p} : stamp'[q] = stamp[q] /\ files'[q] = files[q]
  BY DEF BundleTypeOK
<1>4. \A a \in Actor, q \in Path : stamp'[q] = seen[a][q] => q # p
  BY <1>2, <1>3
<1>5. \A a \in Actor, q \in Path : stamp[q] # seen[a][q] => stamp'[q] # seen[a][q]
  BY <1>3, <1>4
<1> QED
  BY <1>1, <1>3, <1>4, <1>5 DEF Stale

LEMMA StageStep ==
    ASSUME IInv, Watch, Stage
    PROVE  IInv'
<1> USE DEF IInv, Actor, Ended
<1>0. /\ witnessed' \in [Actor -> BOOLEAN]
      /\ \A x \in Actor : witnessed[x] => witnessed'[x]
  BY Watching
<1>1. BundleTypeOK'
  BY <1>0 DEF Stage, captureVars, sourceVars, jobVars, BundleTypeOK, Labels
<1>2. WaitingInv'
  BY <1>0 DEF Stage, captureVars, sourceVars, jobVars, WaitingInv, Labels, BundleTypeOK
<1>3. SeenInv'
  BY <1>0 DEF Stage, captureVars, sourceVars, jobVars, SeenInv, Labels, BundleTypeOK, WaitingInv
<1>4. FreshInv'
  BY <1>0 DEF Stage, captureVars, sourceVars, jobVars, FreshInv, Labels, BundleTypeOK, WaitingInv, Reading
<1>5. VerifyInv'
  BY <1>0 DEF Stage, captureVars, sourceVars, jobVars, VerifyInv, Labels, BundleTypeOK, WaitingInv, Stale
<1>6. FinalizeInv'
  BY <1>0 DEF Stage, captureVars, sourceVars, jobVars, FinalizeInv, Labels, BundleTypeOK, WaitingInv, Stale, Checked, NoManifest
<1> QED
  BY <1>1, <1>2, <1>3, <1>4, <1>5, <1>6

LEMMA LayoutStep ==
    ASSUME IInv, Watch, NEW a \in Actor, Layout(a)
    PROVE  IInv'
<1> USE DEF IInv, Actor, Ended
<1>0. /\ witnessed' \in [Actor -> BOOLEAN]
      /\ \A x \in Actor : witnessed[x] => witnessed'[x]
  BY Watching
<1>1. BundleTypeOK'
  <2>1. pc' \in [Actor -> Labels]
    BY DEF Layout, Goto, BundleTypeOK, Labels
  <2>2. todo' = [b \in Actor |-> todo'[b]]
    BY DEF Layout, Loop, BundleTypeOK
  <2> QED
    BY <1>0, <2>1, <2>2 DEF Layout, BundleTypeOK
<1>2. WaitingInv'
  BY <1>0 DEF Layout, Step, Goto, Loop, sourceVars, jobVars, WaitingInv, Labels, BundleTypeOK
<1>3. SeenInv'
  BY <1>0 DEF Layout, Step, Goto, Loop, sourceVars, jobVars, SeenInv, Labels, BundleTypeOK, WaitingInv
<1>4. FreshInv'
  BY <1>0 DEF Layout, Step, Goto, Loop, sourceVars, jobVars, FreshInv, Labels, BundleTypeOK, WaitingInv, Reading
<1>5. VerifyInv'
  BY <1>0 DEF Layout, Step, Goto, Loop, sourceVars, jobVars, VerifyInv, Labels, BundleTypeOK, WaitingInv, Stale
<1>6. FinalizeInv'
  <2>1. CASE a = "finalize"
    BY <1>0, <2>1, WholeLoops DEF Layout, Step, Goto, Loop, sourceVars, jobVars, FinalizeInv, BundleTypeOK, WaitingInv, NoManifest
  <2>2. CASE a # "finalize"
    BY <1>0, <2>2 DEF Layout, Step, Goto, Loop, sourceVars, jobVars, FinalizeInv, BundleTypeOK, WaitingInv, Stale, Checked, NoManifest
  <2> QED
    BY <2>1, <2>2
<1> QED
  BY <1>1, <1>2, <1>3, <1>4, <1>5, <1>6

LEMMA OpenStep ==
    ASSUME IInv, Watch, NEW a \in Actor, Open(a)
    PROVE  IInv'
<1> USE DEF IInv, Actor, Ended
<1>0. /\ witnessed' \in [Actor -> BOOLEAN]
      /\ \A x \in Actor : witnessed[x] => witnessed'[x]
  BY Watching
<1>1. BundleTypeOK'
  <2> DEFINE p == Head(todo[a])
  <2>1. seen' \in [Actor -> [Path -> Nat]]
    <3>1. p \in Path => stamp[p] \in Nat
      BY DEF BundleTypeOK
    <3> QED
      BY <3>1 DEF Open, BundleTypeOK
  <2>2. pc' \in [Actor -> Labels]
    BY DEF Open, Goto, BundleTypeOK, Labels
  <2> QED
    BY <1>0, <2>1, <2>2 DEF Open, BundleTypeOK
<1>2. WaitingInv'
  BY <1>0 DEF Open, Step, Goto, sourceVars, jobVars, WaitingInv, Labels, BundleTypeOK
<1>3. SeenInv'
  BY <1>0 DEF Open, Step, Goto, sourceVars, jobVars, SeenInv, Labels, BundleTypeOK, WaitingInv
<1>4. FreshInv'
  BY <1>0 DEF Open, Step, Goto, sourceVars, jobVars, FreshInv, Labels, BundleTypeOK, WaitingInv, Reading
<1>5. VerifyInv'
  BY <1>0 DEF Open, Step, Goto, sourceVars, jobVars, VerifyInv, Labels, BundleTypeOK, WaitingInv, Stale
<1>6. FinalizeInv'
  BY <1>0 DEF Open, Step, Goto, sourceVars, jobVars, FinalizeInv, Labels, BundleTypeOK, WaitingInv, Stale, Checked, NoManifest
<1> QED
  BY <1>1, <1>2, <1>3, <1>4, <1>5, <1>6

LEMMA ReadStep ==
    ASSUME IInv, Watch, NEW a \in Actor, Read(a)
    PROVE  IInv'
<1> USE DEF IInv, Actor, Ended
<1>0. /\ witnessed' \in [Actor -> BOOLEAN]
      /\ \A x \in Actor : witnessed[x] => witnessed'[x]
  BY Watching
<1>1. BundleTypeOK'
  <2>1. pc' \in [Actor -> Labels]
    BY DEF Read, AfterRead, Goto, BundleTypeOK, Labels
  <2>2. data' = [b \in Actor |-> [p \in Path |-> data'[b][p]]]
    <3>1. data[a] = [p \in Path |-> data[a][p]]
      BY DEF BundleTypeOK
    <3>2. \A b \in Actor : data'[b] = [p \in Path |-> data'[b][p]]
      <4> TAKE b \in Actor
      <4>1. CASE b = a
        <5>1. data'[a] = [data[a] EXCEPT ![Head(todo[a])] = files[Head(todo[a])]]
          BY DEF Read, BundleTypeOK
        <5>2. DOMAIN data'[a] = Path
          BY <3>1, <5>1
        <5> QED
          BY <3>1, <4>1, <5>1, <5>2
      <4>2. CASE b # a
        BY <4>2 DEF Read, BundleTypeOK
      <4> QED
        BY <4>1, <4>2
    <3> QED
      BY <3>2 DEF Read, BundleTypeOK
  <2>3. todo' = [b \in Actor |-> todo'[b]]
    BY DEF Read, Loop, BundleTypeOK
  <2> QED
    BY <1>0, <2>1, <2>2, <2>3 DEF Read, Step, BundleTypeOK
<1>2. WaitingInv'
  BY <1>0 DEF Read, AfterRead, Step, Goto, Loop, sourceVars, jobVars, WaitingInv, Labels, BundleTypeOK
<1>3. SeenInv'
  BY <1>0 DEF Read, AfterRead, Step, Goto, Loop, sourceVars, jobVars, SeenInv, Labels, BundleTypeOK, WaitingInv
<1>4. FreshInv'
  BY <1>0 DEF Read, AfterRead, Step, Goto, Loop, sourceVars, jobVars, FreshInv, Labels, BundleTypeOK, WaitingInv, Reading
<1>5. VerifyInv'
  BY <1>0 DEF Read, AfterRead, Step, Goto, Loop, sourceVars, jobVars, VerifyInv, Labels, BundleTypeOK, WaitingInv, Stale
<1>6. FinalizeInv'
  <2> DEFINE p == Head(todo[a])
  <2>1. CASE a = "verify"
    BY <1>0, <2>1 DEF Read, AfterRead, Step, Goto, Loop, sourceVars, jobVars, FinalizeInv, BundleTypeOK, WaitingInv, Stale, Checked, NoManifest
  <2>2. CASE a = "finalize" /\ stamp[p] # seen[a][p]
    BY <2>2 DEF Read, Step, Goto, sourceVars, jobVars, FinalizeInv, BundleTypeOK, WaitingInv
  <2>3. CASE a = "finalize" /\ stamp[p] = seen[a][p] /\ todo["finalize"] = <<"manifest">> /\ Checked
    <3>1. p = "manifest" /\ p \in Path
      BY <2>3 DEF Path
    <3>2. pc'["finalize"] = "createChecksums" /\ files[p] # None
      BY <2>3, <3>1 DEF Read, AfterRead, Step, Goto, BundleTypeOK, FreshInv, Reading
    <3>3. /\ data'["finalize"]["manifest"] = files[p]
          /\ \A s \in Subject : data'["finalize"][s] = data["finalize"][s]
      BY <2>3, <3>1 DEF Read, BundleTypeOK, Path, Subject
    <3>4. Checked' /\ ~NoManifest'
      BY <2>3, <3>2, <3>3 DEF Read, Step, sourceVars, jobVars, Checked, NoManifest, ContentsVerify, Subject
    <3> QED
      BY <3>2, <3>4 DEF FinalizeInv
  <2>4. CASE /\ a = "finalize" /\ stamp[p] = seen[a][p]
             /\ IsLoop(todo["finalize"], Subject, "sbom") /\ NoManifest
    <3>1. p \in Subject /\ (p # "sbom" => IsLoop(Tail(todo["finalize"]), Subject, "sbom"))
      BY <2>4, LoopStep
    <3>2. NoManifest'
      BY <2>4, <3>1 DEF Read, BundleTypeOK, NoManifest, Path, Subject
    <3>3. pc'["finalize"] = IF p = "sbom" THEN "candidates" ELSE "open"
      BY <2>4, <3>1 DEF Read, AfterRead, Step, Goto, BundleTypeOK, Subject
    <3>4. todo'["finalize"] = Tail(todo["finalize"])
      BY <2>4 DEF Read, Loop, BundleTypeOK
    <3> QED
      BY <3>1, <3>2, <3>3, <3>4 DEF FinalizeInv
  <2>5. pc["finalize"] = "read" \/ a # "finalize"
    BY DEF Read, Step
  <2> QED
    BY <2>1, <2>2, <2>3, <2>4, <2>5 DEF FinalizeInv
<1> QED
  BY <1>1, <1>2, <1>3, <1>4, <1>5, <1>6

LEMMA ConfirmStep ==
    ASSUME IInv, Watch, NEW a \in Actor, Confirm(a)
    PROVE  IInv'
<1> USE DEF IInv, Actor, Ended
<1>0. /\ witnessed' \in [Actor -> BOOLEAN]
      /\ \A x \in Actor : witnessed[x] => witnessed'[x]
  BY Watching
<1>1. BundleTypeOK'
  <2>1. pc' \in [Actor -> Labels]
    BY DEF Confirm, AfterConfirm, Goto, BundleTypeOK, Labels
  <2>2. todo' = [b \in Actor |-> todo'[b]]
    BY DEF Confirm, Loop, BundleTypeOK
  <2> QED
    BY <1>0, <2>1, <2>2 DEF Confirm, BundleTypeOK
<1>2. WaitingInv'
  BY <1>0 DEF Confirm, AfterConfirm, Step, Goto, Loop, sourceVars, jobVars, WaitingInv, Labels, BundleTypeOK
<1>3. SeenInv'
  BY <1>0 DEF Confirm, AfterConfirm, Step, Goto, Loop, sourceVars, jobVars, SeenInv, Labels, BundleTypeOK, WaitingInv
<1>4. FreshInv'
  BY <1>0 DEF Confirm, AfterConfirm, Step, Goto, Loop, sourceVars, jobVars, FreshInv, Labels, BundleTypeOK, WaitingInv, Reading
<1>5. VerifyInv'
  <2> DEFINE p == Head(todo[a])
             t == Tail(todo[a])
  <2>1. CASE a = "finalize"
    BY <1>0, <2>1 DEF Confirm, AfterConfirm, Step, Goto, Loop, VerifyInv, BundleTypeOK, Stale
  <2>2. CASE a = "verify" /\ stamp[p] # seen[a][p]
    BY <2>2 DEF Confirm, Goto, VerifyInv, BundleTypeOK
  <2>3. CASE a = "verify" /\ stamp[p] = seen[a][p]
    <3>1. /\ IsLoop(todo["verify"], Path, "checksums")
          /\ witnessed["verify"] \/ Stale("verify", Remaining(todo["verify"]))
      BY <2>3 DEF Confirm, Step, VerifyInv
    <3>2. /\ p = "checksums" => Remaining(t) = {}
          /\ p # "checksums" => IsLoop(t, Path, "checksums")
          /\ \A q \in Remaining(todo["verify"]) : q = p \/ q \in Remaining(t)
      BY <2>3, <3>1, LoopStep
    <3>3. witnessed["verify"] \/ Stale("verify", Remaining(t))
      BY <2>3, <3>1, <3>2 DEF Stale
    <3>4. pc'["verify"] = IF p = "checksums" THEN "accepted" ELSE "confirm"
      BY <2>3 DEF Confirm, AfterConfirm, Goto, BundleTypeOK
    <3>5. todo'["verify"] = t /\ UNCHANGED <<stamp, seen>>
      BY <2>3 DEF Confirm, Loop, BundleTypeOK
    <3>6. witnessed'["verify"] \/ \E q \in Remaining(t) : stamp'[q] # seen'["verify"][q]
      BY <1>0, <3>3, <3>5 DEF Stale
    <3> HIDE DEF t
    <3> QED
      BY <3>2, <3>4, <3>5, <3>6 DEF VerifyInv, Stale
  <2> QED
    BY <2>1, <2>2, <2>3
<1>6. FinalizeInv'
  <2> DEFINE p == Head(todo[a])
             t == Tail(todo[a])
  <2>0. identity' = identity /\ data' = data /\ UNCHANGED <<stamp, seen>>
    BY DEF Confirm, Step, sourceVars, jobVars
  <2>1. CASE a = "verify"
    BY <1>0, <2>0, <2>1 DEF Confirm, AfterConfirm, Step, Goto, Loop, FinalizeInv, BundleTypeOK, Stale, Checked, NoManifest
  <2>2. CASE a = "finalize" /\ stamp[p] # seen[a][p]
    BY <2>2 DEF Confirm, Goto, FinalizeInv, BundleTypeOK
  <2>3. CASE /\ a = "finalize" /\ stamp[p] = seen[a][p]
             /\ IsLoop(todo["finalize"], Subject, "sbom") /\ NoManifest /\ Checked
    <3>1. p \in Subject /\ (p # "sbom" => IsLoop(t, Subject, "sbom"))
      BY <2>3, LoopStep
    <3>2. pc'["finalize"] = IF p = "sbom" THEN "createManifest" ELSE "confirm"
      BY <2>3, <3>1 DEF Confirm, AfterConfirm, Goto, BundleTypeOK, Subject, NoManifest
    <3>3. todo'["finalize"] = t
      BY <2>3 DEF Confirm, Loop, BundleTypeOK
    <3>4. NoManifest' /\ Checked'
      BY <2>0, <2>3 DEF NoManifest, Checked
    <3> HIDE DEF t
    <3> QED
      BY <3>1, <3>2, <3>3, <3>4 DEF FinalizeInv
  <2>4. CASE /\ a = "finalize" /\ stamp[p] = seen[a][p]
             /\ IsLoop(todo["finalize"], Path, "manifest") /\ ~NoManifest
             /\ witnessed["finalize"] \/ Stale("finalize", Remaining(todo["finalize"]))
    <3>1. /\ p = "manifest" => Remaining(t) = {}
          /\ p # "manifest" => IsLoop(t, Path, "manifest")
          /\ \A q \in Remaining(todo["finalize"]) : q = p \/ q \in Remaining(t)
      BY <2>4, LoopStep
    <3>2. witnessed["finalize"] \/ Stale("finalize", Remaining(t))
      BY <2>4, <3>1 DEF Stale
    <3>3. pc'["finalize"] \in IF p = "manifest" THEN {"finalized"} ELSE {"confirm", "accepted"}
      BY <2>4 DEF Confirm, AfterConfirm, Goto, BundleTypeOK, NoManifest
    <3>4. todo'["finalize"] = t
      BY <2>4 DEF Confirm, Loop, BundleTypeOK
    <3>5. witnessed'["finalize"] \/ \E q \in Remaining(t) : stamp'[q] # seen'["finalize"][q]
      BY <1>0, <2>0, <3>2 DEF Stale, Confirm, Loop, BundleTypeOK
    <3>6. ~NoManifest'
      BY <2>0, <2>4 DEF NoManifest
    <3> HIDE DEF t
    <3> QED
      BY <3>1, <3>3, <3>4, <3>5, <3>6 DEF FinalizeInv, Stale
  <2>5. pc["finalize"] = "confirm" \/ a # "finalize"
    BY DEF Confirm, Step
  <2> QED
    BY <2>1, <2>2, <2>3, <2>4, <2>5 DEF FinalizeInv
<1> QED
  BY <1>1, <1>2, <1>3, <1>4, <1>5, <1>6

LEMMA VerifyCandidatesStep ==
    ASSUME IInv, Watch, VerifyCandidates
    PROVE  IInv'
<1> USE DEF IInv, Actor, Ended
<1>0. /\ witnessed' \in [Actor -> BOOLEAN]
      /\ \A x \in Actor : witnessed[x] => witnessed'[x]
  BY Watching
<1>1. BundleTypeOK'
  <2>1. pc' \in [Actor -> Labels]
    BY DEF VerifyCandidates, Goto, BundleTypeOK, Labels
  <2>2. todo' = [b \in Actor |-> todo'[b]]
    BY DEF VerifyCandidates, Loop, BundleTypeOK
  <2> QED
    BY <1>0, <2>1, <2>2 DEF VerifyCandidates, BundleTypeOK
<1>2. WaitingInv'
  BY <1>0 DEF VerifyCandidates, Step, Goto, Loop, sourceVars, jobVars, WaitingInv, Labels, BundleTypeOK
<1>3. SeenInv'
  BY <1>0 DEF VerifyCandidates, Step, Goto, Loop, sourceVars, jobVars, SeenInv, Labels, BundleTypeOK, WaitingInv
<1>4. FreshInv'
  BY <1>0 DEF VerifyCandidates, Step, Goto, Loop, sourceVars, jobVars, FreshInv, Labels, BundleTypeOK, WaitingInv, Reading
<1>5. VerifyInv'
  BY <1>0 DEF VerifyCandidates, Step, Goto, Loop, sourceVars, jobVars, VerifyInv, Labels, BundleTypeOK, WaitingInv, Stale
<1>6. FinalizeInv'
  BY <1>0, WholeLoops DEF VerifyCandidates, Step, Goto, Loop, sourceVars, jobVars, FinalizeInv, BundleTypeOK, Checked, NoManifest
<1> QED
  BY <1>1, <1>2, <1>3, <1>4, <1>5, <1>6

LEMMA CheckIdentityStep ==
    ASSUME IInv, Watch, CheckIdentity
    PROVE  IInv'
<1> USE DEF IInv, Actor, Ended
<1>0. /\ witnessed' \in [Actor -> BOOLEAN]
      /\ \A x \in Actor : witnessed[x] => witnessed'[x]
  BY Watching
<1>1. BundleTypeOK'
  <2>1. pc' \in [Actor -> Labels]
    BY DEF CheckIdentity, Goto, BundleTypeOK, Labels
  <2>2. todo' = [b \in Actor |-> todo'[b]]
    BY DEF CheckIdentity, Loop, BundleTypeOK
  <2> QED
    BY <1>0, <2>1, <2>2 DEF CheckIdentity, BundleTypeOK
<1>2. WaitingInv'
  BY <1>0 DEF CheckIdentity, Step, Goto, Loop, sourceVars, jobVars, WaitingInv, Labels, BundleTypeOK
<1>3. SeenInv'
  BY <1>0 DEF CheckIdentity, Step, Goto, Loop, sourceVars, jobVars, SeenInv, Labels, BundleTypeOK, WaitingInv
<1>4. FreshInv'
  BY <1>0, SMTT(30) DEF CheckIdentity, Step, Goto, Loop, sourceVars, jobVars, FreshInv, Labels, BundleTypeOK, WaitingInv, Reading
<1>5. VerifyInv'
  BY <1>0 DEF CheckIdentity, Step, Goto, Loop, sourceVars, jobVars, VerifyInv, Labels, BundleTypeOK, WaitingInv, Stale
<1>6. FinalizeInv'
  BY <1>0 DEF CheckIdentity, Step, Goto, Loop, sourceVars, jobVars, FinalizeInv, Labels, BundleTypeOK, WaitingInv, Stale, Checked, NoManifest
<1> QED
  BY <1>1, <1>2, <1>3, <1>4, <1>5, <1>6

LEMMA CompareStep ==
    ASSUME IInv, Watch, Compare
    PROVE  IInv'
<1> USE DEF IInv, Actor, Ended
<1>0. /\ witnessed' \in [Actor -> BOOLEAN]
      /\ \A x \in Actor : witnessed[x] => witnessed'[x]
  BY Watching
<1>1. BundleTypeOK'
  <2>1. pc' \in [Actor -> Labels]
    BY DEF Compare, Goto, BundleTypeOK, Labels
  <2>2. todo' = [b \in Actor |-> todo'[b]]
    BY DEF Compare, Loop, BundleTypeOK
  <2> QED
    BY <1>0, <2>1, <2>2 DEF Compare, BundleTypeOK
<1>2. WaitingInv'
  BY <1>0 DEF Compare, Step, Goto, Loop, sourceVars, jobVars, WaitingInv, Labels, BundleTypeOK
<1>3. SeenInv'
  BY <1>0 DEF Compare, Step, Goto, Loop, sourceVars, jobVars, SeenInv, Labels, BundleTypeOK, WaitingInv
<1>4. FreshInv'
  BY <1>0 DEF Compare, Step, Goto, Loop, sourceVars, jobVars, FreshInv, Labels, BundleTypeOK, WaitingInv, Reading
<1>5. VerifyInv'
  <2>1. CASE ~BundleHolds(data["verify"], Expected)
    BY <2>1 DEF Compare, Goto, VerifyInv, BundleTypeOK
  <2>2. CASE BundleHolds(data["verify"], Expected)
    <3>1. pc'["verify"] = "confirm" /\ todo'["verify"] = Everything
      BY <2>2 DEF Compare, Goto, Loop, BundleTypeOK
    <3>2. pc["verify"] = "compare" /\ UNCHANGED <<files, stamp, seen>>
      BY DEF Compare, Step
    <3>3. ASSUME ~Stale("verify", Path)  PROVE witnessed'["verify"]
      <4>1. \A p \in Path : files[p] = data["verify"][p]
        BY <3>2, <3>3 DEF FreshInv, Stale, Reading
      <4>2. BundleHolds(files', Expected)
        BY <2>2, <3>2, <4>1, FreshFiles
      <4> QED
        BY <3>1, <4>2, Watching
    <3>4. witnessed'["verify"] \/ Stale("verify", Path)'
      BY <3>2, <3>3 DEF Stale
    <3> QED
      BY <3>1, <3>4, WholeLoops DEF VerifyInv, Stale
  <2> QED
    BY <2>1, <2>2
<1>6. FinalizeInv'
  BY <1>0 DEF Compare, Step, Goto, Loop, sourceVars, jobVars, FinalizeInv, Labels, BundleTypeOK, WaitingInv, Stale, Checked, NoManifest
<1> QED
  BY <1>1, <1>2, <1>3, <1>4, <1>5, <1>6

LEMMA InterruptStep ==
    ASSUME IInv, Watch, Interrupt
    PROVE  IInv'
<1> USE DEF IInv, Actor, Ended
<1>0. /\ witnessed' \in [Actor -> BOOLEAN]
      /\ \A x \in Actor : witnessed[x] => witnessed'[x]
  BY Watching
<1>1. BundleTypeOK'
  BY <1>0 DEF Interrupt, rootVars, captureVars, sourceVars, jobVars, BundleTypeOK, Labels
<1>2. WaitingInv'
  BY <1>0 DEF Interrupt, rootVars, captureVars, sourceVars, jobVars, WaitingInv, Labels, BundleTypeOK
<1>3. SeenInv'
  BY <1>0 DEF Interrupt, rootVars, captureVars, sourceVars, jobVars, SeenInv, Labels, BundleTypeOK, WaitingInv
<1>4. FreshInv'
  BY <1>0 DEF Interrupt, rootVars, captureVars, sourceVars, jobVars, FreshInv, Labels, BundleTypeOK, WaitingInv, Reading
<1>5. VerifyInv'
  BY <1>0 DEF Interrupt, rootVars, captureVars, sourceVars, jobVars, VerifyInv, Labels, BundleTypeOK, WaitingInv, Stale
<1>6. FinalizeInv'
  BY <1>0 DEF Interrupt, rootVars, captureVars, sourceVars, jobVars, FinalizeInv, Labels, BundleTypeOK, WaitingInv, Stale, Checked, NoManifest
<1> QED
  BY <1>1, <1>2, <1>3, <1>4, <1>5, <1>6

LEMMA StartVerifyStep ==
    ASSUME IInv, Watch, StartVerify
    PROVE  IInv'
<1> USE DEF IInv, Actor, Ended
<1>0. /\ witnessed' \in [Actor -> BOOLEAN]
      /\ \A x \in Actor : witnessed[x] => witnessed'[x]
  BY Watching
<1>1. BundleTypeOK'
  BY <1>0 DEF StartVerify, rootVars, captureVars, sourceVars, jobVars, BundleTypeOK, Labels
<1>2. WaitingInv'
  <2>1. pc["finalize"] # "waiting"
    BY DEF StartVerify, WaitingInv, Path
  <2> QED
    BY <2>1 DEF StartVerify, rootVars, captureVars, sourceVars, WaitingInv, BundleTypeOK
<1>3. SeenInv'
  BY <1>0 DEF StartVerify, rootVars, captureVars, sourceVars, jobVars, SeenInv, Labels, BundleTypeOK, WaitingInv
<1>4. FreshInv'
  BY <1>0 DEF StartVerify, rootVars, captureVars, sourceVars, jobVars, FreshInv, Labels, BundleTypeOK, WaitingInv, Reading
<1>5. VerifyInv'
  BY <1>0 DEF StartVerify, rootVars, captureVars, sourceVars, jobVars, VerifyInv, Labels, BundleTypeOK, WaitingInv, Stale
<1>6. FinalizeInv'
  BY <1>0 DEF StartVerify, rootVars, captureVars, sourceVars, jobVars, FinalizeInv, Labels, BundleTypeOK, WaitingInv, Stale, Checked, NoManifest
<1> QED
  BY <1>1, <1>2, <1>3, <1>4, <1>5, <1>6

LEMMA AlterStep ==
    ASSUME IInv, Watch, NEW p \in Path, NEW bytes, NEW i \in {inode[p], stamp[p] + 1}, Alter(p, bytes, i)
    PROVE  IInv'
<1> USE DEF IInv, Actor, Ended
<1>0. /\ witnessed' \in [Actor -> BOOLEAN]
      /\ \A x \in Actor : witnessed[x] => witnessed'[x]
  BY Watching
<1>a. /\ UNCHANGED <<seen, data, todo>> /\ stamp' \in [Path -> Nat] /\ files' = [q \in Path |-> files'[q]]
      /\ \A x \in Actor, q \in Path : stamp'[q] = seen'[x][q] =>
           files'[q] = files[q] /\ stamp[q] = seen[x][q]
      /\ \A x \in Actor, S \in SUBSET Path : Stale(x, S) => Stale(x, S)'
  BY Grows DEF Alter, RootChange, captureVars
<1>1. BundleTypeOK'
  <2>1. inode' \in [Path -> Nat]
    BY DEF Alter, BundleTypeOK
  <2> QED
    BY <1>0, <1>a, <2>1 DEF Alter, RootChange, captureVars, BundleTypeOK
<1>2. WaitingInv'
  BY <1>0 DEF Alter, RootChange, captureVars, sourceVars, jobVars, WaitingInv, Labels, BundleTypeOK
<1>3. SeenInv'
  BY <1>0 DEF Alter, RootChange, captureVars, sourceVars, jobVars, SeenInv, Labels, BundleTypeOK, WaitingInv
<1>4. FreshInv'
  <2> SUFFICES ASSUME NEW a \in Actor, NEW q \in Path, stamp'[q] = seen'[a][q],
                      pc'[a] \notin {"rejected", "interrupted"}
               PROVE  /\ ~Reading(a, q)' => files'[q] = data'[a][q]
                      /\ Reading(a, q)' => files'[q] # None
    BY DEF FreshInv, Reading
  <2>1. stamp[q] = seen[a][q] /\ files'[q] = files[q]
    BY <1>a
  <2>2. pc[a] \notin {"rejected", "interrupted"} /\ Reading(a, q)' = Reading(a, q)
    BY DEF Alter, RootChange, captureVars, Reading, BundleTypeOK
  <2> QED
    BY <2>1, <2>2 DEF FreshInv, Alter, RootChange, captureVars
<1>5. VerifyInv'
  <2>1. IsLoop(todo["verify"], Path, "checksums") => Remaining(todo["verify"]) \in SUBSET Path
    BY LoopPaths
  <2>2. /\ pc'["verify"] = pc["verify"] /\ todo' = todo
        /\ \A S \in SUBSET Path : Stale("verify", S) => Stale("verify", S)'
    BY <1>a DEF Alter, RootChange, captureVars, BundleTypeOK
  <2>3. IsLoop(todo["verify"], Path, "checksums") /\ Stale("verify", Remaining(todo["verify"]))
          => Stale("verify", Remaining(todo["verify"]))'
    BY <2>1, <2>2 DEF Stale
  <2> QED
    BY <1>0, <2>2, <2>3 DEF VerifyInv
<1>6. FinalizeInv'
  <2>1. \A S \in SUBSET Path : Stale("finalize", S) => Stale("finalize", S)'
    BY <1>a
  <2>2. IsLoop(todo["finalize"], Path, "manifest") => Remaining(todo["finalize"]) \in SUBSET Path
    BY LoopPaths
  <2>3. Checked' = Checked /\ NoManifest' = NoManifest
    BY DEF Checked, NoManifest, Alter, RootChange, captureVars, jobVars
  <2>4. stamp["checksums"] <= stamp'["checksums"]
    BY DEF Alter, BundleTypeOK, Path
  <2>5. own <= stamp["checksums"] /\ inode'["checksums"] = own => inode["checksums"] = own
    BY DEF Alter, BundleTypeOK, Path
  <2>6. own' = own /\ own \in Nat /\ stamp["checksums"] \in Nat /\ stamp'["checksums"] \in Nat
    BY <1>1 DEF Alter, RootChange, BundleTypeOK, Path
  <2>7. Stale("finalize", Path \ {"checksums"}) => Stale("finalize", Path \ {"checksums"})'
    BY <2>1
  <2>8. UNCHANGED <<pc, todo>>
    BY DEF Alter, RootChange, captureVars
  <2>9. IsLoop(todo["finalize"], Path, "manifest") /\ Stale("finalize", Remaining(todo["finalize"]))
          => Stale("finalize", Remaining(todo["finalize"]))'
    BY <2>1, <2>2, <2>8 DEF Stale
  <2> QED
    BY <1>0, <2>3, <2>4, <2>5, <2>6, <2>7, <2>8, <2>9 DEF FinalizeInv
<1> QED
  BY <1>1, <1>2, <1>3, <1>4, <1>5, <1>6

LEMMA StrayStep ==
    ASSUME IInv, Watch, RootChange, stray' = TRUE, UNCHANGED <<files, stamp, inode>>
    PROVE  IInv'
<1> USE DEF IInv, Actor, Ended
<1>0. /\ witnessed' \in [Actor -> BOOLEAN]
      /\ \A x \in Actor : witnessed[x] => witnessed'[x]
  BY Watching
<1>1. BundleTypeOK'
  BY <1>0 DEF RootChange, captureVars, sourceVars, jobVars, BundleTypeOK, Labels
<1>2. WaitingInv'
  BY <1>0 DEF RootChange, captureVars, sourceVars, jobVars, WaitingInv, Labels, BundleTypeOK
<1>3. SeenInv'
  BY <1>0 DEF RootChange, captureVars, sourceVars, jobVars, SeenInv, Labels, BundleTypeOK, WaitingInv
<1>4. FreshInv'
  BY <1>0 DEF RootChange, captureVars, sourceVars, jobVars, FreshInv, Labels, BundleTypeOK, WaitingInv, Reading
<1>5. VerifyInv'
  BY <1>0 DEF RootChange, captureVars, sourceVars, jobVars, VerifyInv, Labels, BundleTypeOK, WaitingInv, Stale
<1>6. FinalizeInv'
  BY <1>0 DEF RootChange, captureVars, sourceVars, jobVars, FinalizeInv, Labels, BundleTypeOK, WaitingInv, Stale, Checked, NoManifest
<1> QED
  BY <1>1, <1>2, <1>3, <1>4, <1>5, <1>6

LEMMA CreateManifestStep ==
    ASSUME IInv, Watch, Create("manifest", "createManifest", "writeManifest")
    PROVE  IInv'
<1> USE DEF IInv, Actor, Ended
<1>0. /\ witnessed' \in [Actor -> BOOLEAN]
      /\ \A x \in Actor : witnessed[x] => witnessed'[x]
  BY Watching
<1>a. /\ UNCHANGED <<seen, data, todo>> /\ stamp' \in [Path -> Nat] /\ files' = [q \in Path |-> files'[q]]
      /\ \A x \in Actor, q \in Path : stamp'[q] = seen'[x][q] =>
           files'[q] = files[q] /\ stamp[q] = seen[x][q]
      /\ \A x \in Actor, S \in SUBSET Path : Stale(x, S) => Stale(x, S)'
  <2>0. UNCHANGED <<seen, data, todo>>
    BY DEF Create, captureVars
  <2>1. CASE files["manifest"] = None
    <3>1. PICK b : files' = [files EXCEPT !["manifest"] = b]
      BY <2>1 DEF Create
    <3>2. stamp' = [stamp EXCEPT !["manifest"] = @ + 1] /\ "manifest" \in Path
      BY <2>1 DEF Create, Path
    <3> QED
      BY <2>0, <3>1, <3>2, Grows
  <2>2. CASE ~(files["manifest"] = None)
    BY <2>0, <2>2 DEF Create, Stale, BundleTypeOK
  <2> QED
    BY <2>1, <2>2
<1>b. /\ pc' \in [Actor -> Labels] /\ pc'["verify"] = pc["verify"]
      /\ pc["finalize"] = "createManifest" /\ pc'["finalize"] \in {"writeManifest", "rejected"}
  BY DEF Create, Step, Goto, BundleTypeOK, Labels
<1>1. BundleTypeOK'
  <2>1. inode' \in [Path -> Nat] /\ own' \in Nat
    BY DEF Create, BundleTypeOK, Path
  <2> QED
    BY <1>0, <1>a, <1>b, <2>1 DEF Create, captureVars, BundleTypeOK
<1>2. WaitingInv'
  BY <1>0 DEF Create, captureVars, Step, Goto, sourceVars, jobVars, WaitingInv, Labels, BundleTypeOK
<1>3. SeenInv'
  BY <1>0 DEF Create, captureVars, Step, Goto, sourceVars, jobVars, SeenInv, Labels, BundleTypeOK, WaitingInv
<1>4. FreshInv'
  <2> SUFFICES ASSUME NEW a \in Actor, NEW q \in Path, stamp'[q] = seen'[a][q],
                      pc'[a] \notin {"rejected", "interrupted"}
               PROVE  /\ ~Reading(a, q)' => files'[q] = data'[a][q]
                      /\ Reading(a, q)' => files'[q] # None
    BY DEF FreshInv, Reading
  <2>1. stamp[q] = seen[a][q] /\ files'[q] = files[q]
    BY <1>a
  <2>2. pc[a] \notin {"rejected", "interrupted"} /\ Reading(a, q)' = Reading(a, q)
    BY DEF Create, captureVars, Step, Goto, Reading, BundleTypeOK
  <2> QED
    BY <2>1, <2>2 DEF FreshInv, Create, captureVars, Step, Goto
<1>5. VerifyInv'
  <2>1. IsLoop(todo["verify"], Path, "checksums") => Remaining(todo["verify"]) \in SUBSET Path
    BY LoopPaths
  <2>2. /\ pc'["verify"] = pc["verify"] /\ todo' = todo
        /\ \A S \in SUBSET Path : Stale("verify", S) => Stale("verify", S)'
    BY <1>a, <1>b DEF Create, captureVars, Step, Goto, BundleTypeOK
  <2>3. IsLoop(todo["verify"], Path, "checksums") /\ Stale("verify", Remaining(todo["verify"]))
          => Stale("verify", Remaining(todo["verify"]))'
    BY <2>1, <2>2 DEF Stale
  <2> QED
    BY <1>0, <2>2, <2>3 DEF VerifyInv
<1>6. FinalizeInv'
  BY <1>0 DEF Create, captureVars, Step, Goto, sourceVars, jobVars, FinalizeInv, Labels, BundleTypeOK, WaitingInv, Stale, Checked, NoManifest
<1> QED
  BY <1>1, <1>2, <1>3, <1>4, <1>5, <1>6

LEMMA WriteManifestStep ==
    ASSUME IInv, Watch, Write("manifest", NewManifest, "writeManifest", "statManifest")
    PROVE  IInv'
<1> USE DEF IInv, Actor, Ended
<1>0. /\ witnessed' \in [Actor -> BOOLEAN]
      /\ \A x \in Actor : witnessed[x] => witnessed'[x]
  BY Watching
<1>a. /\ UNCHANGED <<seen, data, todo>> /\ stamp' \in [Path -> Nat] /\ files' = [q \in Path |-> files'[q]]
      /\ \A x \in Actor, q \in Path : stamp'[q] = seen'[x][q] =>
           files'[q] = files[q] /\ stamp[q] = seen[x][q]
      /\ \A x \in Actor, S \in SUBSET Path : Stale(x, S) => Stale(x, S)'
  <2>0. UNCHANGED <<seen, data, todo>>
    BY DEF Write, captureVars
  <2>1. CASE inode["manifest"] = own
    <3>1. PICK b : files' = [files EXCEPT !["manifest"] = b]
      BY <2>1 DEF Write
    <3>2. stamp' = [stamp EXCEPT !["manifest"] = @ + 1] /\ "manifest" \in Path
      BY <2>1 DEF Write, Path
    <3> QED
      BY <2>0, <3>1, <3>2, Grows
  <2>2. CASE ~(inode["manifest"] = own)
    BY <2>0, <2>2 DEF Write, Stale, BundleTypeOK
  <2> QED
    BY <2>1, <2>2
<1>b. /\ pc' \in [Actor -> Labels] /\ pc'["verify"] = pc["verify"]
      /\ pc["finalize"] = "writeManifest" /\ pc'["finalize"] \in {"statManifest", "rejected"}
  BY DEF Write, Step, Goto, BundleTypeOK, Labels
<1>1. BundleTypeOK'
  BY <1>0 DEF Write, captureVars, Step, Goto, sourceVars, jobVars, BundleTypeOK, Labels
<1>2. WaitingInv'
  BY <1>0 DEF Write, captureVars, Step, Goto, sourceVars, jobVars, WaitingInv, Labels, BundleTypeOK
<1>3. SeenInv'
  BY <1>0 DEF Write, captureVars, Step, Goto, sourceVars, jobVars, SeenInv, Labels, BundleTypeOK, WaitingInv
<1>4. FreshInv'
  <2> SUFFICES ASSUME NEW a \in Actor, NEW q \in Path, stamp'[q] = seen'[a][q],
                      pc'[a] \notin {"rejected", "interrupted"}
               PROVE  /\ ~Reading(a, q)' => files'[q] = data'[a][q]
                      /\ Reading(a, q)' => files'[q] # None
    BY DEF FreshInv, Reading
  <2>1. stamp[q] = seen[a][q] /\ files'[q] = files[q]
    BY <1>a
  <2>2. pc[a] \notin {"rejected", "interrupted"} /\ Reading(a, q)' = Reading(a, q)
    BY DEF Write, captureVars, Step, Goto, Reading, BundleTypeOK
  <2> QED
    BY <2>1, <2>2 DEF FreshInv, Write, captureVars, Step, Goto
<1>5. VerifyInv'
  <2>1. IsLoop(todo["verify"], Path, "checksums") => Remaining(todo["verify"]) \in SUBSET Path
    BY LoopPaths
  <2>2. /\ pc'["verify"] = pc["verify"] /\ todo' = todo
        /\ \A S \in SUBSET Path : Stale("verify", S) => Stale("verify", S)'
    BY <1>a, <1>b DEF Write, captureVars, Step, Goto, BundleTypeOK
  <2>3. IsLoop(todo["verify"], Path, "checksums") /\ Stale("verify", Remaining(todo["verify"]))
          => Stale("verify", Remaining(todo["verify"]))'
    BY <2>1, <2>2 DEF Stale
  <2> QED
    BY <1>0, <2>2, <2>3 DEF VerifyInv
<1>6. FinalizeInv'
  BY <1>0 DEF Write, captureVars, Step, Goto, sourceVars, jobVars, FinalizeInv, Labels, BundleTypeOK, WaitingInv, Stale, Checked, NoManifest
<1> QED
  BY <1>1, <1>2, <1>3, <1>4, <1>5, <1>6

LEMMA CreateChecksumsStep ==
    ASSUME IInv, Watch, Create("checksums", "createChecksums", "writeChecksums")
    PROVE  IInv'
<1> USE DEF IInv, Actor, Ended
<1>0. /\ witnessed' \in [Actor -> BOOLEAN]
      /\ \A x \in Actor : witnessed[x] => witnessed'[x]
  BY Watching
<1>a. /\ UNCHANGED <<seen, data, todo>> /\ stamp' \in [Path -> Nat] /\ files' = [q \in Path |-> files'[q]]
      /\ \A x \in Actor, q \in Path : stamp'[q] = seen'[x][q] =>
           files'[q] = files[q] /\ stamp[q] = seen[x][q]
      /\ \A x \in Actor, S \in SUBSET Path : Stale(x, S) => Stale(x, S)'
  <2>0. UNCHANGED <<seen, data, todo>>
    BY DEF Create, captureVars
  <2>1. CASE files["checksums"] = None
    <3>1. PICK b : files' = [files EXCEPT !["checksums"] = b]
      BY <2>1 DEF Create
    <3>2. stamp' = [stamp EXCEPT !["checksums"] = @ + 1] /\ "checksums" \in Path
      BY <2>1 DEF Create, Path
    <3> QED
      BY <2>0, <3>1, <3>2, Grows
  <2>2. CASE ~(files["checksums"] = None)
    BY <2>0, <2>2 DEF Create, Stale, BundleTypeOK
  <2> QED
    BY <2>1, <2>2
<1>b. /\ pc' \in [Actor -> Labels] /\ pc'["verify"] = pc["verify"]
      /\ pc["finalize"] = "createChecksums" /\ pc'["finalize"] \in {"writeChecksums", "rejected"}
  BY DEF Create, Step, Goto, BundleTypeOK, Labels
<1>1. BundleTypeOK'
  <2>1. inode' \in [Path -> Nat] /\ own' \in Nat
    BY DEF Create, BundleTypeOK, Path
  <2> QED
    BY <1>0, <1>a, <1>b, <2>1 DEF Create, captureVars, BundleTypeOK
<1>2. WaitingInv'
  BY <1>0 DEF Create, captureVars, Step, Goto, sourceVars, jobVars, WaitingInv, Labels, BundleTypeOK
<1>3. SeenInv'
  BY <1>0 DEF Create, captureVars, Step, Goto, sourceVars, jobVars, SeenInv, Labels, BundleTypeOK, WaitingInv
<1>4. FreshInv'
  <2> SUFFICES ASSUME NEW a \in Actor, NEW q \in Path, stamp'[q] = seen'[a][q],
                      pc'[a] \notin {"rejected", "interrupted"}
               PROVE  /\ ~Reading(a, q)' => files'[q] = data'[a][q]
                      /\ Reading(a, q)' => files'[q] # None
    BY DEF FreshInv, Reading
  <2>1. stamp[q] = seen[a][q] /\ files'[q] = files[q]
    BY <1>a
  <2>2. pc[a] \notin {"rejected", "interrupted"} /\ Reading(a, q)' = Reading(a, q)
    BY DEF Create, captureVars, Step, Goto, Reading, BundleTypeOK
  <2> QED
    BY <2>1, <2>2 DEF FreshInv, Create, captureVars, Step, Goto
<1>5. VerifyInv'
  <2>1. IsLoop(todo["verify"], Path, "checksums") => Remaining(todo["verify"]) \in SUBSET Path
    BY LoopPaths
  <2>2. /\ pc'["verify"] = pc["verify"] /\ todo' = todo
        /\ \A S \in SUBSET Path : Stale("verify", S) => Stale("verify", S)'
    BY <1>a, <1>b DEF Create, captureVars, Step, Goto, BundleTypeOK
  <2>3. IsLoop(todo["verify"], Path, "checksums") /\ Stale("verify", Remaining(todo["verify"]))
          => Stale("verify", Remaining(todo["verify"]))'
    BY <2>1, <2>2 DEF Stale
  <2> QED
    BY <1>0, <2>2, <2>3 DEF VerifyInv
<1>6. FinalizeInv'
  <2>1. Checked' = Checked /\ NoManifest' = NoManifest
    BY <1>a DEF Create, Step, sourceVars, jobVars, Checked, NoManifest
  <2>2. pc'["finalize"] = "writeChecksums" => own' <= stamp'["checksums"]
    BY DEF Create, Step, Goto, BundleTypeOK, Path
  <2> QED
    BY <1>b, <2>1, <2>2 DEF FinalizeInv
<1> QED
  BY <1>1, <1>2, <1>3, <1>4, <1>5, <1>6

LEMMA WriteChecksumsStep ==
    ASSUME IInv, Watch, Write("checksums", NewChecksums, "writeChecksums", "statChecksums")
    PROVE  IInv'
<1> USE DEF IInv, Actor, Ended
<1>0. /\ witnessed' \in [Actor -> BOOLEAN]
      /\ \A x \in Actor : witnessed[x] => witnessed'[x]
  BY Watching
<1>a. /\ UNCHANGED <<seen, data, todo>> /\ stamp' \in [Path -> Nat] /\ files' = [q \in Path |-> files'[q]]
      /\ \A x \in Actor, q \in Path : stamp'[q] = seen'[x][q] =>
           files'[q] = files[q] /\ stamp[q] = seen[x][q]
      /\ \A x \in Actor, S \in SUBSET Path : Stale(x, S) => Stale(x, S)'
  <2>0. UNCHANGED <<seen, data, todo>>
    BY DEF Write, captureVars
  <2>1. CASE inode["checksums"] = own
    <3>1. PICK b : files' = [files EXCEPT !["checksums"] = b]
      BY <2>1 DEF Write
    <3>2. stamp' = [stamp EXCEPT !["checksums"] = @ + 1] /\ "checksums" \in Path
      BY <2>1 DEF Write, Path
    <3> QED
      BY <2>0, <3>1, <3>2, Grows
  <2>2. CASE ~(inode["checksums"] = own)
    BY <2>0, <2>2 DEF Write, Stale, BundleTypeOK
  <2> QED
    BY <2>1, <2>2
<1>b. /\ pc' \in [Actor -> Labels] /\ pc'["verify"] = pc["verify"]
      /\ pc["finalize"] = "writeChecksums" /\ pc'["finalize"] \in {"statChecksums", "rejected"}
  BY DEF Write, Step, Goto, BundleTypeOK, Labels
<1>1. BundleTypeOK'
  BY <1>0 DEF Write, captureVars, Step, Goto, sourceVars, jobVars, BundleTypeOK, Labels
<1>2. WaitingInv'
  BY <1>0 DEF Write, captureVars, Step, Goto, sourceVars, jobVars, WaitingInv, Labels, BundleTypeOK
<1>3. SeenInv'
  BY <1>0 DEF Write, captureVars, Step, Goto, sourceVars, jobVars, SeenInv, Labels, BundleTypeOK, WaitingInv
<1>4. FreshInv'
  <2> SUFFICES ASSUME NEW a \in Actor, NEW q \in Path, stamp'[q] = seen'[a][q],
                      pc'[a] \notin {"rejected", "interrupted"}
               PROVE  /\ ~Reading(a, q)' => files'[q] = data'[a][q]
                      /\ Reading(a, q)' => files'[q] # None
    BY DEF FreshInv, Reading
  <2>1. stamp[q] = seen[a][q] /\ files'[q] = files[q]
    BY <1>a
  <2>2. pc[a] \notin {"rejected", "interrupted"} /\ Reading(a, q)' = Reading(a, q)
    BY DEF Write, captureVars, Step, Goto, Reading, BundleTypeOK
  <2> QED
    BY <2>1, <2>2 DEF FreshInv, Write, captureVars, Step, Goto
<1>5. VerifyInv'
  <2>1. IsLoop(todo["verify"], Path, "checksums") => Remaining(todo["verify"]) \in SUBSET Path
    BY LoopPaths
  <2>2. /\ pc'["verify"] = pc["verify"] /\ todo' = todo
        /\ \A S \in SUBSET Path : Stale("verify", S) => Stale("verify", S)'
    BY <1>a, <1>b DEF Write, captureVars, Step, Goto, BundleTypeOK
  <2>3. IsLoop(todo["verify"], Path, "checksums") /\ Stale("verify", Remaining(todo["verify"]))
          => Stale("verify", Remaining(todo["verify"]))'
    BY <2>1, <2>2 DEF Stale
  <2> QED
    BY <1>0, <2>2, <2>3 DEF VerifyInv
<1>6. FinalizeInv'
  <2>1. Checked /\ ~NoManifest /\ Checked' /\ ~NoManifest'
    BY <1>a, <1>b DEF Write, Step, sourceVars, jobVars, Checked, NoManifest, FinalizeInv
  <2>2. own' <= stamp'["checksums"]
    BY <1>b DEF Write, BundleTypeOK, Path, FinalizeInv
  <2>3. ASSUME inode'["checksums"] = own', ~Stale("finalize", Path \ {"checksums"})
        PROVE  witnessed'["finalize"]
    <3>1. files' = [files EXCEPT !["checksums"] = NewChecksums] /\ identity' = identity
      BY <2>3 DEF Write, Step, sourceVars, jobVars
    <3>2. \A q \in Path \ {"checksums"} : files[q] = data["finalize"][q]
      BY <1>b, <2>3 DEF FreshInv, Stale, Reading
    <3>3. /\ files'["checksums"] = NewChecksums
          /\ \A q \in Subject \cup {"manifest"} : files'[q] = data["finalize"][q]
      BY <3>1, <3>2 DEF BundleTypeOK, Path, Subject
    <3>4. NewChecksums = ChecksumsOf(files')
      BY <3>3 DEF NewChecksums, ChecksumsOf, Artifacts
    <3>5. ContentsVerify(files', identity')
      BY <2>1, <3>1, <3>3 DEF Checked, ContentsVerify, Subject
    <3>6. pc'["finalize"] = "statChecksums"
      BY DEF Write, Goto, BundleTypeOK
    <3> QED
      BY <3>3, <3>4, <3>5, <3>6, Watching DEF SumsHold
  <2>4. Stale("finalize", Path \ {"checksums"}) => Stale("finalize", Path \ {"checksums"})'
    BY <1>a
  <2> QED
    BY <1>b, <2>1, <2>2, <2>3, <2>4 DEF FinalizeInv
<1> QED
  BY <1>1, <1>2, <1>3, <1>4, <1>5, <1>6

LEMMA StatManifestStep ==
    ASSUME IInv, Watch, StatWritten("manifest", NewManifest, "statManifest", "open", <<"manifest">>)
    PROVE  IInv'
<1> USE DEF IInv, Actor, Ended
<1>0. /\ witnessed' \in [Actor -> BOOLEAN]
      /\ \A x \in Actor : witnessed[x] => witnessed'[x]
  BY Watching
<1>1. BundleTypeOK'
  <2>1. pc' \in [Actor -> Labels]
    BY DEF StatWritten, Goto, BundleTypeOK, Labels
  <2>2. todo' = [x \in Actor |-> todo'[x]]
    BY DEF StatWritten, Loop, BundleTypeOK
  <2> QED
    BY <1>0, <2>1, <2>2 DEF StatWritten, Step, BundleTypeOK
<1>2. WaitingInv'
  BY <1>0 DEF StatWritten, Step, Goto, Loop, sourceVars, jobVars, WaitingInv, Labels, BundleTypeOK
<1>3. SeenInv'
  BY <1>0 DEF StatWritten, Step, Goto, Loop, sourceVars, jobVars, SeenInv, Labels, BundleTypeOK, WaitingInv
<1>4. FreshInv'
  BY <1>0 DEF StatWritten, Step, Goto, Loop, sourceVars, jobVars, FreshInv, Labels, BundleTypeOK, WaitingInv, Reading
<1>5. VerifyInv'
  BY <1>0 DEF StatWritten, Step, Goto, Loop, sourceVars, jobVars, VerifyInv, Labels, BundleTypeOK, WaitingInv, Stale
<1>6. FinalizeInv'
  BY <1>0 DEF StatWritten, Step, Goto, Loop, sourceVars, jobVars, FinalizeInv, Labels, BundleTypeOK, WaitingInv, Stale, Checked, NoManifest
<1> QED
  BY <1>1, <1>2, <1>3, <1>4, <1>5, <1>6

LEMMA StatChecksumsStep ==
    ASSUME IInv, Watch, StatWritten("checksums", NewChecksums, "statChecksums", "confirm", Listed)
    PROVE  IInv'
<1> USE DEF IInv, Actor, Ended
<1>0. /\ witnessed' \in [Actor -> BOOLEAN]
      /\ \A x \in Actor : witnessed[x] => witnessed'[x]
  BY Watching
<1>1. BundleTypeOK'
  <2>1. pc' \in [Actor -> Labels]
    BY DEF StatWritten, Goto, BundleTypeOK, Labels
  <2>2. todo' = [x \in Actor |-> todo'[x]]
    BY DEF StatWritten, Loop, BundleTypeOK
  <2> QED
    BY <1>0, <2>1, <2>2 DEF StatWritten, Step, BundleTypeOK
<1>2. WaitingInv'
  BY <1>0 DEF StatWritten, Step, Goto, Loop, sourceVars, jobVars, WaitingInv, Labels, BundleTypeOK
<1>3. SeenInv'
  BY <1>0 DEF StatWritten, Step, Goto, Loop, sourceVars, jobVars, SeenInv, Labels, BundleTypeOK, WaitingInv
<1>4. FreshInv'
  BY <1>0 DEF StatWritten, Step, Goto, Loop, sourceVars, jobVars, FreshInv, Labels, BundleTypeOK, WaitingInv, Reading
<1>5. VerifyInv'
  BY <1>0 DEF StatWritten, Step, Goto, Loop, sourceVars, jobVars, VerifyInv, Labels, BundleTypeOK, WaitingInv, Stale
<1>6. FinalizeInv'
  <2>1. \/ pc'["finalize"] = "rejected"
        \/ pc'["finalize"] = "confirm" /\ inode["checksums"] = own
    BY DEF StatWritten, Goto, BundleTypeOK
  <2>2. pc["finalize"] = "statChecksums" /\ Checked /\ ~NoManifest /\ ~NoManifest'
    BY DEF StatWritten, Step, FinalizeInv, NoManifest
  <2>3. inode["checksums"] = own => witnessed["finalize"] \/ Stale("finalize", Remaining(Listed))
    BY <2>2, WholeLoops DEF FinalizeInv
  <2>4. todo'["finalize"] = Listed /\ UNCHANGED <<seen, stamp>>
    BY DEF StatWritten, Loop, BundleTypeOK
  <2> QED
    BY <1>0, <2>1, <2>2, <2>3, <2>4, WholeLoops DEF FinalizeInv, Stale
<1> QED
  BY <1>1, <1>2, <1>3, <1>4, <1>5, <1>6

\* Before anything is staged nobody runs in the directory.
LEMMA SourceSteps ==
    ASSUME IInv, Watch, SourceStep \/ RepositoryChanges, UNCHANGED bundleVars
    PROVE  IInv'
<1> USE DEF IInv, Ended
<1>0. /\ witnessed' \in [Actor -> BOOLEAN]
      /\ \A x \in Actor : witnessed[x] => witnessed'[x]
  BY Watching
<1>1. pc["finalize"] = "waiting" /\ pc["verify"] = "waiting"
  BY SourceOnlyWaits DEF WaitingInv
<1>2. UNCHANGED <<files, inode, stamp, pc, todo, seen, data, own>>
  BY DEF bundleVars, rootVars, captureVars
<1>3. BundleTypeOK'
  BY <1>0, <1>2 DEF BundleTypeOK
<1>4. WaitingInv' /\ SeenInv'
  BY <1>1, <1>2 DEF WaitingInv, SeenInv
<1>5. FreshInv'
  BY <1>2 DEF FreshInv, Reading
<1>6. VerifyInv' /\ FinalizeInv'
  BY <1>1, <1>2 DEF VerifyInv, FinalizeInv, NoManifest
<1> QED
  BY <1>3, <1>4, <1>5, <1>6

LEMMA StutterStep ==
    ASSUME IInv, UNCHANGED vars
    PROVE  IInv'
  BY DEF IInv, BundleTypeOK, WaitingInv, SeenInv, FreshInv, Reading, VerifyInv, FinalizeInv, Stale,
     Checked, NoManifest, vars, bundleVars, rootVars, captureVars, sourceVars, jobVars

LEMMA InvInit == Init => IInv
<1> SUFFICES ASSUME Init  PROVE IInv
  OBVIOUS
<1>1. BundleTypeOK /\ WaitingInv /\ SeenInv
  BY DEF Init, BundleInit, BundleTypeOK, WaitingInv, SeenInv, Labels, Ended, Actor
<1>2. FreshInv /\ VerifyInv /\ FinalizeInv
  BY DEF Init, BundleInit, FreshInv, Reading, VerifyInv, FinalizeInv, NoManifest, Actor, Path
<1> QED
  BY <1>1, <1>2 DEF IInv

LEMMA InvNext == IInv /\ [Next]_vars => IInv'
<1> SUFFICES ASSUME IInv, [Next]_vars  PROVE IInv'
  OBVIOUS
<1>1. CASE UNCHANGED vars
  BY <1>1, StutterStep
<1>2. CASE Watch /\ (SourceStep \/ RepositoryChanges) /\ UNCHANGED bundleVars
  BY <1>2, SourceSteps
<1>3. CASE Watch /\ BundleStep
  <2>1. CASE Stage
    BY <1>3, <2>1, StageStep
  <2>2. CASE VerifyCandidates
    BY <1>3, <2>2, VerifyCandidatesStep
  <2>3. CASE WriteManifest
    BY <1>3, <2>3, CreateManifestStep, WriteManifestStep, StatManifestStep DEF WriteManifest
  <2>4. CASE WriteChecksums
    BY <1>3, <2>4, CreateChecksumsStep, WriteChecksumsStep, StatChecksumsStep DEF WriteChecksums
  <2>5. CASE Interrupt \/ StartVerify
    BY <1>3, <2>5, InterruptStep, StartVerifyStep
  <2>6. CASE CheckIdentity \/ Compare
    BY <1>3, <2>6, CheckIdentityStep, CompareStep
  <2>7. CASE \E a \in Actor : Layout(a) \/ Open(a) \/ Read(a) \/ Confirm(a)
    BY <1>3, <2>7, LayoutStep, OpenStep, ReadStep, ConfirmStep
  <2>8. CASE RootChanges
    <3>1. CASE \E p \in Path : \E bytes \in Foreign(p) \cup {None} : Alter(p, bytes, stamp[p] + 1)
      BY <1>3, <3>1, AlterStep
    <3>2. CASE \E p \in Path \ Subject : \E bytes \in Foreign(p) :
                 files[p] # None /\ Alter(p, bytes, inode[p])
      BY <1>3, <3>2, AlterStep
    <3>3. CASE RootChange /\ stray' = TRUE /\ UNCHANGED <<files, stamp, inode>>
      BY <1>3, <3>3, StrayStep
    <3> QED
      BY <2>8, <3>1, <3>2, <3>3 DEF RootChanges
  <2> QED
    BY <1>3, <2>1, <2>2, <2>3, <2>4, <2>5, <2>6, <2>7, <2>8 DEF BundleStep
<1> QED
  BY <1>1, <1>2, <1>3 DEF Next

----------------------------------------------------------------------------
(* Theorems.                                                               *)

\* The invariant holds in every reachable state: whatever others do, a path
\* whose stamp is the one that was seen still holds what was captured.
THEOREM Invariance == Spec => []IInv
<1> QED
  BY InvInit, InvNext, PTL DEF Spec

\* For any number of changes: an accepted bundle, and a finalized one, was
\* right at one instant of the call, all files together.
THEOREM OneInstant == Spec => []HeldAtOneInstant
<1>1. IInv => HeldAtOneInstant
  BY DEF IInv, VerifyInv, FinalizeInv, HeldAtOneInstant
<1> QED
  BY <1>1, Invariance, PTL

----------------------------------------------------------------------------
(* What an accepted bundle is made of.                                     *)

\* The payload and the version of a job are those of the commit it identifies.
Bound == {"bindCitation", "readCorpus", "readBenchmark", "package"}
JobInv ==
    /\ payload = [corpus |-> payload.corpus, benchmark |-> payload.benchmark]
    /\ job \in Bound => identity.version = ProjectVersion[identity.commit]
    /\ job \in {"readBenchmark", "package"} => payload.corpus = identity.commit
    /\ job = "package" => payload.benchmark = identity.commit

\* Every archive that is not forged, wherever it is, was made of the commit it
\* names.
HonestDataset(archive) ==
    \/ archive \in Forgeries
    \/ archive.corpus = archive.id.commit /\ archive.id.version = ProjectVersion[archive.id.commit]
HonestReport(archive) == archive \in Forgeries \/ archive.benchmark = archive.id.commit
Honest(bytes) ==
    /\ Readable(bytes["dataset"]) => HonestDataset(bytes["dataset"])
    /\ Readable(bytes["report"]) => HonestReport(bytes["report"])

OriginInv ==
    /\ JobInv
    /\ pc["finalize"] # "waiting" => job = "package"
    /\ files = [p \in Path |-> files[p]]
    /\ data = [a \in Actor |-> [p \in Path |-> data[a][p]]]
    /\ pc = [a \in Actor |-> pc[a]]
    /\ Honest(files)
    /\ \A a \in Actor : Honest(data[a])
    /\ pc["verify"] \in {"confirm", "accepted"} => BundleHolds(data["verify"], Expected)

LEMMA OriginInit == Init => OriginInv
  BY DEF Init, SourceInit, BundleInit, OriginInv, JobInv, Bound, Honest, Readable, Actor, Path, Subject

LEMMA JobSteps ==
    ASSUME OriginInv, SourceStep \/ RepositoryChanges
    PROVE  JobInv'
<1> USE DEF OriginInv, JobInv, Bound, JobStep
<1>1. CASE \/ CheckHead \/ CheckClean \/ ReadProjectVersion \/ CheckCitation
           \/ CheckTagType \/ CheckTagCommit \/ WriteIdentity
  BY <1>1 DEF CheckHead, CheckClean, ReadProjectVersion, CheckCitation, CheckTagType, CheckTagCommit,
     WriteIdentity
<1>2. CASE BindHead \/ BindClean \/ BindCitation
  BY <1>2 DEF BindHead, BindClean, BindCitation
<1>3. CASE BindProject
  BY <1>3 DEF BindProject, IsCommitted
<1>4. CASE RebuildDataset
  BY <1>4 DEF RebuildDataset, IsCommitted
<1>5. CASE RegenerateReport
  BY <1>5 DEF RegenerateReport, IsCommitted
<1>6. CASE RepositoryChanges
  BY <1>6 DEF RepositoryChanges, Checkout, Edit, Retag, Change, jobVars
<1> QED
  BY <1>1, <1>2, <1>3, <1>4, <1>5, <1>6 DEF SourceStep

\* What is put under a name, by the job or by others, is honest.
LEMMA HonestReplaced ==
    ASSUME NEW bytes, bytes = [p \in Path |-> bytes[p]], Honest(bytes), NEW p \in Path, NEW b,
           \/ ~Readable(b)
           \/ p = "dataset" /\ HonestDataset(b)
           \/ p = "report" /\ HonestReport(b)
           \/ p \notin {"dataset", "report"}
    PROVE  Honest([bytes EXCEPT ![p] = b])
<1> DEFINE new == [bytes EXCEPT ![p] = b]
<1>1. \A q \in Path : new[q] = IF q = p THEN b ELSE bytes[q]
  OBVIOUS
<1>2. {"dataset", "report", "manifest"} \subseteq Path
  BY DEF Path, Subject
<1> HIDE DEF new
<1>3. Honest(new)
  BY <1>1, <1>2 DEF Honest
<1> QED
  BY <1>3 DEF new

LEMMA ForeignIsHonest ==
    ASSUME NEW p \in Path, NEW b \in Foreign(p) \cup {None}
    PROVE  \/ ~Readable(b)
           \/ p = "dataset" /\ HonestDataset(b)
           \/ p = "report" /\ HonestReport(b)
           \/ p \notin {"dataset", "report"}
<1>1. CASE p = "dataset"
  BY <1>1, ContractAssumption DEF Foreign, Forged, Built, Archive, Candidate, Readable, HonestDataset
<1>2. CASE p = "report"
  BY <1>2 DEF Foreign, Forged, Built, Archive, Candidate, Readable, HonestReport
<1> QED
  BY <1>1, <1>2

LEMMA OriginKept ==
    ASSUME OriginInv, UNCHANGED <<sourceVars, files, data>>,
           pc' = [a \in Actor |-> pc'[a]], pc'["finalize"] = "waiting" => pc["finalize"] = "waiting",
           pc'["verify"] \in {"confirm", "accepted"} =>
             pc["verify"] \in {"confirm", "accepted"} \/ BundleHolds(data["verify"], Expected),
           pc["finalize"] = "waiting" => pc'["finalize"] = "waiting" \/ job = "package"
    PROVE  OriginInv'
  BY DEF OriginInv, JobInv, Honest, sourceVars, jobVars

\* A step that writes one path keeps the bundle's origin.
LEMMA OriginWritten ==
    ASSUME OriginInv, UNCHANGED <<jobVars, job, data>>, NEW p \in Path, NEW b,
           files' = [files EXCEPT ![p] = b] \/ files' = files,
           pc' = [a \in Actor |-> pc'[a]], pc'["verify"] = pc["verify"],
           pc["finalize"] # "waiting",
           \/ ~Readable(b)
           \/ p = "dataset" /\ HonestDataset(b)
           \/ p = "report" /\ HonestReport(b)
           \/ p \notin {"dataset", "report"}
    PROVE  OriginInv'
<1>1. Honest(files')
  <2>1. files = [q \in Path |-> files[q]] /\ Honest(files)
    BY DEF OriginInv
  <2>2. Honest([files EXCEPT ![p] = b])
    BY <2>1, HonestReplaced
  <2> QED
    BY <2>1, <2>2
<1>2. files' = [q \in Path |-> files'[q]]
  BY DEF OriginInv
<1>3. Honest(files)'
  BY <1>1 DEF Honest
<1>4. JobInv' /\ job' = "package"
  BY DEF OriginInv, JobInv, jobVars
<1> QED
  BY <1>2, <1>3, <1>4 DEF OriginInv, Honest

LEMMA OriginNext == OriginInv /\ [Next]_vars => OriginInv'
<1> SUFFICES ASSUME OriginInv, [Next]_vars  PROVE OriginInv'
  OBVIOUS
<1> USE DEF Actor
<1>1. CASE UNCHANGED vars
  BY <1>1, OriginKept DEF vars, bundleVars, rootVars, captureVars, OriginInv
<1>2. CASE (SourceStep \/ RepositoryChanges) /\ UNCHANGED bundleVars
  <2>1. JobInv' /\ UNCHANGED <<files, data, pc>>
    BY <1>2, JobSteps DEF bundleVars, rootVars, captureVars
  <2>2. job # "package"
    BY <1>2 DEF SourceStep, JobStep, CheckHead, CheckClean, ReadProjectVersion, CheckCitation,
       CheckTagType, CheckTagCommit, WriteIdentity, BindHead, BindClean, BindProject, BindCitation,
       RebuildDataset, RegenerateReport, RepositoryChanges, Checkout, Edit, Retag, Change
  <2> QED
    BY <2>1, <2>2 DEF OriginInv, Honest
<1>3. CASE Stage
  <2>1. /\ files'["dataset"] = Archive(identity, payload).dataset
        /\ files'["report"] = Archive(identity, payload).report
        /\ files'["manifest"] = None /\ files' = [p \in Path |-> files'[p]]
    BY <1>3 DEF Stage, Path, Subject
  <2>2. job = "package" /\ UNCHANGED <<sourceVars, data>> /\ pc' = [pc EXCEPT !["finalize"] = "layout"]
    BY <1>3 DEF Stage, captureVars
  <2>3. Honest(files)'
    BY <2>1, <2>2 DEF Honest, HonestDataset, HonestReport, Archive, Candidate, OriginInv, JobInv, Bound,
       Readable
  <2>4. JobInv'
    BY <2>2 DEF OriginInv, JobInv, sourceVars, jobVars
  <2> QED
    BY <2>1, <2>2, <2>3, <2>4 DEF OriginInv, Honest, sourceVars
<1>4. CASE \/ \E a \in Actor : Layout(a) \/ Open(a)
           \/ VerifyCandidates \/ CheckIdentity
  <2>1. UNCHANGED <<sourceVars, files, data>> /\ pc' = [a \in Actor |-> pc'[a]]
    BY <1>4 DEF Layout, Open, VerifyCandidates, CheckIdentity, Step, Goto, OriginInv
  <2>2. pc["finalize"] = "waiting" <=> pc'["finalize"] = "waiting"
    BY <1>4 DEF Layout, Open, VerifyCandidates, CheckIdentity, Step, Goto, OriginInv
  <2>3. pc'["verify"] \in {"confirm", "accepted"} => pc["verify"] \in {"confirm", "accepted"}
    BY <1>4 DEF Layout, Open, VerifyCandidates, CheckIdentity, Step, Goto, OriginInv
  <2> QED
    BY <2>1, <2>2, <2>3, OriginKept
<1>5. CASE \/ Compare \/ Interrupt \/ StartVerify
           \/ \E a \in Actor : Confirm(a)
  <2>1. UNCHANGED <<sourceVars, files, data>> /\ pc' = [a \in Actor |-> pc'[a]]
    BY <1>5 DEF Compare, Confirm, Interrupt, StartVerify, Step, Goto, OriginInv, rootVars, captureVars
  <2>2. pc["finalize"] = "waiting" <=> pc'["finalize"] = "waiting"
    BY <1>5 DEF Compare, Confirm, AfterConfirm, Interrupt, StartVerify, Step, Goto, OriginInv, Ended
  <2>3. pc'["verify"] \in {"confirm", "accepted"} =>
          pc["verify"] \in {"confirm", "accepted"} \/ BundleHolds(data["verify"], Expected)
    BY <1>5 DEF Compare, Confirm, Interrupt, StartVerify, Step, Goto, OriginInv
  <2> QED
    BY <2>1, <2>2, <2>3, OriginKept
<1>6. ASSUME NEW a \in Actor, Read(a)  PROVE OriginInv'
  <2> DEFINE p == Head(todo[a])
  <2>1. UNCHANGED <<sourceVars, files>> /\ data' = [data EXCEPT ![a][p] = files[p]]
    BY <1>6 DEF Read, Step
  <2>2. /\ pc[a] = "read" /\ pc' = [b \in Actor |-> pc'[b]] /\ pc'[a] \notin {"confirm", "accepted", "waiting"}
        /\ \A b \in Actor \ {a} : pc'[b] = pc[b]
    BY <1>6 DEF Read, AfterRead, Step, Goto, OriginInv
  <2>3. data'[a] = [data[a] EXCEPT ![p] = files[p]] /\ \A b \in Actor \ {a} : data'[b] = data[b]
    BY <2>1 DEF OriginInv
  <2>4. data[a] = [q \in Path |-> data[a][q]]
    BY DEF OriginInv
  <2>5. Honest(data'[a]) /\ data'[a] = [q \in Path |-> data'[a][q]]
    <3>1. CASE p \in Path
      <4>1. Honest(files) /\ Honest(data[a])
        BY DEF OriginInv
      <4>2. \/ ~Readable(files[p])
            \/ p = "dataset" /\ HonestDataset(files[p])
            \/ p = "report" /\ HonestReport(files[p])
            \/ p \notin {"dataset", "report"}
        BY <4>1 DEF Honest
      <4>3. Honest([data[a] EXCEPT ![p] = files[p]])
        BY <2>4, <3>1, <4>1, <4>2, HonestReplaced
      <4> QED
        BY <2>3, <2>4, <4>3
    <3>2. CASE p \notin Path
      <4>1. data'[a] = data[a]
        BY <2>3, <2>4, <3>2
      <4> QED
        BY <2>4, <4>1 DEF OriginInv
    <3> QED
      BY <3>1, <3>2
  <2>6. \A b \in Actor : Honest(data'[b]) /\ data'[b] = [q \in Path |-> data'[b][q]]
    BY <2>3, <2>5 DEF OriginInv
  <2>7. data' = [b \in Actor |-> [q \in Path |-> data'[b][q]]]
    BY <2>1, <2>6 DEF OriginInv
  <2>8. pc'["verify"] \in {"confirm", "accepted"} => BundleHolds(data'["verify"], Expected)
    BY <2>2, <2>3 DEF OriginInv
  <2>9. JobInv' /\ Honest(files)' /\ (pc'["finalize"] # "waiting" => job' = "package")
    BY <2>1, <2>2 DEF OriginInv, JobInv, Honest, sourceVars, jobVars
  <2> HIDE DEF p
  <2> QED
    BY <2>1, <2>2, <2>6, <2>7, <2>8, <2>9 DEF OriginInv, Honest, BundleHolds
<1>7. CASE WriteManifest
  <2>1. pc["finalize"] # "waiting" /\ UNCHANGED <<sourceVars, data>>
        /\ pc' = [a \in Actor |-> pc'[a]] /\ pc'["verify"] = pc["verify"]
        /\ pc'["finalize"] # "waiting"
    BY <1>7 DEF WriteManifest, Create, Write, StatWritten, Step, Goto, OriginInv, captureVars
  <2>3. \/ files' = [files EXCEPT !["manifest"] = Partial]
        \/ files' = [files EXCEPT !["manifest"] = NewManifest]
        \/ files' = files
    BY <1>7 DEF WriteManifest, Create, Write, StatWritten
  <2>4. "manifest" \in Path
    BY DEF Path
  <2> QED
    BY <2>1, <2>3, <2>4, OriginWritten DEF sourceVars
<1>8. CASE WriteChecksums
  <2>1. pc["finalize"] # "waiting" /\ UNCHANGED <<sourceVars, data>>
        /\ pc' = [a \in Actor |-> pc'[a]] /\ pc'["verify"] = pc["verify"]
        /\ pc'["finalize"] # "waiting"
    BY <1>8 DEF WriteChecksums, Create, Write, StatWritten, Step, Goto, OriginInv, captureVars
  <2>2. (\E b : files' = [files EXCEPT !["checksums"] = b]) \/ files' = files
    BY <1>8 DEF WriteChecksums, Create, Write, StatWritten
  <2>3. "checksums" \in Path
    BY DEF Path
  <2> QED
    BY <2>1, <2>2, <2>3, OriginWritten DEF sourceVars
<1>9. CASE RootChanges
  <2>1. pc["finalize"] # "waiting" /\ UNCHANGED <<jobVars, job, data, pc>>
    BY <1>9 DEF RootChanges, Alter, RootChange, captureVars
  <2>2. \/ \E p \in Path : \E b \in Foreign(p) \cup {None} : files' = [files EXCEPT ![p] = b]
        \/ files' = files
    BY <1>9 DEF RootChanges, Alter
  <2>3. CASE files' = files
    BY <2>1, <2>3 DEF OriginInv, JobInv, Honest, jobVars
  <2>4. ASSUME NEW p \in Path, NEW b \in Foreign(p) \cup {None}, files' = [files EXCEPT ![p] = b]
        PROVE  OriginInv'
    <3>1. pc' = [a \in Actor |-> pc'[a]]
      BY <2>1 DEF OriginInv
    <3> QED
      BY <2>1, <2>4, <3>1, ForeignIsHonest, OriginWritten
  <2> QED
    BY <2>2, <2>3, <2>4
<1> QED
  BY <1>1, <1>2, <1>3, <1>4, <1>5, <1>6, <1>7, <1>8, <1>9 DEF Next, BundleStep

\* For any set of commits, versions, forgeries and changes, to the checkout and
\* to the directory: an accepted bundle names the wanted commit, is consistent,
\* and holds that commit's bytes and version wherever a job built it.
THEOREM RightCommit == Spec => []AcceptedIsTheCommit
<1>1. OriginInv => AcceptedIsTheCommit
  <2> SUFFICES ASSUME OriginInv, pc["verify"] = "accepted"
               PROVE  AcceptedIsTheCommit
    BY DEF AcceptedIsTheCommit
  <2> DEFINE b == data["verify"]
  <2>1. Honest(b) /\ BundleHolds(b, Expected)
    BY DEF OriginInv, Actor
  <2>2. /\ Readable(b["manifest"]) /\ b["manifest"].id.commit = Expected.commit
        /\ Readable(b["dataset"]) /\ b["dataset"].id = b["manifest"].id
        /\ Readable(b["report"]) /\ b["report"].id = b["manifest"].id
        /\ b["report"].dependency = b["dataset"] /\ b["report"].corpus = b["dataset"].corpus
    BY <2>1 DEF BundleHolds, IsAskedFor, ContentsVerify, CandidatesVerify, ReadsAs, DependsOn, Regenerates
  <2> QED
    BY <2>1, <2>2 DEF Honest, HonestDataset, HonestReport, AcceptedIsTheCommit
<1>2. Spec => []OriginInv
  BY OriginInit, OriginNext, PTL DEF Spec
<1> QED
  BY <1>1, <1>2, PTL

----------------------------------------------------------------------------
(* A release that nobody touches.                                          *)

\* The identity that a job has accepted is the one it was asked for.
RequestInv ==
    /\ request \in Request
    /\ job \in {"bindHead", "bindClean", "bindProject"} \cup Bound =>
         identity = [mode |-> request.mode, commit |-> request.commit,
                     version |-> identity.version, tag |-> request.tag]

\* Finalization has written its manifest, and its checksums.
MadeManifest ==
    \/ pc["finalize"] \in {"statManifest", "createChecksums", "writeChecksums", "statChecksums",
                           "finalized"}
    \/ pc["finalize"] \in {"open", "read"} /\ todo["finalize"] = <<"manifest">>
    \/ pc["finalize"] = "confirm" /\ ~NoManifest
MadeChecksums ==
    \/ pc["finalize"] \in {"statChecksums", "finalized"}
    \/ pc["finalize"] = "confirm" /\ ~NoManifest

\* What finalization has staged, written and confirmed is still there.
FinalizeUntouched ==
    /\ pc["finalize"] # "waiting" =>
         /\ files["dataset"] = Built(identity).dataset
         /\ files["report"] = Built(identity).report
         /\ files["sbom"] \in Sboms
    /\ pc["finalize"] = "writeManifest" => inode["manifest"] = own
    /\ MadeManifest => files["manifest"] = NewManifest
    /\ pc["finalize"] = "writeChecksums" => inode["checksums"] = own
    /\ MadeChecksums => files["checksums"] = NewChecksums /\ Checked /\ ~NoManifest
    /\ pc["finalize"] = "confirm" /\ ~NoManifest =>
         \A p \in Path \ {"checksums"} :
             p \in Remaining(todo["finalize"]) \/ stamp[p] = seen["finalize"][p]
    /\ pc["finalize"] = "finalized" =>
         \A p \in Path \ {"checksums"} : stamp[p] = seen["finalize"][p]

\* A verification that began when it was finished reads it as it is.
VerifyUntouched ==
    pc["verify"] # "waiting" =>
      /\ pc["finalize"] = "finalized"
      /\ IsAskedFor(identity, Expected) =>
           /\ pc["verify"] # "rejected"
           /\ pc["verify"] \in {"open", "read"} =>
                \/ todo["verify"] = <<"manifest">>
                \/ /\ IsLoop(todo["verify"], Path \ {"manifest"}, "checksums")
                   /\ \A p \in Path : p \in Remaining(todo["verify"]) \/ stamp[p] = seen["verify"][p]
           /\ pc["verify"] = "read" =>
                stamp[Head(todo["verify"])] = seen["verify"][Head(todo["verify"])]
           /\ pc["verify"] = "identity" => stamp["manifest"] = seen["verify"]["manifest"]
           /\ pc["verify"] \in {"compare", "confirm"} =>
                \A p \in Path : stamp[p] = seen["verify"][p]

UntouchedInv == ~disturbed => ~stray /\ FinalizeUntouched /\ VerifyUntouched

LEMMA RequestInit == Init => RequestInv
  BY DEF Init, SourceInit, RequestInv, Bound

LEMMA RequestNext == RequestInv /\ [Next]_vars => RequestInv'
<1> SUFFICES ASSUME RequestInv, [Next]_vars  PROVE RequestInv'
  OBVIOUS
<1> USE DEF RequestInv, Bound, JobStep
<1>1. CASE UNCHANGED <<jobVars, job>>
  BY <1>1 DEF jobVars
<1>2. CASE \/ CheckHead \/ CheckClean \/ ReadProjectVersion \/ CheckCitation
           \/ CheckTagType \/ CheckTagCommit
  BY <1>2 DEF CheckHead, CheckClean, ReadProjectVersion, CheckCitation, CheckTagType, CheckTagCommit
<1>3. CASE WriteIdentity
  BY <1>3 DEF WriteIdentity
<1>4. CASE BindHead \/ BindClean \/ BindProject \/ BindCitation \/ RebuildDataset \/ RegenerateReport
  BY <1>4 DEF BindHead, BindClean, BindProject, BindCitation, RebuildDataset, RegenerateReport
<1>5. RepositoryChanges => UNCHANGED <<jobVars, job>>
  BY DEF RepositoryChanges, Checkout, Edit, Retag, Change
<1>6. BundleStep => UNCHANGED <<jobVars, job>>
  BY DEF BundleStep, Stage, VerifyCandidates, WriteManifest, WriteChecksums, Create, Write, StatWritten,
     Interrupt, StartVerify, CheckIdentity, Compare, Layout, Open, Read, Confirm, RootChanges,
     Alter, RootChange, Step, sourceVars
<1>7. UNCHANGED vars => UNCHANGED <<jobVars, job>>
  BY DEF vars, sourceVars
<1> QED
  BY <1>1, <1>2, <1>3, <1>4, <1>5, <1>6, <1>7 DEF Next, SourceStep

\* What a job packages is what the release it was asked for is built of.
LEMMA PackagedIsBuilt ==
    ASSUME OriginInv, RequestInv, job = "package"
    PROVE  /\ identity = IdentityOf(request)
           /\ Archive(identity, payload) = Built(identity)
<1>1. payload = [corpus |-> identity.commit, benchmark |-> identity.commit]
  BY DEF OriginInv, JobInv, Bound
<1>2. identity.version = ProjectVersion[identity.commit]
  BY DEF OriginInv, JobInv, Bound
<1>3. identity = [mode |-> request.mode, commit |-> request.commit,
                  version |-> identity.version, tag |-> request.tag]
  BY DEF RequestInv, Bound
<1>4. identity.commit = request.commit
  BY <1>3
<1> QED
  BY <1>1, <1>2, <1>3, <1>4 DEF IdentityOf, Built

LEMMA NotTheManifest ==
    ASSUME NEW s, IsLoop(s, Subject, "sbom")
    PROVE  s # <<"manifest">> /\ Head(s) # "manifest" /\ Head(s) # "checksums"
<1>1. Head(s) \in Subject
  BY LoopStep
<1>2. Head(<<"manifest">>) = "manifest"
  OBVIOUS
<1> QED
  BY <1>1, <1>2 DEF Subject

\* The loop of the verifier that follows the manifest.
LEMMA BundleLoop ==
    /\ IsLoop(Subjects \o <<"checksums">>, Path \ {"manifest"}, "checksums")
    /\ Remaining(Subjects \o <<"checksums">>) = Path \ {"manifest"}
<1> DEFINE s == Subjects \o <<"checksums">>
<1>1. s \in Seq(Path \ {"manifest"}) /\ Len(s) = 4 /\ s # <<>>
      /\ s[1] = "dataset" /\ s[2] = "report" /\ s[3] = "sbom" /\ s[4] = "checksums"
  BY DEF Subjects, Path, Subject
<1>2. \A i \in 1 .. 4 : i = 1 \/ i = 2 \/ i = 3 \/ i = 4
  OBVIOUS
<1> HIDE DEF s
<1>3. IsLoop(s, Path \ {"manifest"}, "checksums") /\ Remaining(s) = Path \ {"manifest"}
  BY <1>1, <1>2 DEF IsLoop, Remaining, Path, Subject
<1> QED
  BY <1>3 DEF s

\* An untouched finalized bundle is the release that its job was asked for.
LEMMA GoodBundle ==
    ASSUME IInv, OriginInv, RequestInv, FinalizeUntouched, pc["finalize"] = "finalized",
           IsAskedFor(identity, Expected)
    PROVE  BundleHolds(files, Expected) /\ \A p \in Path : files[p] # None
<1> DEFINE kept == data["finalize"]
<1>1. identity = IdentityOf(request) /\ request \in Request
  BY PackagedIsBuilt DEF IInv, WaitingInv, RequestInv
<1>2. /\ files["dataset"] = Built(identity).dataset
      /\ files["report"] = Built(identity).report
      /\ files["sbom"] \in Sboms
      /\ files["manifest"] = NewManifest /\ files["checksums"] = NewChecksums /\ Checked
      /\ \A p \in Path \ {"checksums"} : stamp[p] = seen["finalize"][p]
  BY DEF FinalizeUntouched, MadeManifest, MadeChecksums
<1>3. \A p \in Path \ {"checksums"} : files[p] = kept[p]
  BY <1>2 DEF IInv, FreshInv, Reading, Actor
<1>4. Artifacts(kept) = Artifacts(files) /\ kept["manifest"] = files["manifest"]
      /\ \A s \in Subject : kept[s] = files[s]
  BY <1>3 DEF Artifacts, Path, Subject
<1>5. NewManifest = ManifestOf(identity, files) /\ NewChecksums = ChecksumsOf(files)
  BY <1>4 DEF NewManifest, NewChecksums, ManifestOf, ChecksumsOf
<1>6. ContentsVerify(files, identity)
  BY <1>2, <1>4 DEF Checked, ContentsVerify, Subject
<1> DEFINE made == BuiltSubjects(identity, files["sbom"])
<1>7. Artifacts(made) = Artifacts(files)
  BY <1>2 DEF Artifacts, BuiltSubjects, Subject
<1>8. ManifestOf(identity, made) = files["manifest"] /\ ChecksumsOf(files) = files["checksums"]
      /\ [manifest |-> files["manifest"], artifacts |-> Artifacts(made)] = ChecksumsOf(files)
  BY <1>2, <1>5, <1>7 DEF ManifestOf, ChecksumsOf
<1>9. Readable(files["manifest"]) /\ files["checksums"] # None
  BY <1>1, <1>2, <1>8, MetadataAssumption
<1>10. files["manifest"].id = identity /\ files["manifest"].artifacts = Artifacts(files)
  BY <1>2, <1>5 DEF ManifestOf
<1>11. BundleHolds(files, Expected)
  BY <1>6, <1>8, <1>9, <1>10 DEF BundleHolds
<1>12. \A p \in Path : files[p] # None
  BY <1>2, <1>6, <1>9, ContractAssumption DEF ContentsVerify, Readable, Path, Subject
<1> QED
  BY <1>11, <1>12

----------------------------------------------------------------------------
(* Each step leaves an untouched release untouched.                        *)

LEMMA FinalizeKept ==
    ASSUME FinalizeUntouched, UNCHANGED <<files, inode, stamp, own, identity>>,
           pc'["finalize"] = pc["finalize"], todo'["finalize"] = todo["finalize"],
           seen'["finalize"] = seen["finalize"], data'["finalize"] = data["finalize"]
    PROVE  FinalizeUntouched'
<1>1. NoManifest' = NoManifest /\ NewManifest' = NewManifest /\ NewChecksums' = NewChecksums
  BY DEF NoManifest, NewManifest, NewChecksums
<1>2. Checked' <=> Checked
  BY DEF Checked
<1>3. MadeManifest' <=> MadeManifest
  BY <1>1 DEF MadeManifest
<1>4. MadeChecksums' <=> MadeChecksums
  BY <1>1 DEF MadeChecksums
<1> QED
  BY <1>1, <1>2, <1>3, <1>4 DEF FinalizeUntouched

\* While finalization runs, an untouched release has no verifier.
LEMMA FinalizeAlone ==
    ASSUME BundleTypeOK, ~disturbed => ~stray /\ VerifyUntouched, pc["finalize"] # "finalized",
           UNCHANGED <<stray, disturbed>>, pc'["verify"] = pc["verify"],
           ~disturbed => FinalizeUntouched'
    PROVE  UntouchedInv'
  BY DEF UntouchedInv, VerifyUntouched

LEMMA StageUntouched ==
    ASSUME IInv, OriginInv, RequestInv, UntouchedInv, Stage
    PROVE  UntouchedInv'
<1>1. /\ pc["finalize"] = "waiting" /\ pc'["verify"] = pc["verify"] /\ pc'["finalize"] = "layout"
      /\ UNCHANGED <<stray, disturbed, identity>>
  BY DEF Stage, sourceVars, jobVars, IInv, BundleTypeOK, Actor
<1>2. Archive(identity, payload) = Built(identity)
  BY PackagedIsBuilt DEF Stage
<1>3. /\ files'["dataset"] = Built(identity).dataset
      /\ files'["report"] = Built(identity).report
      /\ files'["sbom"] \in Sboms
  BY <1>2 DEF Stage, Path, Subject
<1>4. FinalizeUntouched'
  BY <1>1, <1>3 DEF FinalizeUntouched, MadeManifest, MadeChecksums
<1> QED
  BY <1>1, <1>4, FinalizeAlone DEF IInv, UntouchedInv

LEMMA FinalizeListsUntouched ==
    ASSUME IInv, UntouchedInv, Layout("finalize") \/ Open("finalize") \/ VerifyCandidates
    PROVE  UntouchedInv'
<1>1. /\ pc["finalize"] \in {"layout", "open", "candidates"} /\ pc'["verify"] = pc["verify"]
      /\ pc'["finalize"] \in {"rejected", "open", "read", "confirm"}
      /\ pc["finalize"] # "open" => pc'["finalize"] \in {"rejected", "open", "confirm"}
      /\ UNCHANGED <<stray, disturbed, identity, files, inode, stamp, own, data>>
  BY DEF Layout, Open, VerifyCandidates, Step, Goto, sourceVars, jobVars, IInv, BundleTypeOK, Actor
<1>2. pc'["finalize"] = "confirm" => NoManifest
  BY DEF Layout, Open, VerifyCandidates, Step, Goto, IInv, BundleTypeOK, Actor, FinalizeInv
<1>3. pc["finalize"] = "open" => todo'["finalize"] = todo["finalize"]
  BY DEF Layout, Open, VerifyCandidates, Step
<1>4. pc["finalize"] # "open" => todo'["finalize"] # <<"manifest">>
  <2>1. pc["finalize"] # "open" => todo'["finalize"] = Subjects
    BY DEF Layout, Open, VerifyCandidates, Step, Loop, IInv, BundleTypeOK, Actor
  <2>2. Subjects # <<"manifest">>
    BY WholeLoops, NotTheManifest
  <2> QED
    BY <2>1, <2>2
<1>5. NoManifest' = NoManifest /\ NewManifest' = NewManifest
  BY <1>1 DEF NoManifest, NewManifest
<1>6. ~MadeChecksums' /\ (MadeManifest' => MadeManifest)
  BY <1>1, <1>2, <1>3, <1>4, <1>5 DEF MadeChecksums, MadeManifest
<1>7. FinalizeUntouched => FinalizeUntouched'
  BY <1>1, <1>2, <1>5, <1>6 DEF FinalizeUntouched
<1> QED
  BY <1>1, <1>7, FinalizeAlone DEF IInv, UntouchedInv

LEMMA FinalizeReadsUntouched ==
    ASSUME IInv, UntouchedInv, Read("finalize")
    PROVE  UntouchedInv'
<1> DEFINE p == Head(todo["finalize"])
<1>1. /\ pc["finalize"] = "read" /\ pc'["verify"] = pc["verify"]
      /\ UNCHANGED <<stray, disturbed, identity, files, inode, stamp, own>>
      /\ pc'["finalize"] \in {"rejected", AfterRead("finalize", p)}
      /\ todo'["finalize"] = Tail(todo["finalize"])
      /\ data'["finalize"] = [data["finalize"] EXCEPT ![p] = files[p]]
  BY DEF Read, Step, Goto, Loop, sourceVars, jobVars, IInv, BundleTypeOK, Actor
<1>2. CASE IsLoop(todo["finalize"], Subject, "sbom")
  <2>1. p \in Subject /\ pc'["finalize"] \in {"rejected", "candidates", "open"}
    <3>1. p \in Subject
      BY <1>2, LoopStep
    <3>2. CASE p = "sbom"
      BY <1>1, <3>1, <3>2 DEF AfterRead
    <3>3. CASE p # "sbom"
      <4>1. p \notin {"sbom", "manifest", "checksums"}
        BY <3>1, <3>3 DEF Subject
      <4> QED
        BY <1>1, <3>1, <4>1 DEF AfterRead
    <3> QED
      BY <3>2, <3>3
  <2>2. pc'["finalize"] = "open" => p # "sbom"
    BY <1>1, <2>1 DEF AfterRead
  <2>3. pc'["finalize"] = "open" => todo'["finalize"] # <<"manifest">>
    <3>1. p # "sbom" => IsLoop(Tail(todo["finalize"]), Subject, "sbom")
      BY <1>2, LoopStep
    <3> QED
      BY <1>1, <2>2, <3>1, NotTheManifest
  <2>4. ~MadeManifest' /\ ~MadeChecksums'
    BY <2>1, <2>3 DEF MadeManifest, MadeChecksums
  <2>5. FinalizeUntouched => FinalizeUntouched'
    BY <1>1, <2>1, <2>4 DEF FinalizeUntouched
  <2> QED
    BY <1>1, <2>5, FinalizeAlone DEF IInv, UntouchedInv
<1>3. CASE todo["finalize"] = <<"manifest">>
  <2>1. p = "manifest"
    BY <1>3
  <2>2. pc'["finalize"] \in {"rejected", "createChecksums"}
    BY <1>1, <2>1 DEF AfterRead
  <2>3. MadeManifest /\ ~MadeChecksums'
    BY <1>1, <1>3, <2>2 DEF MadeManifest, MadeChecksums
  <2>4. \A s \in Subject : data'["finalize"][s] = data["finalize"][s]
    BY <1>1, <2>1 DEF IInv, BundleTypeOK, Actor, Path, Subject
  <2>5. NewManifest' = NewManifest
    <3>1. Artifacts(data["finalize"])' = Artifacts(data["finalize"])
      BY <2>4 DEF Artifacts
    <3> QED
      BY <1>1, <3>1 DEF NewManifest, ManifestOf, Artifacts
  <2>6. FinalizeUntouched => FinalizeUntouched'
    BY <1>1, <2>2, <2>3, <2>5 DEF FinalizeUntouched
  <2> QED
    BY <1>1, <2>6, FinalizeAlone DEF IInv, UntouchedInv
<1> QED
  BY <1>1, <1>2, <1>3 DEF IInv, FinalizeInv

LEMMA FinalizeConfirmsUntouched ==
    ASSUME IInv, UntouchedInv, Confirm("finalize")
    PROVE  UntouchedInv'
<1> DEFINE s == todo["finalize"]
           p == Head(todo["finalize"])
<1>1. /\ pc["finalize"] = "confirm" /\ pc'["verify"] = pc["verify"]
      /\ UNCHANGED <<stray, disturbed, identity, files, inode, stamp, own, seen, data>>
      /\ \/ pc'["finalize"] = "rejected"
         \/ pc'["finalize"] = AfterConfirm("finalize", p) /\ stamp[p] = seen["finalize"][p]
      /\ todo'["finalize"] = Tail(s)
  BY DEF Confirm, Step, Goto, Loop, sourceVars, jobVars, IInv, BundleTypeOK, Actor
<1>2. NoManifest' = NoManifest /\ NewManifest' = NewManifest /\ NewChecksums' = NewChecksums
      /\ (Checked' <=> Checked)
  BY <1>1 DEF NoManifest, NewManifest, NewChecksums, Checked
<1>3. CASE NoManifest
  <2>1. IsLoop(s, Subject, "sbom")
    BY <1>1, <1>3 DEF IInv, FinalizeInv
  <2>2. pc'["finalize"] \in {"rejected", "createManifest", "confirm"}
    <3>1. p # "manifest" /\ p # "checksums"
      BY <2>1, NotTheManifest
    <3> QED
      BY <1>1, <3>1 DEF AfterConfirm
  <2>3. ~MadeManifest' /\ ~MadeChecksums'
    BY <1>2, <1>3, <2>2 DEF MadeManifest, MadeChecksums
  <2>4. FinalizeUntouched => FinalizeUntouched'
    BY <1>1, <1>2, <1>3, <2>2, <2>3 DEF FinalizeUntouched
  <2> QED
    BY <1>1, <2>4, FinalizeAlone DEF IInv, UntouchedInv
<1>4. CASE ~NoManifest
  <2>1. IsLoop(s, Path, "manifest") /\ MadeManifest /\ MadeChecksums
    BY <1>1, <1>4 DEF IInv, FinalizeInv, MadeManifest, MadeChecksums
  <2>2. pc'["finalize"] \in {"rejected", "finalized", "accepted", "confirm"}
    BY <1>1, <1>4 DEF AfterConfirm, NoManifest
  <2>3. pc'["finalize"] = "finalized" => p = "manifest"
    BY <1>1, <1>4 DEF AfterConfirm, NoManifest
  <2>4. pc'["finalize"] = "finalized" => Remaining(Tail(s)) = {}
    BY <2>1, <2>3, LoopStep
  <2>5. pc'["finalize"] # "rejected" =>
          \A q \in Remaining(s) : q \in Remaining(Tail(s)) \/ stamp[q] = seen["finalize"][q]
    BY <1>1, <2>1, LoopStep
  <2>6. FinalizeUntouched /\ pc'["finalize"] # "rejected" =>
          \A q \in Path \ {"checksums"} :
              q \in Remaining(Tail(s)) \/ stamp[q] = seen["finalize"][q]
    BY <1>1, <1>4, <2>5 DEF FinalizeUntouched
  <2>7. ASSUME FinalizeUntouched  PROVE FinalizeUntouched'
    <3>1. /\ files["dataset"] = Built(identity).dataset
          /\ files["report"] = Built(identity).report
          /\ files["sbom"] \in Sboms
          /\ files["manifest"] = NewManifest /\ files["checksums"] = NewChecksums /\ Checked
      BY <1>1, <2>1, <2>7 DEF FinalizeUntouched
    <3> HIDE DEF p, s
    <3> QED
      BY <1>1, <1>2, <1>4, <2>2, <2>4, <2>6, <2>7, <3>1 DEF FinalizeUntouched
  <2> QED
    BY <1>1, <2>7, FinalizeAlone DEF IInv, UntouchedInv
<1> QED
  BY <1>3, <1>4

LEMMA ManifestUntouched ==
    ASSUME IInv, UntouchedInv, WriteManifest
    PROVE  UntouchedInv'
<1>1. /\ pc["finalize"] \in {"createManifest", "writeManifest", "statManifest"}
      /\ pc'["verify"] = pc["verify"] /\ UNCHANGED <<stray, disturbed, identity, data>>
  BY DEF WriteManifest, Create, Write, StatWritten, Step, Goto, captureVars, sourceVars, jobVars,
     IInv, BundleTypeOK, Actor
<1>2. NewManifest' = NewManifest /\ NoManifest' = NoManifest
  BY <1>1 DEF NewManifest, NoManifest
<1>3. \A q \in Path \ {"manifest"} : files'[q] = files[q]
  BY DEF WriteManifest, Create, Write, StatWritten, IInv, BundleTypeOK
<1>4. files'["dataset"] = files["dataset"] /\ files'["report"] = files["report"]
      /\ files'["sbom"] = files["sbom"]
  BY <1>3 DEF Path, Subject
<1>5. CASE Create("manifest", "createManifest", "writeManifest")
  <2>1. pc'["finalize"] \in {"rejected", "writeManifest"}
    BY <1>5 DEF Create, Goto, IInv, BundleTypeOK, Actor
  <2>2. pc'["finalize"] = "writeManifest" => inode'["manifest"] = own'
    BY <1>5 DEF Create, Goto, IInv, BundleTypeOK, Actor, Path
  <2>3. ~MadeManifest' /\ ~MadeChecksums'
    BY <2>1 DEF MadeManifest, MadeChecksums
  <2>4. FinalizeUntouched => FinalizeUntouched'
    BY <1>1, <1>4, <2>1, <2>2, <2>3 DEF FinalizeUntouched
  <2> QED
    BY <1>1, <2>4, FinalizeAlone DEF IInv, UntouchedInv
<1>6. CASE Write("manifest", NewManifest, "writeManifest", "statManifest")
  <2>1. pc["finalize"] = "writeManifest" /\ pc'["finalize"] = "statManifest"
    BY <1>6 DEF Write, Step, Goto, IInv, BundleTypeOK, Actor
  <2>2. inode["manifest"] = own => files'["manifest"] = NewManifest
    BY <1>6 DEF Write, IInv, BundleTypeOK, Path
  <2>3. ~MadeChecksums'
    BY <2>1 DEF MadeChecksums
  <2>4. FinalizeUntouched => FinalizeUntouched'
    BY <1>1, <1>2, <1>4, <2>1, <2>2, <2>3 DEF FinalizeUntouched
  <2> QED
    BY <1>1, <2>1, <2>4, FinalizeAlone DEF IInv, UntouchedInv
<1>7. CASE StatWritten("manifest", NewManifest, "statManifest", "open", <<"manifest">>)
  <2>1. pc["finalize"] = "statManifest" /\ pc'["finalize"] \in {"rejected", "open"}
        /\ UNCHANGED files
    BY <1>7 DEF StatWritten, Step, Goto, IInv, BundleTypeOK, Actor
  <2>2. MadeManifest /\ ~MadeChecksums'
    BY <2>1 DEF MadeManifest, MadeChecksums
  <2>3. FinalizeUntouched => FinalizeUntouched'
    BY <1>1, <1>2, <2>1, <2>2 DEF FinalizeUntouched
  <2> QED
    BY <1>1, <2>3, FinalizeAlone DEF IInv, UntouchedInv
<1> QED
  BY <1>5, <1>6, <1>7 DEF WriteManifest

LEMMA ChecksumsUntouched ==
    ASSUME IInv, UntouchedInv, WriteChecksums
    PROVE  UntouchedInv'
<1>1. /\ pc["finalize"] \in {"createChecksums", "writeChecksums", "statChecksums"}
      /\ pc'["verify"] = pc["verify"] /\ UNCHANGED <<stray, disturbed, identity, data, seen>>
  BY DEF WriteChecksums, Create, Write, StatWritten, Step, Goto, captureVars, sourceVars, jobVars,
     IInv, BundleTypeOK, Actor
<1>2. /\ NewManifest' = NewManifest /\ NewChecksums' = NewChecksums /\ NoManifest' = NoManifest
      /\ (Checked' <=> Checked)
  BY <1>1 DEF NewManifest, NewChecksums, NoManifest, Checked
<1>3. \A q \in Path \ {"checksums"} : files'[q] = files[q]
  BY DEF WriteChecksums, Create, Write, StatWritten, IInv, BundleTypeOK
<1>4. /\ files'["dataset"] = files["dataset"] /\ files'["report"] = files["report"]
      /\ files'["sbom"] = files["sbom"] /\ files'["manifest"] = files["manifest"]
  BY <1>3 DEF Path, Subject
<1>5. MadeManifest /\ Checked /\ ~NoManifest
  BY <1>1 DEF MadeManifest, IInv, FinalizeInv
<1>6. CASE Create("checksums", "createChecksums", "writeChecksums")
  <2>1. pc'["finalize"] \in {"rejected", "writeChecksums"}
    BY <1>6 DEF Create, Goto, IInv, BundleTypeOK, Actor
  <2>2. pc'["finalize"] = "writeChecksums" => inode'["checksums"] = own'
    BY <1>6 DEF Create, Goto, IInv, BundleTypeOK, Actor, Path
  <2>3. ~MadeChecksums'
    BY <2>1 DEF MadeChecksums
  <2>4. FinalizeUntouched => FinalizeUntouched'
    BY <1>1, <1>2, <1>4, <1>5, <2>1, <2>2, <2>3 DEF FinalizeUntouched
  <2> QED
    BY <1>1, <2>4, FinalizeAlone DEF IInv, UntouchedInv
<1>7. CASE Write("checksums", NewChecksums, "writeChecksums", "statChecksums")
  <2>1. pc["finalize"] = "writeChecksums" /\ pc'["finalize"] = "statChecksums"
    BY <1>7 DEF Write, Step, Goto, IInv, BundleTypeOK, Actor
  <2>2. inode["checksums"] = own => files'["checksums"] = NewChecksums
    BY <1>7 DEF Write, IInv, BundleTypeOK, Path
  <2>3. FinalizeUntouched => FinalizeUntouched'
    BY <1>1, <1>2, <1>4, <1>5, <2>1, <2>2 DEF FinalizeUntouched
  <2> QED
    BY <1>1, <2>1, <2>3, FinalizeAlone DEF IInv, UntouchedInv
<1>8. CASE StatWritten("checksums", NewChecksums, "statChecksums", "confirm", Listed)
  <2>1. pc["finalize"] = "statChecksums" /\ pc'["finalize"] \in {"rejected", "confirm"}
        /\ UNCHANGED files /\ todo'["finalize"] = Listed
    BY <1>8 DEF StatWritten, Step, Goto, Loop, IInv, BundleTypeOK, Actor
  <2>2. MadeChecksums /\ Remaining(todo'["finalize"]) = Path \ {"checksums"}
    BY <2>1, WholeLoops DEF MadeChecksums
  <2>3. FinalizeUntouched => FinalizeUntouched'
    BY <1>1, <1>2, <1>5, <2>1, <2>2 DEF FinalizeUntouched
  <2> QED
    BY <1>1, <2>3, FinalizeAlone DEF IInv, UntouchedInv
<1> QED
  BY <1>6, <1>7, <1>8 DEF WriteChecksums

LEMMA InterruptUntouched ==
    ASSUME IInv, UntouchedInv, Interrupt
    PROVE  UntouchedInv'
<1>1. /\ pc["finalize"] \notin Ended /\ pc'["verify"] = pc["verify"] /\ pc'["finalize"] = "interrupted"
      /\ UNCHANGED <<stray, disturbed, identity, files>>
  BY DEF Interrupt, rootVars, captureVars, sourceVars, jobVars, IInv, BundleTypeOK, Actor
<1>2. FinalizeUntouched => FinalizeUntouched'
  BY <1>1 DEF FinalizeUntouched, MadeManifest, MadeChecksums, Ended
<1> QED
  BY <1>1, <1>2, FinalizeAlone DEF IInv, UntouchedInv, Ended

\* A step of the verifier: what is left is what the verifier itself keeps.
LEMMA VerifierStep ==
    ASSUME BundleTypeOK, UntouchedInv, ~disturbed, ~disturbed', pc["verify"] # "waiting",
           UNCHANGED <<stray, identity, files, inode, stamp, own>>,
           pc'["finalize"] = pc["finalize"], todo'["finalize"] = todo["finalize"],
           seen'["finalize"] = seen["finalize"], data'["finalize"] = data["finalize"],
           pc["finalize"] = "finalized" => VerifyUntouched'
    PROVE  UntouchedInv'
<1>1. FinalizeUntouched' /\ pc["finalize"] = "finalized"
  BY FinalizeKept DEF UntouchedInv, VerifyUntouched
<1> QED
  BY <1>1 DEF UntouchedInv

LEMMA StartVerifyUntouched ==
    ASSUME IInv, UntouchedInv, StartVerify
    PROVE  UntouchedInv'
<1> SUFFICES ASSUME ~disturbed'  PROVE UntouchedInv'
  BY DEF UntouchedInv
<1>1. /\ ~disturbed /\ pc["finalize"] = "finalized" /\ pc'["finalize"] = pc["finalize"]
      /\ pc'["verify"] = "layout" /\ UNCHANGED <<stray, identity, files, inode, stamp, own, todo, seen, data>>
  BY DEF StartVerify, rootVars, captureVars, sourceVars, jobVars, IInv, BundleTypeOK, Actor
<1>2. FinalizeUntouched'
  BY <1>1, FinalizeKept DEF UntouchedInv
<1>3. VerifyUntouched'
  BY <1>1 DEF VerifyUntouched
<1> QED
  BY <1>1, <1>2, <1>3 DEF UntouchedInv

\* The actions by which the verifier only reads.
VerifierReads ==
    \/ Layout("verify") \/ Open("verify") \/ Read("verify") \/ Confirm("verify")
    \/ CheckIdentity \/ Compare

LEMMA VerifierFrame ==
    ASSUME IInv, VerifierReads
    PROVE  /\ pc["verify"] \in {"layout", "open", "read", "confirm", "identity", "compare"}
           /\ UNCHANGED <<stray, identity, files, inode, stamp, own, disturbed>>
           /\ pc'["finalize"] = pc["finalize"] /\ todo'["finalize"] = todo["finalize"]
           /\ seen'["finalize"] = seen["finalize"] /\ data'["finalize"] = data["finalize"]
  BY DEF VerifierReads, Layout, Open, Read, Confirm, CheckIdentity, Compare, Step, Goto, Loop,
     sourceVars, jobVars, IInv, BundleTypeOK, Actor

LEMMA VerifierUntouched ==
    ASSUME IInv, OriginInv, RequestInv, UntouchedInv, VerifierReads
    PROVE  UntouchedInv'
<1> SUFFICES ASSUME ~disturbed', pc["finalize"] = "finalized"
             PROVE  VerifyUntouched'
  BY VerifierFrame, VerifierStep DEF UntouchedInv, IInv
<1> DEFINE p == Head(todo["verify"])
<1>1. /\ ~disturbed /\ ~stray /\ FinalizeUntouched /\ VerifyUntouched /\ pc["verify"] # "waiting"
      /\ UNCHANGED <<files, stamp, identity>> /\ pc'["finalize"] = "finalized"
  BY VerifierFrame DEF UntouchedInv
<1> SUFFICES ASSUME IsAskedFor(identity, Expected)
             PROVE  VerifyUntouched'
  BY <1>1 DEF VerifyUntouched
<1>2. BundleHolds(files, Expected) /\ \A q \in Path : files[q] # None
  BY <1>1, GoodBundle
<1>3. CASE Layout("verify")
  <2>1. {q \in Path : files[q] # None} = Path
    BY <1>2
  <2>2. pc'["verify"] = "open" /\ todo'["verify"] = <<"manifest">>
    BY <1>1, <1>3, <2>1 DEF Layout, Goto, Loop, IInv, BundleTypeOK, Actor
  <2> QED
    BY <1>1, <2>2 DEF VerifyUntouched
<1>4. CASE Open("verify")
  <2>1. /\ pc["verify"] = "open" /\ todo' = todo
        /\ \/ todo["verify"] = <<"manifest">>
           \/ /\ IsLoop(todo["verify"], Path \ {"manifest"}, "checksums")
              /\ \A q \in Path : q \in Remaining(todo["verify"]) \/ stamp[q] = seen["verify"][q]
    BY <1>1, <1>4 DEF Open, Step, VerifyUntouched
  <2>2. p \in Path
    <3>1. CASE todo["verify"] = <<"manifest">>
      BY <3>1 DEF Path
    <3>2. CASE IsLoop(todo["verify"], Path \ {"manifest"}, "checksums")
      <4>1. p \in Path \ {"manifest"}
        BY <3>2, LoopStep
      <4> QED
        BY <4>1
    <3> QED
      BY <2>1, <3>1, <3>2
  <2>3. pc'["verify"] = "read"
    BY <1>2, <1>4, <2>2 DEF Open, Goto, IInv, BundleTypeOK, Actor
  <2>4. \A q \in Path : seen'["verify"][q] = IF q = p THEN stamp[q] ELSE seen["verify"][q]
    BY <1>4, <2>2 DEF Open, IInv, BundleTypeOK, Actor
  <2> HIDE DEF p
  <2>5. \A q \in Path : q \in Remaining(todo["verify"]) \/ stamp[q] = seen["verify"][q] =>
          q \in Remaining(todo["verify"]) \/ stamp[q] = seen'["verify"][q]
    BY <2>4
  <2>6. stamp[p] = seen'["verify"][p]
    BY <2>2, <2>4
  <2> QED
    BY <1>1, <2>1, <2>3, <2>5, <2>6 DEF VerifyUntouched, p
<1>5. CASE Read("verify")
  <2>1. /\ pc["verify"] = "read" /\ seen' = seen /\ stamp[p] = seen["verify"][p]
        /\ todo'["verify"] = Tail(todo["verify"]) /\ pc'["verify"] = AfterRead("verify", p)
    BY <1>1, <1>5 DEF Read, Step, Goto, Loop, VerifyUntouched, IInv, BundleTypeOK, Actor
  <2>2. CASE todo["verify"] = <<"manifest">>
    <3>1. p = "manifest"
      BY <2>2
    <3>2. pc'["verify"] = "identity"
      BY <2>1, <3>1 DEF AfterRead
    <3>3. stamp["manifest"] = seen["verify"]["manifest"]
      BY <2>1, <3>1
    <3> QED
      BY <1>1, <2>1, <3>2, <3>3 DEF VerifyUntouched
  <2>3. CASE /\ IsLoop(todo["verify"], Path \ {"manifest"}, "checksums")
             /\ \A q \in Path : q \in Remaining(todo["verify"]) \/ stamp[q] = seen["verify"][q]
    <3>1. p \in Path \ {"manifest"}
          /\ (p = "checksums" => Remaining(Tail(todo["verify"])) = {})
          /\ (p # "checksums" => IsLoop(Tail(todo["verify"]), Path \ {"manifest"}, "checksums"))
          /\ \A q \in Remaining(todo["verify"]) : q = p \/ q \in Remaining(Tail(todo["verify"]))
      BY <2>3, LoopStep
    <3> HIDE DEF p
    <3>2. \A q \in Path : q \in Remaining(Tail(todo["verify"])) \/ stamp[q] = seen["verify"][q]
      BY <2>1, <2>3, <3>1
    <3>3. CASE p = "checksums"
      <4>1. pc'["verify"] = "compare"
        BY <2>1, <3>3 DEF AfterRead
      <4> QED
        BY <1>1, <2>1, <3>1, <3>2, <3>3, <4>1 DEF VerifyUntouched
    <3>4. CASE p # "checksums"
      <4>1. pc'["verify"] = "open"
        <5>1. p # "manifest"
          BY <3>1
        <5> QED
          BY <2>1, <3>4, <5>1 DEF AfterRead
      <4> QED
        BY <1>1, <2>1, <3>1, <3>2, <3>4, <4>1 DEF VerifyUntouched
    <3> QED
      BY <3>3, <3>4
  <2> QED
    BY <1>1, <2>1, <2>2, <2>3 DEF VerifyUntouched
<1>6. CASE Confirm("verify")
  <2>1. pc["verify"] = "confirm" /\ UNCHANGED <<seen>>
        /\ \A q \in Path : stamp[q] = seen["verify"][q]
    BY <1>1, <1>6 DEF Confirm, Step, VerifyUntouched
  <2>2. p \in Path
    BY <2>1, LoopStep DEF IInv, VerifyInv
  <2>3. pc'["verify"] = AfterConfirm("verify", p)
    BY <1>6, <2>1, <2>2 DEF Confirm, Goto, IInv, BundleTypeOK, Actor
  <2>4. pc'["verify"] \in {"accepted", "confirm"}
    BY <2>3 DEF AfterConfirm
  <2> QED
    BY <1>1, <2>1, <2>4 DEF VerifyUntouched
<1>7. CASE CheckIdentity
  <2>1. /\ pc["verify"] = "identity" /\ seen' = seen
        /\ stamp["manifest"] = seen["verify"]["manifest"]
    BY <1>1, <1>7 DEF CheckIdentity, Step, VerifyUntouched
  <2>2. data["verify"]["manifest"] = files["manifest"]
    BY <2>1 DEF IInv, FreshInv, Reading, Actor, Path
  <2>3. Readable(files["manifest"]) /\ IsAskedFor(files["manifest"].id, Expected)
        /\ \A s \in Subject : files[s] # None
    BY <1>2 DEF BundleHolds, Path
  <2>4. pc'["verify"] = "open" /\ todo'["verify"] = Subjects \o <<"checksums">>
    BY <1>7, <2>2, <2>3 DEF CheckIdentity, Goto, Loop, IInv, BundleTypeOK, Actor
  <2>5. \A q \in Path : q \in Remaining(Subjects \o <<"checksums">>) \/ stamp[q] = seen["verify"][q]
    BY <2>1, BundleLoop
  <2> QED
    BY <1>1, <2>1, <2>4, <2>5, BundleLoop DEF VerifyUntouched
<1>8. CASE Compare
  <2>1. /\ pc["verify"] = "compare" /\ seen' = seen
        /\ \A q \in Path : stamp[q] = seen["verify"][q]
    BY <1>1, <1>8 DEF Compare, Step, VerifyUntouched
  <2>2. \A q \in Path : files[q] = data["verify"][q]
    BY <2>1 DEF IInv, FreshInv, Reading, Actor
  <2>3. files = data["verify"]
    BY <2>2, FreshFiles DEF IInv, Actor
  <2>4. pc'["verify"] = "confirm"
    BY <1>2, <1>8, <2>3 DEF Compare, Goto, IInv, BundleTypeOK, Actor
  <2> QED
    BY <1>1, <2>1, <2>4 DEF VerifyUntouched
<1> QED
  BY <1>3, <1>4, <1>5, <1>6, <1>7, <1>8 DEF VerifierReads

LEMMA UntouchedInit == Init => UntouchedInv
  BY DEF Init, BundleInit, UntouchedInv, FinalizeUntouched, VerifyUntouched, MadeManifest,
     MadeChecksums, Actor

LEMMA UntouchedNext == IInv /\ OriginInv /\ RequestInv /\ UntouchedInv /\ [Next]_vars => UntouchedInv'
<1> SUFFICES ASSUME IInv, OriginInv, RequestInv, UntouchedInv, [Next]_vars  PROVE UntouchedInv'
  OBVIOUS
<1>1. CASE UNCHANGED vars
  <2>1. UNCHANGED <<files, inode, stamp, own, identity, pc, todo, seen, data, stray, disturbed>>
    BY <1>1 DEF vars, bundleVars, rootVars, captureVars, sourceVars, jobVars
  <2> QED
    BY <2>1, FinalizeKept DEF UntouchedInv, VerifyUntouched
<1>2. CASE (SourceStep \/ RepositoryChanges) /\ UNCHANGED bundleVars
  <2>1. pc["finalize"] = "waiting" /\ pc["verify"] = "waiting"
    BY <1>2, SourceOnlyWaits DEF IInv, WaitingInv
  <2>2. UNCHANGED <<pc, stray, disturbed>>
    BY <1>2 DEF bundleVars, rootVars
  <2> QED
    BY <2>1, <2>2 DEF UntouchedInv, FinalizeUntouched, VerifyUntouched, MadeManifest, MadeChecksums
<1>3. CASE Stage
  BY <1>3, StageUntouched
<1>4. CASE Layout("finalize") \/ Open("finalize") \/ VerifyCandidates
  BY <1>4, FinalizeListsUntouched
<1>5. CASE Read("finalize")
  BY <1>5, FinalizeReadsUntouched
<1>6. CASE Confirm("finalize")
  BY <1>6, FinalizeConfirmsUntouched
<1>7. CASE WriteManifest
  BY <1>7, ManifestUntouched
<1>8. CASE WriteChecksums
  BY <1>8, ChecksumsUntouched
<1>9. CASE Interrupt
  BY <1>9, InterruptUntouched
<1>10. CASE StartVerify
  BY <1>10, StartVerifyUntouched
<1>11. CASE VerifierReads
  BY <1>11, VerifierUntouched
<1>12. CASE RootChanges
  <2>1. disturbed'
    BY <1>12 DEF RootChanges, Alter, RootChange
  <2> QED
    BY <2>1 DEF UntouchedInv
<1> QED
  BY <1>1, <1>2, <1>3, <1>4, <1>5, <1>6, <1>7, <1>8, <1>9, <1>10, <1>11, <1>12
     DEF Next, BundleStep, VerifierReads, Actor

\* For any set of commits, versions, requests and changes: verification never
\* rejects a finalized bundle that nobody touched, when it asks for the commit
\* and mode that the job released.
THEOREM UntouchedAccepted == Spec => []UntouchedIsAccepted
<1>1. UntouchedInv => UntouchedIsAccepted
  BY DEF UntouchedInv, VerifyUntouched, UntouchedIsAccepted
<1>2. Spec => []OriginInv
  BY OriginInit, OriginNext, PTL DEF Spec
<1>3. Spec => []RequestInv
  BY RequestInit, RequestNext, PTL DEF Spec
<1>4. Spec => []UntouchedInv
  BY <1>2, <1>3, Invariance, UntouchedInit, UntouchedNext, PTL DEF Spec
<1> QED
  BY <1>1, <1>4, PTL

=============================================================================
