---------------------------- MODULE CorpusStore ----------------------------
(***************************************************************************)
(* The symbolic corpus store of src/ste_compiler/training/corpus.py: one   *)
(* output directory shared by processes that publish corpora.              *)
(*                                                                         *)
(* Every publisher makes one call of _publish_generation; a retry is       *)
(* another publisher.  A step is one system call that another process can  *)
(* observe, or a group of calls on state no other process changes.  File   *)
(* contents are abstracted to the document they were computed from: a      *)
(* generation id is an injective digest of its two artifacts, so the id is *)
(* represented by the document, and a generation is coherent when both of  *)
(* its artifacts carry the document its name stands for.                   *)
(*                                                                         *)
(* A crash ends a process between two steps: the kernel drops its flock    *)
(* and everything it left in the directory stays.  Power loss (whether     *)
(* the fsyncs suffice) is not part of this module.                         *)
(***************************************************************************)
EXTENDS Naturals

CONSTANTS
    Publisher,  \* processes that call _publish_generation, each once
    Doc,        \* distinct corpora, hence distinct generation ids
    NoPub,      \* no process, or no inode
    NoDoc,      \* no document: a missing file, selector or link
    MaxFaults   \* bound on injected I/O errors and crashes

ASSUME CorpusAssumption ==
    /\ NoPub \notin Publisher
    /\ NoDoc \notin Doc
    /\ MaxFaults \in Nat

VARIABLES
    initNames,    \* lock initializers in the output directory, by creator
    initMarked,   \* initializer inodes whose marker is completely written
    lock,         \* the inode the lock name is linked to, NoPub if absent
    flock,        \* for each lock inode, the process that holds its flock
    generations,  \* the generations directory: absent, unmarked or owned
    dirStage,     \* staging directories for it: none, unmarked or owned
    links,        \* staged selector symlinks and their targets
    stages,       \* generation staging directories, by creator
    written,      \* the artifacts in each of them
    installed,    \* generations under their final name
    content,      \* the artifacts of an installed generation
    current,      \* the target of the current selector
    pc,           \* where each publisher is, or how its call ended
    doc,          \* what it publishes
    lockfd,       \* the inode it opened as the lock
    saw,          \* what the preflight saw, while the preflight runs
    toInspect,    \* initializers listed and not inspected yet
    toRemove,     \* initializers inspected and not unlinked yet
    previous,     \* the selector it read under the lock
    faults        \* faults injected so far

nameVars == <<initNames, initMarked, lock>>
dirVars == <<generations, dirStage, links>>
genVars == <<stages, written, installed, content, current>>
scanVars == <<toInspect, toRemove>>
callVars == <<doc, lockfd, saw, previous>>
vars == <<nameVars, flock, dirVars, genVars, pc, scanVars, callVars, faults>>

Before == {"start"}
Unlocked == {"statGenerations", "statCurrent", "preflight", "statLock", "createInit",
             "writeInit", "linkLock", "openLock", "waitLock"}
Locked == {"verifyLock", "inspectInit", "openGenerations", "makeDirStage", "markDirStage",
           "renameDirStage", "readMarker", "sweepGenerations", "readCurrent", "sweepOutput",
           "ensure", "makeStage", "writeCorpus", "writeManifest", "renameStage",
           "checkGeneration", "makeLink", "replaceCurrent", "release"}
Rejected == {"orphanSelector", "initRaced", "initInvalid", "badLock", "notOwned", "incoherent"}
Ended == Rejected \cup {"ok", "ioError", "crashed"}
Running == Unlocked \cup Locked

Artifacts == [corpus : Doc \cup {NoDoc}, manifest : Doc \cup {NoDoc}]
NoArtifacts == [corpus |-> NoDoc, manifest |-> NoDoc]

\* What _validate_generation accepts: a directory of that name with both
\* artifacts, whose digest is the name.
Coherent(d) ==
    /\ d \in installed
    /\ content[d] = [corpus |-> d, manifest |-> d]

----------------------------------------------------------------------------
At(p, label) == pc[p] = label

Advance(p, label) ==
    /\ pc' = [pc EXCEPT ![p] = label]
    /\ UNCHANGED flock

\* An exception leaves _publish_generation: its finally blocks close the
\* descriptors and drop the flock, and remove nothing from the directory.
Raise(p, reason) ==
    /\ pc' = [pc EXCEPT ![p] = reason]
    /\ flock' = [i \in Publisher |-> IF flock[i] = p THEN NoPub ELSE flock[i]]

Check(p, condition, label, reason) ==
    IF condition THEN Advance(p, label) ELSE Raise(p, reason)

Init ==
    /\ initNames = {}
    /\ initMarked = {}
    /\ lock = NoPub
    /\ flock = [i \in Publisher |-> NoPub]
    /\ generations = "absent"
    /\ dirStage = [p \in Publisher |-> "none"]
    /\ links = [p \in Publisher |-> NoDoc]
    /\ stages = {}
    /\ written = [p \in Publisher |-> NoArtifacts]
    /\ installed = {}
    /\ content = [d \in Doc |-> NoArtifacts]
    /\ current = NoDoc
    /\ pc = [p \in Publisher |-> "start"]
    /\ doc = [p \in Publisher |-> NoDoc]
    /\ lockfd = [p \in Publisher |-> NoPub]
    /\ saw = [p \in Publisher |-> {}]
    /\ toInspect = [p \in Publisher |-> {}]
    /\ toRemove = [p \in Publisher |-> {}]
    /\ previous = [p \in Publisher |-> NoDoc]
    /\ faults = 0

----------------------------------------------------------------------------
(* The call begins, and its preflight, which runs before the lock is held. *)

Start(p, d) ==
    /\ At(p, "start")
    /\ Advance(p, "statGenerations")
    /\ doc' = [doc EXCEPT ![p] = d]
    /\ UNCHANGED <<nameVars, dirVars, genVars, scanVars, lockfd, saw, previous, faults>>

StatGenerations(p) ==
    /\ At(p, "statGenerations")
    /\ Advance(p, "statCurrent")
    /\ saw' = [saw EXCEPT ![p] = IF generations = "absent" THEN {} ELSE {"generations"}]
    /\ UNCHANGED <<nameVars, dirVars, genVars, scanVars, doc, lockfd, previous>>

StatCurrent(p) ==
    /\ At(p, "statCurrent")
    /\ IF "generations" \in saw[p]
       THEN /\ Advance(p, "preflight")
            /\ saw' = [saw EXCEPT ![p] = @ \cup (IF current = NoDoc THEN {} ELSE {"current"})]
       ELSE /\ Check(p, current = NoDoc, "statLock", "orphanSelector")
            /\ UNCHANGED saw
    /\ UNCHANGED <<nameVars, dirVars, genVars, scanVars, doc, lockfd, previous>>

\* Reads the marker, every installed generation (staging names are skipped)
\* and, if it was there a moment ago, the selector with its generation.
Preflight(p) ==
    /\ At(p, "preflight")
    /\ IF generations # "owned" THEN Raise(p, "notOwned")
       ELSE Check(p,
                  /\ \A d \in installed : Coherent(d)
                  /\ "current" \in saw[p] => Coherent(current),
                  "statLock", "incoherent")
    /\ saw' = [saw EXCEPT ![p] = {}]
    /\ UNCHANGED <<nameVars, dirVars, genVars, scanVars, doc, lockfd, previous>>

----------------------------------------------------------------------------
(* _acquire_output_lock: a complete marker is written to a private name    *)
(* and hard-linked to the lock name, which only the first link can take.   *)

StatLock(p) ==
    /\ At(p, "statLock")
    /\ Advance(p, IF lock = NoPub THEN "createInit" ELSE "openLock")
    /\ UNCHANGED <<nameVars, dirVars, genVars, scanVars, callVars>>

CreateInit(p) ==
    /\ At(p, "createInit")
    /\ Advance(p, "writeInit")
    /\ initNames' = initNames \cup {p}
    /\ UNCHANGED <<initMarked, lock, dirVars, genVars, scanVars, callVars>>

\* The marker is written through the descriptor, so the write succeeds even
\* when another process has unlinked the name meanwhile.
WriteInit(p) ==
    /\ At(p, "writeInit")
    /\ Advance(p, "linkLock")
    /\ initMarked' = initMarked \cup {p}
    /\ UNCHANGED <<initNames, lock, dirVars, genVars, scanVars, callVars>>

\* Fault: the initializer is renamed over the lock name instead of linked.
LinkLockReplaces(p) ==
    /\ At(p, "linkLock")
    /\ Check(p, p \in initNames, "openLock", "initRaced")
    /\ lock' = IF p \in initNames THEN p ELSE lock
    /\ UNCHANGED <<initNames, initMarked, dirVars, genVars, scanVars, callVars>>

\* ENOENT when the initializer is gone; EEXIST when the lock exists, which
\* the caller ignores.
LinkLock(p) ==
    /\ At(p, "linkLock")
    /\ Check(p, p \in initNames, "openLock", "initRaced")
    /\ lock' = IF p \in initNames /\ lock = NoPub THEN p ELSE lock
    /\ UNCHANGED <<initNames, initMarked, dirVars, genVars, scanVars, callVars>>

OpenLock(p) ==
    /\ At(p, "openLock")
    /\ Check(p, lock # NoPub, "waitLock", "badLock")
    /\ lockfd' = [lockfd EXCEPT ![p] = lock]
    /\ UNCHANGED <<nameVars, dirVars, genVars, scanVars, doc, saw, previous>>

Flock(p) ==
    /\ At(p, "waitLock")
    /\ flock[lockfd[p]] = NoPub
    /\ pc' = [pc EXCEPT ![p] = "verifyLock"]
    /\ flock' = [flock EXCEPT ![lockfd[p]] = p]
    /\ UNCHANGED <<nameVars, dirVars, genVars, scanVars, callVars>>

\* The descriptor must still be the lock and hold the marker; then the
\* initializers are listed.
VerifyLock(p) ==
    /\ At(p, "verifyLock")
    /\ Check(p, lock = lockfd[p] /\ lockfd[p] \in initMarked, "inspectInit", "badLock")
    /\ toInspect' = [toInspect EXCEPT ![p] = initNames]
    /\ UNCHANGED <<nameVars, dirVars, genVars, toRemove, callVars>>

InspectInit(p, t) ==
    /\ At(p, "inspectInit")
    /\ t \in toInspect[p]
    /\ Check(p, t \in initNames /\ t \in initMarked, "inspectInit", "initInvalid")
    /\ toInspect' = [toInspect EXCEPT ![p] = @ \ {t}]
    /\ toRemove' = [toRemove EXCEPT ![p] = @ \cup {t}]
    /\ UNCHANGED <<nameVars, dirVars, genVars, callVars>>

UnlinkInit(p, t) ==
    /\ At(p, "inspectInit")
    /\ toInspect[p] = {}
    /\ t \in toRemove[p]
    /\ Advance(p, "inspectInit")
    /\ initNames' = initNames \ {t}
    /\ toRemove' = [toRemove EXCEPT ![p] = @ \ {t}]
    /\ UNCHANGED <<initMarked, lock, dirVars, genVars, toInspect, callVars>>

\* The lock must have lost its other name.
LockReady(p) ==
    /\ At(p, "inspectInit")
    /\ toInspect[p] = {}
    /\ toRemove[p] = {}
    /\ Check(p, lockfd[p] \notin initNames, "openGenerations", "badLock")
    /\ UNCHANGED <<nameVars, dirVars, genVars, scanVars, callVars>>

----------------------------------------------------------------------------
(* _open_generations_directory, under the lock.                            *)

OpenGenerations(p) ==
    /\ At(p, "openGenerations")
    /\ Advance(p, IF generations = "absent" THEN "makeDirStage" ELSE "readMarker")
    /\ UNCHANGED <<nameVars, dirVars, genVars, scanVars, callVars>>

\* Fault: the directory is installed first and marked in place.
MakeDirStageUnmarked(p) ==
    /\ At(p, "makeDirStage")
    /\ Advance(p, "renameDirStage")
    /\ dirStage' = [dirStage EXCEPT ![p] = "unmarked"]
    /\ UNCHANGED <<nameVars, generations, links, genVars, scanVars, callVars>>

MakeDirStage(p) ==
    /\ At(p, "makeDirStage")
    /\ Advance(p, "markDirStage")
    /\ dirStage' = [dirStage EXCEPT ![p] = "unmarked"]
    /\ UNCHANGED <<nameVars, generations, links, genVars, scanVars, callVars>>

MarkDirStage(p) ==
    /\ At(p, "markDirStage")
    /\ Advance(p, "renameDirStage")
    /\ dirStage' = [dirStage EXCEPT ![p] = "owned"]
    /\ UNCHANGED <<nameVars, generations, links, genVars, scanVars, callVars>>

\* The rename fails on an existing directory, which is never empty.
RenameDirStage(p) ==
    /\ At(p, "renameDirStage")
    /\ Check(p, generations = "absent", "readMarker", "ioError")
    /\ IF generations = "absent"
       THEN /\ generations' = dirStage[p]
            /\ dirStage' = [dirStage EXCEPT ![p] = "none"]
       ELSE UNCHANGED <<generations, dirStage>>
    /\ UNCHANGED <<nameVars, links, genVars, scanVars, callVars>>

ReadMarker(p) ==
    /\ At(p, "readMarker")
    /\ Check(p, generations = "owned", "sweepGenerations", "notOwned")
    /\ UNCHANGED <<nameVars, dirVars, genVars, scanVars, callVars>>

\* _remove_owned_stage unlinks the artifacts, then the directory.
EmptyStage(p, s) ==
    /\ At(p, "sweepGenerations")
    /\ s \in stages
    /\ written[s] # NoArtifacts
    /\ Advance(p, "sweepGenerations")
    /\ written' = [written EXCEPT ![s] = NoArtifacts]
    /\ UNCHANGED <<nameVars, dirVars, stages, installed, content, current, scanVars, callVars>>

RemoveStage(p, s) ==
    /\ At(p, "sweepGenerations")
    /\ s \in stages
    /\ written[s] = NoArtifacts
    /\ Advance(p, "sweepGenerations")
    /\ stages' = stages \ {s}
    /\ UNCHANGED <<nameVars, dirVars, written, installed, content, current, scanVars, callVars>>

ValidateAll(p) ==
    /\ At(p, "sweepGenerations")
    /\ stages = {}
    /\ Check(p, \A d \in installed : Coherent(d), "readCurrent", "incoherent")
    /\ UNCHANGED <<nameVars, dirVars, genVars, scanVars, callVars>>

----------------------------------------------------------------------------
(* The selector, and what interrupted publishers left beside it.           *)

ReadCurrent(p) ==
    /\ At(p, "readCurrent")
    /\ Check(p, current # NoDoc => Coherent(current), "sweepOutput", "incoherent")
    /\ previous' = [previous EXCEPT ![p] = current]
    /\ UNCHANGED <<nameVars, dirVars, genVars, scanVars, doc, lockfd, saw>>

SweepDirStage(p, s) ==
    /\ At(p, "sweepOutput")
    /\ dirStage[s] # "none"
    /\ Advance(p, "sweepOutput")
    /\ dirStage' = [dirStage EXCEPT ![s] = "none"]
    /\ UNCHANGED <<nameVars, generations, links, genVars, scanVars, callVars>>

\* A staged selector is removed only if its target is a valid generation.
SweepLink(p, s) ==
    /\ At(p, "sweepOutput")
    /\ links[s] # NoDoc
    /\ Check(p, Coherent(links[s]), "sweepOutput", "incoherent")
    /\ links' = [links EXCEPT ![s] = IF Coherent(links[s]) THEN NoDoc ELSE @]
    /\ UNCHANGED <<nameVars, generations, dirStage, genVars, scanVars, callVars>>

\* Fault: staged selectors are left where they are.
OutputSweptKeepsLinks(p) ==
    /\ At(p, "sweepOutput")
    /\ \A s \in Publisher : dirStage[s] = "none"
    /\ Advance(p, "ensure")
    /\ UNCHANGED <<nameVars, dirVars, genVars, scanVars, callVars>>

OutputSwept(p) ==
    /\ At(p, "sweepOutput")
    /\ \A s \in Publisher : dirStage[s] = "none" /\ links[s] = NoDoc
    /\ Advance(p, "ensure")
    /\ UNCHANGED <<nameVars, dirVars, genVars, scanVars, callVars>>

----------------------------------------------------------------------------
(* _ensure_generation and _switch_current_generation.                      *)

\* After the generation is known to be valid: switch unless it is selected.
AfterEnsure(p) == IF previous[p] = doc[p] THEN "release" ELSE "makeLink"

\* Fault: a generation that already exists counts as published.
EnsureGenerationSkipsSwitch(p) ==
    /\ At(p, "ensure")
    /\ IF doc[p] \in installed
       THEN Check(p, Coherent(doc[p]), "release", "incoherent")
       ELSE Advance(p, "makeStage")
    /\ UNCHANGED <<nameVars, dirVars, genVars, scanVars, callVars>>

EnsureGeneration(p) ==
    /\ At(p, "ensure")
    /\ IF doc[p] \in installed
       THEN Check(p, Coherent(doc[p]), AfterEnsure(p), "incoherent")
       ELSE Advance(p, "makeStage")
    /\ UNCHANGED <<nameVars, dirVars, genVars, scanVars, callVars>>

\* Fault: the selector is switched before the generation is installed.
MakeStageAfterSwitch(p) ==
    /\ At(p, "makeStage")
    /\ Advance(p, "makeLink")
    /\ stages' = stages \cup {p}
    /\ UNCHANGED <<nameVars, dirVars, written, installed, content, current, scanVars, callVars>>

MakeStage(p) ==
    /\ At(p, "makeStage")
    /\ Advance(p, "writeCorpus")
    /\ stages' = stages \cup {p}
    /\ UNCHANGED <<nameVars, dirVars, written, installed, content, current, scanVars, callVars>>

\* Fault: the directory is renamed before the manifest is written.
WriteCorpusOnly(p) ==
    /\ At(p, "writeCorpus")
    /\ Advance(p, "renameStage")
    /\ written' = [written EXCEPT ![p].corpus = doc[p]]
    /\ UNCHANGED <<nameVars, dirVars, stages, installed, content, current, scanVars, callVars>>

WriteCorpus(p) ==
    /\ At(p, "writeCorpus")
    /\ Advance(p, "writeManifest")
    /\ written' = [written EXCEPT ![p].corpus = doc[p]]
    /\ UNCHANGED <<nameVars, dirVars, stages, installed, content, current, scanVars, callVars>>

WriteManifest(p) ==
    /\ At(p, "writeManifest")
    /\ Advance(p, "renameStage")
    /\ written' = [written EXCEPT ![p].manifest = doc[p]]
    /\ UNCHANGED <<nameVars, dirVars, stages, installed, content, current, scanVars, callVars>>

\* The rename fails on an existing generation, which is never empty.
RenameStage(p) ==
    /\ At(p, "renameStage")
    /\ Check(p, doc[p] \notin installed, "checkGeneration", "ioError")
    /\ IF doc[p] \notin installed
       THEN /\ stages' = stages \ {p}
            /\ written' = [written EXCEPT ![p] = NoArtifacts]
            /\ installed' = installed \cup {doc[p]}
            /\ content' = [content EXCEPT ![doc[p]] = written[p]]
       ELSE UNCHANGED <<stages, written, installed, content>>
    /\ UNCHANGED <<nameVars, dirVars, current, scanVars, callVars>>

CheckGeneration(p) ==
    /\ At(p, "checkGeneration")
    /\ Check(p, Coherent(doc[p]), AfterEnsure(p), "incoherent")
    /\ UNCHANGED <<nameVars, dirVars, genVars, scanVars, callVars>>

MakeLink(p) ==
    /\ At(p, "makeLink")
    /\ Advance(p, "replaceCurrent")
    /\ links' = [links EXCEPT ![p] = doc[p]]
    /\ UNCHANGED <<nameVars, generations, dirStage, genVars, scanVars, callVars>>

\* Fault: the superseded generation is pruned at the switch.
ReplaceCurrentPrunes(p) ==
    /\ At(p, "replaceCurrent")
    /\ Advance(p, "release")
    /\ current' = links[p]
    /\ links' = [links EXCEPT ![p] = NoDoc]
    /\ installed' = installed \ {current}
    /\ UNCHANGED <<nameVars, generations, dirStage, stages, written, content, scanVars, callVars>>

\* Fault: the old selector is unlinked before the new one is renamed.
ReplaceCurrentUnlinksFirst(p) ==
    /\ At(p, "replaceCurrent")
    /\ Advance(p, IF current = NoDoc THEN "release" ELSE "replaceCurrent")
    /\ current' = IF current = NoDoc THEN links[p] ELSE NoDoc
    /\ links' = [links EXCEPT ![p] = IF current = NoDoc THEN NoDoc ELSE @]
    /\ UNCHANGED <<nameVars, generations, dirStage, stages, written, installed, content,
                   scanVars, callVars>>

ReplaceCurrent(p) ==
    /\ At(p, "replaceCurrent")
    /\ Advance(p, "release")
    /\ current' = links[p]
    /\ links' = [links EXCEPT ![p] = NoDoc]
    /\ UNCHANGED <<nameVars, generations, dirStage, stages, written, installed, content,
                   scanVars, callVars>>

\* Fault: the lock is kept when the call returns.
ReleaseKeepsLock(p) ==
    /\ At(p, "release")
    /\ Advance(p, "ok")
    /\ UNCHANGED <<nameVars, dirVars, genVars, scanVars, callVars>>

Release(p) ==
    /\ At(p, "release")
    /\ Raise(p, "ok")
    /\ UNCHANGED <<nameVars, dirVars, genVars, scanVars, callVars>>

----------------------------------------------------------------------------
(* Faults of the environment.                                              *)

\* A system call fails.  Only the selector switch cleans up on the way out.
IOError(p) ==
    /\ pc[p] \in Running
    /\ faults < MaxFaults
    /\ Raise(p, "ioError")
    /\ links' = [links EXCEPT ![p] = NoDoc]
    /\ faults' = faults + 1
    /\ UNCHANGED <<nameVars, generations, dirStage, genVars, scanVars, callVars>>

Crash(p) ==
    /\ pc[p] \in Running
    /\ faults < MaxFaults
    /\ Raise(p, "crashed")
    /\ faults' = faults + 1
    /\ UNCHANGED <<nameVars, dirVars, genVars, scanVars, callVars>>

Acquire(p) ==
    \/ StatLock(p) \/ CreateInit(p) \/ WriteInit(p) \/ LinkLock(p)
    \/ OpenLock(p) \/ Flock(p) \/ VerifyLock(p)
    \/ \E t \in Publisher : InspectInit(p, t) \/ UnlinkInit(p, t)
    \/ LockReady(p)

Open(p) ==
    \/ OpenGenerations(p) \/ MakeDirStage(p) \/ MarkDirStage(p) \/ RenameDirStage(p)
    \/ ReadMarker(p)
    \/ \E s \in Publisher : EmptyStage(p, s) \/ RemoveStage(p, s)
    \/ ValidateAll(p)

Publish(p) ==
    \/ ReadCurrent(p)
    \/ \E s \in Publisher : SweepDirStage(p, s) \/ SweepLink(p, s)
    \/ OutputSwept(p)
    \/ EnsureGeneration(p) \/ MakeStage(p) \/ WriteCorpus(p) \/ WriteManifest(p)
    \/ RenameStage(p) \/ CheckGeneration(p) \/ MakeLink(p) \/ ReplaceCurrent(p)
    \/ Release(p)

Step(p) ==
    /\ \/ StatGenerations(p) \/ StatCurrent(p) \/ Preflight(p)
       \/ Acquire(p) \/ Open(p) \/ Publish(p)
    /\ UNCHANGED faults

\* Every call has returned and nobody starts another.
Finished ==
    /\ \A p \in Publisher : pc[p] \in Ended
    /\ UNCHANGED vars

Next ==
    \/ \E p \in Publisher :
         \/ \E d \in Doc : Start(p, d)
         \/ Step(p)
         \/ IOError(p)
         \/ Crash(p)
    \/ Finished

Spec == Init /\ [][Next]_vars

\* A process that runs is scheduled again; none is obliged to start.
Fairness == \A p \in Publisher : WF_vars(Step(p))

----------------------------------------------------------------------------
(* Properties.                                                             *)

\* The type of every variable.
TypeOK ==
    /\ initNames \subseteq Publisher
    /\ initMarked \subseteq Publisher
    /\ lock \in Publisher \cup {NoPub}
    /\ flock \in [Publisher -> Publisher \cup {NoPub}]
    /\ generations \in {"absent", "unmarked", "owned"}
    /\ dirStage \in [Publisher -> {"none", "unmarked", "owned"}]
    /\ links \in [Publisher -> Doc \cup {NoDoc}]
    /\ stages \subseteq Publisher
    /\ written \in [Publisher -> Artifacts]
    /\ installed \subseteq Doc
    /\ content \in [Doc -> Artifacts]
    /\ current \in Doc \cup {NoDoc}
    /\ pc \in [Publisher -> Before \cup Running \cup Ended]
    /\ doc \in [Publisher -> Doc \cup {NoDoc}]
    /\ lockfd \in [Publisher -> Publisher \cup {NoPub}]
    /\ saw \in [Publisher -> SUBSET {"generations", "current"}]
    /\ toInspect \in [Publisher -> SUBSET Publisher]
    /\ toRemove \in [Publisher -> SUBSET Publisher]
    /\ previous \in [Publisher -> Doc \cup {NoDoc}]
    /\ faults \in 0 .. MaxFaults

\* Two calls are never both between taking and releasing the output lock,
\* although each may have created its own lock inode.
MutualExclusion ==
    \A p, q \in Publisher : pc[p] \in Locked /\ pc[q] \in Locked => p = q

\* The selector never names a missing, partial or foreign generation, and
\* the directory it points into is one the tool marked as its own: this is
\* what lets a reader follow it without the lock.
CurrentIsCoherent ==
    current # NoDoc => generations = "owned" /\ Coherent(current)

\* What other calls do or leave behind makes the code refuse a call in three
\* cases and no other, none of which is damage to the store:
\*   - the holder of the lock meets an initializer that was created and not
\*     written, by a call about to write it or by one that failed or died there,
\*     in which case it and every later call is refused;
\*   - the initializer of a call is cleaned up before it is linked, by the
\*     holder of a lock that another call has linked;
\*   - the preflight finds a selector and no generations, because it looked for
\*     these before the first publication and for that after it.
LeftoversAccepted ==
    [][\A p \in Publisher :
         pc[p] \notin Rejected /\ pc'[p] \in Rejected =>
           \/ /\ pc'[p] = "initInvalid"
              /\ \E t \in initNames \ initMarked :
                    t # p /\ pc[t] \in {"writeInit", "ioError", "crashed"}
           \/ pc'[p] = "initRaced" /\ lock \notin {NoPub, p}
           \/ pc'[p] = "orphanSelector" /\ generations = "owned" /\ Coherent(current)]_vars

\* An installed generation is never changed or removed, so a reader that
\* has opened it can finish whatever is published meanwhile.
GenerationsImmutable ==
    [][\A d \in installed : d \in installed' /\ content'[d] = content[d]]_vars

\* When a call reports success, the generation it was given is the one
\* selected at that moment, also when somebody else had installed it.
SuccessSelects ==
    [][\A p \in Publisher :
         pc[p] # "ok" /\ pc'[p] = "ok" => current' = doc[p] /\ Coherent(doc[p])]_vars

\* A successful call leaves no staging entry of any earlier call, crashed
\* or failed, in either directory.
SuccessLeavesNoStaging ==
    [][\A p \in Publisher :
         pc[p] # "ok" /\ pc'[p] = "ok" =>
           /\ stages' = {}
           /\ \A s \in Publisher : links'[s] = NoDoc /\ dirStage'[s] = "none"]_vars

\* Every call that begins returns, however many others compete for the
\* lock and wherever they crash.
EveryCallReturns ==
    \A p \in Publisher : pc[p] # "start" ~> pc[p] \in Ended

----------------------------------------------------------------------------
(* The inductive invariant: what makes the safety properties hold.         *)

\* Where a publisher is before it may own a lock inode.
Acquiring == Before \cup {"statGenerations", "statCurrent", "preflight", "statLock",
                          "createInit", "writeInit", "linkLock"}

\* One inode is ever the lock: it was complete when it was linked, everybody
\* who opened the lock opened that inode, and its flock is what a publisher
\* in the critical section holds.
LockInv ==
    /\ lock # NoPub => lock \in initMarked
    /\ \A p \in Publisher :
         /\ pc[p] = "linkLock" => p \in initMarked
         /\ pc[p] \in Acquiring => lock # p
         /\ pc[p] \in Locked \cup {"waitLock"} => lock # NoPub /\ lockfd[p] = lock
         /\ pc[p] = "openLock" => lock # NoPub
         /\ pc[p] \in Locked => flock[lock] = p

\* An initializer without the marker was not written yet or never will be; one
\* that is gone was removed by the holder of a lock; the holder alone removes any.
InitInv ==
    /\ \A t \in initNames \ initMarked : pc[t] \in {"writeInit", "ioError", "crashed"}
    /\ \A p \in Publisher :
         /\ pc[p] \in {"writeInit", "linkLock"} /\ p \notin initNames => lock # NoPub
         /\ pc[p] = "inspectInit" => toInspect[p] \subseteq initNames

\* Everything under a final name is complete, and so is what points at it.
StoreInv ==
    /\ generations # "unmarked"
    /\ \A d \in installed : content[d] = [corpus |-> d, manifest |-> d]
    /\ current # NoDoc => current \in installed
    /\ \A s \in Publisher : links[s] # NoDoc => links[s] \in installed
    /\ installed # {} => generations = "owned"

Opening == {"makeDirStage", "markDirStage", "renameDirStage"}
Staging == {"writeCorpus", "writeManifest", "renameStage"}
Selecting == {"makeLink", "replaceCurrent"}
Opened == {"readMarker", "sweepGenerations", "readCurrent", "sweepOutput", "ensure", "makeStage",
           "checkGeneration", "release"} \cup Staging \cup Selecting
Swept == {"readCurrent", "sweepOutput", "ensure", "makeStage", "checkGeneration", "release"}
             \cup Selecting
Tidy == {"ensure", "makeStage", "checkGeneration", "makeLink", "release"} \cup Staging
Unstaged == Acquiring \cup Opening \cup
            {"openLock", "waitLock", "verifyLock", "inspectInit", "openGenerations", "readMarker",
             "sweepGenerations", "readCurrent", "sweepOutput", "ensure", "makeStage"}

\* What a publisher knows of the store at each point of its call.
KnowsDirectory(p) ==
    /\ pc[p] \in Opened => generations = "owned"
    /\ pc[p] = "renameDirStage" => dirStage[p] = "owned"
    /\ pc[p] = "markDirStage" => dirStage[p] = "unmarked"
    /\ pc[p] \in {"statCurrent", "preflight"} /\ "generations" \in saw[p] => generations = "owned"
    /\ pc[p] = "preflight" => "generations" \in saw[p]
    /\ pc[p] \in {"statCurrent", "preflight"} /\ "current" \in saw[p] => current # NoDoc
    /\ pc[p] = "inspectInit" /\ lock \in initNames => lock \in toInspect[p] \cup toRemove[p]

KnowsGeneration(p) ==
    /\ IF pc[p] \in Before THEN doc[p] = NoDoc ELSE doc[p] \in Doc
    /\ pc[p] = "ok" => current # NoDoc
    /\ pc[p] \in Unstaged => written[p] = NoArtifacts
    /\ pc[p] = "writeCorpus" => written[p] = NoArtifacts
    /\ pc[p] = "writeManifest" => written[p] = [corpus |-> doc[p], manifest |-> NoDoc]
    /\ pc[p] = "renameStage" => written[p] = [corpus |-> doc[p], manifest |-> doc[p]]
    /\ pc[p] \in {"checkGeneration", "release"} \cup Selecting => doc[p] \in installed
    /\ pc[p] = "replaceCurrent" => links[p] = doc[p]
    /\ pc[p] = "release" => current = doc[p]
    /\ pc[p] \in {"sweepOutput", "ensure", "makeStage", "checkGeneration"} \cup Staging =>
         previous[p] = current

KnowsStaging(p) ==
    /\ pc[p] \in Swept => stages = {}
    /\ pc[p] \in Staging => stages = {p}
    /\ pc[p] \in Tidy \cup {"replaceCurrent"} => \A s \in Publisher : dirStage[s] = "none"
    /\ pc[p] \in Tidy => \A s \in Publisher : links[s] = NoDoc
    /\ pc[p] = "replaceCurrent" => \A s \in Publisher \ {p} : links[s] = NoDoc

ProcInv == \A p \in Publisher : KnowsDirectory(p) /\ KnowsGeneration(p) /\ KnowsStaging(p)

\* No call finds the lock, the directory or a generation foreign or damaged.
NothingDamaged ==
    \A p \in Publisher : pc[p] \notin {"badLock", "notOwned", "incoherent"}

\* The conjunction is inductive: the lock gives its holder the store to
\* itself, and what the holder knows of the store makes its writes safe.
IInv == TypeOK /\ LockInv /\ InitInv /\ StoreInv /\ ProcInv /\ NothingDamaged

=============================================================================
