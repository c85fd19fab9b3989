-------------------------- MODULE CorpusDurability --------------------------
(***************************************************************************)
(* What survives a power loss in the symbolic corpus store                 *)
(* (src/ste_compiler/training/corpus.py).                                  *)
(*                                                                         *)
(* Calls make the output, the lock and its initializers side by side; the  *)
(* output lock then admits one of them at a time (CorpusStore proves it).  *)
(* The disk follows POSIX: a directory entry is durable once its directory *)
(* has been synced, file data once the file has been synced, and until     *)
(* then a power loss keeps or drops each of them independently.            *)
(***************************************************************************)
EXTENDS Naturals

CONSTANTS
    Caller,         \* calls of _publish_generation
    Doc,            \* distinct corpora, hence distinct generation ids
    NoDoc,          \* no document
    MaxInterrupts,  \* bound on calls that crash or fail with an I/O error
    MaxLosses       \* bound on power losses

ASSUME DurabilityAssumption ==
    /\ NoDoc \notin Doc
    /\ MaxInterrupts \in Nat /\ MaxLosses \in Nat

VARIABLES
    output, outputSafe,        \* the output's entry in its parent: visible, durable
    dropped,                   \* a power loss took the output since the last success
    directory, directorySafe,  \* the generations entry: visible, durable
    entries, entriesSafe,      \* generation entries: visible, durable
    synced,                    \* documents whose artifacts have been synced
    torn,                      \* entries whose data a power loss destroyed
    current, currentSafe,      \* the selector: visible, durable
    lock, lockSafe,            \* the lock's entry: visible, durable
    init,                      \* each call's lock initializer
    stages,                    \* kinds of staging directory left behind
    links,                     \* targets of selector temporaries left behind
    stage,                     \* how far each call is on its way to the lock
    phase, doc, previous,      \* the call that holds the lock
    acked,                     \* the last call that reported success
    since,                     \* documents of calls that got the lock after it
    interrupts, losses

outputVars == <<output, outputSafe, dropped>>
directoryVars == <<directory, directorySafe>>
generationVars == <<entries, entriesSafe, synced, torn>>
selectorVars == <<current, currentSafe>>
lockVars == <<lock, lockSafe, init>>
diskVars == <<outputVars, directoryVars, generationVars, selectorVars, lockVars>>
leftVars == <<stages, links>>
callVars == <<doc, previous, acked, since>>
boundVars == <<interrupts, losses>>
vars == <<diskVars, leftVars, stage, phase, callVars, boundVars>>

\* The output may be there, empty, before the first call makes it.
Init ==
    /\ output \in BOOLEAN /\ outputSafe = output /\ dropped = FALSE
    /\ directory = FALSE /\ directorySafe = FALSE
    /\ entries = {} /\ entriesSafe = {}
    /\ synced = {} /\ torn = {}
    /\ current = NoDoc /\ currentSafe = NoDoc
    /\ lock = FALSE /\ lockSafe = FALSE
    /\ init = [c \in Caller |-> "none"]
    /\ stages = {} /\ links = {}
    /\ stage = [c \in Caller |-> "new"]
    /\ phase = "free" /\ doc = NoDoc /\ previous = NoDoc
    /\ acked = NoDoc /\ since = {}
    /\ interrupts = 0 /\ losses = 0

\* What the preflight and _open_generations_directory insist on.
Valid ==
    /\ current # NoDoc => directory /\ current \in entries
    /\ torn \cap entries = {}

\* _fsync_directory(output_fd) makes every entry of the output durable.
SyncedOutput ==
    /\ directorySafe' = directory /\ currentSafe' = current /\ lockSafe' = lock
    /\ init' = [c \in Caller |-> IF init[c] = "removed" THEN "none" ELSE init[c]]

----------------------------------------------------------------------------
(* The way to the lock, which calls take side by side.                     *)

Advance(c, from, to) == stage[c] = from /\ stage' = [stage EXCEPT ![c] = to]

\* The call makes its output, whose parent nobody syncs, and looks for the
\* lock.  One that finds the store invalid raises before it changes anything.
Begin(c) ==
    /\ Valid
    /\ Advance(c, "new", IF lock THEN "waiting" ELSE "creating")
    /\ output' = TRUE
    /\ UNCHANGED <<outputSafe, dropped, directoryVars, generationVars, selectorVars, lockVars,
                   leftVars, phase, callVars, boundVars>>

CreateInit(c) ==
    /\ Advance(c, "creating", "writing")
    /\ init' = [init EXCEPT ![c] = "empty"]
    /\ UNCHANGED <<outputVars, directoryVars, generationVars, selectorVars, lock, lockSafe,
                   leftVars, phase, callVars, boundVars>>

\* The initializer's bytes are written and synced; its entry is not.
WriteInit(c) ==
    /\ Advance(c, "writing", "linking")
    /\ init' = [init EXCEPT ![c] = "marked"]
    /\ UNCHANGED <<outputVars, directoryVars, generationVars, selectorVars, lock, lockSafe,
                   leftVars, phase, callVars, boundVars>>

\* The link fails the call if a holder of the lock removed the initializer,
\* and leaves a lock that is there alone.
LinkLock(c) ==
    /\ Advance(c, "linking", IF init[c] # "marked" THEN "done"
                             ELSE IF lock THEN "waiting" ELSE "syncing")
    /\ lock' = (lock \/ init[c] = "marked")
    /\ UNCHANGED <<outputVars, directoryVars, generationVars, selectorVars, lockSafe, init,
                   leftVars, phase, callVars, boundVars>>

SyncLock(c) ==
    /\ Advance(c, "syncing", "waiting")
    /\ SyncedOutput
    /\ UNCHANGED <<outputVars, directory, generationVars, current, lock,
                   leftVars, phase, callVars, boundVars>>

AfterInits == IF directory THEN "cleanGenerations" ELSE "stageDirectory"

\* The new holder refuses an incomplete initializer, be it of a dead call or
\* of one that is still writing it, and removes the complete ones.
Enter(c, d) ==
    /\ phase = "free"
    /\ IF \E other \in Caller : init[other] = "empty"
       THEN /\ Advance(c, "waiting", "done")
            /\ UNCHANGED <<phase, init, doc, previous, since>>
       ELSE /\ Advance(c, "waiting", "in")
            /\ phase' = IF \E other \in Caller : init[other] = "marked"
                        THEN "syncInits" ELSE AfterInits
            /\ init' = [other \in Caller |->
                          IF init[other] = "marked" THEN "removed" ELSE init[other]]
            /\ doc' = d
            /\ previous' = current
            /\ since' = since \cup {d}
    /\ UNCHANGED <<outputVars, directoryVars, generationVars, selectorVars, lock, lockSafe,
                   leftVars, acked, boundVars>>

----------------------------------------------------------------------------
(* The call that holds the lock.                                           *)

Goto(from, to) == phase = from /\ phase' = to
Left == [c \in Caller |-> IF stage[c] = "in" THEN "done" ELSE stage[c]]

SyncInits ==
    /\ Goto("syncInits", AfterInits)
    /\ SyncedOutput
    /\ UNCHANGED <<outputVars, directory, generationVars, current, lock,
                   leftVars, stage, callVars, boundVars>>

\* The staging directory and its marker are written and synced.
StageDirectory ==
    /\ Goto("stageDirectory", "renameDirectory")
    /\ UNCHANGED <<diskVars, leftVars, stage, callVars, boundVars>>

RenameDirectory ==
    /\ Goto("renameDirectory", "syncDirectory")
    /\ directory' = TRUE
    /\ UNCHANGED <<outputVars, directorySafe, generationVars, selectorVars, lockVars,
                   leftVars, stage, callVars, boundVars>>

SyncDirectory ==
    /\ Goto("syncDirectory", "cleanGenerations")
    /\ SyncedOutput
    /\ UNCHANGED <<outputVars, directory, generationVars, current, lock,
                   leftVars, stage, callVars, boundVars>>

\* _cleanup_generation_staging syncs the directory it removed something from.
CleanGenerations ==
    /\ Goto("cleanGenerations", "cleanOutput")
    /\ stages' = stages \ {"generation"}
    /\ entriesSafe' = IF "generation" \in stages THEN entries ELSE entriesSafe
    /\ UNCHANGED <<outputVars, directoryVars, entries, synced, torn, selectorVars, lockVars,
                   links, stage, callVars, boundVars>>

\* _cleanup_output_staging syncs the output if it removed something, and
\* raises for a selector temporary whose generation is not there.
CleanOutput ==
    /\ phase = "cleanOutput"
    /\ IF links \subseteq entries
       THEN phase' = "ensure" /\ stage' = stage /\ stages' = stages \ {"directory"} /\ links' = {}
       ELSE phase' = "free" /\ stage' = Left /\ UNCHANGED leftVars
    /\ IF links \subseteq entries /\ (links # {} \/ "directory" \in stages)
       THEN SyncedOutput
       ELSE UNCHANGED <<directorySafe, currentSafe, lockSafe, init>>
    /\ UNCHANGED <<outputVars, directory, generationVars, current, lock, callVars, boundVars>>

AfterEnsure == IF previous = doc THEN "return" ELSE "makeLink"

\* An existing generation is validated and reused as it is.
EnsureGeneration ==
    /\ phase = "ensure"
    /\ phase' = IF doc \in entries THEN AfterEnsure ELSE "writeArtifacts"
    /\ UNCHANGED <<diskVars, leftVars, stage, callVars, boundVars>>

\* Fault: the artifacts are not synced before the rename.
WriteArtifactsUnsynced ==
    /\ Goto("writeArtifacts", "renameStage")
    /\ UNCHANGED <<diskVars, leftVars, stage, callVars, boundVars>>

\* Both artifacts and their staging directory are written and synced.
WriteArtifacts ==
    /\ Goto("writeArtifacts", "renameStage")
    /\ synced' = synced \cup {doc}
    /\ UNCHANGED <<outputVars, directoryVars, entries, entriesSafe, torn, selectorVars, lockVars,
                   leftVars, stage, callVars, boundVars>>

\* Fault: the generations directory is not synced after the rename.
RenameStageUnsynced ==
    /\ Goto("renameStage", AfterEnsure)
    /\ entries' = entries \cup {doc}
    /\ UNCHANGED <<outputVars, directoryVars, entriesSafe, synced, torn, selectorVars, lockVars,
                   leftVars, stage, callVars, boundVars>>

RenameStage ==
    /\ Goto("renameStage", "syncGenerations")
    /\ entries' = entries \cup {doc}
    /\ UNCHANGED <<outputVars, directoryVars, entriesSafe, synced, torn, selectorVars, lockVars,
                   leftVars, stage, callVars, boundVars>>

SyncGenerations ==
    /\ Goto("syncGenerations", AfterEnsure)
    /\ entriesSafe' = entries
    /\ UNCHANGED <<outputVars, directoryVars, entries, synced, torn, selectorVars, lockVars,
                   leftVars, stage, callVars, boundVars>>

MakeLink ==
    /\ Goto("makeLink", "replaceCurrent")
    /\ UNCHANGED <<diskVars, leftVars, stage, callVars, boundVars>>

\* Fault: the output directory is not synced after the switch.
ReplaceCurrentUnsynced ==
    /\ Goto("replaceCurrent", "return")
    /\ current' = doc
    /\ UNCHANGED <<outputVars, directoryVars, generationVars, currentSafe, lockVars,
                   leftVars, stage, callVars, boundVars>>

ReplaceCurrent ==
    /\ Goto("replaceCurrent", "syncOutput")
    /\ current' = doc
    /\ UNCHANGED <<outputVars, directoryVars, generationVars, currentSafe, lockVars,
                   leftVars, stage, callVars, boundVars>>

SyncOutput ==
    /\ Goto("syncOutput", "return")
    /\ SyncedOutput
    /\ UNCHANGED <<outputVars, directory, generationVars, current, lock,
                   leftVars, stage, callVars, boundVars>>

Return ==
    /\ Goto("return", "free")
    /\ stage' = Left
    /\ acked' = doc
    /\ since' = {}
    /\ dropped' = FALSE
    /\ UNCHANGED <<output, outputSafe, directoryVars, generationVars, selectorVars, lockVars,
                   leftVars, doc, previous, boundVars>>

----------------------------------------------------------------------------
(* Crashes, failing system calls and power losses.                         *)

\* What the holder has made and not yet renamed to its place.
OwnStages ==
    CASE phase = "renameDirectory" -> {"directory"}
      [] phase = "renameStage" -> {"generation"}
      [] OTHER -> {}
OwnLinks == IF phase = "replaceCurrent" THEN {doc} ELSE {}

Interrupted ==
    /\ interrupts < MaxInterrupts
    /\ interrupts' = interrupts + 1
    /\ UNCHANGED <<diskVars, callVars, losses>>

\* The holder crashes or a system call of it fails; the machine stays up.
\* Only a failing call still removes its selector temporary.
Interrupt ==
    /\ phase # "free"
    /\ phase' = "free" /\ stage' = Left
    /\ stages' = stages \cup OwnStages
    /\ links' \in {links, links \cup OwnLinks}
    /\ Interrupted

\* So does a call on its way to the lock; its initializer stays either way.
InterruptOutside(c) ==
    /\ stage[c] \notin {"new", "in", "done"}
    /\ stage' = [stage EXCEPT ![c] = "done"]
    /\ UNCHANGED <<leftVars, phase>>
    /\ Interrupted

\* A power loss ends every call.
Lost ==
    /\ losses < MaxLosses
    /\ losses' = losses + 1
    /\ phase' = "free"
    /\ stage' = [c \in Caller |-> IF stage[c] = "new" THEN "new" ELSE "done"]
    /\ UNCHANGED <<callVars, interrupts>>

\* What a power loss makes of an initializer.  Nothing depends on whether the
\* name of a complete one was durable.
InitAfter(state) ==
    CASE state = "empty" -> {"none", "empty", "marked"}
      [] state \in {"marked", "removed"} -> {"none", "marked"}
      [] OTHER -> {"none"}

\* Everything durable is kept, everything else may be, and a staging name may
\* be back whose rename was not durable.  What is kept is durable.
PowerLoss ==
    /\ Lost
    /\ stages' \in SUBSET {"directory", "generation"}
    /\ links' \in SUBSET (links \cup OwnLinks \cup ({current} \ {currentSafe}))
    /\ directory' \in {directory, directorySafe}
    /\ \E kept \in SUBSET entries :
         entries' = IF directory' THEN entriesSafe \cup kept ELSE {}
    /\ current' \in {current, currentSafe}
    /\ lock' \in {lock, lockSafe}
    /\ init' \in [Caller -> {"none", "empty", "marked"}]
    /\ \A c \in Caller : init'[c] \in InitAfter(init[c])
    /\ directorySafe' = directory' /\ entriesSafe' = entries' /\ currentSafe' = current'
    /\ lockSafe' = lock' /\ outputSafe' = output
    /\ torn' = entries' \ synced
    /\ synced' = synced \cap entries'
    /\ UNCHANGED <<output, dropped>>

\* The output was never durable in its parent and is gone with all it held.
OutputLost ==
    /\ output /\ ~outputSafe
    /\ Lost
    /\ output' = FALSE /\ outputSafe' = FALSE /\ dropped' = TRUE
    /\ directory' = FALSE /\ directorySafe' = FALSE
    /\ entries' = {} /\ entriesSafe' = {} /\ synced' = {} /\ torn' = {}
    /\ current' = NoDoc /\ currentSafe' = NoDoc
    /\ lock' = FALSE /\ lockSafe' = FALSE
    /\ init' = [c \in Caller |-> "none"]
    /\ stages' = {} /\ links' = {}

\* Nobody calls any more, or every call is refused.
Stop ==
    /\ \A c \in Caller : stage[c] = "done" \/ (stage[c] = "new" /\ ~Valid)
    /\ UNCHANGED vars

Next ==
    \/ \E c \in Caller :
         \/ Begin(c) \/ CreateInit(c) \/ WriteInit(c) \/ LinkLock(c) \/ SyncLock(c)
         \/ \E d \in Doc : Enter(c, d)
         \/ InterruptOutside(c)
    \/ SyncInits
    \/ StageDirectory \/ RenameDirectory \/ SyncDirectory
    \/ CleanGenerations \/ CleanOutput
    \/ EnsureGeneration \/ WriteArtifacts \/ RenameStage \/ SyncGenerations
    \/ MakeLink \/ ReplaceCurrent \/ SyncOutput \/ Return
    \/ Interrupt \/ PowerLoss \/ OutputLost
    \/ Stop

Spec == Init /\ [][Next]_vars

----------------------------------------------------------------------------
\* The type of every variable.
TypeOK ==
    /\ {output, outputSafe, dropped} \subseteq BOOLEAN
    /\ {directory, directorySafe, lock, lockSafe} \subseteq BOOLEAN
    /\ entries \cup entriesSafe \cup synced \cup torn \cup since \cup links \subseteq Doc
    /\ stages \subseteq {"directory", "generation"}
    /\ {current, currentSafe, doc, previous, acked} \subseteq Doc \cup {NoDoc}
    /\ init \in [Caller -> {"none", "empty", "marked", "removed"}]
    /\ stage \in [Caller -> {"new", "creating", "writing", "linking", "syncing", "waiting",
                             "in", "done"}]
    /\ phase \in {"free", "syncInits", "stageDirectory", "renameDirectory", "syncDirectory",
                  "cleanGenerations", "cleanOutput", "ensure", "writeArtifacts", "renameStage",
                  "syncGenerations", "makeLink", "replaceCurrent", "syncOutput", "return"}
    /\ interrupts \in 0 .. MaxInterrupts /\ losses \in 0 .. MaxLosses

\* docs/architecture.md:22: the generation is synced "before atomically
\* switching one current selector", so whatever a power loss keeps, the
\* selector still names a generation that is there.
SelectorSurvives ==
    current # NoDoc => directory /\ current \in entries

\* Unless an export was interrupted before, no power loss damages what the next
\* one checks: the installed generations, the selector and the leftovers it
\* removes.  What it may still be refused for is an incomplete initializer,
\* which only exports that found no lock make; from the first success on the
\* lock is durable, even when its maker was overtaken before it had synced
\* it, so that later exports make none, unless the output itself goes.
StoreUsable ==
    interrupts = 0 =>
        /\ Valid /\ links \subseteq entries
        /\ acked # NoDoc /\ ~dropped => lock /\ lockSafe

\* No power loss exposes a generation whose artifacts were not on disk,
\* wherever calls were interrupted before.
NothingTorn == torn \cap entries = {}

\* When a call has reported success and none was interrupted, a power loss
\* cannot take the store back behind it: the selector names its generation or
\* that of a later call.  The one exception is an output that a call had to
\* make, whose entry in its parent no call syncs.
AcknowledgedSurvives ==
    acked # NoDoc /\ interrupts = 0 /\ ~dropped => current \in {acked} \cup since
----------------------------------------------------------------------------
(* The inductive invariant behind the properties above.                    *)

\* The steps of a call that has the generations directory, that has its
\* generation there, and that has not switched the selector yet.
InGenerations == {"cleanGenerations", "cleanOutput", "ensure", "writeArtifacts", "renameStage",
                  "syncGenerations", "makeLink", "replaceCurrent", "syncOutput", "return"}
Installed == {"makeLink", "replaceCurrent", "syncOutput", "return"}
Switched == {"free", "syncOutput", "return"}

\* The document of a running call; a selector once made stays.
CallInv ==
    /\ phase # "free" => doc \in Doc \cap since
    /\ current = NoDoc => currentSafe = NoDoc

\* A call that has yet to make its initializer has none.
NewInv == \A c \in Caller : stage[c] \in {"new", "creating"} => init[c] = "none"

\* Artifacts are on disk before their generation has its name.
ArtifactsInv ==
    /\ torn = {} /\ entriesSafe \subseteq entries /\ entries \subseteq synced
    /\ phase = "renameStage" => doc \in synced
    /\ phase = "syncGenerations" => doc \in entries

\* Whoever waits for the lock or holds it has seen it.  While it is not
\* durable its initializer is there, or its removal is about to be synced.
LockInv ==
    /\ lockSafe => lock
    /\ \A c \in Caller : stage[c] \in {"syncing", "waiting"} => lock
    /\ phase # "free" => lock
    /\ lock => lockSafe \/ phase = "syncInits" \/ \E c \in Caller : init[c] = "marked"
    /\ phase \notin {"free", "syncInits"} => lockSafe
    /\ acked # NoDoc /\ ~dropped => lockSafe

\* Each entry is made durable before the next step, so that whatever refers to
\* it is made after it is durable.
DurableInv ==
    /\ directorySafe => directory
    /\ directory => directorySafe \/ phase = "syncDirectory"
    /\ phase = "syncDirectory" => directory
    /\ entries # entriesSafe => phase = "syncGenerations"
    /\ current # currentSafe => current = doc /\ phase = "syncOutput"
    /\ phase \in InGenerations => directorySafe
    /\ phase \in Installed => doc \in entriesSafe
    /\ {current, currentSafe} \subseteq entriesSafe \cup {NoDoc} /\ links \subseteq entriesSafe
    /\ {current, currentSafe} # {NoDoc} \/ links # {} => directorySafe

\* What the selector names, durably or not, is no older than the last success.
SelectorInv ==
    /\ phase \notin Switched => current = previous
    /\ phase \in {"syncOutput", "return"} => current = doc
    /\ acked # NoDoc /\ ~dropped => {current, currentSafe} \subseteq {acked} \cup since

IInv ==
    /\ TypeOK /\ CallInv /\ NewInv /\ ArtifactsInv
    /\ interrupts = 0 => LockInv /\ DurableInv /\ SelectorInv
=============================================================================
