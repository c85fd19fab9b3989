---------------------- MODULE CorpusDurabilityProofs ----------------------
(***************************************************************************)
(* Proofs about CorpusDurability for any number of corpora, calls, crashes *)
(* and power losses.                                                       *)
(***************************************************************************)
EXTENDS CorpusDurability, TLAPS

USE DEF outputVars, directoryVars, generationVars, selectorVars, lockVars, diskVars, leftVars,
        callVars, boundVars, Goto

\* The steps of a call on its way to the lock, the steps of the call that
\* holds it, the crash of either, and the power losses.
Approach(c) == Begin(c) \/ CreateInit(c) \/ WriteInit(c) \/ LinkLock(c) \/ SyncLock(c)
Step ==
    \/ SyncInits \/ StageDirectory \/ RenameDirectory \/ SyncDirectory
    \/ CleanGenerations \/ CleanOutput
    \/ EnsureGeneration \/ WriteArtifacts \/ RenameStage \/ SyncGenerations
    \/ MakeLink \/ ReplaceCurrent \/ SyncOutput \/ Return
Crash == Interrupt \/ \E c \in Caller : InterruptOutside(c)
NoPower == PowerLoss \/ OutputLost

LEMMA NextIsStep ==
    ASSUME [Next]_vars
    PROVE  \/ \E c \in Caller : Approach(c) \/ \E d \in Doc : Enter(c, d)
           \/ Step \/ Crash \/ NoPower \/ UNCHANGED vars
  BY DEF Next, Approach, Step, Crash, NoPower, Stop

\* What the approach to the lock leaves alone.
LEMMA ApproachKeeps ==
    ASSUME NEW c \in Caller, Approach(c)
    PROVE  /\ UNCHANGED <<dropped, directory, entries, entriesSafe, synced, torn, current, stages,
                         links, phase, doc, previous, acked, since, interrupts, losses>>
           /\ outputSafe' = outputSafe /\ output' \in {output, TRUE}
           /\ UNCHANGED <<directorySafe, currentSafe>> \/ SyncedOutput
  BY DEF Approach, Begin, CreateInit, WriteInit, LinkLock, SyncLock, SyncedOutput

\* What taking the lock leaves alone.
LEMMA EnterKeeps ==
    ASSUME NEW c \in Caller, NEW d \in Doc, Enter(c, d)
    PROVE  /\ UNCHANGED <<outputVars, directoryVars, generationVars, selectorVars, lock, lockSafe,
                         stages, links, acked, interrupts, losses>>
           /\ phase = "free"
           /\ \/ UNCHANGED <<phase, init, doc, previous, since>>
              \/ /\ phase' \in {"syncInits", "cleanGenerations", "stageDirectory"}
                 /\ phase' = "cleanGenerations" => directory
                 /\ doc' = d /\ previous' = current /\ since' = since \cup {d}
  BY DEF Enter, AfterInits

\* What a synced output does to the initializers.
LEMMA SyncedInits ==
    ASSUME TypeOK, SyncedOutput
    PROVE  /\ init' \in [Caller -> {"none", "empty", "marked", "removed"}]
           /\ \A c \in Caller : init[c] = "marked" => init'[c] = "marked"
<1>1. init' = [c \in Caller |-> IF init[c] = "removed" THEN "none" ELSE init[c]]
  BY DEF SyncedOutput
<1>2. init \in [Caller -> {"none", "empty", "marked", "removed"}]
  BY DEF TypeOK
<1> QED
  BY <1>1, <1>2

----------------------------------------------------------------------------
(* Types, and the document of a call.                                      *)

LEMMA TypeInit == Init => TypeOK /\ CallInv
<1> SUFFICES ASSUME Init PROVE TypeOK /\ CallInv
  OBVIOUS
<1>1. /\ {output, outputSafe, dropped} \subseteq BOOLEAN
      /\ {directory, directorySafe, lock, lockSafe} \subseteq BOOLEAN
  BY DEF Init
<1>2. interrupts \in 0 .. MaxInterrupts /\ losses \in 0 .. MaxLosses
  BY DurabilityAssumption DEF Init
<1> QED
  BY <1>1, <1>2 DEF Init, TypeOK, CallInv

StageSet == {"new", "creating", "writing", "linking", "syncing", "waiting", "in", "done"}

\* Leaving, and the end every call meets in a power loss, keep the type.
LEMMA LeftType ==
    ASSUME stage \in [Caller -> StageSet]
    PROVE  /\ Left \in [Caller -> StageSet]
           /\ [c \in Caller |-> IF stage[c] = "new" THEN "new" ELSE "done"]
                \in [Caller -> StageSet]
  BY DEF Left, StageSet

LEMMA ApproachType ==
    ASSUME TypeOK, CallInv, NEW c \in Caller, Approach(c)
    PROVE  TypeOK' /\ CallInv'
<1>1. stage' \in [Caller -> StageSet]
  BY DEF TypeOK, StageSet, Approach, Begin, CreateInit, WriteInit, LinkLock, SyncLock, Advance
<1>2. init' \in [Caller -> {"none", "empty", "marked", "removed"}]
  BY SyncedInits DEF TypeOK, Approach, Begin, CreateInit, WriteInit, LinkLock, SyncLock
<1>3. lock' \in BOOLEAN /\ lockSafe' \in BOOLEAN
  BY DEF TypeOK, Approach, Begin, CreateInit, WriteInit, LinkLock, SyncLock, SyncedOutput
<1>4. directorySafe' \in {directory, directorySafe} /\ currentSafe' \in {current, currentSafe}
  BY ApproachKeeps DEF SyncedOutput
<1> QED
  BY <1>1, <1>2, <1>3, <1>4, ApproachKeeps DEF TypeOK, CallInv, StageSet

LEMMA TypeStep ==
    ASSUME TypeOK, CallInv, Step
    PROVE  TypeOK' /\ CallInv'
<1> USE SyncedInits
<1>1. UNCHANGED <<output, outputSafe, interrupts, losses>> /\ dropped' \in {dropped, FALSE}
  BY DEF Step, SyncInits, StageDirectory, RenameDirectory, SyncDirectory, CleanGenerations,
    CleanOutput, EnsureGeneration, WriteArtifacts, RenameStage, SyncGenerations, MakeLink,
    ReplaceCurrent, SyncOutput, Return
<1>2. stage' \in [Caller -> StageSet]
  BY LeftType DEF TypeOK, StageSet, Step, SyncInits, StageDirectory, RenameDirectory,
    SyncDirectory, CleanGenerations, CleanOutput, EnsureGeneration, WriteArtifacts, RenameStage,
    SyncGenerations, MakeLink, ReplaceCurrent, SyncOutput, Return
<1>3. UNCHANGED <<lock, lockSafe, init>> \/ (lock' = lock /\ SyncedOutput)
  BY DEF Step, SyncInits, StageDirectory, RenameDirectory, SyncDirectory, CleanGenerations,
    CleanOutput, EnsureGeneration, WriteArtifacts, RenameStage, SyncGenerations, MakeLink,
    ReplaceCurrent, SyncOutput, Return
<1>4. /\ init' \in [Caller -> {"none", "empty", "marked", "removed"}]
      /\ lock' \in BOOLEAN /\ lockSafe' \in BOOLEAN
  BY <1>3 DEF TypeOK, SyncedOutput
<1> HIDE SyncedInits
<1> USE DEF TypeOK, CallInv, SyncedOutput
<1>5. CASE SyncInits \/ StageDirectory \/ RenameDirectory \/ SyncDirectory
  <2>1. directory' \in BOOLEAN /\ directorySafe' \in BOOLEAN
    BY <1>5 DEF SyncInits, StageDirectory, RenameDirectory, SyncDirectory
  <2>2. phase' # "free" /\ phase # "free" /\ UNCHANGED <<generationVars, current, links, stages, callVars>>
    BY <1>5 DEF SyncInits, AfterInits, StageDirectory, RenameDirectory, SyncDirectory
  <2>3. currentSafe' \in {current, currentSafe}
    BY <1>5 DEF SyncInits, StageDirectory, RenameDirectory, SyncDirectory
  <2>4. phase' \in {"cleanGenerations", "stageDirectory", "renameDirectory", "syncDirectory"}
    BY <1>5 DEF SyncInits, AfterInits, StageDirectory, RenameDirectory, SyncDirectory
  <2> QED
    BY <1>1, <1>2, <1>4, <2>1, <2>2, <2>3, <2>4 DEF StageSet
<1>6. CASE CleanGenerations \/ CleanOutput
  BY <1>1, <1>2, <1>4, <1>6 DEF CleanGenerations, CleanOutput, StageSet
<1>7. CASE EnsureGeneration \/ WriteArtifacts \/ RenameStage \/ SyncGenerations
  BY <1>1, <1>2, <1>4, <1>7 DEF EnsureGeneration, AfterEnsure, WriteArtifacts, RenameStage,
    SyncGenerations, StageSet
<1>8. CASE MakeLink \/ ReplaceCurrent \/ SyncOutput \/ Return
  BY <1>1, <1>2, <1>4, <1>8, DurabilityAssumption DEF MakeLink, ReplaceCurrent, SyncOutput,
    Return, StageSet
<1> QED
  BY <1>5, <1>6, <1>7, <1>8 DEF Step

LEMMA TypeNoPower ==
    ASSUME TypeOK, CallInv, NoPower
    PROVE  TypeOK' /\ CallInv'
<1>1. /\ phase' = "free" /\ stage' \in [Caller -> StageSet] /\ losses' \in 0 .. MaxLosses
      /\ UNCHANGED <<doc, previous, acked, since, interrupts>>
  <2>1. stage \in [Caller -> StageSet]
    BY DEF TypeOK, StageSet
  <2> QED
    BY <2>1, LeftType, DurabilityAssumption DEF NoPower, PowerLoss, OutputLost, Lost, TypeOK
<1>2. CASE PowerLoss
  <2>1. /\ {output', outputSafe', dropped'} \subseteq BOOLEAN
        /\ {directory', directorySafe', lock', lockSafe'} \subseteq BOOLEAN
    BY <1>2 DEF PowerLoss, TypeOK
  <2>2. entries' \subseteq Doc /\ links' \subseteq Doc
    <3>1. OwnLinks \subseteq Doc /\ {current} \ {currentSafe} \subseteq Doc
      BY DEF OwnLinks, TypeOK, CallInv
    <3> QED
      BY <1>2, <3>1 DEF PowerLoss, TypeOK
  <2>3. init' \in [Caller -> {"none", "empty", "marked", "removed"}]
    BY <1>2 DEF PowerLoss
  <2>4. /\ entriesSafe' = entries' /\ torn' \subseteq entries' /\ synced' \subseteq entries'
        /\ stages' \subseteq {"directory", "generation"}
        /\ current' \in {current, currentSafe} /\ currentSafe' = current'
    BY <1>2 DEF PowerLoss
  <2> QED
    BY <1>1, <2>1, <2>2, <2>3, <2>4 DEF TypeOK, CallInv, StageSet
<1>3. CASE OutputLost
  <2>1. /\ {output', outputSafe', dropped'} \subseteq BOOLEAN
        /\ {directory', directorySafe', lock', lockSafe'} \subseteq BOOLEAN
    BY <1>3 DEF OutputLost
  <2> QED
    BY <1>1, <1>3, <2>1 DEF OutputLost, TypeOK, CallInv, StageSet
<1> QED
  BY <1>2, <1>3 DEF NoPower

LEMMA NewNext ==
    ASSUME TypeOK, NewInv, [Next]_vars
    PROVE  NewInv'
<1> USE DEF TypeOK, NewInv, Advance
<1>1. ASSUME NEW c \in Caller, Approach(c) PROVE NewInv'
  BY <1>1 DEF Approach, Begin, CreateInit, WriteInit, LinkLock, SyncLock, SyncedOutput
<1>2. ASSUME NEW c \in Caller, NEW d \in Doc, Enter(c, d) PROVE NewInv'
  BY <1>2 DEF Enter
<1>3. CASE Step
  <2>1. init' = init \/ SyncedOutput
    BY <1>3 DEF Step, SyncInits, StageDirectory, RenameDirectory, SyncDirectory, CleanGenerations,
      CleanOutput, EnsureGeneration, WriteArtifacts, RenameStage, SyncGenerations, MakeLink,
      ReplaceCurrent, SyncOutput, Return
  <2>2. stage' = stage \/ stage' = Left
    BY <1>3 DEF Step, SyncInits, StageDirectory, RenameDirectory, SyncDirectory, CleanGenerations,
      CleanOutput, EnsureGeneration, WriteArtifacts, RenameStage, SyncGenerations, MakeLink,
      ReplaceCurrent, SyncOutput, Return
  <2> QED
    BY <2>1, <2>2 DEF Left, SyncedOutput
<1>4. CASE Crash
  BY <1>4 DEF Crash, Interrupt, InterruptOutside, Interrupted, Left
<1>5. CASE NoPower
  BY <1>5 DEF NoPower, PowerLoss, OutputLost, Lost, InitAfter
<1>6. CASE UNCHANGED vars
  BY <1>6 DEF vars
<1> QED
  BY <1>1, <1>2, <1>3, <1>4, <1>5, <1>6, NextIsStep

LEMMA TypeNext ==
    ASSUME TypeOK, CallInv, [Next]_vars
    PROVE  TypeOK' /\ CallInv'
<1>1. ASSUME NEW c \in Caller, NEW d \in Doc, Enter(c, d) PROVE TypeOK' /\ CallInv'
  <2>1. stage' \in [Caller -> StageSet]
    BY <1>1 DEF Enter, Advance, TypeOK, StageSet
  <2>2. init' \in [Caller -> {"none", "empty", "marked", "removed"}]
    BY <1>1 DEF Enter, TypeOK
  <2> QED
    BY <1>1, <2>1, <2>2, EnterKeeps DEF TypeOK, CallInv, StageSet
<1>2. CASE Crash
  <2>1. stage' \in [Caller -> StageSet]
    <3>1. stage \in [Caller -> StageSet]
      BY DEF TypeOK, StageSet
    <3> QED
      BY <1>2, <3>1, LeftType DEF Crash, Interrupt, InterruptOutside, StageSet
  <2>2. interrupts' \in 0 .. MaxInterrupts
    BY <1>2, DurabilityAssumption DEF Crash, Interrupt, InterruptOutside, Interrupted, TypeOK
  <2>3. links' \subseteq Doc /\ stages' \subseteq {"directory", "generation"}
    BY <1>2 DEF Crash, Interrupt, InterruptOutside, OwnLinks, OwnStages, TypeOK, CallInv
  <2>4. phase' \in {phase, "free"} /\ UNCHANGED <<diskVars, callVars, losses>>
    BY <1>2 DEF Crash, Interrupt, InterruptOutside, Interrupted
  <2> QED
    BY <2>1, <2>2, <2>3, <2>4 DEF TypeOK, CallInv, StageSet
<1>3. CASE UNCHANGED vars
  BY <1>3 DEF vars, TypeOK, CallInv
<1> QED
  BY <1>1, <1>2, <1>3, ApproachType, TypeStep, TypeNoPower, NextIsStep

----------------------------------------------------------------------------
(* Artifacts.                                                              *)

LEMMA ArtifactsNext ==
    ASSUME TypeOK, CallInv, ArtifactsInv, [Next]_vars
    PROVE  ArtifactsInv'
<1> USE DEF ArtifactsInv
<1>1. ASSUME NEW c \in Caller, Approach(c) PROVE ArtifactsInv'
  <2>1. UNCHANGED <<entries, entriesSafe, synced, torn, phase, doc>>
    BY <1>1, ApproachKeeps
  <2> QED
    BY <2>1
<1>2. ASSUME NEW c \in Caller, NEW d \in Doc, Enter(c, d) PROVE ArtifactsInv'
  BY <1>2, EnterKeeps
<1>3. CASE Step
  <2>1. CASE EnsureGeneration \/ SyncGenerations
    BY <2>1 DEF EnsureGeneration, SyncGenerations, AfterEnsure
  <2>2. CASE WriteArtifacts \/ RenameStage
    BY <2>2 DEF WriteArtifacts, RenameStage
  <2>3. CASE SyncInits \/ StageDirectory \/ RenameDirectory \/ SyncDirectory
    BY <2>3 DEF SyncInits, AfterInits, StageDirectory, RenameDirectory, SyncDirectory
  <2>4. CASE CleanGenerations \/ CleanOutput
    BY <2>4 DEF CleanGenerations, CleanOutput
  <2>5. CASE MakeLink \/ ReplaceCurrent \/ SyncOutput \/ Return
    BY <2>5 DEF MakeLink, ReplaceCurrent, SyncOutput, Return
  <2> QED
    BY <1>3, <2>1, <2>2, <2>3, <2>4, <2>5 DEF Step
<1>4. CASE Crash
  BY <1>4 DEF Crash, Interrupt, InterruptOutside, Interrupted
<1>5. CASE PowerLoss
  <2>1. /\ entries' \subseteq entries /\ entriesSafe' = entries' /\ phase' = "free"
        /\ torn' = entries' \ synced /\ synced' = synced \cap entries'
    BY <1>5 DEF PowerLoss, Lost
  <2> QED
    BY <2>1
<1>6. CASE OutputLost
  BY <1>6 DEF OutputLost, Lost
<1>7. CASE UNCHANGED vars
  BY <1>7 DEF vars
<1> QED
  BY <1>1, <1>2, <1>3, <1>4, <1>5, <1>6, <1>7, NextIsStep DEF NoPower

----------------------------------------------------------------------------
(* The lock, when no call was interrupted.                                 *)

LEMMA LockApproach ==
    ASSUME TypeOK, NewInv, LockInv, NEW c \in Caller, Approach(c)
    PROVE  LockInv'
<1> USE DEF TypeOK, NewInv, LockInv, Advance
<1>1. UNCHANGED <<phase, acked, dropped>>
  BY ApproachKeeps
<1>2. CASE Begin(c) \/ CreateInit(c) \/ WriteInit(c)
  <2>1. UNCHANGED <<lock, lockSafe>>
    BY <1>2 DEF Begin, CreateInit, WriteInit
  <2>2. \A k \in Caller : stage'[k] \in {"syncing", "waiting"} => lock
    BY <1>2 DEF Begin, CreateInit, WriteInit
  <2>3. \A k \in Caller : init[k] = "marked" => init'[k] = "marked"
    BY <1>2 DEF Begin, CreateInit, WriteInit
  <2> QED
    BY <1>1, <2>1, <2>2, <2>3
<1>3. CASE LinkLock(c)
  <2>1. init' = init /\ lockSafe' = lockSafe /\ (lock => lock')
    BY <1>3 DEF LinkLock
  <2>2. \A k \in Caller : stage'[k] \in {"syncing", "waiting"} => lock'
    BY <1>3 DEF LinkLock
  <2>3. lock' => lock \/ init[c] = "marked"
    BY <1>3 DEF LinkLock
  <2> QED
    BY <1>1, <2>1, <2>2, <2>3
<1>4. CASE SyncLock(c)
  <2>1. lock' = lock /\ lockSafe' = lock /\ lock
    BY <1>4 DEF SyncLock, SyncedOutput
  <2> QED
    BY <1>1, <1>4, <2>1 DEF SyncLock
<1> QED
  BY <1>2, <1>3, <1>4 DEF Approach

LEMMA LockNext ==
    ASSUME TypeOK, NewInv, LockInv, [Next]_vars, interrupts = 0, interrupts' = 0
    PROVE  LockInv'
<1>1. ASSUME NEW c \in Caller, NEW d \in Doc, Enter(c, d) PROVE LockInv'
  <2>1. /\ UNCHANGED <<lock, lockSafe, acked, dropped>> /\ phase = "free" /\ lock
        /\ \A k \in Caller : stage'[k] \in {"syncing", "waiting"} => lock
    BY <1>1 DEF Enter, Advance, TypeOK, LockInv
  <2>2. CASE UNCHANGED <<phase, init>>
    BY <2>1, <2>2 DEF LockInv, TypeOK
  <2>3. CASE phase' = IF \E other \in Caller : init[other] = "marked"
                     THEN "syncInits" ELSE AfterInits
    BY <2>1, <2>3 DEF LockInv, TypeOK, AfterInits
  <2> QED
    BY <1>1, <2>2, <2>3 DEF Enter
<1>2. CASE Step
  <2>1. lock' = lock /\ lock
    BY <1>2 DEF LockInv, Step, SyncInits, StageDirectory, RenameDirectory, SyncDirectory,
      CleanGenerations, CleanOutput, EnsureGeneration, WriteArtifacts, RenameStage,
      SyncGenerations, MakeLink, ReplaceCurrent, SyncOutput, Return
  <2>2. lockSafe'
    <3>1. lockSafe \/ phase = "syncInits"
      BY <1>2 DEF LockInv, Step, SyncInits, StageDirectory, RenameDirectory, SyncDirectory,
        CleanGenerations, CleanOutput, EnsureGeneration, WriteArtifacts, RenameStage,
        SyncGenerations, MakeLink, ReplaceCurrent, SyncOutput, Return
    <3> QED
      BY <1>2, <2>1, <3>1 DEF LockInv, SyncedOutput, Step, SyncInits, StageDirectory,
        RenameDirectory, SyncDirectory, CleanGenerations, CleanOutput, EnsureGeneration,
        WriteArtifacts, RenameStage, SyncGenerations, MakeLink, ReplaceCurrent, SyncOutput, Return
  <2> QED
    BY <2>1, <2>2 DEF LockInv, TypeOK
<1>3. CASE Crash
  BY <1>3, DurabilityAssumption DEF Crash, Interrupt, InterruptOutside, Interrupted, TypeOK
<1>4. CASE PowerLoss
  <2>1. /\ phase' = "free" /\ lockSafe' = lock' /\ lock' \in {lock, lockSafe}
        /\ UNCHANGED <<acked, dropped>>
    BY <1>4 DEF PowerLoss, Lost
  <2>2. \A k \in Caller : stage'[k] \in {"new", "done"}
    BY <1>4 DEF PowerLoss, Lost
  <2> QED
    BY <2>1, <2>2 DEF LockInv, TypeOK
<1>5. CASE OutputLost
  <2>1. \A k \in Caller : stage'[k] \in {"new", "done"}
    BY <1>5 DEF OutputLost, Lost
  <2> QED
    BY <1>5, <2>1 DEF OutputLost, Lost, LockInv
<1>6. CASE UNCHANGED vars
  BY <1>6 DEF vars, LockInv
<1> QED
  BY <1>1, <1>2, <1>3, <1>4, <1>5, <1>6, LockApproach, NextIsStep DEF NoPower

----------------------------------------------------------------------------
(* The order of the steps, when no call was interrupted.                   *)

\* Nothing is unsafe while nobody holds the lock.
LEMMA FreeIsSafe ==
    ASSUME TypeOK, DurableInv, phase = "free"
    PROVE  directorySafe = directory /\ entriesSafe = entries /\ currentSafe = current
<1>1. (directorySafe <=> directory) /\ directorySafe \in BOOLEAN /\ directory \in BOOLEAN
  BY DEF DurableInv, TypeOK
<1> QED
  BY <1>1 DEF DurableInv

\* Syncing the output early, as a call on its way to the lock may, makes
\* nothing less durable.
LEMMA DurableApproach ==
    ASSUME TypeOK, ArtifactsInv, DurableInv, SelectorInv, NEW c \in Caller, Approach(c)
    PROVE  DurableInv' /\ SelectorInv'
<1>1. /\ UNCHANGED <<directory, entries, entriesSafe, current, links, phase, doc, previous,
                    acked, since, dropped>>
      /\ \/ UNCHANGED <<directorySafe, currentSafe>>
         \/ directorySafe' = directory /\ currentSafe' = current
  BY ApproachKeeps DEF SyncedOutput
<1>2. directory \in BOOLEAN /\ directorySafe \in BOOLEAN
  BY DEF TypeOK
<1>3. DurableInv'
  BY <1>1, <1>2 DEF DurableInv
<1> QED
  BY <1>1, <1>3 DEF SelectorInv

LEMMA DurableStep ==
    ASSUME TypeOK, CallInv, ArtifactsInv, DurableInv, SelectorInv, Step
    PROVE  DurableInv' /\ SelectorInv'
<1> USE DurabilityAssumption DEF TypeOK, CallInv, DurableInv, SelectorInv
<1>1. CASE SyncInits
  <2>1. /\ phase = "syncInits" /\ phase' = IF directory THEN "cleanGenerations" ELSE "stageDirectory"
        /\ directorySafe' = directory /\ currentSafe' = current
        /\ UNCHANGED <<directory, entries, entriesSafe, current, links, doc, previous, acked, since, dropped>>
    BY <1>1 DEF SyncInits, AfterInits, SyncedOutput
  <2>2. directory \in BOOLEAN /\ (directory <=> directorySafe)
    BY <2>1
  <2> QED
    BY <2>1, <2>2 DEF InGenerations, Installed, Switched
<1>2. CASE StageDirectory
  BY <1>2 DEF StageDirectory, InGenerations, Installed, Switched
<1>3. CASE RenameDirectory
  BY <1>3 DEF RenameDirectory, InGenerations, Installed, Switched
<1>4. CASE SyncDirectory
  <2>1. phase = "syncDirectory" /\ phase' = "cleanGenerations"
        /\ directorySafe' = directory /\ currentSafe' = current
        /\ UNCHANGED <<directory, entries, entriesSafe, current, links, doc, previous, acked, since, dropped>>
    BY <1>4 DEF SyncDirectory, SyncedOutput
  <2>2. (directorySafe' <=> directory')
    BY <2>1
  <2>3. directory
    BY <2>1
  <2> QED
    BY <2>1, <2>2, <2>3 DEF InGenerations, Installed, Switched
<1>5. CASE CleanGenerations
  BY <1>5 DEF CleanGenerations, InGenerations, Installed, Switched
<1>6. CASE CleanOutput
  <2>1. /\ phase = "cleanOutput"
        /\ phase' = "ensure" \/ (phase' = "free" /\ ~(links \subseteq entries))
        /\ links' \subseteq links
        /\ UNCHANGED <<directory, entries, entriesSafe, current, doc, previous, acked, since, dropped>>
        /\ \/ UNCHANGED <<directorySafe, currentSafe>>
           \/ directorySafe' = directory /\ currentSafe' = current
    BY <1>6 DEF CleanOutput, SyncedOutput
  <2>2. (directorySafe' <=> directorySafe) /\ currentSafe' = currentSafe /\ links \subseteq entries
    BY <1>6, <2>1 DEF ArtifactsInv, CleanOutput
  <2> QED
    BY <2>1, <2>2 DEF InGenerations, Installed, Switched
<1>7. CASE EnsureGeneration
  BY <1>7 DEF EnsureGeneration, AfterEnsure, InGenerations, Installed, Switched
<1>8. CASE WriteArtifacts
  BY <1>8 DEF WriteArtifacts, InGenerations, Installed, Switched
<1>9. CASE RenameStage
  BY <1>9 DEF RenameStage, InGenerations, Installed, Switched
<1>10. CASE SyncGenerations
  <2>1. phase' = IF previous = doc THEN "return" ELSE "makeLink"
    BY <1>10 DEF SyncGenerations, AfterEnsure
  <2>2. /\ entriesSafe' = entries
        /\ UNCHANGED <<directory, directorySafe, entries, current, currentSafe, links, doc, previous,
                       acked, since, dropped>>
    BY <1>10 DEF SyncGenerations
  <2>3. phase = "syncGenerations"
    BY <1>10 DEF SyncGenerations
  <2>4. doc \in entries
    BY <2>3 DEF ArtifactsInv
  <2> QED
    BY <2>1, <2>2, <2>3, <2>4 DEF ArtifactsInv, InGenerations, Installed, Switched
<1>11. CASE MakeLink
  BY <1>11 DEF MakeLink, InGenerations, Installed, Switched
<1>12. CASE ReplaceCurrent
  BY <1>12 DEF ReplaceCurrent, InGenerations, Installed, Switched
<1>13. CASE SyncOutput
  BY <1>13 DEF SyncOutput, SyncedOutput, InGenerations, Installed, Switched
<1>14. CASE Return
  BY <1>14 DEF Return, InGenerations, Installed, Switched
<1> QED
  BY <1>1, <1>2, <1>3, <1>4, <1>5, <1>6, <1>7, <1>8, <1>9, <1>10, <1>11, <1>12, <1>13, <1>14
  DEF Step

\* A power loss takes nothing that a name still leads to.
LEMMA DurablePowerLoss ==
    ASSUME TypeOK, CallInv, ArtifactsInv, DurableInv, SelectorInv, PowerLoss
    PROVE  DurableInv' /\ SelectorInv'
<1>1. /\ phase' = "free" /\ directorySafe' = directory' /\ entriesSafe' = entries'
      /\ currentSafe' = current' /\ current' \in {current, currentSafe}
      /\ directory' \in {directory, directorySafe}
      /\ links' \subseteq links \cup OwnLinks \cup ({current} \ {currentSafe})
      /\ directory' => entriesSafe \subseteq entries'
      /\ UNCHANGED <<acked, since, dropped>>
  BY DEF PowerLoss, Lost
<1>2. directorySafe => directory' /\ entriesSafe \subseteq entries'
  <2>1. directory \in BOOLEAN /\ directorySafe \in BOOLEAN /\ (directorySafe => directory)
    BY DEF DurableInv, TypeOK
  <2>2. directorySafe => directory'
    BY <1>1, <2>1
  <2> QED
    BY <1>1, <2>2
<1>3. current' # NoDoc => directorySafe /\ current' \in entriesSafe
  BY <1>1 DEF DurableInv
<1>4. links' \subseteq entriesSafe /\ (links' # {} => directorySafe)
  <2>1. OwnLinks \subseteq entriesSafe /\ (OwnLinks # {} => directorySafe)
    BY DEF OwnLinks, DurableInv, Installed, InGenerations
  <2>2. /\ {current} \ {currentSafe} \subseteq entriesSafe
        /\ {current} \ {currentSafe} # {} => directorySafe
    BY DEF DurableInv, Installed, InGenerations
  <2> QED
    BY <1>1, <2>1, <2>2 DEF DurableInv
<1>5. DurableInv'
  BY <1>1, <1>2, <1>3, <1>4 DEF DurableInv, InGenerations, Installed
<1> QED
  BY <1>1, <1>5 DEF SelectorInv, Switched

LEMMA DurableNext ==
    ASSUME TypeOK, CallInv, ArtifactsInv, DurableInv, SelectorInv, [Next]_vars,
           interrupts = 0, interrupts' = 0
    PROVE  DurableInv' /\ SelectorInv'
<1>1. ASSUME NEW c \in Caller, NEW d \in Doc, Enter(c, d) PROVE DurableInv' /\ SelectorInv'
  BY <1>1, FreeIsSafe, EnterKeeps DEF DurableInv, SelectorInv, InGenerations, Installed, Switched
<1>2. CASE Crash
  BY <1>2, DurabilityAssumption DEF Crash, Interrupt, InterruptOutside, Interrupted, TypeOK
<1>3. CASE OutputLost
  BY <1>3 DEF OutputLost, Lost, DurableInv, SelectorInv, InGenerations, Installed, Switched
<1>4. CASE UNCHANGED vars
  BY <1>4 DEF vars, DurableInv, SelectorInv
<1> QED
  BY <1>1, <1>2, <1>3, <1>4, DurableApproach, DurableStep, DurablePowerLoss, NextIsStep DEF NoPower

\* An interruption is never undone.
LEMMA InterruptsGrow ==
    ASSUME TypeOK, [Next]_vars, interrupts' = 0
    PROVE  interrupts = 0
<1>1. interrupts' = interrupts \/ Crash
  <2>1. CASE Step
    BY <2>1 DEF Step, SyncInits, StageDirectory, RenameDirectory, SyncDirectory, CleanGenerations,
      CleanOutput, EnsureGeneration, WriteArtifacts, RenameStage, SyncGenerations, MakeLink,
      ReplaceCurrent, SyncOutput, Return
  <2>2. CASE NoPower
    BY <2>2 DEF NoPower, PowerLoss, OutputLost, Lost
  <2> QED
    BY <2>1, <2>2, NextIsStep, ApproachKeeps, EnterKeeps DEF vars
<1> QED
  BY <1>1, DurabilityAssumption DEF Crash, Interrupt, InterruptOutside, Interrupted, TypeOK

----------------------------------------------------------------------------
(* Theorems.                                                               *)

LEMMA InitIInv == Init => IInv
  BY TypeInit DEF IInv, Init, NewInv, ArtifactsInv, LockInv, DurableInv, SelectorInv, InGenerations,
    Installed, Switched

LEMMA NextIInv == IInv /\ [Next]_vars => IInv'
  BY TypeNext, NewNext, ArtifactsNext, LockNext, DurableNext, InterruptsGrow DEF IInv

\* The inductive invariant, however many calls run, crash or lose power.
THEOREM Invariance == Spec => []IInv
  BY InitIInv, NextIInv, PTL DEF Spec

\* Every variable has its type.
THEOREM TypeCorrect == Spec => []TypeOK
<1>1. IInv => TypeOK
  BY DEF IInv
<1> QED
  BY <1>1, Invariance, PTL

\* No power loss exposes a generation whose artifacts were not on disk,
\* wherever calls were interrupted: _ensure_generation syncs before it renames.
THEOREM NoGenerationIsTorn == Spec => []NothingTorn
<1>1. IInv => NothingTorn
  BY DEF IInv, ArtifactsInv, NothingTorn
<1> QED
  BY <1>1, Invariance, PTL

\* After power losses alone the next export finds nothing damaged, and after a
\* success a durable lock, so that no further initializers are made.
THEOREM StoreStaysUsable == Spec => []StoreUsable
<1>1. IInv => StoreUsable
  BY DurabilityAssumption DEF IInv, ArtifactsInv, LockInv, DurableInv, StoreUsable, Valid, TypeOK
<1> QED
  BY <1>1, Invariance, PTL

\* A power loss does not take the selector back behind an export that has
\* reported success, unless it takes the output itself, which no call syncs.
THEOREM AcknowledgedIsKept == Spec => []AcknowledgedSurvives
<1>1. IInv => AcknowledgedSurvives
  BY DEF IInv, SelectorInv, AcknowledgedSurvives
<1> QED
  BY <1>1, Invariance, PTL
=============================================================================
