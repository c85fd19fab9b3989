------------------------- MODULE CorpusStoreProofs -------------------------
(***************************************************************************)
(* Proofs about CorpusStore for any set of publishers, any set of          *)
(* documents and any number of faults, and about CorpusReaders for any set *)
(* of readers beside them: lock-free reads are safe, and the store with    *)
(* its readers implements CorpusRegister.                                  *)
(***************************************************************************)
EXTENDS CorpusReaders, TLAPS

USE DEF At, Advance, Raise, Check, nameVars, dirVars, genVars, scanVars, callVars

----------------------------------------------------------------------------
(* Types.                                                                  *)

LEMMA TypeInit == Init => TypeOK
  BY CorpusAssumption DEF Init, TypeOK, Before, NoArtifacts, Artifacts

\* Writing one artifact of a staging directory keeps its type.
LEMMA ArtifactWritten ==
    ASSUME NEW a \in Artifacts, NEW d \in Doc \cup {NoDoc}
    PROVE  /\ [a EXCEPT !.corpus = d] \in Artifacts
           /\ [a EXCEPT !.manifest = d] \in Artifacts
  BY DEF Artifacts

\* Every step of a call keeps the type of every variable.
LEMMA TypeStep ==
    ASSUME TypeOK, NEW p \in Publisher, KnowsDirectory(p), KnowsGeneration(p), Step(p)
    PROVE   TypeOK'
<1> USE DEF TypeOK, Running, Unlocked, Locked, Ended, Rejected
<1> faults' = faults  BY DEF Step
<1>1. CASE StatGenerations(p)
  BY <1>1 DEF StatGenerations
<1>2. CASE StatCurrent(p)
  BY <1>2 DEF StatCurrent
<1>3. CASE Preflight(p)
  BY <1>3 DEF Preflight
<1>4. CASE StatLock(p)
  BY <1>4 DEF StatLock
<1>5. CASE CreateInit(p)
  BY <1>5 DEF CreateInit
<1>6. CASE WriteInit(p)
  BY <1>6 DEF WriteInit
<1>7. CASE LinkLock(p)
  BY <1>7 DEF LinkLock
<1>8. CASE OpenLock(p)
  BY <1>8 DEF OpenLock
<1>9. CASE Flock(p)
  BY <1>9, CorpusAssumption DEF Flock
<1>10. CASE VerifyLock(p)
  BY <1>10 DEF VerifyLock
<1>11. CASE \E t \in Publisher : InspectInit(p, t)
  BY <1>11 DEF InspectInit
<1>12. CASE \E t \in Publisher : UnlinkInit(p, t)
  BY <1>12 DEF UnlinkInit
<1>13. CASE LockReady(p)
  BY <1>13 DEF LockReady
<1>14. CASE OpenGenerations(p)
  BY <1>14 DEF OpenGenerations
<1>15. CASE MakeDirStage(p)
  BY <1>15 DEF MakeDirStage
<1>16. CASE MarkDirStage(p)
  BY <1>16 DEF MarkDirStage
<1>17. CASE RenameDirStage(p)
  BY <1>17 DEF RenameDirStage, KnowsDirectory
<1>18. CASE ReadMarker(p)
  BY <1>18 DEF ReadMarker
<1>19. CASE \E s \in Publisher : EmptyStage(p, s)
  BY <1>19 DEF EmptyStage, NoArtifacts, Artifacts
<1>20. CASE \E s \in Publisher : RemoveStage(p, s)
  BY <1>20 DEF RemoveStage
<1>21. CASE ValidateAll(p)
  BY <1>21 DEF ValidateAll
<1>22. CASE ReadCurrent(p)
  BY <1>22 DEF ReadCurrent
<1>23. CASE \E s \in Publisher : SweepDirStage(p, s)
  BY <1>23 DEF SweepDirStage
<1>24. CASE \E s \in Publisher : SweepLink(p, s)
  BY <1>24 DEF SweepLink
<1>25. CASE OutputSwept(p)
  BY <1>25 DEF OutputSwept
<1>26. CASE EnsureGeneration(p)
  BY <1>26 DEF EnsureGeneration, AfterEnsure
<1>27. CASE MakeStage(p)
  BY <1>27 DEF MakeStage
<1>28. CASE WriteCorpus(p)
  <2>1. written' \in [Publisher -> Artifacts]
    <3>1. [written[p] EXCEPT !.corpus = doc[p]] \in Artifacts
      BY ArtifactWritten
    <3>2. written' = [written EXCEPT ![p] = [written[p] EXCEPT !.corpus = doc[p]]]
      BY <1>28 DEF WriteCorpus
    <3> QED
      BY <3>1, <3>2
  <2> QED
    BY <1>28, <2>1 DEF WriteCorpus
<1>29. CASE WriteManifest(p)
  <2>1. written' \in [Publisher -> Artifacts]
    <3>1. [written[p] EXCEPT !.manifest = doc[p]] \in Artifacts
      BY ArtifactWritten
    <3>2. written' = [written EXCEPT ![p] = [written[p] EXCEPT !.manifest = doc[p]]]
      BY <1>29 DEF WriteManifest
    <3> QED
      BY <3>1, <3>2
  <2> QED
    BY <1>29, <2>1 DEF WriteManifest
<1>30. CASE RenameStage(p)
  <2>1. doc[p] \in Doc
    <3>1. pc[p] \notin Before
      BY <1>30 DEF RenameStage, Before
    <3> QED
      BY <3>1 DEF KnowsGeneration
  <2>2. CASE doc[p] \in installed
    BY <1>30, <2>2 DEF RenameStage
  <2>3. CASE doc[p] \notin installed
    <3>1. written[p] \in Artifacts /\ NoArtifacts \in Artifacts
      BY DEF Artifacts, NoArtifacts
    <3>2. /\ written' \in [Publisher -> Artifacts]
          /\ content' \in [Doc -> Artifacts]
          /\ installed' \subseteq Doc
      BY <1>30, <2>1, <2>3, <3>1 DEF RenameStage
    <3> QED
      BY <1>30, <2>3, <3>2 DEF RenameStage
  <2> QED
    BY <2>2, <2>3
<1>31. CASE CheckGeneration(p)
  BY <1>31 DEF CheckGeneration, AfterEnsure
<1>32. CASE MakeLink(p)
  BY <1>32 DEF MakeLink
<1>33. CASE ReplaceCurrent(p)
  BY <1>33 DEF ReplaceCurrent
<1>34. CASE Release(p)
  BY <1>34 DEF Release
<1> QED
  BY <1>1, <1>2, <1>3, <1>4, <1>5, <1>6, <1>7, <1>8, <1>9, <1>10, <1>11, <1>12, <1>13, <1>14, <1>15, <1>16, <1>17, <1>18, <1>19, <1>20, <1>21, <1>22, <1>23, <1>24, <1>25, <1>26, <1>27, <1>28, <1>29, <1>30, <1>31, <1>32, <1>33, <1>34
  DEF Step, Acquire, Open, Publish
----------------------------------------------------------------------------
(* The lock.                                                               *)

LEMMA LockStep ==
    ASSUME TypeOK, LockInv, NEW p \in Publisher, Step(p) PROVE LockInv'
<1> USE DEF TypeOK, LockInv, Before, Running, Unlocked, Locked, Ended, Rejected, Acquiring
<1>1. CASE StatGenerations(p)
  BY <1>1 DEF StatGenerations
<1>2. CASE StatCurrent(p)
  BY <1>2 DEF StatCurrent
<1>3. CASE Preflight(p)
  BY <1>3 DEF Preflight
<1>4. CASE StatLock(p)
  BY <1>4 DEF StatLock
<1>5. CASE CreateInit(p)
  BY <1>5 DEF CreateInit
<1>6. CASE WriteInit(p)
  BY <1>6 DEF WriteInit
<1>7. CASE LinkLock(p)
  BY <1>7 DEF LinkLock
<1>8. CASE OpenLock(p)
  BY <1>8 DEF OpenLock
<1>9. CASE Flock(p)
  BY <1>9, CorpusAssumption DEF Flock
<1>10. CASE VerifyLock(p)
  BY <1>10 DEF VerifyLock
<1>11. CASE \E t \in Publisher : InspectInit(p, t)
  BY <1>11 DEF InspectInit
<1>12. CASE \E t \in Publisher : UnlinkInit(p, t)
  BY <1>12 DEF UnlinkInit
<1>13. CASE LockReady(p)
  BY <1>13 DEF LockReady
<1>14. CASE OpenGenerations(p)
  BY <1>14 DEF OpenGenerations
<1>15. CASE MakeDirStage(p)
  BY <1>15 DEF MakeDirStage
<1>16. CASE MarkDirStage(p)
  BY <1>16 DEF MarkDirStage
<1>17. CASE RenameDirStage(p)
  BY <1>17 DEF RenameDirStage
<1>18. CASE ReadMarker(p)
  BY <1>18 DEF ReadMarker
<1>19. CASE \E s \in Publisher : EmptyStage(p, s)
  BY <1>19 DEF EmptyStage
<1>20. CASE \E s \in Publisher : RemoveStage(p, s)
  BY <1>20 DEF RemoveStage
<1>21. CASE ValidateAll(p)
  BY <1>21 DEF ValidateAll
<1>22. CASE ReadCurrent(p)
  BY <1>22 DEF ReadCurrent
<1>23. CASE \E s \in Publisher : SweepDirStage(p, s)
  BY <1>23 DEF SweepDirStage
<1>24. CASE \E s \in Publisher : SweepLink(p, s)
  BY <1>24 DEF SweepLink
<1>25. CASE OutputSwept(p)
  BY <1>25 DEF OutputSwept
<1>26. CASE EnsureGeneration(p)
  BY <1>26 DEF EnsureGeneration, AfterEnsure
<1>27. CASE MakeStage(p)
  BY <1>27 DEF MakeStage
<1>28. CASE WriteCorpus(p)
  BY <1>28 DEF WriteCorpus
<1>29. CASE WriteManifest(p)
  BY <1>29 DEF WriteManifest
<1>30. CASE RenameStage(p)
  BY <1>30 DEF RenameStage
<1>31. CASE CheckGeneration(p)
  BY <1>31 DEF CheckGeneration, AfterEnsure
<1>32. CASE MakeLink(p)
  BY <1>32 DEF MakeLink
<1>33. CASE ReplaceCurrent(p)
  BY <1>33 DEF ReplaceCurrent
<1>34. CASE Release(p)
  BY <1>34 DEF Release
<1> QED
  BY <1>1, <1>2, <1>3, <1>4, <1>5, <1>6, <1>7, <1>8, <1>9, <1>10, <1>11, <1>12, <1>13, <1>14, <1>15, <1>16, <1>17, <1>18, <1>19, <1>20, <1>21, <1>22, <1>23, <1>24, <1>25, <1>26, <1>27, <1>28, <1>29, <1>30, <1>31, <1>32, <1>33, <1>34
  DEF Step, Acquire, Open, Publish

\* Only their creator and the one holder of the lock touch initializers.
LEMMA InitStep ==
    ASSUME TypeOK, LockInv, InitInv, NEW p \in Publisher, Step(p) PROVE InitInv'
<1>0. \A q \in Publisher : pc[p] \in Locked /\ pc[q] \in Locked => p = q
  BY DEF LockInv
<1>35. pc[p] \in Locked => lock # NoPub
  BY DEF LockInv
<1> USE DEF TypeOK, InitInv
<1>1. CASE StatGenerations(p)
  BY <1>1 DEF StatGenerations
<1>2. CASE StatCurrent(p)
  BY <1>2 DEF StatCurrent
<1>3. CASE Preflight(p)
  BY <1>3 DEF Preflight
<1>4. CASE StatLock(p)
  BY <1>4 DEF StatLock
<1>5. CASE CreateInit(p)
  BY <1>5 DEF CreateInit
<1>6. CASE WriteInit(p)
  BY <1>6 DEF WriteInit
<1>7. CASE LinkLock(p)
  BY <1>7 DEF LinkLock
<1>8. CASE OpenLock(p)
  BY <1>8 DEF OpenLock
<1>9. CASE Flock(p)
  BY <1>9, CorpusAssumption DEF Flock
<1>10. CASE VerifyLock(p)
  BY <1>0, <1>10 DEF VerifyLock
<1>11. CASE \E t \in Publisher : InspectInit(p, t)
  BY <1>11 DEF InspectInit
<1>12. CASE \E t \in Publisher : UnlinkInit(p, t)
  BY <1>0, <1>35, <1>12 DEF UnlinkInit, Locked
<1>13. CASE LockReady(p)
  BY <1>13 DEF LockReady
<1>14. CASE OpenGenerations(p)
  BY <1>14 DEF OpenGenerations
<1>15. CASE MakeDirStage(p)
  BY <1>15 DEF MakeDirStage
<1>16. CASE MarkDirStage(p)
  BY <1>16 DEF MarkDirStage
<1>17. CASE RenameDirStage(p)
  BY <1>17 DEF RenameDirStage
<1>18. CASE ReadMarker(p)
  BY <1>18 DEF ReadMarker
<1>19. CASE \E s \in Publisher : EmptyStage(p, s)
  BY <1>19 DEF EmptyStage
<1>20. CASE \E s \in Publisher : RemoveStage(p, s)
  BY <1>20 DEF RemoveStage
<1>21. CASE ValidateAll(p)
  BY <1>21 DEF ValidateAll
<1>22. CASE ReadCurrent(p)
  BY <1>22 DEF ReadCurrent
<1>23. CASE \E s \in Publisher : SweepDirStage(p, s)
  BY <1>23 DEF SweepDirStage
<1>24. CASE \E s \in Publisher : SweepLink(p, s)
  BY <1>24 DEF SweepLink
<1>25. CASE OutputSwept(p)
  BY <1>25 DEF OutputSwept
<1>26. CASE EnsureGeneration(p)
  BY <1>26 DEF EnsureGeneration, AfterEnsure
<1>27. CASE MakeStage(p)
  BY <1>27 DEF MakeStage
<1>28. CASE WriteCorpus(p)
  BY <1>28 DEF WriteCorpus
<1>29. CASE WriteManifest(p)
  BY <1>29 DEF WriteManifest
<1>30. CASE RenameStage(p)
  BY <1>30 DEF RenameStage
<1>31. CASE CheckGeneration(p)
  BY <1>31 DEF CheckGeneration, AfterEnsure
<1>32. CASE MakeLink(p)
  BY <1>32 DEF MakeLink
<1>33. CASE ReplaceCurrent(p)
  BY <1>33 DEF ReplaceCurrent
<1>34. CASE Release(p)
  BY <1>34 DEF Release
<1> QED
  BY <1>1, <1>2, <1>3, <1>4, <1>5, <1>6, <1>7, <1>8, <1>9, <1>10, <1>11, <1>12, <1>13, <1>14, <1>15, <1>16, <1>17, <1>18, <1>19, <1>20, <1>21, <1>22, <1>23, <1>24, <1>25, <1>26, <1>27, <1>28, <1>29, <1>30, <1>31, <1>32, <1>33, <1>34
  DEF Step, Acquire, Open, Publish
----------------------------------------------------------------------------
(* The store.                                                              *)

LEMMA Exclusion == LockInv => MutualExclusion
  BY DEF LockInv, MutualExclusion

LEMMA StoreStep ==
    ASSUME TypeOK, LockInv, StoreInv, ProcInv, NEW p \in Publisher, Step(p) PROVE StoreInv'
<1> /\ KnowsDirectory(p)
    /\ KnowsGeneration(p)
  BY DEF ProcInv
<1> USE DEF TypeOK, StoreInv
<1>1. CASE StatGenerations(p)
  BY <1>1 DEF StatGenerations
<1>2. CASE StatCurrent(p)
  BY <1>2 DEF StatCurrent
<1>3. CASE Preflight(p)
  BY <1>3 DEF Preflight
<1>4. CASE StatLock(p)
  BY <1>4 DEF StatLock
<1>5. CASE CreateInit(p)
  BY <1>5 DEF CreateInit
<1>6. CASE WriteInit(p)
  BY <1>6 DEF WriteInit
<1>7. CASE LinkLock(p)
  BY <1>7 DEF LinkLock
<1>8. CASE OpenLock(p)
  BY <1>8 DEF OpenLock
<1>9. CASE Flock(p)
  BY <1>9 DEF Flock
<1>10. CASE VerifyLock(p)
  BY <1>10 DEF VerifyLock
<1>11. CASE \E t \in Publisher : InspectInit(p, t)
  BY <1>11 DEF InspectInit
<1>12. CASE \E t \in Publisher : UnlinkInit(p, t)
  BY <1>12 DEF UnlinkInit
<1>13. CASE LockReady(p)
  BY <1>13 DEF LockReady
<1>14. CASE OpenGenerations(p)
  BY <1>14 DEF OpenGenerations
<1>15. CASE MakeDirStage(p)
  BY <1>15 DEF MakeDirStage
<1>16. CASE MarkDirStage(p)
  BY <1>16 DEF MarkDirStage
<1>17. CASE RenameDirStage(p)
  BY <1>17 DEF RenameDirStage, KnowsDirectory
<1>18. CASE ReadMarker(p)
  BY <1>18 DEF ReadMarker
<1>19. CASE \E s \in Publisher : EmptyStage(p, s)
  BY <1>19 DEF EmptyStage
<1>20. CASE \E s \in Publisher : RemoveStage(p, s)
  BY <1>20 DEF RemoveStage
<1>21. CASE ValidateAll(p)
  BY <1>21 DEF ValidateAll
<1>22. CASE ReadCurrent(p)
  BY <1>22 DEF ReadCurrent
<1>23. CASE \E s \in Publisher : SweepDirStage(p, s)
  BY <1>23 DEF SweepDirStage
<1>24. CASE \E s \in Publisher : SweepLink(p, s)
  BY <1>24 DEF SweepLink
<1>25. CASE OutputSwept(p)
  BY <1>25 DEF OutputSwept
<1>26. CASE EnsureGeneration(p)
  BY <1>26 DEF EnsureGeneration
<1>27. CASE MakeStage(p)
  BY <1>27 DEF MakeStage
<1>28. CASE WriteCorpus(p)
  BY <1>28 DEF WriteCorpus
<1>29. CASE WriteManifest(p)
  BY <1>29 DEF WriteManifest
<1>30. CASE RenameStage(p)
  <2>1. /\ pc[p] = "renameStage"
        /\ pc[p] \in Opened
        /\ pc[p] \notin Before
    BY <1>30 DEF RenameStage, Opened, Staging, Before
  <2>2. /\ doc[p] \in Doc
        /\ written[p] = [corpus |-> doc[p], manifest |-> doc[p]]
        /\ generations = "owned"
    BY <2>1 DEF KnowsGeneration, KnowsDirectory
  <2>3. CASE doc[p] \in installed
    BY <1>30, <2>3 DEF RenameStage
  <2>4. CASE doc[p] \notin installed
    BY <1>30, <2>2, <2>4 DEF RenameStage
  <2> QED
    BY <2>3, <2>4
<1>31. CASE CheckGeneration(p)
  BY <1>31 DEF CheckGeneration
<1>32. CASE MakeLink(p)
  BY <1>32 DEF MakeLink, KnowsGeneration, Selecting
<1>33. CASE ReplaceCurrent(p)
  BY <1>33 DEF ReplaceCurrent, KnowsGeneration, Selecting
<1>34. CASE Release(p)
  BY <1>34 DEF Release
<1> QED
  BY <1>1, <1>2, <1>3, <1>4, <1>5, <1>6, <1>7, <1>8, <1>9, <1>10, <1>11, <1>12, <1>13, <1>14, <1>15, <1>16, <1>17, <1>18, <1>19, <1>20, <1>21, <1>22, <1>23, <1>24, <1>25, <1>26, <1>27, <1>28, <1>29, <1>30, <1>31, <1>32, <1>33, <1>34
  DEF Step, Acquire, Open, Publish

LEMMA DirectoryStep ==
    ASSUME TypeOK, LockInv, StoreInv, ProcInv, NEW p \in Publisher, Step(p), NEW q \in Publisher
    PROVE  KnowsDirectory(q)'
<1> /\ KnowsDirectory(p)
    /\ KnowsDirectory(q)
  BY DEF ProcInv
<1> pc[p] \in Locked /\ pc[q] \in Locked => p = q
  BY Exclusion DEF MutualExclusion
<1> USE DEF TypeOK, KnowsDirectory, Locked, Opened, Staging, Selecting
<1>1. CASE StatGenerations(p)
  BY <1>1 DEF StatGenerations, StoreInv
<1>2. CASE StatCurrent(p)
  BY <1>2 DEF StatCurrent
<1>3. CASE Preflight(p)
  BY <1>3 DEF Preflight
<1>4. CASE StatLock(p)
  BY <1>4 DEF StatLock
<1>5. CASE CreateInit(p)
  BY <1>5 DEF CreateInit, LockInv, Acquiring, Before
<1>6. CASE WriteInit(p)
  BY <1>6 DEF WriteInit
<1>7. CASE LinkLock(p)
  BY <1>7 DEF LinkLock, LockInv, Acquiring
<1>8. CASE OpenLock(p)
  BY <1>8 DEF OpenLock
<1>9. CASE Flock(p)
  BY <1>9 DEF Flock
<1>10. CASE VerifyLock(p)
  BY <1>10 DEF VerifyLock
<1>11. CASE \E t \in Publisher : InspectInit(p, t)
  BY <1>11 DEF InspectInit
<1>12. CASE \E t \in Publisher : UnlinkInit(p, t)
  BY <1>12 DEF UnlinkInit
<1>13. CASE LockReady(p)
  BY <1>13 DEF LockReady
<1>14. CASE OpenGenerations(p)
  BY <1>14 DEF OpenGenerations, StoreInv
<1>15. CASE MakeDirStage(p)
  BY <1>15 DEF MakeDirStage
<1>16. CASE MarkDirStage(p)
  BY <1>16 DEF MarkDirStage
<1>17. CASE RenameDirStage(p)
  BY <1>17 DEF RenameDirStage
<1>18. CASE ReadMarker(p)
  BY <1>18 DEF ReadMarker
<1>19. CASE \E s \in Publisher : EmptyStage(p, s)
  BY <1>19 DEF EmptyStage
<1>20. CASE \E s \in Publisher : RemoveStage(p, s)
  BY <1>20 DEF RemoveStage
<1>21. CASE ValidateAll(p)
  BY <1>21 DEF ValidateAll
<1>22. CASE ReadCurrent(p)
  BY <1>22 DEF ReadCurrent
<1>23. CASE \E s \in Publisher : SweepDirStage(p, s)
  BY <1>23 DEF SweepDirStage
<1>24. CASE \E s \in Publisher : SweepLink(p, s)
  BY <1>24 DEF SweepLink
<1>25. CASE OutputSwept(p)
  BY <1>25 DEF OutputSwept
<1>26. CASE EnsureGeneration(p)
  BY <1>26 DEF EnsureGeneration, AfterEnsure
<1>27. CASE MakeStage(p)
  BY <1>27 DEF MakeStage
<1>28. CASE WriteCorpus(p)
  BY <1>28 DEF WriteCorpus
<1>29. CASE WriteManifest(p)
  BY <1>29 DEF WriteManifest
<1>30. CASE RenameStage(p)
  BY <1>30 DEF RenameStage
<1>31. CASE CheckGeneration(p)
  BY <1>31 DEF CheckGeneration, AfterEnsure
<1>32. CASE MakeLink(p)
  BY <1>32 DEF MakeLink
<1>33. CASE ReplaceCurrent(p)
  <2>1. links[p] # NoDoc
    BY <1>33, CorpusAssumption DEF ReplaceCurrent, ProcInv, KnowsGeneration, Before
  <2> QED
    BY <1>33, <2>1 DEF ReplaceCurrent
<1>34. CASE Release(p)
  BY <1>34 DEF Release
<1> QED
  BY <1>1, <1>2, <1>3, <1>4, <1>5, <1>6, <1>7, <1>8, <1>9, <1>10, <1>11, <1>12, <1>13, <1>14, <1>15, <1>16, <1>17, <1>18, <1>19, <1>20, <1>21, <1>22, <1>23, <1>24, <1>25, <1>26, <1>27, <1>28, <1>29, <1>30, <1>31, <1>32, <1>33, <1>34
  DEF Step, Acquire, Open, Publish

LEMMA GenerationStep ==
    ASSUME TypeOK, LockInv, StoreInv, ProcInv, NEW p \in Publisher, Step(p), NEW q \in Publisher
    PROVE  KnowsGeneration(q)'
<1> /\ KnowsGeneration(p)
    /\ KnowsGeneration(q)
  BY DEF ProcInv
<1> pc[p] \in Locked /\ pc[q] \in Locked => p = q
  BY Exclusion DEF MutualExclusion
<1> USE DEF TypeOK, KnowsGeneration, Before, Acquiring, Unstaged, Locked, Opening, Staging, Selecting
<1>1. CASE StatGenerations(p)
  BY <1>1 DEF StatGenerations
<1>2. CASE StatCurrent(p)
  BY <1>2 DEF StatCurrent
<1>3. CASE Preflight(p)
  BY <1>3 DEF Preflight
<1>4. CASE StatLock(p)
  BY <1>4 DEF StatLock
<1>5. CASE CreateInit(p)
  BY <1>5 DEF CreateInit
<1>6. CASE WriteInit(p)
  BY <1>6 DEF WriteInit
<1>7. CASE LinkLock(p)
  BY <1>7 DEF LinkLock
<1>8. CASE OpenLock(p)
  BY <1>8 DEF OpenLock
<1>9. CASE Flock(p)
  BY <1>9 DEF Flock
<1>10. CASE VerifyLock(p)
  BY <1>10 DEF VerifyLock
<1>11. CASE \E t \in Publisher : InspectInit(p, t)
  BY <1>11 DEF InspectInit
<1>12. CASE \E t \in Publisher : UnlinkInit(p, t)
  BY <1>12 DEF UnlinkInit
<1>13. CASE LockReady(p)
  BY <1>13 DEF LockReady
<1>14. CASE OpenGenerations(p)
  BY <1>14 DEF OpenGenerations
<1>15. CASE MakeDirStage(p)
  BY <1>15 DEF MakeDirStage
<1>16. CASE MarkDirStage(p)
  BY <1>16 DEF MarkDirStage
<1>17. CASE RenameDirStage(p)
  BY <1>17 DEF RenameDirStage
<1>18. CASE ReadMarker(p)
  BY <1>18 DEF ReadMarker
<1>19. CASE \E s \in Publisher : EmptyStage(p, s)
  BY <1>19 DEF EmptyStage
<1>20. CASE \E s \in Publisher : RemoveStage(p, s)
  BY <1>20 DEF RemoveStage
<1>21. CASE ValidateAll(p)
  BY <1>21 DEF ValidateAll
<1>22. CASE ReadCurrent(p)
  BY <1>22 DEF ReadCurrent
<1>23. CASE \E s \in Publisher : SweepDirStage(p, s)
  BY <1>23 DEF SweepDirStage
<1>24. CASE \E s \in Publisher : SweepLink(p, s)
  BY <1>24 DEF SweepLink
<1>25. CASE OutputSwept(p)
  BY <1>25 DEF OutputSwept
<1>26. CASE EnsureGeneration(p)
  BY <1>26 DEF EnsureGeneration, AfterEnsure, Coherent
<1>27. CASE MakeStage(p)
  BY <1>27 DEF MakeStage
<1>28. CASE WriteCorpus(p)
  <2>1. written[p] = [corpus |-> NoDoc, manifest |-> NoDoc]
    BY <1>28 DEF WriteCorpus, NoArtifacts
  <2>2. [written[p] EXCEPT !.corpus = doc[p]] = [corpus |-> doc[p], manifest |-> NoDoc]
    BY <2>1
  <2>3. written' = [written EXCEPT ![p] = [written[p] EXCEPT !.corpus = doc[p]]]
    BY <1>28 DEF WriteCorpus
  <2>4. written'[p] = [corpus |-> doc[p], manifest |-> NoDoc]
    BY <2>2, <2>3
  <2> QED
    BY <1>28, <2>4 DEF WriteCorpus
<1>29. CASE WriteManifest(p)
  BY <1>29 DEF WriteManifest
<1>30. CASE RenameStage(p)
  BY <1>30 DEF RenameStage
<1>31. CASE CheckGeneration(p)
  BY <1>31 DEF CheckGeneration, AfterEnsure
<1>32. CASE MakeLink(p)
  BY <1>32 DEF MakeLink
<1>33. CASE ReplaceCurrent(p)
  <2>1. links[p] = doc[p] /\ doc[p] \in Doc
    BY <1>33 DEF ReplaceCurrent
  <2>2. doc[p] # NoDoc
    BY <2>1, CorpusAssumption
  <2> QED
    BY <1>33, <2>1, <2>2 DEF ReplaceCurrent
<1>34. CASE Release(p)
  <2>1. current = doc[p] /\ doc[p] \in Doc
    BY <1>34 DEF Release
  <2>2. current # NoDoc
    BY <2>1, CorpusAssumption
  <2> QED
    BY <1>34, <2>2 DEF Release
<1> QED
  BY <1>1, <1>2, <1>3, <1>4, <1>5, <1>6, <1>7, <1>8, <1>9, <1>10, <1>11, <1>12, <1>13, <1>14, <1>15, <1>16, <1>17, <1>18, <1>19, <1>20, <1>21, <1>22, <1>23, <1>24, <1>25, <1>26, <1>27, <1>28, <1>29, <1>30, <1>31, <1>32, <1>33, <1>34
  DEF Step, Acquire, Open, Publish

LEMMA StagingStep ==
    ASSUME TypeOK, LockInv, StoreInv, ProcInv, NEW p \in Publisher, Step(p), NEW q \in Publisher
    PROVE  KnowsStaging(q)'
<1> /\ KnowsStaging(p)
    /\ KnowsStaging(q)
  BY DEF ProcInv
<1> pc[p] \in Locked /\ pc[q] \in Locked => p = q
  BY Exclusion DEF MutualExclusion
<1> USE DEF TypeOK, KnowsStaging, Locked, Swept, Tidy, Staging, Selecting
<1>1. CASE StatGenerations(p)
  BY <1>1 DEF StatGenerations
<1>2. CASE StatCurrent(p)
  BY <1>2 DEF StatCurrent
<1>3. CASE Preflight(p)
  BY <1>3 DEF Preflight
<1>4. CASE StatLock(p)
  BY <1>4 DEF StatLock
<1>5. CASE CreateInit(p)
  BY <1>5 DEF CreateInit
<1>6. CASE WriteInit(p)
  BY <1>6 DEF WriteInit
<1>7. CASE LinkLock(p)
  BY <1>7 DEF LinkLock
<1>8. CASE OpenLock(p)
  BY <1>8 DEF OpenLock
<1>9. CASE Flock(p)
  BY <1>9 DEF Flock
<1>10. CASE VerifyLock(p)
  BY <1>10 DEF VerifyLock
<1>11. CASE \E t \in Publisher : InspectInit(p, t)
  BY <1>11 DEF InspectInit
<1>12. CASE \E t \in Publisher : UnlinkInit(p, t)
  BY <1>12 DEF UnlinkInit
<1>13. CASE LockReady(p)
  BY <1>13 DEF LockReady
<1>14. CASE OpenGenerations(p)
  BY <1>14 DEF OpenGenerations
<1>15. CASE MakeDirStage(p)
  BY <1>15 DEF MakeDirStage
<1>16. CASE MarkDirStage(p)
  BY <1>16 DEF MarkDirStage
<1>17. CASE RenameDirStage(p)
  BY <1>17 DEF RenameDirStage
<1>18. CASE ReadMarker(p)
  BY <1>18 DEF ReadMarker
<1>19. CASE \E s \in Publisher : EmptyStage(p, s)
  BY <1>19 DEF EmptyStage
<1>20. CASE \E s \in Publisher : RemoveStage(p, s)
  BY <1>20 DEF RemoveStage
<1>21. CASE ValidateAll(p)
  BY <1>21 DEF ValidateAll
<1>22. CASE ReadCurrent(p)
  BY <1>22 DEF ReadCurrent
<1>23. CASE \E s \in Publisher : SweepDirStage(p, s)
  BY <1>23 DEF SweepDirStage
<1>24. CASE \E s \in Publisher : SweepLink(p, s)
  BY <1>24 DEF SweepLink
<1>25. CASE OutputSwept(p)
  BY <1>25 DEF OutputSwept
<1>26. CASE EnsureGeneration(p)
  BY <1>26 DEF EnsureGeneration, AfterEnsure
<1>27. CASE MakeStage(p)
  BY <1>27 DEF MakeStage
<1>28. CASE WriteCorpus(p)
  BY <1>28 DEF WriteCorpus
<1>29. CASE WriteManifest(p)
  BY <1>29 DEF WriteManifest
<1>30. CASE RenameStage(p)
  BY <1>30 DEF RenameStage
<1>31. CASE CheckGeneration(p)
  BY <1>31 DEF CheckGeneration, AfterEnsure
<1>32. CASE MakeLink(p)
  BY <1>32 DEF MakeLink
<1>33. CASE ReplaceCurrent(p)
  BY <1>33 DEF ReplaceCurrent
<1>34. CASE Release(p)
  BY <1>34 DEF Release
<1> QED
  BY <1>1, <1>2, <1>3, <1>4, <1>5, <1>6, <1>7, <1>8, <1>9, <1>10, <1>11, <1>12, <1>13, <1>14, <1>15, <1>16, <1>17, <1>18, <1>19, <1>20, <1>21, <1>22, <1>23, <1>24, <1>25, <1>26, <1>27, <1>28, <1>29, <1>30, <1>31, <1>32, <1>33, <1>34
  DEF Step, Acquire, Open, Publish

LEMMA DamageStep ==
    ASSUME TypeOK, LockInv, StoreInv, ProcInv, NothingDamaged, NEW p \in Publisher, Step(p)
    PROVE  NothingDamaged'
<1> KnowsDirectory(p) /\ KnowsGeneration(p)
  BY DEF ProcInv
<1> USE DEF TypeOK, NothingDamaged
<1>1. CASE StatGenerations(p)
  BY <1>1 DEF StatGenerations
<1>2. CASE StatCurrent(p)
  BY <1>2 DEF StatCurrent
<1>3. CASE Preflight(p)
  BY <1>3 DEF Preflight, StoreInv, Coherent, KnowsDirectory
<1>4. CASE StatLock(p)
  BY <1>4 DEF StatLock
<1>5. CASE CreateInit(p)
  BY <1>5 DEF CreateInit
<1>6. CASE WriteInit(p)
  BY <1>6 DEF WriteInit
<1>7. CASE LinkLock(p)
  BY <1>7 DEF LinkLock
<1>8. CASE OpenLock(p)
  BY <1>8 DEF OpenLock, LockInv
<1>9. CASE Flock(p)
  BY <1>9 DEF Flock
<1>10. CASE VerifyLock(p)
  BY <1>10 DEF VerifyLock, LockInv, Locked
<1>11. CASE \E t \in Publisher : InspectInit(p, t)
  BY <1>11 DEF InspectInit
<1>12. CASE \E t \in Publisher : UnlinkInit(p, t)
  BY <1>12 DEF UnlinkInit
<1>13. CASE LockReady(p)
  BY <1>13 DEF LockReady, KnowsDirectory, LockInv, Locked
<1>14. CASE OpenGenerations(p)
  BY <1>14 DEF OpenGenerations
<1>15. CASE MakeDirStage(p)
  BY <1>15 DEF MakeDirStage
<1>16. CASE MarkDirStage(p)
  BY <1>16 DEF MarkDirStage
<1>17. CASE RenameDirStage(p)
  BY <1>17 DEF RenameDirStage
<1>18. CASE ReadMarker(p)
  BY <1>18 DEF ReadMarker, KnowsDirectory, Opened
<1>19. CASE \E s \in Publisher : EmptyStage(p, s)
  BY <1>19 DEF EmptyStage
<1>20. CASE \E s \in Publisher : RemoveStage(p, s)
  BY <1>20 DEF RemoveStage
<1>21. CASE ValidateAll(p)
  BY <1>21 DEF ValidateAll, StoreInv, Coherent
<1>22. CASE ReadCurrent(p)
  BY <1>22 DEF ReadCurrent, StoreInv, Coherent
<1>23. CASE \E s \in Publisher : SweepDirStage(p, s)
  BY <1>23 DEF SweepDirStage
<1>24. CASE \E s \in Publisher : SweepLink(p, s)
  BY <1>24 DEF SweepLink, StoreInv, Coherent
<1>25. CASE OutputSwept(p)
  BY <1>25 DEF OutputSwept
<1>26. CASE EnsureGeneration(p)
  BY <1>26 DEF EnsureGeneration, AfterEnsure, StoreInv, Coherent
<1>27. CASE MakeStage(p)
  BY <1>27 DEF MakeStage
<1>28. CASE WriteCorpus(p)
  BY <1>28 DEF WriteCorpus
<1>29. CASE WriteManifest(p)
  BY <1>29 DEF WriteManifest
<1>30. CASE RenameStage(p)
  BY <1>30 DEF RenameStage
<1>31. CASE CheckGeneration(p)
  BY <1>31 DEF CheckGeneration, AfterEnsure, StoreInv, Coherent, KnowsGeneration
<1>32. CASE MakeLink(p)
  BY <1>32 DEF MakeLink
<1>33. CASE ReplaceCurrent(p)
  BY <1>33 DEF ReplaceCurrent
<1>34. CASE Release(p)
  BY <1>34 DEF Release
<1> QED
  BY <1>1, <1>2, <1>3, <1>4, <1>5, <1>6, <1>7, <1>8, <1>9, <1>10, <1>11, <1>12, <1>13, <1>14, <1>15, <1>16, <1>17, <1>18, <1>19, <1>20, <1>21, <1>22, <1>23, <1>24, <1>25, <1>26, <1>27, <1>28, <1>29, <1>30, <1>31, <1>32, <1>33, <1>34
  DEF Step, Acquire, Open, Publish

----------------------------------------------------------------------------
(* The invariant.                                                          *)

LEMMA InvInit == Init => IInv
<1> SUFFICES ASSUME Init PROVE IInv
  OBVIOUS
<1>1. TypeOK
  BY TypeInit
<1>2. LockInv
  BY CorpusAssumption DEF Init, LockInv, Locked, Acquiring
<1>3. StoreInv
  BY DEF Init, StoreInv
<1>4. ProcInv
  BY DEF Init, ProcInv, KnowsDirectory, KnowsGeneration, KnowsStaging, Before, Acquiring, Opening,
         Staging, Selecting, Opened, Swept, Tidy, Unstaged
<1>5. NothingDamaged
  BY DEF Init, NothingDamaged
<1>6. InitInv
  BY DEF Init, InitInv
<1> QED
  BY <1>1, <1>2, <1>3, <1>4, <1>5, <1>6 DEF IInv

\* A call that begins, fails or crashes changes nothing another relies on.
LEMMA InvOutside ==
    ASSUME IInv, NEW p \in Publisher,
           (\E d \in Doc : Start(p, d)) \/ IOError(p) \/ Crash(p)
    PROVE  IInv'
<1> USE DEF IInv
<1>1. CASE \E d \in Doc : Start(p, d)
  <2>1. TypeOK'
    BY <1>1 DEF Start, TypeOK, Running, Unlocked
  <2>2. LockInv'
    BY <1>1 DEF Start, TypeOK, LockInv, Locked, Acquiring, Before
  <2>3. StoreInv'
    BY <1>1 DEF Start, StoreInv
  <2>4. ProcInv'
    BY <1>1 DEF Start, TypeOK, ProcInv, KnowsDirectory, KnowsGeneration, KnowsStaging, Before,
                Acquiring, Opening, Staging, Selecting, Opened, Swept, Tidy, Unstaged
  <2>5. NothingDamaged'
    BY <1>1 DEF Start, TypeOK, NothingDamaged
  <2>6. InitInv'
    BY <1>1 DEF Start, TypeOK, InitInv
  <2> QED
    BY <2>1, <2>2, <2>3, <2>4, <2>5, <2>6
<1>2. CASE IOError(p) \/ Crash(p)
  <2>1. TypeOK'
    BY <1>2, CorpusAssumption DEF IOError, Crash, TypeOK, Ended
  <2>2. LockInv'
    BY <1>2 DEF IOError, Crash, TypeOK, LockInv, Locked, Acquiring, Before
  <2>3. StoreInv'
    BY <1>2 DEF IOError, Crash, TypeOK, StoreInv
  <2>4. ProcInv'
    <3>1. ASSUME NEW q \in Publisher
          PROVE  KnowsDirectory(q)' /\ KnowsGeneration(q)' /\ KnowsStaging(q)'
      <4>1. KnowsDirectory(q) /\ KnowsGeneration(q) /\ KnowsStaging(q)
        BY DEF ProcInv
      <4> USE <1>2 DEF IOError, Crash, TypeOK, Before
      <4>2. KnowsDirectory(q)'
        BY <4>1 DEF KnowsDirectory, Opened, Staging, Selecting
      <4>3. KnowsGeneration(q)'
        <5>1. CASE q = p
          <6>1. pc[p] \notin Before /\ pc'[p] \in {"ioError", "crashed"} /\ UNCHANGED doc
            BY DEF Running, Unlocked, Locked
          <6>2. doc'[p] \in Doc
            BY <4>1, <5>1, <6>1 DEF KnowsGeneration
          <6> QED
            BY <5>1, <6>1, <6>2
               DEF KnowsGeneration, Acquiring, Opening, Staging, Selecting, Unstaged
        <5>2. CASE q # p
          <6>1. pc'[q] = pc[q] /\ links'[q] = links[q]
            BY <5>2
          <6>2. UNCHANGED <<doc, written, installed, current, previous>>
            OBVIOUS
          <6> QED
            BY <4>1, <6>1, <6>2 DEF KnowsGeneration
        <5> QED
          BY <5>1, <5>2
      <4>4. KnowsStaging(q)'
        BY <4>1 DEF KnowsStaging, Swept, Tidy, Staging, Selecting
      <4> QED
        BY <4>2, <4>3, <4>4
    <3> QED
      BY <3>1 DEF ProcInv
  <2>5. NothingDamaged'
    BY <1>2 DEF IOError, Crash, TypeOK, NothingDamaged
  <2>6. InitInv'
    BY <1>2 DEF IOError, Crash, TypeOK, InitInv
  <2> QED
    BY <2>1, <2>2, <2>3, <2>4, <2>5, <2>6
<1> QED
  BY <1>1, <1>2

LEMMA InvNext == IInv /\ [Next]_vars => IInv'
<1> SUFFICES ASSUME IInv, [Next]_vars PROVE IInv'
  OBVIOUS
<1>1. ASSUME NEW p \in Publisher, Step(p) PROVE IInv'
  <2> USE DEF IInv
  <2>1. KnowsDirectory(p) /\ KnowsGeneration(p)
    BY DEF ProcInv
  <2>2. TypeOK'
    BY <1>1, <2>1, TypeStep
  <2>3. LockInv'
    BY <1>1, LockStep
  <2>4. StoreInv'
    BY <1>1, StoreStep
  <2>5. ProcInv'
    BY <1>1, DirectoryStep, GenerationStep, StagingStep DEF ProcInv
  <2>6. NothingDamaged'
    BY <1>1, DamageStep
  <2>7. InitInv'
    BY <1>1, InitStep
  <2> QED
    BY <2>2, <2>3, <2>4, <2>5, <2>6, <2>7
<1>2. CASE UNCHANGED vars
  BY <1>2 DEF vars, IInv, TypeOK, LockInv, InitInv, StoreInv, ProcInv, KnowsDirectory, KnowsGeneration,
              KnowsStaging, NothingDamaged
<1> QED
  BY <1>1, <1>2, InvOutside DEF Next, Finished

\* The inductive invariant holds in every reachable state.
THEOREM Invariance == Spec => []IInv
  BY InvInit, InvNext, PTL DEF Spec

\* Every variable keeps its type.
THEOREM TypeCorrect == Spec => []TypeOK
  BY Invariance, PTL DEF IInv

\* Two publishers are never both inside the output lock.
THEOREM LockExcludes == Spec => []MutualExclusion
<1>1. IInv => MutualExclusion
  BY Exclusion DEF IInv
<1> QED
  BY <1>1, Invariance, PTL

\* The selector always names a complete generation in an owned directory.
THEOREM SelectorSafe == Spec => []CurrentIsCoherent
<1>1. IInv => CurrentIsCoherent
  BY DEF IInv, StoreInv, CurrentIsCoherent, Coherent
<1> QED
  BY <1>1, Invariance, PTL

\* Which step refuses a call, and what of the others it then has met.
LEMMA RefusalStep ==
    ASSUME IInv, NothingDamaged', NEW p \in Publisher, Step(p),
           pc[p] \notin Rejected, pc'[p] \in Rejected
    PROVE  \/ /\ pc'[p] = "initInvalid"
              /\ \E t \in initNames \ initMarked :
                    t # p /\ pc[t] \in {"writeInit", "ioError", "crashed"}
           \/ pc'[p] = "initRaced" /\ lock \notin {NoPub, p}
           \/ pc'[p] = "orphanSelector" /\ generations = "owned" /\ Coherent(current)
<1> USE DEF IInv
<1>1. pc'[p] \in {"orphanSelector", "initRaced", "initInvalid"}
  BY DEF NothingDamaged, Rejected
<1>2. CASE StatCurrent(p)
  BY <1>1, <1>2 DEF StatCurrent, TypeOK, StoreInv, Coherent
<1>3. CASE LinkLock(p)
  BY <1>1, <1>3 DEF LinkLock, TypeOK, LockInv, InitInv, Acquiring
<1>4. CASE \E t \in Publisher : InspectInit(p, t)
  BY <1>1, <1>4 DEF InspectInit, TypeOK, InitInv
<1>5. CASE ~(StatCurrent(p) \/ LinkLock(p) \/ \E t \in Publisher : InspectInit(p, t))
  BY <1>1, <1>5 DEF TypeOK, Step, Acquire, Open, Publish, StatGenerations, Preflight, StatLock,
    CreateInit, WriteInit, OpenLock, Flock, VerifyLock, UnlinkInit, LockReady, OpenGenerations,
    MakeDirStage, MarkDirStage, RenameDirStage, ReadMarker, EmptyStage, RemoveStage, ValidateAll,
    ReadCurrent, SweepDirStage, SweepLink, OutputSwept, EnsureGeneration, AfterEnsure, MakeStage,
    WriteCorpus, WriteManifest, RenameStage, CheckGeneration, MakeLink, ReplaceCurrent, Release
<1> QED
  BY <1>2, <1>3, <1>4, <1>5

\* No call is refused for what others do or left behind but in three cases, none
\* of which is damage to the store.
THEOREM LeftoversSafe == Spec => LeftoversAccepted
<1> DEFINE Refusals ==
      \A p \in Publisher :
         pc[p] \notin Rejected /\ pc'[p] \in Rejected =>
           \/ /\ pc'[p] = "initInvalid"
              /\ \E t \in initNames \ initMarked :
                    t # p /\ pc[t] \in {"writeInit", "ioError", "crashed"}
           \/ pc'[p] = "initRaced" /\ lock \notin {NoPub, p}
           \/ pc'[p] = "orphanSelector" /\ generations = "owned" /\ Coherent(current)
<1>1. IInv /\ IInv' /\ [Next]_vars => [Refusals]_vars
  <2> SUFFICES ASSUME IInv, NothingDamaged', Next, NEW p \in Publisher,
                      pc[p] \notin Rejected, pc'[p] \in Rejected
               PROVE  Step(p)
    BY RefusalStep DEF IInv
  <2>1. pc \in [Publisher -> Before \cup Running \cup Ended]
    BY DEF IInv, TypeOK
  <2>2. ASSUME NEW q \in Publisher, q # p, Step(q) PROVE pc'[p] = pc[p]
    BY <2>1, <2>2 DEF Step, Acquire, Open, Publish, StatGenerations, StatCurrent, Preflight, StatLock,
      CreateInit, WriteInit, LinkLock, OpenLock, Flock, VerifyLock, InspectInit, UnlinkInit,
      LockReady, OpenGenerations, MakeDirStage, MarkDirStage, RenameDirStage, ReadMarker,
      EmptyStage, RemoveStage, ValidateAll, ReadCurrent, SweepDirStage, SweepLink, OutputSwept,
      EnsureGeneration, MakeStage, WriteCorpus, WriteManifest, RenameStage, CheckGeneration,
      MakeLink, ReplaceCurrent, Release
  <2>3. ASSUME NEW q \in Publisher, (\E d \in Doc : Start(q, d)) \/ IOError(q) \/ Crash(q)
        PROVE  pc'[p] = pc[p] \/ pc'[p] \in {"statGenerations", "ioError", "crashed"}
    BY <2>1, <2>3 DEF Start, IOError, Crash
  <2> QED
    BY <2>2, <2>3 DEF Next, Finished, vars, Rejected
<1> QED
  BY <1>1, Invariance, PTL DEF Spec, LeftoversAccepted

----------------------------------------------------------------------------
(* What a step may do.                                                     *)

\* Only RenameStage touches the set of generations, and only to add one.
LEMMA ImmutableStep ==
    ASSUME NEW p \in Publisher, Step(p), NEW d \in installed, TypeOK
    PROVE  d \in installed' /\ content'[d] = content[d]
<1> USE DEF TypeOK
<1>1. CASE RenameStage(p)
  BY <1>1 DEF RenameStage
<1>2. CASE ~RenameStage(p)
  <2>1. UNCHANGED <<installed, content>>
    <3>1. CASE StatGenerations(p) \/ StatCurrent(p) \/ Preflight(p)
      BY <3>1 DEF StatGenerations, StatCurrent, Preflight
    <3>2. CASE Acquire(p)
      BY <3>2 DEF Acquire, StatLock, CreateInit, WriteInit, LinkLock, OpenLock, Flock, VerifyLock,
                  InspectInit, UnlinkInit, LockReady
    <3>3. CASE Open(p)
      BY <3>3 DEF Open, OpenGenerations, MakeDirStage, MarkDirStage, RenameDirStage, ReadMarker,
                  EmptyStage, RemoveStage, ValidateAll
    <3>4. CASE Publish(p)
      BY <1>2, <3>4 DEF Publish, ReadCurrent, SweepDirStage, SweepLink, OutputSwept,
                  EnsureGeneration, MakeStage, WriteCorpus, WriteManifest, CheckGeneration,
                  MakeLink, ReplaceCurrent, Release
    <3> QED
      BY <3>1, <3>2, <3>3, <3>4 DEF Step
  <2> QED
    BY <2>1
<1> QED
  BY <1>1, <1>2

LEMMA NextKeepsGenerations ==
    ASSUME IInv, Next, NEW d \in installed
    PROVE  d \in installed' /\ content'[d] = content[d]
<1>1. ASSUME NEW p \in Publisher, Step(p)
      PROVE  d \in installed' /\ content'[d] = content[d]
  BY <1>1, ImmutableStep DEF IInv
<1>2. ASSUME NEW p \in Publisher, (\E e \in Doc : Start(p, e)) \/ IOError(p) \/ Crash(p)
      PROVE  d \in installed' /\ content'[d] = content[d]
  BY <1>2 DEF Start, IOError, Crash
<1>3. CASE Finished
  BY <1>3 DEF Finished, vars
<1> QED
  BY <1>1, <1>2, <1>3 DEF Next

\* An installed generation is never changed or removed by any step.
THEOREM Immutability == Spec => GenerationsImmutable
<1>1. IInv /\ [Next]_vars =>
        [\A d \in installed : d \in installed' /\ content'[d] = content[d]]_vars
  BY NextKeepsGenerations
<1> QED
  BY <1>1, Invariance, PTL DEF Spec, GenerationsImmutable

\* A call reports success only by releasing the lock at the end.
LEMMA SuccessIsRelease ==
    ASSUME TypeOK, NEW p \in Publisher, Step(p),
           NEW q \in Publisher, pc[q] # "ok", pc'[q] = "ok"
    PROVE  Release(q)
<1> USE DEF TypeOK
<1>1. ASSUME NEW label, label # "ok", pc' = [pc EXCEPT ![p] = label] PROVE FALSE
  BY <1>1
<1>2. CASE StatGenerations(p) \/ StatCurrent(p) \/ Preflight(p)
  BY <1>1, <1>2 DEF StatGenerations, StatCurrent, Preflight
<1>3. CASE Acquire(p)
  BY <1>1, <1>3 DEF Acquire, StatLock, CreateInit, WriteInit, LinkLock, OpenLock, Flock, VerifyLock,
                    InspectInit, UnlinkInit, LockReady
<1>4. CASE Open(p)
  BY <1>1, <1>4 DEF Open, OpenGenerations, MakeDirStage, MarkDirStage, RenameDirStage, ReadMarker,
                    EmptyStage, RemoveStage, ValidateAll
<1>5. CASE Publish(p) /\ ~Release(p)
  BY <1>1, <1>5 DEF Publish, ReadCurrent, SweepDirStage, SweepLink, OutputSwept, EnsureGeneration,
                    AfterEnsure, MakeStage, WriteCorpus, WriteManifest, RenameStage,
                    CheckGeneration, MakeLink, ReplaceCurrent
<1>6. CASE Release(p)
  <2>1. p = q
    BY <1>6 DEF Release
  <2> QED
    BY <1>6, <2>1
<1> QED
  BY <1>2, <1>3, <1>4, <1>5, <1>6 DEF Step

LEMMA SuccessStep ==
    ASSUME IInv, Next, NEW q \in Publisher, pc[q] # "ok", pc'[q] = "ok"
    PROVE  /\ Release(q)
           /\ KnowsGeneration(q)
           /\ KnowsStaging(q)
<1>1. ASSUME NEW p \in Publisher, Step(p) PROVE Release(q)
  BY <1>1, SuccessIsRelease DEF IInv
<1>2. ASSUME NEW p \in Publisher, (\E d \in Doc : Start(p, d)) \/ IOError(p) \/ Crash(p)
      PROVE FALSE
  BY <1>2 DEF IInv, TypeOK, Start, IOError, Crash
<1>3. ~Finished
  BY DEF Finished, vars
<1> QED
  BY <1>1, <1>2, <1>3 DEF Next, IInv, ProcInv

\* A call that reports success leaves its own generation selected.
THEOREM SuccessCorrect == Spec => SuccessSelects
<1> DEFINE A == \A p \in Publisher :
                  pc[p] # "ok" /\ pc'[p] = "ok" => current' = doc[p] /\ Coherent(doc[p])
<1>1. IInv /\ [Next]_vars => [A]_vars
  <2> SUFFICES ASSUME IInv, Next, NEW p \in Publisher, pc[p] # "ok", pc'[p] = "ok"
               PROVE  current' = doc[p] /\ Coherent(doc[p])
    OBVIOUS
  <2>1. Release(p) /\ KnowsGeneration(p)
    BY SuccessStep
  <2>2. pc[p] = "release" /\ current' = current
    BY <2>1 DEF Release
  <2>3. current = doc[p] /\ doc[p] \in installed
    BY <2>1, <2>2 DEF KnowsGeneration
  <2> QED
    BY <2>2, <2>3 DEF IInv, StoreInv, Coherent
<1> QED
  BY <1>1, Invariance, PTL DEF Spec, SuccessSelects

\* A call that reports success leaves no staging entry of any call.
THEOREM SuccessTidy == Spec => SuccessLeavesNoStaging
<1> DEFINE A == \A p \in Publisher :
                  pc[p] # "ok" /\ pc'[p] = "ok" =>
                    /\ stages' = {}
                    /\ \A s \in Publisher : links'[s] = NoDoc /\ dirStage'[s] = "none"
<1>1. IInv /\ [Next]_vars => [A]_vars
  <2> SUFFICES ASSUME IInv, Next, NEW p \in Publisher, pc[p] # "ok", pc'[p] = "ok"
               PROVE  /\ stages' = {}
                      /\ \A s \in Publisher : links'[s] = NoDoc /\ dirStage'[s] = "none"
    OBVIOUS
  <2>1. Release(p) /\ KnowsStaging(p)
    BY SuccessStep
  <2>2. pc[p] = "release" /\ UNCHANGED <<stages, links, dirStage>>
    BY <2>1 DEF Release
  <2> QED
    BY <2>1, <2>2 DEF KnowsStaging, Swept, Tidy
<1> QED
  BY <1>1, Invariance, PTL DEF Spec, SuccessLeavesNoStaging

----------------------------------------------------------------------------
(* Readers.                                                                *)

USE DEF ReaderAt, ReaderGoto

\* The invariant of the store survives the readers, who never write.
LEMMA StoreInvariant == AllSpec => []IInv
<1>1. AllInit => IInv
  BY InvInit DEF AllInit
<1>2. IInv /\ [AllNext]_allVars => IInv'
  <2> SUFFICES ASSUME IInv, [AllNext]_allVars PROVE IInv'
    OBVIOUS
  <2>1. [Next]_vars
    BY DEF AllNext, StoreNext, ReadersNext, allVars, vars
  <2> QED
    BY <2>1, InvNext
<1> QED
  BY <1>1, <1>2, PTL DEF AllSpec

LEMMA ReaderInvInit == AllInit => ReaderInv /\ ReaderTypeOK
  BY DEF AllInit, ReaderInit, ReaderInv, ReaderTypeOK, NoArtifacts, Artifacts

\* Publishers only add generations and never remove the directory.
LEMMA StoreGrows ==
    ASSUME IInv, IInv', Next
    PROVE  /\ \A d \in installed : d \in installed' /\ content'[d] = content[d]
           /\ generations = "owned" => generations' = "owned"
<1>1. \A d \in installed : d \in installed' /\ content'[d] = content[d]
  BY NextKeepsGenerations
<1>2. ASSUME NEW p \in Publisher, Step(p), generations = "owned" PROVE generations' = "owned"
  <2>1. CASE RenameDirStage(p)
    BY <1>2, <2>1 DEF RenameDirStage
  <2>2. CASE ~RenameDirStage(p)
    <3>1. CASE StatGenerations(p) \/ StatCurrent(p) \/ Preflight(p)
      BY <1>2, <3>1 DEF StatGenerations, StatCurrent, Preflight
    <3>2. CASE Acquire(p)
      BY <1>2, <3>2 DEF Acquire, StatLock, CreateInit, WriteInit, LinkLock, OpenLock, Flock,
                  VerifyLock, InspectInit, UnlinkInit, LockReady
    <3>3. CASE Open(p)
      BY <1>2, <2>2, <3>3 DEF Open, OpenGenerations, MakeDirStage, MarkDirStage, ReadMarker,
                  EmptyStage, RemoveStage, ValidateAll
    <3>4. CASE Publish(p)
      BY <1>2, <3>4 DEF Publish, ReadCurrent, SweepDirStage, SweepLink, OutputSwept,
                  EnsureGeneration, MakeStage, WriteCorpus, WriteManifest, RenameStage,
                  CheckGeneration, MakeLink, ReplaceCurrent, Release
    <3> QED
      BY <1>2, <3>1, <3>2, <3>3, <3>4 DEF Step
  <2> QED
    BY <2>1, <2>2
<1>3. ASSUME NEW p \in Publisher, (\E d \in Doc : Start(p, d)) \/ IOError(p) \/ Crash(p)
      PROVE  generations' = generations
  BY <1>3 DEF Start, IOError, Crash
<1>4. CASE Finished
  BY <1>4 DEF Finished, vars
<1> QED
  BY <1>1, <1>2, <1>3, <1>4 DEF Next

LEMMA ReaderInvNext ==
    ASSUME IInv, IInv', ReaderInv, ReaderTypeOK, [AllNext]_allVars
    PROVE  ReaderInv' /\ ReaderTypeOK'
<1>1. CASE StoreNext
  <2>1. UNCHANGED readerVars
    BY <1>1 DEF StoreNext
  <2>2. /\ \A d \in installed : d \in installed'
        /\ generations = "owned" => generations' = "owned"
    BY <1>1, StoreGrows DEF StoreNext
  <2> QED
    BY <2>1, <2>2 DEF readerVars, ReaderInv, ReaderTypeOK
<1>2. ASSUME NEW r \in Reader, ReaderStep(r), UNCHANGED vars PROVE ReaderInv' /\ ReaderTypeOK'
  <2> UNCHANGED <<generations, installed, content, current>>
    BY <1>2 DEF vars, dirVars, genVars
  <2> USE DEF ReaderTypeOK, ReaderRunning, ReaderEnded, ReaderRejected
  <2>1. CASE OpenOutput(r)
    BY <2>1 DEF OpenOutput, ReaderInv, IInv, TypeOK
  <2>2. CASE ReadSelector(r)
    BY <2>2 DEF ReadSelector, ReaderInv, IInv, TypeOK, StoreInv
  <2>3. CASE OpenGeneration(r)
    BY <2>3 DEF OpenGeneration, ReaderInv
  <2>4. CASE ReadCorpusFile(r)
    <3>1. /\ pinned[r] \in installed
          /\ content[pinned[r]] = [corpus |-> pinned[r], manifest |-> pinned[r]]
      BY <2>4 DEF ReadCorpusFile, ReaderInv, IInv, StoreInv
    <3>2. pinned[r] \in Doc
      BY <3>1 DEF IInv, TypeOK
    <3>3. [bytes[r] EXCEPT !.corpus = pinned[r]] \in Artifacts
      BY <3>2, ArtifactWritten
    <3>4. [bytes[r] EXCEPT !.corpus = pinned[r]].corpus = pinned[r]
      BY DEF Artifacts
    <3>5. bytes' = [bytes EXCEPT ![r] = [bytes[r] EXCEPT !.corpus = pinned[r]]]
      BY <2>4, <3>1 DEF ReadCorpusFile
    <3>6. rpc[r] = "readCorpus" /\ rpc' = [rpc EXCEPT ![r] = "readManifest"] /\ UNCHANGED pinned
      BY <2>4 DEF ReadCorpusFile
    <3>7. ReaderTypeOK'
      BY <3>3, <3>5, <3>6
    <3>8. ReaderInv'
      BY <3>1, <3>4, <3>5, <3>6 DEF ReaderInv
    <3> QED
      BY <3>7, <3>8
  <2>5. CASE ReadManifestFile(r)
    <3>1. /\ pinned[r] \in installed
          /\ content[pinned[r]] = [corpus |-> pinned[r], manifest |-> pinned[r]]
          /\ bytes[r].corpus = pinned[r]
      BY <2>5 DEF ReadManifestFile, ReaderInv, IInv, StoreInv
    <3>2. pinned[r] \in Doc
      BY <3>1 DEF IInv, TypeOK
    <3>3. [bytes[r] EXCEPT !.manifest = pinned[r]] \in Artifacts
      BY <3>2, ArtifactWritten
    <3>4. [bytes[r] EXCEPT !.manifest = pinned[r]] = [corpus |-> pinned[r], manifest |-> pinned[r]]
      BY <3>1 DEF Artifacts
    <3>5. bytes' = [bytes EXCEPT ![r] = [bytes[r] EXCEPT !.manifest = pinned[r]]]
      BY <2>5, <3>1 DEF ReadManifestFile
    <3>6. rpc[r] = "readManifest" /\ rpc' = [rpc EXCEPT ![r] = "checkSnapshot"] /\ UNCHANGED pinned
      BY <2>5 DEF ReadManifestFile
    <3>7. ReaderTypeOK'
      BY <3>3, <3>5, <3>6
    <3>8. ReaderInv'
      BY <3>1, <3>4, <3>5, <3>6 DEF ReaderInv
    <3> QED
      BY <3>7, <3>8
  <2>6. CASE CheckSnapshot(r)
    BY <2>6 DEF CheckSnapshot, ReaderInv
  <2> QED
    BY <1>2, <2>1, <2>2, <2>3, <2>4, <2>5, <2>6 DEF ReaderStep
<1>3. CASE UNCHANGED allVars
  BY <1>3 DEF allVars, vars, readerVars, dirVars, genVars, ReaderInv, ReaderTypeOK
<1> QED
  BY <1>1, <1>2, <1>3 DEF AllNext, ReadersNext

\* What readers know holds in every reachable state.
THEOREM ReaderInvariance == AllSpec => []ReaderInvariant
<1>1. AllInit => ReaderInvariant
  BY ReaderInvInit DEF ReaderInvariant
<1>2. IInv /\ IInv' /\ ReaderInvariant /\ [AllNext]_allVars => ReaderInvariant'
  BY ReaderInvNext DEF ReaderInvariant
<1> QED
  BY <1>1, <1>2, StoreInvariant, PTL DEF AllSpec

\* No read ever ends with a damaged or missing generation.
THEOREM ReadersSafe == AllSpec => []ReadersSeeNoDamage
<1>1. AllInit => ReadersSeeNoDamage
  BY DEF AllInit, ReaderInit, ReadersSeeNoDamage
<1>2. IInv /\ ReaderInv /\ ReaderTypeOK /\ ReadersSeeNoDamage /\ [AllNext]_allVars =>
        ReadersSeeNoDamage'
  <2> SUFFICES ASSUME IInv, ReaderInv, ReaderTypeOK, ReadersSeeNoDamage, [AllNext]_allVars
               PROVE  ReadersSeeNoDamage'
    OBVIOUS
  <2> USE DEF ReadersSeeNoDamage, ReaderInv, ReaderTypeOK
  <2>1. ASSUME NEW r \in Reader, ReaderStep(r) PROVE ReadersSeeNoDamage'
    <3>1. CASE OpenOutput(r)
      BY <3>1 DEF OpenOutput, IInv, TypeOK, StoreInv
    <3>2. CASE ReadSelector(r) \/ OpenGeneration(r)
      BY <3>2 DEF ReadSelector, OpenGeneration
    <3>3. CASE ReadCorpusFile(r) \/ ReadManifestFile(r)
      BY <3>3 DEF ReadCorpusFile, ReadManifestFile
    <3>4. CASE CheckSnapshot(r)
      BY <3>4 DEF CheckSnapshot
    <3> QED
      BY <2>1, <3>1, <3>2, <3>3, <3>4 DEF ReaderStep
  <2>2. CASE UNCHANGED readerVars
    BY <2>2 DEF readerVars
  <2> QED
    BY <2>1, <2>2 DEF AllNext, StoreNext, ReadersNext, allVars
<1> QED
  BY <1>1, <1>2, StoreInvariant, ReaderInvariance, PTL DEF AllSpec, ReaderInvariant

\* Once a publisher has reported success, something is always readable.
THEOREM Readable == AllSpec => AcknowledgedIsReadable
<1>1. IInv /\ ReaderInv /\ ReaderTypeOK /\ [AllNext]_allVars =>
        [\A r \in Reader :
           rpc'[r] # rpc[r] /\ rpc'[r] \in {"unavailable", "noCurrent"} =>
             \A p \in Publisher : pc[p] # "ok"]_allVars
  <2> SUFFICES ASSUME IInv, ReaderTypeOK, AllNext,
                      NEW r \in Reader, rpc'[r] # rpc[r],
                      rpc'[r] \in {"unavailable", "noCurrent"},
                      NEW p \in Publisher, pc[p] = "ok"
               PROVE  FALSE
    OBVIOUS
  <2>1. /\ current # NoDoc
        /\ generations = "owned"
    BY DEF IInv, ProcInv, KnowsGeneration, StoreInv
  <2>2. ReaderStep(r)
    <3>1. PICK q \in Reader : ReaderStep(q)
      BY DEF AllNext, StoreNext, ReadersNext, readerVars
    <3>2. q = r
      BY <3>1 DEF ReaderTypeOK, ReaderStep, OpenOutput, ReadSelector, OpenGeneration,
                  ReadCorpusFile, ReadManifestFile, CheckSnapshot
    <3> QED
      BY <3>1, <3>2
  <2> QED
    BY <2>1, <2>2 DEF ReaderTypeOK, ReaderStep, OpenOutput, ReadSelector, OpenGeneration,
                      ReadCorpusFile, ReadManifestFile, CheckSnapshot
<1> QED
  BY <1>1, StoreInvariant, ReaderInvariance, PTL DEF AllSpec, ReaderInvariant, AcknowledgedIsReadable

----------------------------------------------------------------------------
(* The refinement.                                                         *)

\* A step of one call moves only that call, which has not ended.
LEMMA StepMovesOne ==
    ASSUME TypeOK, NEW p \in Publisher, Step(p)
    PROVE  /\ pc[p] \notin Ended \cup Before
           /\ \A q \in Publisher \ {p} : pc'[q] = pc[q]
<1>1. \E label : pc[p] \notin Ended \cup Before /\ pc' = [pc EXCEPT ![p] = label]
  <2> USE DEF Ended, Rejected, Before
  <2>1. CASE StatGenerations(p) \/ StatCurrent(p) \/ Preflight(p)
    BY <2>1 DEF StatGenerations, StatCurrent, Preflight
  <2>2. CASE Acquire(p)
    BY <2>2 DEF Acquire, StatLock, CreateInit, WriteInit, LinkLock, OpenLock, Flock, VerifyLock,
                InspectInit, UnlinkInit, LockReady
  <2>3. CASE Open(p)
    BY <2>3 DEF Open, OpenGenerations, MakeDirStage, MarkDirStage, RenameDirStage, ReadMarker,
                EmptyStage, RemoveStage, ValidateAll
  <2>4. CASE Publish(p)
    BY <2>4 DEF Publish, ReadCurrent, SweepDirStage, SweepLink, OutputSwept, EnsureGeneration,
                MakeStage, WriteCorpus, WriteManifest, RenameStage, CheckGeneration, MakeLink,
                ReplaceCurrent, Release
  <2> QED
    BY <2>1, <2>2, <2>3, <2>4 DEF Step
<1> QED
  BY <1>1 DEF TypeOK

\* Steps other than the three below are invisible in the register.
LEMMA InvisibleStep ==
    ASSUME TypeOK, NEW p \in Publisher, Step(p),
           ~RenameStage(p), ~ReplaceCurrent(p), ~Release(p)
    PROVE  UNCHANGED <<doc, installed, content, current>>
<1>1. CASE StatGenerations(p) \/ StatCurrent(p) \/ Preflight(p)
  BY <1>1 DEF StatGenerations, StatCurrent, Preflight
<1>2. CASE Acquire(p)
  BY <1>2 DEF Acquire, StatLock, CreateInit, WriteInit, LinkLock, OpenLock, Flock, VerifyLock,
              InspectInit, UnlinkInit, LockReady
<1>3. CASE Open(p)
  BY <1>3 DEF Open, OpenGenerations, MakeDirStage, MarkDirStage, RenameDirStage, ReadMarker,
              EmptyStage, RemoveStage, ValidateAll
<1>4. CASE Publish(p)
  BY <1>4 DEF Publish, ReadCurrent, SweepDirStage, SweepLink, OutputSwept, EnsureGeneration,
              MakeStage, WriteCorpus, WriteManifest, CheckGeneration, MakeLink
<1> QED
  BY <1>1, <1>2, <1>3, <1>4 DEF Step

Acked == {p \in Publisher : pc[p] = "ok"}
Complete == {d \in installed : Coherent(d)}
Returned == [r \in Reader |->
               IF rpc[r] = "returned" THEN {bytes[r].corpus, bytes[r].manifest} ELSE {}]

LEMMA PublisherStepRefines ==
    ASSUME IInv, IInv', NEW p \in Publisher, Step(p), UNCHANGED readerVars
    PROVE  Register!Next \/ UNCHANGED Register!vars
<1> USE DEF IInv
<1>1. Complete = installed /\ Complete' = installed'
  BY DEF Complete, Coherent, StoreInv
<1>2. pc[p] \notin Ended \cup Before /\ \A q \in Publisher \ {p} : pc'[q] = pc[q]
  BY StepMovesOne
<1>3. KnowsGeneration(p) /\ doc[p] \in Doc /\ doc[p] # NoDoc
  BY <1>2, CorpusAssumption DEF ProcInv, KnowsGeneration
<1>4. UNCHANGED <<pinned, Returned>>
  BY DEF readerVars, Returned
<1>5. ~Release(p) => Acked' = Acked
  <2> SUFFICES ASSUME ~Release(p), NEW q \in Publisher PROVE pc'[q] = "ok" <=> pc[q] = "ok"
    BY DEF Acked
  <2>1. CASE q # p
    BY <1>2, <2>1
  <2>2. CASE q = p
    BY <1>2, <2>2, SuccessIsRelease DEF Ended
  <2> QED
    BY <2>1, <2>2
<1>6. CASE RenameStage(p)
  <2>1. /\ UNCHANGED <<doc, current>>
        /\ installed' = installed \cup {doc[p]}
    BY <1>6 DEF RenameStage
  <2>2. ~Release(p)
    BY <1>6 DEF RenameStage, Release
  <2>3. Register!Install(p)
    BY <1>1, <1>3, <1>4, <1>5, <2>1, <2>2 DEF Register!Install, Acked, Complete, Returned
  <2> QED
    BY <2>3 DEF Register!Next
<1>7. CASE ReplaceCurrent(p)
  <2>1. /\ UNCHANGED <<doc, installed>>
        /\ current' = doc[p]
        /\ doc[p] \in installed
    BY <1>3, <1>7 DEF ReplaceCurrent, KnowsGeneration, Selecting
  <2>2. ~Release(p)
    BY <1>7 DEF ReplaceCurrent, Release
  <2>3. Register!Select(p)
    BY <1>1, <1>4, <1>5, <2>1, <2>2 DEF Register!Select, Acked, Complete, Returned
  <2> QED
    BY <2>3 DEF Register!Next
<1>8. CASE Release(p)
  <2>1. /\ UNCHANGED <<doc, installed, current>>
        /\ current = doc[p]
        /\ pc' = [pc EXCEPT ![p] = "ok"]
    BY <1>3, <1>8 DEF Release, KnowsGeneration
  <2>2. Acked' = Acked \cup {p}
    BY <2>1 DEF Acked, TypeOK
  <2>3. Register!Acknowledge(p)
    BY <1>1, <1>3, <1>4, <2>1, <2>2 DEF Register!Acknowledge, Acked, Complete, Returned
  <2> QED
    BY <2>3 DEF Register!Next
<1>9. CASE ~RenameStage(p) /\ ~ReplaceCurrent(p) /\ ~Release(p)
  <2>1. UNCHANGED <<doc, installed, content, current>>
    BY <1>9, InvisibleStep
  <2> QED
    BY <1>1, <1>4, <1>5, <1>9, <2>1 DEF Register!vars, Acked, Complete, Returned
<1> QED
  BY <1>6, <1>7, <1>8, <1>9

LEMMA OutsideStepRefines ==
    ASSUME IInv, IInv', NEW p \in Publisher, UNCHANGED readerVars,
           (\E d \in Doc : Start(p, d)) \/ IOError(p) \/ Crash(p)
    PROVE  Register!Next \/ UNCHANGED Register!vars
<1> USE DEF IInv
<1>1. Complete = installed /\ Complete' = installed'
  BY DEF Complete, Coherent, StoreInv
<1>2. UNCHANGED <<pinned, Returned>>
  BY DEF readerVars, Returned
<1>3. UNCHANGED <<installed, current>> /\ Acked' = Acked
  BY DEF Start, IOError, Crash, Acked, TypeOK, Running, Unlocked, Locked
<1>4. ASSUME NEW d \in Doc, Start(p, d) PROVE Register!Request(p, d)
  <2>1. doc[p] = NoDoc /\ doc' = [doc EXCEPT ![p] = d]
    BY <1>4 DEF Start, ProcInv, KnowsGeneration, Before
  <2> QED
    BY <1>1, <1>2, <1>3, <2>1 DEF Register!Request, Acked, Complete, Returned
<1>5. CASE IOError(p) \/ Crash(p)
  BY <1>1, <1>2, <1>3, <1>5 DEF IOError, Crash, Register!vars, Acked, Complete, Returned
<1> QED
  BY <1>4, <1>5 DEF Register!Next

LEMMA ReaderStepRefines ==
    ASSUME IInv, ReaderInv, ReaderTypeOK, NEW r \in Reader, ReaderStep(r), UNCHANGED vars
    PROVE  Register!Next \/ UNCHANGED Register!vars
<1>1. UNCHANGED <<doc, installed, content, current, pc>>
  BY DEF vars
<1>2. Complete = installed /\ UNCHANGED <<Complete, Acked>>
  BY <1>1 DEF Complete, Coherent, Acked, IInv, StoreInv
<1> USE DEF ReaderTypeOK, ReaderInv
<1>3. CASE ReadSelector(r) /\ current # NoDoc
  <2>1. /\ pinned[r] = NoDoc
        /\ pinned' = [pinned EXCEPT ![r] = current]
        /\ UNCHANGED bytes
    BY <1>3 DEF ReadSelector
  <2>2. Returned' = Returned
    BY <1>3 DEF ReadSelector, Returned
  <2>3. Register!Choose(r)
    BY <1>1, <1>2, <1>3, <2>1, <2>2 DEF Register!Choose, Acked, Complete, Returned
  <2> QED
    BY <2>3 DEF Register!Next
<1>4. CASE CheckSnapshot(r)
  <2>1. /\ pinned[r] \in installed
        /\ rpc' = [rpc EXCEPT ![r] = "returned"]
        /\ bytes[r] = [corpus |-> pinned[r], manifest |-> pinned[r]]
        /\ UNCHANGED <<pinned, bytes>>
    BY <1>4 DEF CheckSnapshot
  <2>2. Returned' = [Returned EXCEPT ![r] = {pinned[r]}]
    <3>1. \A q \in Reader \ {r} : rpc'[q] = rpc[q] /\ bytes'[q] = bytes[q]
      BY <2>1
    <3>2. {bytes'[r].corpus, bytes'[r].manifest} = {pinned[r]} /\ rpc'[r] = "returned"
      BY <2>1
    <3> QED
      BY <3>1, <3>2 DEF Returned
  <2>3. Register!Return(r)
    BY <1>1, <1>2, <2>1, <2>2 DEF Register!Return, Acked, Complete, Returned
  <2> QED
    BY <2>3 DEF Register!Next
<1>5. CASE OpenOutput(r) \/ OpenGeneration(r) \/ (ReadSelector(r) /\ current = NoDoc)
  <2>1. UNCHANGED <<pinned, bytes>>
    BY <1>5 DEF OpenOutput, OpenGeneration, ReadSelector
  <2>2. \A q \in Reader : rpc'[q] = "returned" <=> rpc[q] = "returned"
    <3>1. CASE OpenOutput(r)
      BY <3>1 DEF OpenOutput, IInv, TypeOK
    <3>2. CASE OpenGeneration(r)
      BY <3>2 DEF OpenGeneration
    <3>3. CASE ReadSelector(r)
      BY <3>3 DEF ReadSelector
    <3> QED
      BY <1>5, <3>1, <3>2, <3>3
  <2>3. Returned' = Returned
    BY <2>1, <2>2 DEF Returned
  <2> QED
    BY <1>1, <1>2, <2>1, <2>3 DEF Register!vars, Acked, Complete, Returned
<1>6. CASE ReadCorpusFile(r) \/ ReadManifestFile(r)
  <2>1. /\ UNCHANGED pinned
        /\ rpc[r] \in {"readCorpus", "readManifest"}
        /\ rpc'[r] \in {"readManifest", "checkSnapshot"}
        /\ \A q \in Reader \ {r} : rpc'[q] = rpc[q] /\ bytes'[q] = bytes[q]
    BY <1>6 DEF ReadCorpusFile, ReadManifestFile
  <2>2. Returned' = Returned
    BY <2>1 DEF Returned
  <2> QED
    BY <1>1, <1>2, <2>1, <2>2 DEF Register!vars, Acked, Complete, Returned
<1> QED
  BY <1>3, <1>4, <1>5, <1>6 DEF ReaderStep

\* The store with its lock-free readers implements the abstract register.
THEOREM Refinement == AllSpec => RegisterSpec
<1>1. AllInit => Register!Init
  BY DEF AllInit, ReaderInit, Init, Register!Init
<1>2. IInv /\ IInv' /\ ReaderInv /\ ReaderTypeOK /\ [AllNext]_allVars =>
        [Register!Next]_(Register!vars)
  <2> SUFFICES ASSUME IInv, IInv', ReaderInv, ReaderTypeOK, [AllNext]_allVars
               PROVE  Register!Next \/ UNCHANGED Register!vars
    OBVIOUS
  <2>1. ASSUME NEW p \in Publisher, Step(p), UNCHANGED readerVars
        PROVE  Register!Next \/ UNCHANGED Register!vars
    BY <2>1, PublisherStepRefines
  <2>2. ASSUME NEW p \in Publisher, UNCHANGED readerVars,
               (\E d \in Doc : Start(p, d)) \/ IOError(p) \/ Crash(p)
        PROVE  Register!Next \/ UNCHANGED Register!vars
    BY <2>2, OutsideStepRefines
  <2>3. ASSUME NEW r \in Reader, ReaderStep(r), UNCHANGED vars
        PROVE  Register!Next \/ UNCHANGED Register!vars
    BY <2>3, ReaderStepRefines
  <2>4. ASSUME UNCHANGED vars, UNCHANGED readerVars
        PROVE  UNCHANGED Register!vars
    BY <2>4 DEF vars, readerVars, Register!vars, Coherent
  <2> QED
    BY <2>1, <2>2, <2>3, <2>4 DEF AllNext, StoreNext, ReadersNext, Next, Finished, allVars
<1> QED
  BY <1>1, <1>2, StoreInvariant, ReaderInvariance, PTL DEF AllSpec, ReaderInvariant, RegisterSpec, Register!Spec
=============================================================================
