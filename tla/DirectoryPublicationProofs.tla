-------------------- MODULE DirectoryPublicationProofs --------------------
(***************************************************************************)
(* Proofs about DirectoryPublication for any number of competing calls,    *)
(* errors, interrupts, power losses and changes by others.                 *)
(***************************************************************************)
EXTENDS DirectoryPublication, TLAPS

USE DEF callVars, diskVars, boundVars, At, Goto, Meddle, Preparing

\* What raising an exception does to the call it happens in.
Raised(p) ==
    /\ \E step \in {"failed", "clear"} : pc' = [pc EXCEPT ![p] = step]
    /\ \E path \in {"nothing", "stage", "output"} : undoing' = [undoing EXCEPT ![p] = path]
    /\ pc'[p] = "clear" => undoing'[p] # "nothing"
    /\ pc'[p] = "clear" /\ undoing'[p] = "output" => output = p
    /\ pc'[p] = "clear" /\ undoing'[p] = "stage" /\ kind # "report" /\ output = p
         => kind \in {"encoder", "reference"}
    /\ pc'[p] = "clear" /\ kind \in Trainers /\ p \in published => undoing'[p] = "output"
    /\ pc'[p] = "failed" /\ kind \in Trainers /\ p \in published => output # p

\* Nothing the invariant speaks of changes but the position of a call.
Quiet ==
    UNCHANGED <<kind, published, output, content, synced, outputSafe, altered, meddling, losses>>

----------------------------------------------------------------------------
(* Exceptions.                                                             *)

LEMMA UndoesType ==
    ASSUME NEW p, NEW e
    PROVE  Undoes(p, e) \in {"nothing", "stage", "output"}
  BY DEF Undoes

LEMMA RaiseRaises ==
    ASSUME TypeOK, BuildingInv, NEW p \in Publisher, NEW e, Raise(p, e)
    PROVE  Raised(p)
<1>1. kind \in AllKinds /\ pc \in [Publisher -> Steps \cup Handling \cup Ends]
      /\ undoing \in [Publisher -> {"nothing", "stage", "output"}]
      /\ (output = p => p \notin stage)
  BY PublicationAssumption DEF TypeOK
<1>2. CASE Unguarded(p)
  <2>1. pc' = [pc EXCEPT ![p] = "failed"] /\ undoing' = undoing
    BY <1>2 DEF Raise
  <2>2. kind \in Trainers => output # p
    BY <1>2 DEF Unguarded, Preparing, BuildingInv, Building, Trainers
  <2> QED
    BY <1>1, <2>1, <2>2 DEF Raised
<1>3. CASE ~Unguarded(p) /\ Undoes(p, e) = "nothing"
  <2>1. pc' = [pc EXCEPT ![p] = "failed"] /\ undoing' = undoing
    BY <1>3 DEF Raise
  <2>2. kind \in Trainers /\ p \in published => output # p
    BY <1>3 DEF Undoes, WithdrawsOutput
  <2> QED
    BY <1>1, <2>1, <2>2 DEF Raised
<1>4. CASE ~Unguarded(p) /\ Undoes(p, e) # "nothing"
  <2>1. /\ pc' = [pc EXCEPT ![p] = "clear"]
        /\ undoing' = [undoing EXCEPT ![p] = Undoes(p, e)]
    BY <1>4 DEF Raise
  <2>2. Undoes(p, e) = "stage" /\ kind # "report" /\ output = p
          => kind \in {"encoder", "reference"}
    BY <1>1, <1>4 DEF Undoes, WithdrawsOutput, RemovesStage
  <2>3. kind \in Trainers /\ p \in published => Undoes(p, e) = "output"
    BY <1>4 DEF Undoes, WithdrawsOutput, RemovesStage, Trainers
  <2>4. Undoes(p, e) = "output" => output = p
    BY DEF Undoes, WithdrawsOutput
  <2> QED
    BY <1>1, <1>4, <2>1, <2>2, <2>3, <2>4, UndoesType DEF Raised
<1> QED
  BY <1>2, <1>3, <1>4

----------------------------------------------------------------------------
(* Two ways to keep the invariant while no directory changes.              *)

\* A call may raise in any state: what it leaves at the output path is whole.
LEMMA RaiseKeeps ==
    ASSUME PathInv, TypeOK', NEW p \in Publisher, pc[p] \in Steps, Raised(p), Quiet
    PROVE  PathInv'
<1> USE DEF Quiet
<1>0. /\ pc \in [Publisher -> Steps \cup Handling \cup Ends]
      /\ undoing \in [Publisher -> {"nothing", "stage", "output"}]
  BY DEF PathInv, TypeOK
<1>1. /\ pc'[p] \in {"failed", "clear"}
      /\ \A q \in Publisher \ {p} : pc'[q] = pc[q] /\ undoing'[q] = undoing[q]
  BY <1>0 DEF Raised
<1>2. BuildingInv'
  BY <1>1 DEF PathInv, BuildingInv, Building, Written, TreeDurable, Renamed, EntryDurable, Returned
<1>3. WrittenInv'
  BY <1>1 DEF PathInv, WrittenInv, Lasting, Written, TreeDurable, Renamed, EntryDurable, Returned
<1>4. RenamedInv'
  BY <1>1 DEF PathInv, RenamedInv, Lasting, Renamed, EntryDurable, Returned
<1>5. VerifiedInv'
  BY <1>1 DEF PathInv, VerifiedInv, Returned
<1>6. UndoInv'
  BY <1>1 DEF PathInv, UndoInv, Handling, Raised
<1>7. WholeInv'
  <2> SUFFICES ASSUME NEW q \in Publisher,
                      kind # "report" /\ Lasting /\ output = q, pc'[q] # "aborted",
                      ~(pc'[q] \in Handling /\ undoing'[q] = "output"),
                      ~(pc'[q] = "dead" /\ undoing'[q] # "nothing")
               PROVE  content[q] = File /\ (kind # "candidate" => q \in synced)
    BY DEF WholeInv, Lasting
  <2>1. CASE q = p
    BY <2>1 DEF PathInv, WholeInv, Steps, Handling
  <2>2. CASE q # p
    BY <1>1, <2>2 DEF PathInv, WholeInv
  <2> QED
    BY <2>1, <2>2
<1>8. RejectedIsWithdrawn'
  BY <1>1 DEF PathInv, RejectedIsWithdrawn, Raised
<1> QED
  BY <1>2, <1>3, <1>4, <1>5, <1>6, <1>7, <1>8 DEF PathInv

\* A call may go on to any step whose part of the invariant already holds.
LEMMA AdvanceKeeps ==
    ASSUME PathInv, TypeOK', Quiet, UNCHANGED undoing,
           NEW p \in Publisher, NEW step \in (Steps \ {"checkStage"}) \cup {"success"},
           pc[p] \in Steps, pc' = [pc EXCEPT ![p] = step],
           step \in Building => output # p,
           step \in Written /\ Lasting => content[p] = File,
           step \in TreeDurable /\ kind # "candidate" => p \in synced,
           step \in Renamed /\ meddling = 0 /\ Lasting =>
               /\ output = p
               /\ step \in EntryDurable /\ kind # "candidate" => outputSafe,
           kind \in Trainers \cup {"reference"} /\ step \in {"checkOutputAgain"} \cup Returned
               => p \notin altered
    PROVE  PathInv'
<1> USE DEF Quiet
<1>0. pc \in [Publisher -> Steps \cup Handling \cup Ends]
  BY DEF PathInv, TypeOK
<1>1. pc'[p] = step /\ \A q \in Publisher \ {p} : pc'[q] = pc[q]
  BY <1>0
<1>2. BuildingInv'
  BY <1>1 DEF PathInv, BuildingInv
<1>3. WrittenInv'
  BY <1>1 DEF PathInv, WrittenInv, Lasting
<1>4. RenamedInv'
  BY <1>1 DEF PathInv, RenamedInv, Lasting
<1>5. VerifiedInv'
  BY <1>1 DEF PathInv, VerifiedInv
<1>6. UndoInv'
  BY <1>1 DEF PathInv, UndoInv, Handling, Steps
<1>7. WholeInv'
  BY <1>1 DEF PathInv, WholeInv, Lasting, Handling, Steps
<1>8. RejectedIsWithdrawn'
  BY <1>1 DEF PathInv, RejectedIsWithdrawn, Steps
<1> QED
  BY <1>2, <1>3, <1>4, <1>5, <1>6, <1>7, <1>8 DEF PathInv

----------------------------------------------------------------------------
(* Types.                                                                  *)

LEMMA TypeInit == Init => TypeOK
  BY PublicationAssumption DEF Init, TypeOK, Steps

\* Raising keeps the types of what it changes.
LEMMA RaiseType ==
    ASSUME TypeOK, NEW p \in Publisher, NEW e, Raise(p, e)
    PROVE  /\ pc' \in [Publisher -> Steps \cup Handling \cup Ends]
           /\ undoing' \in [Publisher -> {"nothing", "stage", "output"}]
  BY UndoesType DEF TypeOK, Raise, Handling, Ends

LEMMA CheckType ==
    ASSUME TypeOK, NEW p \in Publisher, NEW step \in Steps, NEW holds, Check(p, holds, step)
    PROVE  /\ pc' \in [Publisher -> Steps \cup Handling \cup Ends]
           /\ undoing' \in [Publisher -> {"nothing", "stage", "output"}]
  BY RaiseType DEF TypeOK, Check

LEMMA TypeStep ==
    ASSUME TypeOK, BuildingInv, NEW p \in Publisher, Step(p)
    PROVE  TypeOK'
<1>1. CASE Exists(p)
  <2>1. "stage" \in Steps
    BY DEF Steps
  <2>2. /\ pc' \in [Publisher -> Steps \cup Handling \cup Ends]
        /\ undoing' \in [Publisher -> {"nothing", "stage", "output"}]
    BY <1>1, <2>1, CheckType DEF Exists
  <2> QED
    BY <1>1, <2>2 DEF Exists, TypeOK
<1>2. CASE MakeStage(p)
  BY <1>2, PublicationAssumption DEF MakeStage, TypeOK, Steps, Ends, Handling, BuildingInv, Building
<1>3. CASE MakeRuntime(p)
  BY <1>3 DEF MakeRuntime, TypeOK, Steps, Ends, Handling
<1>4. CASE Pin(p)
  <2>1. "write" \in Steps
    BY DEF Steps
  <2>2. /\ pc' \in [Publisher -> Steps \cup Handling \cup Ends]
        /\ undoing' \in [Publisher -> {"nothing", "stage", "output"}]
    BY <1>4, <2>1, CheckType DEF Pin
  <2> QED
    BY <1>4, <2>2 DEF Pin, TypeOK
<1>5. CASE Write(p)
  <2>1. CASE p \notin stage /\ kind \notin {"report", "candidate"}
    BY <1>5, <2>1, RaiseType DEF Write, TypeOK
  <2>2. CASE ~(p \notin stage /\ kind \notin {"report", "candidate"})
    BY <1>5, <2>2 DEF Write, TypeOK, AfterWrite, Steps
  <2> QED
    BY <2>1, <2>2
<1>6. CASE Sync(p)
  <2>1. AfterSync \in Steps
    BY DEF Steps, AfterSync
  <2>2. /\ pc' \in [Publisher -> Steps \cup Handling \cup Ends]
        /\ undoing' \in [Publisher -> {"nothing", "stage", "output"}]
    BY <1>6, <2>1, CheckType DEF Sync
  <2> QED
    BY <1>6, <2>2 DEF Sync, TypeOK
<1>7. CASE CheckStage(p)
  <2>1. (IF kind = "decoder" THEN "sync" ELSE "verifyStage") \in Steps
    BY DEF Steps
  <2>2. /\ pc' \in [Publisher -> Steps \cup Handling \cup Ends]
        /\ undoing' \in [Publisher -> {"nothing", "stage", "output"}]
    BY <1>7, <2>1, CheckType DEF CheckStage
  <2> QED
    BY <1>7, <2>2 DEF CheckStage, TypeOK
<1>8. CASE VerifyStage(p)
  <2>1. "checkStageAgain" \in Steps
    BY DEF Steps
  <2>2. /\ pc' \in [Publisher -> Steps \cup Handling \cup Ends]
        /\ undoing' \in [Publisher -> {"nothing", "stage", "output"}]
    BY <1>8, <2>1, CheckType DEF VerifyStage
  <2> QED
    BY <1>8, <2>2 DEF VerifyStage, TypeOK
<1>9. CASE CheckStageAgain(p)
  <2>1. "rename" \in Steps
    BY DEF Steps
  <2>2. /\ pc' \in [Publisher -> Steps \cup Handling \cup Ends]
        /\ undoing' \in [Publisher -> {"nothing", "stage", "output"}]
    BY <1>9, <2>1, CheckType DEF CheckStageAgain
  <2> QED
    BY <1>9, <2>2 DEF CheckStageAgain, TypeOK
<1>10. CASE Rename(p)
  <2>1. AfterRename \in Steps
    BY DEF Steps, AfterRename
  <2>2. /\ pc' \in [Publisher -> Steps \cup Handling \cup Ends]
        /\ undoing' \in [Publisher -> {"nothing", "stage", "output"}]
    BY <1>10, <2>1, CheckType DEF Rename
  <2> QED
    BY <1>10, <2>2 DEF Rename, TypeOK
<1>11. CASE Flag(p)
  BY <1>11 DEF Flag, TypeOK, Steps, Ends, Handling
<1>12. CASE CheckOutput(p)
  <2>1. (IF kind = "candidate" THEN "return" ELSE "syncParent") \in Steps
    BY DEF Steps
  <2>2. /\ pc' \in [Publisher -> Steps \cup Handling \cup Ends]
        /\ undoing' \in [Publisher -> {"nothing", "stage", "output"}]
    BY <1>12, <2>1, CheckType DEF CheckOutput
  <2> QED
    BY <1>12, <2>2 DEF CheckOutput, TypeOK
<1>13. CASE SyncParent(p)
  BY <1>13 DEF SyncParent, TypeOK, Steps, Ends, Handling
<1>14. CASE VerifyOutput(p)
  <2>1. (IF kind = "reference" THEN "return" ELSE "checkOutputAgain") \in Steps
    BY DEF Steps
  <2>2. /\ pc' \in [Publisher -> Steps \cup Handling \cup Ends]
        /\ undoing' \in [Publisher -> {"nothing", "stage", "output"}]
    BY <1>14, <2>1, CheckType DEF VerifyOutput
  <2> QED
    BY <1>14, <2>2 DEF VerifyOutput, TypeOK
<1>15. CASE CheckOutputAgain(p)
  <2>1. "return" \in Steps
    BY DEF Steps
  <2>2. /\ pc' \in [Publisher -> Steps \cup Handling \cup Ends]
        /\ undoing' \in [Publisher -> {"nothing", "stage", "output"}]
    BY <1>15, <2>1, CheckType DEF CheckOutputAgain
  <2> QED
    BY <1>15, <2>2 DEF CheckOutputAgain, TypeOK
<1>16. CASE Return(p)
  BY <1>16 DEF Return, TypeOK, Steps, Ends, Handling
<1>17. CASE Clear(p)
  BY <1>17 DEF Clear, TypeOK, Steps, Ends, Handling
<1>18. CASE Remove(p)
  BY <1>18, PublicationAssumption DEF Remove, TypeOK, Steps, Ends, Handling
<1>19. CASE Enter(p)
  BY <1>19 DEF Enter, TypeOK, Steps, Ends, Handling
<1>20. CASE LookAgain(p)
  BY <1>20 DEF LookAgain, TypeOK, Steps, Ends, Handling
<1> QED
  BY <1>1, <1>2, <1>3, <1>4, <1>5, <1>6, <1>7, <1>8, <1>9, <1>10, <1>11, <1>12, <1>13, <1>14,
    <1>15, <1>16, <1>17, <1>18, <1>19, <1>20 DEF Step

LEMMA TypeNext ==
    ASSUME TypeOK, BuildingInv, [Next]_vars
    PROVE  TypeOK'
<1>1. ASSUME NEW p \in Publisher, Error(p) PROVE TypeOK'
  BY <1>1, RaiseType, PublicationAssumption DEF Error, TypeOK
<1>2. ASSUME NEW p \in Publisher, Interrupt(p) PROVE TypeOK'
  BY <1>2, RaiseType, PublicationAssumption DEF Interrupt, TypeOK
<1>3. ASSUME NEW p \in Publisher, Abort(p) PROVE TypeOK'
  BY <1>3, PublicationAssumption DEF Abort, TypeOK, Ends
<1>4. ASSUME NEW p \in Publisher, Kill(p) PROVE TypeOK'
  BY <1>4, PublicationAssumption DEF Kill, TypeOK, Ends
<1>5. ASSUME NEW p \in Publisher, MoveStage(p) \/ Alter(p) PROVE TypeOK'
  BY <1>5, PublicationAssumption DEF MoveStage, Alter, TypeOK
<1>6. CASE MoveOutput
  BY <1>6, PublicationAssumption DEF MoveOutput, TypeOK
<1>7. CASE OccupyOutput
  BY <1>7, PublicationAssumption DEF OccupyOutput, TypeOK
<1>8. CASE PowerLoss
  <2>1. losses' \in 0 .. MaxLosses
    BY <1>8, PublicationAssumption DEF PowerLoss, TypeOK
  <2>2. pc' \in [Publisher -> Steps \cup Handling \cup Ends]
    BY <1>8 DEF PowerLoss, TypeOK, Ends
  <2>3. output' \in (Publisher \cup {Other, Empty, None}) \ stage' /\ stage' \subseteq Publisher
    BY <1>8, PublicationAssumption DEF PowerLoss, TypeOK
  <2>4. content' \in [Publisher -> SUBSET File]
    BY <1>8 DEF PowerLoss, TypeOK
  <2> QED
    BY <1>8, <2>1, <2>2, <2>3, <2>4 DEF PowerLoss, TypeOK
<1>9. CASE UNCHANGED vars
  BY <1>9 DEF vars, TypeOK
<1> QED
  BY <1>1, <1>2, <1>3, <1>4, <1>5, <1>6, <1>7, <1>8, <1>9, TypeStep DEF Next, Stop

----------------------------------------------------------------------------
(* Each step keeps the invariant.                                          *)

USE DEF Quiet

\* The steps that check something and change no directory.
LEMMA CheckKeeps ==
    ASSUME PathInv, TypeOK', Quiet, NEW p \in Publisher, pc[p] \in Steps,
           NEW holds, NEW step \in Steps \ {"checkStage"}, Check(p, holds, step),
           holds => /\ step \in Building => output # p
                    /\ step \in Written /\ Lasting => content[p] = File
                    /\ step \in TreeDurable /\ kind # "candidate" => p \in synced
                    /\ step \in Renamed /\ meddling = 0 /\ Lasting =>
                           /\ output = p
                           /\ step \in EntryDurable /\ kind # "candidate" => outputSafe
                    /\ kind \in Trainers \cup {"reference"}
                       /\ step \in {"checkOutputAgain"} \cup Returned => p \notin altered
    PROVE  PathInv'
<1>1. CASE holds
  BY <1>1, AdvanceKeeps DEF Check
<1>2. CASE ~holds
  BY <1>2, RaiseRaises, RaiseKeeps DEF Check, PathInv
<1> QED
  BY <1>1, <1>2

\* The steps up to the rename that change no directory.
LEMMA BuildingSteps ==
    ASSUME PathInv, TypeOK', NEW p \in Publisher,
           \/ Exists(p) \/ MakeStage(p) \/ MakeRuntime(p) \/ Enter(p) \/ Pin(p)
           \/ CheckStage(p) \/ VerifyStage(p) \/ CheckStageAgain(p)
    PROVE  PathInv'
<1> USE DEF Steps, Building, Written, TreeDurable, Renamed, EntryDurable, Returned
<1>0. BuildingInv /\ WrittenInv
  BY DEF PathInv
<1>1. CASE Exists(p)
  BY <1>0, <1>1, CheckKeeps DEF Exists, BuildingInv
<1>2. CASE MakeStage(p)
  <2> DEFINE step == IF kind = "encoder" THEN "runtime" ELSE "enter"
  <2>1. step \in {"runtime", "enter"} /\ pc' = [pc EXCEPT ![p] = step]
    BY <1>2 DEF MakeStage
  <2> HIDE DEF step
  <2> QED
    BY <1>0, <1>2, <2>1, AdvanceKeeps DEF MakeStage, BuildingInv
<1>3. CASE MakeRuntime(p)
  BY <1>0, <1>3, AdvanceKeeps DEF MakeRuntime, BuildingInv
<1>4. CASE Pin(p)
  BY <1>0, <1>4, CheckKeeps DEF Pin, BuildingInv
<1>5. CASE CheckStage(p)
  <2>1. CASE kind = "decoder"
    BY <1>0, <1>5, <2>1, CheckKeeps DEF CheckStage, BuildingInv, WrittenInv
  <2>2. CASE kind # "decoder"
    BY <1>0, <1>5, <2>2, CheckKeeps DEF CheckStage, BuildingInv, WrittenInv
  <2> QED
    BY <2>1, <2>2
<1>6. CASE VerifyStage(p)
  BY <1>0, <1>6, CheckKeeps DEF VerifyStage, BuildingInv, WrittenInv
<1>7. CASE CheckStageAgain(p)
  BY <1>0, <1>7, CheckKeeps DEF CheckStageAgain, BuildingInv, WrittenInv
<1>8. CASE Enter(p)
  <2> DEFINE step == IF kind \in Trainers THEN "pin" ELSE "write"
  <2>1. step \in {"pin", "write"} /\ pc' = [pc EXCEPT ![p] = step]
    BY <1>8 DEF Enter
  <2> HIDE DEF step
  <2> QED
    BY <1>0, <1>8, <2>1, AdvanceKeeps DEF Enter, BuildingInv
<1> QED
  BY <1>1, <1>2, <1>3, <1>4, <1>5, <1>6, <1>7, <1>8

\* The steps after the rename that change no directory.
LEMMA PublishedSteps ==
    ASSUME PathInv, TypeOK', NEW p \in Publisher,
           CheckOutput(p) \/ VerifyOutput(p) \/ CheckOutputAgain(p) \/ Return(p)
    PROVE  PathInv'
<1> USE DEF Steps, Building, Written, TreeDurable, Renamed, EntryDurable, Returned
<1>0. WrittenInv /\ RenamedInv /\ VerifiedInv
  BY DEF PathInv
<1>1. CASE CheckOutput(p)
  <2>1. CASE kind = "candidate"
    BY <1>0, <1>1, <2>1, CheckKeeps DEF CheckOutput, WrittenInv, RenamedInv, Trainers
  <2>2. CASE kind # "candidate"
    BY <1>0, <1>1, <2>2, CheckKeeps DEF CheckOutput, WrittenInv, RenamedInv
  <2> QED
    BY <2>1, <2>2
<1>2. CASE VerifyOutput(p)
  <2>1. CASE kind = "reference"
    BY <1>0, <1>2, <2>1, CheckKeeps DEF VerifyOutput, WrittenInv, RenamedInv
  <2>2. CASE kind # "reference"
    BY <1>0, <1>2, <2>2, CheckKeeps DEF VerifyOutput, WrittenInv, RenamedInv
  <2> QED
    BY <2>1, <2>2
<1>3. CASE CheckOutputAgain(p)
  BY <1>0, <1>3, CheckKeeps DEF CheckOutputAgain, WrittenInv, RenamedInv, VerifiedInv
<1>4. CASE Return(p)
  BY <1>0, <1>4, AdvanceKeeps DEF Return, WrittenInv, RenamedInv, VerifiedInv
<1> QED
  BY <1>1, <1>2, <1>3, <1>4

\* A call that raises, also for a failed system call or an interrupt.
LEMMA Exceptions ==
    ASSUME PathInv, TypeOK', NEW p \in Publisher, Error(p) \/ Interrupt(p)
    PROVE  PathInv'
<1>1. pc[p] \in Steps
  BY DEF Error, Interrupt, PathInv, TypeOK
<1>2. PICK e \in {"error", "interrupt"} : Raise(p, e)
  BY DEF Error, Interrupt
<1>3. Raised(p)
  BY <1>2, RaiseRaises DEF PathInv
<1> QED
  BY <1>1, <1>3, RaiseKeeps DEF Error, Interrupt

LEMMA WriteKeeps ==
    ASSUME PathInv, TypeOK', NEW p \in Publisher, Write(p)
    PROVE  PathInv'
<1>0. /\ BuildingInv /\ pc \in [Publisher -> Steps \cup Handling \cup Ends]
      /\ content \in [Publisher -> SUBSET File]
  BY DEF PathInv, TypeOK
<1>1. CASE p \notin stage /\ kind \notin {"report", "candidate"}
  <2>1. Raise(p, "error") /\ Quiet /\ pc[p] \in Steps
    BY <1>1 DEF Write, Steps
  <2> QED
    BY <2>1, RaiseRaises, RaiseKeeps DEF PathInv
<1>2. CASE ~(p \notin stage /\ kind \notin {"report", "candidate"})
  <2>1. PICK f \in File \ content[p] :
           /\ content' = [content EXCEPT ![p] = @ \cup {f}]
           /\ IF content'[p] = File THEN Goto(p, AfterWrite) ELSE UNCHANGED pc
           /\ UNCHANGED undoing
    BY <1>2 DEF Write
  <2>2. output # p
    BY <1>0 DEF Write, BuildingInv, Building
  <2>3. /\ UNCHANGED <<kind, published, output, synced, outputSafe, altered, meddling, losses>>
        /\ pc[p] = "write" /\ undoing' = undoing
    BY <1>2, <2>1 DEF Write
  <2>4. \A q \in Publisher \ {p} : content'[q] = content[q] /\ pc'[q] = pc[q]
    BY <1>0, <2>1
  <2>5. /\ pc'[p] \in {"write", "checkStage", "rename", "sync"}
        /\ pc'[p] # "write" => content'[p] = File
        /\ pc'[p] = "rename" => kind = "candidate"
        /\ pc'[p] = "checkStage" => kind = "decoder"
    BY <1>0, <2>1, <2>3 DEF AfterWrite
  <2>6. BuildingInv'
    BY <2>2, <2>3, <2>4 DEF PathInv, BuildingInv
  <2>7. WrittenInv'
    BY <2>3, <2>4, <2>5 DEF PathInv, WrittenInv, Lasting, Written, TreeDurable, Renamed,
      EntryDurable, Returned
  <2>8. RenamedInv' /\ VerifiedInv'
    BY <2>3, <2>4, <2>5 DEF PathInv, RenamedInv, VerifiedInv, Lasting, Renamed, EntryDurable, Returned
  <2>9. UndoInv' /\ RejectedIsWithdrawn'
    BY <2>3, <2>4, <2>5 DEF PathInv, UndoInv, RejectedIsWithdrawn, Handling
  <2>10. WholeInv'
    BY <2>2, <2>3, <2>4 DEF PathInv, WholeInv, Lasting
  <2> QED
    BY <2>6, <2>7, <2>8, <2>9, <2>10 DEF PathInv
<1> QED
  BY <1>1, <1>2

LEMMA SyncKeeps ==
    ASSUME PathInv, TypeOK', NEW p \in Publisher, Sync(p)
    PROVE  PathInv'
<1>0. BuildingInv /\ pc \in [Publisher -> Steps \cup Handling \cup Ends]
  BY DEF PathInv, TypeOK
<1>1. CASE ~(p \in stage \/ kind = "report")
  <2>1. Raise(p, "error") /\ Quiet /\ pc[p] \in Steps
    BY <1>1 DEF Sync, Check, Steps
  <2> QED
    BY <2>1, RaiseRaises, RaiseKeeps DEF PathInv
<1>2. CASE p \in stage \/ kind = "report"
  <2>1. /\ UNCHANGED <<kind, published, undoing, output, content, outputSafe, altered,
                       meddling, losses>>
        /\ pc[p] = "sync" /\ pc' = [pc EXCEPT ![p] = AfterSync] /\ synced' = synced \cup {p}
    BY <1>2 DEF Sync, Check
  <2>2. AfterSync \in {"checkStage", "verifyStage", "rename"}
    BY DEF AfterSync
  <2>3. /\ pc'[p] \in {"checkStage", "verifyStage", "rename"}
        /\ \A q \in Publisher \ {p} : pc'[q] = pc[q]
    BY <1>0, <2>1, <2>2
  <2>4. BuildingInv'
    BY <2>1, <2>3 DEF PathInv, BuildingInv, Building, Written, TreeDurable, Renamed,
      EntryDurable, Returned
  <2>5. WrittenInv'
    BY <2>1, <2>3 DEF PathInv, WrittenInv, Lasting, Written
  <2>6. RenamedInv' /\ VerifiedInv'
    BY <2>1, <2>3 DEF PathInv, RenamedInv, VerifiedInv, Lasting, Renamed, EntryDurable, Returned
  <2>7. UndoInv' /\ RejectedIsWithdrawn'
    BY <2>1, <2>3 DEF PathInv, UndoInv, RejectedIsWithdrawn, Handling
  <2>8. WholeInv'
    BY <2>1, <2>3 DEF PathInv, WholeInv, Lasting, Handling
  <2> QED
    BY <2>4, <2>5, <2>6, <2>7, <2>8 DEF PathInv
<1> QED
  BY <1>1, <1>2

LEMMA RenameKeeps ==
    ASSUME PathInv, TypeOK', NEW p \in Publisher, Rename(p)
    PROVE  PathInv'
<1>0. BuildingInv /\ pc \in [Publisher -> Steps \cup Handling \cup Ends]
  BY DEF PathInv, TypeOK
<1>1. CASE ~(p \in stage /\ output = None)
  <2>1. Raise(p, "error") /\ Quiet /\ pc[p] \in Steps
    BY <1>1 DEF Rename, Check, Steps
  <2> QED
    BY <2>1, RaiseRaises, RaiseKeeps DEF PathInv
<1>2. CASE p \in stage /\ output = None
  <2>1. /\ UNCHANGED <<kind, published, undoing, content, synced, altered, meddling, losses>>
        /\ pc[p] = "rename" /\ pc' = [pc EXCEPT ![p] = AfterRename]
        /\ output = None /\ output' = p
    BY <1>2 DEF Rename, Check
  <2>2. AfterRename \in {"syncParent", "flag"}
    BY DEF AfterRename
  <2>3. /\ pc'[p] \in {"syncParent", "flag"}
        /\ \A q \in Publisher \ {p} : pc'[q] = pc[q]
    BY <1>0, <2>1, <2>2
  <2>4. /\ Lasting => content[p] = File
        /\ kind # "candidate" => p \in synced
    BY <2>1 DEF PathInv, WrittenInv, Written, TreeDurable
  <2>5. \A q \in Publisher : output # q
    BY <1>2, PublicationAssumption
  <2>6. BuildingInv'
    BY <2>1, <2>3 DEF PathInv, BuildingInv, Building, Written, TreeDurable, Renamed
  <2>7. WrittenInv'
    BY <2>1, <2>3, <2>4 DEF PathInv, WrittenInv, Lasting
  <2>8. RenamedInv' /\ VerifiedInv'
    BY <2>1, <2>3, <2>5 DEF PathInv, RenamedInv, VerifiedInv, Lasting, EntryDurable, Returned
  <2>9. UndoInv' /\ RejectedIsWithdrawn'
    BY <2>1, <2>3, <2>5 DEF PathInv, UndoInv, RejectedIsWithdrawn, Handling
  <2>10. WholeInv'
    BY <2>1, <2>3, <2>4 DEF PathInv, WholeInv, Lasting
  <2> QED
    BY <2>6, <2>7, <2>8, <2>9, <2>10 DEF PathInv
<1> QED
  BY <1>1, <1>2

LEMMA FlagKeeps ==
    ASSUME PathInv, TypeOK', NEW p \in Publisher, Flag(p) \/ SyncParent(p)
    PROVE  PathInv'
<1>1. pc \in [Publisher -> Steps \cup Handling \cup Ends]
  BY DEF PathInv, TypeOK
<1>2. /\ UNCHANGED <<kind, undoing, output, content, synced, altered, meddling, losses>>
      /\ published' \in {published, published \cup {p}}
      /\ outputSafe' \in {outputSafe, TRUE}
      /\ pc[p] \in {"flag", "syncParent"}
  BY DEF Flag, SyncParent
<1>3. /\ pc'[p] \in {"syncParent", "checkOutput", "return", "verifyOutput"}
      /\ pc'[p] = "return" => kind = "report"
      /\ pc'[p] \in {"return", "verifyOutput"} => outputSafe' = TRUE
      /\ \A q \in Publisher \ {p} : pc'[q] = pc[q]
  BY <1>1 DEF Flag, SyncParent
<1>4. BuildingInv'
  BY <1>2, <1>3 DEF PathInv, BuildingInv, Building, Written, TreeDurable, Renamed, EntryDurable,
    Returned
<1>5. WrittenInv'
  BY <1>2, <1>3 DEF PathInv, WrittenInv, Lasting, Written, TreeDurable, Renamed
<1>6. RenamedInv'
  BY <1>2, <1>3 DEF PathInv, RenamedInv, Lasting, Renamed, EntryDurable, Returned
<1>7. VerifiedInv'
  BY <1>2, <1>3, PublicationAssumption DEF PathInv, VerifiedInv, Returned, Trainers
<1>8. UndoInv' /\ RejectedIsWithdrawn'
  BY <1>2, <1>3 DEF PathInv, UndoInv, RejectedIsWithdrawn, Handling
<1>9. WholeInv'
  BY <1>2, <1>3 DEF PathInv, WholeInv, Lasting, Handling
<1> QED
  BY <1>4, <1>5, <1>6, <1>7, <1>8, <1>9 DEF PathInv

LEMMA ClearKeeps ==
    ASSUME PathInv, TypeOK', NEW p \in Publisher, Clear(p)
    PROVE  PathInv'
<1>0. /\ pc \in [Publisher -> Steps \cup Handling \cup Ends]
      /\ content \in [Publisher -> SUBSET File]
      /\ (p \in stage => output # p)
  BY DEF PathInv, TypeOK
<1>1. /\ UNCHANGED <<kind, published, undoing, stage, output, outputSafe, altered,
                     meddling, losses>>
      /\ pc[p] = "clear" /\ undoing[p] # "nothing"
  BY DEF Clear, PathInv, UndoInv, Handling
<1>2. undoing[p] = "stage" /\ kind # "report" /\ output = p => LostStage(p)
  BY <1>0, <1>1 DEF PathInv, UndoInv, Handling, LostStage
<1>3. /\ pc'[p] \in {"failed", "look", "remove", "clear"}
      /\ pc'[p] = "failed" <=> LostStage(p)
      /\ pc'[p] \in {"look", "remove"} => content'[p] = {}
      /\ LostStage(p) => UNCHANGED <<content, synced>>
      /\ \A q \in Publisher \ {p} : /\ pc'[q] = pc[q] /\ content'[q] = content[q]
                                    /\ q \in synced' <=> q \in synced
  BY <1>0, <1>1 DEF Clear
<1>4. BuildingInv'
  BY <1>1, <1>3 DEF PathInv, BuildingInv, Building, Written, TreeDurable, Renamed, EntryDurable,
    Returned
<1>5. WrittenInv'
  BY <1>1, <1>3 DEF PathInv, WrittenInv, Lasting, Written, TreeDurable, Renamed, EntryDurable,
    Returned
<1>6. RenamedInv' /\ VerifiedInv'
  BY <1>1, <1>3 DEF PathInv, RenamedInv, VerifiedInv, Lasting, Renamed, EntryDurable, Returned
<1>7. UndoInv'
  BY <1>1, <1>2, <1>3 DEF PathInv, UndoInv, Handling
<1>8. RejectedIsWithdrawn'
  BY <1>1, <1>3 DEF PathInv, UndoInv, RejectedIsWithdrawn, Handling, LostStage
<1>9. WholeInv'
  <2> SUFFICES ASSUME NEW q \in Publisher,
                      kind # "report" /\ Lasting /\ output = q, pc'[q] # "aborted",
                      ~(pc'[q] \in Handling /\ undoing[q] = "output"),
                      ~(pc'[q] = "dead" /\ undoing[q] # "nothing")
               PROVE  content'[q] = File /\ (kind # "candidate" => q \in synced')
    BY <1>1 DEF WholeInv, Lasting
  <2>1. CASE q = p
    <3>1. undoing[p] = "stage"
      <4>1. undoing[p] \in {"stage", "output"}
        BY <1>1 DEF PathInv, TypeOK
      <4>2. undoing[p] = "output" => pc'[p] = "failed"
        BY <1>3, <2>1 DEF Handling
      <4> QED
        BY <1>3, <4>1, <4>2 DEF LostStage
    <3> QED
      BY <1>1, <1>2, <1>3, <2>1, <3>1 DEF PathInv, WholeInv, Handling
  <2>2. CASE q # p
    BY <1>3, <2>2 DEF PathInv, WholeInv
  <2> QED
    BY <2>1, <2>2
<1> QED
  BY <1>4, <1>5, <1>6, <1>7, <1>8, <1>9 DEF PathInv

LEMMA LookKeeps ==
    ASSUME PathInv, TypeOK', NEW p \in Publisher, LookAgain(p)
    PROVE  PathInv'
<1>0. /\ pc \in [Publisher -> Steps \cup Handling \cup Ends]
      /\ undoing[p] \in {"nothing", "stage", "output"}
      /\ (p \in stage => output # p)
  BY DEF PathInv, TypeOK
<1>1. /\ Quiet /\ UNCHANGED undoing
      /\ pc[p] = "look" /\ undoing[p] # "nothing" /\ pc'[p] \in {"failed", "remove"}
      /\ undoing[p] = "output" /\ pc'[p] = "failed" => output # p
      /\ \A q \in Publisher \ {p} : pc'[q] = pc[q]
  BY <1>0 DEF LookAgain, PathInv, UndoInv, Handling
<1>2. BuildingInv'
  BY <1>1 DEF PathInv, BuildingInv, Building, Written, TreeDurable, Renamed, EntryDurable, Returned
<1>3. WrittenInv'
  BY <1>1 DEF PathInv, WrittenInv, Lasting, Written, TreeDurable, Renamed, EntryDurable, Returned
<1>4. RenamedInv' /\ VerifiedInv'
  BY <1>1 DEF PathInv, RenamedInv, VerifiedInv, Lasting, Renamed, EntryDurable, Returned
<1>5. UndoInv'
  BY <1>1 DEF PathInv, UndoInv, Handling
<1>6. RejectedIsWithdrawn'
  BY <1>1 DEF PathInv, UndoInv, RejectedIsWithdrawn, Handling
<1>7. WholeInv'
  BY <1>0, <1>1 DEF PathInv, WholeInv, UndoInv, Lasting, Handling
<1> QED
  BY <1>2, <1>3, <1>4, <1>5, <1>6, <1>7 DEF PathInv

LEMMA RemoveKeeps ==
    ASSUME PathInv, TypeOK', NEW p \in Publisher, Remove(p)
    PROVE  PathInv'
<1>0. /\ pc \in [Publisher -> Steps \cup Handling \cup Ends]
      /\ undoing[p] \in {"nothing", "stage", "output"}
  BY DEF PathInv, TypeOK
<1>1. /\ UNCHANGED <<kind, published, undoing, content, synced, altered, meddling, losses>>
      /\ pc[p] = "remove" /\ undoing[p] # "nothing"
      /\ pc'[p] = "failed" /\ \A q \in Publisher \ {p} : pc'[q] = pc[q]
  BY <1>0 DEF Remove, PathInv, UndoInv, Handling
<1>2. /\ output' \in {output, None} /\ (outputSafe => outputSafe')
      /\ output' # output => output' = None /\ IsEmpty(output) /\ undoing[p] = "output"
      /\ undoing[p] = "output" => output' # p
  <2>1. content[p] = {}
    BY <1>1 DEF PathInv, UndoInv
  <2> QED
    BY <1>1, <2>1, PublicationAssumption DEF Remove, IsEmpty
<1>3. \A q \in Publisher : /\ output' = q => output = q
                           /\ output = q => output' = q \/ content[q] = {}
  BY <1>2, PublicationAssumption DEF IsEmpty
<1>4. BuildingInv'
  BY <1>1, <1>3 DEF PathInv, BuildingInv, Building, Written, TreeDurable, Renamed, EntryDurable,
    Returned
<1>5. WrittenInv'
  BY <1>1 DEF PathInv, WrittenInv, Lasting, Written, TreeDurable, Renamed, EntryDurable, Returned
<1>6. RenamedInv' /\ VerifiedInv'
  <2>1. \A q \in Publisher : pc[q] \in Renamed /\ Lasting => content[q] # {}
    BY PublicationAssumption DEF PathInv, WrittenInv, Written, TreeDurable
  <2> QED
    BY <1>1, <1>2, <1>3, <2>1 DEF PathInv, RenamedInv, VerifiedInv, Lasting, Renamed, EntryDurable,
      Returned
<1>7. UndoInv' /\ RejectedIsWithdrawn'
  <2>1. meddling = 0 /\ output' # output => output = p
    BY <1>1, <1>2 DEF PathInv, UndoInv, Handling
  <2> QED
    BY <1>1, <1>2, <1>3, <2>1 DEF PathInv, UndoInv, RejectedIsWithdrawn, Handling
<1>8. WholeInv'
  BY <1>0, <1>1, <1>2, <1>3 DEF PathInv, WholeInv, Lasting, Handling
<1> QED
  BY <1>4, <1>5, <1>6, <1>7, <1>8 DEF PathInv

LEMMA CutShort ==
    ASSUME PathInv, TypeOK', NEW p \in Publisher, Abort(p) \/ Kill(p)
    PROVE  PathInv'
<1>0. pc \in [Publisher -> Steps \cup Handling \cup Ends]
  BY DEF PathInv, TypeOK
<1>1. /\ Quiet /\ undoing' = undoing /\ pc[p] \notin Ends
      /\ pc'[p] = "dead" \/ pc'[p] = "aborted"
      /\ \A q \in Publisher \ {p} : pc'[q] = pc[q]
  BY <1>0 DEF Abort, Kill, Handling, Ends
<1>2. BuildingInv'
  BY <1>1 DEF PathInv, BuildingInv, Building, Written, TreeDurable, Renamed, EntryDurable, Returned
<1>3. WrittenInv'
  BY <1>1 DEF PathInv, WrittenInv, Lasting, Written, TreeDurable, Renamed, EntryDurable, Returned
<1>4. RenamedInv' /\ VerifiedInv'
  BY <1>1 DEF PathInv, RenamedInv, VerifiedInv, Lasting, Renamed, EntryDurable, Returned
<1>5. UndoInv' /\ RejectedIsWithdrawn'
  BY <1>1 DEF PathInv, UndoInv, RejectedIsWithdrawn, Handling
<1>6. WholeInv'
  BY <1>1 DEF PathInv, WholeInv, UndoInv, Lasting, Handling, Ends
<1> QED
  BY <1>2, <1>3, <1>4, <1>5, <1>6 DEF PathInv

LEMMA MeddlingKeeps ==
    ASSUME PathInv, TypeOK',
           MoveOutput \/ OccupyOutput \/ \E p \in Publisher : MoveStage(p) \/ Alter(p)
    PROVE  PathInv'
<1>1. /\ UNCHANGED <<kind, callVars, content, synced, losses>>
      /\ meddling' # 0
      /\ \A q \in Publisher : output' = q => output = q
  BY PublicationAssumption DEF MoveOutput, OccupyOutput, MoveStage, Alter, PathInv, TypeOK
<1>2. BuildingInv' /\ WrittenInv' /\ RenamedInv'
  BY <1>1 DEF PathInv, BuildingInv, WrittenInv, RenamedInv, Lasting
<1>3. VerifiedInv'
  BY <1>1 DEF PathInv, VerifiedInv, Returned, MoveOutput, OccupyOutput, MoveStage, Alter, Ends
<1>4. UndoInv' /\ RejectedIsWithdrawn'
  BY <1>1 DEF PathInv, UndoInv, RejectedIsWithdrawn
<1>5. WholeInv'
  BY <1>1 DEF PathInv, WholeInv, Lasting
<1> QED
  BY <1>2, <1>3, <1>4, <1>5 DEF PathInv

LEMMA PowerLossKeeps ==
    ASSUME PathInv, TypeOK', PowerLoss
    PROVE  PathInv'
<1>1. /\ UNCHANGED <<kind, published, undoing, synced, altered, meddling>>
      /\ losses' # 0 /\ outputSafe' = TRUE
      /\ \A q \in Publisher : /\ output' = q => output = q
                              /\ outputSafe => output' = output
                              /\ q \in synced => content'[q] = content[q]
                              /\ pc'[q] = IF pc[q] \in Ends THEN pc[q] ELSE "dead"
  BY PublicationAssumption DEF PowerLoss, PathInv, TypeOK
<1>2. \A q \in Publisher : pc'[q] \in Ends /\ (pc'[q] # "dead" => pc'[q] = pc[q])
  BY <1>1 DEF Ends
<1>3. BuildingInv'
  BY <1>2 DEF BuildingInv, Building, Written, TreeDurable, Renamed, EntryDurable, Returned, Ends
<1>4. \A q \in Publisher : pc'[q] \in Written => pc'[q] = "success" /\ pc[q] = "success"
  BY <1>2 DEF Written, TreeDurable, Renamed, EntryDurable, Returned, Ends
<1>5. WrittenInv'
  <2>1. "success" \in Written /\ "success" \in TreeDurable /\ TreeDurable \subseteq Written
        /\ "checkStage" \in Written
    BY DEF Written, TreeDurable, Renamed, EntryDurable, Returned
  <2> QED
    BY <1>1, <1>4, <2>1 DEF PathInv, WrittenInv, Lasting
<1>6. RenamedInv' /\ VerifiedInv'
  <2>1. "success" \in Renamed /\ "success" \in EntryDurable /\ "success" \in Returned
        /\ Renamed \subseteq Written /\ Returned \subseteq Written
        /\ "checkOutputAgain" \in Written
    BY DEF Written, TreeDurable, Renamed, EntryDurable, Returned
  <2> QED
    BY <1>1, <1>4, <2>1 DEF PathInv, RenamedInv, VerifiedInv, Lasting
<1>7. UndoInv' /\ RejectedIsWithdrawn'
  BY <1>1, <1>2 DEF PathInv, UndoInv, RejectedIsWithdrawn, Handling, Ends
<1>8. WholeInv'
  BY <1>1, <1>2 DEF PathInv, WholeInv, Lasting, Handling, Ends
<1> QED
  BY <1>3, <1>5, <1>6, <1>7, <1>8 DEF PathInv

----------------------------------------------------------------------------
(* The private directories.                                                *)

\* What StageInv and NoStageLeft say of one call.
StageKept(p) ==
    losses = 0 =>
        /\ \/ pc[p] \in {"exists", "stage"} \cup Renamed
           \/ p \in published
           \/ pc[p] \in Handling /\ undoing[p] = "output"
           => p \notin stage
        /\ pc[p] = "runtime" => kind = "encoder"
        /\ p \in guarded \cup published => pc[p] \notin Preparing
        /\ /\ pc[p] = "failed"
           /\ \/ kind # "reference" /\ p \in guarded
              \/ kind \notin Trainers /\ interrupts = 0
           => p \notin stage

LEMMA StageKeptIsInv ==
    (StageInv /\ NoStageLeft) <=> \A p \in Publisher : StageKept(p)
  BY DEF StageInv, NoStageLeft, StageKept

\* What a step does to the other calls: it gives none of them a directory.
OthersKept(p) ==
    /\ UNCHANGED <<kind, losses>>
    /\ interrupts' = 0 => interrupts = 0
    /\ \A q \in Publisher \ {p} :
          /\ pc'[q] = pc[q] /\ undoing'[q] = undoing[q]
          /\ q \in stage' => q \in stage
          /\ (q \in guarded' <=> q \in guarded) /\ (q \in published' <=> q \in published)

LEMMA OthersKeep ==
    ASSUME NEW p \in Publisher, \A q \in Publisher : StageKept(q), OthersKept(p), StageKept(p)'
    PROVE  \A q \in Publisher : StageKept(q)'
<1> TAKE q \in Publisher
<1>1. CASE q = p
  BY <1>1
<1>2. CASE q # p
  BY <1>2 DEF StageKept, OthersKept
<1> QED
  BY <1>1, <1>2

\* Raising leaves a stage behind only where NoStageLeft allows it.
LEMMA RaiseKeepsStage ==
    ASSUME PathInv, NEW p \in Publisher, \A q \in Publisher : StageKept(q), pc[p] \in Steps,
           NEW e \in {"error", "interrupt"}, Raise(p, e), pc[p] = "enter" => e = "interrupt",
           UNCHANGED <<kind, guarded, published, stage, output, losses>>,
           interrupts' = 0 => interrupts = 0 /\ e = "error"
    PROVE  \A q \in Publisher : StageKept(q)'
<1>1. /\ pc \in [Publisher -> Steps \cup Handling \cup Ends]
      /\ undoing \in [Publisher -> {"nothing", "stage", "output"}]
      /\ kind \in AllKinds /\ (output = p => p \notin stage)
  BY PublicationAssumption DEF PathInv, TypeOK
<1>2. OthersKept(p) /\ pc'[p] \in {"failed", "clear"}
  BY <1>1 DEF OthersKept, Raise
<1>3. pc'[p] = "clear" => undoing'[p] = Undoes(p, e)
  BY <1>1 DEF Raise
<1>4. pc'[p] = "failed" => Unguarded(p) \/ Undoes(p, e) = "nothing"
  BY <1>1 DEF Raise
<1>5. Undoes(p, e) = "output" => output = p
  BY DEF Undoes, WithdrawsOutput
<1>6. StageKept(p)'
  <2> SUFFICES ASSUME losses = 0
               PROVE  StageKept(p)'
    BY DEF StageKept
  <2>1. pc'[p] = "clear" /\ undoing'[p] = "output" => p \notin stage
    BY <1>1, <1>3, <1>5
  <2>2. p \in published => p \notin stage
    BY DEF StageKept
  <2>3. ASSUME pc'[p] = "failed",
               \/ kind # "reference" /\ p \in guarded
               \/ kind \notin Trainers /\ interrupts' = 0
        PROVE  p \notin stage
    <3>1. CASE pc[p] \in {"exists", "stage"} \cup Renamed
      BY <3>1 DEF StageKept
    <3>2. CASE pc[p] \in {"runtime", "enter"}
      BY <2>3, <3>2 DEF StageKept, Trainers
    <3>3. CASE pc[p] \notin Preparing \cup Renamed
      <4>1. Undoes(p, e) = "nothing"
        BY <1>4, <2>3, <3>3 DEF Unguarded, Renamed, EntryDurable
      <4>2. ~RemovesStage(p, e) /\ ~WithdrawsOutput(p)
        BY <4>1 DEF Undoes
      <4> QED
        BY <1>1, <2>2, <2>3, <4>2 DEF RemovesStage, WithdrawsOutput, Trainers, AllKinds
    <3> QED
      BY <3>1, <3>2, <3>3
  <2> QED
    BY <1>2, <2>1, <2>2, <2>3
       DEF StageKept, Renamed, EntryDurable, Returned, Handling
<1> QED
  BY <1>2, <1>6, OthersKeep

\* A step that goes on keeps what is said of its stage, if the step it goes on
\* to does not come before the stage is made or after it is renamed.
LEMMA AdvanceKeepsStage ==
    ASSUME PathInv, NEW p \in Publisher, \A q \in Publisher : StageKept(q), pc[p] \in Steps,
           NEW step \in Steps \cup {"success"}, pc' = [pc EXCEPT ![p] = step],
           step \notin {"exists", "runtime"},
           step \in Renamed => pc[p] \in Renamed,
           step = "stage" => pc[p] = "exists", step = "enter" => pc[p] = "runtime",
           UNCHANGED <<kind, published, undoing, stage, losses, interrupts>>,
           guarded' \in {guarded, guarded \cup {p}}, step \in Preparing => guarded' = guarded
    PROVE  \A q \in Publisher : StageKept(q)'
<1>1. pc \in [Publisher -> Steps \cup Handling \cup Ends]
  BY DEF PathInv, TypeOK
<1>2. OthersKept(p) /\ pc'[p] = step
  BY <1>1 DEF OthersKept
<1>3. StageKept(p)'
  <2> SUFFICES ASSUME losses = 0
               PROVE  StageKept(p)'
    BY DEF StageKept
  <2>1. p \in published => p \notin stage
    BY DEF StageKept
  <2>2. step \in {"exists", "stage"} \cup Renamed => p \notin stage
    BY DEF StageKept
  <2>3. p \in guarded' \cup published => step \notin Preparing
    BY DEF StageKept
  <2> QED
    BY <1>2, <2>1, <2>2, <2>3 DEF StageKept, Handling, Steps
<1> QED
  BY <1>2, <1>3, OthersKeep

LEMMA CheckKeepsStage ==
    ASSUME PathInv, NEW p \in Publisher, \A q \in Publisher : StageKept(q), pc[p] \in Steps,
           NEW holds, NEW step \in Steps \cup {"success"}, Check(p, holds, step),
           step \notin {"exists", "runtime", "enter"}, pc[p] # "enter",
           step \in Renamed => pc[p] \in Renamed,
           step = "stage" => pc[p] = "exists",
           UNCHANGED <<kind, guarded, published, stage, output, losses, interrupts>>
    PROVE  \A q \in Publisher : StageKept(q)'
<1>1. CASE holds
  BY <1>1, AdvanceKeepsStage DEF Check
<1>2. CASE ~holds
  BY <1>2, RaiseKeepsStage DEF Check
<1> QED
  BY <1>1, <1>2

\* Each step of a call keeps what is said of the stages.
LEMMA StepKeepsStage ==
    ASSUME PathInv, NEW p \in Publisher, \A q \in Publisher : StageKept(q), Step(p)
    PROVE  \A q \in Publisher : StageKept(q)'
<1>0. /\ pc \in [Publisher -> Steps \cup Handling \cup Ends]
      /\ undoing \in [Publisher -> {"nothing", "stage", "output"}]
      /\ kind \in AllKinds /\ guarded \subseteq Publisher
  BY PublicationAssumption DEF PathInv, TypeOK
<1> USE DEF Steps
<1>1. CASE Exists(p)
  BY <1>1, CheckKeepsStage DEF Exists, Renamed, EntryDurable, Returned
<1>2. CASE MakeStage(p)
  <2>1. /\ OthersKept(p) /\ UNCHANGED <<kind, guarded, published, undoing, losses>>
        /\ pc'[p] \in {"runtime", "enter"} /\ (pc'[p] = "runtime" <=> kind = "encoder")
    BY <1>0, <1>2 DEF MakeStage, OthersKept
  <2>2. losses = 0 => p \notin guarded \cup published
    BY <1>2 DEF MakeStage, StageKept
  <2>3. StageKept(p)'
    BY <2>1, <2>2 DEF StageKept, Handling, Renamed, EntryDurable, Returned
  <2> QED
    BY <2>1, <2>3, OthersKeep
<1>3. CASE MakeRuntime(p)
  <2>1. /\ pc[p] = "runtime" /\ pc' = [pc EXCEPT ![p] = "enter"] /\ guarded' = guarded
        /\ UNCHANGED <<kind, published, undoing, stage, losses, interrupts>>
    BY <1>3 DEF MakeRuntime
  <2>2. /\ pc[p] \in Steps /\ "enter" \in Steps \cup {"success"} /\ "enter" \notin Renamed
        /\ guarded' \in {guarded, guarded \cup {p}}
    BY <2>1 DEF Renamed, EntryDurable, Returned
  <2>3. PICK step \in Steps \cup {"success"} : step = "enter"
    BY <2>2
  <2>4. pc' = [pc EXCEPT ![p] = step]
    BY <2>1, <2>3
  <2> QED
    BY <2>1, <2>2, <2>3, <2>4, AdvanceKeepsStage
<1>4. CASE Pin(p)
  <2>1. CASE p \in stage
    BY <1>4, <2>1, AdvanceKeepsStage DEF Pin, Check, Renamed, EntryDurable, Returned
  <2>2. CASE p \notin stage
    BY <1>4, <2>2, RaiseKeepsStage DEF Pin, Check
  <2> QED
    BY <2>1, <2>2
<1>5. CASE Write(p)
  <2>1. CASE p \notin stage /\ kind \notin {"report", "candidate"}
    BY <1>5, <2>1, RaiseKeepsStage DEF Write
  <2>2. CASE ~(p \notin stage /\ kind \notin {"report", "candidate"}) /\ pc' # pc
    <3>1. /\ pc' = [pc EXCEPT ![p] = AfterWrite]
          /\ UNCHANGED <<kind, guarded, published, undoing, stage, losses, interrupts>>
      BY <1>5, <2>2 DEF Write
    <3>2. AfterWrite \in {"checkStage", "rename", "sync"}
      BY DEF AfterWrite
    <3>3. pc[p] = "write"
      BY <1>5 DEF Write
    <3> QED
      BY <3>1, <3>2, <3>3, AdvanceKeepsStage DEF Renamed, EntryDurable, Returned
  <2>3. CASE ~(p \notin stage /\ kind \notin {"report", "candidate"}) /\ pc' = pc
    BY <1>5, <2>3 DEF Write, StageKept
  <2> QED
    BY <2>1, <2>2, <2>3
<1>6. CASE Sync(p)
  <2>1. AfterSync \in {"checkStage", "verifyStage", "rename"}
    BY DEF AfterSync
  <2> QED
    BY <1>6, <2>1, CheckKeepsStage DEF Sync, Renamed, EntryDurable, Returned
<1>7. CASE CheckStage(p)
  BY <1>7, CheckKeepsStage DEF CheckStage, Renamed, EntryDurable, Returned
<1>8. CASE VerifyStage(p)
  BY <1>8, CheckKeepsStage DEF VerifyStage, Renamed, EntryDurable, Returned
<1>9. CASE CheckStageAgain(p)
  BY <1>9, CheckKeepsStage DEF CheckStageAgain, Renamed, EntryDurable, Returned
<1>10. CASE Rename(p)
  <2>1. CASE p \in stage /\ output = None
    <3>1. /\ OthersKept(p) /\ pc'[p] \in {"flag", "syncParent"} /\ p \notin stage'
          /\ UNCHANGED <<kind, guarded, published, undoing, losses>>
      BY <1>0, <1>10, <2>1 DEF Rename, Check, OthersKept, AfterRename
    <3>2. StageKept(p)'
      BY <3>1 DEF StageKept
    <3> QED
      BY <3>1, <3>2, OthersKeep
  <2>2. CASE ~(p \in stage /\ output = None)
    BY <1>10, <2>2, RaiseKeepsStage DEF Rename, Check
  <2> QED
    BY <2>1, <2>2
<1>11. CASE Flag(p)
  <2>1. /\ OthersKept(p) /\ pc'[p] \in {"syncParent", "checkOutput"}
        /\ UNCHANGED <<kind, undoing, stage, losses>>
    BY <1>0, <1>11 DEF Flag, OthersKept
  <2>2. losses = 0 => p \notin stage
    BY <1>11 DEF Flag, StageKept, Renamed
  <2>3. StageKept(p)'
    BY <2>1, <2>2 DEF StageKept
  <2> QED
    BY <2>1, <2>3, OthersKeep
<1>12. CASE CheckOutput(p)
  BY <1>12, CheckKeepsStage DEF CheckOutput, Renamed, EntryDurable, Returned
<1>13. CASE SyncParent(p)
  <2>1. PICK step \in {"return", "verifyOutput"} :
          /\ pc' = [pc EXCEPT ![p] = step]
          /\ UNCHANGED <<kind, guarded, published, undoing, stage, losses, interrupts>>
    BY <1>13 DEF SyncParent
  <2>2. pc[p] = "syncParent"
    BY <1>13 DEF SyncParent
  <2> QED
    BY <2>1, <2>2, AdvanceKeepsStage DEF Renamed
<1>14. CASE VerifyOutput(p)
  BY <1>14, CheckKeepsStage DEF VerifyOutput, Renamed, EntryDurable, Returned
<1>15. CASE CheckOutputAgain(p)
  BY <1>15, CheckKeepsStage DEF CheckOutputAgain, Renamed, EntryDurable, Returned
<1>16. CASE Return(p)
  BY <1>16, AdvanceKeepsStage DEF Return, Renamed, EntryDurable, Returned
<1>17. CASE Clear(p)
  <2>1. /\ OthersKept(p) /\ pc'[p] \in {"failed", "look", "remove", "clear"}
        /\ UNCHANGED <<kind, guarded, published, undoing, stage, losses>>
        /\ pc'[p] = "failed" => p \notin stage
    BY <1>0, <1>17 DEF Clear, OthersKept, LostStage
  <2>2. StageKept(p)'
    BY <1>17, <2>1 DEF Clear, StageKept, Handling, Renamed, EntryDurable, Returned
  <2> QED
    BY <2>1, <2>2, OthersKeep
<1>18. CASE Remove(p)
  <2>1. /\ OthersKept(p) /\ pc'[p] = "failed"
        /\ UNCHANGED <<kind, guarded, published, undoing, losses>>
    BY <1>0, <1>18 DEF Remove, OthersKept
  <2>2. undoing[p] \in {"stage", "output"}
    BY <1>0, <1>18 DEF Remove, PathInv, UndoInv, Handling
  <2>3. losses = 0 => p \notin stage'
    BY <1>18, <2>2 DEF Remove, StageKept, Handling
  <2>4. StageKept(p)'
    BY <2>1, <2>3 DEF StageKept, Renamed, EntryDurable, Returned
  <2> QED
    BY <2>1, <2>4, OthersKeep
<1>19. CASE Enter(p)
  <2>1. PICK step \in {"pin", "write"} : pc' = [pc EXCEPT ![p] = step]
    BY <1>19 DEF Enter
  <2>2. /\ UNCHANGED <<kind, published, undoing, stage, losses, interrupts>>
        /\ guarded' \in {guarded, guarded \cup {p}} /\ pc[p] = "enter"
    BY <1>19 DEF Enter
  <2> QED
    BY <2>1, <2>2, AdvanceKeepsStage DEF Renamed, EntryDurable, Returned
<1>20. CASE LookAgain(p)
  <2>1. /\ OthersKept(p) /\ pc'[p] \in {"failed", "remove"}
        /\ UNCHANGED <<kind, guarded, published, undoing, stage, losses>>
        /\ pc'[p] = "failed" /\ undoing[p] # "output" => p \notin stage
        /\ pc[p] = "look"
    BY <1>0, <1>20 DEF LookAgain, OthersKept
  <2>2. StageKept(p)'
    BY <2>1 DEF StageKept, Handling, Renamed, EntryDurable, Returned
  <2> QED
    BY <2>1, <2>2, OthersKeep
<1> QED
  BY <1>1, <1>2, <1>3, <1>4, <1>5, <1>6, <1>7, <1>8, <1>9, <1>10, <1>11, <1>12, <1>13, <1>14,
    <1>15, <1>16, <1>17, <1>18, <1>19, <1>20 DEF Step

\* So do faults and other users: a stage moved away is not left behind, and
\* nothing is claimed after a power loss.
LEMMA NextKeepsStage ==
    ASSUME PathInv, \A q \in Publisher : StageKept(q), [Next]_vars
    PROVE  \A q \in Publisher : StageKept(q)'
<1>0. /\ pc \in [Publisher -> Steps \cup Handling \cup Ends]
      /\ interrupts \in Nat
  BY PublicationAssumption DEF PathInv, TypeOK
<1>1. ASSUME NEW p \in Publisher, Error(p)
      PROVE  \A q \in Publisher : StageKept(q)'
  <2>1. pc[p] \in Steps \ {"enter"} /\ Raise(p, "error")
    BY <1>0, <1>1 DEF Error
  <2> QED
    BY <1>1, <2>1, RaiseKeepsStage DEF Error
<1>2. ASSUME NEW p \in Publisher, Interrupt(p)
      PROVE  \A q \in Publisher : StageKept(q)'
  <2>1. pc[p] \in Steps /\ Raise(p, "interrupt") /\ interrupts' # 0
    BY <1>0, <1>2 DEF Interrupt
  <2> QED
    BY <1>2, <2>1, RaiseKeepsStage DEF Interrupt
<1>3. ASSUME NEW p \in Publisher, Abort(p) \/ Kill(p)
      PROVE  \A q \in Publisher : StageKept(q)'
  <2>1. OthersKept(p) /\ pc'[p] \in {"aborted", "dead"}
        /\ UNCHANGED <<kind, guarded, published, undoing, stage, losses>>
    BY <1>0, <1>3 DEF Abort, Kill, OthersKept
  <2>2. StageKept(p)'
    BY <2>1 DEF StageKept, Handling, Renamed, EntryDurable, Returned
  <2> QED
    BY <2>1, <2>2, OthersKeep
<1>4. ASSUME NEW p \in Publisher, MoveStage(p) \/ Alter(p)
      PROVE  \A q \in Publisher : StageKept(q)'
  BY <1>4 DEF MoveStage, Alter, StageKept
<1>5. CASE MoveOutput \/ OccupyOutput
  BY <1>5 DEF MoveOutput, OccupyOutput, StageKept
<1>6. CASE PowerLoss
  <2>1. losses' # 0
    BY <1>6, PublicationAssumption DEF PowerLoss, PathInv, TypeOK
  <2> QED
    BY <2>1 DEF StageKept
<1>7. CASE UNCHANGED vars
  BY <1>7 DEF vars, StageKept
<1> QED
  BY <1>1, <1>2, <1>3, <1>4, <1>5, <1>6, <1>7, StepKeepsStage DEF Next, Stop

----------------------------------------------------------------------------
(* Theorems.                                                               *)

LEMMA InitPathInv == Init => PathInv
<1> SUFFICES ASSUME Init PROVE PathInv
  OBVIOUS
<1>1. \A q \in Publisher : pc[q] = "exists" /\ output # q
  BY PublicationAssumption DEF Init
<1> QED
  BY <1>1, TypeInit DEF PathInv, BuildingInv, WrittenInv, RenamedInv, VerifiedInv, UndoInv, WholeInv,
    RejectedIsWithdrawn, Written, TreeDurable, Renamed, EntryDurable, Returned, Handling

LEMMA NextPathInv ==
    ASSUME PathInv, [Next]_vars
    PROVE  PathInv'
<1>0. TypeOK'
  BY TypeNext DEF PathInv
<1>1. ASSUME NEW p \in Publisher, Step(p) PROVE PathInv'
  BY <1>0, <1>1, BuildingSteps, WriteKeeps, SyncKeeps, RenameKeeps, FlagKeeps, PublishedSteps,
    ClearKeeps, LookKeeps, RemoveKeeps DEF Step
<1>2. CASE UNCHANGED vars
  BY <1>2 DEF vars, PathInv, TypeOK, BuildingInv, WrittenInv, RenamedInv, VerifiedInv, UndoInv,
    WholeInv, RejectedIsWithdrawn, Lasting
<1> QED
  BY <1>0, <1>1, <1>2, Exceptions, CutShort, MeddlingKeeps, PowerLossKeeps DEF Next, Stop

LEMMA InitIInv == Init => IInv
<1> SUFFICES ASSUME Init PROVE IInv
  OBVIOUS
<1>1. \A q \in Publisher : StageKept(q)
  BY DEF Init, StageKept, Handling
<1> QED
  BY <1>1, InitPathInv, StageKeptIsInv DEF IInv

LEMMA NextIInv ==
    ASSUME IInv, [Next]_vars
    PROVE  IInv'
<1>1. \A q \in Publisher : StageKept(q)
  BY StageKeptIsInv DEF IInv
<1>2. \A q \in Publisher : StageKept(q)'
  BY <1>1, NextKeepsStage DEF IInv
<1>3. StageInv' /\ NoStageLeft'
  BY <1>2 DEF StageInv, NoStageLeft, StageKept
<1> QED
  BY <1>3, NextPathInv DEF IInv

\* The inductive invariant: however many calls compete for a path, wherever
\* they raise, are interrupted, killed or lose power.
THEOREM Invariance == Spec => []IInv
  BY InitIInv, NextIInv, PTL DEF Spec

\* Every variable has its type, and no directory has two names.
THEOREM TypeCorrect == Spec => []TypeOK
<1>1. IInv => TypeOK
  BY DEF IInv, PathInv
<1> QED
  BY <1>1, Invariance, PTL

\* What a call has reported as published is there, complete, whatever the
\* competing calls do and, once durable, across power losses.
THEOREM SuccessIsKept == Spec => []SuccessStands
<1>1. IInv => SuccessStands
  BY DEF IInv, PathInv, SuccessStands, WrittenInv, RenamedInv, Lasting, Written, TreeDurable, Renamed,
    EntryDurable, Returned
<1> QED
  BY <1>1, Invariance, PTL

\* No implementation but the report's leaves part of its files at the output
\* path, provided that its handler was not itself cut short.
THEOREM OutputIsWhole ==
    ASSUME "report" \notin Kinds
    PROVE  Spec => []NoPartialOutput
<1>1. IInv => NoPartialOutput
  <2> SUFFICES ASSUME IInv, NEW p \in Publisher,
                      pc[p] \in {"success", "failed"} \/ (pc[p] = "dead" /\ undoing[p] = "nothing"),
                      output = p, kind = "candidate" => losses = 0
               PROVE  content[p] = File
    BY DEF NoPartialOutput
  <2>1. kind # "report" /\ Lasting /\ WholeInv
    BY DEF IInv, PathInv, TypeOK, Lasting
  <2> QED
    BY <2>1 DEF WholeInv, Handling
<1> QED
  BY <1>1, Invariance, PTL

\* A trainer that fails after publishing has withdrawn its output.
THEOREM RejectedOutputIsWithdrawn == Spec => []RejectedIsWithdrawn
<1>1. IInv => RejectedIsWithdrawn
  BY DEF IInv, PathInv
<1> QED
  BY <1>1, Invariance, PTL

\* Nothing was altered between the writes of a reported output and the last
\* comparison with its manifest.
THEOREM ReportedOutputIsVerified == Spec => []SuccessIsVerified
<1>1. IInv => SuccessIsVerified
  BY DEF IInv, PathInv, VerifiedInv, SuccessIsVerified, Returned
<1> QED
  BY <1>1, Invariance, PTL

\* No exception leaves a private directory behind, but for those the code is
\* not made to catch.
THEOREM StageIsCleared == Spec => []NoStageLeft
<1>1. IInv => NoStageLeft
  BY DEF IInv
<1> QED
  BY <1>1, Invariance, PTL

\* A call takes from the output path its own directory, or, when somebody who is no
\* call has changed the path, an empty one.
THEOREM OthersAreUntouched == Spec => OthersUntouched
<1>1. ASSUME IInv, NEW p \in Publisher, Step(p)
      PROVE  \/ output \in {None, p} \/ output' = output
             \/ meddling > 0 /\ IsEmpty(output)
  <2>1. CASE Remove(p)
    <3>1. UndoInv /\ meddling \in 0 .. MaxMeddling
      BY <1>1 DEF IInv, PathInv, TypeOK
    <3>2. meddling = 0 \/ meddling > 0
      BY <3>1, PublicationAssumption
    <3>3. pc[p] = "remove"
      BY <2>1 DEF Remove
    <3>4. undoing[p] = "output" /\ meddling = 0 => output = p
      BY <3>1, <3>3 DEF UndoInv, Handling
    <3> QED
      BY <2>1, <3>2, <3>4 DEF Remove
  <2>2. CASE ~Remove(p)
    BY <1>1, <2>2 DEF Step, Exists, MakeStage, MakeRuntime, Enter, Pin, Write, Sync, CheckStage,
      VerifyStage, CheckStageAgain, Rename, Flag, CheckOutput, SyncParent, VerifyOutput,
      CheckOutputAgain, Return, Clear, LookAgain
  <2> QED
    BY <2>1, <2>2
<1>2. IInv /\ [Next]_vars =>
        [\A p \in Publisher : Step(p) => \/ output \in {None, p} \/ output' = output
                                         \/ meddling > 0 /\ IsEmpty(output)]_vars
  BY <1>1
<1> QED
  BY <1>2, Invariance, PTL DEF Spec, OthersUntouched
=============================================================================
