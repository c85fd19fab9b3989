----------------------- MODULE DirectoryPublication -----------------------
(***************************************************************************)
(* Publication of a directory that must not exist yet, as five parts of    *)
(* ste-compiler do it: build in a private sibling directory, rename it     *)
(* without replacing anything, undo on failure.                            *)
(*                                                                         *)
(*   encoder    training/encoder_decoder.py _run_encoder_decoder_training  *)
(*   decoder    training/decoder_lora.py    _atomic_output_directory       *)
(*   report     evaluation/evidence.py      _publish_report                *)
(*   reference  reference_release.py        _write_atomic                  *)
(*   candidate  scripts/release/release_candidates.py                      *)
(*                                                                         *)
(* They differ in what they verify, in what they synchronise and above all *)
(* in their exception handlers.  A directory is identified by the call     *)
(* that made it, as the code does by device and inode, and its content is  *)
(* the set of files completely written to it.  Checkpoints are taken to be *)
(* flat: the encoder synchronises no directory below its stage.            *)
(***************************************************************************)
EXTENDS Naturals

CONSTANTS
    Publisher,      \* calls, which all publish to the same path
    Other,          \* a directory somebody else made, with something in it
    Empty,          \* a directory somebody else made, with nothing in it
    None,           \* nothing
    File,           \* the files of a complete output
    Kinds,          \* which of the five implementations run
    MaxErrors,      \* bound on system calls that fail
    MaxInterrupts,  \* bound on interrupts (KeyboardInterrupt) and kills
    MaxMeddling,    \* bound on changes made by somebody else
    MaxLosses       \* bound on power losses

Trainers == {"encoder", "decoder"}
AllKinds == Trainers \cup {"report", "reference", "candidate"}

ASSUME PublicationAssumption ==
    /\ {Other, Empty, None} \cap Publisher = {}
    /\ Other # Empty /\ None \notin {Other, Empty}
    /\ File # {}
    /\ Kinds \subseteq AllKinds
    /\ {MaxErrors, MaxInterrupts, MaxMeddling, MaxLosses} \subseteq Nat

VARIABLES
    kind,        \* the implementation
    pc,          \* the step each call is about to make, or how it ended
    guarded,     \* calls whose exception handler knows the stage they made
    published,   \* calls that have set their installed/published flag
    undoing,     \* the name whose directory a handler removes
    stage,       \* calls whose directory has its private name
    output,      \* the directory at the output path
    content,     \* the files of each call's directory
    synced,      \* calls whose directory and files are durable
    outputSafe,  \* the entry of the output path is durable
    altered,     \* calls whose directory was altered before its last check
    errors, interrupts, meddling, losses

callVars == <<pc, guarded, published, undoing>>
diskVars == <<stage, output, content, synced, outputSafe, altered>>
boundVars == <<errors, interrupts, meddling, losses>>
vars == <<kind, callVars, diskVars, boundVars>>

Init ==
    /\ kind \in Kinds
    /\ pc = [p \in Publisher |-> "exists"]
    /\ guarded = {} /\ published = {}
    /\ undoing = [p \in Publisher |-> "nothing"]
    /\ stage = {} /\ output = None
    /\ content = [p \in Publisher |-> {}]
    /\ synced = {} /\ outputSafe = TRUE /\ altered = {}
    /\ errors = 0 /\ interrupts = 0 /\ meddling = 0 /\ losses = 0

----------------------------------------------------------------------------
(* Exceptions.                                                             *)

\* The steps before the try statement, and after it.
Preparing == {"exists", "stage", "runtime", "enter"}

Unguarded(p) ==
    \/ pc[p] \in Preparing
    \/ kind = "reference" /\ pc[p] = "verifyOutput"

\* Fault: a failed verification leaves the published output in place.
UndoesStageOnly(p, exception) == IF p \in stage THEN "stage" ELSE "nothing"

\* Fault: the handlers are made for errors, not for interrupts.
UndoesErrors(p, exception) ==
    IF exception # "error" THEN "nothing"
    ELSE IF p \notin published THEN "stage"
    ELSE IF output = p THEN "output" ELSE "nothing"

\* Fault: the flag is all that a handler goes by, also the candidate's.
UndoesByFlag(p, exception) ==
    IF p \notin published THEN "stage"
    ELSE IF output = p THEN "output" ELSE "nothing"

\* Which directory the exception handler removes.  The reference's handler does
\* not see interrupts, and the candidate's checks which name the rename left.
WithdrawsOutput(p) == kind \in Trainers /\ p \in published /\ output = p

RemovesStage(p, exception) ==
    \/ kind = "encoder" /\ p \notin published
    \/ kind = "decoder" /\ p \in guarded \ published /\ p \in stage
    \/ kind = "report" /\ p \notin published
    \/ kind = "reference" /\ exception = "error" /\ p \in stage
    \/ kind = "candidate" /\ p \notin published /\ output # p /\ p \in stage

Undoes(p, exception) ==
    IF WithdrawsOutput(p) THEN "output"
    ELSE IF RemovesStage(p, exception) THEN "stage" ELSE "nothing"

Raise(p, exception) ==
    IF Unguarded(p) \/ Undoes(p, exception) = "nothing"
    THEN /\ pc' = [pc EXCEPT ![p] = "failed"]
         /\ UNCHANGED undoing
    ELSE /\ pc' = [pc EXCEPT ![p] = "clear"]
         /\ undoing' = [undoing EXCEPT ![p] = Undoes(p, exception)]

----------------------------------------------------------------------------
(* The steps of a call.  A step whose check fails raises.                  *)

At(p, step) == pc[p] = step
Goto(p, step) == pc' = [pc EXCEPT ![p] = step]
Check(p, holds, step) ==
    IF holds THEN Goto(p, step) /\ UNCHANGED undoing ELSE Raise(p, "error")

Exists(p) ==
    /\ At(p, "exists")
    /\ Check(p, output = None, "stage")
    /\ UNCHANGED <<kind, guarded, published, diskVars, boundVars>>

MakeStage(p) ==
    /\ At(p, "stage")
    /\ stage' = stage \cup {p}
    /\ Goto(p, IF kind = "encoder" THEN "runtime" ELSE "enter")
    /\ UNCHANGED <<kind, guarded, published, undoing, output, content, synced, outputSafe,
                   altered, boundVars>>

\* The encoder's second private directory, made before its try statement.
MakeRuntime(p) ==
    /\ At(p, "runtime")
    /\ Goto(p, "enter")
    /\ UNCHANGED <<kind, guarded, published, undoing, diskVars, boundVars>>

\* From the call that made the directory into the try statement, where only an
\* interrupt can get.  The decoder's handler clears what is pinned, no more.
Enter(p) ==
    /\ At(p, "enter")
    /\ Goto(p, IF kind \in Trainers THEN "pin" ELSE "write")
    /\ guarded' = IF kind = "decoder" THEN guarded ELSE guarded \cup {p}
    /\ UNCHANGED <<kind, published, undoing, diskVars, boundVars>>

Pin(p) ==
    /\ At(p, "pin")
    /\ Check(p, p \in stage, "write")
    /\ guarded' = IF p \in stage THEN guarded \cup {p} ELSE guarded
    /\ UNCHANGED <<kind, published, diskVars, boundVars>>

AfterWrite ==
    IF kind = "decoder" THEN "checkStage" ELSE IF kind = "candidate" THEN "rename" ELSE "sync"

AfterSync ==
    IF kind = "encoder" THEN "checkStage" ELSE IF kind = "decoder" THEN "verifyStage" ELSE "rename"

\* The report and the candidate write through the descriptor of their stage,
\* the others through its path.
Write(p) ==
    /\ At(p, "write")
    /\ IF p \notin stage /\ kind \notin {"report", "candidate"}
       THEN Raise(p, "error") /\ UNCHANGED content
       ELSE \E f \in File \ content[p] :
              /\ content' = [content EXCEPT ![p] = @ \cup {f}]
              /\ IF content'[p] = File THEN Goto(p, AfterWrite) ELSE UNCHANGED pc
              /\ UNCHANGED undoing
    /\ UNCHANGED <<kind, guarded, published, stage, output, synced, outputSafe, altered,
                   boundVars>>

\* Fault: the stage is renamed without having been made durable.
SyncSkipped(p) ==
    /\ At(p, "sync")
    /\ Check(p, TRUE, AfterSync)
    /\ UNCHANGED <<kind, guarded, published, diskVars, boundVars>>

Sync(p) ==
    /\ At(p, "sync")
    /\ LET reached == p \in stage \/ kind = "report"
       IN  /\ Check(p, reached, AfterSync)
           /\ synced' = IF reached THEN synced \cup {p} ELSE synced
    /\ UNCHANGED <<kind, guarded, published, stage, output, content, outputSafe, altered,
                   boundVars>>

CheckStage(p) ==
    /\ At(p, "checkStage")
    /\ Check(p, p \in stage, IF kind = "decoder" THEN "sync" ELSE "verifyStage")
    /\ UNCHANGED <<kind, guarded, published, diskVars, boundVars>>

\* Every file of the stage is compared with the manifest just computed.
VerifyStage(p) ==
    /\ At(p, "verifyStage")
    /\ Check(p, p \in stage /\ content[p] = File /\ p \notin altered, "checkStageAgain")
    /\ UNCHANGED <<kind, guarded, published, diskVars, boundVars>>

CheckStageAgain(p) ==
    /\ At(p, "checkStageAgain")
    /\ Check(p, p \in stage, "rename")
    /\ UNCHANGED <<kind, guarded, published, diskVars, boundVars>>

AfterRename == IF kind = "reference" THEN "syncParent" ELSE "flag"

\* renameat2(RENAME_NOREPLACE), or its macOS counterpart.
Rename(p) ==
    /\ At(p, "rename")
    /\ LET renamed == p \in stage /\ output = None
       IN  /\ Check(p, renamed, AfterRename)
           /\ stage' = IF renamed THEN stage \ {p} ELSE stage
           /\ output' = IF renamed THEN p ELSE output
           /\ outputSafe' = IF renamed THEN FALSE ELSE outputSafe
    /\ UNCHANGED <<kind, guarded, published, content, synced, altered, boundVars>>

\* The Python statement after the call, which an interrupt can precede.
Flag(p) ==
    /\ At(p, "flag")
    /\ published' = published \cup {p}
    /\ Goto(p, IF kind = "report" THEN "syncParent" ELSE "checkOutput")
    /\ UNCHANGED <<kind, guarded, undoing, diskVars, boundVars>>

CheckOutput(p) ==
    /\ At(p, "checkOutput")
    /\ Check(p, output = p, IF kind = "candidate" THEN "return" ELSE "syncParent")
    /\ UNCHANGED <<kind, guarded, published, diskVars, boundVars>>

SyncParent(p) ==
    /\ At(p, "syncParent")
    /\ outputSafe' = TRUE
    /\ Goto(p, IF kind = "report" THEN "return" ELSE "verifyOutput")
    /\ UNCHANGED <<kind, guarded, published, undoing, stage, output, content, synced, altered,
                   boundVars>>

\* Fault: the published output is trusted because the stage was verified.
VerifyOutputSkipped(p) ==
    /\ At(p, "verifyOutput")
    /\ Goto(p, IF kind = "reference" THEN "return" ELSE "checkOutputAgain")
    /\ UNCHANGED <<kind, guarded, published, undoing, diskVars, boundVars>>

VerifyOutput(p) ==
    /\ At(p, "verifyOutput")
    /\ Check(p, output = p /\ content[p] = File /\ p \notin altered,
             IF kind = "reference" THEN "return" ELSE "checkOutputAgain")
    /\ UNCHANGED <<kind, guarded, published, diskVars, boundVars>>

CheckOutputAgain(p) ==
    /\ At(p, "checkOutputAgain")
    /\ Check(p, output = p, "return")
    /\ UNCHANGED <<kind, guarded, published, diskVars, boundVars>>

Return(p) ==
    /\ At(p, "return")
    /\ Goto(p, "success")
    /\ UNCHANGED <<kind, guarded, published, undoing, diskVars, boundVars>>

----------------------------------------------------------------------------
(* The steps of an exception handler.                                      *)

\* shutil.rmtree and the reference's handler find the stage by its path, the
\* others work on the descriptor they hold.
LostStage(p) ==
    undoing[p] = "stage" /\ p \notin stage /\ kind \in {"encoder", "reference"}

\* All but shutil.rmtree and the reference's handler look at the name first.
Compares(p) == undoing[p] = "output" \/ kind \notin {"encoder", "reference"}

Clear(p) ==
    /\ At(p, "clear")
    /\ IF LostStage(p)
       THEN Goto(p, "failed") /\ UNCHANGED <<content, synced>>
       ELSE IF content[p] = {}
       THEN Goto(p, IF Compares(p) THEN "look" ELSE "remove") /\ UNCHANGED <<content, synced>>
       ELSE /\ \E f \in content[p] : content' = [content EXCEPT ![p] = @ \ {f}]
            /\ synced' = synced \ {p}
            /\ UNCHANGED pc
    /\ UNCHANGED <<kind, guarded, published, undoing, stage, output, outputSafe, altered,
                   boundVars>>

\* os.stat: does the name still belong to the directory just emptied?
LookAgain(p) ==
    /\ At(p, "look")
    /\ Goto(p, IF (IF undoing[p] = "output" THEN output = p ELSE p \in stage)
               THEN "remove" ELSE "failed")
    /\ UNCHANGED <<kind, guarded, published, undoing, diskVars, boundVars>>

\* A directory in which there is nothing.
IsEmpty(directory) ==
    directory = Empty \/ (directory \in Publisher /\ content[directory] = {})

\* Fault: shutil.rmtree takes whatever has the name, with all that is in it.
RemoveTree(p) ==
    /\ At(p, "remove")
    /\ Goto(p, "failed")
    /\ stage' = IF undoing[p] = "stage" THEN stage \ {p} ELSE stage
    /\ output' = IF undoing[p] = "output" THEN None ELSE output
    /\ outputSafe' = (undoing[p] = "output" \/ outputSafe)
    /\ UNCHANGED <<kind, guarded, published, undoing, content, synced, altered, boundVars>>

\* rmdir takes whatever has the name by now, if it is empty; the output's parent
\* is synchronised after that.
Remove(p) ==
    /\ At(p, "remove")
    /\ Goto(p, "failed")
    /\ LET removed == undoing[p] = "output" /\ IsEmpty(output)
       IN  /\ output' = IF removed THEN None ELSE output
           /\ outputSafe' = (removed \/ outputSafe)
    /\ stage' = IF undoing[p] = "stage" THEN stage \ {p} ELSE stage
    /\ UNCHANGED <<kind, guarded, published, undoing, content, synced, altered, boundVars>>

Step(p) ==
    \/ Exists(p) \/ MakeStage(p) \/ MakeRuntime(p) \/ Enter(p) \/ Pin(p) \/ Write(p) \/ Sync(p)
    \/ CheckStage(p) \/ VerifyStage(p) \/ CheckStageAgain(p)
    \/ Rename(p) \/ Flag(p) \/ CheckOutput(p) \/ SyncParent(p)
    \/ VerifyOutput(p) \/ CheckOutputAgain(p) \/ Return(p)
    \/ Clear(p) \/ LookAgain(p) \/ Remove(p)

----------------------------------------------------------------------------
(* Faults and other users of the directory.                                *)

Steps == Preparing \cup
         {"pin", "write", "sync", "checkStage", "verifyStage", "checkStageAgain", "rename", "flag",
          "checkOutput", "syncParent", "verifyOutput", "checkOutputAgain", "return"}
Handling == {"clear", "look", "remove"}
Ends == {"success", "failed", "aborted", "dead"}

\* The next system call of a call fails.
Error(p) ==
    /\ errors < MaxErrors
    /\ pc[p] \notin Ends \cup Handling \cup {"enter", "flag", "return"}
    /\ Raise(p, "error")
    /\ errors' = errors + 1
    /\ UNCHANGED <<kind, guarded, published, diskVars, interrupts, meddling, losses>>

Interrupt(p) ==
    /\ interrupts < MaxInterrupts
    /\ pc[p] \notin Ends \cup Handling \cup {"exists"}
    /\ Raise(p, "interrupt")
    /\ interrupts' = interrupts + 1
    /\ UNCHANGED <<kind, guarded, published, diskVars, errors, meddling, losses>>

\* A handler is itself cut short.
Abort(p) ==
    /\ pc[p] \in Handling
    /\ \/ errors < MaxErrors /\ errors' = errors + 1 /\ UNCHANGED interrupts
       \/ interrupts < MaxInterrupts /\ interrupts' = interrupts + 1 /\ UNCHANGED errors
    /\ Goto(p, "aborted")
    /\ UNCHANGED <<kind, guarded, published, undoing, diskVars, meddling, losses>>

Kill(p) ==
    /\ interrupts < MaxInterrupts
    /\ pc[p] \notin Ends
    /\ Goto(p, "dead")
    /\ interrupts' = interrupts + 1
    /\ UNCHANGED <<kind, guarded, published, undoing, diskVars, errors, meddling, losses>>

Meddle == meddling < MaxMeddling /\ meddling' = meddling + 1

\* Somebody moves the output away, makes a directory of that name, moves a
\* stage away, or changes a file in a directory whose call still runs.
MoveOutput ==
    /\ Meddle
    /\ output # None
    /\ output' = None /\ outputSafe' = TRUE
    /\ UNCHANGED <<kind, callVars, stage, content, synced, altered, errors, interrupts, losses>>

OccupyOutput ==
    /\ Meddle
    /\ output = None
    /\ output' \in {Other, Empty} /\ outputSafe' = TRUE
    /\ UNCHANGED <<kind, callVars, stage, content, synced, altered, errors, interrupts, losses>>

MoveStage(p) ==
    /\ Meddle
    /\ p \in stage
    /\ stage' = stage \ {p}
    /\ UNCHANGED <<kind, callVars, output, content, synced, outputSafe, altered, errors,
                   interrupts, losses>>

Alter(p) ==
    /\ Meddle
    /\ p \in stage \/ output = p
    /\ content[p] = File
    /\ pc[p] \notin Ends \cup Handling \cup {"checkOutputAgain", "return"}
    /\ altered' = altered \cup {p}
    /\ UNCHANGED <<kind, callVars, stage, output, content, synced, outputSafe, errors,
                   interrupts, losses>>

\* What was not durable is kept or not; a directory whose new name was not
\* durable may have its old one again.
PowerLoss ==
    /\ losses < MaxLosses
    /\ losses' = losses + 1
    /\ pc' = [p \in Publisher |-> IF pc[p] \in Ends THEN pc[p] ELSE "dead"]
    /\ output' \in IF outputSafe THEN {output} ELSE {output, None}
    /\ outputSafe' = TRUE
    /\ stage' \in SUBSET (stage \cup (Publisher \cap ({output} \ {output'})))
    /\ content' \in {c \in [Publisher -> SUBSET File] :
                       \A p \in Publisher : IF p \in synced THEN c[p] = content[p]
                                                            ELSE c[p] \subseteq content[p]}
    /\ UNCHANGED <<kind, guarded, published, undoing, synced, altered, errors, interrupts,
                   meddling>>

Stop == (\A p \in Publisher : pc[p] \in Ends) /\ UNCHANGED vars

Next ==
    \/ \E p \in Publisher : Step(p) \/ Error(p) \/ Interrupt(p) \/ Abort(p) \/ Kill(p)
                            \/ MoveStage(p) \/ Alter(p)
    \/ MoveOutput \/ OccupyOutput \/ PowerLoss \/ Stop

Spec == Init /\ [][Next]_vars

----------------------------------------------------------------------------
\* The type of every variable; a directory has one name.
TypeOK ==
    /\ kind \in Kinds
    /\ pc \in [Publisher -> Steps \cup Handling \cup Ends]
    /\ guarded \subseteq Publisher /\ published \subseteq Publisher
    /\ undoing \in [Publisher -> {"nothing", "stage", "output"}]
    /\ stage \subseteq Publisher
    /\ output \in (Publisher \cup {Other, Empty, None}) \ stage
    /\ content \in [Publisher -> SUBSET File]
    /\ synced \subseteq Publisher /\ altered \subseteq Publisher
    /\ outputSafe \in BOOLEAN
    /\ errors \in 0 .. MaxErrors /\ interrupts \in 0 .. MaxInterrupts
    /\ meddling \in 0 .. MaxMeddling /\ losses \in 0 .. MaxLosses

\* A call that reported success has the output path, completely written, and
\* keeps it whatever the calls that compete with it do; and when it has been
\* made durable, as every implementation but the candidate's does, a power
\* loss does not take it away.
SuccessStands ==
    \A p \in Publisher :
        pc[p] = "success" /\ meddling = 0 /\ (kind = "candidate" => losses = 0)
            => output = p /\ content[p] = File

\* A call takes nothing from the output path but its own directory; if somebody
\* who is not a call changes the path between the comparison and the rmdir of its
\* handler, it may take what is there then, but only a directory nothing is in.
OthersUntouched ==
    [][\A p \in Publisher :
          Step(p) => \/ output \in {None, p} \/ output' = output
                     \/ meddling > 0 /\ IsEmpty(output)]_vars

\* A call that is over has left all of its files at the output path or none,
\* also across a power loss: whether it returned, raised or was killed, unless
\* that cut its exception handler short, or the call was the report's and
\* interrupted.
NoPartialOutput ==
    \A p \in Publisher :
        /\ pc[p] \in {"success", "failed"} \/ (pc[p] = "dead" /\ undoing[p] = "nothing")
        /\ output = p
        /\ kind = "candidate" => losses = 0
        /\ kind = "report" => interrupts = 0
        => content[p] = File

\* tests/unit/test_benchmark_evidence.py:2222 calls it
\* test_report_publication_failure_leaves_no_partial_output.
NoPartialReport ==
    \A p \in Publisher :
        pc[p] = "failed" /\ output = p /\ losses = 0 => content[p] = File

\* Trainers withdraw what they published and could not verify.
RejectedIsWithdrawn ==
    \A p \in Publisher :
        kind \in Trainers /\ pc[p] = "failed" /\ p \in published => output # p

\* What a trainer or the reference release reports as published has been
\* compared with its manifest after everything that was done to it.
SuccessIsVerified ==
    \A p \in Publisher :
        kind \in Trainers \cup {"reference"} /\ pc[p] = "success" => p \notin altered

\* An exception leaves no stage behind once the try statement is entered, for the
\* decoder once the stage is pinned in it.  Before that, reports, candidates and
\* the reference release leave one when an interrupt comes between the call that
\* made it and the try statement, the trainers also when a system call fails
\* there; and the reference's handler does not see interrupts anywhere.
NoStageLeft ==
    \A p \in Publisher :
        /\ pc[p] = "failed" /\ losses = 0
        /\ \/ kind # "reference" /\ p \in guarded
           \/ kind \notin Trainers /\ interrupts = 0
        => p \notin stage

----------------------------------------------------------------------------
(* The inductive invariant behind the properties above.                    *)

\* Steps a call makes after its files are written, after they are durable,
\* after its directory has been renamed and after that is durable.
Returned == {"return", "success"}
EntryDurable == {"verifyOutput", "checkOutputAgain"} \cup Returned
Renamed == {"flag", "checkOutput", "syncParent"} \cup EntryDurable
TreeDurable == {"verifyStage", "checkStageAgain", "rename"} \cup Renamed
Written == {"sync", "checkStage"} \cup TreeDurable
Building == Preparing \cup {"pin", "write"} \cup (Written \ Renamed)

\* Nothing a power loss may take.
Lasting == kind = "candidate" => losses = 0

\* Before its rename a call has no directory at the output path.
BuildingInv ==
    \A p \in Publisher : pc[p] \in Building => output # p

\* A call past its writes has all its files; past its synchronisation, which is
\* before the first check for all but the decoder, they are durable.
WrittenInv ==
    \A p \in Publisher :
        /\ pc[p] \in Written /\ Lasting => content[p] = File
        /\ pc[p] \in TreeDurable /\ kind # "candidate" => p \in synced
        /\ pc[p] = "checkStage" /\ kind \notin {"decoder", "candidate"} => p \in synced

\* Unless somebody meddled, a call past its rename still has the path.
RenamedInv ==
    \A p \in Publisher :
        pc[p] \in Renamed /\ meddling = 0 /\ Lasting =>
            /\ output = p
            /\ pc[p] \in EntryDurable /\ kind # "candidate" => outputSafe

\* A verified directory has not been altered.
VerifiedInv ==
    \A p \in Publisher :
        kind \in Trainers \cup {"reference"} /\ pc[p] \in {"checkOutputAgain"} \cup Returned
            => p \notin altered

\* A handler at work on a published directory goes by the output path, where
\* it looked for that directory and where it stays unless somebody meddles; by any
\* other path it has nothing to clear.  It removes what it has cleared.
UndoInv ==
    \A p \in Publisher :
        /\ pc[p] \in Handling => undoing[p] # "nothing"
        /\ pc[p] \in Handling /\ undoing[p] = "stage" /\ kind # "report" /\ output = p
             => pc[p] = "clear" /\ kind \in {"encoder", "reference"}
        /\ kind \in Trainers /\ pc[p] \in Handling /\ p \in published => undoing[p] = "output"
        /\ pc[p] \in {"look", "remove"} => content[p] = {}
        /\ pc[p] \in Handling /\ undoing[p] = "output" /\ meddling = 0 => output = p

\* A published directory is whole and durable until a handler that found it at
\* the output path clears it.
WholeInv ==
    \A p \in Publisher :
        /\ kind # "report" /\ Lasting /\ output = p
        /\ pc[p] # "aborted"
        /\ ~(pc[p] \in Handling /\ undoing[p] = "output")
        /\ ~(pc[p] = "dead" /\ undoing[p] # "nothing")
        => content[p] = File /\ (kind # "candidate" => p \in synced)

PathInv ==
    /\ TypeOK /\ BuildingInv /\ WrittenInv /\ RenamedInv /\ VerifiedInv /\ UndoInv /\ WholeInv
    /\ RejectedIsWithdrawn

\* Until a power loss, a call has no private directory before it makes one, once
\* it has renamed it, and while it withdraws it; what its handler knows of or what
\* it has published was made before.
StageInv ==
    losses = 0 => \A p \in Publisher :
        /\ \/ pc[p] \in {"exists", "stage"} \cup Renamed
           \/ p \in published
           \/ pc[p] \in Handling /\ undoing[p] = "output"
           => p \notin stage
        /\ pc[p] = "runtime" => kind = "encoder"
        /\ p \in guarded \cup published => pc[p] \notin Preparing

IInv == PathInv /\ StageInv /\ NoStageLeft
=============================================================================
