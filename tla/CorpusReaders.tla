--------------------------- MODULE CorpusReaders ---------------------------
(***************************************************************************)
(* CorpusStore together with processes that call read_symbolic_corpus.     *)
(* A reader takes no lock: it reads the selector once, pins the generation *)
(* it names by opening its directory, and reads both artifacts through     *)
(* that descriptor while publishers go on.                                 *)
(***************************************************************************)
EXTENDS CorpusStore

CONSTANT Reader  \* processes that call read_symbolic_corpus, each once

VARIABLES
    rpc,     \* where each reader is, or how its call ended
    pinned,  \* the generation it opened
    bytes    \* the artifacts it has read

readerVars == <<rpc, pinned, bytes>>
allVars == <<vars, readerVars>>

ReaderRejected == {"unavailable", "notOwned", "noCurrent", "missing", "incoherent"}
ReaderEnded == ReaderRejected \cup {"returned"}
ReaderRunning == {"readSelector", "openGeneration", "readCorpus", "readManifest",
                  "checkSnapshot"}

ReaderInit ==
    /\ rpc = [r \in Reader |-> "start"]
    /\ pinned = [r \in Reader |-> NoDoc]
    /\ bytes = [r \in Reader |-> NoArtifacts]

ReaderAt(r, label) == rpc[r] = label
ReaderGoto(r, label) == rpc' = [rpc EXCEPT ![r] = label]

OpenOutput(r) ==
    /\ ReaderAt(r, "start")
    /\ ReaderGoto(r, CASE generations = "absent" -> "unavailable"
                       [] generations = "unmarked" -> "notOwned"
                       [] generations = "owned" -> "readSelector")
    /\ UNCHANGED <<pinned, bytes>>

ReadSelector(r) ==
    /\ ReaderAt(r, "readSelector")
    /\ ReaderGoto(r, IF current = NoDoc THEN "noCurrent" ELSE "openGeneration")
    /\ pinned' = [pinned EXCEPT ![r] = current]
    /\ UNCHANGED bytes

OpenGeneration(r) ==
    /\ ReaderAt(r, "openGeneration")
    /\ ReaderGoto(r, IF pinned[r] \in installed THEN "readCorpus" ELSE "missing")
    /\ UNCHANGED <<pinned, bytes>>

ReadCorpusFile(r) ==
    /\ ReaderAt(r, "readCorpus")
    /\ ReaderGoto(r, "readManifest")
    /\ bytes' = [bytes EXCEPT ![r].corpus = content[pinned[r]].corpus]
    /\ UNCHANGED pinned

\* Fault: the manifest is read through the selector, not the pinned directory.
ReadManifestOfCurrent(r) ==
    /\ ReaderAt(r, "readManifest")
    /\ ReaderGoto(r, "checkSnapshot")
    /\ bytes' = [bytes EXCEPT ![r].manifest = content[current].manifest]
    /\ UNCHANGED pinned

ReadManifestFile(r) ==
    /\ ReaderAt(r, "readManifest")
    /\ ReaderGoto(r, "checkSnapshot")
    /\ bytes' = [bytes EXCEPT ![r].manifest = content[pinned[r]].manifest]
    /\ UNCHANGED pinned

CheckSnapshot(r) ==
    /\ ReaderAt(r, "checkSnapshot")
    /\ ReaderGoto(r, IF bytes[r] = [corpus |-> pinned[r], manifest |-> pinned[r]]
                     THEN "returned" ELSE "incoherent")
    /\ UNCHANGED <<pinned, bytes>>

ReaderStep(r) ==
    \/ OpenOutput(r) \/ ReadSelector(r) \/ OpenGeneration(r)
    \/ ReadCorpusFile(r) \/ ReadManifestFile(r) \/ CheckSnapshot(r)

\* Publishers never look at readers, readers never write.
StoreNext ==
    /\ Next
    /\ UNCHANGED readerVars

ReadersNext ==
    /\ \E r \in Reader : ReaderStep(r)
    /\ UNCHANGED vars

AllInit == Init /\ ReaderInit
AllNext == StoreNext \/ ReadersNext
AllSpec == AllInit /\ [][AllNext]_allVars

\* Nothing is assumed of the readers.
AllFairSpec == AllSpec /\ Fairness

----------------------------------------------------------------------------
\* The type of the reader variables.
ReaderTypeOK ==
    /\ rpc \in [Reader -> {"start"} \cup ReaderRunning \cup ReaderEnded]
    /\ pinned \in [Reader -> Doc \cup {NoDoc}]
    /\ bytes \in [Reader -> Artifacts]

\* Whatever is published while a read is under way, the read never ends with
\* a missing generation, a foreign directory or a mixed pair of artifacts.
ReadersSeeNoDamage ==
    \A r \in Reader : rpc[r] \notin {"missing", "notOwned", "incoherent"}

\* What a reader knows at each point of its call, whatever publishers do.
ReaderInv ==
    \A r \in Reader :
        /\ rpc[r] \in {"start", "readSelector"} => pinned[r] = NoDoc
        /\ rpc[r] = "readSelector" => generations = "owned"
        /\ rpc[r] \in {"openGeneration", "readCorpus", "readManifest", "checkSnapshot", "returned"}
             => pinned[r] \in installed
        /\ rpc[r] = "readManifest" => bytes[r].corpus = pinned[r]
        /\ rpc[r] \in {"checkSnapshot", "returned"} =>
             bytes[r] = [corpus |-> pinned[r], manifest |-> pinned[r]]

ReaderInvariant == ReaderTypeOK /\ ReaderInv

\* Once some publisher has reported success, no read reports that nothing
\* is published: there is no instant at which the selector is gone.
AcknowledgedIsReadable ==
    [][\A r \in Reader :
         rpc'[r] # rpc[r] /\ rpc'[r] \in {"unavailable", "noCurrent"} =>
           \A p \in Publisher : pc[p] # "ok"]_allVars

\* The store implements the register: a read settles on the selector's value
\* when it reads the link, a call succeeds while its generation is selected.
Register == INSTANCE CorpusRegister WITH
    request <- doc,
    installed <- {d \in installed : Coherent(d)},
    selected <- current,
    acked <- {p \in Publisher : pc[p] = "ok"},
    chosen <- pinned,
    returned <- [r \in Reader |->
                   IF rpc[r] = "returned" THEN {bytes[r].corpus, bytes[r].manifest} ELSE {}]

RegisterSpec == Register!Spec
=============================================================================
