SPECIFICATION Spec
CONSTANTS
    Count = {0, 1, 2}
    Cases = 2
    Systems = 2
    Pending = Pending
    Contracts <- Golds
    Observations <- Observable
CHECK_DEADLOCK FALSE
INVARIANTS
    EveryOutcomeIsRecorded
