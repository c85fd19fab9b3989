SPECIFICATION Spec
CONSTANTS
    c1 = c1
    c2 = c2
    v1 = v1
    Commit = {c1, c2}
    Version = {v1}
    Edited = Edited
    None = None
    Partial = Partial
    ProjectVersion <- OneVersion
    CitationVersion <- OneVersion
    InitialTags <- Tagged
    Reproducible = {c1, c2, Edited}
    Expected <- Wants
    Genuine <- Others
    Forgeries <- ForgedPair
    Sboms = {s1}
    MaxChanges = 2
    MaxFaults = 1
CHECK_DEADLOCK FALSE
INVARIANTS
    HeldAtOneInstant
    AcceptedIsTheCommit
    UntouchedIsAccepted
