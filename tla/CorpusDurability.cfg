SPECIFICATION Spec
CONSTANTS
    Caller = {c1, c2, c3}
    Doc = {d1, d2}
    NoDoc = NoDoc
    MaxInterrupts = 2
    MaxLosses = 2
INVARIANTS
    StoreUsable
    AcknowledgedSurvives
    NothingTorn
