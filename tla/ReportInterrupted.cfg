SPECIFICATION Spec
CONSTANTS
    Publisher = {p1, p2}
    Other = Other
    Empty = Empty
    None = None
    File = {weights, manifest}
    Kinds = {"report"}
    MaxErrors = 0
    MaxInterrupts = 1
    MaxMeddling = 0
    MaxLosses = 0
INVARIANT NoPartialReport
