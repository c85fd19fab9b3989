SPECIFICATION Spec
CONSTANTS
    Publisher = {p1, p2}
    Other = Other
    Empty = Empty
    None = None
    File = {weights, manifest}
    Kinds = {"encoder", "decoder", "report", "reference", "candidate"}
    MaxErrors = 1
    MaxInterrupts = 1
    MaxMeddling = 2
    MaxLosses = 1
INVARIANTS
    SuccessStands
    NoPartialOutput
    RejectedIsWithdrawn
    SuccessIsVerified
    NoStageLeft
    IInv
PROPERTY OthersUntouched
