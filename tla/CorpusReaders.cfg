SPECIFICATION AllFairSpec
CONSTANTS
    Publisher = {p1, p2}
    Doc = {d1, d2}
    Reader = {r1}
    NoPub = NoPub
    NoDoc = NoDoc
    MaxFaults = 2
INVARIANTS
    MutualExclusion
    CurrentIsCoherent
    IInv
    ReadersSeeNoDamage
PROPERTIES
    LeftoversAccepted
    GenerationsImmutable
    SuccessSelects
    SuccessLeavesNoStaging
    EveryCallReturns
    AcknowledgedIsReadable
    RegisterSpec
