SPECIFICATION Spec
CONSTANTS
    Caller = {c1, c2}
    Doc = {d1, d2}
    NoDoc = NoDoc
    MaxInterrupts = 1
    MaxLosses = 1
INVARIANT SelectorSurvives
