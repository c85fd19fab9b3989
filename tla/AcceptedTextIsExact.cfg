SPECIFICATION Spec
CHECK_DEADLOCK FALSE
CONSTANTS
    Commands = {"compile", "compile-source", "validate-text", "validate-text-alone"}
    Realizers = {"deterministic", "neural"}
    Documents <- MCDocuments
    Foreign = "x"
    Retries = 1
    MaxParagraph = 3
    MaxEdits = 2
INVARIANT AcceptedTextIsExact
