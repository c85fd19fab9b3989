SPECIFICATION RealizationSpec
CHECK_DEADLOCK FALSE
CONSTANTS
    Commands = {"compile", "compile-source", "validate-text", "validate-text-alone"}
    Realizers = {"deterministic", "neural"}
    Documents <- MCDocuments
    Foreign = "x"
    Retries = 1
    MaxParagraph = 3
    MaxEdits = 2
    Kinds = {"encoder", "decoder"}
    Symbol <- MCSymbol
    Piece <- MCPiece
    EOS = "eos"
    Pad = "pad"
    MaxSymbols = 2
    MaxNewTokens = 4
INVARIANTS
    DeterministicIsAccepted
    NeuralTextIsTrusted
    ValidatedTextIsFaithful
    RecognizersAreExact
    AcceptedIsPlan
    OnlyTruncationRefuses
