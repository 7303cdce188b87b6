CONSTANTS
    LineKinds <- MCFaultKinds
    MaxLines = 3
    MaxChunk = 2
    MaxOutput = 2
    None = None
SPECIFICATION Spec
INVARIANT FirstExpectWins
CHECK_DEADLOCK FALSE
