CONSTANTS
    LineKinds <- MCFaultKinds
    MaxLines = 3
    MaxChunk = 2
    MaxOutput = 2
    None = None
SPECIFICATION Spec
INVARIANT NoPassOnMarkerAlone
CHECK_DEADLOCK FALSE
