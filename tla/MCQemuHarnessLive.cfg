CONSTANTS
    SuiteKinds <- MCSuiteKinds
    FaultKinds <- MCFaultKinds
    MaxLines = 2
    MaxChunk = 2
    MaxUnexpected = 1
    MaxOutput = 2
    None = None
SPECIFICATION Spec
PROPERTY Termination
CHECK_DEADLOCK FALSE
