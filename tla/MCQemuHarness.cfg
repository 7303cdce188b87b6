CONSTANTS
    SuiteKinds <- MCSuiteKinds
    FaultKinds <- MCFaultKinds
    MaxLines = 3
    MaxChunk = 2
    MaxUnexpected = 1
    MaxOutput = 2
    None = None
SPECIFICATION Spec
INVARIANT TypeOK
INVARIANT SuccessNeedsResultAndExitZero
INVARIANT TerminatedLinesParsed
INVARIANT SuccessNeedsExpectAndPanic
INVARIANT LaunchErrorExits127
PROPERTY SerialLinesRefined
CHECK_DEADLOCK FALSE
