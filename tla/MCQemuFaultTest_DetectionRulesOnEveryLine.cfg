CONSTANTS
    LineKinds <- MCFaultKinds
    MaxLines = 3
    MaxChunk = 2
    MaxOutput = 2
    None = None
SPECIFICATION Spec
INVARIANT DetectionRulesOnEveryLine
CHECK_DEADLOCK FALSE
