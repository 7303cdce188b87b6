CONSTANTS
    LineKinds <- MCFewKinds
    MaxLines = 3
    MaxChunk = 2
    MaxUnexpected = 1
    None = None
SPECIFICATION Spec
INVARIANT AllLinesParsed
CHECK_DEADLOCK FALSE
