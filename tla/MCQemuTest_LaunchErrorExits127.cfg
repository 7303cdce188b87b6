CONSTANTS
    LineKinds <- MCFewKinds
    MaxLines = 3
    MaxChunk = 2
    MaxUnexpected = 1
    None = None
SPECIFICATION Spec
INVARIANT LaunchErrorExits127
CHECK_DEADLOCK FALSE
