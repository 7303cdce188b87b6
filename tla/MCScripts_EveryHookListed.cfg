CONSTANTS
    F1 = F1
    F2 = F2
    F3 = F3
    NoObject = NoObject
    D1 = D1
    D2 = D2
    KB1 = KB1
    KB2 = KB2
    K1 = K1
    V1 = V1
    V2 = V2
    N1 = N1
    N2 = N2
    LevelLast = 65535
    Opaque = Opaque
    ObjWord <- MCObjWord
    Error = Error
    BoardKeys = {KB1, KB2}
    NoFile = NoFile
    NotFound = NotFound
    Usage = Usage
SPECIFICATION Spec
INVARIANT EveryHookListed
CHECK_DEADLOCK FALSE
