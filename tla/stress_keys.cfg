SPECIFICATION BenchSpec
CONSTANTS
    zero = zero
    one = one
    none = none
    x = x
    AWRequests <- Singles
    ARRequests <- OneWord
    WBeats <- LastBeat
    Data <- AnyData
    Answers <- AnyAnswer
    Zero <- zero
    Zeros <- zero
    KeyBytes = 1
    Keys = 4
    ErrAddrs <- NoErr
    Words = 4
    LenMax = 1
    CtrMod = 4
    Window = 8
    AddrSpace = 16
    BusBytes = 2
    SerialMaster = TRUE
    None <- none
    X <- x
INVARIANTS
    NoFalseAlarm
