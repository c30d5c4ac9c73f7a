SPECIFICATION BenchSpec
CONSTANTS
    zero = zero
    one = one
    none = none
    x = x
    AWRequests <- Writes
    ARRequests <- Reads
    WBeats <- AnyBeat
    Data <- AnyData
    Answers <- AnyAnswer
    Zero <- zero
    Zeros <- zero
    KeyBytes = 2
    Keys = 4
    ErrAddrs <- Failing
    Words = 4
    LenMax = 1
    CtrMod = 4
    Window = 8
    AddrSpace = 16
    BusBytes = 2
    SerialMaster = TRUE
    None <- none
    X <- x
INVARIANTS
    NoFalseAlarm
    Drained
    PairingExact
    MirrorInv
