SPECIFICATION ObsSpec
CONSTANTS
    zero = zero
    one = one
    none = none
    x = x
    AWRequests <- Split
    ARRequests <- One
    WBeats <- AnyBeat
    Data <- AnyData
    Answers <- WriteAnswers
    Zero <- zero
    LenMax = 1
    CtrMod = 4
    Window = 8
    AddrSpace = 16
    BusBytes = 2
    SerialMaster = FALSE
    None <- none
    X <- x
INVARIANTS
    WriteVerdict
    OneTransaction
    BeatsInPort
PROPERTIES
    ApbProtocol
    KeepsPromise
