SPECIFICATION FairObsSpec
CONSTANTS
    zero = zero
    one = one
    none = none
    x = x
    AWRequests <- Writes
    ARRequests <- Reads
    WBeats <- AnyBeat
    Data <- AnyData
    Answers <- AnyAnswer
    Zero <- zero
    LenMax = 1
    Window = 8
    AddrSpace = 16
    BusBytes = 2
    SerialMaster = FALSE
    None <- none
    X <- x
INVARIANTS
    OnePort
    IInv
PROPERTIES
    KeepsPromise
    ResponseHeld
    ApbProtocol
    ProperTxnEnds
