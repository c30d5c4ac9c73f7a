SPECIFICATION ObsSpec
CONSTANTS
    zero = zero
    one = one
    none = none
    x = x
    AWRequests <- One
    ARRequests <- Mixed
    WBeats <- OneBeat
    Data <- AnyData
    Answers <- ReadAnswers
    Zero <- zero
    LenMax = 1
    CtrMod = 4
    Window = 8
    AddrSpace = 16
    BusBytes = 2
    SerialMaster = FALSE
    None <- none
    X <- x
INVARIANTS
    ReadFaithful
    ApbExclusive
PROPERTIES
    ResponseHeld
    KeepsPromise
