SPECIFICATION BenchSpec
CONSTANTS
    none = none
    x = x
    keep = keep
    AWRequests <- WriteReqs
    ARRequests <- ReadReqs
    WBeats <- BeatsOf
    Data <- Words_
    Answers <- AnyAnswer
    Zero <- zero
    Keep <- keep
    Calls <- SomeCalls
    Waits <- SomeWaits
    Edges = 8
    ReadEdges = 7
    LenMax = 2
    CtrMod = 4
    Window = 8
    AddrSpace = 16
    BusBytes = 2
    SerialMaster = TRUE
    None <- none
    X <- x
INVARIANT
    IInv
    BenchInv
PROPERTIES
    CallsOrdered
    CallsReturn
    TxnCompletes
