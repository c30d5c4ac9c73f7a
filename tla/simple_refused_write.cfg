SPECIFICATION FairSpec
CONSTANTS
    zero = zero
    one = one
    none = none
    x = x
    AWRequests <- Writes
    ARRequests <- Reads
    WBeats <- OneBeat
    Data <- AnyData
    Answers <- AnyAnswer
    Zero <- zero
    LenMax = 1
    Window = 8
    AddrSpace = 16
    BusBytes = 2
    SerialMaster = TRUE
    None <- none
    X <- x
PROPERTY
    TxnEnds
