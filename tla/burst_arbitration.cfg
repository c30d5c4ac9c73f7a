SPECIFICATION FairSpec
CONSTANTS
    zero = zero
    one = one
    none = none
    x = x
    AWRequests <- Long
    ARRequests <- Long
    WBeats <- TwoBeats
    Data <- AnyData
    Answers <- LiveAnswers
    Zero <- zero
    LenMax = 2
    CtrMod = 4
    Window = 8
    AddrSpace = 16
    BusBytes = 2
    SerialMaster = FALSE
    None <- none
    X <- x
PROPERTIES
    AwProgress
