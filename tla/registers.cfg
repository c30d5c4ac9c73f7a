SPECIFICATION FairObsSpec
CONSTANTS
    zero = zero
    one = one
    none = none
    NRegs = 2
    Stride = 4
    Lanes <- TwoLanes
    Bytes <- AnyByte
    ZeroByte <- zero
    Writes <- WriteSet
    Beats <- BeatSet
    Reads <- ReadSet
    None <- none
INVARIANT
    IInv
PROPERTIES
    KeepsPromise
    ResponseHeld
    WriteEnds
    ReadEnds
