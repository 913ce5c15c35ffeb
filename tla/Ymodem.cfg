SPECIFICATION FairSpec
CONSTANTS
    Lengths <- MCLengths
    Small = 1
    Big = 2
    Moduli = {3, 8}
    RETRY = 2
    BufferSize = 3
    Threshold = 1
    MaxFaults = 3
    HastyMax = 2
INVARIANTS
    TypeOK
    InOrder
    Acked
PROPERTIES
    ReceiverEnds
    Repaired
CHECK_DEADLOCK FALSE
