SPECIFICATION FairSpec
CONSTANTS
    d1 = d1
    d2 = d2
    s = s
    Blocks = {d1, d2, s}
    Short = {s}
    File <- MCFile
    Ports = {p1, p2, p3}
    WellKnown = WellKnown
    NoPort = NoPort
    NoData = NoData
    BlockMod = 5
    TFTP_RETRIES = 3
INVARIANTS Intact OneSession SessionKept
PROPERTIES Delivers Terminates
CHECK_DEADLOCK FALSE
