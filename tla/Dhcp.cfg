SPECIFICATION FairSpec
CONSTANTS
    C = C
    D = D
    Macs = {C, D}
    NoMac = NoMac
    StartIp = 1
    EndIp = 3
    Skip = {2}
    Me = Me
    Other = Other
    Servers = {Me, Other}
    NoServer = NoServer
    OtherIp = 9
    OtherMessages <- MCMessages
    LEASETIME = 5
    MINLEASETIME = 1
    MAXLEASETIME = 6
    OFFERTIME = 2
    DECLINETIME = 2
    RETRIES = 2
    XidMod = 2
    QueueMax = 1
INVARIANTS TypeOK OneOwner LeaseKept
PROPERTY CancelReturns
CHECK_DEADLOCK FALSE
