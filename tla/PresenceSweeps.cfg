SPECIFICATION FairSpec
CONSTANTS
    ann = ann
    c1 = c1
    c2 = c2
    w1 = w1
    w2 = w2
    Users <- UsersOne
    Conns <- ConnsTwo
    Workers <- WorkersTwo
    Owner <- OwnerOne
    Host <- HostTwo
    TTL = 3
    Interval = 1
    Delay = 0
    Outage = 1
    MaxTime = 8
    MaxFaults = 1
INVARIANTS
    NoSilentOffline
    OneSweeperAtATime
    SweptBeforeKeyExpires
PROPERTY EventuallyOffline
CHECK_DEADLOCK FALSE
