CONSTANTS
    c1 = c1
    c2 = c2
    c3 = c3
    Conn <- ThreeConn
    Methods <- AllMethods
    MaxThreads = 2
    MaxFaults = 2
SPECIFICATION FairSpec
CHECK_DEADLOCK FALSE
INVARIANTS
    LeasesAreCounted
    NoLostWakeup
    OneShutdown
    ThreadsAreBounded
    NothingAfterReturn
PROPERTIES
    ShutdownEnds
