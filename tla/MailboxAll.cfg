CONSTANTS
    p = p
    r = r
    l1 = l1
    l2 = l2
    nobody = nobody
    Plain <- OnePlain
    Request <- OneRequest
    Unheard <- OnePlain
    Loop <- TwoLoops
    Batch = 2
    DlqMax = 1
    NoLoop = nobody
    MaxStops = 1
    MaxCrashes = 1
    MaxExpired = 1
SPECIFICATION FairSpec
CHECK_DEADLOCK FALSE
INVARIANTS
    OnePlace
    UnheardIsDead
    WaitersAreWaiting
    LoopsAreBounded
PROPERTIES
    RequestEnds
    EveryMessageSettles
