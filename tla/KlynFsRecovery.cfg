CONSTANTS
    t1 = t1
    t2 = t2
    f1 = f1
    Tx = {t1, t2}
    Foreign = {}
    Root = root
    NoRev = none
    Trees = {"old", "new"}
    RootTree = "old"
    FaultKinds = {"write", "git"}
    MaxFaults = 1
    MaxCrashes = 2
SPECIFICATION FairSpec
CHECK_DEADLOCK FALSE
INVARIANTS
    AbortedIsUnpublished
PROPERTIES
    RecoveryIsComplete
    InterruptedIsSettled
