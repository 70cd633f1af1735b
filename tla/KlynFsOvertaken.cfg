CONSTANTS
    t1 = t1
    t2 = t2
    f1 = f1
    Tx = {t1, t2}
    Foreign = {}
    Root = root
    NoRev = none
    Trees = {"old", "new"}
    RootTree = "old"
    FaultKinds = {}
    MaxFaults = 0
    MaxCrashes = 1
SPECIFICATION Spec
SYMMETRY TwoSymmetric
CHECK_DEADLOCK FALSE
INVARIANTS
    RecoverySettlesValidated
