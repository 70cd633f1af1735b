CONSTANTS
    MaxRestarts = 2
    MaxStarts = 2
    MaxStops = 2
SPECIFICATION FairSpec
CHECK_DEADLOCK FALSE
INVARIANTS
    OneChild
    RestartsAreCounted
PROPERTIES
    StopEnds
    CrashIsHandled
