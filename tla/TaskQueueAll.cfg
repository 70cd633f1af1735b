CONSTANTS
    a = a
    b = b
    c = c
    key = key
    none = none
    Task <- Pair
    Key <- OneKey
    NoKey = none
    KeyOf <- SharedKey
    Level <- BFirst
    Handled <- Pair
    Mortal <- Pair
    MaxRetries = 1
    Concurrency = 1
    DlqMax = 1
    Kept = 200
    Imports <- Either
    MaxCancels = 1
    MaxStops = 1
    MaxErrors = 0
    MaxRestarts = 0
    MaxDays = 0
SPECIFICATION FairSpec
CHECK_DEADLOCK FALSE
INVARIANTS
    TypeOK
    OnePlace
    OneTaskPerKey
PROPERTIES
    EveryTaskEnds
