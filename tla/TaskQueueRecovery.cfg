CONSTANTS
    a = a
    b = b
    c = c
    key = key
    none = none
    Task <- UrgentPair
    Key <- NoKeys
    NoKey = none
    KeyOf <- Keyless
    Level <- TwoLevels
    Handled <- OnlyA
    Mortal <- OnlyA
    MaxRetries = 1
    Concurrency = 1
    DlqMax = 1
    Kept = 5
    Imports <- Fails
    MaxCancels = 0
    MaxStops = 0
    MaxErrors = 1
    MaxRestarts = 1
    MaxDays = 1
SPECIFICATION Spec
CHECK_DEADLOCK FALSE
INVARIANTS
    LogIsFaithful
    AttemptsAreBounded
PROPERTIES
    EndedIsOver
