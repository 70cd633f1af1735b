CONSTANTS
    a = a
    b = b
    c = c
    p = p
    q = q
    theTask = theTask
    k = k
    x = x
    y = y
    Nobody = Nobody
    Unset = Unset
    Store <- Stores
    Worker <- Workers
    StoreOf <- Placed
    Writer <- Writers
    Reaper <- Reapers
    Task <- Tasks
    Unfenced <- Tasks
    Key <- Keys
    Value <- Values
    MaxAttempts = 2
    MaxEvents = 2
    MaxOpens = 2
SPECIFICATION FairSpec
CHECK_DEADLOCK FALSE
INVARIANTS
    StateIsReplayed
    AttemptIsFenced
PROPERTIES
    AbandonedReturns
