CONSTANTS
    nothing = nothing
    Node <- TwoNodes
    Durable <- OneNode
    Ref <- OneRef
    Time <- TwoTimes
    None = nothing
    MaxEvents = 3
    MaxDeltas = 2
    MaxCounter = 1
    MaxCrashes = 1
SPECIFICATION Spec
CHECK_DEADLOCK FALSE
INVARIANTS
    EventIdsAreUnique
    HealedAgree
PROPERTIES
    StampsFollowCauses
    NothingIsLost
