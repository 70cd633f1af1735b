CONSTANTS
    text = text
    null = null
    nothing = nothing
    Replica <- ThreeReplicas
    Ref <- OneRef
    Content <- Texts
    Time <- OneTime
    None = nothing
    Bus <- ThreeReplicas
    MaxWrites = 2
    MaxClock = 2
    MaxBatch = 2
    MaxWires = 1
SPECIFICATION RegSpec
CHECK_DEADLOCK FALSE
INVARIANTS
    Converges
PROPERTIES
    WritesTakeEffect
