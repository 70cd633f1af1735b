CONSTANTS
    x = x
    y = y
    nothing = nothing
    Item <- TwoItems
    None = nothing
    Capacity = 4
    MaxCursor = 8
SPECIFICATION RingSpec
CHECK_DEADLOCK FALSE
PROPERTIES
    KeepsFifo
