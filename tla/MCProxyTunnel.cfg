CONSTANTS
    Limit = 2
    MaxRead = 1
    Window = 1
    MaxSent = 3
    MaxData = 4
SPECIFICATION Spec
INVARIANTS TypeOK NothingLeftOpen FallbackOnlyAfterTimeout BytesKept
PROPERTY CallEnds
