CONSTANTS
    Base = 3
    NameLen = 3
    TimeLen = 2
    MaxPayload = 4
    Inputs <- Edges
    NetCap = 6
    MaxSends = 3
SPECIFICATION Spec
CHECK_DEADLOCK FALSE
INVARIANT TypeOK
PROPERTY Refines
PROPERTY RecvEnds
