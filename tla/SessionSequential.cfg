\* Three connections, one after the other, and a failing peer connection.
SPECIFICATION Spec
CONSTANTS
    MaxConns = 3
    MaxRooms = 2
    MaxPCs = 2
    MaxLeaves = 1
    MaxCloses = 1
    MaxFaults = 1
    Overlap = FALSE
    EarlyDrop = TRUE
INVARIANTS
    NoLeakedPC
    SenderNewest
    ReconnectCancels
\* A server without clients may rest.
CHECK_DEADLOCK FALSE
