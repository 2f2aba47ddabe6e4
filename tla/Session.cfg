\* Two connections that may overlap and break at any time.
SPECIFICATION FairSpec
CONSTANTS
    MaxConns = 2
    MaxRooms = 1
    MaxPCs = 2
    MaxLeaves = 1
    MaxCloses = 1
    MaxFaults = 0
    Overlap = TRUE
    EarlyDrop = TRUE
INVARIANTS
    TypeOK
    NewestRegistered
    ArmedTimerKnown
PROPERTY
    GhostReaped
\* A server without clients may rest.
CHECK_DEADLOCK FALSE
