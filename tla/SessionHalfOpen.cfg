\* The client reconnects before the server notices its old connection.
SPECIFICATION Spec
CONSTANTS
    MaxConns = 2
    MaxRooms = 1
    MaxPCs = 1
    MaxLeaves = 0
    MaxCloses = 0
    MaxFaults = 0
    Overlap = TRUE
    EarlyDrop = FALSE
INVARIANT
    LiveHasNoTimer
\* A server without clients may rest.
CHECK_DEADLOCK FALSE
