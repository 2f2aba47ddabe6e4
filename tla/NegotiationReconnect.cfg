\* The socket breaks once and the browser reconnects.
SPECIFICATION FairSpec
CONSTANTS
    MaxGen = 1
    MaxOffers = 1
    MaxConns = 2
    MaxFaults = 0
    MaxDups = 0
PROPERTY
    BrowserCatchesUp
CHECK_DEADLOCK FALSE
