\* Queues of one packet, a run loop and a direct caller.
SPECIFICATION FairSpec
CONSTANTS
    fast = fast
    slow = slow
    Run = Run
    Direct = Direct
    Subs = {fast, slow}
    Slow = {slow}
    Cap = 1
    MaxPackets = 2
    MaxOffered = 3
    MaxEntries = 3
    MaxOps = 3
INVARIANTS
    OneOwner
    InOrder
    StrandedOnlyLate
PROPERTIES
    FastServed
\* Without packets and subscribers there is nothing to do.
CHECK_DEADLOCK FALSE
