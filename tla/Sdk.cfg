\* Two publications of ann; bob may leave.
SPECIFICATION FairSpec
CONSTANTS
    ann = ann
    bob = bob
    a1 = a1
    a2 = a2
    Sess = {ann, bob}
    Reqs = {a1, a2}
    On <- OnAnn
    Publish = {a1, a2}
    Leavers = {bob}
    Cap = 1
    Buf = 1
    MaxFaults = 1
INVARIANTS
    OwnReply
    NoSessionOutlivesClose
PROPERTIES
    CloseEnds
    SendEnds
\* A closed client rests.
CHECK_DEADLOCK FALSE
