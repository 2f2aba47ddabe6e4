\* A rejoin, a shared track ID and overlapping connections.
SPECIFICATION Spec
CONSTANTS
    alice1 = alice1
    alice2 = alice2
    bob = bob
    conn1 = conn1
    conn2 = conn2
    alice = alice
    cam = cam
    Nobody = Nobody
    Participants = {alice1, alice2, bob}
    Id <- MCId
    Loops = {alice1, alice2, conn1, conn2}
    Of <- MCOf
    TrackIDs = {cam}
    Names <- MCNames
    MaxTracks = 2
SYMMETRY Symmetry
INVARIANTS
    TypeOK
    SubscriptionSymmetric
    DetachedFromLost
    ClosedIsSilent
    RegistryLive
\* A room may fall silent.
CHECK_DEADLOCK FALSE
