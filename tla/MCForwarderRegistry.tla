------------------------ MODULE MCForwarderRegistry ------------------------
EXTENDS ForwarderRegistry, TLC

CONSTANTS s1, s2, mic, cam, micWire, camWire

KindOf == [t \in Tracks |-> IF t = mic THEN "audio" ELSE "video"]

\* The media carries an ID of the browser's own.
OwnID == [t \in Tracks |-> IF t = mic THEN micWire ELSE camWire]

World(subs, wire, ops, overlap) ==
    [subs |-> subs, wire |-> wire, ops |-> ops, overlap |-> overlap]

\* One track under its signaled ID, one subscriber, handlers that overlap.
SameID == {World({s}, [t \in {mic} |-> t], {}, TRUE) : s \in Subs}

\* Two tracks of different kinds, two subscribers who may leave, handlers in
\* turn; or one of each, and a subscriber who unsubscribes while a publisher
\* unpublishes.
TurnOrReader ==
    {World(Subs, OwnID, {"leave"}, FALSE)}
    \cup {World({s}, [t \in {mic} |-> OwnID[t]],
                {"unsubscribe", "unpublish"}, TRUE) : s \in Subs}

Everyone == SameID \cup TurnOrReader

Alike == Permutations(Subs)
============================================================================
