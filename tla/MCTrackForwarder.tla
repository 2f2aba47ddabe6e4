-------------------------- MODULE MCTrackForwarder --------------------------
(* A placeholder whose codec is a guess, and two TrackRemotes of which one *)
(* confirms the guess.                                                     *)
EXTENDS TrackForwarder, TLC

CONSTANTS p1, p2, placeholder, same, other

MCMime == [s \in Sources |-> IF s = other THEN "H264" ELSE "VP8"]

World(exclusive, pcs, adders, entries, runs, rem, stp, cls) ==
    [exclusive |-> exclusive, pcs |-> pcs, adders |-> adders,
     entries |-> entries, runs |-> runs, removes |-> rem, stops |-> stp,
     closes |-> cls]

(* Calls that exclude each other: on two subscribers, with a removal or a  *)
(* stop, or on one that may be closed at any point.  Calls that overlap,   *)
(* on one subscriber: two additions and a removal during an update; a      *)
(* removal and a resubscription during a rebuild; stops, updates and a     *)
(* third run loop.                                                         *)
MCWorlds ==
    {World(TRUE, PCs, 1, 4, 2, 1, 0, 0), World(TRUE, PCs, 1, 4, 2, 0, 1, 0),
     World(TRUE, {p1}, 1, 3, 2, 1, 1, 1),
     World(FALSE, {p1}, 2, 2, 2, 1, 0, 0), World(FALSE, {p1}, 1, 3, 2, 1, 0, 0),
     World(FALSE, {p1}, 1, 1, 3, 1, 2, 0)}
=============================================================================
