---------------------------- MODULE MCRoomDomain ----------------------------
(* Three participant objects: alice1 and alice2 are the same participant   *)
(* ID before and after a rejoin, and two overlapping connections serve     *)
(* bob.  All publish under the same track ID.                              *)
EXTENDS RoomDomain, TLC

CONSTANTS alice1, alice2, bob, alice, cam, conn1, conn2

MCId == [p \in Participants |-> IF p = bob THEN bob ELSE alice]

MCOf == [l \in Loops |-> IF l \in {conn1, conn2} THEN bob ELSE l]

MCNames == [p \in Participants |-> {cam}]

\* Nothing tells alice's two objects, or bob's two connections, apart.
Symmetry == Permutations({alice1, alice2}) \cup Permutations({conn1, conn2})
=============================================================================
