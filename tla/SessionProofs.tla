--------------------------- MODULE SessionProofs ---------------------------
(***************************************************************************)
(* Theorems about Session, for any number of connections, room objects,    *)
(* peer connections, requests and faults.                                  *)
(*                                                                         *)
(* The first part holds with overlapping connections; the second assumes   *)
(* that a client reconnects only after the server saw the end of its       *)
(* previous connection, as the properties it proves do.                    *)
(***************************************************************************)
EXTENDS Session, FiniteSetTheorems, TLAPS

Over == {"off", "done", "aborted"}

(* Connections are numbered in the order in which they are opened.         *)
OpenedInOrder ==
    /\ \A c \in Conns : loop[c] = "off" <=> c > opened
    /\ open \subseteq 1..opened /\ registered <= opened

(* The newest connection is registered from the moment it is upgraded to   *)
(* the deferred calls of its own handler, or until Shutdown.               *)
NewestKept ==
    \A c \in Conns :
        c = opened /\ loop[c] \notin Over /\ shutdown \in {"no", "conns"} =>
            registered = c

(* The room objects that loops, the room manager and CloseRoom hold have   *)
(* been made, and CloseRoom works on a room.                               *)
RoomsMade ==
    /\ managed <= rooms
    /\ \A c \in Conns : roomOf[c] <= rooms
    /\ \A c \in Conns :
          loop[c] \in {"lookup", "join", "cancel"} => roomOf[c] # None
    /\ closer # "idle" => managed # None

IInv == TypeOK /\ OpenedInOrder /\ NewestKept /\ RoomsMade /\ ArmedTimerKnown

-----------------------------------------------------------------------------
(* Facts about the operators.                                              *)

(* What t.Stop does to the timers.                                         *)
LEMMA StoppedTimers ==
    ASSUME TypeOK, ArmedTimerKnown
    PROVE  /\ Stopped(reap) \in [Conns -> {"none", "armed", "stopped", "fired",
                                           "lookup", "leave", "close", "done"}]
           /\ \A c \in Conns : Stopped(reap)[c] # "armed"
           /\ \A c \in Conns : reap[c] # "armed" => Stopped(reap)[c] = reap[c]
           /\ \A c \in Conns : reap[c] = "armed" => Stopped(reap)[c] = "stopped"
  BY DEF TypeOK, ArmedTimerKnown, Stopped

(* The number of peer connections made so far.                             *)
LEMMA CreatedNat == Created \in Nat
<1>1. IsFiniteSet(PCs)
  BY SessionAssumption, FS_Interval DEF PCs
<1>2. IsFiniteSet({k \in PCs : pcState[k] # "none"})
  BY <1>1, FS_Subset, Zenon
<1> QED
  BY <1>2, FS_CardinalityType DEF Created

(* A peer connection can be made while the bound is not reached.           *)
LEMMA CreatedNext ==
    ASSUME Created < MaxPCs
    PROVE  Created + 1 \in PCs
  BY CreatedNat, SessionAssumption DEF PCs

(* A room that is looked up or made now is not closed.                     *)
LEMMA RoomNowOpen ==
    ASSUME TypeOK, RoomsMade, getOrCreateRoom
    PROVE  /\ RoomNow \in Rooms /\ RoomNow \in 1..rooms' /\ RoomNow \notin closed
           /\ rooms' \in 0..MaxRooms /\ rooms <= rooms'
           /\ managed' = RoomNow /\ closed' = closed
           /\ closed \subseteq 1..rooms' /\ members \subseteq 1..rooms'
<1>1. /\ RoomNow \in Rooms /\ RoomNow \in 1..rooms' /\ RoomNow \notin closed
      /\ rooms' \in 0..MaxRooms /\ rooms <= rooms'
      /\ managed' = RoomNow /\ closed' = closed
  BY SessionAssumption
     DEF TypeOK, RoomsMade, getOrCreateRoom, RoomNow, Rooms, None
<1>2. rooms \in Nat /\ closed \subseteq 1..rooms /\ members \subseteq 1..rooms
  BY SessionAssumption DEF TypeOK
<1>3. 1..rooms \subseteq 1..rooms'
  BY <1>1, <1>2, SessionAssumption
<1> QED
  BY <1>1, <1>2, <1>3

-----------------------------------------------------------------------------
(* The step lemmas, one for each part of the invariant.                    *)

(* Every step keeps the types.                                             *)
LEMMA TypeStep == IInv /\ [Next]_vars => TypeOK'
<1> SUFFICES ASSUME IInv, [Next]_vars PROVE TypeOK'
  OBVIOUS
<1> USE SessionAssumption
    DEF IInv, conns, roomVars, pcVars, ghost, admin, counts, Goto, None
<1>1. ASSUME NEW c \in Conns, ServeHTTP(c) PROVE TypeOK'
  <2>1. opened' \in 0..MaxConns /\ registered' \in 0..MaxConns /\ open' \subseteq Conns
    BY <1>1 DEF TypeOK, ServeHTTP, Conns
  <2>2. loop' = [loop EXCEPT ![c] = "room"]
    BY <1>1 DEF ServeHTTP
  <2>3. UNCHANGED <<kind, roomOf, found, roomVars, members, pcVars, ghost,
                    reapRoom, admin, counts>>
    BY <1>1 DEF ServeHTTP
  <2> QED
    BY <2>1, <2>2, <2>3 DEF TypeOK
<1>2. ASSUME NEW c \in Conns, GetOrCreateRoom(c) PROVE TypeOK'
  <2>1. getOrCreateRoom
    BY <1>2 DEF GetOrCreateRoom
  <2>2. managed' \in 0..MaxRooms /\ managed' \notin closed'
    BY <2>1, RoomNowOpen DEF Rooms
  <2>3. closed' \subseteq 1..rooms' /\ members \subseteq 1..rooms'
    BY <2>1, RoomNowOpen
  <2>4. roomOf' \in [Conns -> 0..MaxRooms]
    BY <1>2, <2>1, RoomNowOpen DEF TypeOK, GetOrCreateRoom, Rooms
  <2>5. loop' = [loop EXCEPT ![c] = "lookup"] /\ closed' = closed
        /\ UNCHANGED <<kind, found, conns, members, pcVars, ghost, reapRoom,
                       admin, counts>>
    BY <1>2, <2>1, RoomNowOpen DEF GetOrCreateRoom
  <2> QED
    BY <2>1, <2>2, <2>3, <2>4, <2>5, RoomNowOpen DEF TypeOK
<1>3. ASSUME NEW c \in Conns, GetParticipant(c) PROVE TypeOK'
  BY <1>3 DEF TypeOK, GetParticipant
<1>4. ASSUME NEW c \in Conns, Join(c) PROVE TypeOK'
  <2>0. roomOf[c] \in 1..rooms
    BY <1>4 DEF TypeOK, RoomsMade, Join
  <2>1. members' \subseteq 1..rooms /\ members' \cap closed = {}
    BY <1>4, <2>0 DEF TypeOK, Join
  <2>2. loop' \in [Conns -> {"off", "room", "lookup", "join", "cancel",
                              "ensure", "apply", "send", "ready", "leave",
                              "leavePC", "exit", "done", "abort", "aborted"}]
    BY <1>4 DEF TypeOK, Join
  <2> QED
    BY <1>4, <2>1, <2>2 DEF TypeOK, Join
<1>5. ASSUME NEW c \in Conns, CancelOnReconnect(c) PROVE TypeOK'
  BY <1>5, StoppedTimers DEF TypeOK, CancelOnReconnect, cancelGhostTimer
<1>6. ASSUME NEW c \in Conns, EnsureLookup(c) \/ EnsureReuse(c) \/ EnsureFails(c)
      PROVE  TypeOK'
  <2>1. CASE EnsureLookup(c)
    BY <2>1 DEF TypeOK, EnsureLookup
  <2>2. CASE EnsureReuse(c)
    <3>0. c \in 0..MaxConns
      BY DEF Conns
    <3>1. pcSender' \in [PCs -> 0..MaxConns]
      BY <2>2, <3>0 DEF TypeOK, EnsureReuse
    <3> QED
      BY <2>2, <3>1 DEF TypeOK, EnsureReuse, AfterEnsure
  <2>3. CASE EnsureFails(c)
    BY <2>3 DEF TypeOK, EnsureFails, AfterEnsure
  <2> QED
    BY <1>6, <2>1, <2>2, <2>3
<1>7. ASSUME NEW c \in Conns, EnsureCreate(c) PROVE TypeOK'
  <2>1. Created + 1 \in PCs
    BY <1>7, CreatedNext DEF EnsureCreate
  <2>2. pcs' \in 0..MaxPCs
    BY <1>7, <2>1 DEF EnsureCreate, PCs
  <2>0. c \in 0..MaxConns
    BY DEF Conns
  <2>3. pcSender' \in [PCs -> 0..MaxConns]
    BY <1>7, <2>0 DEF TypeOK, EnsureCreate
  <2>4. pcState' \in [PCs -> {"none", "open", "failed", "closing", "closed"}]
    BY <1>7 DEF TypeOK, EnsureCreate
  <2> QED
    BY <1>7, <2>2, <2>3, <2>4 DEF TypeOK, EnsureCreate, AfterEnsure
<1>8. ASSUME NEW c \in Conns, SendRoomJoined(c) PROVE TypeOK'
  BY <1>8 DEF TypeOK, SendRoomJoined
<1>9. ASSUME NEW c \in Conns, LeaveCancel(c) PROVE TypeOK'
  BY <1>9, StoppedTimers DEF TypeOK, LeaveCancel, cancelGhostTimer
<1>10. ASSUME NEW c \in Conns, LeaveRoom(c) PROVE TypeOK'
  BY <1>10 DEF TypeOK, LeaveRoom
<1>11. ASSUME NEW c \in Conns, LeavePC(c) PROVE TypeOK'
  BY <1>11 DEF TypeOK, LeavePC, closePeerConnection
<1>12. ASSUME NEW c \in Conns, CreateRoom(c) PROVE TypeOK'
  <2>1. getOrCreateRoom
    BY <1>12 DEF CreateRoom
  <2>2. managed' \in 0..MaxRooms /\ managed' \notin closed'
    BY <2>1, RoomNowOpen DEF Rooms
  <2>3. closed' \subseteq 1..rooms' /\ members \subseteq 1..rooms'
    BY <2>1, RoomNowOpen
  <2>4. members' = members \cup {RoomNow}
    BY <1>12 DEF CreateRoom
  <2>5. members' \subseteq 1..rooms' /\ members' \cap closed' = {}
    BY <2>1, <2>3, <2>4, RoomNowOpen DEF TypeOK
  <2>6. loop' = [loop EXCEPT ![c] = "ensure"] /\ closed' = closed
        /\ kind' = [kind EXCEPT ![c] = "create"]
        /\ UNCHANGED <<roomOf, found, conns, pcVars, ghost, reapRoom, admin,
                       counts>>
    BY <1>12, <2>1, RoomNowOpen DEF CreateRoom
  <2> QED
    BY <2>1, <2>2, <2>3, <2>5, <2>6, RoomNowOpen DEF TypeOK
<1>13. ASSUME NEW c \in Conns, handleConnectionClosed(c) PROVE TypeOK'
  <2>1. timer' \in 0..MaxConns
    BY <1>13 DEF handleConnectionClosed, Conns
  <2> QED
    BY <1>13, <2>1, StoppedTimers DEF TypeOK, handleConnectionClosed
<1>14. ASSUME NEW c \in Conns, Deregister(c) PROVE TypeOK'
  BY <1>14 DEF TypeOK, Deregister
<1>15. ASSUME NEW c \in Conns, Fire(c) \/ ReapLookup(c) PROVE TypeOK'
  BY ZenonT(40), <1>15 DEF TypeOK, Fire, ReapLookup
<1>16. ASSUME NEW c \in Conns, ReapTimer(c) PROVE TypeOK'
  BY <1>16, StoppedTimers DEF TypeOK, ReapTimer
<1>17. ASSUME NEW c \in Conns, ReapLeave(c) PROVE TypeOK'
  <2>1. members' \subseteq 1..rooms /\ members' \cap closed = {}
    BY <1>17 DEF TypeOK, ReapLeave
  <2> QED
    BY <1>17, <2>1 DEF TypeOK, ReapLeave
<1>18. ASSUME NEW c \in Conns, ReapClose(c) PROVE TypeOK'
  BY <1>18 DEF TypeOK, ReapClose, closePeerConnection
<1>19. CASE CloseRoomSnapshot
  BY <1>19 DEF TypeOK, CloseRoomSnapshot
<1>20. CASE CloseRoomPC
  BY <1>20 DEF TypeOK, CloseRoomPC, closePeerConnection
<1>21. CASE CloseRoomCancel
  BY <1>21, StoppedTimers DEF TypeOK, CloseRoomCancel, cancelGhostTimer
<1>22. CASE CloseRoomFinish
  BY <1>22 DEF TypeOK, RoomsMade, CloseRoomFinish
<1>23. CASE ShutdownTimers
  BY <1>23, StoppedTimers DEF TypeOK, ShutdownTimers, cancelGhostTimer
<1>24. CASE ShutdownConns
  BY <1>24 DEF TypeOK, ShutdownConns
<1>25. CASE ShutdownPCs
  BY <1>25 DEF TypeOK, ShutdownPCs, closePeerConnection
<1>26. ASSUME NEW c \in Conns, Drop(c) PROVE TypeOK'
  BY <1>26 DEF TypeOK, Drop
<1>27. ASSUME NEW k \in PCs, MediaFails(k) \/ CloseDone(k) PROVE TypeOK'
  <2>1. CASE MediaFails(k)
    BY <2>1 DEF TypeOK, MediaFails
  <2>2. CASE CloseDone(k)
    BY <2>2 DEF TypeOK, CloseDone, counts
  <2> QED
    BY <1>27, <2>1, <2>2
<1>28. CASE UNCHANGED vars
  BY <1>28 DEF TypeOK, vars
<1> QED
  BY <1>1, <1>2, <1>3, <1>4, <1>5, <1>6, <1>7, <1>8, <1>9, <1>10, <1>11,
     <1>12, <1>13, <1>14, <1>15, <1>16, <1>17, <1>18, <1>19, <1>20, <1>21,
     <1>22, <1>23, <1>24, <1>25, <1>26, <1>27, <1>28, Zenon
     DEF Next, handleConnection, reapGhost, closeRoom
(* The actions that move a loop, and those that leave all of them alone.   *)
LoopStep(c) ==
    \/ GetOrCreateRoom(c) \/ GetParticipant(c) \/ Join(c)
    \/ CancelOnReconnect(c) \/ EnsureLookup(c) \/ EnsureReuse(c)
    \/ EnsureCreate(c) \/ EnsureFails(c) \/ SendRoomJoined(c)
    \/ LeaveRoom(c) \/ LeavePC(c) \/ handleConnectionClosed(c)
    \/ LeaveCancel(c) \/ CreateRoom(c)

OtherStep ==
    \/ \E c \in Conns : reapGhost(c)
    \/ CloseRoomSnapshot \/ closeRoom \/ ShutdownTimers \/ ShutdownPCs
    \/ \E k \in PCs : MediaFails(k) \/ CloseDone(k)

(* A step is a step of a connection, of a peer connection, of a timer or   *)
(* of the administrator, or nothing changes.                               *)
LEMMA NextCases ==
    ASSUME [Next]_vars
    PROVE  \/ \E c \in Conns : ServeHTTP(c) \/ LoopStep(c) \/ Deregister(c) \/ Drop(c)
           \/ OtherStep \/ ShutdownConns \/ UNCHANGED vars
  BY Zenon DEF Next, handleConnection, LoopStep, OtherStep

(* A loop that is moved is neither beginning nor ending ...                *)
LEMMA LoopMoves ==
    ASSUME TypeOK, NEW c \in Conns, LoopStep(c)
    PROVE  /\ loop[c] \notin Over
           /\ UNCHANGED conns /\ shutdown' = shutdown
           /\ \E l \in {"lookup", "join", "cancel", "ensure", "apply", "send",
                        "ready", "leave", "leavePC", "exit", "abort"} :
                 loop' = [loop EXCEPT ![c] = l]
<1> USE DEF Goto, Over, admin
<1>1. CASE GetOrCreateRoom(c) \/ GetParticipant(c) \/ Join(c) \/ CancelOnReconnect(c)
  BY <1>1 DEF GetOrCreateRoom, GetParticipant, Join, CancelOnReconnect
<1>2. CASE EnsureLookup(c) \/ EnsureReuse(c) \/ EnsureCreate(c) \/ EnsureFails(c)
  BY <1>2 DEF EnsureLookup, EnsureReuse, EnsureCreate, EnsureFails, AfterEnsure
<1>3. CASE SendRoomJoined(c) \/ LeaveRoom(c) \/ LeavePC(c) \/ LeaveCancel(c)
  BY <1>3 DEF SendRoomJoined, LeaveRoom, LeavePC, LeaveCancel
<1>4. CASE handleConnectionClosed(c) \/ CreateRoom(c)
  BY <1>4 DEF handleConnectionClosed, CreateRoom
<1> QED
  BY <1>1, <1>2, <1>3, <1>4 DEF LoopStep

(* ... and nothing else touches loops or connections.                      *)
LEMMA OthersLeave ==
    ASSUME OtherStep
    PROVE  UNCHANGED <<loop, kind, roomOf, found, conns>>
           /\ (shutdown' \in {"no", "conns"} => shutdown \in {"no", "conns"})
<1> USE DEF admin
<1>1. ASSUME NEW c \in Conns, reapGhost(c)
      PROVE  UNCHANGED <<loop, kind, roomOf, found, conns, shutdown>>
  BY <1>1 DEF reapGhost, Fire, ReapTimer, ReapLookup, ReapLeave, ReapClose
<1>2. CASE CloseRoomSnapshot \/ closeRoom
  BY <1>2 DEF CloseRoomSnapshot, closeRoom, CloseRoomPC, CloseRoomCancel,
              CloseRoomFinish
<1>3. CASE ShutdownTimers \/ ShutdownPCs
  BY <1>3 DEF ShutdownTimers, ShutdownPCs
<1>4. ASSUME NEW k \in PCs, MediaFails(k) \/ CloseDone(k)
      PROVE  UNCHANGED <<loop, kind, roomOf, found, conns, shutdown>>
  BY <1>4 DEF MediaFails, CloseDone
<1> QED
  BY <1>1, <1>2, <1>3, <1>4 DEF OtherStep

(* Connections stay numbered in the order they are opened, and the newest  *)
(* one registered.                                                         *)
LEMMA OpenedStep == IInv /\ [Next]_vars => OpenedInOrder' /\ NewestKept'
<1> SUFFICES ASSUME IInv, [Next]_vars PROVE OpenedInOrder' /\ NewestKept'
  OBVIOUS
<1>0. /\ opened \in Nat /\ registered \in Nat /\ MaxConns \in Nat
      /\ loop \in [Conns -> {"off", "room", "lookup", "join", "cancel",
                              "ensure", "apply", "send", "ready", "leave",
                              "leavePC", "exit", "done", "abort", "aborted"}]
  BY SessionAssumption DEF IInv, TypeOK
<1> USE <1>0 DEF IInv, OpenedInOrder, NewestKept, Over, conns, admin, Conns, Goto
<1>1. ASSUME NEW c \in Conns, ServeHTTP(c)
      PROVE  OpenedInOrder' /\ NewestKept'
  BY <1>1 DEF ServeHTTP
<1>2. ASSUME NEW c \in Conns, LoopStep(c)
      PROVE  OpenedInOrder' /\ NewestKept'
  BY ZenonT(40), <1>2, LoopMoves
<1>3. ASSUME NEW c \in Conns, Deregister(c)
      PROVE  OpenedInOrder' /\ NewestKept'
  BY <1>3 DEF Deregister, None
<1>4. ASSUME NEW c \in Conns, Drop(c)
      PROVE  OpenedInOrder' /\ NewestKept'
  BY <1>4 DEF Drop
<1>5. CASE OtherStep
  BY <1>5, OthersLeave
<1>6. CASE ShutdownConns
  BY <1>6 DEF ShutdownConns, None
<1>7. CASE UNCHANGED vars
  BY <1>7 DEF vars
<1> QED
  BY <1>1, <1>2, <1>3, <1>4, <1>5, <1>6, <1>7, NextCases

(* The rooms that are held have been made.                                 *)
LEMMA RoomsStep == IInv /\ [Next]_vars => RoomsMade'
<1> SUFFICES ASSUME IInv, [Next]_vars PROVE RoomsMade'
  OBVIOUS
<1>0. /\ MaxRooms \in Nat /\ rooms \in Nat /\ managed \in Nat
      /\ roomOf \in [Conns -> Nat]
      /\ loop \in [Conns -> {"off", "room", "lookup", "join", "cancel",
                              "ensure", "apply", "send", "ready", "leave",
                              "leavePC", "exit", "done", "abort", "aborted"}]
  BY SessionAssumption DEF IInv, TypeOK
<1>made. ASSUME getOrCreateRoom
         PROVE  /\ managed' = RoomNow /\ RoomNow # None /\ RoomNow <= rooms'
                /\ RoomNow \in Nat /\ rooms' \in Nat /\ rooms <= rooms'
  BY <1>made, <1>0, RoomNowOpen DEF IInv, Rooms, None
<1> USE <1>0 DEF RoomsMade, roomVars, admin, Goto
<1>1. ASSUME NEW c \in Conns, ServeHTTP(c) PROVE RoomsMade'
  BY <1>1 DEF IInv, ServeHTTP
<1>2. ASSUME NEW c \in Conns, LoopStep(c) PROVE RoomsMade'
  <2>1. CASE GetOrCreateRoom(c)
    BY <2>1, <1>made DEF IInv, GetOrCreateRoom
  <2>2. CASE CreateRoom(c)
    BY <2>2, <1>made DEF IInv, CreateRoom
  <2>3. CASE GetParticipant(c) \/ Join(c) \/ CancelOnReconnect(c)
    BY <2>3 DEF IInv, GetParticipant, Join, CancelOnReconnect
  <2>4. CASE EnsureLookup(c) \/ EnsureReuse(c) \/ EnsureCreate(c) \/ EnsureFails(c)
    BY <2>4 DEF IInv, EnsureLookup, EnsureReuse, EnsureCreate, EnsureFails,
                AfterEnsure
  <2>5. CASE SendRoomJoined(c) \/ LeaveRoom(c) \/ LeavePC(c) \/ LeaveCancel(c)
             \/ handleConnectionClosed(c)
    BY <2>5 DEF IInv, SendRoomJoined, LeaveRoom, LeavePC, LeaveCancel,
                handleConnectionClosed
  <2> QED
    BY <1>2, <2>1, <2>2, <2>3, <2>4, <2>5 DEF LoopStep
<1>3. ASSUME NEW c \in Conns, Deregister(c) \/ Drop(c) PROVE RoomsMade'
  BY <1>3 DEF IInv, Deregister, Drop
<1>4. CASE OtherStep
  <2>1. UNCHANGED <<loop, roomOf>>
    BY <1>4, OthersLeave
  <2>2. ASSUME NEW c \in Conns, reapGhost(c)
        PROVE  UNCHANGED <<roomVars, closer>>
    BY <2>2 DEF reapGhost, Fire, ReapTimer, ReapLookup, ReapLeave, ReapClose
  <2>3. ASSUME NEW k \in PCs, MediaFails(k) \/ CloseDone(k)
        PROVE  UNCHANGED <<roomVars, closer>>
    BY <2>3 DEF MediaFails, CloseDone
  <2>4. CASE CloseRoomSnapshot \/ CloseRoomPC \/ CloseRoomCancel
    BY <2>1, <2>4 DEF IInv, CloseRoomSnapshot, CloseRoomPC, CloseRoomCancel
  <2>5. CASE CloseRoomFinish
    BY <2>1, <2>5 DEF IInv, CloseRoomFinish, None
  <2>6. CASE ShutdownTimers \/ ShutdownPCs
    BY <2>1, <2>6 DEF IInv, ShutdownTimers, ShutdownPCs
  <2> QED
    BY <1>4, <2>1, <2>2, <2>3, <2>4, <2>5, <2>6 DEF OtherStep, closeRoom, IInv
<1>5. CASE ShutdownConns \/ UNCHANGED vars
  BY <1>5 DEF IInv, ShutdownConns, vars
<1> QED
  BY <1>1, <1>2, <1>3, <1>4, <1>5, NextCases

(* What can happen to the timers in a step.                                *)
LEMMA TimerCases ==
    ASSUME [Next]_vars
    PROVE  \/ UNCHANGED ghost
           \/ cancelGhostTimer
           \/ \E c \in Conns : handleConnectionClosed(c)
           \/ \E c \in Conns : reapGhost(c)
<1> USE DEF ghost
<1>1. ASSUME NEW c \in Conns, LoopStep(c)
      PROVE  UNCHANGED ghost \/ cancelGhostTimer \/ handleConnectionClosed(c)
  BY <1>1 DEF LoopStep, GetOrCreateRoom, GetParticipant, Join,
              CancelOnReconnect, EnsureLookup, EnsureReuse, EnsureCreate,
              EnsureFails, SendRoomJoined, LeaveRoom, LeavePC, LeaveCancel,
              CreateRoom
<1>2. ASSUME NEW c \in Conns, ServeHTTP(c) \/ Deregister(c) \/ Drop(c)
      PROVE  UNCHANGED ghost
  BY <1>2 DEF ServeHTTP, Deregister, Drop
<1>3. CASE ShutdownConns \/ UNCHANGED vars
  BY <1>3 DEF ShutdownConns, vars
<1>4. ASSUME NEW k \in PCs, MediaFails(k) \/ CloseDone(k) PROVE UNCHANGED ghost
  BY <1>4 DEF MediaFails, CloseDone
<1>5. CASE CloseRoomSnapshot \/ closeRoom \/ ShutdownTimers \/ ShutdownPCs
  BY <1>5 DEF CloseRoomSnapshot, closeRoom, CloseRoomPC, CloseRoomCancel,
              CloseRoomFinish, ShutdownTimers, ShutdownPCs
<1> QED
  BY <1>1, <1>2, <1>3, <1>4, <1>5, NextCases DEF OtherStep

(* An armed ghost timer stays the one in the map.                          *)
LEMMA TimerStep == IInv /\ [Next]_vars => ArmedTimerKnown'
<1> SUFFICES ASSUME IInv, [Next]_vars PROVE ArmedTimerKnown'
  OBVIOUS
<1>0. /\ TypeOK /\ ArmedTimerKnown
      /\ reap \in [Conns -> {"none", "armed", "stopped", "fired", "lookup",
                              "leave", "close", "done"}]
  BY DEF IInv, TypeOK
<1>1. CASE UNCHANGED ghost
  BY <1>0, <1>1 DEF ArmedTimerKnown, ghost
<1>2. CASE cancelGhostTimer
  BY <1>0, <1>2, StoppedTimers DEF ArmedTimerKnown, cancelGhostTimer
<1>3. ASSUME NEW c \in Conns, handleConnectionClosed(c) PROVE ArmedTimerKnown'
  BY <1>0, <1>3, StoppedTimers DEF ArmedTimerKnown, handleConnectionClosed
<1>4. ASSUME NEW c \in Conns, reapGhost(c) PROVE ArmedTimerKnown'
  <2>1. CASE ReapTimer(c)
    BY <1>0, <2>1, StoppedTimers DEF ArmedTimerKnown, ReapTimer
  <2>2. CASE Fire(c) \/ ReapLookup(c) \/ ReapLeave(c) \/ ReapClose(c)
    BY <1>0, <2>2 DEF ArmedTimerKnown, Fire, ReapLookup, ReapLeave, ReapClose
  <2> QED
    BY <1>4, <2>1, <2>2 DEF reapGhost
<1> QED
  BY <1>1, <1>2, <1>3, <1>4, TimerCases

-----------------------------------------------------------------------------
(* The inductive invariant, from which the next three theorems follow.     *)
THEOREM SessionInvariant == Spec => []IInv
<1>1. Init => IInv
  <2> SUFFICES ASSUME Init PROVE IInv
    OBVIOUS
  <2> USE SessionAssumption DEF Init, None
  <2>1. TypeOK
    BY DEF TypeOK
  <2>2. OpenedInOrder /\ NewestKept /\ RoomsMade /\ ArmedTimerKnown
    BY DEF OpenedInOrder, NewestKept, RoomsMade, ArmedTimerKnown, Conns
  <2> QED
    BY <2>1, <2>2 DEF IInv
<1>2. IInv /\ [Next]_vars => IInv'
  BY TypeStep, OpenedStep, RoomsStep, TimerStep DEF IInv
<1> QED
  BY <1>1, <1>2, PTL DEF Spec

(* The variables keep their types; a closed room is never the registered   *)
(* one and has no member.                                                  *)
THEOREM SessionTypes == Spec => []TypeOK
<1>1. IInv => TypeOK
  BY DEF IInv
<1> QED
  BY <1>1, SessionInvariant, PTL

(* However many connections overlap, the exit of an old one does not evict *)
(* the newest one from the connection manager (RemoveIf).                  *)
THEOREM NewestStaysRegistered == Spec => []NewestRegistered
<1>1. IInv => NewestRegistered
  BY DEF IInv, NewestKept, NewestRegistered, Over
<1> QED
  BY <1>1, SessionInvariant, PTL

(* A ghost timer that can still fire is the one in ghostTimers, so that    *)
(* the next reconnect, leave or close can stop it.                         *)
THEOREM NoTimerLost == Spec => []ArmedTimerKnown
<1>1. IInv => ArmedTimerKnown
  BY DEF IInv
<1> QED
  BY <1>1, SessionInvariant, PTL
-----------------------------------------------------------------------------
(* Reconnecting only after the old connection ended: Overlap is FALSE.     *)

(* All but the newest connection have ended.                               *)
OneActive == \A c \in Conns : c < opened => loop[c] \in {"done", "aborted"}

(* What ensurePeerConnection read is still registered, or the registry was *)
(* emptied meanwhile: nobody else makes a peer connection.                 *)
FoundCurrent ==
    \A c \in Conns : loop[c] = "apply" => found[c] = pcs \/ pcs = None

(* SenderNewest, from the moment ensurePeerConnection is done.             *)
SenderKept ==
    \A c \in Conns :
        loop[c] \in {"send", "ready", "leave", "leavePC"} /\ Usable(pcs) =>
            pcSender[pcs] = c

SeqInv == OneActive /\ FoundCurrent /\ NoLeakedPC /\ SenderKept

(* Only one loop is under way, and it is that of the newest connection.    *)
LEMMA OnlyNewest ==
    ASSUME IInv, OneActive, NEW c \in Conns, NEW d \in Conns,
           loop[c] \notin Over, loop[d] \notin Over
    PROVE  c = opened /\ d = c
<1>1. opened \in Nat /\ MaxConns \in Nat
  BY SessionAssumption DEF IInv, TypeOK
<1> QED
  BY <1>1 DEF IInv, OpenedInOrder, OneActive, Over, Conns

(* Without overlap one connection at a time is being served.               *)
LEMMA OneActiveStep ==
    ASSUME ~Overlap, IInv, SeqInv, [Next]_vars
    PROVE  OneActive'
<1>0. /\ opened \in Nat /\ MaxConns \in Nat
      /\ loop \in [Conns -> {"off", "room", "lookup", "join", "cancel",
                              "ensure", "apply", "send", "ready", "leave",
                              "leavePC", "exit", "done", "abort", "aborted"}]
  BY SessionAssumption DEF IInv, TypeOK
<1> USE <1>0 DEF OneActive, SeqInv, conns, Conns, Goto
<1>1. ASSUME NEW c \in Conns, ServeHTTP(c) PROVE OneActive'
  BY <1>1 DEF ServeHTTP
<1>2. ASSUME NEW c \in Conns, LoopStep(c) PROVE OneActive'
  BY <1>2, LoopMoves DEF IInv, Over
<1>3. ASSUME NEW c \in Conns, Deregister(c) \/ Drop(c) PROVE OneActive'
  BY <1>3 DEF Deregister, Drop
<1>4. CASE OtherStep
  BY <1>4, OthersLeave
<1>5. CASE ShutdownConns \/ UNCHANGED vars
  BY <1>5 DEF ShutdownConns, vars
<1> QED
  BY <1>1, <1>2, <1>3, <1>4, <1>5, NextCases

(* A peer connection is made in the place of what was found, and by the    *)
(* only loop there is.                                                     *)
LEMMA PCStep ==
    ASSUME ~Overlap, IInv, SeqInv, [Next]_vars
    PROVE  FoundCurrent' /\ NoLeakedPC' /\ SenderKept'
<1> DEFINE Goal == FoundCurrent' /\ NoLeakedPC' /\ SenderKept'
<1>0. /\ loop \in [Conns -> {"off", "room", "lookup", "join", "cancel",
                              "ensure", "apply", "send", "ready", "leave",
                              "leavePC", "exit", "done", "abort", "aborted"}]
      /\ found \in [Conns -> 0..MaxPCs] /\ MaxPCs \in Nat
      /\ pcState \in [PCs -> {"none", "open", "failed", "closing", "closed"}]
      /\ pcSender \in [PCs -> 0..MaxConns] /\ pcs \in 0..MaxPCs
  BY SessionAssumption DEF IInv, TypeOK
<1>one. \A c, d \in Conns : loop[c] \notin Over /\ loop[d] \notin Over => d = c
  BY OnlyNewest DEF SeqInv
<1> USE <1>0 DEF SeqInv, FoundCurrent, NoLeakedPC, SenderKept, Usable, pcVars,
                 Goto, None
(* Steps that leave the peer connections and what was found alone, and     *)
(* lead no loop past ensurePeerConnection.                                 *)
<1>keep. ASSUME UNCHANGED <<pcVars, found>>,
                \A c \in Conns :
                   \/ loop'[c] = loop[c]
                   \/ loop'[c] \notin {"apply", "send", "ready", "leave", "leavePC"}
                   \/ /\ loop[c] \in {"send", "ready", "leave", "leavePC"}
                      /\ loop'[c] # "apply"
         PROVE  Goal
  BY <1>keep
(* closePeerConnection leaves nothing registered.                          *)
<1>close. ASSUME closePeerConnection, UNCHANGED found,
                 \A c \in Conns : loop'[c] = "apply" => loop[c] = "apply"
          PROVE  Goal
  BY <1>close DEF closePeerConnection
<1>1. ASSUME NEW c \in Conns, ServeHTTP(c) \/ Deregister(c) \/ Drop(c) PROVE Goal
  BY <1>1, <1>keep DEF ServeHTTP, Deregister, Drop
<1>2. ASSUME NEW c \in Conns, LoopStep(c) PROVE Goal
  <2>1. CASE GetOrCreateRoom(c) \/ GetParticipant(c) \/ Join(c)
             \/ CancelOnReconnect(c) \/ SendRoomJoined(c) \/ LeaveRoom(c)
             \/ LeaveCancel(c) \/ CreateRoom(c) \/ handleConnectionClosed(c)
    BY <2>1, <1>keep
       DEF GetOrCreateRoom, GetParticipant, Join, CancelOnReconnect,
           SendRoomJoined, LeaveRoom, LeaveCancel, CreateRoom,
           handleConnectionClosed
  <2>2. CASE LeavePC(c)
    BY <2>2, <1>close DEF LeavePC
  <2>3. CASE EnsureLookup(c)
    BY <2>3 DEF EnsureLookup
  <2>4. CASE EnsureReuse(c)
    <3>1. found[c] \in PCs /\ (pcs = found[c] \/ pcs = None)
      BY <2>4 DEF EnsureReuse, PCs
    <3>2. /\ pcSender' = [pcSender EXCEPT ![found[c]] = c]
          /\ UNCHANGED <<pcs, pcState>>
          /\ loop' = [loop EXCEPT ![c] = AfterEnsure(c)]
          /\ AfterEnsure(c) \in {"send", "ready"} /\ loop[c] = "apply"
          /\ found' = [found EXCEPT ![c] = None]
      BY <2>4, <3>1 DEF EnsureReuse, AfterEnsure
    <3>3. FoundCurrent' /\ NoLeakedPC'
      BY <3>2
    <3>4. \A d \in Conns : d # c => loop'[d] \in Over
      BY <1>one, <3>2 DEF Over
    <3>5. SenderKept'
      BY <3>1, <3>2, <3>4 DEF Over
    <3> QED
      BY <3>3, <3>5
  <2>5. CASE EnsureCreate(c)
    <3> DEFINE k == Created + 1
    <3>1. k \in PCs
      BY <2>5, CreatedNext DEF EnsureCreate
    <3>2. /\ pcs' = k /\ pcSender' = [pcSender EXCEPT ![k] = c]
          /\ pcState' = [j \in PCs |-> CASE j = k        -> "open"
                                         [] j = found[c] -> "closed"
                                         [] OTHER        -> pcState[j]]
          /\ loop' = [loop EXCEPT ![c] = AfterEnsure(c)]
          /\ AfterEnsure(c) \in {"send", "ready"} /\ loop[c] = "apply"
          /\ found' = [found EXCEPT ![c] = None]
      BY <2>5 DEF EnsureCreate, AfterEnsure
    <3> HIDE DEF k
    <3>3. \A d \in Conns : d # c => loop'[d] \in Over
      BY <1>one, <3>2 DEF Over
    <3>4. FoundCurrent' /\ SenderKept'
      BY <3>1, <3>2, <3>3 DEF Over
    <3>5. NoLeakedPC'
      BY <3>1, <3>2 DEF PCs
    <3> QED
      BY <3>4, <3>5
  <2>6. CASE EnsureFails(c)
    <3>1. ~Usable(pcs)
      BY <2>6 DEF EnsureFails
    <3>2. UNCHANGED pcVars /\ found' = [found EXCEPT ![c] = None]
          /\ \E l \in {"send", "ready", "abort"} : loop' = [loop EXCEPT ![c] = l]
      BY <2>6 DEF EnsureFails, AfterEnsure
    <3> QED
      BY <3>1, <3>2
  <2> QED
    BY <1>2, <2>1, <2>2, <2>3, <2>4, <2>5, <2>6 DEF LoopStep
<1>3. CASE OtherStep
  <2>1. UNCHANGED <<loop, found>>
    BY <1>3, OthersLeave
  <2>2. ASSUME NEW c \in Conns, reapGhost(c)
        PROVE  UNCHANGED pcVars \/ closePeerConnection
    BY <2>2 DEF reapGhost, Fire, ReapTimer, ReapLookup, ReapLeave, ReapClose
  <2>3. ASSUME NEW k \in PCs, MediaFails(k) \/ CloseDone(k) PROVE Goal
    <3>1. /\ UNCHANGED <<pcs, pcSender>>
          /\ \E a \in {"failed", "closed"} : pcState' = [pcState EXCEPT ![k] = a]
          /\ pcState[k] \in {"open", "closing"}
          /\ CloseDone(k) => pcState' = [pcState EXCEPT ![k] = "closed"]
          /\ MediaFails(k) => pcState[k] = "open"
      BY <2>3 DEF MediaFails, CloseDone
    <3>2. FoundCurrent' /\ SenderKept'
      BY <2>1, <3>1 DEF PCs
    <3>3. NoLeakedPC'
      BY <2>3, <3>1
    <3> QED
      BY <3>2, <3>3
  <2>4. CASE CloseRoomSnapshot \/ closeRoom \/ ShutdownTimers \/ ShutdownPCs
    <3>1. UNCHANGED pcVars \/ closePeerConnection
      BY <2>4 DEF CloseRoomSnapshot, closeRoom, CloseRoomPC, CloseRoomCancel,
                  CloseRoomFinish, ShutdownTimers, ShutdownPCs
    <3> QED
      BY <2>1, <3>1, <1>keep, <1>close
  <2> QED
    BY <1>3, <2>1, <2>2, <2>3, <2>4, <1>keep, <1>close DEF OtherStep
<1>4. CASE ShutdownConns \/ UNCHANGED vars
  BY <1>4, <1>keep DEF ShutdownConns, vars
<1> QED
  BY <1>1, <1>2, <1>3, <1>4, NextCases

(* The inductive invariant of sequential connections.                      *)
THEOREM SequentialInvariant ==
    ASSUME ~Overlap
    PROVE  Spec => []SeqInv
<1>1. Init => SeqInv
  BY SessionAssumption
     DEF Init, SeqInv, OneActive, FoundCurrent, NoLeakedPC, SenderKept, Conns
<1>2. IInv /\ SeqInv /\ [Next]_vars => SeqInv'
  BY OneActiveStep, PCStep DEF SeqInv
<1> QED
  BY <1>1, <1>2, SessionInvariant, PTL DEF Spec

(* With connections one after the other, no peer connection that is not    *)
(* closed drops out of the registry, whatever reaps, leaves, CloseRoom and *)
(* Shutdown do between ensurePeerConnection's two steps.                   *)
THEOREM NoPeerConnectionLeaks ==
    ASSUME ~Overlap
    PROVE  Spec => []NoLeakedPC
<1>1. SeqInv => NoLeakedPC
  BY DEF SeqInv
<1> QED
  BY <1>1, SequentialInvariant, PTL

(* A usable peer connection then talks to the connection that serves.      *)
THEOREM SenderIsNewest ==
    ASSUME ~Overlap
    PROVE  Spec => []SenderNewest
<1>1. SeqInv => SenderNewest
  BY DEF SeqInv, SenderKept, SenderNewest
<1> QED
  BY <1>1, SequentialInvariant, PTL
-----------------------------------------------------------------------------
(* Reconnects in time.                                                     *)

Calm ==
    /\ leaves = 0 /\ closes = 0
    /\ \A d \in Conns : reap[d] \in {"none", "armed", "stopped"}

NothingArmed == \A d \in Conns : reap[d] # "armed"

(* While all is calm the participant of a running timer, or of a loop that *)
(* has joined, is a member of the one room there is; a loop that found it  *)
(* there cancels the timer, and one that did not saw no timer.             *)
StillMember ==
    Calm =>
        /\ \A c \in Conns :
              loop[c] \in {"lookup", "join", "cancel"} => roomOf[c] = managed
        /\ \A c \in Conns :
              loop[c] \in {"cancel", "ensure", "apply", "send", "ready"} =>
                  managed \in members
        /\ \A d \in Conns : reap[d] = "armed" => managed \in members
        /\ \A c \in Conns :
              loop[c] \in {"join", "ensure", "apply", "send", "ready"} =>
                  NothingArmed

(* A leave or CloseRoom under way has been counted, and a timer is armed   *)
(* once, by a loop that ends.                                              *)
Counted ==
    /\ \A c \in Conns : loop[c] \in {"leave", "leavePC"} => leaves > 0
    /\ closer # "idle" => closes > 0
    /\ \A c \in Conns : reap[c] # "none" => loop[c] \in {"exit", "done"}

CalmInv == StillMember /\ Counted

(* A leave and a CloseRoom under way stay counted.                         *)
LEMMA CountedStep ==
    ASSUME IInv, Counted, [Next]_vars
    PROVE  Counted'
<1>0. /\ loop \in [Conns -> {"off", "room", "lookup", "join", "cancel",
                              "ensure", "apply", "send", "ready", "leave",
                              "leavePC", "exit", "done", "abort", "aborted"}]
      /\ reap \in [Conns -> {"none", "armed", "stopped", "fired", "lookup",
                              "leave", "close", "done"}]
      /\ leaves \in Nat /\ closes \in Nat /\ TypeOK /\ ArmedTimerKnown
  BY SessionAssumption DEF IInv, TypeOK
<1> USE <1>0 DEF Counted, counts, admin, ghost, Goto
<1>1. ASSUME NEW c \in Conns, ServeHTTP(c) PROVE Counted'
  <2>1. loop[c] = "off"
    BY <1>1 DEF IInv, OpenedInOrder, ServeHTTP, TypeOK, Conns
  <2> QED
    BY <1>1, <2>1 DEF ServeHTTP
<1>2. ASSUME NEW c \in Conns, LoopStep(c) PROVE Counted'
  <2>1. CASE GetOrCreateRoom(c) \/ GetParticipant(c) \/ Join(c)
             \/ SendRoomJoined(c) \/ LeaveRoom(c) \/ CreateRoom(c) \/ LeavePC(c)
    BY <2>1 DEF GetOrCreateRoom, GetParticipant, Join, SendRoomJoined,
                LeaveRoom, CreateRoom, LeavePC
  <2>2. CASE EnsureLookup(c) \/ EnsureReuse(c) \/ EnsureCreate(c) \/ EnsureFails(c)
    BY <2>2 DEF EnsureLookup, EnsureReuse, EnsureCreate, EnsureFails, AfterEnsure
  <2>3. CASE CancelOnReconnect(c) \/ LeaveCancel(c)
    BY <2>3, StoppedTimers DEF CancelOnReconnect, LeaveCancel, cancelGhostTimer
  <2>4. CASE handleConnectionClosed(c)
    BY <2>4, StoppedTimers DEF handleConnectionClosed
  <2> QED
    BY <1>2, <2>1, <2>2, <2>3, <2>4 DEF LoopStep
<1>3. ASSUME NEW c \in Conns, Deregister(c) \/ Drop(c) PROVE Counted'
  BY <1>3 DEF Deregister, Drop
<1>4. CASE OtherStep
  <2>1. loop' = loop
    BY <1>4, OthersLeave
  <2>2. ASSUME NEW c \in Conns, reapGhost(c) PROVE Counted'
    <3>1. CASE ReapTimer(c)
      BY <2>1, <3>1, StoppedTimers DEF ReapTimer
    <3>2. CASE Fire(c) \/ ReapLookup(c) \/ ReapLeave(c) \/ ReapClose(c)
      BY <2>1, <3>2 DEF Fire, ReapLookup, ReapLeave, ReapClose
    <3> QED
      BY <2>2, <3>1, <3>2 DEF reapGhost
  <2>3. CASE CloseRoomSnapshot \/ CloseRoomPC \/ CloseRoomFinish \/ ShutdownPCs
    BY <2>1, <2>3 DEF CloseRoomSnapshot, CloseRoomPC, CloseRoomFinish, ShutdownPCs
  <2>4. CASE CloseRoomCancel \/ ShutdownTimers
    BY <2>1, <2>4, StoppedTimers
       DEF CloseRoomCancel, ShutdownTimers, cancelGhostTimer
  <2>5. ASSUME NEW k \in PCs, MediaFails(k) \/ CloseDone(k) PROVE Counted'
    BY <2>1, <2>5 DEF MediaFails, CloseDone
  <2> QED
    BY <1>4, <2>2, <2>3, <2>4, <2>5 DEF OtherStep, closeRoom
<1>5. CASE ShutdownConns \/ UNCHANGED vars
  BY <1>5 DEF ShutdownConns, vars
<1> QED
  BY <1>1, <1>2, <1>3, <1>4, <1>5, NextCases

(* It never becomes calm again: requests are only counted up, and a timer  *)
(* that has fired stays so.                                                *)
LEMMA CalmBefore ==
    ASSUME IInv, Counted, [Next]_vars, Calm'
    PROVE  Calm
<1>0. /\ reap \in [Conns -> {"none", "armed", "stopped", "fired", "lookup",
                              "leave", "close", "done"}]
      /\ leaves \in Nat /\ closes \in Nat /\ TypeOK /\ ArmedTimerKnown
  BY SessionAssumption DEF IInv, TypeOK
<1>1. leaves = 0 /\ closes = 0
  <2> DEFINE Up == leaves <= leaves' /\ closes <= closes'
  <2>1. ASSUME NEW c \in Conns, LoopStep(c) PROVE Up
    BY <1>0, <2>1 DEF LoopStep, GetOrCreateRoom, GetParticipant, Join,
         CancelOnReconnect, EnsureLookup, EnsureReuse, EnsureCreate,
         EnsureFails, SendRoomJoined, LeaveRoom, LeavePC, LeaveCancel,
         CreateRoom, handleConnectionClosed, counts
  <2>2. ASSUME NEW c \in Conns, ServeHTTP(c) \/ Deregister(c) \/ Drop(c) \/ reapGhost(c)
        PROVE  Up
    BY <1>0, <2>2 DEF ServeHTTP, Deregister, Drop, reapGhost, Fire, ReapTimer,
                      ReapLookup, ReapLeave, ReapClose, counts
  <2>3. ASSUME NEW k \in PCs, MediaFails(k) \/ CloseDone(k) PROVE Up
    BY <1>0, <2>3 DEF MediaFails, CloseDone, counts
  <2>4. ASSUME CloseRoomSnapshot PROVE Up
    BY <1>0, <2>4 DEF CloseRoomSnapshot
  <2>5. ASSUME closeRoom \/ ShutdownTimers \/ ShutdownPCs \/ ShutdownConns
               \/ UNCHANGED vars
        PROVE  Up
    BY <1>0, <2>5 DEF closeRoom, CloseRoomPC, CloseRoomCancel, CloseRoomFinish,
         ShutdownTimers, ShutdownPCs, ShutdownConns, vars, counts
  <2> HIDE DEF Up
  <2>6. Up
    BY <2>1, <2>2, <2>3, <2>4, <2>5, NextCases, Zenon DEF OtherStep
  <2> QED
    BY <1>0, <2>6 DEF Calm, Up
<1>2. \A d \in Conns : reap[d] \in {"none", "armed", "stopped"}
  <2> USE <1>0 DEF Calm
  <2>1. CASE UNCHANGED ghost
    BY <2>1 DEF ghost
  <2>2. CASE cancelGhostTimer
    BY <2>2, StoppedTimers DEF cancelGhostTimer
  <2>3. ASSUME NEW c \in Conns, handleConnectionClosed(c)
        PROVE  \A d \in Conns : reap[d] \in {"none", "armed", "stopped"}
    <3>1. reap[c] = "none" /\ reap' = [Stopped(reap) EXCEPT ![c] = "armed"]
      BY <2>3 DEF handleConnectionClosed, Counted
    <3>2. \A d \in Conns : d # c => reap'[d] = Stopped(reap)[d]
      BY <3>1, StoppedTimers
    <3> QED
      BY <3>1, <3>2, StoppedTimers
  <2>4. ASSUME NEW c \in Conns, reapGhost(c)
        PROVE  \A d \in Conns : reap[d] \in {"none", "armed", "stopped"}
    <3>1. CASE ReapTimer(c)
      BY <3>1, StoppedTimers DEF ReapTimer
    <3>2. CASE Fire(c) \/ ReapLookup(c) \/ ReapLeave(c) \/ ReapClose(c)
      BY <3>2 DEF Fire, ReapLookup, ReapLeave, ReapClose
    <3> QED
      BY <2>4, <3>1, <3>2 DEF reapGhost
  <2> QED
    BY <2>1, <2>2, <2>3, <2>4, TimerCases
<1> QED
  BY <1>1, <1>2 DEF Calm

(* Nothing that was not asked for takes the participant out of the room.   *)
LEMMA MemberStep ==
    ASSUME ~Overlap, IInv, OneActive, CalmInv, [Next]_vars
    PROVE  StillMember'
<1> SUFFICES ASSUME Calm' PROVE StillMember'
  BY DEF StillMember
<1>calm. Calm
  BY CalmBefore DEF CalmInv
<1>0. /\ loop \in [Conns -> {"off", "room", "lookup", "join", "cancel",
                              "ensure", "apply", "send", "ready", "leave",
                              "leavePC", "exit", "done", "abort", "aborted"}]
      /\ reap \in [Conns -> {"none", "armed", "stopped", "fired", "lookup",
                              "leave", "close", "done"}]
      /\ roomOf \in [Conns -> 0..MaxRooms]
      /\ managed \in members => managed # None
      /\ TypeOK /\ ArmedTimerKnown
  BY SessionAssumption DEF IInv, TypeOK, None
<1>one. \A c, d \in Conns : loop[c] \notin Over /\ loop[d] \notin Over => d = c
  BY OnlyNewest
<1>in. /\ \A c \in Conns :
             loop[c] \in {"lookup", "join", "cancel"} => roomOf[c] = managed
       /\ \A c \in Conns :
             loop[c] \in {"cancel", "ensure", "apply", "send", "ready"} =>
                 managed \in members
       /\ \A d \in Conns : reap[d] = "armed" => managed \in members
       /\ \A c \in Conns :
             loop[c] \in {"join", "ensure", "apply", "send", "ready"} =>
                 NothingArmed
       /\ \A c \in Conns : loop[c] \notin {"leave", "leavePC"}
       /\ closer = "idle"
  BY <1>calm DEF CalmInv, StillMember, Counted, Calm
<1> USE <1>0, <1>in DEF StillMember, NothingArmed, roomVars, ghost, admin, Goto
<1>1. ASSUME NEW c \in Conns, ServeHTTP(c) PROVE StillMember'
  BY <1>1 DEF ServeHTTP
<1>2. ASSUME NEW c \in Conns, LoopStep(c) PROVE StillMember'
  <2>one. loop[c] \notin Over /\ \A d \in Conns : d # c => loop[d] \in Over
    BY <1>2, <1>one, LoopMoves
  <2>1. CASE GetOrCreateRoom(c)
    <3>1. /\ UNCHANGED <<members, reap>> /\ loop' = [loop EXCEPT ![c] = "lookup"]
          /\ roomOf' = [roomOf EXCEPT ![c] = RoomNow] /\ managed' = RoomNow
          /\ managed # None => managed' = managed
      BY <2>1 DEF GetOrCreateRoom, getOrCreateRoom, RoomNow
    <3> QED
      BY <2>one, <3>1 DEF Over
  <2>2. CASE GetParticipant(c)
    BY <2>2 DEF GetParticipant
  <2>3. CASE Join(c)
    BY <2>3 DEF Join
  <2>4. CASE CancelOnReconnect(c)
    BY <2>4, StoppedTimers DEF CancelOnReconnect, cancelGhostTimer
  <2>5. CASE EnsureLookup(c) \/ EnsureReuse(c) \/ EnsureCreate(c) \/ EnsureFails(c)
    BY <2>5 DEF EnsureLookup, EnsureReuse, EnsureCreate, EnsureFails, AfterEnsure
  <2>6. CASE SendRoomJoined(c)
    BY <2>6 DEF SendRoomJoined
  <2>7. CASE LeaveRoom(c) \/ LeavePC(c)
    BY <2>7 DEF LeaveRoom, LeavePC
  <2>8. CASE LeaveCancel(c)
    <3>1. leaves' # 0
      BY <2>8, SessionAssumption DEF LeaveCancel, TypeOK
    <3> QED
      BY <3>1 DEF Calm
  <2>9. CASE CreateRoom(c)
    BY <2>9 DEF CreateRoom, RoomNow
  <2>10. CASE handleConnectionClosed(c)
    <3>1. /\ UNCHANGED <<roomOf, managed, members>>
          /\ loop' = [loop EXCEPT ![c] = "exit"] /\ managed \in members
      BY <2>10 DEF handleConnectionClosed
    <3> QED
      BY <2>one, <3>1 DEF Over
  <2> QED
    BY <1>2, <2>1, <2>2, <2>3, <2>4, <2>5, <2>6, <2>7, <2>8, <2>9, <2>10
       DEF LoopStep
<1>3. ASSUME NEW c \in Conns, Deregister(c) \/ Drop(c) PROVE StillMember'
  BY <1>3 DEF Deregister, Drop
<1>4. CASE OtherStep
  <2>1. UNCHANGED <<loop, roomOf>>
    BY <1>4, OthersLeave
  <2>2. ASSUME NEW c \in Conns, reapGhost(c) PROVE StillMember'
    <3>1. reap[c] = "armed" /\ Fire(c)
      BY <1>calm, <2>2
         DEF Calm, reapGhost, Fire, ReapTimer, ReapLookup, ReapLeave, ReapClose
    <3> QED
      BY <3>1 DEF Fire, Calm
  <2>3. CASE CloseRoomSnapshot
    <3>1. closes' # 0
      BY <2>3, SessionAssumption DEF CloseRoomSnapshot, TypeOK
    <3> QED
      BY <3>1 DEF Calm
  <2>4. CASE closeRoom
    BY <2>4 DEF closeRoom, CloseRoomPC, CloseRoomCancel, CloseRoomFinish
  <2>5. CASE ShutdownTimers
    BY <2>1, <2>5, StoppedTimers DEF ShutdownTimers, cancelGhostTimer
  <2>6. CASE ShutdownPCs
    BY <2>1, <2>6 DEF ShutdownPCs
  <2>7. ASSUME NEW k \in PCs, MediaFails(k) \/ CloseDone(k) PROVE StillMember'
    BY <2>1, <2>7 DEF MediaFails, CloseDone
  <2> QED
    BY <1>4, <2>2, <2>3, <2>4, <2>5, <2>6, <2>7 DEF OtherStep
<1>5. CASE ShutdownConns \/ UNCHANGED vars
  BY <1>5 DEF ShutdownConns, vars
<1> QED
  BY <1>1, <1>2, <1>3, <1>4, <1>5, NextCases

(* With connections one after the other, a client that comes back before   *)
(* its timer fires is not reaped: the timer is stopped on the way to the   *)
(* message loop and nothing arms another one while the loop runs.          *)
THEOREM ReconnectStopsTimer ==
    ASSUME ~Overlap
    PROVE  Spec => []ReconnectCancels
<1>1. Init => CalmInv
  BY DEF Init, CalmInv, StillMember, Counted, NothingArmed
<1>2. IInv /\ SeqInv /\ CalmInv /\ [Next]_vars => CalmInv'
  BY CountedStep, MemberStep DEF CalmInv, SeqInv
<1>3. IInv /\ CalmInv => ReconnectCancels
  BY DEF IInv, TypeOK, CalmInv, StillMember, NothingArmed, Calm,
         ReconnectCancels, LiveHasNoTimer
<1> QED
  BY <1>1, <1>2, <1>3, SessionInvariant, SequentialInvariant, PTL DEF Spec
=============================================================================
