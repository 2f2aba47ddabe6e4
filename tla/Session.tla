------------------------------ MODULE Session ------------------------------
(***************************************************************************)
(* The life of one participant's session on the server: its successive or  *)
(* overlapping WebSocket connections, its membership of the room, its      *)
(* registered peer connection and the ghost timer that ends it             *)
(* (internal/signaling/handler.go, connection_manager.go, room_manager.go).*)
(*                                                                         *)
(* One participant ID and one room ID; a closed room is replaced by a new  *)
(* object with the same ID.  Each handleConnection goroutine, each fired   *)
(* ghost timer, CloseRoom and Shutdown is a process, and a step is what it *)
(* does under one mutex.  The timer armed when connection c ends is timer  *)
(* c.  Time is abstracted: an armed timer may fire at any moment.          *)
(***************************************************************************)
EXTENDS Naturals, FiniteSets

CONSTANTS MaxConns,   \* bound on WebSocket connections of the participant
          MaxRooms,   \* bound on room objects made for the room ID
          MaxPCs,     \* bound on peer connections made
          MaxLeaves,  \* bound on leave_room requests
          MaxCloses,  \* bound on calls of Handler.CloseRoom
          MaxFaults,  \* bound on failures of peer connections
          Overlap,    \* may the client connect before the server saw the
                      \* end of its previous connection?
          EarlyDrop   \* may a connection break before room_joined?

ASSUME SessionAssumption ==
    /\ MaxConns \in Nat \ {0} /\ MaxRooms \in Nat \ {0} /\ MaxPCs \in Nat
    /\ MaxLeaves \in Nat /\ MaxCloses \in Nat /\ MaxFaults \in Nat
    /\ Overlap \in BOOLEAN /\ EarlyDrop \in BOOLEAN

Conns == 1..MaxConns
Rooms == 1..MaxRooms
PCs   == 1..MaxPCs
None  == 0

VARIABLES
    loop,        \* progress of handleConnection for each connection
    kind,        \* which caller of ensurePeerConnection the loop is in
    roomOf,      \* room object each loop holds
    found,       \* ensurePeerConnection's read of the registry
    opened,      \* connections opened so far
    open,        \* connections whose closeChan is not closed
    registered,  \* connectionManager's entry
    managed,     \* roomManager's entry
    rooms,       \* room objects made so far
    closed,      \* closed room objects
    members,     \* room objects the participant is a member of
    pcs,         \* peerConnections' entry
    pcState, pcSender, \* each peer connection's state and signaling sender
    timer,       \* ghostTimers' entry
    reap,        \* state of each ghost timer and its reapGhost
    reapRoom,    \* room object each reapGhost looked up
    closer,      \* progress of CloseRoom
    shutdown,    \* progress of Shutdown
    leaves, closes, faults

conns    == <<opened, open, registered>>
roomVars == <<managed, rooms, closed>>
pcVars   == <<pcs, pcState, pcSender>>
ghost    == <<timer, reap>>
admin    == <<closer, shutdown>>
counts   == <<leaves, closes, faults>>
vars == <<loop, kind, roomOf, found, conns, roomVars, members, pcVars, ghost,
          reapRoom, admin, counts>>

TypeOK ==
    /\ loop \in [Conns -> {"off", "room", "lookup", "join", "cancel", "ensure",
                           "apply", "send", "ready", "leave", "leavePC",
                           "exit", "done", "abort", "aborted"}]
    /\ kind \in [Conns -> {"new", "reconnect", "create"}]
    /\ roomOf \in [Conns -> 0..MaxRooms] /\ found \in [Conns -> 0..MaxPCs]
    /\ opened \in 0..MaxConns /\ open \subseteq Conns
    /\ registered \in 0..MaxConns
    /\ managed \in 0..MaxRooms /\ rooms \in 0..MaxRooms
    /\ closed \subseteq 1..rooms /\ members \subseteq 1..rooms
    /\ managed \notin closed /\ members \cap closed = {}
    /\ pcs \in 0..MaxPCs
    /\ pcState \in [PCs -> {"none", "open", "failed", "closing", "closed"}]
    /\ pcSender \in [PCs -> 0..MaxConns]
    /\ timer \in 0..MaxConns
    /\ reap \in [Conns -> {"none", "armed", "stopped", "fired", "lookup",
                           "leave", "close", "done"}]
    /\ reapRoom \in [Conns -> 0..MaxRooms]
    /\ closer \in {"idle", "pc", "cancel", "close"}
    /\ shutdown \in {"no", "conns", "pcs", "done"}
    /\ leaves \in 0..MaxLeaves /\ closes \in 0..MaxCloses
    /\ faults \in 0..MaxFaults

Init ==
    /\ loop = [c \in Conns |-> "off"] /\ kind = [c \in Conns |-> "new"]
    /\ roomOf = [c \in Conns |-> None] /\ found = [c \in Conns |-> None]
    /\ opened = 0 /\ open = {} /\ registered = None
    /\ managed = None /\ rooms = 0 /\ closed = {} /\ members = {}
    /\ pcs = None
    /\ pcState = [k \in PCs |-> "none"] /\ pcSender = [k \in PCs |-> None]
    /\ timer = None /\ reap = [c \in Conns |-> "none"]
    /\ reapRoom = [c \in Conns |-> None]
    /\ closer = "idle" /\ shutdown = "no"
    /\ leaves = 0 /\ closes = 0 /\ faults = 0

Goto(c, l) == loop' = [loop EXCEPT ![c] = l]

(* t.Stop on the registered timer: without effect once it has fired.       *)
Stopped(r) ==
    [c \in Conns |-> IF c = timer /\ r[c] = "armed" THEN "stopped" ELSE r[c]]

Usable(k) == k # None /\ pcState[k] \in {"open", "closing"}

cancelGhostTimer ==
    timer' = None /\ reap' = Stopped(reap)

(* The entry is deleted under the mutex, and the peer connection closed    *)
(* after it: until then whoever had looked it up finds it usable.  Where   *)
(* nobody has, nobody can tell.                                            *)
closePeerConnection ==
    /\ pcs' = None
    /\ pcState' = [k \in PCs |->
          CASE k # pcs -> pcState[k]
            [] k = pcs /\ pcState[k] = "open" /\ (\E c \in Conns : found[c] = k)
                 -> "closing"
            [] OTHER -> "closed"]
    /\ UNCHANGED pcSender

(* GetOrCreateRoom: the room's object, which may be new.                   *)
RoomNow == IF managed # None THEN managed ELSE rooms + 1

getOrCreateRoom ==
    /\ RoomNow <= MaxRooms
    /\ managed' = RoomNow
    /\ rooms' = IF managed # None THEN rooms ELSE rooms + 1
    /\ UNCHANGED closed

-----------------------------------------------------------------------------
(* handleConnection up to its message loop. *)

(* ServeHTTP: the upgraded connection replaces whatever is registered.     *)
ServeHTTP(c) ==
    /\ c = opened + 1 /\ shutdown = "no"
    /\ Overlap \/ \A d \in 1..opened : loop[d] \in {"done", "aborted"}
    /\ opened' = c /\ open' = open \cup {c} /\ registered' = c
    /\ Goto(c, "room")
    /\ UNCHANGED <<kind, roomOf, found, roomVars, members, pcVars, ghost,
                   reapRoom, admin, counts>>

GetOrCreateRoom(c) ==
    /\ loop[c] = "room" /\ Goto(c, "lookup")
    /\ getOrCreateRoom
    /\ roomOf' = [roomOf EXCEPT ![c] = RoomNow]
    /\ UNCHANGED <<kind, found, conns, members, pcVars, ghost, reapRoom, admin,
                   counts>>

GetParticipant(c) ==
    /\ loop[c] = "lookup"
    /\ LET known == roomOf[c] \in members IN
       /\ Goto(c, IF known THEN "cancel" ELSE "join")
       /\ kind' = [kind EXCEPT ![c] = IF known THEN "reconnect" ELSE "new"]
    /\ UNCHANGED <<roomOf, found, conns, roomVars, members, pcVars, ghost,
                   reapRoom, admin, counts>>

(* Mutated: a closed room can be joined.                                   *)
Join_Closed(c) ==
    /\ loop[c] = "join"
    /\ IF roomOf[c] \in members
       THEN Goto(c, "exit") /\ UNCHANGED members
       ELSE Goto(c, "ensure") /\ members' = members \cup {roomOf[c]}
    /\ UNCHANGED <<kind, roomOf, found, conns, roomVars, pcVars, ghost,
                   reapRoom, admin, counts>>

(* room.Join fails when the room was closed or the ID was taken meanwhile. *)
Join(c) ==
    /\ loop[c] = "join"
    /\ IF roomOf[c] \in closed \cup members
       THEN Goto(c, "exit") /\ UNCHANGED members
       ELSE Goto(c, "ensure") /\ members' = members \cup {roomOf[c]}
    /\ UNCHANGED <<kind, roomOf, found, conns, roomVars, pcVars, ghost,
                   reapRoom, admin, counts>>

(* Mutated: a reconnect leaves the timer running.                          *)
CancelOnReconnect_Skips(c) ==
    /\ loop[c] = "cancel" /\ Goto(c, "ensure")
    /\ UNCHANGED <<kind, roomOf, found, conns, roomVars, members, pcVars,
                   ghost, reapRoom, admin, counts>>

CancelOnReconnect(c) ==
    /\ loop[c] = "cancel" /\ Goto(c, "ensure")
    /\ cancelGhostTimer
    /\ UNCHANGED <<kind, roomOf, found, conns, roomVars, members, pcVars,
                   reapRoom, admin, counts>>

(* ensurePeerConnection reads the registry ...                             *)
EnsureLookup(c) ==
    /\ loop[c] = "ensure" /\ Goto(c, "apply")
    /\ found' = [found EXCEPT ![c] = pcs]
    /\ UNCHANGED <<kind, roomOf, conns, roomVars, members, pcVars, ghost,
                   reapRoom, admin, counts>>

AfterEnsure(c) == IF kind[c] = "create" THEN "ready" ELSE "send"

(* Mutated: the peer connection is reused without its new sender.          *)
EnsureReuse_KeepsSender(c) ==
    /\ loop[c] = "apply" /\ Usable(found[c])
    /\ Goto(c, AfterEnsure(c)) /\ found' = [found EXCEPT ![c] = None]
    /\ UNCHANGED <<kind, roomOf, conns, roomVars, members, pcVars,
                   ghost, reapRoom, admin, counts>>

(* ... and either reuses what it found, with the new connection as sender, *)
EnsureReuse(c) ==
    /\ loop[c] = "apply" /\ Usable(found[c])
    /\ pcSender' = [pcSender EXCEPT ![found[c]] = c]
    /\ Goto(c, AfterEnsure(c)) /\ found' = [found EXCEPT ![c] = None]
    /\ UNCHANGED <<kind, roomOf, conns, roomVars, members, pcs, pcState,
                   ghost, reapRoom, admin, counts>>

Created == Cardinality({k \in PCs : pcState[k] # "none"})

(* Mutated: the unusable peer connection is replaced but not closed.       *)
EnsureCreate_NoClose(c) ==
    /\ loop[c] = "apply" /\ ~Usable(found[c]) /\ Created < MaxPCs
    /\ LET k == Created + 1 IN
       /\ pcs' = k
       /\ pcState' = [pcState EXCEPT ![k] = "open"]
       /\ pcSender' = [pcSender EXCEPT ![k] = c]
    /\ Goto(c, AfterEnsure(c)) /\ found' = [found EXCEPT ![c] = None]
    /\ UNCHANGED <<kind, roomOf, conns, roomVars, members, ghost,
                   reapRoom, admin, counts>>

(* or makes a new one, closes the unusable one and registers the new.      *)
EnsureCreate(c) ==
    /\ loop[c] = "apply" /\ ~Usable(found[c]) /\ Created < MaxPCs
    /\ LET k == Created + 1 IN
       /\ pcs' = k
       /\ pcState' = [j \in PCs |-> CASE j = k        -> "open"
                                      [] j = found[c] -> "closed"
                                      [] OTHER        -> pcState[j]]
       /\ pcSender' = [pcSender EXCEPT ![k] = c]
    /\ Goto(c, AfterEnsure(c)) /\ found' = [found EXCEPT ![c] = None]
    /\ UNCHANGED <<kind, roomOf, conns, roomVars, members, ghost,
                   reapRoom, admin, counts>>

(* NewPeerConnection fails: only a joining participant is turned away.     *)
EnsureFails(c) ==
    /\ loop[c] = "apply" /\ ~Usable(found[c]) /\ faults < MaxFaults
    /\ faults' = faults + 1
    /\ Goto(c, IF kind[c] = "new" THEN "abort" ELSE AfterEnsure(c))
    /\ found' = [found EXCEPT ![c] = None]
    /\ UNCHANGED <<kind, roomOf, conns, roomVars, members, pcVars,
                   ghost, reapRoom, admin, leaves, closes>>

(* sendRoomJoined: on a closed connection Send picks between its buffer    *)
(* and the error at random; the error ends handleConnection.               *)
SendRoomJoined(c) ==
    /\ loop[c] = "send"
    /\ \/ Goto(c, "ready")
       \/ c \notin open /\ Goto(c, "abort")
    /\ UNCHANGED <<kind, roomOf, found, conns, roomVars, members, pcVars,
                   ghost, reapRoom, admin, counts>>

-----------------------------------------------------------------------------
(* The message loop.  It ends when Receive fails, and only this exit       *)
(* runs handleConnectionClosed, which arms the ghost timer.                *)

LeaveCancel(c) ==
    /\ loop[c] = "ready" /\ leaves < MaxLeaves
    /\ leaves' = leaves + 1
    /\ Goto(c, "leave")
    /\ cancelGhostTimer
    /\ UNCHANGED <<kind, roomOf, found, conns, roomVars, members, pcVars,
                   reapRoom, admin, closes, faults>>

(* room.Leave: an error ends the handler, not the loop. *)
LeaveRoom(c) ==
    /\ loop[c] = "leave"
    /\ Goto(c, IF roomOf[c] \in members THEN "leavePC" ELSE "ready")
    /\ members' = members \ {roomOf[c]}
    /\ UNCHANGED <<kind, roomOf, found, conns, roomVars, pcVars, ghost,
                   reapRoom, admin, counts>>

LeavePC(c) ==
    /\ loop[c] = "leavePC" /\ Goto(c, "ready")
    /\ closePeerConnection
    /\ UNCHANGED <<kind, roomOf, found, conns, roomVars, members, ghost,
                   reapRoom, admin, counts>>

(* handleCreateRoom for the connection's own room and participant. *)
CreateRoom(c) ==
    /\ loop[c] = "ready" /\ RoomNow \notin members
    /\ getOrCreateRoom
    /\ members' = members \cup {RoomNow}
    /\ kind' = [kind EXCEPT ![c] = "create"]
    /\ Goto(c, "ensure")
    /\ UNCHANGED <<roomOf, found, conns, pcVars, ghost, reapRoom, admin,
                   counts>>

(* Mutated: the timer it replaces is not stopped.                          *)
handleConnectionClosed_NoStop(c) ==
    /\ loop[c] = "ready" /\ c \notin open
    /\ timer' = c /\ reap' = [reap EXCEPT ![c] = "armed"]
    /\ Goto(c, "exit")
    /\ UNCHANGED <<kind, roomOf, found, conns, roomVars, members, pcVars,
                   reapRoom, admin, counts>>

(* Mutated: the timer is armed only by the connection that joined.         *)
handleConnectionClosed_OnlyNew(c) ==
    /\ loop[c] = "ready" /\ c \notin open
    /\ IF kind[c] = "new"
       THEN timer' = c /\ reap' = [Stopped(reap) EXCEPT ![c] = "armed"]
       ELSE UNCHANGED ghost
    /\ Goto(c, "exit")
    /\ UNCHANGED <<kind, roomOf, found, conns, roomVars, members, pcVars,
                   reapRoom, admin, counts>>

handleConnectionClosed(c) ==
    /\ loop[c] = "ready" /\ c \notin open
    /\ timer' = c /\ reap' = [Stopped(reap) EXCEPT ![c] = "armed"]
    /\ Goto(c, "exit")
    /\ UNCHANGED <<kind, roomOf, found, conns, roomVars, members, pcVars,
                   reapRoom, admin, counts>>

(* Mutated: the entry is removed whoever it belongs to.                    *)
Deregister_Always(c) ==
    /\ loop[c] \in {"exit", "abort"}
    /\ Goto(c, IF loop[c] = "exit" THEN "done" ELSE "aborted")
    /\ registered' = None /\ open' = open \ {c}
    /\ UNCHANGED <<kind, roomOf, found, opened, roomVars, members, pcVars,
                   ghost, reapRoom, admin, counts>>

(* The deferred RemoveIf and Close. *)
Deregister(c) ==
    /\ loop[c] \in {"exit", "abort"}
    /\ Goto(c, IF loop[c] = "exit" THEN "done" ELSE "aborted")
    /\ registered' = IF registered = c THEN None ELSE registered
    /\ open' = open \ {c}
    /\ UNCHANGED <<kind, roomOf, found, opened, roomVars, members, pcVars,
                   ghost, reapRoom, admin, counts>>

-----------------------------------------------------------------------------
(* reapGhost, in the goroutine of fired timer c. *)

Fire(c) ==
    /\ reap[c] = "armed"
    /\ reap' = [reap EXCEPT ![c] = "fired"]
    /\ UNCHANGED <<loop, kind, roomOf, found, conns, roomVars, members, pcVars,
                   timer, reapRoom, admin, counts>>

(* The entry is removed, whichever timer it is; the reap goes on without   *)
(* one.                                                                    *)
ReapTimer(c) ==
    /\ reap[c] = "fired"
    /\ timer' = None /\ reap' = [Stopped(reap) EXCEPT ![c] = "lookup"]
    /\ UNCHANGED <<loop, kind, roomOf, found, conns, roomVars, members, pcVars,
                   reapRoom, admin, counts>>

ReapLookup(c) ==
    /\ reap[c] = "lookup" /\ reap' = [reap EXCEPT ![c] = "leave"]
    /\ reapRoom' = [reapRoom EXCEPT ![c] = managed]
    /\ UNCHANGED <<loop, kind, roomOf, found, conns, roomVars, members, pcVars,
                   timer, admin, counts>>

ReapLeave(c) ==
    /\ reap[c] = "leave" /\ reap' = [reap EXCEPT ![c] = "close"]
    /\ members' = members \ {reapRoom[c]}
    /\ reapRoom' = [reapRoom EXCEPT ![c] = None]
    /\ UNCHANGED <<loop, kind, roomOf, found, conns, roomVars, pcVars, timer,
                   admin, counts>>

ReapClose(c) ==
    /\ reap[c] = "close" /\ reap' = [reap EXCEPT ![c] = "done"]
    /\ closePeerConnection
    /\ UNCHANGED <<loop, kind, roomOf, found, conns, roomVars, members, timer,
                   reapRoom, admin, counts>>

-----------------------------------------------------------------------------
(* Handler.CloseRoom: the members it saw first are torn down, then the     *)
(* room is closed and forgotten.                                           *)

CloseRoomSnapshot ==
    /\ closer = "idle" /\ managed # None /\ closes < MaxCloses
    /\ closes' = closes + 1
    /\ closer' = IF managed \in members THEN "pc" ELSE "close"
    /\ UNCHANGED <<loop, kind, roomOf, found, conns, roomVars, members, pcVars,
                   ghost, reapRoom, shutdown, leaves, faults>>

CloseRoomPC ==
    /\ closer = "pc" /\ closer' = "cancel"
    /\ closePeerConnection
    /\ UNCHANGED <<loop, kind, roomOf, found, conns, roomVars, members, ghost,
                   reapRoom, shutdown, counts>>

CloseRoomCancel ==
    /\ closer = "cancel" /\ closer' = "close"
    /\ cancelGhostTimer
    /\ UNCHANGED <<loop, kind, roomOf, found, conns, roomVars, members, pcVars,
                   reapRoom, shutdown, counts>>

CloseRoomFinish ==
    /\ closer = "close" /\ closer' = "idle"
    /\ closed' = closed \cup {managed} /\ members' = members \ {managed}
    /\ managed' = None
    /\ UNCHANGED <<loop, kind, roomOf, found, conns, rooms, pcVars, ghost,
                   reapRoom, shutdown, counts>>

(* Handler.Shutdown: the timers, the registered connections, the peer      *)
(* connections.                                                            *)
ShutdownTimers ==
    /\ shutdown = "no" /\ shutdown' = "conns"
    /\ cancelGhostTimer
    /\ UNCHANGED <<loop, kind, roomOf, found, conns, roomVars, members, pcVars,
                   reapRoom, closer, counts>>

ShutdownConns ==
    /\ shutdown = "conns" /\ shutdown' = "pcs"
    /\ open' = open \ {registered} /\ registered' = None
    /\ UNCHANGED <<loop, kind, roomOf, found, opened, roomVars, members,
                   pcVars, ghost, reapRoom, closer, counts>>

ShutdownPCs ==
    /\ shutdown = "pcs" /\ shutdown' = "done"
    /\ closePeerConnection
    /\ UNCHANGED <<loop, kind, roomOf, found, conns, roomVars, members, ghost,
                   reapRoom, closer, counts>>

-----------------------------------------------------------------------------
(* The Close that closePeerConnection called takes effect. *)
CloseDone(k) ==
    /\ pcState[k] = "closing" /\ pcState' = [pcState EXCEPT ![k] = "closed"]
    /\ UNCHANGED <<loop, kind, roomOf, found, conns, roomVars, members, pcs,
                   pcSender, ghost, reapRoom, admin, counts>>

-----------------------------------------------------------------------------
(* External: the network and the media transport. *)

(* The server notices that connection c is gone; or the client sends what  *)
(* ParseMessage refuses, after which the loop ends in the same way, though *)
(* the connection is closed by the deferred Close: the state of a          *)
(* connection that left its loop is nobody's business but its own.         *)
Drop(c) ==
    /\ c \in open /\ open' = open \ {c}
    /\ EarlyDrop \/ loop[c] = "ready"
    /\ UNCHANGED <<loop, kind, roomOf, found, opened, registered, roomVars,
                   members, pcVars, ghost, reapRoom, admin, counts>>

MediaFails(k) ==
    /\ pcState[k] = "open" /\ pcState' = [pcState EXCEPT ![k] = "failed"]
    /\ faults < MaxFaults /\ faults' = faults + 1
    /\ UNCHANGED <<loop, kind, roomOf, found, conns, roomVars, members, pcs,
                   pcSender, ghost, reapRoom, admin, leaves, closes>>

-----------------------------------------------------------------------------
handleConnection(c) ==
    \/ GetOrCreateRoom(c) \/ GetParticipant(c) \/ Join(c)
    \/ CancelOnReconnect(c) \/ EnsureLookup(c) \/ EnsureReuse(c)
    \/ EnsureCreate(c) \/ EnsureFails(c) \/ SendRoomJoined(c)
    \/ LeaveRoom(c) \/ LeavePC(c) \/ handleConnectionClosed(c) \/ Deregister(c)

reapGhost(c) ==
    Fire(c) \/ ReapTimer(c) \/ ReapLookup(c) \/ ReapLeave(c) \/ ReapClose(c)

closeRoom == CloseRoomPC \/ CloseRoomCancel \/ CloseRoomFinish

Next ==
    \/ \E c \in Conns : \/ ServeHTTP(c) \/ handleConnection(c) \/ reapGhost(c)
                        \/ LeaveCancel(c) \/ CreateRoom(c) \/ Drop(c)
    \/ CloseRoomSnapshot \/ closeRoom
    \/ ShutdownTimers \/ ShutdownConns \/ ShutdownPCs
    \/ \E k \in PCs : MediaFails(k) \/ CloseDone(k)

Spec == Init /\ [][Next]_vars

(* Goroutines are scheduled and an armed timer fires.  Nothing is assumed  *)
(* of the client, of CloseRoom's callers or of Shutdown's.                 *)
FairSpec ==
    /\ Spec
    /\ \A c \in Conns : WF_vars(handleConnection(c)) /\ WF_vars(reapGhost(c))
    /\ WF_vars(closeRoom)

-----------------------------------------------------------------------------
(* A loop that serves the newest connection stays registered: the cleanup  *)
(* of an older connection, which may run later, never evicts it            *)
(* (ConnectionManager.RemoveIf).                                           *)
NewestRegistered ==
    \A c \in Conns :
        loop[c] = "ready" /\ c = opened /\ shutdown \in {"no", "conns"} =>
            registered = c

(* Every timer that can still fire is the one ghostTimers holds, whatever  *)
(* connections, leaves, reaps and room closures have replaced or removed   *)
(* the entry.  A timer that got lost could not be cancelled by a           *)
(* reconnect.                                                              *)
ArmedTimerKnown == \A c \in Conns : reap[c] = "armed" => timer = c

(* When a client reconnects only after its old connection ended, no peer   *)
(* connection that is not closed drops out of the registry, though reaps,  *)
(* leaves, CloseRoom and Shutdown race with ensurePeerConnection.          *)
NoLeakedPC ==
    \A k \in PCs : pcState[k] \in {"open", "failed"} => pcs = k

(* Under the same condition a usable peer connection talks to the newest   *)
(* connection as soon as that connection's loop runs.                      *)
SenderNewest ==
    \A c \in Conns :
        loop[c] = "ready" /\ c = opened /\ Usable(pcs) => pcSender[pcs] = c

(* A participant or peer connection that no connection's loop looks after, *)
(* where every connection that joined got as far as room_joined and so     *)
(* came to handleConnectionClosed, and CloseRoom was not called.  After    *)
(* Shutdown that is a peer connection only: one that a message loop made   *)
(* while it was being closed.  Rooms outlive Shutdown as they are.         *)
Ghost ==
    /\ closes = 0 /\ \A c \in Conns : loop[c] \in {"off", "done"}
    /\ \/ shutdown = "no" /\ managed \in members
       \/ shutdown \in {"no", "done"} /\ pcs # None

(* Every ghost is reaped, or its client comes back; also one that Shutdown *)
(* left, by the timer that was armed after Shutdown had stopped the timers *)
(* (handleConnectionClosed, reapGhost, Shutdown).                          *)
GhostReaped == Ghost ~> ~Ghost

(* A participant with a working connection has no ghost timer running: the *)
(* timer is armed on disconnect and cancelled on reconnect.                *)
LiveHasNoTimer ==
    (\E c \in open : loop[c] = "ready") => \A d \in Conns : reap[d] # "armed"

(* The same for every sequence of reconnects in time: as long as no timer  *)
(* has fired and the participant was not taken out of the room by          *)
(* leave_room or CloseRoom.                                                *)
ReconnectCancels ==
    /\ leaves = 0 /\ closes = 0
    /\ \A d \in Conns : reap[d] \in {"none", "armed", "stopped"}
    => LiveHasNoTimer
=============================================================================
