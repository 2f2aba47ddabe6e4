---------------------- MODULE ForwarderRegistryProofs ----------------------
(***************************************************************************)
(* Proofs about the SFU wiring, for any number of subscribers, tracks and  *)
(* forwarders: types, that a leaver is detached from everything, that a    *)
(* TrackRemote has one run loop, and one abandoned Read at most beside it, *)
(* and that a published track keeps its media.                             *)
(***************************************************************************)
EXTENDS ForwarderRegistry, TLAPS

Installs    == {"lookup", "create", "swap"}
PubPlaces   == Installs \cup {"idle", "find", "adopt", "unhook", "stop",
                              "created", "auto", "attach"}
TrackPlaces == Installs \cup {"idle", "created", "auto", "attach"}
LeavePlaces == {"idle", "snapshot", "remove", "prune", "stop", "close"}
SubPlaces   == Installs \cup LeavePlaces
                   \cup {"find", "created", "add", "flush", "detach"}

Errands == (IDs \cup Subs) \X (0..MaxForwarders)

ProcType == [at : PubPlaces \cup SubPlaces, id : IDs \cup {Placeholder},
             fw : 0..MaxForwarders, src : Tracks \cup {Placeholder},
             todo : SUBSET Errands]

(* Where process x may be, and what it has in hand there.                  *)
ProcOK(x, r) ==
    /\ r \in ProcType
    /\ r.at = "idle" => r = Idle
    /\ x = Pub => r.at \in PubPlaces
    /\ x \in Tracks => r.at \in TrackPlaces /\ (r.at # "idle" => r.src = x)
    /\ x \in Subs => /\ r.at \in SubPlaces /\ r.src = Placeholder
                      /\ \A e \in r.todo : e[1] \in IDs
    /\ r.at \in Installs \cup {"find", "created", "adopt", "auto", "detach",
                               "prune"} => r.id \in IDs
    /\ r.at \in {"swap", "add", "attach", "prune"} => r.fw # NoFw
    /\ r.at = "created" /\ x \in Subs => r.fw # NoFw
    /\ r.at = "unhook" => \E i \in IDs : r.todo = {<<i, NoFw>>}
    /\ r.at \in {"remove", "prune", "stop"} => \A e \in r.todo : e[2] # NoFw
    /\ r.at = "attach" => \A e \in r.todo : e[1] \in Subs
    /\ x = Pub /\ r.at \in {"unhook", "stop"} => r.id \in IDs
    /\ x = Pub /\ r.at = "stop" => r.todo = {}

ProcsOK == DOMAIN proc = Procs /\ \A x \in Procs : ProcOK(x, proc[x])

(* Who is in the room, and what a participant may be doing.                *)
Stages ==
    /\ pcs \subseteq world.subs
    /\ \A s \in Subs \ members : proc[s].at \in LeavePlaces
    /\ \A s \in members : proc[s].at \notin {"snapshot", "close"}
    /\ \A s \in Subs \ pcs : At(s, "idle")
    /\ \A s \in pcs \ members : ~At(s, "idle")
    /\ "leave" \notin world.ops => members = world.subs
    /\ published \subseteq DOMAIN world.wire
    /\ \A t \in Tracks : media[t] # "none" => t \in DOMAIN world.wire

(* The forwarders.                                                         *)
ForwardersOK ==
    /\ fws \in [IDs -> 0..MaxForwarders]
    /\ source \in [Forwarders -> Tracks \cup {Placeholder}]
    /\ attached \in [Forwarders -> SUBSET Subs]
    /\ running \subseteq Forwarders /\ leftover \in [Tracks -> Nat]
    /\ \A k \in running : source[k] # Placeholder
    /\ \A i, j \in IDs : fws[i] # NoFw /\ fws[i] = fws[j] => i = j

Base == TypeOK /\ ForwardersOK /\ ProcsOK /\ Stages

USE DEF forwarders, domain, peers

-----------------------------------------------------------------------------
(* Processes and the identifiers they handle. *)

(* Who is who.                                                             *)
LEMMA ProcKinds ==
    /\ Pub \in Procs /\ Pub \notin Subs /\ Pub \notin Tracks
    /\ \A t \in Tracks : t \in Procs /\ t \notin Subs /\ t # Pub /\ t \in IDs
    /\ \A s \in Subs : s \in Procs /\ s \notin Tracks /\ s # Pub
    /\ \A x \in Procs : x = Pub \/ x \in Tracks \/ x \in Subs
    /\ Placeholder \notin Tracks
BY RegistryAssumption DEF RegistryAssumption, Procs, IDs

(* The ID that the browser's media carries is one of the IDs.              *)
LEMMA WireIsID ==
    ASSUME TypeOK, NEW t \in DOMAIN world.wire
    PROVE  world.wire[t] \in IDs /\ t \in Tracks
<1>1. world \in Worlds
      BY DEF TypeOK
<1> QED
    BY <1>1, RegistryAssumption DEF RegistryAssumption, IDs

(* One process moves, the others stay where they are.                      *)
Moves(x) ==
    DOMAIN proc' = Procs /\ \A y \in Procs \ {x} : proc'[y] = proc[y]

Keeps(x) == /\ proc'[x].id = proc[x].id /\ proc'[x].src = proc[x].src
            /\ proc'[x].fw = proc[x].fw

LEMMA GotoMoves ==
    ASSUME ProcsOK, NEW x \in Procs, NEW r, Goto(x, r)
    PROVE  Moves(x) /\ proc'[x] = r
BY DEF ProcsOK, Goto, Moves

LEMMA MoveMoves ==
    ASSUME ProcsOK, NEW x \in Procs, NEW a, Move(x, a)
    PROVE  /\ Moves(x) /\ Keeps(x)
           /\ proc'[x].at = a /\ proc'[x].todo = proc[x].todo
           /\ a \in PubPlaces \cup SubPlaces => proc'[x] \in ProcType
<1>1. proc[x] \in ProcType
      BY DEF ProcsOK, ProcOK
<1>2. Moves(x) /\ proc'[x] = [proc[x] EXCEPT !.at = a]
      BY GotoMoves DEF Move
<1> QED
    BY <1>1, <1>2 DEF ProcType, Keeps

(* The rest of a loop, the close of a leaver's peer connection, or the end *)
(* of the handler.                                                         *)
GoesOn(x, a, rest) ==
    \/ rest # {} /\ Keeps(x) /\ proc'[x].at = a /\ proc'[x].todo = rest
    \/ /\ rest = {} /\ x \in Subs \ members /\ proc'[x].at = "close"
       /\ proc'[x].src = Placeholder /\ proc'[x].fw = NoFw
       /\ proc'[x].todo = {}
    \/ rest = {} /\ x \notin Subs \ members /\ proc'[x] = Idle

LEMMA ResumeMoves ==
    ASSUME ProcsOK, NEW x \in Procs, NEW a, NEW rest, Resume(x, a, rest)
    PROVE  Moves(x) /\ GoesOn(x, a, rest)
<1>1. proc[x] \in ProcType
      BY DEF ProcsOK, ProcOK
<1>2. CASE rest # {}
  <2>1. Goto(x, [proc[x] EXCEPT !.at = a, !.todo = rest])
        BY <1>2 DEF Resume
  <2>2. Moves(x) /\ proc'[x] = [proc[x] EXCEPT !.at = a, !.todo = rest]
        BY <2>1, GotoMoves
  <2> QED
      BY <1>1, <1>2, <2>2 DEF ProcType, GoesOn, Keeps
<1>3. CASE rest = {} /\ x \in Subs \ members
  <2>1. Goto(x, [Idle EXCEPT !.at = "close"])
        BY <1>3 DEF Resume
  <2> QED
      BY <1>3, <2>1, GotoMoves DEF GoesOn, Idle
<1>4. CASE rest = {} /\ x \notin Subs \ members
  <2>1. Goto(x, Idle)
        BY <1>4 DEF Resume
  <2> QED
      BY <1>4, <2>1, GotoMoves DEF GoesOn
<1> QED
    BY <1>2, <1>3, <1>4

(* Idle, and the place of a process that begins a handler, are well formed. *)
LEMMA IdleOK ==
    /\ Idle \in ProcType /\ Idle.at = "idle" /\ Idle.fw = NoFw
    /\ Idle.src = Placeholder /\ Idle.todo = {} /\ Idle.id = Placeholder
    /\ \A x \in Procs : ProcOK(x, Idle)
<1>1. NoFw \in 0..MaxForwarders
      BY RegistryAssumption DEF RegistryAssumption, NoFw
<1>2. /\ Idle \in ProcType /\ Idle.at = "idle" /\ Idle.fw = NoFw
      /\ Idle.src = Placeholder /\ Idle.todo = {} /\ Idle.id = Placeholder
      BY <1>1 DEF Idle, ProcType, PubPlaces
<1> QED
    BY <1>2
    DEF ProcOK, PubPlaces, TrackPlaces, SubPlaces, LeavePlaces, Installs

-----------------------------------------------------------------------------
(* What each action does. *)

(* A process that goes on keeps within the places it may be in.            *)
Proper(x) ==
    /\ ProcOK(x, proc'[x])
    /\ x \in Subs \ members => proc'[x].at \in LeavePlaces \ {"idle"}
    /\ x \in members => proc'[x].at \notin {"snapshot", "close"}

LEMMA BaseMoves ==
    ASSUME Base, NEW x \in Procs, Moves(x), Proper(x), ~At(x, "idle"),
           ForwardersOK', subscribed' \subseteq members \X Tracks,
           UNCHANGED <<world, published, members, peers>>
    PROVE  Base'
<1>1. ProcsOK'
      BY DEF Base, ProcsOK, Moves, Proper
<1>2. TypeOK'
      BY <1>1 DEF Base, TypeOK, ForwardersOK, ProcsOK
<1>3. Stages'
  <2>1. x \in pcs \/ x \notin Subs
        BY DEF Base, Stages
  <2>2. \A s \in Subs \ members : proc'[s].at \in LeavePlaces
        BY ProcKinds DEF Base, Stages, Moves, Proper
  <2>3. \A s \in members : proc'[s].at \notin {"snapshot", "close"}
        BY ProcKinds DEF Base, Stages, TypeOK, Moves, Proper
  <2>4. \A s \in Subs \ pcs : proc'[s].at = "idle"
        BY <2>1, ProcKinds DEF Base, Stages, Moves, At
  <2>5. \A s \in pcs \ members : proc'[s].at # "idle"
        BY ProcKinds DEF Base, Stages, TypeOK, Moves, Proper, At
  <2> QED
      BY <2>2, <2>3, <2>4, <2>5 DEF Base, Stages, At
<1> QED
    BY <1>1, <1>2, <1>3 DEF Base

(* A step that leaves everything alone but one process.                    *)
Quiet == UNCHANGED <<world, forwarders, domain, peers>>

LEMMA QuietMoves ==
    ASSUME Base, NEW x \in Procs, Moves(x), Proper(x), ~At(x, "idle"), Quiet
    PROVE  Base'
<1>1. ForwardersOK'
      BY DEF Base, ForwardersOK, Quiet
<1> QED
    BY <1>1, BaseMoves DEF Quiet, Base, TypeOK

LEMMA LookupDoes ==
    ASSUME Base, NEW x \in Procs, Lookup(x)
    PROVE  /\ Base' /\ Quiet /\ Moves(x)
           /\ proc'[x].id = proc[x].id /\ proc'[x].src = proc[x].src
           /\ proc'[x].fw = fws[proc[x].id] /\ proc'[x].todo = proc[x].todo
           /\ \/ fws[proc[x].id] = NoFw /\ proc'[x].at = "create"
              \/ fws[proc[x].id] # NoFw /\ proc'[x].at = "swap"
<1> DEFINE k == fws[proc[x].id]
           a == IF k = NoFw THEN "create" ELSE "swap"
<1>1. Quiet /\ Moves(x) /\ proc'[x] = [proc[x] EXCEPT !.at = a, !.fw = k]
      BY GotoMoves DEF Lookup, Base, Quiet
<1>2. ProcOK(x, proc[x]) /\ proc[x].at = "lookup"
      BY DEF Base, ProcsOK, Lookup, At
<1>3. proc[x].id \in IDs /\ k \in 0..MaxForwarders
      BY <1>2 DEF ProcOK, Base, ForwardersOK, Installs
<1>4. a \in PubPlaces /\ proc[x] \in ProcType
      BY <1>2 DEF PubPlaces, Installs, ProcOK
<1>5. /\ proc'[x] \in ProcType /\ proc'[x].at = a /\ proc'[x].fw = k
      /\ proc'[x].id = proc[x].id /\ proc'[x].src = proc[x].src
      /\ proc'[x].todo = proc[x].todo
  <2> HIDE DEF k, a
  <2> QED
      BY <1>1, <1>3, <1>4 DEF ProcType
<1>6. Proper(x)
  <2>1. x \notin Subs \ members
        BY <1>2 DEF Base, Stages, LeavePlaces
  <2>2. ProcOK(x, proc'[x])
        BY <1>2, <1>3, <1>5
        DEF ProcOK, PubPlaces, TrackPlaces, SubPlaces, Installs
  <2> QED
      BY <1>5, <2>1, <2>2 DEF Proper
<1> QED
    BY <1>1, <1>2, <1>5, <1>6, QuietMoves DEF At

(* Going on with a loop is proper if the next turn of it would be.         *)
Fits(x, a, rest) ==
    /\ rest \subseteq Errands /\ a \in PubPlaces \cup SubPlaces
    /\ rest # {} =>
          /\ \A r \in ProcType :
                /\ r.at = a /\ r.id = proc[x].id /\ r.fw = proc[x].fw
                /\ r.src = proc[x].src /\ r.todo = rest
                => ProcOK(x, r)
          /\ x \in Subs \ members => a \in LeavePlaces \ {"idle"}
          /\ x \in members => a \notin {"snapshot", "close"}

LEMMA ResumeDoes ==
    ASSUME Base, NEW x \in Procs, NEW a, NEW rest, Resume(x, a, rest),
           Fits(x, a, rest)
    PROVE  Moves(x) /\ GoesOn(x, a, rest) /\ Proper(x)
<1>1. Moves(x) /\ GoesOn(x, a, rest)
      BY ResumeMoves DEF Base
<1>2. proc[x] \in ProcType
      BY DEF Base, ProcsOK, ProcOK
<1>3. CASE rest # {}
  <2>1. Goto(x, [proc[x] EXCEPT !.at = a, !.todo = rest])
        BY <1>3 DEF Resume
  <2>2. proc'[x] = [proc[x] EXCEPT !.at = a, !.todo = rest]
        BY <2>1, GotoMoves DEF Base
  <2>3. /\ proc'[x] \in ProcType /\ proc'[x].at = a /\ proc'[x].todo = rest
        /\ proc'[x].id = proc[x].id /\ proc'[x].fw = proc[x].fw
        /\ proc'[x].src = proc[x].src
        BY <1>2, <2>2 DEF Fits, ProcType
  <2> QED
      BY <1>1, <1>3, <2>3 DEF Fits, Proper
<1>4. CASE rest = {} /\ x \in Subs \ members
  <2>1. Goto(x, [Idle EXCEPT !.at = "close"])
        BY <1>4 DEF Resume
  <2>2. proc'[x] = [Idle EXCEPT !.at = "close"]
        BY <2>1, GotoMoves DEF Base
  <2>3. /\ proc'[x] \in ProcType /\ proc'[x].at = "close"
        /\ proc'[x].src = Placeholder /\ proc'[x].todo = {}
        BY <2>2, IdleOK DEF ProcType, SubPlaces, LeavePlaces
  <2>4. ProcOK(x, proc'[x])
        BY <1>4, <2>3, ProcKinds DEF ProcOK, SubPlaces, LeavePlaces, Installs
  <2> QED
      BY <1>1, <1>4, <2>3, <2>4 DEF Proper, LeavePlaces
<1>5. CASE rest = {} /\ x \notin Subs \ members
  <2>1. proc'[x] = Idle
        BY <1>1, <1>5 DEF GoesOn
  <2> QED
      BY <1>1, <1>5, <2>1, IdleOK DEF Proper
<1> QED
    BY <1>3, <1>4, <1>5

LEMMA StaysProper ==
    ASSUME Base, NEW x \in Procs, ProcOK(x, proc'[x]),
           proc[x].at \notin LeavePlaces,
           proc'[x].at \notin {"snapshot", "close"}
    PROVE  Proper(x)
BY DEF Base, Stages, Proper

(* An entry of the map is a forwarder or none.                             *)
LEMMA Entries ==
    ASSUME Base, NEW i \in IDs
    PROVE  /\ fws[i] \in 0..MaxForwarders
           /\ fws[i] # NoFw => fws[i] \in Forwarders
           /\ Remote(fws[i]) => source[fws[i]] \in Tracks
<1>1. fws[i] \in 0..MaxForwarders /\ MaxForwarders \in Nat
      BY RegistryAssumption DEF Base, ForwardersOK, RegistryAssumption
<1>2. fws[i] # NoFw => fws[i] \in Forwarders
      BY <1>1 DEF NoFw, Forwarders
<1> QED
    BY <1>1, <1>2 DEF Remote, Base, ForwardersOK

LEMMA FindForwarderDoes ==
    ASSUME Base, FindForwarder
    PROVE  /\ Base' /\ Quiet /\ Moves(Pub) /\ Keeps(Pub) /\ At(Pub, "find")
           /\ proc'[Pub].todo = proc[Pub].todo
           /\ \/ fws[proc[Pub].id] = NoFw /\ proc'[Pub].at = "adopt"
              \/ fws[proc[Pub].id] # NoFw /\ proc'[Pub].at = "created"
<1> DEFINE a == IF fws[proc[Pub].id] = NoFw THEN "adopt" ELSE "created"
<1>1. Quiet /\ Move(Pub, a) /\ At(Pub, "find") /\ Pub \in Procs
      BY ProcKinds DEF FindForwarder, Quiet
<1>2. /\ Moves(Pub) /\ Keeps(Pub) /\ proc'[Pub].at = a
      /\ proc'[Pub].todo = proc[Pub].todo
      /\ proc'[Pub] \in ProcType
  <2>1. a \in PubPlaces
        BY DEF PubPlaces
  <2> HIDE DEF a
  <2> QED
      BY <1>1, <2>1, MoveMoves DEF Base
<1>3. ProcOK(Pub, proc[Pub])
      BY <1>1 DEF Base, ProcsOK
<1>4. ProcOK(Pub, proc'[Pub])
      BY <1>1, <1>2, <1>3, ProcKinds DEF ProcOK, PubPlaces, At, Keeps, Installs
<1>5. Proper(Pub)
      BY <1>1, <1>2, <1>4, StaysProper DEF At, LeavePlaces
<1> QED
    BY <1>1, <1>2, <1>5, QuietMoves DEF At

LEMMA AdoptDoes ==
    ASSUME Base, AdoptOrphanForwarder
    PROVE  /\ Base' /\ Quiet /\ Moves(Pub) /\ At(Pub, "adopt")
           /\ proc'[Pub].id = proc[Pub].id /\ proc'[Pub].fw = proc[Pub].fw
           /\ \/ /\ Orphans(proc[Pub].id) = {} /\ proc'[Pub].at = "lookup"
                 /\ proc'[Pub].src = proc[Pub].src
              \/ \E i \in Orphans(proc[Pub].id) :
                    /\ proc'[Pub].at = "unhook"
                    /\ proc'[Pub].src = source[fws[i]]
                    /\ proc'[Pub].todo = {<<i, NoFw>>}
<1>1. Quiet /\ At(Pub, "adopt") /\ Pub \in Procs /\ ProcOK(Pub, proc[Pub])
      BY ProcKinds DEF AdoptOrphanForwarder, Quiet, Base, ProcsOK
<1>2. CASE Orphans(proc[Pub].id) = {} /\ Move(Pub, "lookup")
  <2>1. /\ Moves(Pub) /\ Keeps(Pub) /\ proc'[Pub].at = "lookup"
        /\ proc'[Pub].todo = proc[Pub].todo
        BY <1>1, <1>2, MoveMoves DEF Base
  <2>2. proc'[Pub] \in ProcType
        BY <1>1, <1>2, MoveMoves DEF Base, PubPlaces, Installs
  <2>3. ProcOK(Pub, proc'[Pub])
        BY <1>1, <2>1, <2>2, ProcKinds
        DEF ProcOK, PubPlaces, At, Keeps, Installs
  <2>4. Proper(Pub)
        BY <1>1, <2>1, <2>3, StaysProper DEF At, LeavePlaces
  <2> QED
      BY <1>1, <1>2, <2>1, <2>4, QuietMoves DEF At, Keeps
<1>3. ASSUME NEW i \in Orphans(proc[Pub].id),
             Goto(Pub, [proc[Pub] EXCEPT !.at = "unhook",
                          !.src = source[fws[i]], !.todo = {<<i, NoFw>>}])
      PROVE  /\ Base' /\ Moves(Pub)
             /\ proc'[Pub].id = proc[Pub].id /\ proc'[Pub].fw = proc[Pub].fw
             /\ proc'[Pub].at = "unhook"
             /\ proc'[Pub].src = source[fws[i]]
             /\ proc'[Pub].todo = {<<i, NoFw>>}
  <2>1. i \in IDs /\ source[fws[i]] \in Tracks
        BY <1>3, Entries DEF Orphans
  <2>2. {<<i, NoFw>>} \subseteq Errands
        BY <2>1, RegistryAssumption DEF Errands, NoFw, RegistryAssumption
  <2>3. /\ Moves(Pub)
        /\ proc'[Pub] = [proc[Pub] EXCEPT !.at = "unhook",
                           !.src = source[fws[i]], !.todo = {<<i, NoFw>>}]
        BY <1>1, <1>3, GotoMoves DEF Base
  <2>4. /\ proc'[Pub] \in ProcType
        /\ proc'[Pub].id = proc[Pub].id /\ proc'[Pub].fw = proc[Pub].fw
        /\ proc'[Pub].at = "unhook" /\ proc'[Pub].src = source[fws[i]]
        /\ proc'[Pub].todo = {<<i, NoFw>>}
    <3> DEFINE u == source[fws[i]]
               w == {<<i, NoFw>>}
    <3>1. proc[Pub] \in ProcType /\ "unhook" \in PubPlaces
          BY <1>1 DEF ProcOK, PubPlaces
    <3>2. u \in Tracks /\ w \subseteq Errands
          BY <2>1, <2>2
    <3>3. proc'[Pub] = [proc[Pub] EXCEPT !.at = "unhook", !.src = u, !.todo = w]
          BY <2>3
    <3> HIDE DEF u, w
    <3>4. /\ proc'[Pub] \in ProcType
          /\ proc'[Pub].id = proc[Pub].id /\ proc'[Pub].fw = proc[Pub].fw
          /\ proc'[Pub].at = "unhook" /\ proc'[Pub].src = u
          /\ proc'[Pub].todo = w
          BY <3>1, <3>2, <3>3 DEF ProcType
    <3> QED
        BY <3>4 DEF u, w
  <2>5. ProcOK(Pub, proc'[Pub])
        BY <1>1, <2>1, <2>4, ProcKinds DEF ProcOK, PubPlaces, At, Installs
  <2>6. Proper(Pub)
        BY <1>1, <2>4, <2>5, StaysProper DEF At, LeavePlaces
  <2> QED
      BY <1>1, <2>3, <2>4, <2>6, QuietMoves DEF At
<1> QED
    BY <1>1, <1>2, <1>3 DEF AdoptOrphanForwarder

(* A step after which the process is idle.                                 *)
LEMMA EndsProper ==
    ASSUME Base, NEW x \in Procs, Goto(x, Idle), proc[x].at \notin LeavePlaces
    PROVE  Moves(x) /\ proc'[x] = Idle /\ Proper(x)
<1>1. Moves(x) /\ proc'[x] = Idle
      BY GotoMoves DEF Base
<1> QED
    BY <1>1, IdleOK, StaysProper

LEMMA MediaReadyDoes ==
    ASSUME Base, MediaReady
    PROVE  /\ Base' /\ Quiet /\ Moves(Pub) /\ At(Pub, "created")
           /\ \/ proc'[Pub] = Idle
              \/ Keeps(Pub) /\ proc'[Pub].at = "auto"
<1>1. Quiet /\ At(Pub, "created") /\ Pub \in Procs /\ ProcOK(Pub, proc[Pub])
      BY ProcKinds DEF MediaReady, Quiet, Base, ProcsOK
<1>2. CASE Move(Pub, "auto")
  <2>1. /\ Moves(Pub) /\ Keeps(Pub) /\ proc'[Pub].at = "auto"
        /\ proc'[Pub].todo = proc[Pub].todo /\ proc'[Pub] \in ProcType
        BY <1>1, <1>2, MoveMoves DEF Base, PubPlaces
  <2>2. ProcOK(Pub, proc'[Pub])
        BY <1>1, <2>1, ProcKinds DEF ProcOK, PubPlaces, At, Keeps, Installs
  <2>3. Proper(Pub)
        BY <1>1, <2>1, <2>2, StaysProper DEF At, LeavePlaces
  <2> QED
      BY <1>1, <2>1, <2>3, QuietMoves DEF At
<1>3. CASE Goto(Pub, Idle)
      BY <1>1, <1>3, EndsProper, QuietMoves DEF At, LeavePlaces
<1> QED
    BY <1>2, <1>3 DEF MediaReady

LEMMA TrackRegisteredDoes ==
    ASSUME Base, NEW t \in Tracks, TrackRegistered(t)
    PROVE  /\ Base' /\ Quiet /\ Moves(t) /\ At(t, "created")
           /\ \/ proc'[t] = Idle
              \/ Keeps(t) /\ proc'[t].at = "auto"
<1>1. Quiet /\ At(t, "created") /\ t \in Procs /\ ProcOK(t, proc[t])
      BY ProcKinds DEF TrackRegistered, Quiet, Base, ProcsOK
<1>2. CASE Move(t, "auto")
  <2>1. /\ Moves(t) /\ Keeps(t) /\ proc'[t].at = "auto"
        /\ proc'[t].todo = proc[t].todo /\ proc'[t] \in ProcType
        BY <1>1, <1>2, MoveMoves DEF Base, PubPlaces
  <2>2. ProcOK(t, proc'[t])
        BY <1>1, <2>1, ProcKinds DEF ProcOK, TrackPlaces, At, Keeps, Installs
  <2>3. Proper(t)
        BY <1>1, <2>1, <2>2, StaysProper DEF At, LeavePlaces
  <2> QED
      BY <1>1, <2>1, <2>3, QuietMoves DEF At
<1>3. CASE Goto(t, Idle)
      BY <1>1, <1>3, EndsProper, QuietMoves DEF At, LeavePlaces
<1> QED
    BY <1>2, <1>3 DEF TrackRegistered

LEMMA DecideDoes ==
    ASSUME Base, NEW s \in Subs, Decide(s)
    PROVE  /\ Base' /\ Quiet /\ Moves(s) /\ At(s, "created")
           /\ \/ proc'[s] = Idle
              \/ Keeps(s) /\ proc'[s].at = "add"
<1>1. Quiet /\ At(s, "created") /\ s \in Procs /\ ProcOK(s, proc[s])
      BY ProcKinds DEF Decide, Quiet, Base, ProcsOK
<1>2. CASE Move(s, "add")
  <2>1. /\ Moves(s) /\ Keeps(s) /\ proc'[s].at = "add"
        /\ proc'[s].todo = proc[s].todo /\ proc'[s] \in ProcType
        BY <1>1, <1>2, MoveMoves DEF Base, SubPlaces
  <2>2. ProcOK(s, proc'[s])
        BY <1>1, <2>1, ProcKinds DEF ProcOK, SubPlaces, At, Keeps, Installs
  <2>3. Proper(s)
        BY <1>1, <2>1, <2>2, StaysProper DEF At, LeavePlaces
  <2> QED
      BY <1>1, <2>1, <2>3, QuietMoves DEF At
<1>3. CASE Goto(s, Idle)
      BY <1>1, <1>3, EndsProper, QuietMoves DEF At, LeavePlaces
<1> QED
    BY <1>2, <1>3 DEF Decide

LEMMA AutoSubscribeDoes ==
    ASSUME Base, NEW x \in Procs, AutoSubscribe(x)
    PROVE  /\ Base' /\ Quiet /\ Moves(x) /\ At(x, "auto") /\ x \notin Subs
           /\ \/ proc'[x] = Idle
              \/ /\ proc'[x].at = "attach" /\ fws[proc[x].id] # NoFw
                 /\ proc'[x].fw = fws[proc[x].id] /\ proc[x].id \in IDs
                 /\ proc'[x].id = proc[x].id /\ proc'[x].src = proc[x].src
                 /\ proc'[x].todo = {<<s, NoFw>> : s \in members}
<1>1. Quiet /\ At(x, "auto") /\ ProcOK(x, proc[x])
      BY DEF AutoSubscribe, Quiet, Base, ProcsOK
<1>2. x \notin Subs
      BY <1>1 DEF ProcOK, At, SubPlaces, LeavePlaces, Installs
<1>3. CASE Goto(x, Idle)
      BY <1>1, <1>2, <1>3, EndsProper, QuietMoves DEF At, LeavePlaces
<1>4. CASE ~ Goto(x, Idle)
  <2> DEFINE k == fws[proc[x].id]
             w == {<<s, NoFw>> : s \in members}
  <2>1. /\ Goto(x, [proc[x] EXCEPT !.at = "attach", !.fw = k, !.todo = w])
        /\ k # NoFw
        BY <1>4 DEF AutoSubscribe
  <2>2. proc[x].id \in IDs
        BY <1>1 DEF ProcOK, At
  <2>3. k \in 0..MaxForwarders
        BY <2>2, Entries
  <2>4. members \subseteq Subs /\ NoFw \in 0..MaxForwarders
        BY RegistryAssumption DEF Base, TypeOK, RegistryAssumption, NoFw
  <2>5. w \subseteq Errands /\ \A e \in w : e[1] \in Subs
        BY <2>4 DEF Errands
  <2>6. "attach" \in PubPlaces /\ proc[x] \in ProcType
        BY <1>1 DEF PubPlaces, ProcOK
  <2>7. /\ Moves(x) /\ proc'[x] \in ProcType /\ proc'[x].at = "attach"
        /\ proc'[x].fw = k /\ proc'[x].todo = w
        /\ proc'[x].id = proc[x].id /\ proc'[x].src = proc[x].src
    <3> HIDE DEF k, w
    <3>1. /\ Moves(x)
          /\ proc'[x] = [proc[x] EXCEPT !.at = "attach", !.fw = k, !.todo = w]
          BY <2>1, GotoMoves DEF Base
    <3> QED
        BY <2>3, <2>5, <2>6, <3>1 DEF ProcType
  <2>8. ProcOK(x, proc'[x])
    <3> HIDE DEF k, w
    <3> QED
        BY <1>1, <1>2, <2>1, <2>2, <2>5, <2>7
        DEF ProcOK, PubPlaces, TrackPlaces, At, Installs
  <2>9. Proper(x)
        BY <1>1, <2>7, <2>8, StaysProper DEF At, LeavePlaces
  <2> QED
      BY <1>1, <1>2, <2>1, <2>2, <2>7, <2>9, QuietMoves DEF At
<1> QED
    BY <1>3, <1>4

LEMMA AttachSubscribedReadyDoes ==
    ASSUME Base, NEW s \in Subs, AttachSubscribedReady(s)
    PROVE  /\ Base' /\ Quiet /\ Moves(s) /\ At(s, "flush")
           /\ \E e \in proc[s].todo :
                 \/ /\ e[1] \in published /\ Remote(fws[e[1]]) /\ e[1] \in IDs
                    /\ proc'[s].at = "add" /\ proc'[s].fw = fws[e[1]]
                    /\ proc'[s].src = Placeholder
                 \/ GoesOn(s, "flush", proc[s].todo \ {e})
<1>1. Quiet /\ At(s, "flush") /\ s \in Procs /\ ProcOK(s, proc[s])
      BY ProcKinds DEF AttachSubscribedReady, Quiet, Base, ProcsOK
<1>2. PICK e \in proc[s].todo :
         IF e[1] \in published /\ Remote(fws[e[1]])
         THEN Goto(s, [proc[s] EXCEPT !.at = "add", !.fw = fws[e[1]],
                                      !.todo = proc[s].todo \ {e}])
         ELSE Resume(s, "flush", proc[s].todo \ {e})
      BY DEF AttachSubscribedReady
<1> DEFINE rest == proc[s].todo \ {e}
<1>3. /\ proc[s] \in ProcType /\ rest \subseteq Errands /\ e[1] \in IDs
      /\ \A d \in rest : d[1] \in IDs
      BY <1>1 DEF ProcOK, ProcType
<1>4. {"add", "flush"} \subseteq SubPlaces
      BY DEF SubPlaces
<1>5. CASE e[1] \in published /\ Remote(fws[e[1]])
  <2> DEFINE k == fws[e[1]]
  <2>1. k \in 0..MaxForwarders /\ k # NoFw
        BY <1>3, <1>5, Entries DEF Remote
  <2>2. Goto(s, [proc[s] EXCEPT !.at = "add", !.fw = k, !.todo = rest])
        BY <1>2, <1>5
  <2>3. /\ Moves(s) /\ proc'[s] \in ProcType /\ proc'[s].at = "add"
        /\ proc'[s].fw = k /\ proc'[s].todo = rest
        /\ proc'[s].id = proc[s].id /\ proc'[s].src = proc[s].src
    <3> HIDE DEF k, rest
    <3>1. /\ Moves(s)
          /\ proc'[s] = [proc[s] EXCEPT !.at = "add", !.fw = k, !.todo = rest]
          BY <1>1, <2>2, GotoMoves DEF Base
    <3> QED
        BY <1>3, <1>4, <2>1, <3>1 DEF ProcType
  <2>4. ProcOK(s, proc'[s])
    <3> HIDE DEF k, rest
    <3> QED
        BY <1>1, <1>3, <1>4, <2>1, <2>3, ProcKinds DEF ProcOK, At, Installs
  <2>5. Proper(s)
        BY <1>1, <2>3, <2>4, StaysProper DEF At, LeavePlaces
  <2>6. Base' /\ proc'[s].src = Placeholder
        BY <1>1, <2>3, <2>5, QuietMoves DEF At, ProcOK
  <2> QED
      BY <1>1, <1>3, <1>5, <2>3, <2>6
<1>6. CASE ~ (e[1] \in published /\ Remote(fws[e[1]]))
  <2>1. Resume(s, "flush", rest)
        BY <1>2, <1>6
  <2>2. Fits(s, "flush", rest)
    <3>1. s \notin Subs \ members
          BY <1>1 DEF Base, Stages, At, LeavePlaces
    <3>2. proc[s].src = Placeholder
          BY <1>1 DEF ProcOK
    <3> HIDE DEF rest
    <3> QED
        BY <1>3, <1>4, <3>1, <3>2, ProcKinds DEF Fits, ProcOK, Installs
  <2>3. Moves(s) /\ GoesOn(s, "flush", rest) /\ Proper(s)
        BY <1>1, <2>1, <2>2, ResumeDoes
  <2> QED
      BY <1>1, <2>3, QuietMoves DEF At
<1> QED
    BY <1>5, <1>6

LEMMA DetachDoes ==
    ASSUME Base, NEW s \in Subs, Detach(s)
    PROVE  /\ Base' /\ Quiet /\ Moves(s) /\ At(s, "detach")
           /\ proc[s].id \in IDs
           /\ GoesOn(s, "remove", {e \in {<<proc[s].id, fws[proc[s].id]>>} :
                                      e[2] # NoFw})
<1> DEFINE i == proc[s].id
           rest == {e \in {<<i, fws[i]>>} : e[2] # NoFw}
<1>1. Quiet /\ At(s, "detach") /\ s \in Procs /\ ProcOK(s, proc[s])
      BY ProcKinds DEF Detach, Quiet, Base, ProcsOK
<1>2. i \in IDs /\ fws[i] \in 0..MaxForwarders
      BY <1>1, Entries DEF ProcOK, At
<1>3. rest \subseteq Errands /\ \A e \in rest : e[1] \in IDs /\ e[2] # NoFw
      BY <1>2 DEF Errands
<1>4. Resume(s, "remove", rest)
      BY DEF Detach
<1>5. Fits(s, "remove", rest)
  <2>1. proc[s].src = Placeholder
        BY <1>1 DEF ProcOK
  <2>2. "remove" \in SubPlaces /\ "remove" \in LeavePlaces
        BY DEF SubPlaces, LeavePlaces
  <2> HIDE DEF rest
  <2> QED
      BY <1>3, <2>1, <2>2, ProcKinds DEF Fits, ProcOK, Installs
<1>6. Moves(s) /\ GoesOn(s, "remove", rest) /\ Proper(s)
      BY <1>1, <1>4, <1>5, ResumeDoes
<1> QED
    BY <1>1, <1>2, <1>6, QuietMoves DEF At

LEMMA SnapshotDoes ==
    ASSUME Base, NEW s \in Subs, Snapshot(s)
    PROVE  /\ Base' /\ Quiet /\ Moves(s) /\ At(s, "snapshot")
           /\ GoesOn(s, "remove",
                     {e \in {<<i, fws[i]>> : i \in IDs} : e[2] # NoFw})
<1> DEFINE rest == {e \in {<<i, fws[i]>> : i \in IDs} : e[2] # NoFw}
<1>1. Quiet /\ At(s, "snapshot") /\ s \in Procs /\ ProcOK(s, proc[s])
      BY ProcKinds DEF Snapshot, Quiet, Base, ProcsOK
<1>2. \A i \in IDs : fws[i] \in 0..MaxForwarders
      BY Entries
<1>3. rest \subseteq Errands /\ \A e \in rest : e[1] \in IDs /\ e[2] # NoFw
      BY <1>2 DEF Errands
<1>4. Resume(s, "remove", rest)
      BY DEF Snapshot
<1>5. Fits(s, "remove", rest)
  <2>1. proc[s].src = Placeholder
        BY <1>1 DEF ProcOK
  <2>2. "remove" \in SubPlaces /\ "remove" \in LeavePlaces
        BY DEF SubPlaces, LeavePlaces
  <2> HIDE DEF rest
  <2> QED
      BY <1>3, <2>1, <2>2, ProcKinds DEF Fits, ProcOK, Installs
<1>6. Moves(s) /\ GoesOn(s, "remove", rest) /\ Proper(s)
      BY <1>1, <1>4, <1>5, ResumeDoes
<1> QED
    BY <1>1, <1>6, QuietMoves DEF At

LEMMA FindSubscribedDoes ==
    ASSUME Base, NEW s \in Subs, FindSubscribed(s)
    PROVE  /\ Base'
           /\ UNCHANGED <<world, forwarders, published, members, peers>>
           /\ Moves(s) /\ At(s, "find") /\ proc[s].id \in IDs
           /\ \/ proc'[s] = Idle
              \/ /\ proc'[s].at \in {"lookup", "created"}
                 /\ proc'[s].at = "created" => fws[proc[s].id] # NoFw
                 /\ proc'[s].fw = fws[proc[s].id]
                 /\ proc'[s].id = proc[s].id /\ proc'[s].src = Placeholder
<1> DEFINE k == fws[proc[s].id]
           a == IF k = NoFw THEN "lookup" ELSE "created"
<1>1. /\ UNCHANGED <<world, forwarders, published, members, peers>>
      /\ subscribed' \subseteq subscribed
      /\ At(s, "find") /\ s \in Procs /\ ProcOK(s, proc[s])
      BY ProcKinds DEF FindSubscribed, Base, ProcsOK
<1>2. ForwardersOK' /\ subscribed' \subseteq members \X Tracks
      BY <1>1 DEF Base, ForwardersOK, TypeOK
<1>3. proc[s].id \in IDs
      BY <1>1 DEF ProcOK, At
<1>4. CASE Goto(s, Idle)
  <2>1. Moves(s) /\ proc'[s] = Idle /\ Proper(s)
        BY <1>1, <1>4, EndsProper DEF At, LeavePlaces
  <2> QED
      BY <1>1, <1>2, <1>3, <2>1, BaseMoves DEF At
<1>5. CASE Goto(s, [proc[s] EXCEPT !.fw = k, !.at = a])
  <2>1. k \in 0..MaxForwarders
        BY <1>3, Entries
  <2>2. a \in SubPlaces /\ proc[s] \in ProcType /\ a \in {"lookup", "created"}
        BY <1>1 DEF SubPlaces, Installs, ProcOK
  <2>3. a = "created" => k # NoFw
        OBVIOUS
  <2>4. /\ Moves(s) /\ proc'[s] \in ProcType /\ proc'[s].at = a
        /\ proc'[s].fw = k /\ proc'[s].todo = proc[s].todo
        /\ proc'[s].id = proc[s].id /\ proc'[s].src = proc[s].src
    <3> HIDE DEF k, a
    <3>1. Moves(s) /\ proc'[s] = [proc[s] EXCEPT !.fw = k, !.at = a]
          BY <1>1, <1>5, GotoMoves DEF Base
    <3> QED
        BY <2>1, <2>2, <3>1 DEF ProcType
  <2>5. ProcOK(s, proc'[s])
    <3> HIDE DEF k, a
    <3> QED
        BY <1>1, <1>3, <2>2, <2>3, <2>4, ProcKinds DEF ProcOK, At
  <2>6. Proper(s)
        BY <1>1, <2>2, <2>4, <2>5, StaysProper DEF At, LeavePlaces
  <2>7. Base' /\ proc'[s].src = Placeholder
        BY <1>1, <1>2, <2>4, <2>6, BaseMoves DEF At, ProcOK
  <2> QED
      BY <1>1, <1>3, <2>2, <2>3, <2>4, <2>7
<1> QED
    BY <1>4, <1>5 DEF FindSubscribed

(* A step that changes what the participants and the browsers are at: the  *)
(* process that takes it, if any, was idle.                                *)
PeersOK ==
    /\ published \subseteq DOMAIN world.wire
    /\ subscribed \subseteq members \X Tracks
    /\ stage \in [Subs -> {"new", "busy", "stable"}]
    /\ connected \subseteq Subs /\ described \in BOOLEAN
    /\ media \in [Tracks -> {"none", "coming", "here", "ended"}]
    /\ \A t \in Tracks : media[t] # "none" => t \in DOMAIN world.wire

LEMMA PeersOKNow ==
    ASSUME Base
    PROVE  PeersOK /\ DOMAIN world.wire \subseteq Tracks
BY WireIsID DEF Base, TypeOK, Stages, PeersOK

LEMMA BaseBegins ==
    ASSUME Base, NEW x \in Procs, Moves(x), ProcOK(x, proc'[x]),
           x \in Subs => x \in members,
           proc'[x].at \notin {"snapshot", "close"},
           UNCHANGED <<world, forwarders, members, pcs>>, PeersOK'
    PROVE  Base'
<1>1. ProcsOK'
      BY DEF Base, ProcsOK, Moves
<1>2. ForwardersOK'
      BY DEF Base, ForwardersOK
<1>3. published' \subseteq Tracks
      BY PeersOKNow DEF PeersOK
<1>4. TypeOK'
      BY <1>1, <1>2, <1>3 DEF Base, TypeOK, PeersOK, ForwardersOK, ProcsOK
<1>5. Stages'
  <2>1. \A s \in Subs \ members : proc'[s].at = proc[s].at
        BY ProcKinds DEF Moves
  <2>2. \A s \in members : proc'[s].at \notin {"snapshot", "close"}
        BY ProcKinds DEF Base, Stages, TypeOK, Moves
  <2> QED
      BY <2>1, <2>2 DEF Base, TypeOK, Stages, PeersOK, At
<1> QED
    BY <1>1, <1>2, <1>4, <1>5 DEF Base

(* A handler begins with nothing in hand but an ID and, for a track, its   *)
(* media.                                                                  *)
Starts(x, a, i, u, w) ==
    /\ Moves(x) /\ proc'[x] \in ProcType
    /\ proc'[x].at = a /\ proc'[x].id = i /\ proc'[x].src = u
    /\ proc'[x].fw = NoFw /\ proc'[x].todo = w

LEMMA StartsFrom ==
    ASSUME Base, NEW x \in Procs, NEW a \in PubPlaces \cup SubPlaces,
           NEW i \in IDs \cup {Placeholder},
           NEW u \in Tracks \cup {Placeholder},
           NEW w \in SUBSET Errands
    PROVE  /\ Goto(x, [Idle EXCEPT !.at = a, !.id = i, !.src = u])
                 => Starts(x, a, i, u, {})
           /\ Goto(x, [Idle EXCEPT !.at = a, !.id = i])
                 => Starts(x, a, i, Placeholder, {})
           /\ Goto(x, [Idle EXCEPT !.at = a, !.id = i, !.todo = w])
                 => Starts(x, a, i, Placeholder, w)
<1>1. ASSUME NEW r, Goto(x, r)
      PROVE  Moves(x) /\ proc'[x] = r
      BY <1>1, GotoMoves DEF Base
<1>2. ASSUME Goto(x, [Idle EXCEPT !.at = a, !.id = i, !.src = u])
      PROVE  Starts(x, a, i, u, {})
  <2>1. Moves(x) /\ proc'[x] = [Idle EXCEPT !.at = a, !.id = i, !.src = u]
        BY <1>1, <1>2
  <2> QED
      BY <2>1, IdleOK DEF Starts, ProcType
<1>3. ASSUME Goto(x, [Idle EXCEPT !.at = a, !.id = i])
      PROVE  Starts(x, a, i, Placeholder, {})
  <2>1. Moves(x) /\ proc'[x] = [Idle EXCEPT !.at = a, !.id = i]
        BY <1>1, <1>3
  <2> QED
      BY <2>1, IdleOK DEF Starts, ProcType
<1>4. ASSUME Goto(x, [Idle EXCEPT !.at = a, !.id = i, !.todo = w])
      PROVE  Starts(x, a, i, Placeholder, w)
  <2>1. Moves(x) /\ proc'[x] = [Idle EXCEPT !.at = a, !.id = i, !.todo = w]
        BY <1>1, <1>4
  <2> QED
      BY <2>1, IdleOK DEF Starts, ProcType
<1> QED
    BY <1>2, <1>3, <1>4

LEMMA HandleTrackDoes ==
    ASSUME Base, NEW t \in Tracks, HandleTrack(t)
    PROVE  /\ Base' /\ Begins(t) /\ media[t] = "coming"
           /\ media' = [media EXCEPT ![t] = "here"]
           /\ \E i \in Resolved(t) :
                 i \in IDs /\ Starts(t, "lookup", i, t, {})
           /\ UNCHANGED <<world, forwarders, domain, pcs, stage, connected,
                          described>>
<1>1. /\ Begins(t) /\ media[t] = "coming"
      /\ media' = [media EXCEPT ![t] = "here"] /\ t \in Procs
      /\ UNCHANGED <<world, forwarders, domain, pcs, stage, connected,
                     described>>
      BY ProcKinds DEF HandleTrack
<1>2. PICK i \in Resolved(t) :
         Goto(t, [Idle EXCEPT !.at = "lookup", !.id = i, !.src = t])
      BY DEF HandleTrack
<1>3. t \in DOMAIN world.wire /\ PeersOK
      BY <1>1, PeersOKNow DEF PeersOK
<1>4. i \in IDs
  <2>1. world.wire[t] \in IDs /\ published \subseteq IDs
        BY <1>3, WireIsID, PeersOKNow, ProcKinds DEF Base, PeersOK
  <2> QED
      BY <2>1 DEF Resolved
<1>5. Starts(t, "lookup", i, t, {})
      BY <1>1, <1>2, <1>4, StartsFrom DEF PubPlaces, Installs
<1>6. ProcOK(t, proc'[t])
      BY <1>4, <1>5, ProcKinds DEF Starts, ProcOK, TrackPlaces, Installs
<1>7. PeersOK'
      BY <1>1, <1>3 DEF PeersOK
<1>8. Base'
      BY <1>1, <1>5, <1>6, <1>7, ProcKinds, BaseBegins DEF Starts
<1> QED
    BY <1>1, <1>4, <1>5, <1>8

LEMMA HandlePublishTrackDoes ==
    ASSUME Base, NEW t \in Tracks, HandlePublishTrack(t)
    PROVE  /\ Base' /\ Begins(Pub) /\ t \in DOMAIN world.wire \ published
           /\ published' = published \cup {t}
           /\ Starts(Pub, "find", t, Placeholder, {})
           /\ UNCHANGED <<world, forwarders, subscribed, members, peers>>
<1>1. /\ Begins(Pub) /\ t \in DOMAIN world.wire \ published /\ Pub \in Procs
      /\ published' = published \cup {t} /\ t \in IDs
      /\ UNCHANGED <<world, forwarders, subscribed, members, peers>>
      BY ProcKinds DEF HandlePublishTrack
<1>2. Starts(Pub, "find", t, Placeholder, {})
      BY <1>1, StartsFrom DEF HandlePublishTrack, PubPlaces
<1>3. ProcOK(Pub, proc'[Pub])
      BY <1>1, <1>2, ProcKinds DEF Starts, ProcOK, PubPlaces, Installs
<1>4. PeersOK'
      BY <1>1, PeersOKNow DEF PeersOK
<1>5. Base'
      BY <1>1, <1>2, <1>3, <1>4, ProcKinds, BaseBegins DEF Starts
<1> QED
    BY <1>1, <1>2, <1>5

LEMMA HandleUnpublishTrackDoes ==
    ASSUME Base, NEW t \in Tracks, HandleUnpublishTrack(t)
    PROVE  /\ Base' /\ "unpublish" \in world.ops /\ Begins(Pub)
           /\ t \in published
           /\ published' = published \ {t} /\ t \in DOMAIN world.wire
           /\ media' = [media EXCEPT ![t] = IF @ = "here" THEN "ended" ELSE @]
           /\ Starts(Pub, "unhook", t, Placeholder, {<<t, NoFw>>})
           /\ UNCHANGED <<world, forwarders, subscribed, members, pcs, stage,
                          connected, described>>
<1>1. /\ Begins(Pub) /\ t \in published /\ Pub \in Procs
      /\ published' = published \ {t} /\ t \in IDs
      /\ "unpublish" \in world.ops
      /\ media' = [media EXCEPT ![t] = IF @ = "here" THEN "ended" ELSE @]
      /\ UNCHANGED <<world, forwarders, subscribed, members, pcs, stage,
                     connected, described>>
      BY ProcKinds DEF HandleUnpublishTrack
<1>2. {<<t, NoFw>>} \in SUBSET Errands
      BY <1>1, RegistryAssumption DEF Errands, NoFw, RegistryAssumption
<1>3. Starts(Pub, "unhook", t, Placeholder, {<<t, NoFw>>})
      BY <1>1, <1>2, StartsFrom DEF HandleUnpublishTrack, PubPlaces
<1>4. ProcOK(Pub, proc'[Pub])
      BY <1>1, <1>3, ProcKinds DEF Starts, ProcOK, PubPlaces, Installs
<1>5. PeersOK'
      BY <1>1, PeersOKNow DEF PeersOK
<1>6. Base' /\ t \in DOMAIN world.wire
      BY <1>1, <1>3, <1>4, <1>5, ProcKinds, PeersOKNow, BaseBegins
      DEF Starts, PeersOK
<1> QED
    BY <1>1, <1>3, <1>6

LEMMA HandleSubscribeTrackDoes ==
    ASSUME Base, NEW s \in Subs, NEW t \in Tracks, HandleSubscribeTrack(s, t)
    PROVE  /\ Base' /\ Begins(s) /\ s \in members
           /\ Starts(s, "find", t, Placeholder, {})
           /\ UNCHANGED <<world, forwarders, published, members, peers>>
<1>1. /\ Begins(s) /\ s \in members /\ s \in Procs /\ t \in IDs
      /\ subscribed' = subscribed \cup {<<s, t>>}
      /\ UNCHANGED <<world, forwarders, published, members, peers>>
      BY ProcKinds DEF HandleSubscribeTrack
<1>2. Starts(s, "find", t, Placeholder, {})
      BY <1>1, StartsFrom DEF HandleSubscribeTrack, SubPlaces
<1>3. ProcOK(s, proc'[s])
      BY <1>1, <1>2, ProcKinds DEF Starts, ProcOK, SubPlaces, Installs
<1>4. PeersOK'
      BY <1>1, PeersOKNow DEF PeersOK
<1>5. Base'
      BY <1>1, <1>2, <1>3, <1>4, ProcKinds, BaseBegins DEF Starts
<1> QED
    BY <1>1, <1>2, <1>5

LEMMA HandleUnsubscribeTrackDoes ==
    ASSUME Base, NEW s \in Subs, NEW t \in Tracks, HandleUnsubscribeTrack(s, t)
    PROVE  /\ Base' /\ Begins(s) /\ s \in members
           /\ "unsubscribe" \in world.ops
           /\ Starts(s, "detach", t, Placeholder, {})
           /\ UNCHANGED <<world, forwarders, published, members, peers>>
<1>1. /\ Begins(s) /\ <<s, t>> \in subscribed /\ s \in Procs /\ t \in IDs
      /\ subscribed' = subscribed \ {<<s, t>>}
      /\ "unsubscribe" \in world.ops
      /\ UNCHANGED <<world, forwarders, published, members, peers>>
      BY ProcKinds DEF HandleUnsubscribeTrack
<1>2. Starts(s, "detach", t, Placeholder, {})
      BY <1>1, StartsFrom DEF HandleUnsubscribeTrack, SubPlaces
<1>3. ProcOK(s, proc'[s])
      BY <1>1, <1>2, ProcKinds DEF Starts, ProcOK, SubPlaces, Installs
<1>4. PeersOK' /\ s \in members
      BY <1>1, PeersOKNow DEF PeersOK
<1>5. Base'
      BY <1>1, <1>2, <1>3, <1>4, ProcKinds, BaseBegins DEF Starts
<1> QED
    BY <1>1, <1>2, <1>4, <1>5

LEMMA ExchangedDoes ==
    ASSUME Base, NEW s \in Subs, Exchanged(s)
    PROVE  /\ Base' /\ Begins(s) /\ s \in members /\ Moves(s)
           /\ GoesOn(s, "flush",
                  {<<e[2], NoFw>> : e \in subscribed \cap ({s} \X Tracks)})
           /\ UNCHANGED <<world, forwarders, domain, pcs, connected, described,
                          media>>
<1> DEFINE rest == {<<e[2], NoFw>> : e \in subscribed \cap ({s} \X Tracks)}
<1>1. /\ Begins(s) /\ s \in members /\ s \in Procs /\ ProcOK(s, proc[s])
      /\ stage' = [stage EXCEPT ![s] = "stable"]
      /\ UNCHANGED <<world, forwarders, domain, pcs, connected, described,
                     media>>
      BY ProcKinds DEF Exchanged, Base, ProcsOK
<1>2. rest \subseteq Errands /\ \A d \in rest : d[1] \in IDs
  <2>1. Tracks \subseteq IDs /\ NoFw \in 0..MaxForwarders
        BY ProcKinds, RegistryAssumption DEF RegistryAssumption, NoFw
  <2> QED
      BY <2>1 DEF Errands
<1>3. Resume(s, "flush", rest)
      BY DEF Exchanged
<1>4. Fits(s, "flush", rest)
  <2>1. proc[s].src = Placeholder /\ "flush" \in SubPlaces
        BY <1>1 DEF ProcOK, SubPlaces
  <2> HIDE DEF rest
  <2> QED
      BY <1>1, <1>2, <2>1, ProcKinds DEF Fits, ProcOK, Installs
<1>5. Moves(s) /\ GoesOn(s, "flush", rest) /\ Proper(s)
      BY <1>1, <1>3, <1>4, ResumeDoes
<1>6. PeersOK'
      BY <1>1, PeersOKNow DEF PeersOK
<1>7. Base'
      BY <1>1, <1>5, <1>6, BaseBegins DEF Proper
<1> QED
    BY <1>1, <1>5, <1>7

LEMMA HandleLeaveRoomDoes ==
    ASSUME Base, NEW s \in Subs, HandleLeaveRoom(s)
    PROVE  /\ Base' /\ "leave" \in world.ops /\ Begins(s) /\ s \in members
           /\ members' = members \ {s} /\ Moves(s) /\ Keeps(s)
           /\ proc'[s].at = "snapshot"
           /\ UNCHANGED <<world, forwarders, published, peers>>
<1>1. /\ Begins(s) /\ s \in members /\ s \in Procs /\ At(s, "idle")
      /\ "leave" \in world.ops /\ members' = members \ {s}
      /\ subscribed' = {e \in subscribed : e[1] # s} /\ Move(s, "snapshot")
      /\ UNCHANGED <<world, forwarders, published, peers>>
      BY ProcKinds DEF HandleLeaveRoom, Begins
<1>2. /\ Moves(s) /\ Keeps(s) /\ proc'[s].at = "snapshot"
      /\ proc'[s].todo = proc[s].todo /\ proc'[s] \in ProcType
      BY <1>1, MoveMoves DEF Base, SubPlaces, LeavePlaces
<1>3. ProcOK(s, proc'[s])
  <2>1. ProcOK(s, proc[s])
        BY <1>1 DEF Base, ProcsOK
  <2> QED
      BY <1>2, <2>1, ProcKinds
      DEF ProcOK, SubPlaces, LeavePlaces, Installs, Keeps
<1>4. ProcsOK'
      BY <1>2, <1>3 DEF Base, ProcsOK, Moves
<1>5. ForwardersOK'
      BY <1>1 DEF Base, ForwardersOK
<1>6. subscribed' \subseteq members' \X Tracks
      BY <1>1 DEF Base, TypeOK
<1>7. TypeOK'
      BY <1>1, <1>4, <1>5, <1>6 DEF Base, TypeOK, ForwardersOK, ProcsOK
<1>8. Stages'
  <2>1. \A y \in Subs \ {s} : proc'[y] = proc[y]
        BY <1>2, ProcKinds DEF Moves
  <2>2. \A y \in Subs \ members' : proc'[y].at \in LeavePlaces
        BY <1>1, <1>2, <2>1 DEF Base, Stages, LeavePlaces
  <2>3. \A y \in pcs \ members' : proc'[y].at # "idle"
        BY <1>1, <1>2, <2>1 DEF Base, Stages, TypeOK, At
  <2>4. \A y \in Subs \ pcs : proc'[y].at = "idle"
        BY <1>1, <1>2, <2>1 DEF Base, Stages, TypeOK, At
  <2>5. \A y \in members' : proc'[y].at \notin {"snapshot", "close"}
        BY <1>1, <2>1 DEF Base, Stages, TypeOK
  <2> QED
      BY <1>1, <2>2, <2>3, <2>4, <2>5 DEF Base, Stages, At
<1> QED
    BY <1>1, <1>2, <1>4, <1>5, <1>7, <1>8 DEF Base

LEMMA ClosePeerConnectionDoes ==
    ASSUME Base, NEW s \in Subs, ClosePeerConnection(s)
    PROVE  /\ Base' /\ At(s, "close") /\ s \notin members
           /\ Moves(s) /\ proc'[s] = Idle /\ pcs' = pcs \ {s}
           /\ UNCHANGED <<world, forwarders, domain, stage, connected,
                          described, media>>
<1>1. /\ At(s, "close") /\ s \in Procs /\ s \notin members
      /\ pcs' = pcs \ {s} /\ Goto(s, Idle)
      /\ UNCHANGED <<world, forwarders, domain, stage, connected, described,
                     media>>
      BY ProcKinds DEF ClosePeerConnection, Base, Stages, At
<1>2. Moves(s) /\ proc'[s] = Idle
      BY <1>1, GotoMoves DEF Base
<1>3. ProcsOK'
      BY <1>2, IdleOK DEF Base, ProcsOK, Moves
<1>4. ForwardersOK'
      BY <1>1 DEF Base, ForwardersOK
<1>5. TypeOK'
      BY <1>1, <1>3, <1>4 DEF Base, TypeOK, ForwardersOK, ProcsOK
<1>6. Stages'
  <2>1. \A y \in Subs \ {s} : proc'[y] = proc[y]
        BY <1>2, ProcKinds DEF Moves
  <2>2. proc'[s].at = "idle"
        BY <1>2, IdleOK
  <2> QED
      BY <1>1, <2>1, <2>2 DEF Base, Stages, TypeOK, At, LeavePlaces
<1> QED
    BY <1>1, <1>2, <1>3, <1>4, <1>5, <1>6 DEF Base

(* A Read that a stopped run loop has left behind returns.                 *)
LEMMA ReadReturnsDoes ==
    ASSUME Base, NEW t \in Tracks, ReadReturns(t)
    PROVE  /\ Base' /\ leftover' = [leftover EXCEPT ![t] = @ - 1]
           /\ UNCHANGED <<world, fws, source, attached, running, domain, peers,
                          proc>>
<1>1. /\ leftover' = [leftover EXCEPT ![t] = @ - 1] /\ leftover[t] > 0
      /\ UNCHANGED <<world, fws, source, attached, running, domain, peers,
                     proc>>
      BY DEF ReadReturns
<1>2. leftover \in [Tracks -> Nat] /\ leftover' \in [Tracks -> Nat]
      BY <1>1 DEF Base, ForwardersOK
<1>3. ForwardersOK' /\ ProcsOK' /\ Stages'
      BY <1>1, <1>2 DEF Base, ForwardersOK, ProcsOK, Stages, At
<1>4. TypeOK'
      BY <1>1, <1>2, <1>3 DEF Base, TypeOK
<1> QED
    BY <1>1, <1>3, <1>4 DEF Base

(* The steps of the browsers and of a Read left behind: no process moves.  *)
LEMMA BrowserDoes ==
    ASSUME Base,
           \/ \E t \in Tracks : OfferMedia(t) \/ ReadReturns(t)
           \/ \E s \in Subs : ServerOffer(s) \/ Connected(s)
    PROVE  /\ Base' /\ UNCHANGED <<world, fws, source, attached, running,
                                    domain, pcs, proc>>
           /\ \A t \in Tracks : \/ media'[t] = media[t]
                                \/ media[t] = "none" /\ media'[t] = "coming"
<1>1. Pub \in Procs /\ PeersOK
      BY ProcKinds, PeersOKNow
<1>2. CASE \E t \in Tracks : ReadReturns(t)
      BY <1>2, ReadReturnsDoes
<1>3. ASSUME UNCHANGED <<world, forwarders, domain, pcs, proc>>, PeersOK'
      PROVE  Base'
  <2>1. Moves(Pub) /\ ProcOK(Pub, proc'[Pub])
        BY <1>1, <1>3 DEF Base, ProcsOK, Moves
  <2>2. proc'[Pub].at \notin {"snapshot", "close"}
        BY <2>1 DEF ProcOK, PubPlaces, Installs
  <2> QED
      BY <1>1, <1>3, <2>1, <2>2, ProcKinds, BaseBegins
<1>4. ASSUME NEW t \in Tracks, OfferMedia(t)
      PROVE  /\ UNCHANGED <<world, forwarders, domain, pcs, proc>>
             /\ PeersOK'
             /\ \A u \in Tracks : \/ media'[u] = media[u]
                                  \/ media[u] = "none" /\ media'[u] = "coming"
      BY <1>1, <1>4 DEF OfferMedia, PeersOK
<1>5. ASSUME NEW s \in Subs, ServerOffer(s) \/ Connected(s)
      PROVE  /\ UNCHANGED <<world, forwarders, domain, pcs, proc, media>>
             /\ PeersOK'
  <2>1. CASE ServerOffer(s)
        BY <1>1, <2>1 DEF ServerOffer, PeersOK
  <2>2. CASE Connected(s)
        BY <1>1, <2>2 DEF Connected, PeersOK
  <2> QED
      BY <1>5, <2>1, <2>2
<1> QED
    BY <1>2, <1>3, <1>4, <1>5

(* Real media meets a placeholder, or nothing happens.                     *)
LEMMA UpdateDoes ==
    ASSUME Base, NEW x \in Procs, NEW k \in Forwarders, UpdatePublisher(x, k),
           UNCHANGED <<fws, attached, leftover>>
    PROVE  /\ ForwardersOK'
           /\ \/ /\ proc[x].src \in Tracks /\ ~Remote(k)
                 /\ source' = [source EXCEPT ![k] = proc[x].src]
                 /\ running' = running \cup {k}
              \/ /\ proc[x].src = Placeholder \/ Remote(k)
                 /\ UNCHANGED <<source, running>>
<1>1. proc[x].src \in Tracks \cup {Placeholder}
      BY DEF Base, ProcsOK, ProcOK, ProcType
<1>2. CASE proc[x].src # Placeholder /\ ~Remote(k)
  <2>1. /\ source' = [source EXCEPT ![k] = proc[x].src]
        /\ running' = running \cup {k}
        BY <1>2 DEF UpdatePublisher
  <2> QED
      BY <1>1, <1>2, <2>1 DEF Base, ForwardersOK
<1>3. CASE ~ (proc[x].src # Placeholder /\ ~Remote(k))
      BY <1>3 DEF UpdatePublisher, Base, ForwardersOK
<1> QED
    BY <1>2, <1>3

LEMMA SwapDoes ==
    ASSUME Base, NEW x \in Procs, Swap(x)
    PROVE  /\ Base' /\ Moves(x) /\ Keeps(x) /\ At(x, "swap")
           /\ proc'[x].at = "created" /\ proc[x].fw \in Forwarders
           /\ \/ /\ proc[x].src \in Tracks /\ ~Remote(proc[x].fw)
                 /\ source' = [source EXCEPT ![proc[x].fw] = proc[x].src]
                 /\ running' = running \cup {proc[x].fw}
              \/ /\ proc[x].src = Placeholder \/ Remote(proc[x].fw)
                 /\ UNCHANGED <<source, running>>
           /\ UNCHANGED <<world, fws, attached, leftover, domain, peers>>
<1>1. /\ At(x, "swap") /\ ProcOK(x, proc[x]) /\ Move(x, "created")
      /\ UpdatePublisher(x, proc[x].fw)
      /\ UNCHANGED <<world, fws, attached, leftover, domain, peers>>
      BY DEF Swap, Base, ProcsOK
<1>2. proc[x].fw \in Forwarders
      BY <1>1, RegistryAssumption
      DEF ProcOK, ProcType, At, Forwarders, NoFw, RegistryAssumption
<1>3. /\ Moves(x) /\ Keeps(x) /\ proc'[x].at = "created"
      /\ proc'[x].todo = proc[x].todo /\ proc'[x] \in ProcType
      BY <1>1, MoveMoves DEF Base, PubPlaces
<1>4. ProcOK(x, proc'[x])
  <2>1. proc[x].fw # NoFw /\ proc[x].id \in IDs
        BY <1>1 DEF ProcOK, At, Installs
  <2> QED
      BY <1>1, <1>3, <2>1
      DEF ProcOK, PubPlaces, TrackPlaces, SubPlaces, At, Keeps, Installs
<1>5. Proper(x)
      BY <1>1, <1>3, <1>4, StaysProper DEF At, LeavePlaces
<1>6. /\ ForwardersOK'
      /\ \/ /\ proc[x].src \in Tracks /\ ~Remote(proc[x].fw)
            /\ source' = [source EXCEPT ![proc[x].fw] = proc[x].src]
            /\ running' = running \cup {proc[x].fw}
         \/ /\ proc[x].src = Placeholder \/ Remote(proc[x].fw)
            /\ UNCHANGED <<source, running>>
      BY <1>1, <1>2, UpdateDoes
<1>7. Base'
      BY <1>1, <1>3, <1>5, <1>6, BaseMoves DEF At, Base, TypeOK
<1> QED
    BY <1>1, <1>2, <1>3, <1>6, <1>7

(* A new forwarder takes a number that nobody knows.                       *)
Installed(x, k) ==
    /\ ~InUse(k) /\ fws[proc[x].id] = NoFw
    /\ fws' = [fws EXCEPT ![proc[x].id] = k]
    /\ source' = [source EXCEPT ![k] = proc[x].src]
    /\ running' = IF proc[x].src # Placeholder
                  THEN running \cup {k} ELSE running

(* ... or the one it found takes the media that process x brings.          *)
Found(x, k) ==
    /\ fws[proc[x].id] = k
    /\ \/ /\ proc[x].src \in Tracks /\ ~Remote(k)
          /\ source' = [source EXCEPT ![k] = proc[x].src]
          /\ running' = running \cup {k}
       \/ /\ proc[x].src = Placeholder \/ Remote(k)
          /\ UNCHANGED <<source, running>>
    /\ UNCHANGED fws

LEMMA CreateDoes ==
    ASSUME Base, NEW x \in Procs, Create(x)
    PROVE  /\ Base' /\ Moves(x) /\ At(x, "create") /\ proc[x].id \in IDs
           /\ proc'[x].id = proc[x].id /\ proc'[x].src = proc[x].src
           /\ proc'[x].at = "created"
           /\ proc'[x].fw \in Forwarders
           /\ Installed(x, proc'[x].fw) \/ Found(x, proc'[x].fw)
           /\ UNCHANGED <<world, attached, leftover, domain, peers>>
<1>1. /\ At(x, "create") /\ ProcOK(x, proc[x])
      /\ UNCHANGED <<world, attached, leftover, domain, peers>>
      BY DEF Create, Base, ProcsOK
<1>2. proc[x].id \in IDs /\ proc[x] \in ProcType
      BY <1>1 DEF ProcOK, At, Installs
<1>3. \E k \in Forwarders :
         /\ Goto(x, [proc[x] EXCEPT !.at = "created", !.fw = k])
         /\ Installed(x, k) \/ Found(x, k)
         /\ ForwardersOK'
  <2>1. CASE fws[proc[x].id] = NoFw
    <3>1. PICK k \in Forwarders :
             /\ ~InUse(k)
             /\ fws' = [fws EXCEPT ![proc[x].id] = k]
             /\ source' = [source EXCEPT ![k] = proc[x].src]
             /\ running' = IF proc[x].src # Placeholder
                           THEN running \cup {k} ELSE running \ {k}
             /\ Goto(x, [proc[x] EXCEPT !.at = "created", !.fw = k])
          BY <2>1 DEF Create, NewForwarder
    <3>2. k \notin running /\ \A i \in IDs : fws[i] # k
          BY <3>1 DEF InUse
    <3>3. k \in 0..MaxForwarders
          BY DEF Forwarders
    <3>4. proc[x].src \in Tracks \cup {Placeholder}
          BY <1>2 DEF ProcType
    <3>5. fws' \in [IDs -> 0..MaxForwarders]
          BY <3>1, <3>3 DEF Base, ForwardersOK
    <3>6. \A i, j \in IDs : fws'[i] # NoFw /\ fws'[i] = fws'[j] => i = j
          BY <1>2, <3>1, <3>2 DEF Base, ForwardersOK
    <3>7. source' \in [Forwarders -> Tracks \cup {Placeholder}]
          BY <3>1, <3>4 DEF Base, ForwardersOK
    <3>8. /\ running' \subseteq Forwarders
          /\ \A j \in running' : source'[j] # Placeholder
          BY <3>1, <3>2 DEF Base, ForwardersOK
    <3>9. ForwardersOK'
          BY <1>1, <3>5, <3>6, <3>7, <3>8 DEF Base, ForwardersOK
    <3>10. Installed(x, k)
          BY <2>1, <3>1, <3>2 DEF Installed
    <3> QED
        BY <3>1, <3>9, <3>10
  <2>2. CASE fws[proc[x].id] # NoFw
    <3> DEFINE k == fws[proc[x].id]
    <3>1. k \in Forwarders
          BY <1>2, <2>2, Entries
    <3>2. /\ UpdatePublisher(x, k) /\ UNCHANGED fws
          /\ Goto(x, [proc[x] EXCEPT !.at = "created", !.fw = k])
          BY <2>2 DEF Create
    <3>3. ForwardersOK' /\ Found(x, k)
          BY <1>1, <3>1, <3>2, UpdateDoes DEF Found
    <3> QED
        BY <3>1, <3>2, <3>3
  <2> QED
      BY <2>1, <2>2
<1>4. PICK k \in Forwarders :
         /\ Goto(x, [proc[x] EXCEPT !.at = "created", !.fw = k])
         /\ Installed(x, k) \/ Found(x, k)
         /\ ForwardersOK'
      BY <1>3
<1>5. k \in 0..MaxForwarders /\ k # NoFw
      BY RegistryAssumption DEF Forwarders, NoFw, RegistryAssumption
<1>6. /\ Moves(x) /\ proc'[x] \in ProcType /\ proc'[x].at = "created"
      /\ proc'[x].id = proc[x].id /\ proc'[x].src = proc[x].src
      /\ proc'[x].fw = k /\ proc'[x].todo = proc[x].todo
  <2>1. Moves(x) /\ proc'[x] = [proc[x] EXCEPT !.at = "created", !.fw = k]
        BY <1>4, GotoMoves DEF Base
  <2> QED
      BY <1>2, <1>5, <2>1 DEF ProcType, PubPlaces
<1>7. ProcOK(x, proc'[x])
      BY <1>1, <1>2, <1>5, <1>6
      DEF ProcOK, PubPlaces, TrackPlaces, SubPlaces, At, Installs
<1>8. Proper(x)
      BY <1>1, <1>6, <1>7, StaysProper DEF At, LeavePlaces
<1>9. Base'
      BY <1>1, <1>4, <1>6, <1>8, BaseMoves DEF At, Base, TypeOK
<1> QED
    BY <1>1, <1>2, <1>4, <1>6, <1>9

LEMMA RemoveForwarderDoes ==
    ASSUME Base, RemoveForwarder
    PROVE  /\ Base' /\ Moves(Pub) /\ At(Pub, "unhook")
           /\ proc'[Pub].at = "stop" /\ proc'[Pub].todo = {}
           /\ proc'[Pub].id = proc[Pub].id /\ proc'[Pub].src = proc[Pub].src
           /\ \E i \in IDs : /\ proc[Pub].todo = {<<i, NoFw>>}
                             /\ fws' = [fws EXCEPT ![i] = NoFw]
                             /\ proc'[Pub].fw = fws[i]
           /\ UNCHANGED <<world, source, attached, running, leftover, domain,
                          peers>>
<1>1. /\ At(Pub, "unhook") /\ ProcOK(Pub, proc[Pub]) /\ Pub \in Procs
      /\ UNCHANGED <<world, source, attached, running, leftover, domain,
                     peers>>
      BY ProcKinds DEF RemoveForwarder, Base, ProcsOK
<1>2. PICK i \in IDs : proc[Pub].todo = {<<i, NoFw>>}
      BY <1>1 DEF ProcOK, At
<1>3. PICK e \in {<<i, NoFw>>} :
         /\ fws' = [fws EXCEPT ![e[1]] = NoFw]
         /\ Goto(Pub, [proc[Pub] EXCEPT !.at = "stop", !.fw = fws[e[1]],
                                        !.todo = {}])
      BY <1>2 DEF RemoveForwarder
<1>4. e[1] = i
      BY <1>3
<1>5. /\ fws' = [fws EXCEPT ![i] = NoFw]
      /\ Goto(Pub, [proc[Pub] EXCEPT !.at = "stop", !.fw = fws[i], !.todo = {}])
      BY <1>3, <1>4
<1>6. fws[i] \in 0..MaxForwarders /\ NoFw \in 0..MaxForwarders
      BY Entries, RegistryAssumption DEF NoFw, RegistryAssumption
<1>7. /\ Moves(Pub) /\ proc'[Pub] \in ProcType /\ proc'[Pub].at = "stop"
      /\ proc'[Pub].fw = fws[i] /\ proc'[Pub].todo = {}
      /\ proc'[Pub].id = proc[Pub].id /\ proc'[Pub].src = proc[Pub].src
  <2> DEFINE k == fws[i]
  <2>1. proc[Pub] \in ProcType /\ "stop" \in PubPlaces /\ k \in 0..MaxForwarders
        BY <1>1, <1>6 DEF ProcOK, PubPlaces
  <2>2. /\ Moves(Pub)
        /\ proc'[Pub] = [proc[Pub] EXCEPT !.at = "stop", !.fw = k, !.todo = {}]
        BY <1>1, <1>5, GotoMoves DEF Base
  <2> HIDE DEF k
  <2>3. /\ proc'[Pub] \in ProcType /\ proc'[Pub].at = "stop"
        /\ proc'[Pub].fw = k /\ proc'[Pub].todo = {}
        /\ proc'[Pub].id = proc[Pub].id /\ proc'[Pub].src = proc[Pub].src
        BY <2>1, <2>2 DEF ProcType
  <2> QED
      BY <2>2, <2>3 DEF k
<1>8. ProcOK(Pub, proc'[Pub])
      BY <1>1, <1>7, ProcKinds DEF ProcOK, PubPlaces, At, Installs
<1>9. Proper(Pub)
      BY <1>1, <1>7, <1>8, StaysProper DEF At, LeavePlaces
<1>10. ForwardersOK'
      BY <1>1, <1>5, <1>6 DEF Base, ForwardersOK
<1>11. Base'
      BY <1>1, <1>7, <1>9, <1>10, BaseMoves DEF At, Base, TypeOK
<1> QED
    BY <1>1, <1>2, <1>5, <1>7, <1>11

LEMMA StopDoes ==
    ASSUME Base, NEW x \in Procs, Stop(x)
    PROVE  /\ Base' /\ Moves(x) /\ At(x, "stop") /\ x \notin Tracks
           /\ attached' = [k \in Forwarders |->
                             IF k = proc[x].fw THEN {} ELSE attached[k]]
           /\ running' = running \ {proc[x].fw}
           /\ leftover' = IF proc[x].fw \notin running THEN leftover
                          ELSE [leftover EXCEPT ![source[proc[x].fw]] = @ + 1]
           /\ \/ /\ x = Pub /\ proc[x].src # Placeholder /\ Keeps(x)
                 /\ proc'[x].at = "lookup"
              \/ x = Pub /\ proc[x].src = Placeholder /\ proc'[x] = Idle
              \/ x \in Subs /\ GoesOn(x, "remove", proc[x].todo)
           /\ UNCHANGED <<world, fws, source, domain, peers>>
<1>1. /\ At(x, "stop") /\ ProcOK(x, proc[x]) /\ proc[x].at \in LeavePlaces
      /\ attached' = [k \in Forwarders |->
                        IF k = proc[x].fw THEN {} ELSE attached[k]]
      /\ running' = running \ {proc[x].fw}
      /\ leftover' = IF proc[x].fw \notin running THEN leftover
                     ELSE [leftover EXCEPT ![source[proc[x].fw]] = @ + 1]
      /\ UNCHANGED <<world, fws, source, domain, peers>>
      BY DEF Stop, Base, ProcsOK, At, LeavePlaces
<1>2. x \notin Tracks
      BY <1>1 DEF ProcOK, At, TrackPlaces, Installs
<1>3. ForwardersOK'
  <2>1. leftover' \in [Tracks -> Nat]
        BY <1>1 DEF Base, ForwardersOK
  <2> QED
      BY <1>1, <2>1 DEF Base, ForwardersOK
<1>4. CASE x = Pub /\ proc[x].src # Placeholder
  <2>1. Move(x, "lookup")
        BY <1>4 DEF Stop
  <2>2. /\ Moves(x) /\ Keeps(x) /\ proc'[x].at = "lookup"
        /\ proc'[x].todo = proc[x].todo /\ proc'[x] \in ProcType
        BY <2>1, MoveMoves DEF Base, PubPlaces, Installs
  <2>3. ProcOK(x, proc'[x])
        BY <1>1, <1>4, <2>2, ProcKinds
        DEF ProcOK, PubPlaces, At, Keeps, Installs
  <2>4. Proper(x)
        BY <1>4, <2>3, <2>2, ProcKinds DEF Proper, Base, TypeOK
  <2>5. Base'
        BY <1>1, <1>3, <2>2, <2>4, BaseMoves DEF At, Base, TypeOK
  <2> QED
      BY <1>1, <1>2, <1>4, <2>2, <2>5
<1>5. CASE x = Pub /\ proc[x].src = Placeholder
  <2>1. Resume(x, "remove", {})
        BY <1>1, <1>5 DEF Stop, ProcOK, At
  <2>2. Moves(x) /\ proc'[x] = Idle
        BY <1>5, <2>1, ResumeMoves, ProcKinds DEF GoesOn, Base
  <2>3. Proper(x)
        BY <1>5, <2>2, IdleOK, ProcKinds DEF Proper, Base, TypeOK
  <2>4. Base'
        BY <1>1, <1>3, <2>2, <2>3, BaseMoves DEF At, Base, TypeOK
  <2> QED
      BY <1>1, <1>2, <1>5, <2>2, <2>4
<1>6. CASE x \in Subs
  <2>1. Resume(x, "remove", proc[x].todo)
        BY <1>6, ProcKinds DEF Stop
  <2>2. Fits(x, "remove", proc[x].todo)
    <3>1. proc[x].todo \subseteq Errands /\ proc[x].src = Placeholder
          BY <1>1, <1>6 DEF ProcOK, ProcType
    <3>2. \A e \in proc[x].todo : e[1] \in IDs /\ e[2] # NoFw
          BY <1>1, <1>6 DEF ProcOK, At
    <3>3. "remove" \in SubPlaces /\ "remove" \in LeavePlaces
          BY DEF SubPlaces, LeavePlaces
    <3> QED
        BY <1>6, <3>1, <3>2, <3>3, ProcKinds DEF Fits, ProcOK, Installs
  <2>3. Moves(x) /\ GoesOn(x, "remove", proc[x].todo) /\ Proper(x)
        BY <2>1, <2>2, ResumeDoes
  <2>4. Base'
        BY <1>1, <1>3, <2>3, BaseMoves DEF At, Base, TypeOK
  <2> QED
      BY <1>1, <1>2, <1>6, <2>3, <2>4
<1> QED
    BY <1>2, <1>4, <1>5, <1>6, ProcKinds

(* Attaching to a forwarder, or detaching from one, leaves them well formed. *)
LEMMA AttachedOK ==
    ASSUME Base, NEW k, NEW S \in SUBSET Subs,
           attached' = [attached EXCEPT ![k] = S] \/ UNCHANGED attached,
           UNCHANGED <<fws, source, running, leftover>>
    PROVE  ForwardersOK'
BY DEF Base, ForwardersOK

LEMMA AutoAttachDoes ==
    ASSUME Base, NEW x \in Procs, AutoAttach(x)
    PROVE  /\ Base' /\ Moves(x) /\ At(x, "attach") /\ x \notin Subs
           /\ proc[x].fw \in Forwarders
           /\ \E e \in proc[x].todo :
                 /\ e[1] \in Subs
                 /\ \/ attached' = [attached EXCEPT ![proc[x].fw] =
                                      attached[proc[x].fw] \cup {e[1]}]
                    \/ UNCHANGED attached
                 /\ GoesOn(x, "attach", proc[x].todo \ {e})
           /\ UNCHANGED <<world, fws, source, running, leftover, domain,
                          peers>>
<1>1. /\ At(x, "attach") /\ ProcOK(x, proc[x])
      /\ UNCHANGED <<world, fws, source, running, leftover, domain, peers>>
      BY DEF AutoAttach, Base, ProcsOK
<1>2. x \notin Subs
      BY <1>1 DEF ProcOK, At, SubPlaces, LeavePlaces, Installs
<1>3. proc[x].fw \in Forwarders
      BY <1>1, RegistryAssumption
      DEF ProcOK, ProcType, At, Forwarders, NoFw, RegistryAssumption
<1>4. PICK e \in proc[x].todo :
         /\ attached' = IF Ready(e[1])
                        THEN [attached EXCEPT ![proc[x].fw] = @ \cup {e[1]}]
                        ELSE attached
         /\ Resume(x, "attach", proc[x].todo \ {e})
      BY DEF AutoAttach
<1>5. e[1] \in Subs /\ \A d \in proc[x].todo : d[1] \in Subs
      BY <1>1 DEF ProcOK, At
<1>6. \/ attached' = [attached EXCEPT ![proc[x].fw] =
                        attached[proc[x].fw] \cup {e[1]}]
      \/ UNCHANGED attached
      BY <1>4
<1>7. ForwardersOK'
  <2>1. attached[proc[x].fw] \cup {e[1]} \in SUBSET Subs
        BY <1>3, <1>5 DEF Base, ForwardersOK
  <2> QED
      BY <1>1, <1>6, <2>1, AttachedOK
<1>8. Fits(x, "attach", proc[x].todo \ {e})
  <2>1. proc[x].todo \subseteq Errands /\ "attach" \in PubPlaces
        BY <1>1 DEF ProcOK, ProcType, PubPlaces
  <2>2. "attach" \in TrackPlaces
        BY DEF TrackPlaces
  <2> QED
      BY <1>1, <1>2, <1>5, <2>1, <2>2 DEF Fits, ProcOK, At, Installs
<1>9. Moves(x) /\ GoesOn(x, "attach", proc[x].todo \ {e}) /\ Proper(x)
      BY <1>4, <1>8, ResumeDoes
<1>10. Base'
      BY <1>1, <1>7, <1>9, BaseMoves DEF At, Base, TypeOK
<1> QED
    BY <1>1, <1>2, <1>3, <1>5, <1>6, <1>9, <1>10

LEMMA AddSubscriberDoes ==
    ASSUME Base, NEW s \in Subs, AddSubscriber(s)
    PROVE  /\ Base' /\ Moves(s) /\ At(s, "add") /\ proc[s].fw \in Forwarders
           /\ attached' = [attached EXCEPT ![proc[s].fw] =
                             attached[proc[s].fw] \cup {s}]
           /\ GoesOn(s, "flush", proc[s].todo)
           /\ UNCHANGED <<world, fws, source, running, leftover, domain,
                          peers>>
<1>1. /\ At(s, "add") /\ ProcOK(s, proc[s]) /\ s \in Procs
      /\ attached' = [attached EXCEPT ![proc[s].fw] =
                        attached[proc[s].fw] \cup {s}]
      /\ Resume(s, "flush", proc[s].todo)
      /\ UNCHANGED <<world, fws, source, running, leftover, domain, peers>>
      BY ProcKinds DEF AddSubscriber, Base, ProcsOK
<1>2. proc[s].fw \in Forwarders
      BY <1>1, RegistryAssumption
      DEF ProcOK, ProcType, At, Forwarders, NoFw, RegistryAssumption
<1>3. ForwardersOK'
  <2>1. attached[proc[s].fw] \cup {s} \in SUBSET Subs
        BY <1>2 DEF Base, ForwardersOK
  <2> QED
      BY <1>1, <2>1, AttachedOK
<1>4. Fits(s, "flush", proc[s].todo)
  <2>1. proc[s].todo \subseteq Errands /\ "flush" \in SubPlaces
        BY <1>1 DEF ProcOK, ProcType, SubPlaces
  <2>2. s \in members
        BY <1>1 DEF Base, Stages, At, LeavePlaces
  <2> QED
      BY <1>1, <2>1, <2>2, ProcKinds DEF Fits, ProcOK, Installs
<1>5. Moves(s) /\ GoesOn(s, "flush", proc[s].todo) /\ Proper(s)
      BY <1>1, <1>4, ResumeDoes
<1>6. Base'
      BY <1>1, <1>3, <1>5, BaseMoves DEF At, Base, TypeOK
<1> QED
    BY <1>1, <1>2, <1>5, <1>6

LEMMA RemoveSubscriberDoes ==
    ASSUME Base, NEW s \in Subs, RemoveSubscriber(s)
    PROVE  /\ Base' /\ Moves(s) /\ At(s, "remove")
           /\ \E e \in proc[s].todo :
                 /\ e[1] \in IDs /\ e[2] \in Forwarders
                 /\ attached' = [attached EXCEPT ![e[2]] = attached[e[2]] \ {s}]
                 /\ \/ /\ attached[e[2]] \subseteq {s}
                       /\ proc'[s].at = "prune" /\ proc'[s].id = e[1]
                       /\ proc'[s].fw = e[2] /\ proc'[s].src = Placeholder
                       /\ proc'[s].todo = proc[s].todo \ {e}
                    \/ /\ ~ (attached[e[2]] \subseteq {s})
                       /\ GoesOn(s, "remove", proc[s].todo \ {e})
           /\ UNCHANGED <<world, fws, source, running, leftover, domain,
                          peers>>
<1>1. /\ At(s, "remove") /\ ProcOK(s, proc[s]) /\ s \in Procs
      /\ UNCHANGED <<world, fws, source, running, leftover, domain, peers>>
      BY ProcKinds DEF RemoveSubscriber, Base, ProcsOK
<1>2. PICK e \in proc[s].todo :
         /\ attached' = [attached EXCEPT ![e[2]] = @ \ {s}]
         /\ IF attached[e[2]] \subseteq {s}
            THEN Goto(s, [proc[s] EXCEPT !.at = "prune", !.id = e[1],
                            !.fw = e[2], !.todo = proc[s].todo \ {e}])
            ELSE Resume(s, "remove", proc[s].todo \ {e})
      BY DEF RemoveSubscriber
<1> DEFINE rest == proc[s].todo \ {e}
<1>3. /\ proc[s] \in ProcType /\ proc[s].todo \subseteq Errands
      /\ proc[s].src = Placeholder
      BY <1>1 DEF ProcOK, ProcType
<1>4. \A d \in proc[s].todo : d[1] \in IDs /\ d[2] # NoFw
      BY <1>1 DEF ProcOK, At
<1>5. e[1] \in IDs /\ e[2] \in 0..MaxForwarders /\ e[2] # NoFw
  <2>1. e \in (IDs \cup Subs) \X (0..MaxForwarders)
        BY <1>3 DEF Errands
  <2> QED
      BY <1>4, <2>1
<1>6. e[2] \in Forwarders
      BY <1>5, RegistryAssumption DEF Forwarders, NoFw, RegistryAssumption
<1>7. /\ {"prune", "remove"} \subseteq SubPlaces
      /\ {"prune", "remove"} \subseteq LeavePlaces
      BY DEF SubPlaces, LeavePlaces
<1>8. attached' = [attached EXCEPT ![e[2]] = attached[e[2]] \ {s}]
      BY <1>2
<1>9. ForwardersOK'
  <2>1. attached[e[2]] \ {s} \in SUBSET Subs
        BY <1>6 DEF Base, ForwardersOK
  <2> QED
      BY <1>1, <1>8, <2>1, AttachedOK
<1>10. CASE attached[e[2]] \subseteq {s}
  <2> DEFINE i == e[1]
             k == e[2]
  <2>1. /\ i \in IDs /\ k \in 0..MaxForwarders /\ k # NoFw
        /\ rest \subseteq Errands
        /\ \A d \in rest : d[1] \in IDs /\ d[2] # NoFw
        BY <1>3, <1>4, <1>5
  <2>2. Goto(s, [proc[s] EXCEPT !.at = "prune", !.id = i, !.fw = k,
                                !.todo = rest])
        BY <1>2, <1>10
  <2>3. /\ Moves(s) /\ proc'[s] \in ProcType /\ proc'[s].at = "prune"
        /\ proc'[s].id = i /\ proc'[s].fw = k /\ proc'[s].todo = rest
        /\ proc'[s].src = Placeholder
    <3> HIDE DEF i, k, rest
    <3>1. /\ Moves(s)
          /\ proc'[s] = [proc[s] EXCEPT !.at = "prune", !.id = i, !.fw = k,
                                        !.todo = rest]
          BY <1>1, <2>2, GotoMoves DEF Base
    <3> QED
        BY <1>3, <1>7, <2>1, <3>1 DEF ProcType
  <2>4. ProcOK(s, proc'[s])
    <3> HIDE DEF i, k, rest
    <3> QED
        BY <1>7, <2>1, <2>3, ProcKinds DEF ProcOK, Installs
  <2>5. Proper(s)
        BY <1>7, <2>3, <2>4 DEF Proper
  <2>6. Base'
        BY <1>1, <1>9, <2>3, <2>5, BaseMoves DEF At, Base, TypeOK
  <2> QED
      BY <1>1, <1>5, <1>6, <1>8, <1>10, <2>3, <2>6
<1>11. CASE ~ (attached[e[2]] \subseteq {s})
  <2>1. Resume(s, "remove", rest)
        BY <1>2, <1>11
  <2>2. Fits(s, "remove", rest)
    <3>1. rest \subseteq Errands /\ \A d \in rest : d[1] \in IDs /\ d[2] # NoFw
          BY <1>3, <1>4
    <3> HIDE DEF rest
    <3> QED
        BY <1>3, <1>7, <3>1, ProcKinds DEF Fits, ProcOK, Installs
  <2>3. Moves(s) /\ GoesOn(s, "remove", rest) /\ Proper(s)
        BY <1>1, <2>1, <2>2, ResumeDoes
  <2>4. Base'
        BY <1>1, <1>9, <2>3, BaseMoves DEF At, Base, TypeOK
  <2> QED
      BY <1>1, <1>5, <1>6, <1>8, <1>11, <2>3, <2>4
<1> QED
    BY <1>10, <1>11

LEMMA PruneDoes ==
    ASSUME Base, NEW s \in Subs, Prune(s)
    PROVE  /\ Base' /\ Moves(s) /\ At(s, "prune") /\ proc[s].id \in IDs
           /\ proc[s].fw \in Forwarders
           /\ \/ /\ fws[proc[s].id] = proc[s].fw /\ attached[proc[s].fw] = {}
                 /\ fws' = [fws EXCEPT ![proc[s].id] = NoFw]
                 /\ Keeps(s) /\ proc'[s].at = "stop"
                 /\ proc'[s].todo = proc[s].todo
              \/ /\ fws[proc[s].id] # proc[s].fw \/ attached[proc[s].fw] # {}
                 /\ UNCHANGED fws /\ GoesOn(s, "remove", proc[s].todo)
           /\ UNCHANGED <<world, source, attached, running, leftover, domain,
                          peers>>
<1>1. /\ At(s, "prune") /\ ProcOK(s, proc[s]) /\ s \in Procs
      /\ UNCHANGED <<world, source, attached, running, leftover, domain,
                     peers>>
      BY ProcKinds DEF Prune, Base, ProcsOK
<1>2. proc[s].fw \in Forwarders /\ proc[s].id \in IDs
      BY <1>1, RegistryAssumption
      DEF ProcOK, ProcType, At, Forwarders, NoFw, RegistryAssumption
<1>3. /\ proc[s].todo \subseteq Errands /\ proc[s].src = Placeholder
      /\ \A d \in proc[s].todo : d[1] \in IDs /\ d[2] # NoFw
      BY <1>1 DEF ProcOK, ProcType, At
<1>4. /\ {"stop", "remove"} \subseteq SubPlaces
      /\ {"stop", "remove"} \subseteq LeavePlaces
      BY DEF SubPlaces, LeavePlaces
<1>5. CASE fws[proc[s].id] = proc[s].fw /\ attached[proc[s].fw] = {}
  <2>1. fws' = [fws EXCEPT ![proc[s].id] = NoFw] /\ Move(s, "stop")
        BY <1>5 DEF Prune
  <2>2. /\ Moves(s) /\ Keeps(s) /\ proc'[s].at = "stop"
        /\ proc'[s].todo = proc[s].todo /\ proc'[s] \in ProcType
        BY <1>1, <1>4, <2>1, MoveMoves DEF Base
  <2>3. ProcOK(s, proc'[s])
        BY <1>3, <1>4, <2>2, ProcKinds DEF ProcOK, Keeps, Installs
  <2>4. Proper(s)
        BY <1>4, <2>2, <2>3 DEF Proper
  <2>5. ForwardersOK'
    <3>1. NoFw \in 0..MaxForwarders
          BY RegistryAssumption DEF NoFw, RegistryAssumption
    <3> QED
        BY <1>1, <1>2, <2>1, <3>1 DEF Base, ForwardersOK
  <2>6. Base'
        BY <1>1, <2>2, <2>4, <2>5, BaseMoves DEF At, Base, TypeOK
  <2> QED
      BY <1>1, <1>2, <1>5, <2>1, <2>2, <2>6
<1>6. CASE ~ (fws[proc[s].id] = proc[s].fw /\ attached[proc[s].fw] = {})
  <2>1. UNCHANGED fws /\ Resume(s, "remove", proc[s].todo)
        BY <1>6 DEF Prune
  <2>2. Fits(s, "remove", proc[s].todo)
        BY <1>3, <1>4, ProcKinds DEF Fits, ProcOK, Installs
  <2>3. Moves(s) /\ GoesOn(s, "remove", proc[s].todo) /\ Proper(s)
        BY <1>1, <2>1, <2>2, ResumeDoes
  <2>4. ForwardersOK'
        BY <1>1, <2>1 DEF Base, ForwardersOK
  <2>5. Base'
        BY <1>1, <2>3, <2>4, BaseMoves DEF At, Base, TypeOK
  <2> QED
      BY <1>1, <1>2, <1>6, <2>1, <2>3, <2>5
<1> QED
    BY <1>5, <1>6
-----------------------------------------------------------------------------
(* Types, places and stages are kept. *)

LEMMA BaseInit == Init => Base
<1> SUFFICES ASSUME Init PROVE Base
    OBVIOUS
<1>1. /\ world \in Worlds /\ world.subs \subseteq Subs
      /\ NoFw \in 0..MaxForwarders
      BY RegistryAssumption DEF Init, RegistryAssumption, NoFw
<1>2. ForwardersOK
      BY <1>1 DEF Init, ForwardersOK
<1>3. ProcsOK
      BY IdleOK DEF Init, ProcsOK
<1>4. TypeOK
      BY <1>1, <1>2, <1>3 DEF Init, TypeOK, ForwardersOK, ProcsOK
<1>5. \A x \in Procs : proc[x].at = "idle"
      BY IdleOK DEF Init
<1>6. Stages
      BY <1>1, <1>5, ProcKinds DEF Init, Stages, LeavePlaces, At
<1> QED
    BY <1>2, <1>3, <1>4, <1>6 DEF Base

LEMMA BaseStep ==
    ASSUME Base, [Next]_vars
    PROVE  Base'
<1>1. CASE UNCHANGED vars
      BY <1>1 DEF Base, TypeOK, ForwardersOK, ProcsOK, Stages, At, vars
<1>2. ASSUME NEW x \in Procs, Continue(x)
      PROVE  Base'
  <2>1. CASE x \in Tracks /\ TrackRegistered(x)
        BY <2>1, TrackRegisteredDoes
  <2>2. CASE x = Pub /\ (FindForwarder \/ AdoptOrphanForwarder
                         \/ RemoveForwarder \/ MediaReady)
        BY <2>2, FindForwarderDoes, AdoptDoes, RemoveForwarderDoes,
           MediaReadyDoes
  <2>3. CASE x \in Subs /\ (FindSubscribed(x) \/ Decide(x) \/ AddSubscriber(x))
        BY <2>3, FindSubscribedDoes, DecideDoes, AddSubscriberDoes
  <2>4. CASE x \in Subs /\ (AttachSubscribedReady(x) \/ Detach(x)
                            \/ Snapshot(x))
        BY <2>4, AttachSubscribedReadyDoes, DetachDoes, SnapshotDoes
  <2>5. CASE x \in Subs /\ (RemoveSubscriber(x) \/ Prune(x)
                            \/ ClosePeerConnection(x))
        BY <2>5, RemoveSubscriberDoes, PruneDoes, ClosePeerConnectionDoes
  <2>6. CASE Lookup(x) \/ Swap(x) \/ Create(x)
        BY <2>6, LookupDoes, SwapDoes, CreateDoes
  <2>7. CASE Stop(x) \/ AutoSubscribe(x) \/ AutoAttach(x)
        BY <2>7, StopDoes, AutoSubscribeDoes, AutoAttachDoes
  <2> QED
      BY <1>2, <2>1, <2>2, <2>3, <2>4, <2>5, <2>6, <2>7 DEF Continue
<1>3. ASSUME NEW t \in Tracks,
             \/ OfferMedia(t) \/ ReadReturns(t) \/ HandleTrack(t)
             \/ HandlePublishTrack(t) \/ HandleUnpublishTrack(t)
      PROVE  Base'
      BY <1>3, BrowserDoes, HandleTrackDoes, HandlePublishTrackDoes,
         HandleUnpublishTrackDoes
<1>4. ASSUME NEW s \in Subs,
             \/ ServerOffer(s) \/ Connected(s) \/ Exchanged(s)
             \/ HandleLeaveRoom(s)
      PROVE  Base'
      BY <1>4, BrowserDoes, ExchangedDoes, HandleLeaveRoomDoes
<1>5. ASSUME NEW s \in Subs, NEW t \in Tracks,
             HandleSubscribeTrack(s, t) \/ HandleUnsubscribeTrack(s, t)
      PROVE  Base'
      BY <1>5, HandleSubscribeTrackDoes, HandleUnsubscribeTrackDoes
<1> QED
    BY <1>1, <1>2, <1>3, <1>4, <1>5 DEF Next

LEMMA BaseAlways == Spec => []Base
<1>1. Base /\ [Next]_vars => Base'
      BY BaseStep
<1> QED
    BY BaseInit, <1>1, PTL DEF Spec

(* The SFU's state is well formed: every entry of Handler.trackForwarders  *)
(* is a forwarder under one ID only, every run loop has media to read, and *)
(* whoever is in the room has a registered peer connection.                *)
THEOREM TypeCorrect == Spec => []TypeOK
<1>1. Base => TypeOK
      BY DEF Base
<1> QED
    BY BaseAlways, <1>1, PTL
-----------------------------------------------------------------------------
(* Handlers in turn. *)

(* Where handlers do not overlap, one process at most is not idle.         *)
Turn ==
    ~world.overlap =>
        \A x, y \in Procs : At(x, "idle") \/ At(y, "idle") \/ x = y

(* Whoever moves was under way or begins a handler.                        *)
LEMMA WhoMoves ==
    ASSUME Base, [Next]_vars
    PROVE  /\ UNCHANGED world
           /\ \/ UNCHANGED proc
              \/ \E x \in Procs : Moves(x) /\ (~At(x, "idle") \/ Begins(x))
<1>1. CASE UNCHANGED vars
      BY <1>1 DEF vars
<1>2. ASSUME NEW x \in Procs, Continue(x)
      PROVE  UNCHANGED world /\ Moves(x) /\ ~At(x, "idle")
  <2>1. CASE x \in Tracks /\ TrackRegistered(x)
        BY <2>1, TrackRegisteredDoes DEF Quiet, At
  <2>2. CASE x = Pub /\ (FindForwarder \/ AdoptOrphanForwarder
                         \/ RemoveForwarder \/ MediaReady)
        BY <2>2, FindForwarderDoes, AdoptDoes, RemoveForwarderDoes,
           MediaReadyDoes DEF Quiet, At
  <2>3. CASE x \in Subs /\ (FindSubscribed(x) \/ Decide(x) \/ AddSubscriber(x))
        BY <2>3, FindSubscribedDoes, DecideDoes, AddSubscriberDoes
        DEF Quiet, At
  <2>4. CASE x \in Subs /\ (AttachSubscribedReady(x) \/ Detach(x)
                            \/ Snapshot(x))
        BY <2>4, AttachSubscribedReadyDoes, DetachDoes, SnapshotDoes
        DEF Quiet, At
  <2>5. CASE x \in Subs /\ (RemoveSubscriber(x) \/ Prune(x)
                            \/ ClosePeerConnection(x))
        BY <2>5, RemoveSubscriberDoes, PruneDoes, ClosePeerConnectionDoes
        DEF At
  <2>6. CASE Lookup(x) \/ Swap(x) \/ Create(x)
        BY <2>6, LookupDoes, SwapDoes, CreateDoes DEF Quiet, Lookup, At
  <2>7. CASE Stop(x) \/ AutoSubscribe(x) \/ AutoAttach(x)
        BY <2>7, StopDoes, AutoSubscribeDoes, AutoAttachDoes DEF Quiet, At
  <2> QED
      BY <1>2, <2>1, <2>2, <2>3, <2>4, <2>5, <2>6, <2>7 DEF Continue
<1>3. ASSUME NEW t \in Tracks,
             \/ OfferMedia(t) \/ ReadReturns(t) \/ HandleTrack(t)
             \/ HandlePublishTrack(t) \/ HandleUnpublishTrack(t)
      PROVE  /\ UNCHANGED world
             /\ \/ UNCHANGED proc
                \/ \E x \in Procs : Moves(x) /\ Begins(x)
      BY <1>3, ProcKinds, BrowserDoes, HandleTrackDoes, HandlePublishTrackDoes,
         HandleUnpublishTrackDoes DEF Starts
<1>4. ASSUME NEW s \in Subs,
             \/ ServerOffer(s) \/ Connected(s) \/ Exchanged(s)
             \/ HandleLeaveRoom(s)
      PROVE  /\ UNCHANGED world
             /\ \/ UNCHANGED proc
                \/ \E x \in Procs : Moves(x) /\ Begins(x)
      BY <1>4, ProcKinds, BrowserDoes, ExchangedDoes, HandleLeaveRoomDoes
<1>5. ASSUME NEW s \in Subs, NEW t \in Tracks,
             HandleSubscribeTrack(s, t) \/ HandleUnsubscribeTrack(s, t)
      PROVE  /\ UNCHANGED world
             /\ \E x \in Procs : Moves(x) /\ Begins(x)
      BY <1>5, ProcKinds, HandleSubscribeTrackDoes, HandleUnsubscribeTrackDoes
      DEF Starts
<1> QED
    BY <1>1, <1>2, <1>3, <1>4, <1>5 DEF Next

LEMMA TurnStep ==
    ASSUME Base, Turn, [Next]_vars
    PROVE  Turn'
<1>1. UNCHANGED world
      BY WhoMoves
<1>2. CASE UNCHANGED proc
      BY <1>1, <1>2 DEF Turn, At
<1>3. ASSUME NEW x \in Procs, Moves(x), ~At(x, "idle") \/ Begins(x)
      PROVE  Turn'
  <2>1. ~world.overlap => \A y \in Procs \ {x} : At(y, "idle")
        BY <1>3 DEF Turn, Begins, Settled, At
  <2> QED
      BY <1>1, <1>3, <2>1 DEF Turn, Moves, At
<1> QED
    BY <1>2, <1>3, WhoMoves

-----------------------------------------------------------------------------
(* Leaving, where handlers run in turn. *)

Registered(k) == \E i \in IDs : fws[i] = k

(* What has subscribers is in the map, or is being stopped.                *)
AttachedKnown ==
    \A k \in Forwarders : attached[k] # {} =>
        Registered(k) \/ \E y \in Procs : At(y, "stop") /\ proc[y].fw = k

(* Whoever is about to attach holds a forwarder of the map, and attaches   *)
(* members of the room.                                                    *)
Attaching(y) ==
    /\ proc[y].at \in {"attach", "add"} => Registered(proc[y].fw)
    /\ y \in Subs /\ proc[y].at \in {"swap", "created"} =>
          Registered(proc[y].fw)
    /\ At(y, "attach") => \A e \in proc[y].todo : e[1] \in members

(* A leaver has yet to be taken off every forwarder it is attached to.     *)
LeaverListed(s) ==
    \A k \in Forwarders : s \in attached[k] =>
        \/ At(s, "snapshot")
        \/ /\ proc[s].at \in {"remove", "prune", "stop"}
           /\ \E e \in proc[s].todo : e[2] = k

Leaving ==
    /\ AttachedKnown
    /\ \A y \in Procs : Attaching(y)
    /\ \A s \in Subs \ members : LeaverListed(s)

(* Process x is the only one that is not idle, before the step and after.  *)
Alone(x) == Moves(x) /\ \A y \in Procs \ {x} : At(y, "idle")

LEMMA IdleAttaches ==
    ASSUME NEW x \in Procs, Alone(x)
    PROVE  \A y \in Procs \ {x} : Attaching(y)'
BY DEF Alone, Moves, Attaching, At

(* The step of a process that goes through the map without changing it.    *)
LEMMA LeavingQuiet ==
    ASSUME Base, Leaving, NEW x \in Procs, Alone(x),
           UNCHANGED <<fws, attached, members>>, ~At(x, "stop"),
           Attaching(x)', x \notin Subs \ members
    PROVE  Leaving'
<1>1. \A y \in Procs : Attaching(y)'
      BY IdleAttaches
<1>2. AttachedKnown'
  <2>1. \A k \in Forwarders : attached[k] # {} => Registered(k)
        BY DEF Leaving, AttachedKnown, Alone, At
  <2> QED
      BY <2>1 DEF AttachedKnown, Registered
<1>3. \A s \in Subs \ members' : LeaverListed(s)'
      BY ProcKinds DEF Leaving, LeaverListed, Alone, Moves, At
<1> QED
    BY <1>1, <1>2, <1>3 DEF Leaving

LEMMA LeavingPublisher ==
    ASSUME Base, Leaving, Alone(Pub),
           \/ FindForwarder \/ AdoptOrphanForwarder \/ RemoveForwarder
           \/ MediaReady
    PROVE  Leaving'
<1>1. Pub \in Procs /\ Pub \notin Subs
      BY ProcKinds
<1>2. CASE FindForwarder
  <2>1. /\ Quiet /\ At(Pub, "find")
        /\ proc'[Pub].at = "adopt" \/ proc'[Pub].at = "created"
        BY <1>2, FindForwarderDoes
  <2> QED
      BY <1>1, <2>1, LeavingQuiet DEF Quiet, Attaching, At
<1>3. CASE AdoptOrphanForwarder
  <2>1. /\ Quiet /\ At(Pub, "adopt")
        /\ proc'[Pub].at = "lookup" \/ proc'[Pub].at = "unhook"
        BY <1>3, AdoptDoes
  <2> QED
      BY <1>1, <2>1, LeavingQuiet DEF Quiet, Attaching, At
<1>4. CASE MediaReady
  <2>1. /\ Quiet /\ At(Pub, "created")
        /\ proc'[Pub].at = "auto" \/ proc'[Pub].at = "idle"
        BY <1>4, MediaReadyDoes, IdleOK
  <2> QED
      BY <1>1, <2>1, LeavingQuiet DEF Quiet, Attaching, At
<1>5. CASE RemoveForwarder
  <2>1. /\ At(Pub, "unhook") /\ proc'[Pub].at = "stop"
        /\ UNCHANGED <<attached, members>>
        BY <1>5, RemoveForwarderDoes
  <2>2. PICK i \in IDs : /\ fws' = [fws EXCEPT ![i] = NoFw]
                         /\ proc'[Pub].fw = fws[i]
        BY <1>5, RemoveForwarderDoes
  <2>3. \A j \in IDs \ {i} : fws'[j] = fws[j]
        BY <2>2 DEF Base, ForwardersOK
  <2>4. \A k \in Forwarders : attached[k] # {} => Registered(k)
        BY <2>1 DEF Leaving, AttachedKnown, Alone, At
  <2>5. AttachedKnown'
        BY <1>1, <2>1, <2>2, <2>3, <2>4 DEF AttachedKnown, Registered, At
  <2>6. \A y \in Procs : Attaching(y)'
        BY <1>1, <2>1, IdleAttaches DEF Attaching, At
  <2>7. \A s \in Subs \ members' : LeaverListed(s)'
        BY <1>1, <2>1, ProcKinds DEF Leaving, LeaverListed, Alone, Moves, At
  <2> QED
      BY <2>5, <2>6, <2>7 DEF Leaving
<1> QED
    BY <1>2, <1>3, <1>4, <1>5

LEMMA LeavingInstalls ==
    ASSUME Base, Leaving, NEW x \in Procs, Alone(x),
           Lookup(x) \/ Swap(x) \/ Create(x)
    PROVE  Leaving'
<1>1. CASE Lookup(x)
  <2>1. /\ Quiet /\ proc[x].at = "lookup" /\ proc[x].id \in IDs
        /\ proc'[x].fw = fws[proc[x].id]
        /\ proc'[x].at = "create" \/ proc'[x].at = "swap"
        BY <1>1, LookupDoes DEF Base, ProcsOK, ProcOK, Lookup, At, Installs
  <2>2. Attaching(x)'
        BY <2>1 DEF Attaching, Registered, Quiet, At
  <2>3. x \notin Subs \ members
        BY <2>1 DEF Base, Stages, LeavePlaces
  <2> QED
      BY <2>1, <2>2, <2>3, LeavingQuiet DEF Quiet, At
<1>2. CASE Swap(x)
  <2>1. /\ proc[x].at = "swap" /\ proc'[x].fw = proc[x].fw
        /\ proc'[x].at = "created" /\ UNCHANGED <<fws, attached, members>>
        BY <1>2, SwapDoes DEF At, Keeps
  <2>2. Attaching(x)'
        BY <2>1 DEF Leaving, Attaching, Registered, At
  <2>3. x \notin Subs \ members
        BY <2>1 DEF Base, Stages, LeavePlaces
  <2> QED
      BY <2>1, <2>2, <2>3, LeavingQuiet DEF At
<1>3. CASE Create(x)
  <2>1. /\ proc[x].at = "create" /\ proc[x].id \in IDs
        /\ proc'[x].at = "created" /\ UNCHANGED <<attached, members>>
        /\ proc'[x].fw \in Forwarders
        /\ Installed(x, proc'[x].fw) \/ Found(x, proc'[x].fw)
        BY <1>3, CreateDoes DEF At
  <2>2. x \notin Subs \ members
        BY <2>1 DEF Base, Stages, LeavePlaces
  <2>3. CASE Found(x, proc'[x].fw)
    <3>1. Attaching(x)' /\ UNCHANGED fws
          BY <2>1, <2>3 DEF Attaching, Registered, Found, At
    <3> QED
        BY <2>1, <2>2, <3>1, LeavingQuiet DEF At
  <2>4. CASE Installed(x, proc'[x].fw)
    <3>1. /\ fws[proc[x].id] = NoFw
          /\ fws' = [fws EXCEPT ![proc[x].id] = proc'[x].fw]
          BY <2>4 DEF Installed
    <3>2. fws'[proc[x].id] = proc'[x].fw
          BY <2>1, <3>1 DEF Base, ForwardersOK
    <3>3. \A i \in IDs : fws[i] # NoFw => fws'[i] = fws[i]
          BY <3>1 DEF Base, ForwardersOK
    <3>4. \A k \in Forwarders : Registered(k) => Registered(k)'
          BY <3>3, RegistryAssumption
          DEF Registered, Forwarders, NoFw, RegistryAssumption
    <3>5. \A k \in Forwarders : attached[k] # {} => Registered(k)
          BY <2>1 DEF Leaving, AttachedKnown, Alone, At
    <3>6. AttachedKnown'
          BY <2>1, <3>4, <3>5 DEF AttachedKnown
    <3>7. Registered(proc[x].fw)' /\ Attaching(x)'
          BY <2>1, <3>2 DEF Attaching, Registered, At
    <3>8. \A y \in Procs : Attaching(y)'
          BY <3>7, IdleAttaches
    <3>9. \A s \in Subs \ members' : LeaverListed(s)'
          BY <2>1, <2>2, ProcKinds
          DEF Leaving, LeaverListed, Alone, Moves, At
    <3> QED
        BY <3>6, <3>8, <3>9 DEF Leaving
  <2> QED
      BY <2>1, <2>3, <2>4
<1> QED
    BY <1>1, <1>2, <1>3

LEMMA LeavingAttaches ==
    ASSUME Base, Leaving, NEW x \in Procs, Alone(x),
           \/ AutoSubscribe(x) \/ AutoAttach(x)
           \/ x \in Subs /\ AddSubscriber(x)
    PROVE  Leaving'
<1>1. CASE AutoSubscribe(x)
  <2>1. /\ Quiet /\ proc[x].at = "auto" /\ x \notin Subs
        /\ \/ proc'[x].at = "idle"
           \/ /\ proc'[x].at = "attach" /\ proc[x].id \in IDs
              /\ proc'[x].fw = fws[proc[x].id]
              /\ proc'[x].todo = {<<s, NoFw>> : s \in members}
        BY <1>1, AutoSubscribeDoes, IdleOK DEF At
  <2>2. Attaching(x)'
        BY <2>1 DEF Attaching, Registered, Quiet, At
  <2> QED
      BY <2>1, <2>2, LeavingQuiet DEF Quiet, At
<1>2. ASSUME NEW s \in members, At(x, "attach") \/ At(x, "add"),
             x \notin Subs \ members,
             \/ attached' = [attached EXCEPT ![proc[x].fw] =
                               attached[proc[x].fw] \cup {s}]
             \/ UNCHANGED attached,
             UNCHANGED <<fws, members>>, Attaching(x)'
      PROVE  Leaving'
  <2>1. Registered(proc[x].fw)
        BY <1>2 DEF Leaving, Attaching, At
  <2>2. \A k \in Forwarders : attached[k] # {} => Registered(k)
        BY <1>2 DEF Leaving, AttachedKnown, Alone, At
  <2>3. \A k \in Forwarders :
           /\ k # proc[x].fw => attached'[k] = attached[k]
           /\ \A y \in Subs \ members : y \in attached'[k] => y \in attached[k]
        BY <1>2 DEF Base, ForwardersOK
  <2>4. AttachedKnown'
        BY <1>2, <2>1, <2>2, <2>3 DEF AttachedKnown, Registered
  <2>5. \A y \in Procs : Attaching(y)'
        BY <1>2, IdleAttaches
  <2>6. \A y \in Subs \ members' : LeaverListed(y)'
        BY <1>2, <2>3, ProcKinds DEF Leaving, LeaverListed, Alone, Moves, At
  <2> QED
      BY <2>4, <2>5, <2>6 DEF Leaving
<1>3. CASE AutoAttach(x)
  <2>1. /\ At(x, "attach") /\ x \notin Subs /\ UNCHANGED <<fws, members>>
        BY <1>3, AutoAttachDoes
  <2>2. PICK e \in proc[x].todo :
           /\ \/ attached' = [attached EXCEPT ![proc[x].fw] =
                                attached[proc[x].fw] \cup {e[1]}]
              \/ UNCHANGED attached
           /\ GoesOn(x, "attach", proc[x].todo \ {e})
        BY <1>3, AutoAttachDoes
  <2>3. /\ Registered(proc[x].fw)
        /\ \A d \in proc[x].todo : d[1] \in members
        BY <2>1 DEF Leaving, Attaching, At
  <2>4. Attaching(x)'
        BY <2>1, <2>2, <2>3, IdleOK
        DEF Attaching, Registered, GoesOn, Keeps, At
  <2> QED
      BY <1>2, <2>1, <2>2, <2>3, <2>4
<1>4. CASE x \in Subs /\ AddSubscriber(x)
  <2>1. /\ At(x, "add") /\ UNCHANGED <<fws, members>>
        /\ attached' = [attached EXCEPT ![proc[x].fw] =
                          attached[proc[x].fw] \cup {x}]
        /\ GoesOn(x, "flush", proc[x].todo)
        BY <1>4, AddSubscriberDoes
  <2>2. x \in members
        BY <1>4, <2>1 DEF Base, Stages, At, LeavePlaces
  <2>3. Attaching(x)'
        BY <2>1, <2>2, IdleOK DEF Attaching, GoesOn, At
  <2> QED
      BY <1>2, <2>1, <2>2, <2>3
<1> QED
    BY <1>1, <1>3, <1>4

(* A loop goes on until the leaver is on none of the forwarders left.      *)
LEMMA ListGoesOn ==
    ASSUME NEW s \in Subs \ members, NEW k, NEW rest, NEW e \in rest, e[2] = k,
           GoesOn(s, "remove", rest)
    PROVE  proc'[s].at = "remove" /\ \E d \in proc'[s].todo : d[2] = k
BY DEF GoesOn

LEMMA LeavingStops ==
    ASSUME Base, Leaving, NEW x \in Procs, Alone(x), Stop(x)
    PROVE  Leaving'
<1>1. /\ At(x, "stop") /\ UNCHANGED <<fws, members>>
      /\ attached' = [k \in Forwarders |->
                        IF k = proc[x].fw THEN {} ELSE attached[k]]
      /\ \/ proc'[x].at \in {"lookup", "idle"} /\ x \notin Subs
         \/ x \in Subs /\ GoesOn(x, "remove", proc[x].todo)
      BY StopDoes, IdleOK, ProcKinds
<1>2. proc'[x].at \in {"lookup", "idle", "remove", "close"}
      BY <1>1, IdleOK DEF GoesOn
<1>3. AttachedKnown'
  <2>1. \A k \in Forwarders :
           attached'[k] # {} => k # proc[x].fw /\ attached[k] # {}
        BY <1>1
  <2>2. \A k \in Forwarders : attached'[k] # {} => Registered(k)
        BY <2>1 DEF Leaving, AttachedKnown, Alone, At
  <2> QED
      BY <1>1, <2>2 DEF AttachedKnown, Registered
<1>4. \A y \in Procs : Attaching(y)'
  <2>1. Attaching(x)'
        BY <1>2 DEF Attaching, At
  <2> QED
      BY <2>1, IdleAttaches
<1>5. ASSUME NEW s \in Subs \ members', NEW k \in Forwarders, s \in attached'[k]
      PROVE  \/ At(s, "snapshot")'
             \/ /\ proc'[s].at \in {"remove", "prune", "stop"}
                /\ \E e \in proc'[s].todo : e[2] = k
  <2>1. s \in Subs \ members /\ s \in attached[k] /\ s \in Procs
        BY <1>1, <1>5, ProcKinds
  <2>2. s = x /\ \E e \in proc[s].todo : e[2] = k
        BY <1>1, <2>1 DEF Leaving, LeaverListed, Alone, At
  <2>3. GoesOn(s, "remove", proc[s].todo)
        BY <1>1, <2>1, <2>2
  <2> QED
      BY <2>1, <2>2, <2>3, ListGoesOn
<1> QED
    BY <1>3, <1>4, <1>5 DEF Leaving, LeaverListed

LEMMA LeavingRemoves ==
    ASSUME Base, Leaving, NEW s \in Subs, Alone(s), RemoveSubscriber(s)
    PROVE  Leaving'
<1>1. At(s, "remove") /\ UNCHANGED <<fws, members>> /\ s \in Procs
      BY RemoveSubscriberDoes, ProcKinds
<1>2. PICK e \in proc[s].todo :
         /\ e[2] \in Forwarders
         /\ attached' = [attached EXCEPT ![e[2]] = attached[e[2]] \ {s}]
         /\ \/ proc'[s].at = "prune" /\ proc'[s].todo = proc[s].todo \ {e}
            \/ GoesOn(s, "remove", proc[s].todo \ {e})
      BY RemoveSubscriberDoes
<1>3. proc'[s].at \in {"prune", "remove", "close", "idle"}
      BY <1>2, IdleOK DEF GoesOn
<1>4. \A k \in Forwarders : /\ attached'[k] \subseteq attached[k]
                            /\ s \in attached'[k] => k # e[2]
      BY <1>2 DEF Base, ForwardersOK
<1>5. AttachedKnown'
  <2>1. \A k \in Forwarders : attached'[k] # {} => attached[k] # {}
        BY <1>4
  <2>2. \A k \in Forwarders : attached'[k] # {} => Registered(k)
        BY <1>1, <2>1 DEF Leaving, AttachedKnown, Alone, At
  <2> QED
      BY <1>1, <2>2 DEF AttachedKnown, Registered
<1>6. \A y \in Procs : Attaching(y)'
  <2>1. Attaching(s)'
        BY <1>3 DEF Attaching, At
  <2> QED
      BY <1>1, <2>1, IdleAttaches
<1>7. ASSUME NEW y \in Subs \ members', NEW k \in Forwarders, y \in attached'[k]
      PROVE  \/ At(y, "snapshot")'
             \/ /\ proc'[y].at \in {"remove", "prune", "stop"}
                /\ \E d \in proc'[y].todo : d[2] = k
  <2>1. y \in Subs \ members /\ y \in attached[k] /\ y \in Procs
        BY <1>1, <1>4, <1>7, ProcKinds
  <2>2. y = s /\ \E d \in proc[y].todo : d[2] = k
        BY <1>1, <2>1 DEF Leaving, LeaverListed, Alone, At
  <2>3. \E d \in proc[s].todo \ {e} : d[2] = k
        BY <1>4, <1>7, <2>2
  <2> QED
      BY <1>2, <2>1, <2>2, <2>3, ListGoesOn
<1> QED
    BY <1>5, <1>6, <1>7 DEF Leaving, LeaverListed

LEMMA LeavingPrunes ==
    ASSUME Base, Leaving, NEW s \in Subs, Alone(s), Prune(s)
    PROVE  Leaving'
<1>1. At(s, "prune") /\ UNCHANGED <<attached, members>> /\ s \in Procs
      BY PruneDoes, ProcKinds
<1>2. \/ proc'[s].at = "stop" /\ proc'[s].todo = proc[s].todo
      \/ GoesOn(s, "remove", proc[s].todo)
      BY PruneDoes
<1>3. proc'[s].at \in {"stop", "remove", "close", "idle"}
      BY <1>2, IdleOK DEF GoesOn
<1>4. AttachedKnown'
  <2>1. \A k \in Forwarders : attached[k] # {} => Registered(k)
        BY <1>1 DEF Leaving, AttachedKnown, Alone, At
  <2>2. \A k \in Forwarders :
           Registered(k) /\ attached[k] # {} => Registered(k)'
        BY PruneDoes DEF Registered, Base, ForwardersOK
  <2> QED
      BY <1>1, <2>1, <2>2 DEF AttachedKnown
<1>5. \A y \in Procs : Attaching(y)'
  <2>1. Attaching(s)'
        BY <1>3 DEF Attaching, At
  <2> QED
      BY <1>1, <2>1, IdleAttaches
<1>6. ASSUME NEW y \in Subs \ members', NEW k \in Forwarders, y \in attached'[k]
      PROVE  \/ At(y, "snapshot")'
             \/ /\ proc'[y].at \in {"remove", "prune", "stop"}
                /\ \E d \in proc'[y].todo : d[2] = k
  <2>1. y \in Subs \ members /\ y \in attached[k] /\ y \in Procs
        BY <1>1, <1>6, ProcKinds
  <2>2. y = s /\ \E d \in proc[y].todo : d[2] = k
        BY <1>1, <2>1 DEF Leaving, LeaverListed, Alone, At
  <2> QED
      BY <1>2, <2>1, <2>2, ListGoesOn
<1> QED
    BY <1>4, <1>5, <1>6 DEF Leaving, LeaverListed

LEMMA LeavingSubscribes ==
    ASSUME Base, Leaving, NEW s \in Subs, Alone(s),
           \/ FindSubscribed(s) \/ Decide(s) \/ AttachSubscribedReady(s)
           \/ Detach(s)
    PROVE  Leaving'
<1>1. s \in Procs
      BY ProcKinds
<1>2. CASE FindSubscribed(s)
  <2>1. /\ proc[s].at = "find" /\ proc[s].id \in IDs
        /\ UNCHANGED <<fws, attached, members>>
        /\ \/ proc'[s].at \in {"idle", "lookup"}
           \/ proc'[s].at = "created" /\ proc'[s].fw = fws[proc[s].id]
        BY <1>2, FindSubscribedDoes, IdleOK DEF At
  <2>2. Attaching(s)'
        BY <2>1 DEF Attaching, Registered, At
  <2>3. s \notin Subs \ members
        BY <2>1 DEF Base, Stages, LeavePlaces
  <2> QED
      BY <1>1, <2>1, <2>2, <2>3, LeavingQuiet DEF At
<1>3. CASE Decide(s)
  <2>1. /\ proc[s].at = "created" /\ Quiet
        /\ \/ proc'[s].at = "idle"
           \/ proc'[s].at = "add" /\ proc'[s].fw = proc[s].fw
        BY <1>3, DecideDoes, IdleOK DEF At, Keeps
  <2>2. Attaching(s)'
        BY <1>1, <2>1 DEF Leaving, Attaching, Registered, Quiet, At
  <2>3. s \notin Subs \ members
        BY <2>1 DEF Base, Stages, LeavePlaces
  <2> QED
      BY <1>1, <2>1, <2>2, <2>3, LeavingQuiet DEF Quiet, At
<1>4. CASE AttachSubscribedReady(s)
  <2>1. Quiet /\ At(s, "flush")
        BY <1>4, AttachSubscribedReadyDoes
  <2>2. PICK e \in proc[s].todo :
           \/ /\ e[1] \in IDs /\ proc'[s].at = "add"
              /\ proc'[s].fw = fws[e[1]]
           \/ GoesOn(s, "flush", proc[s].todo \ {e})
        BY <1>4, AttachSubscribedReadyDoes
  <2>3. s \in members
        BY <2>1 DEF Base, Stages, LeavePlaces, At
  <2>4. Attaching(s)'
    <3>1. CASE /\ e[1] \in IDs /\ proc'[s].at = "add"
               /\ proc'[s].fw = fws[e[1]]
          BY <2>1, <3>1 DEF Attaching, Registered, Quiet, At
    <3>2. CASE GoesOn(s, "flush", proc[s].todo \ {e})
          BY <2>3, <3>2, IdleOK DEF Attaching, GoesOn, At
    <3> QED
        BY <2>2, <3>1, <3>2
  <2> QED
      BY <1>1, <2>1, <2>3, <2>4, LeavingQuiet DEF Quiet, At
<1>5. CASE Detach(s)
  <2>1. /\ Quiet /\ At(s, "detach")
        /\ proc'[s].at \in {"remove", "close", "idle"}
        BY <1>5, DetachDoes, IdleOK DEF GoesOn
  <2>2. s \notin Subs \ members
        BY <2>1 DEF Base, Stages, LeavePlaces, At
  <2>3. Attaching(s)'
        BY <2>1 DEF Attaching, At
  <2> QED
      BY <1>1, <2>1, <2>2, <2>3, LeavingQuiet DEF Quiet, At
<1> QED
    BY <1>2, <1>3, <1>4, <1>5

LEMMA LeavingLeaves ==
    ASSUME Base, Leaving, NEW s \in Subs, Alone(s),
           HandleLeaveRoom(s) \/ Snapshot(s) \/ ClosePeerConnection(s)
    PROVE  Leaving'
<1>1. s \in Procs
      BY ProcKinds
<1>2. ASSUME ~At(s, "stop"), UNCHANGED <<fws, attached>>,
             proc'[s].at \in {"snapshot", "remove", "close", "idle"}
      PROVE  AttachedKnown' /\ \A y \in Procs : Attaching(y)'
  <2>1. \A k \in Forwarders : attached[k] # {} => Registered(k)
        BY <1>2 DEF Leaving, AttachedKnown, Alone, At
  <2>2. AttachedKnown'
        BY <1>2, <2>1 DEF AttachedKnown, Registered
  <2>3. Attaching(s)'
        BY <1>2 DEF Attaching, At
  <2> QED
      BY <1>1, <2>2, <2>3, IdleAttaches
<1>3. CASE HandleLeaveRoom(s)
  <2>1. /\ At(s, "idle") /\ members' = members \ {s}
        /\ proc'[s].at = "snapshot" /\ UNCHANGED <<fws, attached>>
        BY <1>3, HandleLeaveRoomDoes DEF Begins
  <2>2. AttachedKnown' /\ \A y \in Procs : Attaching(y)'
        BY <1>2, <2>1 DEF At
  <2>3. \A y \in Subs \ members' : LeaverListed(y)'
        BY <2>1, ProcKinds DEF Leaving, LeaverListed, Alone, Moves, At
  <2> QED
      BY <2>2, <2>3 DEF Leaving
<1>4. CASE Snapshot(s)
  <2> DEFINE rest == {e \in {<<i, fws[i]>> : i \in IDs} : e[2] # NoFw}
  <2>1. /\ At(s, "snapshot") /\ UNCHANGED <<fws, attached, members>>
        /\ GoesOn(s, "remove", rest)
        BY <1>4, SnapshotDoes DEF Quiet
  <2>2. s \in Subs \ members
        BY <2>1 DEF Base, Stages, At
  <2>3. proc'[s].at \in {"remove", "close", "idle"}
        BY <2>1, IdleOK DEF GoesOn
  <2>4. AttachedKnown' /\ \A y \in Procs : Attaching(y)'
        BY <1>2, <2>1, <2>3 DEF At
  <2>5. ASSUME NEW y \in Subs \ members', NEW k \in Forwarders,
               y \in attached'[k]
        PROVE  \/ At(y, "snapshot")'
               \/ /\ proc'[y].at \in {"remove", "prune", "stop"}
                  /\ \E d \in proc'[y].todo : d[2] = k
    <3>1. y \in Subs \ members /\ y \in attached[k] /\ y \in Procs
          BY <2>1, <2>5, ProcKinds
    <3>2. y = s
          BY <3>1 DEF Leaving, LeaverListed, Alone, At
    <3>3. PICK i \in IDs : fws[i] = k
          BY <2>1, <3>1 DEF Leaving, AttachedKnown, Registered, Alone, At
    <3>4. k # NoFw
          BY DEF Forwarders, NoFw
    <3>5. <<i, k>> \in rest /\ <<i, k>>[2] = k
          BY <3>3, <3>4
    <3> QED
        BY <2>1, <2>2, <3>2, <3>5, ListGoesOn
  <2> QED
      BY <2>4, <2>5 DEF Leaving, LeaverListed
<1>5. CASE ClosePeerConnection(s)
  <2>1. /\ At(s, "close") /\ UNCHANGED <<fws, attached, members>>
        /\ proc'[s].at = "idle" /\ s \notin members
        BY <1>5, ClosePeerConnectionDoes, IdleOK
  <2>2. AttachedKnown' /\ \A y \in Procs : Attaching(y)'
        BY <1>2, <2>1 DEF At
  <2>3. \A y \in Subs \ members : LeaverListed(y)'
        BY <2>1, ProcKinds DEF Leaving, LeaverListed, Alone, Moves, At
  <2> QED
      BY <2>1, <2>2, <2>3 DEF Leaving
<1> QED
    BY <1>3, <1>4, <1>5

(* A handler that begins.                                                  *)
LEMMA LeavingBegins ==
    ASSUME Base, Leaving, NEW x \in Procs, Alone(x), At(x, "idle"),
           UNCHANGED <<fws, attached, members>>, x \notin Subs \/ x \in members,
           proc'[x].at \in {"lookup", "find", "unhook", "flush", "detach",
                            "idle"}
    PROVE  Leaving'
<1>1. Attaching(x)' /\ ~At(x, "stop")
      BY DEF Attaching, At
<1> QED
    BY <1>1, LeavingQuiet

LEMMA TurnAlone ==
    ASSUME Base, Turn, ~world.overlap, NEW x \in Procs, Moves(x),
           ~At(x, "idle") \/ Begins(x)
    PROVE  Alone(x)
BY DEF Turn, Alone, Begins, Settled, At

LEMMA LeavingStep ==
    ASSUME Base, Turn, ~world.overlap, Leaving, [Next]_vars
    PROVE  Leaving'
<1>1. CASE \/ UNCHANGED vars
           \/ \E t \in Tracks : OfferMedia(t) \/ ReadReturns(t)
           \/ \E s \in Subs : ServerOffer(s) \/ Connected(s)
  <2>1. UNCHANGED <<fws, attached, members, proc>>
        BY <1>1, BrowserDoes DEF vars
  <2> QED
      BY <2>1 DEF Leaving, AttachedKnown, Attaching, LeaverListed, Registered,
                  At
<1>2. ASSUME NEW x \in Procs, Continue(x)
      PROVE  Leaving'
  <2>1. CASE x \in Tracks /\ TrackRegistered(x)
    <3>1. /\ Quiet /\ At(x, "created") /\ Moves(x) /\ x \notin Subs
          /\ proc'[x].at \in {"idle", "auto"}
          BY <2>1, TrackRegisteredDoes, IdleOK, ProcKinds
    <3>2. Alone(x) /\ Attaching(x)' /\ ~At(x, "stop")
          BY <3>1, TurnAlone DEF Attaching, At
    <3> QED
        BY <3>1, <3>2, LeavingQuiet DEF Quiet
  <2>2. CASE x = Pub /\ (FindForwarder \/ AdoptOrphanForwarder
                         \/ RemoveForwarder \/ MediaReady)
    <3>1. Moves(x) /\ ~At(x, "idle")
          BY <2>2, FindForwarderDoes, AdoptDoes, RemoveForwarderDoes,
             MediaReadyDoes DEF At
    <3> QED
        BY <2>2, <3>1, TurnAlone, LeavingPublisher
  <2>3. CASE x \in Subs /\ (FindSubscribed(x) \/ Decide(x)
                            \/ AttachSubscribedReady(x) \/ Detach(x))
    <3>1. Moves(x) /\ ~At(x, "idle")
          BY <2>3, FindSubscribedDoes, DecideDoes, AttachSubscribedReadyDoes,
             DetachDoes DEF At
    <3> QED
        BY <2>3, <3>1, TurnAlone, LeavingSubscribes
  <2>4. CASE x \in Subs /\ (Snapshot(x) \/ ClosePeerConnection(x))
    <3>1. Moves(x) /\ ~At(x, "idle")
          BY <2>4, SnapshotDoes, ClosePeerConnectionDoes DEF At
    <3> QED
        BY <2>4, <3>1, TurnAlone, LeavingLeaves
  <2>5. CASE x \in Subs /\ (RemoveSubscriber(x) \/ Prune(x))
    <3>1. Moves(x) /\ ~At(x, "idle")
          BY <2>5, RemoveSubscriberDoes, PruneDoes DEF At
    <3> QED
        BY <2>5, <3>1, TurnAlone, LeavingRemoves, LeavingPrunes
  <2>6. CASE Lookup(x) \/ Swap(x) \/ Create(x)
    <3>1. Moves(x) /\ ~At(x, "idle")
          BY <2>6, LookupDoes, SwapDoes, CreateDoes DEF Lookup, At
    <3> QED
        BY <2>6, <3>1, TurnAlone, LeavingInstalls
  <2>7. CASE \/ AutoSubscribe(x) \/ AutoAttach(x)
             \/ x \in Subs /\ AddSubscriber(x)
    <3>1. Moves(x) /\ ~At(x, "idle")
          BY <2>7, AutoSubscribeDoes, AutoAttachDoes, AddSubscriberDoes DEF At
    <3> QED
        BY <2>7, <3>1, TurnAlone, LeavingAttaches
  <2>8. CASE Stop(x)
    <3>1. Moves(x) /\ ~At(x, "idle")
          BY <2>8, StopDoes DEF At
    <3> QED
        BY <2>8, <3>1, TurnAlone, LeavingStops
  <2> QED
      BY <1>2, <2>1, <2>2, <2>3, <2>4, <2>5, <2>6, <2>7, <2>8 DEF Continue
<1>3. ASSUME NEW t \in Tracks,
             HandleTrack(t) \/ HandlePublishTrack(t) \/ HandleUnpublishTrack(t)
      PROVE  Leaving'
  <2>1. PICK x \in {Pub, t} :
           /\ Begins(x) /\ Moves(x)
           /\ proc'[x].at \in {"lookup", "find", "unhook"}
           /\ UNCHANGED <<fws, attached, members>>
        BY <1>3, HandleTrackDoes, HandlePublishTrackDoes,
           HandleUnpublishTrackDoes DEF Starts
  <2>2. x \in Procs /\ x \notin Subs
        BY <2>1, ProcKinds
  <2> QED
      BY <2>1, <2>2, TurnAlone, LeavingBegins DEF Begins
<1>4. ASSUME NEW s \in Subs, HandleLeaveRoom(s)
      PROVE  Leaving'
      BY <1>4, HandleLeaveRoomDoes, TurnAlone, LeavingLeaves, ProcKinds
<1>5. ASSUME NEW s \in Subs,
             \/ Exchanged(s)
             \/ \E t \in Tracks : \/ HandleSubscribeTrack(s, t)
                                  \/ HandleUnsubscribeTrack(s, t)
      PROVE  Leaving'
  <2>1. /\ Begins(s) /\ Moves(s) /\ s \in members
        /\ proc'[s].at \in {"flush", "idle", "find", "detach"}
        /\ UNCHANGED <<fws, attached, members>>
    <3>1. CASE Exchanged(s)
          BY <3>1, ExchangedDoes, IdleOK DEF GoesOn
    <3>2. CASE \E t \in Tracks : \/ HandleSubscribeTrack(s, t)
                                 \/ HandleUnsubscribeTrack(s, t)
          BY <3>2, HandleSubscribeTrackDoes, HandleUnsubscribeTrackDoes
          DEF Starts
    <3> QED
        BY <1>5, <3>1, <3>2
  <2> QED
      BY <2>1, TurnAlone, LeavingBegins, ProcKinds DEF Begins
<1> QED
    BY <1>1, <1>2, <1>3, <1>4, <1>5 DEF Next

(* Leaving detaches a participant from every forwarder, however many there *)
(* are and whatever they were pruned for meanwhile: where participants     *)
(* leave, handlers run in turn, as between removeSubscriberFromAllForwar-  *)
(* ders and Close an automatic attachment under way could attach again.    *)
THEOREM LeaversDetached ==
    ASSUME \A w \in Worlds : "leave" \in w.ops => ~w.overlap
    PROVE  Spec => []LeaverDetached
<1> DEFINE Inv == Base /\ Turn /\ (~world.overlap => Leaving)
<1>1. Init => Inv
  <2>1. Init => (Base /\ Turn)
        BY BaseInit, IdleOK DEF Init, Turn, At
  <2>2. Init => Leaving
        BY IdleOK, RegistryAssumption
        DEF Init, Leaving, AttachedKnown, Attaching, LeaverListed, At
  <2> QED
      BY <2>1, <2>2
<1>2. Inv /\ [Next]_vars => Inv'
      BY BaseStep, TurnStep, LeavingStep, WhoMoves
<1>3. Inv => LeaverDetached
  <2> SUFFICES ASSUME Inv, NEW s \in world.subs \ pcs, NEW k \in Forwarders
               PROVE  s \notin attached[k]
      BY DEF LeaverDetached
  <2>1. world \in Worlds /\ members \subseteq pcs /\ s \in Subs \ members
        BY RegistryAssumption DEF Base, TypeOK, RegistryAssumption
  <2>2. "leave" \in world.ops
        BY <2>1 DEF Base, Stages
  <2>3. Leaving /\ At(s, "idle")
        BY <2>1, <2>2 DEF Base, Stages
  <2> QED
      BY <2>1, <2>3 DEF Leaving, LeaverListed, At
<1> QED
    BY <1>1, <1>2, <1>3, PTL DEF Spec
-----------------------------------------------------------------------------
(* One reader. *)

(* The tracks a browser sends can be told apart by their kind, as in the   *)
(* one microphone and one camera of the clients, and the ID of the media   *)
(* is the signaled ID or no signaled ID at all.                            *)
Distinct(w) ==
    \A t, u \in DOMAIN w.wire :
        /\ Kind[t] = Kind[u] => t = u
        /\ w.wire[t] \in Tracks => w.wire[t] = t

(* What is in the map with real media is read, and is under the signaled   *)
(* ID of the track or under that of its media.                             *)
MapOK ==
    \A i \in IDs : Remote(fws[i]) =>
        /\ fws[i] \in running /\ source[fws[i]] \in DOMAIN world.wire
        /\ i \in {source[fws[i]], world.wire[source[fws[i]]]}

(* What is to be stopped is not in the map, and what is to be swapped is   *)
(* there under the ID it was found by, if at all.                          *)
HandOK(y) ==
    /\ At(y, "stop") =>
          \A i \in IDs : fws[i] # NoFw => fws[i] # proc[y].fw
    /\ At(y, "swap") =>
          \A i \in IDs : fws[i] = proc[y].fw => i = proc[y].id

(* The IDs and the media that each process deals with.                     *)
Placed(y) ==
    /\ y = Pub =>
          /\ proc[y].at \in Installs \cup {"find", "adopt", "unhook", "stop"}
                => proc[y].id \in DOMAIN world.wire
          /\ proc[y].at \in Installs \cup {"unhook", "stop"}
                => proc[y].src \in {proc[y].id, Placeholder}
          /\ proc[y].at \in {"find", "adopt"} => proc[y].src = Placeholder
    /\ y \in Tracks /\ proc[y].at \in Installs =>
          y \in DOMAIN world.wire /\ proc[y].id \in {y, world.wire[y]}
    /\ y \in Subs /\ "leave" \notin world.ops =>
          /\ proc[y].at \in {"detach", "prune"} => proc[y].id \in Tracks
          /\ proc[y].at \in {"remove", "prune", "stop"} =>
                \A e \in proc[y].todo : e[1] \in Tracks

PlacesOK == \A y \in Procs : Placed(y)

LEMMA PlacesMove ==
    ASSUME PlacesOK, NEW x \in Procs, Moves(x), UNCHANGED world, Placed(x)'
    PROVE  PlacesOK'
BY DEF PlacesOK, Placed, Moves

(* The media the publisher adopts is that of the track it publishes.       *)
LEMMA OrphanIsOwn ==
    ASSUME Base, MapOK, PlacesOK, Distinct(world), At(Pub, "adopt"),
           NEW i \in Orphans(proc[Pub].id)
    PROVE  /\ source[fws[i]] = proc[Pub].id /\ fws[i] \in running
           /\ proc[Pub].id \in DOMAIN world.wire
           /\ i = world.wire[proc[Pub].id] /\ i # proc[Pub].id
<1>1. /\ i \in IDs /\ i # proc[Pub].id /\ Remote(fws[i])
      /\ Kind[source[fws[i]]] = Kind[proc[Pub].id]
      BY DEF Orphans
<1>2. proc[Pub].id \in DOMAIN world.wire
      BY ProcKinds DEF PlacesOK, Placed, At
<1> QED
    BY <1>1, <1>2 DEF MapOK, Distinct

(* Media that arrives is given the signaled ID or keeps its own.           *)
LEMMA ResolvedIsOwn ==
    ASSUME Base, Distinct(world), NEW t \in DOMAIN world.wire,
           NEW i \in Resolved(t)
    PROVE  i \in {t, world.wire[t]}
BY DEF Resolved, Distinct, Base, Stages

LEMMA PlacesInstalls ==
    ASSUME Base, PlacesOK, NEW x \in Procs,
           \/ Lookup(x) \/ Swap(x) \/ Create(x)
           \/ AutoSubscribe(x) \/ AutoAttach(x)
    PROVE  PlacesOK'
<1>1. CASE Lookup(x)
  <2>1. /\ Quiet /\ Moves(x) /\ proc[x].at \in Installs
        /\ proc'[x].id = proc[x].id /\ proc'[x].src = proc[x].src
        /\ proc'[x].at \in {"create", "swap"}
        BY <1>1, LookupDoes DEF Lookup, At, Installs
  <2>2. Placed(x)'
        BY <2>1 DEF PlacesOK, Placed, Quiet, Installs
  <2> QED
      BY <2>1, <2>2, PlacesMove DEF Quiet
<1>2. CASE Swap(x) \/ Create(x)
  <2>1. Moves(x) /\ proc'[x].at = "created" /\ UNCHANGED world
        BY <1>2, SwapDoes, CreateDoes
  <2>2. Placed(x)'
        BY <2>1 DEF Placed, Installs
  <2> QED
      BY <2>1, <2>2, PlacesMove
<1>3. CASE AutoSubscribe(x) \/ AutoAttach(x)
  <2>1. /\ Moves(x) /\ UNCHANGED world /\ x \notin Subs
        /\ proc'[x].at \in {"attach", "idle", "close"}
        BY <1>3, AutoSubscribeDoes, AutoAttachDoes, IdleOK DEF GoesOn, Quiet
  <2>2. Placed(x)'
        BY <2>1 DEF Placed, Installs
  <2> QED
      BY <2>1, <2>2, PlacesMove
<1> QED
    BY <1>1, <1>2, <1>3

LEMMA PlacesPublisher ==
    ASSUME Base, MapOK, PlacesOK, Distinct(world),
           \/ FindForwarder \/ AdoptOrphanForwarder \/ RemoveForwarder
           \/ MediaReady \/ Stop(Pub)
           \/ \E t \in Tracks : HandlePublishTrack(t) \/ HandleUnpublishTrack(t)
    PROVE  PlacesOK'
<1>1. Pub \in Procs /\ Pub \notin Subs /\ Pub \notin Tracks /\ Placed(Pub)
      BY ProcKinds DEF PlacesOK
<1>2. CASE FindForwarder
  <2>1. /\ Quiet /\ Moves(Pub) /\ proc[Pub].at = "find"
        /\ proc'[Pub].id = proc[Pub].id /\ proc'[Pub].src = proc[Pub].src
        /\ proc'[Pub].at \in {"adopt", "created"}
        BY <1>2, FindForwarderDoes DEF Keeps, At
  <2>2. Placed(Pub)'
        BY <1>1, <2>1 DEF Placed, Quiet, Installs
  <2> QED
      BY <1>1, <2>1, <2>2, PlacesMove DEF Quiet
<1>3. CASE AdoptOrphanForwarder
  <2>1. /\ Quiet /\ Moves(Pub) /\ At(Pub, "adopt")
        /\ proc'[Pub].id = proc[Pub].id
        /\ \/ proc'[Pub].at = "lookup" /\ proc'[Pub].src = proc[Pub].src
           \/ \E i \in Orphans(proc[Pub].id) :
                 proc'[Pub].at = "unhook" /\ proc'[Pub].src = source[fws[i]]
        BY <1>3, AdoptDoes
  <2>2. \/ proc'[Pub].at = "lookup" /\ proc'[Pub].src = proc[Pub].src
        \/ proc'[Pub].at = "unhook" /\ proc'[Pub].src = proc[Pub].id
        BY <2>1, OrphanIsOwn
  <2>3. Placed(Pub)'
        BY <1>1, <2>1, <2>2 DEF Placed, Quiet, Installs, At
  <2> QED
      BY <1>1, <2>1, <2>3, PlacesMove DEF Quiet
<1>4. CASE RemoveForwarder
  <2>1. /\ Moves(Pub) /\ proc[Pub].at = "unhook" /\ proc'[Pub].at = "stop"
        /\ proc'[Pub].id = proc[Pub].id /\ proc'[Pub].src = proc[Pub].src
        /\ UNCHANGED world
        BY <1>4, RemoveForwarderDoes DEF At
  <2>2. Placed(Pub)'
        BY <1>1, <2>1 DEF Placed, Installs
  <2> QED
      BY <1>1, <2>1, <2>2, PlacesMove
<1>5. CASE MediaReady
  <2>1. Moves(Pub) /\ UNCHANGED world /\ proc'[Pub].at \in {"idle", "auto"}
        BY <1>5, MediaReadyDoes, IdleOK DEF Quiet
  <2>2. Placed(Pub)'
        BY <1>1, <2>1 DEF Placed, Installs
  <2> QED
      BY <1>1, <2>1, <2>2, PlacesMove
<1>6. CASE Stop(Pub)
  <2>1. /\ Moves(Pub) /\ proc[Pub].at = "stop" /\ UNCHANGED world
        /\ \/ /\ proc'[Pub].at = "lookup"
              /\ proc'[Pub].id = proc[Pub].id /\ proc'[Pub].src = proc[Pub].src
           \/ proc'[Pub].at = "idle"
        BY <1>1, <1>6, StopDoes, IdleOK DEF At, Keeps
  <2>2. Placed(Pub)'
        BY <1>1, <2>1 DEF Placed, Installs
  <2> QED
      BY <1>1, <2>1, <2>2, PlacesMove
<1>7. ASSUME NEW t \in Tracks, HandlePublishTrack(t) \/ HandleUnpublishTrack(t)
      PROVE  PlacesOK'
  <2>1. /\ Moves(Pub) /\ UNCHANGED world /\ t \in DOMAIN world.wire
        /\ proc'[Pub].at \in {"find", "unhook"}
        /\ proc'[Pub].id = t /\ proc'[Pub].src = Placeholder
        BY <1>7, HandlePublishTrackDoes, HandleUnpublishTrackDoes DEF Starts
  <2>2. Placed(Pub)'
        BY <1>1, <2>1 DEF Placed, Installs
  <2> QED
      BY <1>1, <2>1, <2>2, PlacesMove
<1> QED
    BY <1>2, <1>3, <1>4, <1>5, <1>6, <1>7

LEMMA PlacesTrack ==
    ASSUME Base, PlacesOK, Distinct(world), NEW t \in Tracks,
           HandleTrack(t) \/ TrackRegistered(t)
    PROVE  PlacesOK'
<1>1. t \in Procs /\ t # Pub /\ t \notin Subs
      BY ProcKinds
<1>2. CASE HandleTrack(t)
  <2>1. media[t] = "coming" /\ UNCHANGED world
        BY <1>2, HandleTrackDoes
  <2>2. PICK i \in Resolved(t) : Starts(t, "lookup", i, t, {})
        BY <1>2, HandleTrackDoes
  <2>3. t \in DOMAIN world.wire
        BY <2>1 DEF Base, Stages
  <2>4. i \in {t, world.wire[t]}
        BY <2>3, ResolvedIsOwn
  <2>5. Placed(t)'
        BY <1>1, <2>1, <2>2, <2>3, <2>4 DEF Placed, Starts
  <2> QED
      BY <1>1, <2>1, <2>2, <2>5, PlacesMove DEF Starts
<1>3. CASE TrackRegistered(t)
  <2>1. Moves(t) /\ UNCHANGED world /\ proc'[t].at \in {"idle", "auto"}
        BY <1>3, TrackRegisteredDoes, IdleOK DEF Quiet
  <2>2. Placed(t)'
        BY <1>1, <2>1 DEF Placed, Installs
  <2> QED
      BY <1>1, <2>1, <2>2, PlacesMove
<1> QED
    BY <1>2, <1>3

LEMMA PlacesLoops ==
    ASSUME Base, PlacesOK, NEW s \in Subs,
           \/ Detach(s) \/ Snapshot(s) \/ RemoveSubscriber(s) \/ Prune(s)
           \/ Stop(s)
    PROVE  PlacesOK'
<1>1. /\ s \in Procs /\ s # Pub /\ s \notin Tracks /\ Placed(s)
      /\ ProcOK(s, proc[s])
      BY ProcKinds DEF PlacesOK, Base, ProcsOK
<1>2. CASE Detach(s)
  <2>1. /\ Moves(s) /\ UNCHANGED world /\ proc[s].at = "detach"
        /\ GoesOn(s, "remove", {e \in {<<proc[s].id, fws[proc[s].id]>>} :
                                   e[2] # NoFw})
        BY <1>2, DetachDoes DEF Quiet, At
  <2>2. "leave" \notin world.ops => proc[s].id \in Tracks
        BY <1>1, <2>1 DEF Placed
  <2>3. \/ proc'[s].at \in {"close", "idle"}
        \/ /\ proc'[s].at = "remove"
           /\ \A e \in proc'[s].todo : e[1] = proc[s].id
        BY <2>1, IdleOK DEF GoesOn
  <2>4. Placed(s)'
        BY <1>1, <2>1, <2>2, <2>3 DEF Placed
  <2> QED
      BY <1>1, <2>1, <2>4, PlacesMove
<1>3. CASE Snapshot(s)
  <2>1. Moves(s) /\ UNCHANGED world /\ At(s, "snapshot")
        BY <1>3, SnapshotDoes DEF Quiet
  <2>2. "leave" \in world.ops
        BY <2>1 DEF Base, Stages, At
  <2>3. Placed(s)'
        BY <1>1, <2>1, <2>2 DEF Placed
  <2> QED
      BY <1>1, <2>1, <2>3, PlacesMove
<1>4. CASE RemoveSubscriber(s)
  <2>1. /\ Moves(s) /\ UNCHANGED world /\ proc[s].at = "remove"
        BY <1>4, RemoveSubscriberDoes DEF At
  <2>2. PICK e \in proc[s].todo :
           \/ /\ proc'[s].at = "prune" /\ proc'[s].id = e[1]
              /\ proc'[s].todo = proc[s].todo \ {e}
           \/ GoesOn(s, "remove", proc[s].todo \ {e})
        BY <1>4, RemoveSubscriberDoes
  <2>3. "leave" \notin world.ops => \A d \in proc[s].todo : d[1] \in Tracks
        BY <1>1, <2>1 DEF Placed
  <2>4. \/ proc'[s].at \in {"close", "idle"}
        \/ /\ proc'[s].at = "remove"
           /\ proc'[s].todo \subseteq proc[s].todo
        \/ /\ proc'[s].at = "prune" /\ proc'[s].id = e[1]
           /\ proc'[s].todo \subseteq proc[s].todo
        BY <2>2, IdleOK DEF GoesOn
  <2>5. Placed(s)'
        BY <1>1, <2>1, <2>3, <2>4 DEF Placed
  <2> QED
      BY <1>1, <2>1, <2>5, PlacesMove
<1>5. CASE Prune(s) \/ Stop(s)
  <2>1. /\ Moves(s) /\ UNCHANGED world /\ proc[s].at \in {"prune", "stop"}
        /\ \/ proc'[s].at \in {"close", "idle"}
           \/ /\ proc'[s].at \in {"remove", "stop"}
              /\ proc'[s].todo = proc[s].todo
        BY <1>1, <1>5, PruneDoes, StopDoes, IdleOK DEF At, GoesOn
  <2>2. "leave" \notin world.ops => \A d \in proc[s].todo : d[1] \in Tracks
        BY <1>1, <2>1 DEF Placed
  <2>3. Placed(s)'
        BY <1>1, <2>1, <2>2 DEF Placed
  <2> QED
      BY <1>1, <2>1, <2>3, PlacesMove
<1> QED
    BY <1>2, <1>3, <1>4, <1>5

LEMMA PlacesSubscriber ==
    ASSUME Base, PlacesOK, NEW s \in Subs,
           \/ FindSubscribed(s) \/ Decide(s) \/ AddSubscriber(s)
           \/ AttachSubscribedReady(s) \/ ClosePeerConnection(s)
           \/ Exchanged(s) \/ HandleLeaveRoom(s)
           \/ \E t \in Tracks : \/ HandleSubscribeTrack(s, t)
                                \/ HandleUnsubscribeTrack(s, t)
    PROVE  PlacesOK'
<1>1. /\ s \in Procs /\ s # Pub /\ s \notin Tracks
      BY ProcKinds
<1>2. SUFFICES
         /\ Moves(s) /\ UNCHANGED world
         /\ \/ proc'[s].at \in {"idle", "lookup", "created", "add", "flush",
                                "close", "find"}
            \/ proc'[s].at = "detach" /\ proc'[s].id \in Tracks
            \/ "leave" \in world.ops
  <2>1. Placed(s)'
        BY <1>1, <1>2 DEF Placed
  <2> QED
      BY <1>1, <1>2, <2>1, PlacesMove
<1>3. CASE FindSubscribed(s) \/ Decide(s) \/ AddSubscriber(s)
      BY <1>3, FindSubscribedDoes, DecideDoes, AddSubscriberDoes, IdleOK
      DEF GoesOn, Quiet
<1>4. CASE AttachSubscribedReady(s) \/ ClosePeerConnection(s) \/ Exchanged(s)
      BY <1>4, AttachSubscribedReadyDoes, ClosePeerConnectionDoes,
         ExchangedDoes, IdleOK DEF GoesOn, Quiet
<1>5. CASE \/ HandleLeaveRoom(s)
           \/ \E t \in Tracks : \/ HandleSubscribeTrack(s, t)
                                \/ HandleUnsubscribeTrack(s, t)
      BY <1>5, HandleLeaveRoomDoes, HandleSubscribeTrackDoes,
         HandleUnsubscribeTrackDoes DEF Starts
<1> QED
    BY <1>3, <1>4, <1>5

LEMMA PlacesStep ==
    ASSUME Base, MapOK, PlacesOK, Distinct(world), [Next]_vars
    PROVE  PlacesOK'
<1>1. CASE \/ UNCHANGED vars
           \/ \E t \in Tracks : OfferMedia(t) \/ ReadReturns(t)
           \/ \E s \in Subs : ServerOffer(s) \/ Connected(s)
  <2>1. UNCHANGED <<world, proc>>
        BY <1>1, BrowserDoes DEF vars
  <2> QED
      BY <2>1 DEF PlacesOK, Placed
<1>2. ASSUME NEW x \in Procs, Continue(x)
      PROVE  PlacesOK'
  <2>1. CASE \/ Lookup(x) \/ Swap(x) \/ Create(x) \/ AutoSubscribe(x)
             \/ AutoAttach(x)
        BY <2>1, PlacesInstalls
  <2>2. CASE Stop(x)
        BY <2>2, StopDoes, PlacesPublisher, PlacesLoops, ProcKinds
  <2>3. CASE x \in Tracks /\ TrackRegistered(x)
        BY <2>3, PlacesTrack
  <2>4. CASE x = Pub /\ (FindForwarder \/ AdoptOrphanForwarder
                         \/ RemoveForwarder \/ MediaReady)
        BY <2>4, PlacesPublisher
  <2>5. CASE x \in Subs /\ (Detach(x) \/ Snapshot(x) \/ RemoveSubscriber(x)
                            \/ Prune(x))
        BY <2>5, PlacesLoops
  <2>6. CASE x \in Subs /\ (FindSubscribed(x) \/ Decide(x) \/ AddSubscriber(x)
                            \/ AttachSubscribedReady(x)
                            \/ ClosePeerConnection(x))
        BY <2>6, PlacesSubscriber
  <2> QED
      BY <1>2, <2>1, <2>2, <2>3, <2>4, <2>5, <2>6 DEF Continue
<1>3. ASSUME NEW t \in Tracks,
             HandleTrack(t) \/ HandlePublishTrack(t) \/ HandleUnpublishTrack(t)
      PROVE  PlacesOK'
      BY <1>3, PlacesTrack, PlacesPublisher
<1>4. ASSUME NEW s \in Subs,
             \/ Exchanged(s) \/ HandleLeaveRoom(s)
             \/ \E t \in Tracks : \/ HandleSubscribeTrack(s, t)
                                  \/ HandleUnsubscribeTrack(s, t)
      PROVE  PlacesOK'
      BY <1>4, PlacesSubscriber
<1> QED
    BY <1>1, <1>2, <1>3, <1>4 DEF Next

(* What a step does to the forwarders and to who holds media: nothing, or  *)
(* less, ...                                                               *)
Still == UNCHANGED <<world, fws, source, running>>

Browses ==
    /\ Still /\ UNCHANGED proc
    /\ \A t \in Tracks : \/ media'[t] = media[t]
                         \/ media[t] = "none" /\ media'[t] = "coming"

Drops(x) ==
    /\ Still /\ Moves(x)
    /\ proc'[x].src \in {proc[x].src, Placeholder}
    /\ proc'[x].at \notin {"swap", "stop"}
    /\ proc'[x].at \notin Installs \cup {"unhook"} \/ proc'[x].src = Placeholder
    /\ \A t \in Tracks : \/ media'[t] = media[t]
                         \/ media[t] = "here" /\ media'[t] = "ended"

(* ... the publisher takes over the media under another ID ...             *)
Adopts(i) ==
    /\ Still /\ UNCHANGED media /\ Moves(Pub)
    /\ At(Pub, "adopt") /\ i \in Orphans(proc[Pub].id)
    /\ proc'[Pub].at = "unhook" /\ proc'[Pub].id = proc[Pub].id
    /\ proc'[Pub].src = source[fws[i]] /\ proc'[Pub].todo = {<<i, NoFw>>}

(* ... a forwarder gets its media, or is made ...                          *)
Fills(x, k) ==
    /\ proc[x].src \in Tracks /\ ~Remote(k)
    /\ \A i \in IDs : fws[i] = k => i = proc[x].id
    /\ source' = [source EXCEPT ![k] = proc[x].src]
    /\ running' = running \cup {k} /\ UNCHANGED fws

Brings(x, k) ==
    /\ Moves(x) /\ UNCHANGED <<world, media>> /\ k \in Forwarders
    /\ proc[x].at \in {"create", "swap"} /\ proc'[x].at = "created"
    /\ proc'[x].id = proc[x].id /\ proc'[x].src = proc[x].src
    /\ proc[x].id \in IDs
    /\ Fills(x, k) \/ Installed(x, k)

(* ... is taken out of the map, or is stopped.                             *)
Unhooks(x, i) ==
    /\ Moves(x) /\ UNCHANGED <<world, source, running, media>>
    /\ fws' = [fws EXCEPT ![i] = NoFw]
    /\ proc'[x].at = "stop" /\ proc'[x].fw = fws[i]
    /\ proc'[x].id = proc[x].id /\ proc'[x].src = proc[x].src
    /\ \/ x = Pub /\ At(x, "unhook") /\ proc[x].todo = {<<i, NoFw>>}
       \/ x \in Subs /\ At(x, "prune") /\ i = proc[x].id

Stops(x) ==
    /\ At(x, "stop") /\ Moves(x) /\ UNCHANGED <<world, fws, source, media>>
    /\ running' = running \ {proc[x].fw}
    /\ \/ x = Pub /\ proc'[x].at = "lookup" /\ Keeps(x)
       \/ /\ proc'[x].at \in {"idle", "remove", "close"}
          /\ proc'[x].src \in {proc[x].src, Placeholder}

StepKind ==
    \/ Browses
    \/ \E x \in Procs : Lookup(x) \/ Drops(x) \/ Stops(x)
    \/ \E t \in Tracks : HandleTrack(t)
    \/ \E i \in IDs : Adopts(i)
    \/ \E x \in Procs, k \in Forwarders : Brings(x, k)
    \/ \E x \in Procs, i \in IDs : Unhooks(x, i)

LEMMA SwapKind ==
    ASSUME Base, NEW x \in Procs, HandOK(x), Swap(x)
    PROVE  StepKind
<1>1. /\ Moves(x) /\ Keeps(x) /\ At(x, "swap") /\ proc'[x].at = "created"
      /\ proc[x].fw \in Forwarders /\ UNCHANGED <<world, fws, media>>
      /\ \/ /\ proc[x].src \in Tracks /\ ~Remote(proc[x].fw)
            /\ source' = [source EXCEPT ![proc[x].fw] = proc[x].src]
            /\ running' = running \cup {proc[x].fw}
         \/ UNCHANGED <<source, running>>
      BY SwapDoes
<1>2. CASE UNCHANGED <<source, running>>
  <2>1. Drops(x)
        BY <1>1, <1>2 DEF Drops, Still, Keeps, Installs
  <2> QED
      BY <2>1 DEF StepKind
<1>3. CASE /\ proc[x].src \in Tracks /\ ~Remote(proc[x].fw)
           /\ source' = [source EXCEPT ![proc[x].fw] = proc[x].src]
           /\ running' = running \cup {proc[x].fw}
  <2>1. ProcOK(x, proc[x])
        BY DEF Base, ProcsOK
  <2>2. proc[x].id \in IDs
        BY <1>1, <2>1 DEF ProcOK, At, Installs
  <2>3. Fills(x, proc[x].fw)
        BY <1>1, <1>3 DEF Fills, HandOK
  <2>4. Brings(x, proc[x].fw)
        BY <1>1, <2>2, <2>3 DEF Brings, Keeps, At
  <2> QED
      BY <1>1, <2>4 DEF StepKind
<1> QED
    BY <1>1, <1>2, <1>3

LEMMA CreateKind ==
    ASSUME Base, NEW x \in Procs, Create(x)
    PROVE  StepKind
<1> DEFINE k == proc'[x].fw
<1>1. /\ Moves(x) /\ At(x, "create") /\ proc[x].id \in IDs
      /\ proc'[x].id = proc[x].id /\ proc'[x].src = proc[x].src
      /\ proc'[x].at = "created" /\ k \in Forwarders
      /\ Installed(x, k) \/ Found(x, k)
      /\ UNCHANGED <<world, media>>
      BY CreateDoes
<1>2. CASE Installed(x, k)
  <2>1. Brings(x, k)
        BY <1>1, <1>2 DEF Brings, At
  <2> QED
      BY <1>1, <2>1 DEF StepKind
<1>3. CASE Found(x, k) /\ UNCHANGED <<source, running>>
  <2>1. Drops(x)
        BY <1>1, <1>3 DEF Drops, Still, Found, Installs
  <2> QED
      BY <2>1 DEF StepKind
<1>4. CASE Found(x, k) /\ ~ UNCHANGED <<source, running>>
  <2>1. /\ proc[x].src \in Tracks /\ ~Remote(k) /\ fws[proc[x].id] = k
        /\ source' = [source EXCEPT ![k] = proc[x].src]
        /\ running' = running \cup {k} /\ UNCHANGED fws
        BY <1>4 DEF Found
  <2>2. k # NoFw
        BY <1>1, RegistryAssumption DEF Forwarders, NoFw, RegistryAssumption
  <2>3. \A i \in IDs : fws[i] = k => i = proc[x].id
        BY <1>1, <2>1, <2>2 DEF Base, ForwardersOK
  <2>4. Brings(x, k)
        BY <1>1, <2>1, <2>3 DEF Brings, Fills, At
  <2> QED
      BY <1>1, <2>4 DEF StepKind
<1> QED
    BY <1>1, <1>2, <1>3, <1>4

LEMMA PublisherKind ==
    ASSUME Base, PlacesOK,
           \/ FindForwarder \/ AdoptOrphanForwarder \/ RemoveForwarder
           \/ MediaReady
           \/ \E t \in Tracks : HandlePublishTrack(t) \/ HandleUnpublishTrack(t)
    PROVE  StepKind
<1>1. Pub \in Procs /\ Placed(Pub)
      BY ProcKinds DEF PlacesOK
<1>2. CASE FindForwarder
  <2>1. Drops(Pub)
        BY <1>2, FindForwarderDoes
        DEF Drops, Still, Quiet, Keeps, Installs
  <2> QED
      BY <1>1, <2>1 DEF StepKind
<1>3. CASE AdoptOrphanForwarder
  <2>1. /\ Quiet /\ Moves(Pub) /\ At(Pub, "adopt")
        /\ proc'[Pub].id = proc[Pub].id
        /\ \/ proc'[Pub].at = "lookup" /\ proc'[Pub].src = proc[Pub].src
           \/ \E i \in Orphans(proc[Pub].id) :
                 /\ proc'[Pub].at = "unhook"
                 /\ proc'[Pub].src = source[fws[i]]
                 /\ proc'[Pub].todo = {<<i, NoFw>>}
        BY <1>3, AdoptDoes
  <2>2. CASE proc'[Pub].at = "lookup" /\ proc'[Pub].src = proc[Pub].src
    <3>1. proc[Pub].src = Placeholder
          BY <1>1, <2>1 DEF Placed, At
    <3>2. Drops(Pub)
          BY <2>1, <2>2, <3>1 DEF Drops, Still, Quiet
    <3> QED
        BY <1>1, <3>2 DEF StepKind
  <2>3. ASSUME NEW i \in Orphans(proc[Pub].id), proc'[Pub].at = "unhook",
               proc'[Pub].src = source[fws[i]],
               proc'[Pub].todo = {<<i, NoFw>>}
        PROVE  StepKind
    <3>1. Adopts(i) /\ i \in IDs
          BY <2>1, <2>3 DEF Adopts, Still, Quiet, Orphans
    <3> QED
        BY <3>1 DEF StepKind
  <2> QED
      BY <2>1, <2>2, <2>3
<1>4. CASE RemoveForwarder
  <2>1. PICK i \in IDs : Unhooks(Pub, i)
        BY <1>4, RemoveForwarderDoes DEF Unhooks
  <2> QED
      BY <1>1, <2>1 DEF StepKind
<1>5. CASE MediaReady
  <2>1. Drops(Pub)
        BY <1>5, MediaReadyDoes, IdleOK
        DEF Drops, Still, Quiet, Keeps, Installs
  <2> QED
      BY <1>1, <2>1 DEF StepKind
<1>6. ASSUME NEW t \in Tracks, HandlePublishTrack(t) \/ HandleUnpublishTrack(t)
      PROVE  StepKind
  <2>1. CASE HandlePublishTrack(t)
    <3>1. Drops(Pub)
          BY <2>1, HandlePublishTrackDoes DEF Drops, Still, Starts
    <3> QED
        BY <1>1, <3>1 DEF StepKind
  <2>2. CASE HandleUnpublishTrack(t)
    <3>1. /\ Still /\ Moves(Pub) /\ proc'[Pub].at = "unhook"
          /\ proc'[Pub].src = Placeholder
          /\ media' = [media EXCEPT ![t] = IF @ = "here" THEN "ended" ELSE @]
          BY <2>2, HandleUnpublishTrackDoes DEF Still, Starts
    <3>2. \A u \in Tracks : \/ media'[u] = media[u]
                            \/ media[u] = "here" /\ media'[u] = "ended"
          BY <3>1 DEF Base, TypeOK
    <3>3. Drops(Pub)
          BY <3>1, <3>2 DEF Drops
    <3> QED
        BY <1>1, <3>3 DEF StepKind
  <2> QED
      BY <1>6, <2>1, <2>2
<1> QED
    BY <1>2, <1>3, <1>4, <1>5, <1>6

LEMMA SubscriberKind ==
    ASSUME Base, NEW s \in Subs,
           \/ FindSubscribed(s) \/ Decide(s) \/ AddSubscriber(s)
           \/ AttachSubscribedReady(s) \/ Detach(s) \/ Snapshot(s)
           \/ RemoveSubscriber(s) \/ ClosePeerConnection(s)
           \/ Exchanged(s) \/ HandleLeaveRoom(s)
           \/ \E t \in Tracks : \/ HandleSubscribeTrack(s, t)
                                \/ HandleUnsubscribeTrack(s, t)
    PROVE  StepKind
<1>1. s \in Procs /\ proc[s].src = Placeholder
      BY ProcKinds DEF Base, ProcsOK, ProcOK
<1>2. SUFFICES
         /\ Still /\ UNCHANGED media /\ Moves(s) /\ proc'[s].src = Placeholder
         /\ proc'[s].at \notin {"swap", "stop"}
  <2>1. Drops(s)
        BY <1>1, <1>2 DEF Drops
  <2> QED
      BY <1>1, <2>1 DEF StepKind
<1>3. CASE FindSubscribed(s) \/ Decide(s) \/ AddSubscriber(s)
      BY <1>1, <1>3, FindSubscribedDoes, DecideDoes, AddSubscriberDoes, IdleOK
      DEF GoesOn, Quiet, Still, Keeps
<1>4. CASE AttachSubscribedReady(s)
      BY <1>1, <1>4, AttachSubscribedReadyDoes, IdleOK
      DEF GoesOn, Quiet, Still, Keeps
<1>5. CASE Detach(s) \/ Snapshot(s)
      BY <1>1, <1>5, DetachDoes, SnapshotDoes, IdleOK
      DEF GoesOn, Quiet, Still, Keeps
<1>6. CASE RemoveSubscriber(s)
      BY <1>1, <1>6, RemoveSubscriberDoes, IdleOK DEF GoesOn, Still, Keeps
<1>7. CASE ClosePeerConnection(s) \/ Exchanged(s) \/ HandleLeaveRoom(s)
      BY <1>1, <1>7, ClosePeerConnectionDoes, ExchangedDoes,
         HandleLeaveRoomDoes, IdleOK DEF GoesOn, Still, Keeps
<1>8. CASE \E t \in Tracks : \/ HandleSubscribeTrack(s, t)
                             \/ HandleUnsubscribeTrack(s, t)
      BY <1>8, HandleSubscribeTrackDoes, HandleUnsubscribeTrackDoes
      DEF Starts, Still
<1> QED
    BY <1>3, <1>4, <1>5, <1>6, <1>7, <1>8

LEMMA LoopKind ==
    ASSUME Base, NEW x \in Procs, Stop(x) \/ (x \in Subs /\ Prune(x))
    PROVE  StepKind
<1>1. CASE Stop(x)
  <2>1. /\ At(x, "stop") /\ Moves(x) /\ UNCHANGED <<world, fws, source, media>>
        /\ running' = running \ {proc[x].fw}
        /\ \/ x = Pub /\ proc'[x].at = "lookup" /\ Keeps(x)
           \/ proc'[x] = Idle
           \/ x \in Subs /\ GoesOn(x, "remove", proc[x].todo)
        BY <1>1, StopDoes
  <2>2. Stops(x)
        BY <2>1, IdleOK DEF Stops, GoesOn, Keeps
  <2> QED
      BY <2>2 DEF StepKind
<1>2. CASE x \in Subs /\ Prune(x)
  <2>1. /\ Moves(x) /\ At(x, "prune") /\ proc[x].id \in IDs
        /\ UNCHANGED <<world, source, running, media>>
        /\ \/ /\ fws[proc[x].id] = proc[x].fw
              /\ fws' = [fws EXCEPT ![proc[x].id] = NoFw]
              /\ Keeps(x) /\ proc'[x].at = "stop"
           \/ UNCHANGED fws /\ GoesOn(x, "remove", proc[x].todo)
        BY <1>2, PruneDoes
  <2>2. CASE /\ fws[proc[x].id] = proc[x].fw
             /\ fws' = [fws EXCEPT ![proc[x].id] = NoFw]
             /\ Keeps(x) /\ proc'[x].at = "stop"
    <3>1. Unhooks(x, proc[x].id)
          BY <1>2, <2>1, <2>2 DEF Unhooks, Keeps
    <3> QED
        BY <2>1, <3>1 DEF StepKind
  <2>3. CASE UNCHANGED fws /\ GoesOn(x, "remove", proc[x].todo)
    <3>1. Drops(x)
          BY <2>1, <2>3, IdleOK DEF Drops, Still, GoesOn, Keeps, Installs
    <3> QED
        BY <3>1 DEF StepKind
  <2> QED
      BY <2>1, <2>2, <2>3
<1> QED
    BY <1>1, <1>2

LEMMA StepKinds ==
    ASSUME Base, PlacesOK, \A y \in Procs : HandOK(y), [Next]_vars
    PROVE  StepKind
<1>1. CASE \/ UNCHANGED vars
           \/ \E t \in Tracks : OfferMedia(t) \/ ReadReturns(t)
           \/ \E s \in Subs : ServerOffer(s) \/ Connected(s)
  <2>1. Browses
        BY <1>1, BrowserDoes DEF vars, Browses, Still
  <2> QED
      BY <2>1 DEF StepKind
<1>2. ASSUME NEW x \in Procs, Continue(x)
      PROVE  StepKind
  <2>1. CASE Lookup(x) \/ Swap(x) \/ Create(x)
        BY <2>1, SwapKind, CreateKind DEF StepKind
  <2>2. CASE AutoSubscribe(x) \/ AutoAttach(x)
    <3>1. Drops(x)
          BY <2>2, AutoSubscribeDoes, AutoAttachDoes, IdleOK
          DEF Drops, Still, Quiet, GoesOn, Keeps, Installs
    <3> QED
        BY <3>1 DEF StepKind
  <2>3. CASE x \in Tracks /\ TrackRegistered(x)
    <3>1. Drops(x)
          BY <2>3, TrackRegisteredDoes, IdleOK
          DEF Drops, Still, Quiet, Keeps, Installs
    <3> QED
        BY <3>1 DEF StepKind
  <2>4. CASE x = Pub /\ (FindForwarder \/ AdoptOrphanForwarder
                         \/ RemoveForwarder \/ MediaReady)
        BY <2>4, PublisherKind
  <2>5. CASE Stop(x) \/ (x \in Subs /\ Prune(x))
        BY <2>5, LoopKind
  <2>6. CASE x \in Subs /\ (Detach(x) \/ Snapshot(x) \/ RemoveSubscriber(x)
                            \/ FindSubscribed(x) \/ Decide(x)
                            \/ AddSubscriber(x) \/ AttachSubscribedReady(x)
                            \/ ClosePeerConnection(x))
        BY <2>6, SubscriberKind
  <2> QED
      BY <1>2, <2>1, <2>2, <2>3, <2>4, <2>5, <2>6 DEF Continue
<1>3. ASSUME NEW t \in Tracks,
             HandleTrack(t) \/ HandlePublishTrack(t) \/ HandleUnpublishTrack(t)
      PROVE  StepKind
      BY <1>3, PublisherKind DEF StepKind
<1>4. ASSUME NEW s \in Subs,
             \/ Exchanged(s) \/ HandleLeaveRoom(s)
             \/ \E t \in Tracks : \/ HandleSubscribeTrack(s, t)
                                  \/ HandleUnsubscribeTrack(s, t)
      PROVE  StepKind
      BY <1>4, SubscriberKind
<1> QED
    BY <1>1, <1>2, <1>3, <1>4 DEF Next

(* Media that a process brings is its own, and under one of its IDs.       *)
LEMMA Brought ==
    ASSUME Base, PlacesOK, NEW x \in Procs, proc[x].at \in Installs,
           proc[x].src \in Tracks
    PROVE  /\ proc[x].src \in DOMAIN world.wire
           /\ proc[x].id \in {proc[x].src, world.wire[proc[x].src]}
           /\ x = Pub \/ x = proc[x].src
<1>1. ProcOK(x, proc[x]) /\ Placed(x) /\ proc[x].src # Placeholder
      BY ProcKinds DEF Base, ProcsOK, PlacesOK
<1>2. CASE x = Pub
      BY <1>1, <1>2 DEF Placed
<1>3. CASE x \in Tracks
      BY <1>1, <1>3 DEF Placed, ProcOK, Installs
<1>4. CASE x \in Subs
      BY <1>1, <1>4 DEF ProcOK
<1> QED
    BY <1>2, <1>3, <1>4, ProcKinds

(* The map before and after a forwarder gets media or is made.             *)
LEMMA BroughtToMap ==
    ASSUME Base, PlacesOK, NEW x \in Procs, NEW k \in Forwarders, Brings(x, k)
    PROVE  /\ \A j \in Forwarders \ {k} : source'[j] = source[j]
           /\ source'[k] = proc[x].src
           /\ running \subseteq running' /\ running' \subseteq running \cup {k}
           /\ \A i \in IDs : fws'[i] = k => i = proc[x].id
           /\ \A i \in IDs : fws'[i] # k => fws'[i] = fws[i]
           /\ \A i \in IDs : fws[i] # NoFw => fws'[i] = fws[i]
           /\ proc[x].src # Placeholder => k \in running'
           /\ proc[x].src = Placeholder => running' = running
           /\ k \notin running
<1>1. proc[x].src \in Tracks \cup {Placeholder} /\ proc[x].id \in IDs
      BY DEF Base, ProcsOK, ProcOK, ProcType, Brings
<1>2. CASE Fills(x, k)
      BY <1>1, <1>2, ProcKinds DEF Fills, Base, ForwardersOK, Remote, NoFw,
                                   Forwarders
<1>3. CASE Installed(x, k)
  <2>1. k \notin running /\ \A i \in IDs : fws[i] # k
        BY <1>3 DEF Installed, InUse
  <2> QED
      BY <1>1, <1>3, <2>1 DEF Installed, Base, ForwardersOK
<1> QED
    BY <1>2, <1>3 DEF Brings

LEMMA MapStep ==
    ASSUME Base, MapOK, PlacesOK, \A y \in Procs : HandOK(y), StepKind
    PROVE  MapOK'
<1>1. CASE Still
      BY <1>1 DEF Still, MapOK, Remote
<1>2. ASSUME NEW x \in Procs, NEW k \in Forwarders, Brings(x, k)
      PROVE  MapOK'
  <2>1. SUFFICES ASSUME NEW i \in IDs, Remote(fws[i])'
                 PROVE  /\ fws'[i] \in running'
                        /\ source'[fws'[i]] \in DOMAIN world.wire
                        /\ i \in {source'[fws'[i]],
                                  world.wire[source'[fws'[i]]]}
        BY <1>2 DEF MapOK, Brings
  <2>2. CASE fws'[i] = k
    <3>1. /\ i = proc[x].id /\ proc[x].src # Placeholder
          /\ source'[k] = proc[x].src
          BY <1>2, <2>1, <2>2, BroughtToMap DEF Remote
    <3>2. proc[x].src \in Tracks /\ proc[x].at \in Installs
          BY <1>2, <3>1
          DEF Base, ProcsOK, ProcOK, ProcType, Brings, Installs
    <3> QED
        BY <1>2, <2>2, <3>1, <3>2, Brought, BroughtToMap
  <2>3. CASE fws'[i] # k
    <3>1. fws'[i] = fws[i] /\ fws[i] # NoFw
          BY <1>2, <2>1, <2>3, BroughtToMap DEF Remote
    <3>2. fws[i] \in Forwarders \ {k}
          BY <2>3, <3>1, Entries
    <3>3. source'[fws[i]] = source[fws[i]] /\ running \subseteq running'
          BY <1>2, <3>2, BroughtToMap
    <3>4. Remote(fws[i])
          BY <2>1, <3>1, <3>3 DEF Remote
    <3> QED
        BY <3>1, <3>3, <3>4 DEF MapOK
  <2> QED
      BY <2>2, <2>3
<1>3. ASSUME NEW x \in Procs, NEW i \in IDs, Unhooks(x, i)
      PROVE  MapOK'
  <2>1. /\ \A j \in IDs \ {i} : fws'[j] = fws[j]
        /\ fws'[i] = NoFw /\ UNCHANGED <<world, source, running>>
        BY <1>3 DEF Unhooks, Base, ForwardersOK
  <2> QED
      BY <2>1 DEF MapOK, Remote
<1>4. ASSUME NEW x \in Procs, Stops(x)
      PROVE  MapOK'
  <2>1. /\ \A i \in IDs : fws[i] # NoFw => fws[i] # proc[x].fw
        /\ running' = running \ {proc[x].fw}
        /\ UNCHANGED <<world, fws, source>>
        BY <1>4 DEF Stops, HandOK
  <2> QED
      BY <2>1 DEF MapOK, Remote
<1>5. CASE \/ Browses \/ \E x \in Procs : Lookup(x) \/ Drops(x)
           \/ \E t \in Tracks : HandleTrack(t)
           \/ \E i \in IDs : Adopts(i)
      BY <1>1, <1>5 DEF Browses, Lookup, Drops, HandleTrack, Adopts, Still
<1> QED
    BY <1>2, <1>3, <1>4, <1>5 DEF StepKind

LEMMA HandsStep ==
    ASSUME Base, PlacesOK, \A y \in Procs : HandOK(y), StepKind
    PROVE  \A y \in Procs : HandOK(y)'
<1>1. ASSUME NEW x \in Procs, Moves(x), UNCHANGED fws, HandOK(x)'
      PROVE  \A y \in Procs : HandOK(y)'
      BY <1>1 DEF HandOK, Moves, At
<1>2. CASE Browses
      BY <1>2 DEF Browses, Still, HandOK, At
<1>3. ASSUME NEW x \in Procs, Lookup(x)
      PROVE  \A y \in Procs : HandOK(y)'
  <2>1. /\ Moves(x) /\ UNCHANGED fws /\ proc[x].id \in IDs
        /\ proc'[x].fw = fws[proc[x].id] /\ proc'[x].id = proc[x].id
        /\ \/ proc'[x].at = "create"
           \/ proc'[x].at = "swap" /\ fws[proc[x].id] # NoFw
        BY <1>3, LookupDoes
        DEF Quiet, Base, ProcsOK, ProcOK, Lookup, At, Installs
  <2>2. HandOK(x)'
        BY <2>1 DEF HandOK, At, Base, ForwardersOK
  <2> QED
      BY <1>1, <2>1, <2>2
<1>4. ASSUME NEW x \in Procs, Drops(x) \/ Stops(x)
      PROVE  \A y \in Procs : HandOK(y)'
  <2>1. Moves(x) /\ UNCHANGED fws /\ proc'[x].at \notin {"swap", "stop"}
        BY <1>4 DEF Drops, Stops, Still
  <2> QED
      BY <1>1, <2>1 DEF HandOK, At
<1>5. ASSUME NEW t \in Tracks, HandleTrack(t)
      PROVE  \A y \in Procs : HandOK(y)'
  <2>1. Moves(t) /\ UNCHANGED fws /\ proc'[t].at = "lookup" /\ t \in Procs
        BY <1>5, HandleTrackDoes, ProcKinds DEF Starts
  <2> QED
      BY <1>1, <2>1 DEF HandOK, At
<1>6. ASSUME NEW i \in IDs, Adopts(i)
      PROVE  \A y \in Procs : HandOK(y)'
  <2>1. Moves(Pub) /\ UNCHANGED fws /\ proc'[Pub].at = "unhook" /\ Pub \in Procs
        BY <1>6, ProcKinds DEF Adopts, Still
  <2> QED
      BY <1>1, <2>1 DEF HandOK, At
<1>7. ASSUME NEW x \in Procs, NEW k \in Forwarders, Brings(x, k)
      PROVE  \A y \in Procs : HandOK(y)'
  <2>1. Moves(x) /\ proc'[x].at = "created"
        BY <1>7 DEF Brings
  <2>2. CASE UNCHANGED fws
        BY <1>1, <2>1, <2>2 DEF HandOK, At
  <2>3. CASE Installed(x, k)
    <3>1. \A y \in Procs : proc[y].fw # k
          BY <2>3 DEF Installed, InUse
    <3>2. \A i \in IDs : fws'[i] = k \/ fws'[i] = fws[i]
          BY <1>7, BroughtToMap
    <3>3. HandOK(x)'
          BY <2>1 DEF HandOK, At
    <3>4. ASSUME NEW y \in Procs \ {x}
          PROVE  HandOK(y)'
          BY <2>1, <3>1, <3>2, <3>4 DEF HandOK, Moves, At
    <3> QED
        BY <3>3, <3>4
  <2> QED
      BY <1>7, <2>2, <2>3 DEF Brings, Fills
<1>8. ASSUME NEW x \in Procs, NEW i \in IDs, Unhooks(x, i)
      PROVE  \A y \in Procs : HandOK(y)'
  <2>1. /\ \A j \in IDs \ {i} : fws'[j] = fws[j]
        /\ fws'[i] = NoFw /\ Moves(x) /\ proc'[x].at = "stop"
        /\ proc'[x].fw = fws[i]
        BY <1>8 DEF Unhooks, Base, ForwardersOK
  <2>2. HandOK(x)'
        BY <2>1 DEF HandOK, At, Base, ForwardersOK
  <2>3. ASSUME NEW y \in Procs \ {x}
        PROVE  HandOK(y)'
    <3>1. At(y, "swap") => proc[y].fw # NoFw
          BY DEF Base, ProcsOK, ProcOK, At
    <3> QED
        BY <2>1, <2>3, <3>1 DEF HandOK, Moves, At
  <2> QED
      BY <2>2, <2>3
<1> QED
    BY <1>2, <1>3, <1>4, <1>5, <1>6, <1>7, <1>8 DEF StepKind

(* Media that has not arrived is in no one's hands.                        *)
Unread ==
    \A t \in Tracks : media[t] \in {"none", "coming"} =>
        /\ proc[Pub].src # t /\ proc[t].src # t
        /\ \A k \in running : source[k] # t

LEMMA UnreadStep ==
    ASSUME Base, MapOK, PlacesOK, Unread, StepKind
    PROVE  Unread'
<1> SUFFICES ASSUME NEW t \in Tracks, media'[t] \in {"none", "coming"}
             PROVE  /\ proc'[Pub].src # t /\ proc'[t].src # t
                    /\ \A k \in running' : source'[k] # t
    BY DEF Unread
<1>1. t \in Procs /\ t # Pub /\ Pub \in Procs /\ t # Placeholder
      BY ProcKinds
<1>2. ASSUME media[t] \in {"none", "coming"}
      PROVE  /\ proc[Pub].src # t /\ proc[t].src # t
             /\ \A k \in running : source[k] # t
      BY <1>2 DEF Unread
<1>3. CASE Browses
      BY <1>2, <1>3 DEF Browses, Still
<1>4. ASSUME NEW x \in Procs, Lookup(x) \/ Drops(x)
      PROVE  /\ proc'[Pub].src # t /\ proc'[t].src # t
             /\ \A k \in running' : source'[k] # t
  <2>1. /\ Still /\ Moves(x) /\ proc'[x].src \in {proc[x].src, Placeholder}
        /\ media[t] \in {"none", "coming"}
        BY <1>4, LookupDoes DEF Drops, Quiet, Still
  <2> QED
      BY <1>1, <1>2, <2>1 DEF Still, Moves
<1>5. ASSUME NEW x \in Procs, Stops(x)
      PROVE  /\ proc'[Pub].src # t /\ proc'[t].src # t
             /\ \A k \in running' : source'[k] # t
  <2>1. /\ Moves(x) /\ proc'[x].src \in {proc[x].src, Placeholder}
        /\ UNCHANGED <<media, source>> /\ running' \subseteq running
        BY <1>5 DEF Stops, Keeps
  <2> QED
      BY <1>1, <1>2, <2>1 DEF Moves
<1>6. ASSUME NEW u \in Tracks, HandleTrack(u)
      PROVE  /\ proc'[Pub].src # t /\ proc'[t].src # t
             /\ \A k \in running' : source'[k] # t
  <2>1. /\ Moves(u) /\ media' = [media EXCEPT ![u] = "here"]
        /\ UNCHANGED <<source, running>>
        BY <1>6, HandleTrackDoes DEF Starts
  <2>2. t # u /\ media[t] \in {"none", "coming"}
        BY <2>1 DEF Base, TypeOK
  <2> QED
      BY <1>1, <1>2, <2>1, <2>2, ProcKinds DEF Moves
<1>7. ASSUME NEW i \in IDs, Adopts(i)
      PROVE  /\ proc'[Pub].src # t /\ proc'[t].src # t
             /\ \A k \in running' : source'[k] # t
  <2>1. /\ Still /\ UNCHANGED media /\ Moves(Pub) /\ Remote(fws[i])
        /\ proc'[Pub].src = source[fws[i]]
        BY <1>7 DEF Adopts, Orphans
  <2>2. fws[i] \in running
        BY <2>1 DEF MapOK
  <2> QED
      BY <1>1, <1>2, <2>1, <2>2 DEF Moves, Still
<1>8. ASSUME NEW x \in Procs, NEW k \in Forwarders, Brings(x, k)
      PROVE  /\ proc'[Pub].src # t /\ proc'[t].src # t
             /\ \A j \in running' : source'[j] # t
  <2>1. /\ Moves(x) /\ proc'[x].src = proc[x].src /\ UNCHANGED media
        /\ proc[x].at \in Installs
        BY <1>8 DEF Brings, Installs
  <2>2. proc'[Pub].src # t /\ proc'[t].src # t
        BY <1>1, <1>2, <2>1 DEF Moves
  <2>3. \A j \in running : source[j] # t
        BY <1>2, <2>1
  <2>4. proc[x].src # t
        BY <1>1, <1>2, <2>1, Brought
  <2>5. \A j \in running' : source'[j] # t
        BY <1>8, <2>3, <2>4, BroughtToMap DEF Base, ForwardersOK
  <2> QED
      BY <2>2, <2>5
<1>9. ASSUME NEW x \in Procs, NEW i \in IDs, Unhooks(x, i)
      PROVE  /\ proc'[Pub].src # t /\ proc'[t].src # t
             /\ \A k \in running' : source'[k] # t
  <2>1. /\ Moves(x) /\ proc'[x].src = proc[x].src
        /\ UNCHANGED <<media, source, running>>
        BY <1>9 DEF Unhooks
  <2> QED
      BY <1>1, <1>2, <2>1 DEF Moves
<1> QED
    BY <1>3, <1>4, <1>5, <1>6, <1>7, <1>8, <1>9 DEF StepKind

(* Process y is about to give the media of track t a reader.               *)
Holds(y, t) == proc[y].at \in Installs /\ proc[y].src = t

(* A track's media has one reader, or one process about to give it one;    *)
(* the publisher about to adopt it takes the reader away first.            *)
Unique ==
    /\ \A j, k \in running : source[j] = source[k] => j = k
    /\ \A k \in running, y \in Procs : ~Holds(y, source[k])
    /\ \A t \in Tracks :
          ~ /\ Holds(t, t) /\ proc[Pub].src = t
            /\ proc[Pub].at \in Installs \cup {"unhook", "stop"}
    /\ \A k \in running :
          At(Pub, "unhook") /\ proc[Pub].src = source[k] =>
              \E i \in IDs : /\ i = world.wire[source[k]] /\ i # source[k]
                             /\ proc[Pub].todo = {<<i, NoFw>>} /\ fws[i] = k
    /\ \A k \in running :
          At(Pub, "stop") /\ proc[Pub].src = source[k] => proc[Pub].fw = k

LEMMA UniqueStill ==
    ASSUME Base, MapOK, PlacesOK, Unread, Unique, Distinct(world),
           \/ Browses
           \/ \E x \in Procs : Lookup(x) \/ Drops(x)
           \/ \E t \in Tracks : HandleTrack(t)
           \/ \E i \in IDs : Adopts(i)
    PROVE  Unique'
<1>1. \A k \in running : source[k] \in Tracks /\ source[k] # Placeholder
      BY DEF Base, ForwardersOK
<1>2. CASE Browses
      BY <1>2 DEF Unique, Browses, Still, Holds, At
<1>3. ASSUME NEW x \in Procs, Lookup(x)
      PROVE  Unique'
  <2>1. /\ Still /\ Moves(x) /\ proc[x].at \in Installs
        /\ proc'[x].at \in {"create", "swap"} /\ proc'[x].src = proc[x].src
        BY <1>3, LookupDoes DEF Quiet, Still, Lookup, At, Installs
  <2>2. \A y \in Procs, t \in Tracks : Holds(y, t)' => Holds(y, t)
        BY <2>1 DEF Holds, Moves, Installs
  <2>3. \/ proc'[Pub] = proc[Pub]
        \/ /\ proc[Pub].at \in Installs /\ proc'[Pub].src = proc[Pub].src
           /\ proc'[Pub].at \notin {"unhook", "stop"}
        BY <2>1, ProcKinds DEF Moves
  <2> QED
      BY <1>1, <2>1, <2>2, <2>3, ProcKinds DEF Unique, Still, At
<1>4. ASSUME NEW x \in Procs, Drops(x)
      PROVE  Unique'
  <2>1. /\ Still /\ Moves(x) /\ proc'[x].at # "stop"
        /\ \/ proc'[x].at \notin Installs \cup {"unhook"}
           \/ proc'[x].src = Placeholder
        BY <1>4 DEF Drops
  <2>2. \A y \in Procs, t \in Tracks : Holds(y, t)' => Holds(y, t)
        BY <2>1, ProcKinds DEF Holds, Moves
  <2>3. \/ proc'[Pub] = proc[Pub]
        \/ proc'[Pub].at \notin Installs \cup {"unhook", "stop"}
        \/ /\ proc'[Pub].src = Placeholder /\ proc'[Pub].at # "stop"
        BY <2>1, ProcKinds DEF Moves
  <2> QED
      BY <1>1, <2>1, <2>2, <2>3, ProcKinds DEF Unique, Still, At
<1>5. ASSUME NEW t \in Tracks, HandleTrack(t)
      PROVE  Unique'
  <2>1. /\ Still /\ Moves(t) /\ proc'[t].src = t /\ media[t] = "coming"
        BY <1>5, HandleTrackDoes DEF Still, Starts
  <2>2. proc[Pub].src # t /\ \A k \in running : source[k] # t
        BY <2>1 DEF Unread
  <2>3. \A y \in Procs, u \in Tracks : Holds(y, u)' => Holds(y, u) \/ u = t
        BY <2>1 DEF Holds, Moves
  <2>4. proc'[Pub] = proc[Pub]
        BY <2>1, ProcKinds DEF Moves
  <2> QED
      BY <1>1, <2>1, <2>2, <2>3, <2>4, ProcKinds DEF Unique, Still, At
<1>6. ASSUME NEW i \in IDs, Adopts(i)
      PROVE  Unique'
  <2>1. /\ Still /\ Moves(Pub) /\ At(Pub, "adopt")
        /\ i \in Orphans(proc[Pub].id)
        /\ proc'[Pub].at = "unhook" /\ proc'[Pub].src = source[fws[i]]
        /\ proc'[Pub].todo = {<<i, NoFw>>}
        BY <1>6 DEF Adopts
  <2>2. /\ fws[i] \in running /\ i = world.wire[source[fws[i]]]
        /\ i # source[fws[i]]
        BY <2>1, OrphanIsOwn
  <2>3. \A y \in Procs, u \in Tracks : Holds(y, u)' => Holds(y, u)
        BY <2>1 DEF Holds, Moves, Installs
  <2>4. \A u \in Tracks : ~ (Holds(u, u)' /\ proc'[Pub].src = u)
        BY <2>1, <2>2, <2>3, ProcKinds DEF Unique
  <2>5. \A k \in running : source[k] = source[fws[i]] => k = fws[i]
        BY <2>2 DEF Unique
  <2> QED
      BY <1>1, <2>1, <2>2, <2>3, <2>4, <2>5 DEF Unique, Still, At
<1> QED
    BY <1>2, <1>3, <1>4, <1>5, <1>6

LEMMA UniqueBrings ==
    ASSUME Base, PlacesOK, Unique, NEW x \in Procs, NEW k \in Forwarders,
           Brings(x, k)
    PROVE  Unique'
<1>1. /\ Moves(x) /\ UNCHANGED world /\ proc[x].at \in Installs
      /\ proc'[x].at = "created" /\ proc[x].src \in Tracks \cup {Placeholder}
      BY DEF Brings, Installs, Base, ProcsOK, ProcOK, ProcType
<1>2. \A j \in running : /\ j \in Forwarders /\ source[j] \in Tracks
                         /\ source[j] # Placeholder
      BY DEF Base, ForwardersOK
<1>3. \A j \in running : source'[j] = source[j]
      BY <1>2, BroughtToMap
<1>4. \A y \in Procs, t \in Tracks : Holds(y, t)' => y # x /\ Holds(y, t)
      BY <1>1 DEF Holds, Moves, Installs
<1>5. \/ proc'[Pub] = proc[Pub] /\ x # Pub
      \/ proc'[Pub].at = "created" /\ x = Pub
      BY <1>1, ProcKinds DEF Moves
<1>6. \A t \in Tracks :
         ~ /\ Holds(t, t)' /\ proc'[Pub].src = t
           /\ proc'[Pub].at \in Installs \cup {"unhook", "stop"}
      BY <1>4, <1>5, ProcKinds DEF Unique, Installs
<1>7. \A j \in running, i \in IDs : fws[i] = j => fws'[i] = j
      BY <1>2, BroughtToMap, RegistryAssumption
      DEF Forwarders, NoFw, RegistryAssumption
<1>8. CASE proc[x].src = Placeholder
  <2>1. running' = running
        BY <1>8, BroughtToMap
  <2> QED
      BY <1>1, <1>2, <1>3, <1>4, <1>5, <1>6, <1>7, <2>1, ProcKinds
      DEF Unique, At
<1>9. CASE proc[x].src \in Tracks
  <2> PICK u \in Tracks : u = proc[x].src
      BY <1>9
  <2>1. /\ running' = running \cup {k} /\ k \notin running /\ source'[k] = u
        /\ u # Placeholder
        BY BroughtToMap, ProcKinds
  <2>2. (x = Pub \/ x = u) /\ Holds(x, u)
        BY <1>1, Brought DEF Holds
  <2>3. \A j \in running : source[j] # u
        BY <2>2 DEF Unique
  <2>4. \A y \in Procs : ~Holds(y, u)'
    <3>1. ASSUME NEW y \in Procs, Holds(y, u)'
          PROVE  FALSE
      <4>1. y # x /\ Holds(y, u)
            BY <1>4, <3>1
      <4>2. y = Pub \/ y = u
            BY <4>1, Brought DEF Holds
      <4>3. Holds(u, u) /\ Holds(Pub, u)
            BY <2>2, <4>1, <4>2
      <4> QED
          BY <4>3 DEF Unique, Holds
    <3> QED
        BY <3>1
  <2>5. ~ (proc'[Pub].src = u /\ proc'[Pub].at \in {"unhook", "stop"})
        BY <1>5, <2>2 DEF Unique
  <2>6. \A i, j \in running' : source'[i] = source'[j] => i = j
        BY <1>3, <2>1, <2>3 DEF Unique
  <2>7. \A j \in running', y \in Procs : ~Holds(y, source[j])'
    <3>1. ASSUME NEW j \in running', NEW y \in Procs, NEW v, v = source'[j],
                 Holds(y, v)'
          PROVE  FALSE
          BY <1>2, <1>3, <1>4, <2>1, <2>4, <3>1 DEF Unique
    <3> QED
        BY <3>1 DEF Holds
  <2>8. \A j \in running' :
           At(Pub, "unhook")' /\ proc'[Pub].src = source'[j] =>
              \E i \in IDs : /\ i = world'.wire[source'[j]] /\ i # source'[j]
                             /\ proc'[Pub].todo = {<<i, NoFw>>} /\ fws'[i] = j
        BY <1>1, <1>3, <1>5, <1>7, <2>1, <2>5 DEF Unique, At
  <2>9. \A j \in running' :
           At(Pub, "stop")' /\ proc'[Pub].src = source'[j] => proc'[Pub].fw = j
        BY <1>3, <1>5, <2>1, <2>5 DEF Unique, At
  <2> QED
      BY <1>6, <2>6, <2>7, <2>8, <2>9 DEF Unique
<1> QED
    BY <1>1, <1>8, <1>9

LEMMA UniqueUnhooks ==
    ASSUME Base, Turn, MapOK, PlacesOK, Unique, Distinct(world),
           world.overlap => "leave" \notin world.ops,
           NEW x \in Procs, NEW i \in IDs, Unhooks(x, i)
    PROVE  Unique'
<1>1. /\ Moves(x) /\ UNCHANGED <<world, source, running>>
      /\ proc'[x].at = "stop" /\ proc'[x].fw = fws[i]
      /\ proc'[x].src = proc[x].src
      BY DEF Unhooks
<1>2. \A j \in IDs \ {i} : fws'[j] = fws[j]
      BY DEF Unhooks, Base, ForwardersOK
<1>3. \A k \in running : source[k] \in Tracks /\ source[k] # Placeholder
      BY DEF Base, ForwardersOK
<1>4. \A y \in Procs, t \in Tracks : Holds(y, t)' => Holds(y, t)
      BY <1>1 DEF Holds, Moves, Installs
<1>5. CASE x = Pub /\ At(x, "unhook") /\ proc[x].todo = {<<i, NoFw>>}
  <2>1. \A k \in running : proc'[Pub].src = source[k] => proc'[Pub].fw = k
    <3>1. ASSUME NEW j, {<<j, NoFw>>} = {<<i, NoFw>>}
          PROVE  j = i
      <4>1. \A a, b : {a} = {b} => a = b
            BY Zenon
      <4>2. <<j, NoFw>> = <<i, NoFw>>
            BY <3>1, <4>1, Zenon
      <4> QED
          BY <4>2
    <3>2. ASSUME NEW k \in running, proc'[Pub].src = source[k]
          PROVE  fws[i] = k
      <4>1. PICK j \in IDs : proc[Pub].todo = {<<j, NoFw>>} /\ fws[j] = k
            BY <1>1, <1>5, <3>2 DEF Unique
      <4> QED
          BY <1>5, <3>1, <4>1
    <3> QED
        BY <1>1, <1>5, <3>2
  <2>2. \A t \in Tracks : ~ (Holds(t, t)' /\ proc'[Pub].src = t)
        BY <1>1, <1>4, <1>5, ProcKinds DEF Unique, At
  <2> QED
      BY <1>1, <1>3, <1>4, <1>5, <2>1, <2>2, ProcKinds DEF Unique, At
<1>6. CASE x \in Subs /\ At(x, "prune") /\ i = proc[x].id
  <2>1. proc'[Pub] = proc[Pub] /\ x # Pub /\ Pub \in Procs
        BY <1>1, <1>6, ProcKinds DEF Moves
  <2>2. ASSUME NEW k \in running, At(Pub, "unhook"), proc[Pub].src = source[k],
               i = world.wire[source[k]], i # source[k], fws[i] = k
        PROVE  FALSE
    <3>1. world.overlap
          BY <1>6, <2>1, <2>2 DEF Turn, At
    <3>2. i \in Tracks
          BY <1>6, <3>1 DEF PlacesOK, Placed, At
    <3>3. source[k] \in DOMAIN world.wire
          BY <1>3, <2>2, Entries DEF MapOK, Remote, Base, ForwardersOK, NoFw,
                                     Forwarders
    <3> QED
        BY <2>2, <3>2, <3>3 DEF Distinct
  <2>3. \A k \in running :
           At(Pub, "unhook") /\ proc[Pub].src = source[k] =>
              \E j \in IDs : /\ j = world.wire[source[k]] /\ j # source[k]
                             /\ proc[Pub].todo = {<<j, NoFw>>} /\ fws'[j] = k
        BY <1>2, <2>2 DEF Unique
  <2> QED
      BY <1>1, <1>3, <1>4, <2>1, <2>3, ProcKinds DEF Unique, At
<1> QED
    BY <1>5, <1>6 DEF Unhooks

LEMMA UniqueStops ==
    ASSUME Base, PlacesOK, Unique, NEW x \in Procs, Stops(x)
    PROVE  Unique'
<1>1. /\ At(x, "stop") /\ Moves(x) /\ UNCHANGED <<world, fws, source>>
      /\ running' = running \ {proc[x].fw}
      BY DEF Stops
<1>2. \A k \in running : source[k] \in Tracks /\ source[k] # Placeholder
      BY DEF Base, ForwardersOK
<1>3. CASE x = Pub /\ proc'[x].at = "lookup" /\ Keeps(x)
  <2>1. \A k \in running' : proc[Pub].src # source[k]
        BY <1>1, <1>3 DEF Unique
  <2>2. \A y \in Procs, t \in Tracks :
           Holds(y, t)' => Holds(y, t) \/ (y = Pub /\ t = proc[Pub].src)
        BY <1>1, <1>3 DEF Holds, Moves, Keeps
  <2>3. \A t \in Tracks : ~ (Holds(t, t)' /\ proc'[Pub].src = t)
        BY <1>1, <1>3, <2>2, ProcKinds DEF Unique, At, Keeps
  <2> QED
      BY <1>1, <1>2, <1>3, <2>1, <2>2, <2>3, ProcKinds DEF Unique, At
<1>4. CASE proc'[x].at \in {"idle", "remove", "close"}
  <2>1. \A y \in Procs, t \in Tracks : Holds(y, t)' => Holds(y, t)
        BY <1>1, <1>4 DEF Holds, Moves, Installs
  <2>2. \/ proc'[Pub] = proc[Pub]
        \/ proc'[Pub].at \notin Installs \cup {"unhook", "stop"}
        BY <1>1, <1>4, ProcKinds DEF Moves, Installs
  <2> QED
      BY <1>1, <1>2, <2>1, <2>2, ProcKinds DEF Unique, At
<1> QED
    BY <1>3, <1>4 DEF Stops

LEMMA UniqueStep ==
    ASSUME Base, Turn, MapOK, PlacesOK, Unread, Unique, Distinct(world),
           world.overlap => "leave" \notin world.ops, StepKind
    PROVE  Unique'
BY UniqueStill, UniqueBrings, UniqueUnhooks, UniqueStops DEF StepKind

-----------------------------------------------------------------------------
(* The Reads that stopped run loops leave behind. *)

(* The publisher takes the media of track t away from another forwarder.   *)
Taking(t) == proc[Pub].src = t /\ proc[Pub].at \in {"unhook", "stop"}

(* Forwarder k reads track t for the first time: it is under the media's   *)
(* own ID, or is the one that the publisher takes the media from.          *)
First(k, t) ==
    /\ k \in running /\ source[k] = t
    /\ \/ Taking(t)
       \/ \E i \in IDs : /\ t \in DOMAIN world.wire /\ i = world.wire[t]
                         /\ i # t /\ fws[i] = k

Fresh(t) ==
    \/ media[t] \in {"none", "coming"} \/ Holds(t, t)
    \/ \E k \in Forwarders : First(k, t)

Wanted(t) ==
    \/ Taking(t) \/ Holds(Pub, t)
    \/ \E k \in running : source[k] = t

(* None is left behind on a track that was not read before, and one at     *)
(* most on a track that has a reader or is about to get one.               *)
Behind ==
    \A t \in Tracks : /\ Fresh(t) => leftover[t] = 0
                      /\ Wanted(t) => leftover[t] <= 1

(* Only Stop leaves a Read behind.                                         *)
LEMMA LeftStep ==
    ASSUME Base, [Next]_vars
    PROVE  \/ \A t \in Tracks : leftover'[t] <= leftover[t]
           \/ \E x \in Procs : Stop(x)
<1>1. leftover \in [Tracks -> Nat]
      BY DEF Base, ForwardersOK
<1>2. SUFFICES \/ UNCHANGED leftover \/ \E t \in Tracks : ReadReturns(t)
               \/ \E x \in Procs : Stop(x)
      BY <1>1 DEF ReadReturns
<1>3. ASSUME NEW x \in Procs, Continue(x)
      PROVE  UNCHANGED leftover \/ Stop(x)
  <2>1. CASE \/ Lookup(x) \/ Swap(x) \/ Create(x) \/ AutoSubscribe(x)
             \/ AutoAttach(x) \/ TrackRegistered(x) \/ FindForwarder
             \/ AdoptOrphanForwarder \/ RemoveForwarder \/ MediaReady
        BY <2>1 DEF Lookup, Swap, Create, AutoSubscribe, AutoAttach,
                    TrackRegistered, FindForwarder, AdoptOrphanForwarder,
                    RemoveForwarder, MediaReady
  <2>2. CASE \/ FindSubscribed(x) \/ Decide(x) \/ AddSubscriber(x)
             \/ AttachSubscribedReady(x) \/ Detach(x) \/ Snapshot(x)
             \/ RemoveSubscriber(x) \/ Prune(x) \/ ClosePeerConnection(x)
        BY <2>2 DEF FindSubscribed, Decide, AddSubscriber,
                    AttachSubscribedReady, Detach, Snapshot,
                    RemoveSubscriber, Prune, ClosePeerConnection
  <2> QED
      BY <1>3, <2>1, <2>2 DEF Continue
<1>4. ASSUME NEW t \in Tracks,
             \/ OfferMedia(t) \/ HandleTrack(t)
             \/ HandlePublishTrack(t) \/ HandleUnpublishTrack(t)
      PROVE  UNCHANGED leftover
      BY <1>4 DEF OfferMedia, HandleTrack, HandlePublishTrack,
                  HandleUnpublishTrack
<1>5. ASSUME NEW s \in Subs,
             \/ ServerOffer(s) \/ Connected(s) \/ Exchanged(s)
             \/ HandleLeaveRoom(s)
             \/ \E t \in Tracks : \/ HandleSubscribeTrack(s, t)
                                  \/ HandleUnsubscribeTrack(s, t)
      PROVE  UNCHANGED leftover
      BY <1>5 DEF ServerOffer, Connected, Exchanged, HandleLeaveRoom,
                  HandleSubscribeTrack, HandleUnsubscribeTrack
<1> QED
    BY <1>3, <1>4, <1>5 DEF Next, vars

(* It is enough that what is fresh was fresh, and what is wanted was       *)
(* wanted or is fresh.                                                     *)
LEMMA BehindLess ==
    ASSUME Base, Base', Behind, \A t \in Tracks : leftover'[t] <= leftover[t],
           \A t \in Tracks : /\ Fresh(t)' => Fresh(t)
                             /\ Wanted(t)' => Wanted(t) \/ Fresh(t)
    PROVE  Behind'
<1> SUFFICES ASSUME NEW t \in Tracks
             PROVE  /\ Fresh(t)' => leftover'[t] = 0
                    /\ Wanted(t)' => leftover'[t] <= 1
    BY DEF Behind
<1>1. leftover[t] \in Nat /\ leftover'[t] \in Nat /\ leftover'[t] <= leftover[t]
      BY DEF Base, ForwardersOK
<1>2. /\ Fresh(t) => leftover[t] = 0
      /\ Wanted(t) => leftover[t] <= 1
      BY DEF Behind
<1>3. /\ Fresh(t)' => Fresh(t)
      /\ Wanted(t)' => Wanted(t) \/ Fresh(t)
      OBVIOUS
<1> QED
    BY <1>1, <1>2, <1>3

LEMMA BehindStill ==
    ASSUME Base, Base', MapOK, PlacesOK, Behind, Distinct(world),
           \A t \in Tracks : leftover'[t] <= leftover[t],
           \/ Browses
           \/ \E x \in Procs : Lookup(x) \/ Drops(x)
           \/ \E t \in Tracks : HandleTrack(t)
           \/ \E i \in IDs : Adopts(i)
    PROVE  Behind'
<1>1. /\ Pub \in Procs
      /\ \A t \in Tracks : t # Pub /\ t \in Procs /\ t # Placeholder
      BY ProcKinds
<1>2. CASE Browses
  <2>1. \A t \in Tracks : /\ Fresh(t)' => Fresh(t)
                          /\ Wanted(t)' => Wanted(t)
        BY <1>2 DEF Browses, Still, Fresh, Wanted, First, Taking, Holds
  <2> QED
      BY <2>1, BehindLess
<1>3. ASSUME NEW x \in Procs, Lookup(x) \/ Drops(x)
      PROVE  Behind'
  <2>1. /\ Still /\ Moves(x)
        /\ \A t \in Tracks : \/ media'[t] = media[t]
                             \/ media[t] = "here" /\ media'[t] = "ended"
        BY <1>3, LookupDoes DEF Quiet, Still, Drops
  <2>2. \A y \in Procs, t \in Tracks : Holds(y, t)' => Holds(y, t)
    <3>1. CASE Lookup(x)
          BY <1>1, <2>1, <3>1, LookupDoes DEF Holds, Moves, Installs, Lookup, At
    <3>2. CASE Drops(x)
          BY <1>1, <3>2 DEF Drops, Holds, Moves
    <3> QED
        BY <1>3, <3>1, <3>2
  <2>3. \A t \in Tracks : Taking(t)' => Taking(t)
    <3>1. CASE Lookup(x)
          BY <1>1, <2>1, <3>1, LookupDoes DEF Taking, Moves
    <3>2. CASE Drops(x)
          BY <1>1, <3>2 DEF Drops, Taking, Moves
    <3> QED
        BY <1>3, <3>1, <3>2
  <2>4. \A t \in Tracks : /\ Fresh(t)' => Fresh(t)
                          /\ Wanted(t)' => Wanted(t)
        BY <1>1, <2>1, <2>2, <2>3 DEF Still, Fresh, Wanted, First
  <2> QED
      BY <2>4, BehindLess
<1>4. ASSUME NEW u \in Tracks, HandleTrack(u)
      PROVE  Behind'
  <2>1. /\ Still /\ Moves(u) /\ proc'[u].src = u /\ media[u] = "coming"
        /\ media' = [media EXCEPT ![u] = "here"]
        BY <1>4, HandleTrackDoes DEF Still, Starts
  <2>2. \A y \in Procs, t \in Tracks : Holds(y, t)' => Holds(y, t) \/ t = u
        BY <2>1 DEF Holds, Moves
  <2>3. \A t \in Tracks : Taking(t)' => Taking(t)
        BY <1>1, <2>1 DEF Taking, Moves
  <2>4. \A t \in Tracks :
           media'[t] \in {"none", "coming"} => media'[t] = media[t]
        BY <2>1 DEF Base, TypeOK
  <2>5. Fresh(u)
        BY <2>1 DEF Fresh
  <2>6. \A t \in Tracks : /\ Fresh(t)' => Fresh(t)
                          /\ Wanted(t)' => Wanted(t) \/ Fresh(t)
        BY <1>1, <2>1, <2>2, <2>3, <2>4, <2>5
        DEF Still, Fresh, Wanted, First
  <2> QED
      BY <2>6, BehindLess
<1>5. ASSUME NEW i \in IDs, Adopts(i)
      PROVE  Behind'
  <2> DEFINE u == source[fws[i]]
  <2>1. /\ Still /\ UNCHANGED media /\ Moves(Pub) /\ At(Pub, "adopt")
        /\ i \in Orphans(proc[Pub].id)
        /\ proc'[Pub].at = "unhook" /\ proc'[Pub].src = u
        BY <1>5 DEF Adopts
  <2>2. /\ fws[i] \in running /\ fws[i] \in Forwarders
        /\ u \in DOMAIN world.wire /\ i = world.wire[u] /\ i # u
        BY <2>1, OrphanIsOwn DEF Base, ForwardersOK
  <2>3. First(fws[i], u)
        BY <2>2 DEF First
  <2>4. Fresh(u)
        BY <2>2, <2>3 DEF Fresh
  <2> HIDE DEF u
  <2>5. \A y \in Procs, t \in Tracks : Holds(y, t)' => Holds(y, t)
        BY <2>1 DEF Holds, Moves, Installs
  <2>6. \A t \in Tracks : Taking(t)' => t = u
        BY <2>1 DEF Taking
  <2>7. \A t \in Tracks : /\ Fresh(t)' => Fresh(t)
                          /\ Wanted(t)' => Wanted(t) \/ Fresh(t)
        BY <1>1, <2>1, <2>4, <2>5, <2>6 DEF Still, Fresh, Wanted, First
  <2> QED
      BY <2>7, BehindLess
<1> QED
    BY <1>2, <1>3, <1>4, <1>5

LEMMA BehindBrings ==
    ASSUME Base, Base', PlacesOK, Unread, Unique, Behind, Distinct(world),
           \A t \in Tracks : leftover'[t] <= leftover[t],
           NEW x \in Procs, NEW k \in Forwarders, Brings(x, k)
    PROVE  Behind'
<1>1. /\ Moves(x) /\ UNCHANGED <<world, media>> /\ proc[x].at \in Installs
      /\ proc'[x].at = "created" /\ proc[x].src \in Tracks \cup {Placeholder}
      /\ Pub \in Procs /\ \A t \in Tracks : t # Placeholder /\ t \in Procs
      BY ProcKinds DEF Brings, Installs, Base, ProcsOK, ProcOK, ProcType
<1>2. /\ \A j \in Forwarders \ {k} : source'[j] = source[j]
      /\ source'[k] = proc[x].src /\ k \notin running
      /\ running \subseteq running' /\ running' \subseteq running \cup {k}
      /\ \A i \in IDs : fws'[i] = k => i = proc[x].id
      /\ \A i \in IDs : fws'[i] # k => fws'[i] = fws[i]
      /\ proc[x].src = Placeholder => running' = running
      BY BroughtToMap
<1>3. \A y \in Procs, t \in Tracks : Holds(y, t)' => y # x /\ Holds(y, t)
      BY <1>1 DEF Holds, Moves, Installs
<1>4. \A t \in Tracks : Taking(t)' => Taking(t) /\ x # Pub
      BY <1>1 DEF Taking, Moves
<1>5. \A j \in Forwarders, t \in Tracks : j # k /\ First(j, t)' => First(j, t)
      BY <1>1, <1>2, <1>4 DEF First
<1>6. \A t \in Tracks : Wanted(t)' => Wanted(t) \/ t = proc[x].src
      BY <1>1, <1>2, <1>3, <1>4 DEF Wanted, Base, ForwardersOK
<1>7. \A t \in Tracks : First(k, t)' => t = proc[x].src
      BY <1>2 DEF First
<1>8. CASE proc[x].src = Placeholder
  <2>1. \A t \in Tracks : /\ Fresh(t)' => Fresh(t)
                          /\ Wanted(t)' => Wanted(t) \/ Fresh(t)
        BY <1>1, <1>3, <1>5, <1>6, <1>7, <1>8 DEF Fresh
  <2> QED
      BY <2>1, BehindLess
<1>9. CASE proc[x].src \in Tracks
  <2> PICK u \in Tracks : u = proc[x].src
      BY <1>9
  <2>1. (x = Pub \/ x = u) /\ Holds(x, u)
        BY <1>1, Brought DEF Holds
  <2>2. Wanted(u) \/ Fresh(u)
        BY <2>1 DEF Wanted, Fresh
  <2>3. Fresh(u)' => Fresh(u)
    <3>1. CASE x = u
          BY <2>1, <3>1 DEF Fresh
    <3>2. CASE x = Pub
      <4>1. proc[Pub].id = u
            BY <1>1, <3>2, ProcKinds DEF PlacesOK, Placed
      <4>2. ~First(k, u)'
        <5>1. ~Taking(u)'
              BY <1>4, <3>2
        <5>2. \A i \in IDs : i # u => fws'[i] # k
              BY <1>2, <3>2, <4>1
        <5> QED
            BY <5>1, <5>2 DEF First
      <4> QED
          BY <1>1, <1>3, <1>5, <4>2 DEF Fresh
    <3> QED
        BY <2>1, <3>1, <3>2
  <2>4. \A t \in Tracks : /\ Fresh(t)' => Fresh(t)
                          /\ Wanted(t)' => Wanted(t) \/ Fresh(t)
        BY <1>1, <1>3, <1>5, <1>6, <1>7, <2>2, <2>3 DEF Fresh
  <2> QED
      BY <2>4, BehindLess
<1> QED
    BY <1>1, <1>8, <1>9

LEMMA BehindUnhooks ==
    ASSUME Base, Base', Behind, \A t \in Tracks : leftover'[t] <= leftover[t],
           NEW x \in Procs, NEW i \in IDs, Unhooks(x, i)
    PROVE  Behind'
<1>1. /\ Moves(x) /\ UNCHANGED <<world, source, running, media>>
      /\ proc'[x].at = "stop" /\ proc'[x].src = proc[x].src
      /\ x = Pub => At(Pub, "unhook")
      /\ Pub \in Procs /\ \A t \in Tracks : t \in Procs
      BY ProcKinds DEF Unhooks
<1>2. \A j \in IDs : fws'[j] = fws[j] \/ fws'[j] = NoFw
      BY DEF Unhooks, Base, ForwardersOK
<1>3. \A k \in Forwarders : k # NoFw
      BY RegistryAssumption DEF Forwarders, NoFw, RegistryAssumption
<1>4. \A y \in Procs, t \in Tracks : Holds(y, t)' => Holds(y, t)
      BY <1>1 DEF Holds, Moves, Installs
<1>5. \A t \in Tracks : Taking(t)' => Taking(t)
      BY <1>1 DEF Taking, Moves, At
<1>6. \A t \in Tracks, k \in Forwarders : First(k, t)' => First(k, t)
      BY <1>1, <1>2, <1>3, <1>5 DEF First
<1>7. \A t \in Tracks : /\ Fresh(t)' => Fresh(t)
                        /\ Wanted(t)' => Wanted(t) \/ Fresh(t)
      BY <1>1, <1>4, <1>5, <1>6 DEF Fresh, Wanted
<1> QED
    BY <1>7, BehindLess

(* A run loop that is stopped leaves its Read behind, with no other reader *)
(* of the track and none to come but the publisher that takes it away.     *)
LEMMA BehindStops ==
    ASSUME Base, Base', Unread, Unique, Behind, NEW x \in Procs, Stops(x),
           \/ \A t \in Tracks : leftover'[t] <= leftover[t]
           \/ Stop(x)
    PROVE  Behind'
<1>1. /\ At(x, "stop") /\ Moves(x) /\ UNCHANGED <<world, fws, source, media>>
      /\ running' = running \ {proc[x].fw}
      /\ \/ x = Pub /\ proc'[x].at = "lookup" /\ Keeps(x)
         \/ proc'[x].at \in {"idle", "remove", "close"}
      /\ Pub \in Procs /\ \A t \in Tracks : t # Pub /\ t \in Procs
      BY ProcKinds DEF Stops
<1>2. \A y \in Procs, t \in Tracks :
         Holds(y, t)' => Holds(y, t) \/ (y = Pub /\ Taking(t))
      BY <1>1 DEF Holds, Moves, Keeps, Taking, At, Installs
<1>3. \A t \in Tracks : Holds(t, t)' => Holds(t, t)
      BY <1>1, <1>2
<1>4. \A t \in Tracks : Taking(t)' => Taking(t)
      BY <1>1 DEF Taking, Moves
<1>5. \A t \in Tracks, k \in Forwarders : First(k, t)' => First(k, t)
      BY <1>1, <1>4 DEF First
<1>6. \A t \in Tracks : /\ Fresh(t)' => Fresh(t)
                        /\ Wanted(t)' => Wanted(t)
      BY <1>1, <1>2, <1>3, <1>4, <1>5 DEF Fresh, Wanted
<1>7. CASE \A t \in Tracks : leftover'[t] <= leftover[t]
      BY <1>6, <1>7, BehindLess
<1>8. CASE ~ \A t \in Tracks : leftover'[t] <= leftover[t]
  <2>1. /\ proc[x].fw \in running
        /\ leftover' = [leftover EXCEPT ![source[proc[x].fw]] = @ + 1]
        BY <1>8, StopDoes DEF Base, ForwardersOK
  <2>2. PICK k \in Forwarders, u \in Tracks : k = proc[x].fw /\ u = source[k]
        BY <2>1 DEF Base, ForwardersOK
  <2>3. /\ k \in running /\ leftover \in [Tracks -> Nat]
        /\ leftover' = [leftover EXCEPT ![u] = @ + 1]
        /\ \A j \in running' : source'[j] # u
        /\ \A y \in Procs : ~Holds(y, u)
        /\ media[u] \notin {"none", "coming"}
        BY <1>1, <2>1, <2>2 DEF Unique, Unread, Base, ForwardersOK
  <2>4. Taking(u) => leftover[u] = 0
    <3>1. Taking(u) => First(k, u)
          BY <2>2, <2>3 DEF First
    <3> QED
        BY <2>2, <3>1 DEF Behind, Fresh
  <2>5. /\ ~Fresh(u)'
        /\ Wanted(u)' => Taking(u)
        BY <1>1, <1>2, <1>3, <1>4, <2>2, <2>3 DEF Fresh, Wanted, First
  <2>6. ASSUME NEW t \in Tracks
        PROVE  /\ Fresh(t)' => leftover'[t] = 0
               /\ Wanted(t)' => leftover'[t] <= 1
    <3>1. CASE t = u
          BY <2>3, <2>4, <2>5, <3>1
    <3>2. CASE t # u
          BY <1>6, <2>3, <3>2 DEF Behind
    <3> QED
        BY <3>1, <3>2
  <2> QED
      BY <2>6 DEF Behind
<1> QED
    BY <1>7, <1>8

LEMMA BehindStep ==
    ASSUME Base, Base', Turn, MapOK, PlacesOK, Unread, Unique, Behind,
           Distinct(world), StepKind, [Next]_vars
    PROVE  Behind'
<1>1. CASE \E x \in Procs : Stop(x)
  <2>1. PICK x \in Procs : Stop(x)
        BY <1>1
  <2>2. Stops(x)
    <3>1. /\ At(x, "stop") /\ Moves(x)
          /\ UNCHANGED <<world, fws, source, media>>
          /\ running' = running \ {proc[x].fw}
          /\ \/ x = Pub /\ proc'[x].at = "lookup" /\ Keeps(x)
             \/ proc'[x] = Idle
             \/ x \in Subs /\ GoesOn(x, "remove", proc[x].todo)
          BY <2>1, StopDoes
    <3> QED
        BY <3>1, IdleOK DEF Stops, GoesOn, Keeps
  <2> QED
      BY <2>1, <2>2, BehindStops
<1>2. CASE \A t \in Tracks : leftover'[t] <= leftover[t]
      BY <1>2, BehindStill, BehindBrings, BehindUnhooks, BehindStops
      DEF StepKind
<1> QED
    BY <1>1, <1>2, LeftStep

(* Who reads what, and who is about to.                                    *)
Reading ==
    /\ Base /\ Turn /\ PlacesOK /\ MapOK /\ Unread
    /\ \A y \in Procs : HandOK(y)
    /\ (world.overlap => "leave" \notin world.ops) => Unique /\ Behind

(* The inductive invariant of the forwarders and their readers: places,    *)
(* stages and types, the map of handler.trackForwarders, which process has *)
(* which forwarder and which media in hand, that no two have the same, and *)
(* how many Reads the stopped run loops have left behind on a track.       *)
THEOREM ReadingInvariant ==
    ASSUME \A w \in Worlds : Distinct(w)
    PROVE  Spec => []Reading
<1>1. Init => Reading
  <2> SUFFICES ASSUME Init PROVE Reading
      OBVIOUS
  <2>1. Base /\ \A x \in Procs : At(x, "idle") /\ proc[x].src = Placeholder
        BY BaseInit, IdleOK DEF Init, At
  <2>2. Turn
        BY <2>1 DEF Turn
  <2>3. PlacesOK /\ \A y \in Procs : HandOK(y)
        BY <2>1 DEF PlacesOK, Placed, HandOK, At, Installs
  <2>4. MapOK /\ running = {}
        BY DEF Init, MapOK, Remote
  <2>5. Unread
        BY <2>1, <2>4, ProcKinds DEF Unread
  <2>6. Unique
        BY <2>1, <2>4, ProcKinds DEF Unique, Holds, At, Installs
  <2>7. Behind
        BY DEF Init, Behind
  <2> QED
      BY <2>1, <2>2, <2>3, <2>4, <2>5, <2>6, <2>7 DEF Reading
<1>2. ASSUME Reading, [Next]_vars
      PROVE  Reading'
  <2>1. /\ Base /\ Turn /\ PlacesOK /\ MapOK /\ Unread
        /\ \A y \in Procs : HandOK(y)
        BY <1>2 DEF Reading
  <2>2. Distinct(world)
        BY <2>1 DEF Base, TypeOK
  <2>3. StepKind /\ Base' /\ Turn' /\ PlacesOK' /\ UNCHANGED world
        BY <1>2, <2>1, <2>2, StepKinds, BaseStep, TurnStep, PlacesStep, WhoMoves
  <2>4. MapOK' /\ Unread' /\ \A y \in Procs : HandOK(y)'
        BY <2>1, <2>3, MapStep, UnreadStep, HandsStep
  <2>5. (world.overlap => "leave" \notin world.ops) => Unique' /\ Behind'
        BY <1>2, <2>1, <2>2, <2>3, UniqueStep, BehindStep DEF Reading
  <2> QED
      BY <2>3, <2>4, <2>5 DEF Reading
<1> QED
    BY <1>1, <1>2, PTL DEF Spec

(* A TrackRemote never has two run loops, for any number of forwarders and *)
(* however handlers overlap: getOrCreateForwarder looks again under the    *)
(* write lock, and adoptOrphanForwarder stops the forwarder it takes the   *)
(* media from before it binds it.  The Read which that forwarder leaves    *)
(* behind may go on beside the new loop, and it is the only one that may.  *)
THEOREM ReadOnce ==
    ASSUME \A w \in Worlds : Distinct(w)
    PROVE  Spec => []OneReader
<1>1. Reading => OneReader
  <2> SUFFICES ASSUME Reading, world.overlap => "leave" \notin world.ops
               PROVE  /\ \A j, k \in running :
                            /\ source[j] # Placeholder
                            /\ source[j] = source[k] => j = k
                      /\ \A k \in running : leftover[source[k]] <= 1
      BY DEF OneReader
  <2>1. Base /\ Unique /\ Behind
        BY DEF Reading
  <2>2. \A k \in running : source[k] \in Tracks /\ source[k] # Placeholder
        BY <2>1 DEF Base, ForwardersOK
  <2> QED
      BY <2>1, <2>2 DEF Unique, Behind, Wanted
<1> QED
    BY ReadingInvariant, <1>1, PTL
-----------------------------------------------------------------------------
(* The media of a published track. *)

(* Where the media is not to be lost: nobody unsubscribes or has left, and *)
(* handlers that overlap do not unpublish, nor handle IDs of the browser's *)
(* own.                                                                    *)
Staying ==
    /\ world.subs \subseteq members /\ "unsubscribe" \notin world.ops
    /\ InTurn /\ (world.overlap => "unpublish" \notin world.ops)

(* The IDs of the media that one browser sends differ.                     *)
OwnWires(w) ==
    \A t, u \in DOMAIN w.wire : w.wire[t] = w.wire[u] => t = u

Mapped(i, t) == fws[i] # NoFw /\ source[fws[i]] = t

(* The ID that the media of a track goes by, once it has arrived.          *)
Mine(t) == IF t \in published THEN t ELSE world.wire[t]

(* What each process has in hand: a track its ID, everyone else the ID of  *)
(* a published track, the publisher the entry that it removes.             *)
InHand(y) ==
    /\ y \in Subs => proc[y].at \notin (LeavePlaces \ {"idle"}) \cup {"detach"}
    /\ At(y, "swap") => fws[proc[y].id] = proc[y].fw
    /\ y \in Tracks /\ proc[y].at \in Installs => proc[y].id = Mine(y)
    /\ y \notin Tracks /\ proc[y].at \in Installs => proc[y].id \in published
    /\ y = Pub /\ proc[y].at \in {"find", "adopt"} => proc[y].id \in published
    /\ y = Pub /\ proc[y].at \in {"unhook", "stop"} =>
          /\ ~world.overlap
          /\ proc[y].src = Placeholder =>
                proc[y].id \notin published /\ media[proc[y].id] # "here"
          /\ proc[y].src # Placeholder => proc[y].id \in published
    /\ y = Pub /\ At(y, "unhook") =>
          /\ proc[y].src = Placeholder => proc[y].todo = {<<proc[y].id, NoFw>>}
          /\ proc[y].src # Placeholder =>
                \E i \in IDs : /\ i = world.wire[proc[y].id] /\ i # proc[y].id
                               /\ proc[y].todo = {<<i, NoFw>>}

(* The publisher brings the media of track t, or is about to find it.      *)
Carried(t) ==
    proc[Pub].src = t /\ proc[Pub].at \in Installs \cup {"unhook", "stop"}

Adoptable(t) ==
    /\ Mapped(world.wire[t], t)
    /\ \/ t \notin published
       \/ At(Pub, "adopt") /\ proc[Pub].id = t
       \/ At(Pub, "find") /\ proc[Pub].id = t /\ fws[t] = NoFw

(* Media that has arrived is on its way to the forwarder of its track; and *)
(* a forwarder that is not to be removed is that of a published track, or  *)
(* goes by an ID of the browser's own.                                     *)
InMap(t) ==
    /\ media[t] = "here" =>
          Holds(t, t) \/ Mapped(t, t) \/ Carried(t) \/ Adoptable(t)
    /\ fws[t] # NoFw /\ world.wire[t] # t =>
          \/ t \in published
          \/ /\ At(Pub, "unhook") /\ proc[Pub].src = Placeholder
             /\ proc[Pub].id = t

Kept == Staying => /\ \A y \in Procs : InHand(y)
                   /\ \A t \in DOMAIN world.wire : InMap(t)

(* What has been shown so far, of a world in which media can be told apart. *)
Known == Reading /\ Distinct(world) /\ OwnWires(world)

(* Nobody comes back into the room.                                        *)
LEMMA StayingStep ==
    ASSUME Base, [Next]_vars, Staying'
    PROVE  Staying
<1>1. UNCHANGED world
      BY WhoMoves
<1>2. members' \subseteq members
  <2>1. CASE UNCHANGED vars
        BY <2>1 DEF vars
  <2>2. ASSUME NEW x \in Procs, Continue(x)
        PROVE  UNCHANGED members
    <3>1. CASE Lookup(x) \/ Swap(x) \/ Create(x) \/ Stop(x)
               \/ AutoSubscribe(x) \/ AutoAttach(x)
          BY <3>1 DEF Lookup, Swap, Create, Stop, AutoSubscribe, AutoAttach
    <3>2. CASE \/ TrackRegistered(x) \/ FindForwarder \/ AdoptOrphanForwarder
               \/ RemoveForwarder \/ MediaReady
          BY <3>2 DEF TrackRegistered, FindForwarder, AdoptOrphanForwarder,
                      RemoveForwarder, MediaReady
    <3>3. CASE \/ FindSubscribed(x) \/ Decide(x) \/ AddSubscriber(x)
               \/ AttachSubscribedReady(x) \/ Detach(x) \/ Snapshot(x)
               \/ RemoveSubscriber(x) \/ Prune(x) \/ ClosePeerConnection(x)
          BY <3>3 DEF FindSubscribed, Decide, AddSubscriber,
                      AttachSubscribedReady, Detach, Snapshot,
                      RemoveSubscriber, Prune, ClosePeerConnection
    <3> QED
        BY <2>2, <3>1, <3>2, <3>3 DEF Continue
  <2>3. ASSUME NEW t \in Tracks,
               \/ OfferMedia(t) \/ ReadReturns(t) \/ HandleTrack(t)
               \/ HandlePublishTrack(t) \/ HandleUnpublishTrack(t)
        PROVE  UNCHANGED members
        BY <2>3 DEF OfferMedia, ReadReturns, HandleTrack, HandlePublishTrack,
                    HandleUnpublishTrack
  <2>4. ASSUME NEW s \in Subs,
               \/ ServerOffer(s) \/ Connected(s) \/ Exchanged(s)
               \/ HandleLeaveRoom(s)
               \/ \E t \in Tracks : \/ HandleSubscribeTrack(s, t)
                                    \/ HandleUnsubscribeTrack(s, t)
        PROVE  members' \subseteq members
        BY <2>4 DEF ServerOffer, Connected, Exchanged, HandleLeaveRoom,
                    HandleSubscribeTrack, HandleUnsubscribeTrack
  <2> QED
      BY <2>1, <2>2, <2>3, <2>4 DEF Next
<1> QED
    BY <1>1, <1>2 DEF Staying, InTurn

(* Where handlers do not overlap, nobody else is under way.                *)
LEMMA KeptAlone ==
    ASSUME Base, Turn, NEW x \in Procs, Moves(x), ~At(x, "idle") \/ Begins(x),
           ~world.overlap
    PROVE  \A y \in Procs \ {x} : proc[y].at = "idle" /\ proc'[y].at = "idle"
BY TurnAlone DEF Alone, Moves, At

(* A process that is none of the publisher's concern, or of the media's.   *)
LEMMA KeptQuiet ==
    ASSUME Known, Kept, Staying, NEW x \in Procs, Moves(x),
           UNCHANGED <<world, fws, source, published, media>>, InHand(x)',
           \A t \in Tracks : Holds(x, t) => Holds(x, t)',
           x = Pub => /\ proc[x].at \notin {"find", "adopt", "unhook"}
                      /\ \A t \in Tracks : Carried(t) => Carried(t)'
    PROVE  Kept'
<1>1. \A y \in Procs : InHand(y)'
  <2>1. SUFFICES ASSUME NEW y \in Procs \ {x} PROVE InHand(y)'
        OBVIOUS
  <2>2. InHand(y) /\ proc'[y] = proc[y]
        BY DEF Kept, Moves
  <2> QED
      BY <2>2 DEF InHand, At, Mine
<1>2. ASSUME NEW t \in DOMAIN world'.wire PROVE InMap(t)'
  <2>1. InMap(t) /\ t \in Tracks /\ t \in DOMAIN world.wire
        BY PeersOKNow DEF Kept, Known, Reading
  <2>2. Holds(t, t) => Holds(t, t)'
        BY <2>1, ProcKinds DEF Holds, Moves
  <2>3. Carried(t) => Carried(t)'
        BY <2>1, ProcKinds DEF Carried, Moves
  <2>4. \A i : Mapped(i, t)' <=> Mapped(i, t)
        BY DEF Mapped
  <2>5. proc[Pub].at \in {"find", "adopt", "unhook"} => proc'[Pub] = proc[Pub]
        BY ProcKinds DEF Moves
  <2>6. Adoptable(t) => Adoptable(t)'
        BY <2>4, <2>5 DEF Adoptable, At
  <2> QED
      BY <2>1, <2>2, <2>3, <2>4, <2>5, <2>6 DEF InMap, At
<1> QED
    BY <1>1, <1>2 DEF Kept

LEMMA KeptBrowser ==
    ASSUME Known, Kept, Staying, Browses, UNCHANGED published
    PROVE  Kept'
<1>1. \A t \in Tracks : media'[t] = "here" => media[t] = "here"
      BY DEF Browses
<1>2. \A y \in Procs : InHand(y) => InHand(y)'
  <2>1. ASSUME NEW y \in Procs, InHand(y) PROVE InHand(y)'
    <3>1. y = Pub /\ proc[y].at \in {"unhook", "stop"} => proc[y].id \in Tracks
          BY PeersOKNow DEF Known, Reading, PlacesOK, Placed
    <3> QED
        BY <1>1, <2>1, <3>1 DEF Browses, Still, InHand, At, Mine
  <2> QED
      BY <2>1
<1>3. ASSUME NEW t \in DOMAIN world.wire, InMap(t)
      PROVE  InMap(t)'
  <2>1. t \in Tracks
        BY PeersOKNow DEF Known, Reading
  <2> QED
      BY <1>1, <1>3, <2>1
      DEF Browses, Still, InMap, Holds, Mapped, Carried, Adoptable, At
<1> QED
    BY <1>2, <1>3 DEF Kept, Browses, Still

LEMMA KeptLookup ==
    ASSUME Known, Kept, Staying, NEW x \in Procs, Lookup(x)
    PROVE  Kept'
<1>1. /\ Quiet /\ Moves(x) /\ At(x, "lookup")
      /\ proc'[x].id = proc[x].id /\ proc'[x].src = proc[x].src
      /\ proc'[x].fw = fws[proc[x].id] /\ proc'[x].at \in {"create", "swap"}
      BY LookupDoes DEF Known, Reading, Lookup
<1>2. InHand(x)
      BY DEF Kept
<1>3. InHand(x)'
      BY <1>1, <1>2 DEF InHand, Quiet, At, Mine, Installs, LeavePlaces
<1>4. \A t \in Tracks : /\ Holds(x, t) => Holds(x, t)'
                        /\ x = Pub /\ Carried(t) => Carried(t)'
      BY <1>1 DEF Holds, Carried, Installs
<1> QED
    BY <1>1, <1>3, <1>4, KeptQuiet DEF Quiet, At

(* Media arrives, and is given the ID that it goes by.                     *)
LEMMA KeptHandleTrack ==
    ASSUME Known, Kept, Staying, NEW u \in Tracks, HandleTrack(u)
    PROVE  Kept'
<1>1. /\ Base /\ Begins(u) /\ media[u] = "coming"
      /\ media' = [media EXCEPT ![u] = "here"]
      /\ UNCHANGED <<world, fws, source, published>>
      /\ media \in [Tracks -> {"none", "coming", "here", "ended"}]
      BY HandleTrackDoes DEF Known, Reading, Base, TypeOK
<1>2. PICK i \in Resolved(u) : i \in IDs /\ Starts(u, "lookup", i, u, {})
      BY <1>1, HandleTrackDoes
<1>3. u \in DOMAIN world.wire /\ u \in Procs /\ u # Pub /\ Pub \in Procs
      BY <1>1, ProcKinds DEF Base, Stages
<1>4. i = Mine(u)
  <2> DEFINE alike == {p \in published : Kind[p] = Kind[u]}
             v == world.wire[u]
  <2>1. /\ \A p \in published : Kind[p] = Kind[u] => p = u
        /\ v \in published => v = u
    <3>1. published \subseteq DOMAIN world.wire /\ published \subseteq Tracks
          BY <1>1 DEF Base, TypeOK, Stages
    <3>2. Distinct(world)
          BY DEF Known
    <3> QED
        BY <1>3, <3>1, <3>2 DEF Distinct
  <2>2. i \in IF v \in published \/ alike = {} THEN {v} ELSE alike
        BY <1>2 DEF Resolved
  <2>3. CASE u \in published
    <3>1. u \in alike /\ \A p \in alike : p = u
          BY <2>1, <2>3
    <3> HIDE DEF alike
    <3> QED
        BY <2>1, <2>2, <2>3, <3>1 DEF Mine
  <2>4. CASE u \notin published
    <3>1. alike = {}
          BY <2>1, <2>4
    <3> QED
        BY <2>2, <2>4, <3>1 DEF Mine
  <2> QED
      BY <2>3, <2>4
<1>5. /\ Moves(u) /\ proc'[u].at = "lookup" /\ proc'[u].id = i
      /\ proc'[u].src = u /\ proc'[Pub] = proc[Pub]
      BY <1>2, <1>3 DEF Starts, Moves
<1>6. ASSUME NEW y \in Procs PROVE InHand(y)'
  <2>1. CASE y = u
        BY <1>1, <1>3, <1>4, <1>5, <2>1, ProcKinds
        DEF InHand, At, Installs, Mine
  <2>2. CASE y # u
    <3>1. InHand(y) /\ proc'[y] = proc[y]
          BY <1>5, <2>2 DEF Kept, Moves
    <3>2. y # Pub \/ proc[y].at \notin {"unhook", "stop"}
          BY <1>1, <3>1 DEF InHand, Begins, Settled, At
    <3> QED
        BY <1>1, <3>1, <3>2 DEF InHand, At, Mine
  <2> QED
      BY <2>1, <2>2
<1>7. ASSUME NEW t \in DOMAIN world'.wire PROVE InMap(t)'
  <2>1. t \in DOMAIN world.wire /\ t \in Tracks /\ InMap(t)
        BY <1>1, PeersOKNow DEF Kept
  <2>2. \/ t = u
        \/ media'[t] = media[t] /\ (Holds(t, t) => Holds(t, t)')
        BY <1>1, <1>5, <2>1, ProcKinds DEF Holds, Moves
  <2>3. t = u => Holds(t, t)'
        BY <1>5 DEF Holds, Installs
  <2>4. /\ \A j : Mapped(j, t)' <=> Mapped(j, t)
        /\ (Carried(t)' <=> Carried(t)) /\ (Adoptable(t)' <=> Adoptable(t))
        BY <1>1, <1>5 DEF Mapped, Carried, Adoptable, At
  <2> QED
      BY <1>1, <1>5, <2>1, <2>2, <2>3, <2>4 DEF InMap, At
<1> QED
    BY <1>6, <1>7 DEF Kept

(* Media that a process brings under an ID, and the media already there.   *)
LEMMA BroughtIsThere ==
    ASSUME Known, Kept, Staying, NEW x \in Procs, proc[x].at \in Installs,
           proc[x].src \in Tracks, Remote(fws[proc[x].id])
    PROVE  source[fws[proc[x].id]] = proc[x].src
<1> DEFINE t == proc[x].src
           i == proc[x].id
<1>1. /\ t \in DOMAIN world.wire /\ i \in {t, world.wire[t]} /\ i \in IDs
      /\ t \in Tracks
      BY Brought, WireIsID, ProcKinds DEF Known, Reading, Base
<1>2. PICK u \in DOMAIN world.wire :
          u = source[fws[i]] /\ i \in {u, world.wire[u]}
      BY <1>1 DEF Known, Reading, MapOK
<1>3. u \in Tracks
      BY PeersOKNow DEF Known, Reading
<1>4. CASE i = t
      BY <1>1, <1>2, <1>4 DEF Known, Distinct
<1>5. CASE i = world.wire[t]
      BY <1>1, <1>2, <1>3, <1>5 DEF Known, Distinct, OwnWires
<1> QED
    BY <1>1, <1>2, <1>4, <1>5

(* What process x leaves behind under its ID once it has a forwarder:      *)
(* nothing that was there before is lost, and its media is there.          *)
Delivers(x) ==
    /\ \A i \in IDs \ {proc[x].id} : fws'[i] = fws[i]
    /\ fws[proc[x].id] # NoFw => fws'[proc[x].id] = fws[proc[x].id]
    /\ \A i \in IDs : Remote(fws[i]) => source'[fws[i]] = source[fws[i]]
    /\ proc[x].src # Placeholder =>
          \/ Remote(fws[proc[x].id])
          \/ /\ fws'[proc[x].id] # NoFw
             /\ source'[fws'[proc[x].id]] = proc[x].src

LEMMA KeptDelivers ==
    ASSUME Known, Kept, Staying, NEW x \in Procs, Moves(x), Delivers(x),
           proc[x].at \in {"create", "swap"}, proc'[x].at = "created",
           proc'[x].id = proc[x].id,
           UNCHANGED <<world, published, media>>
    PROVE  Kept'
<1>1. /\ Base /\ Turn /\ InHand(x) /\ proc[x].at \in Installs
      /\ proc[x].id \in IDs /\ proc[x].src \in Tracks \cup {Placeholder}
      BY DEF Known, Reading, Kept, Installs, Base, ProcsOK, ProcOK, ProcType
<1>2. \A t \in DOMAIN world.wire : /\ t \in Tracks /\ t \in IDs
                                   /\ world.wire[t] \in IDs
      BY <1>1, PeersOKNow, ProcKinds, WireIsID DEF Base
<1>3. \A i \in IDs, t \in Tracks : Mapped(i, t) => Mapped(i, t)'
  <2>1. SUFFICES ASSUME NEW i \in IDs, NEW t \in Tracks, Mapped(i, t)
                 PROVE  Mapped(i, t)'
        OBVIOUS
  <2>2. Remote(fws[i]) /\ fws[i] # NoFw
        BY <2>1, ProcKinds DEF Mapped, Remote
  <2>3. fws'[i] = fws[i] /\ source'[fws[i]] = source[fws[i]]
        BY <2>2 DEF Delivers
  <2> QED
      BY <2>1, <2>2, <2>3 DEF Mapped
<1>4. \A t \in Tracks : t = proc[x].src =>
         fws'[proc[x].id] # NoFw /\ source'[fws'[proc[x].id]] = t
  <2>1. SUFFICES ASSUME NEW i \in IDs, NEW t \in Tracks, i = proc[x].id,
                        t = proc[x].src, Remote(fws[i])
                 PROVE  Mapped(i, t)'
        BY <1>1, ProcKinds DEF Mapped, Delivers
  <2>2. Mapped(i, t)
        BY <1>1, <2>1, BroughtIsThere DEF Mapped, Remote
  <2> QED
      BY <1>3, <2>2
<1>5. \A y \in Procs \ {x} : proc'[y] = proc[y] /\ InHand(y)
      BY DEF Kept, Moves
<1>6. ASSUME NEW y \in Procs PROVE InHand(y)'
  <2>1. CASE y = x
        BY <2>1 DEF InHand, At, Installs, LeavePlaces
  <2>2. CASE y # x
    <3>1. At(y, "swap") => fws'[proc[y].id] = fws[proc[y].id]
      <4>1. At(y, "swap") => fws[proc[y].id] # NoFw /\ proc[y].id \in IDs
            BY <1>1, <1>5, <2>2 DEF InHand, At, Base, ProcsOK, ProcOK, Installs
      <4> QED
          BY <4>1 DEF Delivers
    <3> QED
        BY <1>5, <2>2, <3>1 DEF InHand, At, Mine
  <2> QED
      BY <2>1, <2>2
<1>7. x = Pub \/ proc[x].src = Placeholder \/ x = proc[x].src
      BY <1>1, Brought DEF Known, Reading
<1>8. Pub \in Procs /\ (x # Pub => proc'[Pub] = proc[Pub])
      BY ProcKinds DEF Moves
<1>9. ASSUME NEW t \in DOMAIN world'.wire, media[t] = "here"
      PROVE  Holds(t, t)' \/ Mapped(t, t)' \/ Carried(t)' \/ Adoptable(t)'
  <2>1. /\ t \in DOMAIN world.wire /\ t \in Tracks /\ t \in IDs
        /\ world.wire[t] \in IDs /\ t \in Procs
        /\ Holds(t, t) \/ Mapped(t, t) \/ Carried(t) \/ Adoptable(t)
        BY <1>2, <1>9, ProcKinds DEF Kept, InMap
  <2>2. CASE Mapped(t, t)
        BY <1>3, <2>1, <2>2
  <2>3. CASE Holds(t, t) /\ t # x
        BY <1>5, <2>1, <2>3 DEF Holds
  <2>4. CASE Holds(t, t) /\ t = x
    <3>1. t = proc[x].src /\ proc[x].id = Mine(t)
          BY <1>1, <2>1, <2>4 DEF Holds, InHand
    <3>2. fws'[Mine(t)] # NoFw /\ source'[fws'[Mine(t)]] = t
          BY <1>4, <2>1, <3>1
    <3>3. CASE t \in published
          BY <3>2, <3>3 DEF Mine, Mapped
    <3>4. CASE t \notin published
          BY <3>2, <3>4 DEF Mine, Mapped, Adoptable
    <3> QED
        BY <3>3, <3>4
  <2>5. CASE Carried(t) /\ x # Pub
        BY <1>8, <2>5 DEF Carried
  <2>6. CASE Carried(t) /\ x = Pub
    <3>1. proc[x].src = t /\ proc[x].id = t
          BY <1>1, <2>1, <2>6, ProcKinds
          DEF Carried, Known, Reading, PlacesOK, Placed
    <3>2. Mapped(t, t)'
          BY <1>4, <2>1, <3>1 DEF Mapped
    <3> QED
        BY <3>2
  <2>7. CASE Adoptable(t)
    <3>1. Mapped(world.wire[t], t)'
          BY <1>3, <2>1, <2>7 DEF Adoptable
    <3>2. CASE world.overlap
      <4>1. world.wire[t] = t
            BY <2>1, <3>2 DEF Staying, InTurn
      <4> QED
          BY <3>1, <4>1
    <3>3. CASE ~world.overlap
      <4>1. ~At(x, "idle") /\ (x # Pub => At(Pub, "idle"))
            BY <1>1, <1>8, <3>3 DEF Turn, At
      <4>2. t \notin published
            BY <1>1, <2>7, <4>1 DEF Adoptable, At, Installs
      <4> QED
          BY <3>1, <4>2 DEF Adoptable
    <3> QED
        BY <3>2, <3>3
  <2> QED
      BY <2>1, <2>2, <2>3, <2>4, <2>5, <2>6, <2>7
<1>10. ASSUME NEW t \in DOMAIN world'.wire, fws'[t] # NoFw, world.wire[t] # t
       PROVE  \/ t \in published
              \/ At(Pub, "unhook")' /\ proc'[Pub].src = Placeholder
                 /\ proc'[Pub].id = t
  <2>1. t \in DOMAIN world.wire /\ t \in Tracks /\ t \in IDs /\ InMap(t)
        BY <1>2 DEF Kept
  <2>2. CASE fws[t] # NoFw
    <3>1. \/ t \in published
          \/ /\ At(Pub, "unhook") /\ proc[Pub].src = Placeholder
             /\ proc[Pub].id = t
          BY <1>10, <2>1, <2>2 DEF InMap
    <3> QED
        BY <1>1, <1>8, <3>1 DEF At, Installs
  <2>3. CASE fws[t] = NoFw
    <3>1. proc[x].id = t
          BY <1>10, <2>1, <2>3 DEF Delivers
    <3>2. CASE x \notin Tracks
          BY <1>1, <3>1, <3>2 DEF InHand
    <3>3. CASE x \in Tracks
      <4>1. t = Mine(x) /\ t \in {x, world.wire[x]} /\ x \in DOMAIN world.wire
            BY <1>1, <3>1, <3>3 DEF InHand, Known, Reading, PlacesOK, Placed
      <4>2. t = x
            BY <2>1, <4>1 DEF Known, Distinct
      <4> QED
          BY <1>10, <4>1, <4>2 DEF Mine
    <3> QED
        BY <3>2, <3>3
  <2> QED
      BY <2>2, <2>3
<1> QED
    BY <1>6, <1>9, <1>10 DEF Kept, InMap

LEMMA KeptInstalls ==
    ASSUME Known, Kept, Staying, NEW x \in Procs, Swap(x) \/ Create(x)
    PROVE  Kept'
<1>1. /\ Base /\ HandOK(x) /\ InHand(x)
      /\ NoFw \notin Forwarders /\ proc[x].src \in Tracks \cup {Placeholder}
      /\ \A i \in IDs : Remote(fws[i]) => fws[i] \in Forwarders
  <2>1. Base /\ HandOK(x) /\ InHand(x)
        BY DEF Known, Reading, Kept
  <2>2. \A i \in IDs : Remote(fws[i]) => fws[i] \in Forwarders
        BY <2>1, Entries DEF Remote
  <2> QED
      BY <2>1, <2>2, RegistryAssumption
      DEF Base, ProcsOK, ProcOK, ProcType, NoFw, Forwarders, RegistryAssumption
<1>2. CASE Swap(x)
  <2>1. /\ Moves(x) /\ Keeps(x) /\ At(x, "swap")
        /\ proc'[x].at = "created" /\ proc[x].fw \in Forwarders
        /\ \/ /\ proc[x].src \in Tracks /\ ~Remote(proc[x].fw)
              /\ source' = [source EXCEPT ![proc[x].fw] = proc[x].src]
           \/ /\ proc[x].src = Placeholder \/ Remote(proc[x].fw)
              /\ UNCHANGED source
        /\ UNCHANGED <<world, fws, published, media>>
        BY <1>1, <1>2, SwapDoes
  <2>2. fws[proc[x].id] = proc[x].fw
        BY <1>1, <2>1 DEF InHand
  <2>3. source \in [Forwarders -> Tracks \cup {Placeholder}]
        BY <1>1 DEF Base, ForwardersOK
  <2> SUFFICES Delivers(x)
      BY <2>1, KeptDelivers DEF Keeps, At
  <2>4. CASE /\ proc[x].src \in Tracks /\ ~Remote(proc[x].fw)
             /\ source' = [source EXCEPT ![proc[x].fw] = proc[x].src]
    <3>1. \A i \in IDs : Remote(fws[i]) => fws[i] # proc[x].fw
          BY <2>4
    <3>2. \A i \in IDs : Remote(fws[i]) => source'[fws[i]] = source[fws[i]]
          BY <1>1, <2>3, <2>4, <3>1
    <3>3. source'[proc[x].fw] = proc[x].src /\ proc[x].fw # NoFw
          BY <1>1, <2>1, <2>3, <2>4
    <3> QED
        BY <2>1, <2>2, <3>2, <3>3 DEF Delivers
  <2>5. CASE /\ proc[x].src = Placeholder \/ Remote(proc[x].fw)
             /\ UNCHANGED source
        BY <2>1, <2>2, <2>5 DEF Delivers
  <2> QED
      BY <2>1, <2>4, <2>5
<1>3. CASE Create(x)
  <2> DEFINE k == proc'[x].fw
  <2>1. /\ Moves(x) /\ At(x, "create") /\ proc[x].id \in IDs
        /\ proc'[x].id = proc[x].id /\ proc'[x].at = "created"
        /\ k \in Forwarders /\ (Installed(x, k) \/ Found(x, k))
        /\ UNCHANGED <<world, published, media>>
        BY <1>1, <1>3, CreateDoes
  <2>2. /\ source \in [Forwarders -> Tracks \cup {Placeholder}]
        /\ fws \in [IDs -> 0..MaxForwarders]
        BY <1>1 DEF Base, ForwardersOK
  <2> SUFFICES Delivers(x)
      BY <2>1, KeptDelivers DEF At
  <2> HIDE DEF k
  <2>3. CASE Installed(x, k)
    <3>1. \A i \in IDs : fws[i] # k
          BY <2>3 DEF Installed, InUse
    <3>2. /\ fws' = [fws EXCEPT ![proc[x].id] = k]
          /\ source' = [source EXCEPT ![k] = proc[x].src]
          /\ fws[proc[x].id] = NoFw
          BY <2>3 DEF Installed
    <3>3. \A i \in IDs : Remote(fws[i]) => source'[fws[i]] = source[fws[i]]
          BY <1>1, <2>1, <2>2, <3>1, <3>2
    <3> QED
        BY <1>1, <2>1, <2>2, <3>2, <3>3 DEF Delivers
  <2>4. CASE Found(x, k)
    <3>1. /\ UNCHANGED fws /\ fws[proc[x].id] = k
          /\ \/ /\ proc[x].src \in Tracks /\ ~Remote(k)
                /\ source' = [source EXCEPT ![k] = proc[x].src]
             \/ (proc[x].src = Placeholder \/ Remote(k)) /\ UNCHANGED source
          BY <2>4 DEF Found
    <3>2. \A i \in IDs : Remote(fws[i]) /\ ~Remote(k) => fws[i] # k
          OBVIOUS
    <3>3. \A i \in IDs : Remote(fws[i]) => source'[fws[i]] = source[fws[i]]
          BY <1>1, <2>1, <2>2, <3>1, <3>2
    <3>4. \/ proc[x].src = Placeholder \/ Remote(k)
          \/ source'[k] = proc[x].src
          BY <2>1, <2>2, <3>1
    <3> QED
        BY <1>1, <2>1, <3>1, <3>3, <3>4 DEF Delivers
  <2> QED
      BY <2>1, <2>3, <2>4
<1> QED
    BY <1>2, <1>3

LEMMA KeptFinds ==
    ASSUME Known, Kept, Staying, FindForwarder
    PROVE  Kept'
<1>1. /\ Quiet /\ Moves(Pub) /\ Keeps(Pub) /\ At(Pub, "find")
      /\ \/ fws[proc[Pub].id] = NoFw /\ proc'[Pub].at = "adopt"
         \/ fws[proc[Pub].id] # NoFw /\ proc'[Pub].at = "created"
      BY FindForwarderDoes DEF Known, Reading
<1>2. Pub \in Procs /\ Pub \notin Subs /\ Pub \notin Tracks
      BY ProcKinds
<1>3. ASSUME NEW y \in Procs PROVE InHand(y)'
  <2>1. InHand(y) /\ (y # Pub => proc'[y] = proc[y])
        BY <1>1 DEF Kept, Moves
  <2>2. CASE y # Pub
        BY <1>1, <2>1, <2>2 DEF InHand, At, Mine, Quiet
  <2>3. InHand(Pub)'
    <3>1. InHand(Pub)
          BY <1>2 DEF Kept
    <3> QED
        BY <1>1, <1>2, <3>1 DEF InHand, At, Installs, Keeps, Quiet
  <2> QED
      BY <2>2, <2>3
<1>4. ASSUME NEW t \in DOMAIN world'.wire PROVE InMap(t)'
  <2>1. t \in DOMAIN world.wire /\ t \in Tracks /\ InMap(t)
        BY <1>1, PeersOKNow DEF Kept, Known, Reading, Quiet
  <2>2. proc'[t] = proc[t]
        BY <1>1, <2>1, ProcKinds DEF Moves
  <2>3. ~Carried(t)
        BY <1>1 DEF Carried, At, Installs
  <2>4. Adoptable(t) => Adoptable(t)'
        BY <1>1 DEF Adoptable, Mapped, At, Quiet, Keeps
  <2> QED
      BY <1>1, <2>1, <2>2, <2>3, <2>4 DEF InMap, Holds, Mapped, At, Quiet
<1> QED
    BY <1>3, <1>4 DEF Kept

(* The publisher does not miss the media that waits under the browser's ID. *)
LEMMA OrphanIsFound ==
    ASSUME Known, NEW t \in DOMAIN world.wire, Mapped(world.wire[t], t),
           world.wire[t] # t
    PROVE  world.wire[t] \in Orphans(t)
<1>1. t \in Tracks /\ world.wire[t] \in IDs
      BY WireIsID DEF Known, Reading, Base
<1>2. world.wire[t] \notin published
      BY DEF Known, Distinct, Reading, Base, TypeOK
<1> QED
    BY <1>1, <1>2, ProcKinds DEF Orphans, Mapped, Remote

LEMMA KeptAdopts ==
    ASSUME Known, Kept, Staying, AdoptOrphanForwarder
    PROVE  Kept'
<1>1. /\ Quiet /\ Moves(Pub) /\ At(Pub, "adopt")
      /\ proc'[Pub].id = proc[Pub].id
      /\ \/ /\ Orphans(proc[Pub].id) = {} /\ proc'[Pub].at = "lookup"
            /\ proc'[Pub].src = proc[Pub].src
         \/ \E i \in Orphans(proc[Pub].id) :
               /\ proc'[Pub].at = "unhook"
               /\ proc'[Pub].src = source[fws[i]]
               /\ proc'[Pub].todo = {<<i, NoFw>>}
      BY AdoptDoes DEF Known, Reading
<1>2. Pub \in Procs /\ Pub \notin Subs /\ Pub \notin Tracks
      BY ProcKinds
<1>3. InHand(Pub) /\ proc[Pub].id \in published /\ proc[Pub].id \in Tracks
  <2>1. InHand(Pub) /\ published \subseteq Tracks
        BY <1>2 DEF Kept, Known, Reading, Base, TypeOK
  <2> QED
      BY <1>1, <2>1 DEF InHand, At
<1>4. \/ Orphans(proc[Pub].id) = {} /\ proc'[Pub].at = "lookup"
      \/ \E i \in IDs :
            /\ proc'[Pub].at = "unhook" /\ proc'[Pub].src = proc[Pub].id
            /\ i = world.wire[proc[Pub].id] /\ i # proc[Pub].id
            /\ proc'[Pub].todo = {<<i, NoFw>>}
            /\ ~world.overlap
  <2>1. ASSUME NEW i \in Orphans(proc[Pub].id)
        PROVE  /\ source[fws[i]] = proc[Pub].id /\ i \in IDs
               /\ i = world.wire[proc[Pub].id] /\ i # proc[Pub].id
               /\ ~world.overlap
    <3>1. /\ source[fws[i]] = proc[Pub].id /\ proc[Pub].id \in DOMAIN world.wire
          /\ i = world.wire[proc[Pub].id] /\ i # proc[Pub].id
          BY <1>1, OrphanIsOwn DEF Known, Reading
    <3> QED
        BY <3>1 DEF Staying, InTurn, Orphans
  <2> QED
      BY <1>1, <2>1
<1>5. ASSUME NEW y \in Procs PROVE InHand(y)'
  <2>1. InHand(y) /\ (y # Pub => proc'[y] = proc[y])
        BY <1>1 DEF Kept, Moves
  <2>2. CASE y # Pub
        BY <1>1, <2>1, <2>2 DEF InHand, At, Mine, Quiet
  <2>3. InHand(Pub)'
        BY <1>1, <1>2, <1>3, <1>4, ProcKinds DEF InHand, At, Installs, Quiet
  <2> QED
      BY <2>2, <2>3
<1>6. ASSUME NEW t \in DOMAIN world'.wire PROVE InMap(t)'
  <2>1. t \in DOMAIN world.wire /\ t \in Tracks /\ InMap(t)
        BY <1>1, PeersOKNow DEF Kept, Known, Reading, Quiet
  <2>2. proc'[t] = proc[t]
        BY <1>1, <2>1, ProcKinds DEF Moves
  <2>3. ~Carried(t) /\ UNCHANGED <<fws, source, published, media, world>>
        BY <1>1 DEF Carried, At, Installs, Quiet
  <2>4. Adoptable(t) /\ t \in published => proc[Pub].id = t
        BY <1>1 DEF Adoptable, At
  <2>5. Adoptable(t) => Mapped(t, t)' \/ Carried(t)' \/ Adoptable(t)'
    <3>1. CASE Adoptable(t) /\ t \notin published
          BY <2>3, <3>1 DEF Adoptable, Mapped
    <3>2. CASE Adoptable(t) /\ proc[Pub].id = t
      <4>1. CASE world.wire[t] = t
            BY <2>3, <3>2, <4>1 DEF Adoptable, Mapped
      <4>2. CASE world.wire[t] # t
        <5>1. Orphans(proc[Pub].id) # {}
              BY <2>1, <3>2, <4>2, OrphanIsFound DEF Adoptable
        <5> QED
            BY <1>4, <3>2, <5>1 DEF Carried
      <4> QED
          BY <4>1, <4>2
    <3> QED
        BY <2>4, <3>1, <3>2
  <2> QED
      BY <1>1, <2>1, <2>2, <2>3, <2>5 DEF InMap, Holds, Mapped, At
<1> QED
    BY <1>5, <1>6 DEF Kept

LEMMA KeptUnhooks ==
    ASSUME Known, Kept, Staying, RemoveForwarder
    PROVE  Kept'
<1>1. /\ Moves(Pub) /\ At(Pub, "unhook") /\ proc'[Pub].at = "stop"
      /\ proc'[Pub].id = proc[Pub].id /\ proc'[Pub].src = proc[Pub].src
      /\ UNCHANGED <<world, source, published, media>>
      BY RemoveForwarderDoes DEF Known, Reading
<1>2. /\ Pub \in Procs /\ Pub \notin Subs /\ Pub \notin Tracks /\ InHand(Pub)
      /\ fws \in [IDs -> 0..MaxForwarders]
      BY ProcKinds DEF Kept, Known, Reading, Base, ForwardersOK
<1>3. PICK i \in IDs : /\ proc[Pub].todo = {<<i, NoFw>>}
                       /\ fws' = [fws EXCEPT ![i] = NoFw]
      BY RemoveForwarderDoes DEF Known, Reading
<1>4. \A a, b : {<<a, NoFw>>} = {<<b, NoFw>>} => a = b
  <2>1. \A c, d : {c} = {d} => c = d
        BY Zenon
  <2>2. ASSUME NEW a, NEW b, {<<a, NoFw>>} = {<<b, NoFw>>}
        PROVE  a = b
    <3>1. <<a, NoFw>> = <<b, NoFw>>
          BY <2>1, <2>2, Zenon
    <3> QED
        BY <3>1
  <2> QED
      BY <2>2
<1>5. /\ ~world.overlap /\ proc[Pub].id \in DOMAIN world.wire
      /\ proc[Pub].src \in {proc[Pub].id, Placeholder}
      /\ proc[Pub].id \in Tracks
      BY <1>1, <1>2, PeersOKNow
      DEF InHand, Known, Reading, PlacesOK, Placed, At
<1>6. proc[Pub].src = Placeholder =>
          i = proc[Pub].id /\ i \notin published /\ media[i] # "here"
      BY <1>1, <1>2, <1>3, <1>4 DEF InHand, At
<1>7. proc[Pub].src # Placeholder =>
          i = world.wire[proc[Pub].id] /\ i # proc[Pub].id
      BY <1>1, <1>2, <1>3, <1>4 DEF InHand, At
<1>8. \A y \in Procs \ {Pub} : proc[y].at = "idle" /\ proc'[y].at = "idle"
      BY <1>1, <1>2, <1>5, KeptAlone DEF Known, Reading, At
<1>9. ASSUME NEW y \in Procs PROVE InHand(y)'
  <2>1. CASE y # Pub
        BY <1>8, <2>1 DEF InHand, At, Installs, LeavePlaces
  <2>2. InHand(Pub)'
        BY <1>1, <1>2 DEF InHand, At, Installs
  <2> QED
      BY <2>1, <2>2
<1>10. ASSUME NEW t \in DOMAIN world'.wire PROVE InMap(t)'
  <2>1. /\ t \in DOMAIN world.wire /\ t \in Tracks /\ t \in Procs /\ InMap(t)
        /\ t \in IDs /\ world.wire[t] \in IDs
        BY <1>1, PeersOKNow, ProcKinds, WireIsID
        DEF Kept, Known, Reading, Base
  <2>2. ~Holds(t, t)
        BY <1>2, <1>8, <2>1 DEF Holds, Installs
  <2>3. Carried(t) => Carried(t)'
        BY <1>1 DEF Carried
  <2>4. \A j \in IDs \ {i} : fws'[j] = fws[j] /\ (Mapped(j, t) => Mapped(j, t)')
        BY <1>1, <1>2, <1>3 DEF Mapped
  <2>5. fws'[i] = NoFw
        BY <1>2, <1>3
  <2>6. CASE proc[Pub].src = Placeholder
    <3>1. i \in Tracks /\ i \notin published /\ media[i] # "here"
          BY <1>5, <1>6, <2>6
    <3>2. i = world.wire[t] => i = t
          BY <2>1, <3>1 DEF Known, Distinct
    <3>3. media[t] = "here" => t # i /\ i # world.wire[t]
          BY <3>1, <3>2
    <3>4. Adoptable(t) => t \notin published
          BY <1>1 DEF Adoptable, At
    <3>5. media[t] = "here" => Mapped(t, t)' \/ Carried(t)' \/ Adoptable(t)'
          BY <1>1, <2>1, <2>2, <2>3, <2>4, <3>3, <3>4 DEF InMap, Adoptable
    <3>6. fws'[t] # NoFw => t # i /\ fws[t] # NoFw
          BY <2>1, <2>4, <2>5
    <3>7. fws'[t] # NoFw /\ world.wire[t] # t => t \in published
          BY <1>6, <2>1, <2>6, <3>6 DEF InMap
    <3> QED
        BY <1>1, <3>5, <3>7 DEF InMap
  <2>7. CASE proc[Pub].src # Placeholder
    <3>1. /\ i = world.wire[proc[Pub].id] /\ i # proc[Pub].id
          /\ proc[Pub].src = proc[Pub].id
          BY <1>5, <1>7, <2>7
    <3>2. t # i
          BY <1>5, <2>1, <3>1 DEF Known, Distinct
    <3>3. i = world.wire[t] => t = proc[Pub].src
          BY <1>5, <2>1, <3>1 DEF Known, OwnWires
    <3>4. t = proc[Pub].src => Carried(t)'
          BY <1>1 DEF Carried
    <3>5. Adoptable(t) => t \notin published
          BY <1>1 DEF Adoptable, At
    <3>6. media[t] = "here" => Mapped(t, t)' \/ Carried(t)' \/ Adoptable(t)'
          BY <1>1, <2>1, <2>2, <2>3, <2>4, <3>2, <3>3, <3>4, <3>5
          DEF InMap, Adoptable
    <3>7. fws'[t] # NoFw /\ world.wire[t] # t => t \in published
          BY <2>1, <2>4, <2>7, <3>2 DEF InMap
    <3> QED
        BY <1>1, <3>6, <3>7 DEF InMap
  <2> QED
      BY <2>6, <2>7
<1> QED
    BY <1>9, <1>10 DEF Kept

LEMMA KeptPublishes ==
    ASSUME Known, Kept, Staying, NEW u \in Tracks, HandlePublishTrack(u)
    PROVE  Kept'
<1>1. /\ Begins(Pub) /\ u \in DOMAIN world.wire \ published
      /\ published' = published \cup {u}
      /\ Starts(Pub, "find", u, Placeholder, {})
      /\ UNCHANGED <<world, fws, source, media>>
      BY HandlePublishTrackDoes DEF Known, Reading
<1>2. /\ Moves(Pub) /\ proc'[Pub].at = "find" /\ proc'[Pub].id = u
      /\ At(Pub, "idle")
      BY <1>1 DEF Starts, Begins
<1>3. Pub \in Procs /\ Pub \notin Subs /\ Pub \notin Tracks
      BY ProcKinds
<1>4. ASSUME NEW y \in Procs PROVE InHand(y)'
  <2>1. CASE y # Pub
    <3>1. InHand(y) /\ proc'[y] = proc[y]
          BY <1>2, <2>1 DEF Kept, Moves
    <3>2. y \in Tracks /\ proc[y].at \in Installs => Mine(y)' = Mine(y)
      <4>1. CASE ~world.overlap
            BY <1>1, <4>1 DEF Begins, Settled, At, Installs
      <4>2. CASE world.overlap /\ y \in Tracks /\ proc[y].at \in Installs
        <5>1. y \in DOMAIN world.wire
              BY <4>2 DEF Known, Reading, PlacesOK, Placed
        <5>2. world.wire[y] = y
              BY <4>2, <5>1 DEF Staying, InTurn
        <5> QED
            BY <1>1, <5>2 DEF Mine
      <4> QED
          BY <4>1, <4>2
    <3> QED
        BY <1>1, <2>1, <3>1, <3>2 DEF InHand, At
  <2>2. InHand(Pub)'
        BY <1>1, <1>2, <1>3 DEF InHand, At, Installs
  <2> QED
      BY <2>1, <2>2
<1>5. ASSUME NEW t \in DOMAIN world'.wire PROVE InMap(t)'
  <2>1. t \in DOMAIN world.wire /\ t \in Tracks /\ InMap(t)
        BY <1>1, PeersOKNow DEF Kept, Known, Reading
  <2>2. proc'[t] = proc[t]
        BY <1>2, <2>1, ProcKinds DEF Moves
  <2>3. ~Carried(t) /\ ~At(Pub, "unhook")
        BY <1>2 DEF Carried, At, Installs
  <2>4. Adoptable(t) => Mapped(world.wire[t], t) /\ t \notin published
        BY <1>2 DEF Adoptable, At
  <2>5. Adoptable(t) => Mapped(t, t)' \/ Adoptable(t)'
    <3>1. CASE t # u
          BY <1>1, <2>4, <3>1 DEF Adoptable, Mapped
    <3>2. CASE t = u /\ world.wire[t] = t
          BY <1>1, <2>4, <3>2 DEF Mapped
    <3>3. CASE t = u /\ world.wire[t] # t
      <4>1. fws[t] = NoFw
            BY <1>1, <2>1, <2>3, <3>3 DEF InMap
      <4> QED
          BY <1>1, <1>2, <2>4, <3>3, <4>1 DEF Adoptable, Mapped, At
    <3> QED
        BY <3>1, <3>2, <3>3
  <2> QED
      BY <1>1, <2>1, <2>2, <2>3, <2>5 DEF InMap, Holds, Mapped
<1> QED
    BY <1>4, <1>5 DEF Kept

LEMMA KeptUnpublishes ==
    ASSUME Known, Kept, Staying, NEW u \in Tracks, HandleUnpublishTrack(u)
    PROVE  Kept'
<1>1. /\ "unpublish" \in world.ops /\ Begins(Pub) /\ u \in published
      /\ published' = published \ {u}
      /\ media' = [media EXCEPT ![u] = IF @ = "here" THEN "ended" ELSE @]
      /\ Starts(Pub, "unhook", u, Placeholder, {<<u, NoFw>>})
      /\ UNCHANGED <<world, fws, source>>
      /\ media \in [Tracks -> {"none", "coming", "here", "ended"}]
      BY HandleUnpublishTrackDoes DEF Known, Reading, Base, TypeOK
<1>2. /\ Moves(Pub) /\ proc'[Pub].at = "unhook" /\ proc'[Pub].id = u
      /\ proc'[Pub].src = Placeholder /\ proc'[Pub].todo = {<<u, NoFw>>}
      BY <1>1 DEF Starts
<1>3. ~world.overlap /\ \A y \in Procs : proc[y].at = "idle"
      BY <1>1 DEF Staying, Begins, Settled, At
<1>4. Pub \in Procs /\ Pub \notin Subs /\ Pub \notin Tracks
      BY ProcKinds
<1>5. \A t \in Tracks : media'[t] = "here" => t # u /\ media[t] = "here"
      BY <1>1
<1>6. ASSUME NEW y \in Procs PROVE InHand(y)'
  <2>1. CASE y # Pub
    <3>1. proc'[y].at = "idle"
          BY <1>2, <1>3, <2>1 DEF Moves
    <3> QED
        BY <2>1, <3>1 DEF InHand, At, Installs, LeavePlaces
  <2>2. InHand(Pub)'
    <3>1. media'[u] # "here" /\ u \notin published'
          BY <1>1, <1>5
    <3> QED
        BY <1>1, <1>2, <1>3, <1>4, <3>1 DEF InHand, At, Installs
  <2> QED
      BY <2>1, <2>2
<1>7. ASSUME NEW t \in DOMAIN world'.wire PROVE InMap(t)'
  <2>1. t \in DOMAIN world.wire /\ t \in Tracks /\ t \in Procs /\ InMap(t)
        BY <1>1, PeersOKNow, ProcKinds DEF Kept, Known, Reading
  <2>2. ~Carried(t) /\ ~Holds(t, t) /\ ~At(Pub, "unhook")
        BY <1>3, <1>4, <2>1 DEF Carried, Holds, At, Installs
  <2>3. Adoptable(t) => Adoptable(t)'
        BY <1>1, <1>3, <1>4 DEF Adoptable, Mapped, At
  <2>4. media'[t] = "here" => Mapped(t, t)' \/ Adoptable(t)'
        BY <1>1, <1>5, <2>1, <2>2, <2>3 DEF InMap, Mapped
  <2>5. fws[t] # NoFw /\ world.wire[t] # t => t \in published
        BY <2>1, <2>2 DEF InMap
  <2> QED
      BY <1>1, <1>2, <2>4, <2>5 DEF InMap, At
<1> QED
    BY <1>6, <1>7 DEF Kept

(* The publisher's loop after the forwarder is there, and the media's.     *)
LEMMA KeptAttaches ==
    ASSUME Known, Kept, Staying, NEW x \in Procs,
           \/ x = Pub /\ (MediaReady \/ Stop(x))
           \/ x \in Tracks /\ TrackRegistered(x)
           \/ AutoSubscribe(x) \/ AutoAttach(x)
    PROVE  Kept'
<1>1. Base /\ InHand(x) /\ (x = Pub => x \notin Subs /\ x \notin Tracks)
      BY ProcKinds DEF Known, Reading, Kept
<1>2. CASE x = Pub /\ Stop(x)
  <2>1. /\ Moves(x) /\ At(x, "stop")
        /\ \/ /\ proc[x].src # Placeholder /\ Keeps(x)
              /\ proc'[x].at = "lookup"
           \/ proc[x].src = Placeholder /\ proc'[x] = Idle
        /\ UNCHANGED <<world, fws, source, published, media>>
        BY <1>1, <1>2, StopDoes
  <2>2. InHand(x)'
        BY <1>1, <1>2, <2>1, IdleOK DEF InHand, At, Keeps, Installs
  <2>3. \A t \in Tracks : ~Holds(x, t) /\ (Carried(t) => Carried(t)')
        BY <1>2, <2>1, ProcKinds DEF Holds, Carried, At, Keeps, Installs
  <2> QED
      BY <2>1, <2>2, <2>3, KeptQuiet DEF At
<1>3. CASE \/ x = Pub /\ MediaReady
           \/ x \in Tracks /\ TrackRegistered(x)
           \/ AutoSubscribe(x) \/ AutoAttach(x)
  <2>1. /\ Moves(x) /\ x \notin Subs
        /\ proc[x].at \in {"created", "auto", "attach"}
        /\ proc'[x].at \in {"idle", "auto", "attach"}
        /\ UNCHANGED <<world, fws, source, published, media>>
    <3>1. CASE x = Pub /\ MediaReady
          BY <1>1, <3>1, MediaReadyDoes, IdleOK DEF Quiet, At
    <3>2. CASE x \in Tracks /\ TrackRegistered(x)
          BY <1>1, <3>2, TrackRegisteredDoes, ProcKinds, IdleOK DEF Quiet, At
    <3>3. CASE AutoSubscribe(x)
          BY <1>1, <3>3, AutoSubscribeDoes, IdleOK DEF Quiet, At
    <3>4. CASE AutoAttach(x)
          BY <1>1, <3>4, AutoAttachDoes, IdleOK DEF GoesOn, At
    <3> QED
        BY <1>3, <3>1, <3>2, <3>3, <3>4
  <2>2. InHand(x)'
        BY <2>1 DEF InHand, At, Installs
  <2>3. \A t \in Tracks : ~Holds(x, t) /\ (x = Pub => ~Carried(t))
        BY <2>1 DEF Holds, Carried, Installs
  <2> QED
      BY <2>1, <2>2, <2>3, KeptQuiet
<1> QED
    BY <1>2, <1>3

(* A subscriber that attaches itself, or only thinks about it.             *)
LEMMA KeptSubscribes ==
    ASSUME Known, Kept, Staying, NEW s \in Subs,
           \/ FindSubscribed(s) \/ Decide(s) \/ AddSubscriber(s)
           \/ AttachSubscribedReady(s) \/ Exchanged(s)
           \/ \E t \in Tracks : HandleSubscribeTrack(s, t)
    PROVE  Kept'
<1>1. /\ Base /\ s \in Procs /\ s \notin Tracks /\ s # Pub
      /\ proc[s].src = Placeholder
      /\ s \in members \/ proc[s].at \in LeavePlaces
      BY ProcKinds DEF Known, Reading, Base, Stages, ProcsOK, ProcOK
<1>2. /\ Moves(s) /\ UNCHANGED <<world, fws, source, published, media>>
      /\ proc'[s].at \in {"idle", "lookup", "created", "add", "flush", "find"}
      /\ proc'[s].at = "lookup" => proc'[s].id \in published
  <2>1. CASE FindSubscribed(s)
    <3>1. /\ Moves(s) /\ At(s, "find")
          /\ UNCHANGED <<world, forwarders, published, peers>>
          /\ \/ proc'[s] = Idle
             \/ /\ proc'[s].at \in {"lookup", "created"}
                /\ proc'[s].at = "created" => fws[proc[s].id] # NoFw
                /\ proc'[s].fw = fws[proc[s].id] /\ proc'[s].id = proc[s].id
          BY <1>1, <2>1, FindSubscribedDoes
    <3>2. proc'[s].at = "lookup" => proc[s].id \in published
      <4> DEFINE k == fws[proc[s].id]
                 a == IF k = NoFw THEN "lookup" ELSE "created"
                 found == k # NoFw \/ proc[s].id \in published
      <4>1. proc[s] \in ProcType /\ ProcsOK
            BY <1>1 DEF Base, ProcsOK, ProcOK
      <4>2. CASE found
        <5>1. Goto(s, [proc[s] EXCEPT !.fw = k, !.at = a])
              BY <2>1, <4>2 DEF FindSubscribed
        <5>2. proc'[s] = [proc[s] EXCEPT !.fw = k, !.at = a]
              BY <1>1, <4>1, <5>1, GotoMoves
        <5>3. proc'[s].at = a
              BY <4>1, <5>2 DEF ProcType
        <5> QED
            BY <4>2, <5>3
      <4>3. CASE ~found
        <5>1. Goto(s, Idle)
              BY <2>1, <4>3 DEF FindSubscribed
        <5> QED
            BY <1>1, <4>1, <5>1, GotoMoves, IdleOK
      <4> QED
          BY <4>2, <4>3
    <3> QED
        BY <3>1, <3>2, IdleOK
  <2>2. CASE Decide(s)
        BY <1>1, <2>2, DecideDoes, IdleOK DEF Quiet
  <2>3. CASE AddSubscriber(s)
        BY <1>1, <2>3, AddSubscriberDoes, IdleOK DEF GoesOn, At, LeavePlaces
  <2>4. CASE AttachSubscribedReady(s)
        BY <1>1, <2>4, AttachSubscribedReadyDoes, IdleOK
        DEF Quiet, GoesOn, At, LeavePlaces
  <2>5. CASE Exchanged(s)
        BY <1>1, <2>5, ExchangedDoes, IdleOK DEF GoesOn
  <2>6. CASE \E t \in Tracks : HandleSubscribeTrack(s, t)
        BY <1>1, <2>6, HandleSubscribeTrackDoes DEF Starts
  <2> QED
      BY <2>1, <2>2, <2>3, <2>4, <2>5, <2>6
<1>3. InHand(s)'
      BY <1>1, <1>2 DEF InHand, At, Installs, LeavePlaces
<1>4. \A t \in Tracks : ~Holds(s, t)
      BY <1>1, ProcKinds DEF Holds
<1> QED
    BY <1>1, <1>2, <1>3, <1>4, KeptQuiet

(* What nobody does who stays and does not unsubscribe.                    *)
LEMMA KeptNobodyLeaves ==
    ASSUME Known, Kept, Staying, NEW s \in Subs
    PROVE  /\ ~Stop(s) /\ ~Detach(s) /\ ~Snapshot(s) /\ ~RemoveSubscriber(s)
           /\ ~Prune(s) /\ ~ClosePeerConnection(s)
           /\ \A t \in Tracks : ~HandleUnsubscribeTrack(s, t)
           /\ HandleLeaveRoom(s) => ~Staying'
<1>1. s \in Procs /\ InHand(s) /\ Base
      BY ProcKinds DEF Kept, Known, Reading
<1>2. proc[s].at \notin (LeavePlaces \ {"idle"}) \cup {"detach"}
      BY <1>1 DEF InHand
<1>3. HandleLeaveRoom(s) => ~Staying'
      BY <1>1, HandleLeaveRoomDoes DEF Staying, Base, TypeOK, Stages
<1> QED
    BY <1>2, <1>3
    DEF Stop, Detach, Snapshot, RemoveSubscriber, Prune, ClosePeerConnection,
        HandleUnsubscribeTrack, Staying, At, LeavePlaces

LEMMA KeptStep ==
    ASSUME Known, Kept, [Next]_vars
    PROVE  Kept'
<1> SUFFICES ASSUME Staying' PROVE Kept'
    BY DEF Kept
<1>1. Staying /\ Base
      BY StayingStep DEF Known, Reading
<1>2. CASE \/ UNCHANGED vars
           \/ \E t \in Tracks : OfferMedia(t) \/ ReadReturns(t)
           \/ \E s \in Subs : ServerOffer(s) \/ Connected(s)
  <2>1. Browses /\ UNCHANGED published
        BY <1>1, <1>2, BrowserDoes DEF vars, Browses, Still
  <2> QED
      BY <1>1, <2>1, KeptBrowser
<1>3. ASSUME NEW x \in Procs, Continue(x)
      PROVE  Kept'
  <2>1. CASE Lookup(x) \/ Swap(x) \/ Create(x)
        BY <1>1, <2>1, KeptLookup, KeptInstalls
  <2>2. CASE \/ AutoSubscribe(x) \/ AutoAttach(x)
             \/ x \in Tracks /\ TrackRegistered(x)
             \/ x = Pub /\ MediaReady
        BY <1>1, <2>2, KeptAttaches
  <2>3. CASE Stop(x)
        BY <1>1, <2>3, StopDoes, ProcKinds, KeptAttaches, KeptNobodyLeaves
  <2>4. CASE x = Pub /\ (FindForwarder \/ AdoptOrphanForwarder
                         \/ RemoveForwarder)
        BY <1>1, <2>4, KeptFinds, KeptAdopts, KeptUnhooks
  <2>5. CASE x \in Subs /\ (FindSubscribed(x) \/ Decide(x) \/ AddSubscriber(x)
                            \/ AttachSubscribedReady(x))
        BY <1>1, <2>5, KeptSubscribes
  <2>6. CASE x \in Subs /\ (Detach(x) \/ Snapshot(x) \/ RemoveSubscriber(x)
                            \/ Prune(x) \/ ClosePeerConnection(x))
        BY <1>1, <2>6, KeptNobodyLeaves
  <2> QED
      BY <1>3, <2>1, <2>2, <2>3, <2>4, <2>5, <2>6 DEF Continue
<1>4. ASSUME NEW t \in Tracks,
             HandleTrack(t) \/ HandlePublishTrack(t) \/ HandleUnpublishTrack(t)
      PROVE  Kept'
      BY <1>1, <1>4, KeptHandleTrack, KeptPublishes, KeptUnpublishes
<1>5. ASSUME NEW s \in Subs,
             \/ Exchanged(s) \/ HandleLeaveRoom(s)
             \/ \E t \in Tracks : \/ HandleSubscribeTrack(s, t)
                                  \/ HandleUnsubscribeTrack(s, t)
      PROVE  Kept'
      BY <1>1, <1>5, KeptSubscribes, KeptNobodyLeaves
<1> QED
    BY <1>2, <1>3, <1>4, <1>5 DEF Next

(* The media of a published track is read, once it has arrived, by the     *)
(* forwarder under the signaled ID, however publish_track, OnTrack and     *)
(* subscribe_track interleave: getOrCreateForwarder swaps the placeholder  *)
(* of whoever came first, and adoptOrphanForwarder finds the media that    *)
(* came under an ID of the browser's own.                                  *)
THEOREM MediaKept ==
    ASSUME \A w \in Worlds : Distinct(w) /\ OwnWires(w)
    PROVE  Spec => []RemoteKept
<1>1. Init => Kept
  <2> SUFFICES ASSUME Init PROVE Kept
      OBVIOUS
  <2>1. \A y \in Procs : At(y, "idle")
        BY IdleOK DEF Init, At
  <2>2. \A y \in Procs : InHand(y)
        BY <2>1 DEF InHand, At, Installs, LeavePlaces
  <2>3. \A t \in DOMAIN world.wire :
           t \in Tracks /\ t \in IDs /\ media[t] = "none" /\ fws[t] = NoFw
        BY BaseInit, PeersOKNow, ProcKinds DEF Init
  <2> QED
      BY <2>2, <2>3 DEF Kept, InMap
<1>2. Reading => Known
      BY DEF Known, Reading, Base, TypeOK
<1>3. Reading /\ Kept /\ [Next]_vars => Kept'
      BY <1>2, KeptStep
<1>4. Reading /\ Kept => RemoteKept
  <2> SUFFICES ASSUME Reading, Kept, Settled, world.subs \subseteq pcs,
                      "unsubscribe" \notin world.ops, InTurn,
                      world.overlap => "unpublish" \notin world.ops,
                      NEW t \in published, media[t] = "here"
               PROVE  fws[t] # NoFw /\ source[fws[t]] = t /\ fws[t] \in running
      BY DEF RemoteKept
  <2>1. Base /\ Pub \in Procs
        BY ProcKinds DEF Reading
  <2>2. pcs \subseteq members
        BY <2>1, ProcKinds DEF Base, TypeOK, Stages, Settled
  <2>3. Staying
        BY <2>2 DEF Staying
  <2>4. t \in DOMAIN world.wire /\ t \in Tracks /\ t \in Procs /\ t \in IDs
        BY <2>1, ProcKinds DEF Base, TypeOK, Stages
  <2>5. Holds(t, t) \/ Mapped(t, t) \/ Carried(t) \/ Adoptable(t)
        BY <2>3, <2>4 DEF Kept, InMap
  <2>6. Mapped(t, t)
        BY <2>1, <2>4, <2>5
        DEF Settled, At, Holds, Carried, Adoptable, Installs
  <2>7. Remote(fws[t])
        BY <2>4, <2>6, ProcKinds DEF Mapped, Remote
  <2> QED
      BY <2>4, <2>6, <2>7 DEF Reading, MapOK, Mapped
<1>5. Spec => []Reading
      BY ReadingInvariant
<1> QED
    BY <1>1, <1>3, <1>4, <1>5, PTL DEF Spec
=============================================================================
