-------------------------- MODULE ForwarderRegistry --------------------------
(***************************************************************************)
(* The SFU wiring of the signaling handler: Handler.trackForwarders and    *)
(* everything that fills, swaps and empties it (handler.go), with the      *)
(* OnTrack path of PeerConnection.handleTrack that feeds it.               *)
(*                                                                         *)
(* One participant publishes, the others subscribe.  Each has a message    *)
(* loop, and pion delivers each media track the publisher sends in a       *)
(* goroutine of its own: those are the processes.  A step is what happens  *)
(* under one lock.  What TrackForwarder does inside a call is one step     *)
(* here; module TrackForwarder has its detail, module Negotiation has the  *)
(* offers an attachment leads to, module RoomDomain the calls on the room. *)
(***************************************************************************)
EXTENDS Naturals, FiniteSets

CONSTANTS Pub,            \* the publisher's message loop
          Subs,           \* the other participants
          Tracks,         \* signaled track IDs, and the media behind each
          Kind,
          Placeholder,    \* a TrackLocal that stands in for the media
          MaxForwarders,  \* bound on forwarders alive at once
          Worlds          \* the environments a run looks at, each with
                          \*   subs     the participants that joined,
                          \*   wire     the ID the browser's media carries,
                          \*            for each track it will send,
                          \*   ops      which of unsubscribe, unpublish and
                          \*            leave occur,
                          \*   overlap  do handlers overlap?

IDs == Tracks \cup UNION {{w.wire[t] : t \in DOMAIN w.wire} : w \in Worlds}

ASSUME RegistryAssumption ==
    /\ Pub \notin Subs /\ Tracks \cap (Subs \cup {Pub}) = {}
    /\ Placeholder \notin Tracks
    /\ DOMAIN Kind = Tracks /\ MaxForwarders \in Nat
    /\ \A w \in Worlds :
          /\ w.subs \subseteq Subs /\ DOMAIN w.wire \subseteq Tracks
          /\ w.ops \subseteq {"unsubscribe", "unpublish", "leave"}
          /\ w.overlap \in BOOLEAN

Forwarders == 1..MaxForwarders
NoFw  == 0
Procs == {Pub} \cup Subs \cup Tracks

VARIABLES
    fws,         \* Handler.trackForwarders
    source,      \* TrackForwarder.publisher: a media track or Placeholder
    attached,    \* TrackForwarder.subscribers
    running,     \* forwarders with a run loop, which reads the source
    leftover,    \* goroutines of stopped run loops still in a track's Read
    published,   \* tracks in the room's registry
    subscribed,  \* domain subscriptions, <<participant, track>>
    members,     \* subscribers in the room
    pcs,         \* subscribers with a registered peer connection
    stage,       \* a subscriber's exchange with its browser
    connected,   \* subscribers whose peer connection is connected
    described,   \* the publisher's peer connection has a description
    media,       \* the browser's media behind each track
    proc,        \* where each process is
    world        \* the environment, fixed

forwarders == <<fws, source, attached, running, leftover>>
domain == <<published, subscribed, members>>
peers  == <<pcs, stage, connected, described, media>>
vars == <<forwarders, domain, peers, proc, world>>

Idle == [at |-> "idle", id |-> Placeholder, fw |-> NoFw,
         src |-> Placeholder, todo |-> {}]

TypeOK ==
    /\ fws \in [IDs -> 0..MaxForwarders]
    /\ source \in [Forwarders -> Tracks \cup {Placeholder}]
    /\ attached \in [Forwarders -> SUBSET Subs]
    /\ \A k \in running : source[k] # Placeholder
    /\ leftover \in [Tracks -> Nat]
    /\ published \subseteq Tracks /\ subscribed \subseteq members \X Tracks
    /\ members \subseteq pcs /\ pcs \subseteq Subs
    /\ stage \in [Subs -> {"new", "busy", "stable"}]
    /\ connected \subseteq Subs
    /\ described \in BOOLEAN
    /\ media \in [Tracks -> {"none", "coming", "here", "ended"}]
    /\ DOMAIN proc = Procs /\ world \in Worlds
    /\ \A i, j \in IDs : fws[i] # NoFw /\ fws[i] = fws[j] => i = j

Init ==
    /\ world \in Worlds
    /\ fws = [i \in IDs |-> NoFw]
    /\ source = [k \in Forwarders |-> Placeholder]
    /\ attached = [k \in Forwarders |-> {}] /\ running = {}
    /\ leftover = [t \in Tracks |-> 0]
    /\ published = {} /\ subscribed = {} /\ members = world.subs
    /\ pcs = world.subs /\ stage = [s \in Subs |-> "new"] /\ connected = {}
    /\ described = FALSE /\ media = [t \in Tracks |-> "none"]
    /\ proc = [x \in Procs |-> Idle]

At(x, a) == proc[x].at = a
Goto(x, r) == proc' = [proc EXCEPT ![x] = r]
Move(x, a) == Goto(x, [proc[x] EXCEPT !.at = a])

(* A process goes on with the rest of its loop; after that a subscriber    *)
(* that left closes its peer connection.                                   *)
Resume(x, a, rest) ==
    Goto(x, CASE rest # {} -> [proc[x] EXCEPT !.at = a, !.todo = rest]
              [] rest = {} /\ x \in Subs \ members -> [Idle EXCEPT !.at = "close"]
              [] OTHER -> Idle)

Settled == \A x \in Procs : At(x, "idle")

(* A process begins a handler, while others are under way or not.          *)
Begins(x) == At(x, "idle") /\ (world.overlap \/ Settled)

Remote(k) == k # NoFw /\ source[k] # Placeholder

-----------------------------------------------------------------------------
(* The publisher's browser, external.  It offers the media of a track in a *)
(* message to the same loop; pion hands the media over some time later.    *)
OfferMedia(t) ==
    /\ Begins(Pub) /\ t \in DOMAIN world.wire /\ media[t] = "none"
    /\ media' = [media EXCEPT ![t] = "coming"] /\ described' = TRUE
    /\ UNCHANGED <<world, forwarders, domain, pcs, stage, connected, proc>>

(* The track IDs handleTrack may give to arriving media: the registered    *)
(* track of the same ID, else any published track of the same kind         *)
(* (PublishedTracks ranges over a map), else the ID on the wire.           *)
Resolved(t) ==
    LET alike == {p \in published : Kind[p] = Kind[t]} IN
    IF world.wire[t] \in published \/ alike = {} THEN {world.wire[t]} ELSE alike

(* PeerConnection.handleTrack, up to the callback.                         *)
HandleTrack(t) ==
    /\ media[t] = "coming" /\ Begins(t)
    /\ media' = [media EXCEPT ![t] = "here"]
    /\ \E i \in Resolved(t) :
          Goto(t, [Idle EXCEPT !.at = "lookup", !.id = i, !.src = t])
    /\ UNCHANGED <<world, forwarders, domain, pcs, stage, connected,
                   described>>

(* The OnTrack hook goes on to the subscribers if the track is registered. *)
TrackRegistered(t) ==
    /\ At(t, "created")
    /\ IF proc[t].id \in published THEN Move(t, "auto") ELSE Goto(t, Idle)
    /\ UNCHANGED <<world, forwarders, domain, peers>>

-----------------------------------------------------------------------------
(* getOrCreateForwarder: the fast path under the read lock ...             *)
Lookup(x) ==
    /\ At(x, "lookup")
    /\ LET k == fws[proc[x].id] IN
       Goto(x, [proc[x] EXCEPT !.at = IF k = NoFw THEN "create" ELSE "swap",
                               !.fw = k])
    /\ UNCHANGED <<world, forwarders, domain, peers>>

(* UpdatePublisher, when real media meets a placeholder.  It starts the    *)
(* run loop, of a forwarder that was stopped meanwhile too.                *)
UpdatePublisher(x, k) ==
    IF proc[x].src # Placeholder /\ ~Remote(k)
    THEN /\ source' = [source EXCEPT ![k] = proc[x].src]
         /\ running' = running \cup {k}
    ELSE UNCHANGED <<source, running>>

Swap(x) ==
    /\ At(x, "swap")
    /\ UpdatePublisher(x, proc[x].fw)
    /\ Move(x, "created")
    /\ UNCHANGED <<world, fws, attached, leftover, domain, peers>>

InUse(k) == \/ k \in running \/ attached[k] # {}
            \/ \E i \in IDs : fws[i] = k
            \/ \E y \in Procs : proc[y].fw = k
                 \/ \E e \in proc[y].todo : e[2] = k

(* NewTrackForwarder and Start.  Only real media gets a run loop.          *)
NewForwarder(x) ==
    \E k \in Forwarders :
        /\ ~InUse(k) /\ \A j \in 1..(k - 1) : InUse(j)
        /\ fws' = [fws EXCEPT ![proc[x].id] = k]
        /\ source' = [source EXCEPT ![k] = proc[x].src]
        /\ running' = IF proc[x].src # Placeholder
                      THEN running \cup {k} ELSE running \ {k}
        /\ Goto(x, [proc[x] EXCEPT !.at = "created", !.fw = k])

(* Mutated: the map is not read again under the write lock.                *)
Create_NoRecheck(x) ==
    /\ At(x, "create") /\ NewForwarder(x)
    /\ UNCHANGED <<world, attached, leftover, domain, peers>>

(* ... and the slow one under the write lock, which looks again.           *)
Create(x) ==
    /\ At(x, "create")
    /\ LET k == fws[proc[x].id] IN
       IF k = NoFw THEN NewForwarder(x)
       ELSE /\ UpdatePublisher(x, k) /\ UNCHANGED fws
            /\ Goto(x, [proc[x] EXCEPT !.at = "created", !.fw = k])
    /\ UNCHANGED <<world, attached, leftover, domain, peers>>

-----------------------------------------------------------------------------
(* handlePublishTrack: the domain registration ...                         *)
HandlePublishTrack(t) ==
    /\ Begins(Pub) /\ t \in DOMAIN world.wire \ published
    /\ published' = published \cup {t}
    /\ Goto(Pub, [Idle EXCEPT !.at = "find", !.id = t])
    /\ UNCHANGED <<world, forwarders, subscribed, members, peers>>

FindForwarder ==
    /\ At(Pub, "find")
    /\ Move(Pub, IF fws[proc[Pub].id] = NoFw THEN "adopt" ELSE "created")
    /\ UNCHANGED <<world, forwarders, domain, peers>>

(* The forwarders adoptOrphanForwarder takes: real media of this kind      *)
(* under an ID that is not registered.                                     *)
Orphans(t) ==
    {i \in IDs \ (published \cup {t}) :
        Remote(fws[i]) /\ Kind[source[fws[i]]] = Kind[t]}

(* Mutated: the scan does not skip what is registered.                     *)
AdoptOrphanForwarder_Steals ==
    LET t == proc[Pub].id
        found == {i \in IDs \ {t} : Remote(fws[i])}
    IN /\ At(Pub, "adopt")
       /\ \/ /\ found = {} /\ Move(Pub, "lookup")
          \/ \E i \in found :
                Goto(Pub, [proc[Pub] EXCEPT !.at = "unhook",
                             !.src = source[fws[i]], !.todo = {<<i, NoFw>>}])
       /\ UNCHANGED <<world, forwarders, domain, peers>>

(* Mutated: the signaled forwarder is bound before the orphan is stopped,  *)
(* which then is not stopped at all.                                       *)
AdoptOrphanForwarder_NoStop ==
    LET t == proc[Pub].id IN
    /\ At(Pub, "adopt")
    /\ \/ /\ Orphans(t) = {} /\ Move(Pub, "lookup")
       \/ \E i \in Orphans(t) :
             Goto(Pub, [proc[Pub] EXCEPT !.at = "lookup",
                                         !.src = source[fws[i]]])
    /\ UNCHANGED <<world, forwarders, domain, peers>>

(* ... adoptOrphanForwarder, or else a placeholder for the forwarder ...   *)
AdoptOrphanForwarder ==
    LET t == proc[Pub].id IN
    /\ At(Pub, "adopt")
    /\ \/ /\ Orphans(t) = {} /\ Move(Pub, "lookup")
       \/ \E i \in Orphans(t) :
             Goto(Pub, [proc[Pub] EXCEPT !.at = "unhook",
                          !.src = source[fws[i]], !.todo = {<<i, NoFw>>}])
    /\ UNCHANGED <<world, forwarders, domain, peers>>

(* removeForwarder: the entry is deleted under the lock, the forwarder is  *)
(* stopped after it.                                                       *)
RemoveForwarder ==
    /\ At(Pub, "unhook")
    /\ \E e \in proc[Pub].todo :
          /\ fws' = [fws EXCEPT ![e[1]] = NoFw]
          /\ Goto(Pub, [proc[Pub] EXCEPT !.at = "stop", !.fw = fws[e[1]],
                                         !.todo = {}])
    /\ UNCHANGED <<world, source, attached, running, leftover, domain, peers>>

(* TrackForwarder.Stop, after which each caller goes on.  The run loop is  *)
(* gone when it returns, but not the helper goroutine in which it called   *)
(* Read: that one stays until the track has a packet or ends.              *)
Stop(x) ==
    /\ At(x, "stop")
    /\ attached' = [k \in Forwarders |->
                      IF k = proc[x].fw THEN {} ELSE attached[k]]
    /\ running' = running \ {proc[x].fw}
    /\ leftover' = IF proc[x].fw \notin running THEN leftover
                   ELSE [leftover EXCEPT ![source[proc[x].fw]] = @ + 1]
    /\ IF x = Pub /\ proc[x].src # Placeholder
       THEN Move(x, "lookup") ELSE Resume(x, "remove", proc[x].todo)
    /\ UNCHANGED <<world, fws, source, domain, peers>>

(* It takes that packet with it: nobody receives its result.               *)
ReadReturns(t) ==
    /\ leftover[t] > 0
    /\ leftover' = [leftover EXCEPT ![t] = @ - 1]
    /\ UNCHANGED <<world, fws, source, attached, running, domain, peers, proc>>

(* ... then the subscribers, if there is real media by now.                *)
MediaReady ==
    /\ At(Pub, "created")
    /\ IF Remote(fws[proc[Pub].id]) THEN Move(Pub, "auto") ELSE Goto(Pub, Idle)
    /\ UNCHANGED <<world, forwarders, domain, peers>>

(* handleUnpublishTrack.  The browser ends the media with it.              *)
HandleUnpublishTrack(t) ==
    /\ "unpublish" \in world.ops /\ Begins(Pub) /\ t \in published
    /\ published' = published \ {t}
    /\ media' = [media EXCEPT ![t] = IF @ = "here" THEN "ended" ELSE @]
    /\ Goto(Pub, [Idle EXCEPT !.at = "unhook", !.id = t, !.todo = {<<t, NoFw>>}])
    /\ UNCHANGED <<world, forwarders, subscribed, members, pcs, stage,
                   connected, described>>

-----------------------------------------------------------------------------
(* subscriberReadyForAutomaticAttach *)
Ready(s) == s \in pcs /\ (s \in connected \/ stage[s] = "stable")

(* autoSubscribeExistingParticipants: the forwarder and the participants   *)
(* are read once, then each one that is ready is attached.                 *)
AutoSubscribe(x) ==
    /\ At(x, "auto")
    /\ LET k == fws[proc[x].id] IN
       IF k = NoFw \/ members = {} THEN Goto(x, Idle)
       ELSE Goto(x, [proc[x] EXCEPT !.at = "attach", !.fw = k,
                                    !.todo = {<<s, NoFw>> : s \in members}])
    /\ UNCHANGED <<world, forwarders, domain, peers>>

AutoAttach(x) ==
    /\ At(x, "attach")
    /\ \E e \in proc[x].todo :
          /\ attached' = IF Ready(e[1])
                         THEN [attached EXCEPT ![proc[x].fw] = @ \cup {e[1]}]
                         ELSE attached
          /\ Resume(x, "attach", proc[x].todo \ {e})
    /\ UNCHANGED <<world, fws, source, running, leftover, domain, peers>>

-----------------------------------------------------------------------------
(* handleSubscribeTrack: Room.SubscribeToTrack ...                         *)
HandleSubscribeTrack(s, t) ==
    /\ Begins(s) /\ s \in members
    /\ t \in published /\ <<s, t>> \notin subscribed
    /\ subscribed' = subscribed \cup {<<s, t>>}
    /\ Goto(s, [Idle EXCEPT !.at = "find", !.id = t])
    /\ UNCHANGED <<world, forwarders, published, members, peers>>

(* ... the forwarder, or a placeholder for it if the track is still there, *)
(* or else the subscription is rolled back ...                             *)
FindSubscribed(s) ==
    /\ At(s, "find")
    /\ LET k == fws[proc[s].id]
           found == k # NoFw \/ proc[s].id \in published
       IN /\ IF found
             THEN Goto(s, [proc[s] EXCEPT !.fw = k,
                             !.at = IF k = NoFw THEN "lookup" ELSE "created"])
             ELSE Goto(s, Idle)
          /\ subscribed' = IF found THEN subscribed
                           ELSE subscribed \ {<<s, proc[s].id>>}
    /\ UNCHANGED <<world, forwarders, published, members, peers>>

(* ... shouldDeferProvisionalSubscription ...                              *)
Defers(s, k) == stage[s] # "new" /\ ~Remote(k) /\ described

Decide(s) ==
    /\ At(s, "created")
    /\ IF Defers(s, proc[s].fw) THEN Goto(s, Idle) ELSE Move(s, "add")
    /\ UNCHANGED <<world, forwarders, domain, peers>>

(* ... and AddSubscriber, which does not ask if the forwarder was stopped. *)
AddSubscriber(s) ==
    /\ At(s, "add")
    /\ attached' = [attached EXCEPT ![proc[s].fw] = @ \cup {s}]
    /\ Resume(s, "flush", proc[s].todo)
    /\ UNCHANGED <<world, fws, source, running, leftover, domain, peers>>

(* The subscriber's exchange: the server offers, for this or any other     *)
(* publisher's track, and the browser's offer or answer is handled by the  *)
(* subscriber's loop, which then attaches what was deferred                *)
(* (attachSubscribedReadyTracks).                                          *)
ServerOffer(s) ==
    /\ stage[s] = "stable" /\ s \in pcs
    /\ stage' = [stage EXCEPT ![s] = "busy"]
    /\ UNCHANGED <<world, forwarders, domain, pcs, connected, described, media,
                   proc>>

Connected(s) ==
    /\ stage[s] # "new" /\ s \in pcs \ connected
    /\ connected' = connected \cup {s}
    /\ UNCHANGED <<world, forwarders, domain, pcs, stage, described, media,
                   proc>>

(* Mutated: what was deferred is not attached.                             *)
Exchanged_NoFlush(s) ==
    /\ Begins(s) /\ s \in members /\ stage[s] \in {"new", "busy"}
    /\ stage' = [stage EXCEPT ![s] = "stable"]
    /\ UNCHANGED <<world, forwarders, domain, pcs, connected, described, media,
                   proc>>

Exchanged(s) ==
    /\ Begins(s) /\ s \in members /\ stage[s] \in {"new", "busy"}
    /\ stage' = [stage EXCEPT ![s] = "stable"]
    /\ Resume(s, "flush",
              {<<e[2], NoFw>> : e \in subscribed \cap ({s} \X Tracks)})
    /\ UNCHANGED <<world, forwarders, domain, pcs, connected, described,
                   media>>

AttachSubscribedReady(s) ==
    /\ At(s, "flush")
    /\ \E e \in proc[s].todo :
          LET rest == proc[s].todo \ {e}
              k == fws[e[1]]
          IN IF e[1] \in published /\ Remote(k)
             THEN Goto(s, [proc[s] EXCEPT !.at = "add", !.fw = k, !.todo = rest])
             ELSE Resume(s, "flush", rest)
    /\ UNCHANGED <<world, forwarders, domain, peers>>

-----------------------------------------------------------------------------
(* handleUnsubscribeTrack, then removeSubscriberFromForwarder: the last    *)
(* subscriber takes the forwarder with it.                                 *)
HandleUnsubscribeTrack(s, t) ==
    /\ "unsubscribe" \in world.ops
    /\ Begins(s) /\ <<s, t>> \in subscribed /\ t \in published
    /\ subscribed' = subscribed \ {<<s, t>>}
    /\ Goto(s, [Idle EXCEPT !.at = "detach", !.id = t])
    /\ UNCHANGED <<world, forwarders, published, members, peers>>

Detach(s) ==
    /\ At(s, "detach")
    /\ LET i == proc[s].id IN
       Resume(s, "remove", {e \in {<<i, fws[i]>>} : e[2] # NoFw})
    /\ UNCHANGED <<world, forwarders, domain, peers>>

(* handleLeaveRoom, then removeSubscriberFromAllForwarders over a snapshot *)
(* of the map.                                                             *)
HandleLeaveRoom(s) ==
    /\ "leave" \in world.ops /\ Begins(s) /\ s \in members
    /\ members' = members \ {s}
    /\ subscribed' = {e \in subscribed : e[1] # s}
    /\ Move(s, "snapshot")
    /\ UNCHANGED <<world, forwarders, published, peers>>

Snapshot(s) ==
    /\ At(s, "snapshot")
    /\ Resume(s, "remove", {e \in {<<i, fws[i]>> : i \in IDs} : e[2] # NoFw})
    /\ UNCHANGED <<world, forwarders, domain, peers>>

(* One forwarder of either: RemoveSubscriber, then SubscriberCount.        *)
RemoveSubscriber(s) ==
    /\ At(s, "remove")
    /\ \E e \in proc[s].todo :
          LET rest == proc[s].todo \ {e} IN
          /\ attached' = [attached EXCEPT ![e[2]] = @ \ {s}]
          /\ IF attached[e[2]] \subseteq {s}
             THEN Goto(s, [proc[s] EXCEPT !.at = "prune", !.id = e[1],
                                          !.fw = e[2], !.todo = rest])
             ELSE Resume(s, "remove", rest)
    /\ UNCHANGED <<world, fws, source, running, leftover, domain, peers>>

(* Mutated: the loop ends with the first forwarder that is pruned.         *)
Prune_Returns(s) ==
    /\ At(s, "prune")
    /\ IF fws[proc[s].id] = proc[s].fw /\ attached[proc[s].fw] = {}
       THEN /\ fws' = [fws EXCEPT ![proc[s].id] = NoFw]
            /\ Goto(s, [proc[s] EXCEPT !.at = "stop", !.todo = {}])
       ELSE UNCHANGED fws /\ Resume(s, "remove", proc[s].todo)
    /\ UNCHANGED <<world, source, attached, running, leftover, domain, peers>>

(* An idle forwarder goes, if it is still the one registered.              *)
Prune(s) ==
    /\ At(s, "prune")
    /\ IF fws[proc[s].id] = proc[s].fw /\ attached[proc[s].fw] = {}
       THEN /\ fws' = [fws EXCEPT ![proc[s].id] = NoFw]
            /\ Move(s, "stop")
       ELSE UNCHANGED fws /\ Resume(s, "remove", proc[s].todo)
    /\ UNCHANGED <<world, source, attached, running, leftover, domain, peers>>

ClosePeerConnection(s) ==
    /\ At(s, "close")
    /\ pcs' = pcs \ {s} /\ Goto(s, Idle)
    /\ UNCHANGED <<world, forwarders, domain, stage, connected, described,
                   media>>

-----------------------------------------------------------------------------
(* What each process does to finish a handler it has begun.                *)
Continue(x) ==
    \/ Lookup(x) \/ Swap(x) \/ Create(x) \/ Stop(x)
    \/ AutoSubscribe(x) \/ AutoAttach(x)
    \/ x \in Tracks /\ TrackRegistered(x)
    \/ x = Pub /\ (FindForwarder \/ AdoptOrphanForwarder \/ RemoveForwarder
                   \/ MediaReady)
    \/ x \in Subs /\ (\/ FindSubscribed(x) \/ Decide(x) \/ AddSubscriber(x)
                      \/ AttachSubscribedReady(x) \/ Detach(x) \/ Snapshot(x)
                      \/ RemoveSubscriber(x) \/ Prune(x)
                      \/ ClosePeerConnection(x))

Next ==
    \/ \E x \in Procs : Continue(x)
    \/ \E t \in Tracks :
          \/ OfferMedia(t) \/ HandleTrack(t) \/ ReadReturns(t)
          \/ HandlePublishTrack(t) \/ HandleUnpublishTrack(t)
    \/ \E s \in Subs :
          \/ ServerOffer(s) \/ Connected(s) \/ Exchanged(s) \/ HandleLeaveRoom(s)
          \/ \E t \in Tracks :
                HandleSubscribeTrack(s, t) \/ HandleUnsubscribeTrack(s, t)

Spec == Init /\ [][Next]_vars

(* Handlers are run to their end; the media the publisher offered arrives; *)
(* a browser completes the exchange it is in.                              *)
FairSpec ==
    /\ Spec
    /\ WF_vars(Continue(Pub))
    /\ \A t \in Tracks : WF_vars(Continue(t) \/ HandleTrack(t))
    /\ \A s \in Subs : WF_vars(Continue(s) \/ Exchanged(s))

-----------------------------------------------------------------------------
(* Handlers run in turn, or overlap where the media has the signaled ID.   *)
InTurn == \A t \in DOMAIN world.wire : world.overlap => world.wire[t] = t

(* The media of a published track is not lost: once it has arrived and no  *)
(* handler is under way, the forwarder under the signaled ID reads it,     *)
(* whichever of publish_track and OnTrack came first and whoever else was  *)
(* making a forwarder for the track; as long as nobody unsubscribed or     *)
(* left, no unpublish_track overlaps the OnTrack path (which could hold    *)
(* the forwarder that is being stopped), and where the media carries an ID *)
(* of the browser's own, handlers run in turn.                             *)
RemoteKept ==
    Settled /\ world.subs \subseteq pcs
    /\ "unsubscribe" \notin world.ops /\ InTurn
    /\ (world.overlap => "unpublish" \notin world.ops)
    => \A t \in published :
          media[t] = "here" => fws[t] # NoFw /\ source[fws[t]] = t
                               /\ fws[t] \in running

(* A run loop reads a TrackRemote and never one that another run loop      *)
(* reads, though its forwarder is adopted, pruned and made anew; where     *)
(* handlers overlap, as long as nobody leaves.  It does not have the track *)
(* to itself: the Read that a stopped loop has left behind is still there, *)
(* but there is only one, as a track changes hands once, in                *)
(* adoptOrphanForwarder.  So an adoption costs the subscribers one packet  *)
(* at most.                                                                *)
OneReader ==
    (world.overlap => "leave" \notin world.ops)
    => /\ \A j, k \in running :
             source[j] # Placeholder /\ (source[j] = source[k] => j = k)
       /\ \A k \in running : leftover[source[k]] <= 1

(* Leaving detaches a participant from everything: no forwarder goes on    *)
(* writing to a peer connection that was closed, though the leaver is      *)
(* taken off one forwarder at a time and some of them are pruned with it.  *)
LeaverDetached ==
    \A s \in world.subs \ pcs, k \in Forwarders : s \notin attached[k]

(* A subscription is served: once a track has its media, everyone          *)
(* subscribed to it is attached to the forwarder that reads it, though the *)
(* attachment may have been deferred because the media or the subscriber's *)
(* own exchange was not ready.                                             *)
Served(s, t) ==
    fws[t] # NoFw /\ source[fws[t]] = t /\ s \in attached[fws[t]]

SubscriptionServed ==
    \A s \in Subs, t \in Tracks :
        <<s, t>> \in subscribed /\ media[t] = "here" ~> Served(s, t)
=============================================================================
