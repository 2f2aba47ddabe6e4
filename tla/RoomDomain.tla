----------------------------- MODULE RoomDomain -----------------------------
(***************************************************************************)
(* The domain objects of one room (internal/domain/room.go,                *)
(* participant.go, track.go) and the order in which the signaling handlers *)
(* (publish, unpublish, subscribe, unsubscribe in handler.go) call them.   *)
(*                                                                         *)
(* A step is what happens under one lock.  Participant methods called by a *)
(* handler hold only the participant's lock and do not ask whether it is   *)
(* in the room, so they interleave with the two steps of publishing and    *)
(* unpublishing and with Room.Leave, which holds Room.mu but takes the     *)
(* leaver's lock anew for every track; the other Room methods wait for it. *)
(* A message loop keeps serving a participant that was taken out of the    *)
(* room by reapGhost or by leave_room, and overlapping connections serve   *)
(* one participant with several loops.                                     *)
(*                                                                         *)
(* Participants are objects: the same ID joining again is a new object.    *)
(* Tracks are objects numbered as they are made; a track ID names one or   *)
(* more of them.                                                           *)
(***************************************************************************)
EXTENDS Naturals, FiniteSets

CONSTANTS Participants,  \* participant objects
          Id,            \* the participant ID of each object
          Loops,         \* message loops
          Of,            \* the participant object each loop serves
          TrackIDs,
          Names,         \* the track IDs each participant publishes
          Nobody,        \* a nil publisher
          MaxTracks      \* bound on track objects

ASSUME RoomAssumption ==
    /\ Nobody \notin Participants /\ MaxTracks \in Nat
    /\ DOMAIN Id = Participants /\ TrackIDs # {}
    /\ Of \in [Loops -> Participants]
    /\ Names \in [Participants -> SUBSET TrackIDs]

Tracks == 1..MaxTracks
None   == 0
Empty  == [i \in TrackIDs |-> None]

VARIABLES
    closed,      \* Room.state is closed
    members,     \* Room.participants
    registry,    \* Room.tracks
    pState,      \* Participant.state, "new" before it joins
    pub, sub,    \* Participant.pubTracks and subTracks
    made,        \* track objects made so far
    tid,         \* Track.id
    published,   \* tracks in the published state
    publisher,   \* Track.publisher
    subs,        \* IDs in Track.subscribers
    handler,     \* what each message loop's handler has yet to do
    leaving,     \* the participant Room.Leave is at, or Nobody
    doomed,      \* its track IDs that Room.Leave has yet to destroy
    ghosts,      \* history: tracks published, or registered, too late
    strays       \* history: participants that subscribed too late

room    == <<closed, members, registry>>
people  == <<pState, pub, sub>>
tracks  == <<made, tid, published, publisher, subs>>
leave   == <<leaving, doomed>>
history == <<ghosts, strays>>
vars == <<room, people, tracks, handler, leave, history>>

Idle == [op |-> "idle", on |-> None]

TypeOK ==
    /\ closed \in BOOLEAN /\ members \subseteq Participants
    /\ registry \in [TrackIDs -> 0..made]
    /\ pState \in [Participants -> {"new", "joined", "left"}]
    /\ pub \in [Participants -> [TrackIDs -> 0..made]]
    /\ sub \in [Participants -> [TrackIDs -> 0..made]]
    /\ made \in 0..MaxTracks
    /\ tid \in [Tracks -> TrackIDs] /\ published \subseteq 1..made
    /\ publisher \in [Tracks -> Participants \cup {Nobody}]
    /\ subs \in [Tracks -> SUBSET {Id[p] : p \in Participants}]
    /\ \A l \in Loops :
          \/ handler[l] = Idle
          \/ handler[l].op = "publish" /\ handler[l].on \in 1..made
          \/ handler[l].op \in {"unpublish", "attach"}
             /\ handler[l].on \in TrackIDs
    /\ leaving \in members \cup {Nobody} /\ doomed \subseteq TrackIDs
    /\ ghosts \subseteq 1..made /\ strays \subseteq Participants
    /\ \A p, q \in members : Id[p] = Id[q] => p = q
    /\ \A i \in TrackIDs : registry[i] # None => tid[registry[i]] = i

Init ==
    /\ closed = FALSE /\ members = {} /\ registry = Empty
    /\ pState = [p \in Participants |-> "new"]
    /\ pub = [p \in Participants |-> Empty]
    /\ sub = [p \in Participants |-> Empty]
    /\ made = 0 /\ tid = [k \in Tracks |-> CHOOSE i \in TrackIDs : TRUE]
    /\ published = {} /\ publisher = [k \in Tracks |-> Nobody]
    /\ subs = [k \in Tracks |-> {}]
    /\ handler = [l \in Loops |-> Idle]
    /\ leaving = Nobody /\ doomed = {} /\ ghosts = {} /\ strays = {}

(* A message loop takes a request of its participant, in the room or not.  *)
Serves(l) == handler[l] = Idle /\ pState[Of[l]] = "joined"

Continues(l, o) ==
    /\ handler[l].op = o
    /\ handler' = [handler EXCEPT ![l] = Idle]

(* Room.mu is not held by Room.Leave.                                      *)
RoomFree == leaving = Nobody

(* p is out of the room, or Room.Leave has already listed its tracks.      *)
Gone(p) == p \notin members \/ p = leaving

(* Mutated: the participant is not checked against the members' IDs.       *)
Join_Twice(p) ==
    /\ pState[p] = "new" /\ ~closed /\ RoomFree
    /\ members' = members \cup {p}
    /\ pState' = [pState EXCEPT ![p] = "joined"]
    /\ UNCHANGED <<closed, registry, pub, sub, tracks, handler, leave, history>>

Join(p) ==
    /\ pState[p] = "new" /\ ~closed /\ RoomFree
    /\ \A q \in members : Id[q] # Id[p]
    /\ members' = members \cup {p}
    /\ pState' = [pState EXCEPT ![p] = "joined"]
    /\ UNCHANGED <<closed, registry, pub, sub, tracks, handler, leave, history>>

-----------------------------------------------------------------------------
(* The operations of a Track on itself, for a set of tracks where a caller *)
(* does it to several.                                                     *)
Publish(k, p) == /\ publisher' = [publisher EXCEPT ![k] = p]
                 /\ published' = published \cup {k}
Unpublish(ks) == published' = published \ ks
ClearPublisher(ks) ==
    publisher' = [k \in Tracks |-> IF k \in ks THEN Nobody ELSE publisher[k]]
AddSubscriber(k, p) == /\ k \in published
                       /\ subs' = [subs EXCEPT ![k] = @ \cup {Id[p]}]
RemoveSubscriber(k, p) == subs' = [subs EXCEPT ![k] = @ \ {Id[p]}]

(* handlePublishTrack: Participant.PublishTrack of a new track ...         *)
PublishTrack(l, i) ==
    /\ Serves(l) /\ i \in Names[Of[l]]
    /\ pub[Of[l]][i] = None /\ made < MaxTracks
    /\ LET k == made + 1
           p == Of[l] IN
       /\ made' = k /\ tid' = [tid EXCEPT ![k] = i]
       /\ Publish(k, p)
       /\ pub' = [pub EXCEPT ![p][i] = k]
       /\ handler' = [handler EXCEPT ![l] = [op |-> "publish", on |-> k]]
       /\ ghosts' = IF Gone(p) THEN ghosts \cup {k} ELSE ghosts
    /\ UNCHANGED <<room, pState, sub, subs, leave, strays>>

(* Mutated: the room does not check that it is open.                       *)
RoomPublishTrack_Closed(l) ==
    /\ Continues(l, "publish") /\ RoomFree
    /\ LET k == handler[l].on IN
       registry' = IF registry[tid[k]] # None
                   THEN registry ELSE [registry EXCEPT ![tid[k]] = k]
    /\ UNCHANGED <<closed, members, people, tracks, leave, history>>

(* ... then Room.PublishTrack, which refuses a closed room and leaves an   *)
(* existing entry of the same ID alone (the handler tolerates the latter)  *)
(* but does not look at the track, which may be unpublished by now.        *)
RoomPublishTrack(l) ==
    /\ Continues(l, "publish") /\ RoomFree
    /\ LET k == handler[l].on IN
       /\ registry' = IF closed \/ registry[tid[k]] # None
                      THEN registry ELSE [registry EXCEPT ![tid[k]] = k]
       /\ ghosts' = IF k \in published THEN ghosts ELSE ghosts \cup {k}
    /\ UNCHANGED <<closed, members, people, tracks, leave, strays>>

(* handleUnpublishTrack: Participant.UnpublishTrack, which leaves the      *)
(* track its publisher and its subscribers ...                             *)
UnpublishTrack(l, i) ==
    /\ Serves(l) /\ pub[Of[l]][i] # None
    /\ Unpublish({pub[Of[l]][i]})
    /\ pub' = [pub EXCEPT ![Of[l]][i] = None]
    /\ handler' = [handler EXCEPT ![l] = [op |-> "unpublish", on |-> i]]
    /\ UNCHANGED <<room, pState, sub, made, tid, publisher, subs, leave,
                   history>>

(* Mutated: the registry keeps the entry.                                  *)
RoomUnpublishTrack_Keeps(l) ==
    /\ Continues(l, "unpublish") /\ RoomFree
    /\ UNCHANGED <<room, people, tracks, leave, history>>

(* ... then Room.UnpublishTrack, by ID.                                    *)
RoomUnpublishTrack(l) ==
    /\ Continues(l, "unpublish") /\ RoomFree
    /\ registry' = IF closed THEN registry
                   ELSE [registry EXCEPT ![handler[l].on] = None]
    /\ UNCHANGED <<closed, members, people, tracks, leave, history>>

-----------------------------------------------------------------------------
(* The tracks an ID may resolve to: the registry's, else any member's.     *)
Resolve(i) ==
    IF registry[i] # None THEN {registry[i]}
    ELSE {pub[q][i] : q \in members} \ {None}

(* Mutated: the state of the track is not checked.                         *)
SubscribeTrack_Unpublished(p, i, k) ==
    /\ pState[p] = "joined" /\ sub[p][i] = None
    /\ subs' = [subs EXCEPT ![k] = @ \cup {Id[p]}]
    /\ sub' = [sub EXCEPT ![p][i] = k]

(* Participant.SubscribeTrack, under the participant's lock.               *)
SubscribeTrack(p, i, k) ==
    /\ pState[p] = "joined" /\ sub[p][i] = None
    /\ AddSubscriber(k, p)
    /\ sub' = [sub EXCEPT ![p][i] = k]

(* Room.SubscribeToTrack, all of it under Room.mu.                         *)
SubscribeToTrack(l, i) ==
    /\ Serves(l) /\ ~closed /\ RoomFree
    /\ \E k \in Resolve(i) : SubscribeTrack(Of[l], i, k)
    /\ handler' = [handler EXCEPT ![l] = [op |-> "attach", on |-> i]]
    /\ strays' = IF Gone(Of[l]) THEN strays \cup {Of[l]} ELSE strays
    /\ UNCHANGED <<room, pState, pub, made, tid, published, publisher, leave,
                   ghosts>>

(* Mutated: the participant forgets the track, the track keeps it.         *)
unsubscribe_KeepsSubscriber(p, i) ==
    /\ sub' = [sub EXCEPT ![p][i] = None]
    /\ UNCHANGED subs

(* Participant.UnsubscribeTrack *)
unsubscribe(p, i) ==
    /\ sub' = [sub EXCEPT ![p][i] = None]
    /\ RemoveSubscriber(sub[p][i], p)

(* handleSubscribeTrack attaches the peer connection, or rolls the         *)
(* subscription back without Room.mu.                                      *)
Attached(l) ==
    /\ Continues(l, "attach")
    /\ UNCHANGED <<room, people, tracks, leave, history>>

RollBack(l) ==
    /\ Continues(l, "attach")
    /\ LET i == handler[l].on
           p == Of[l] IN
       IF pState[p] = "left" \/ sub[p][i] = None
       THEN UNCHANGED <<sub, subs>> ELSE unsubscribe(p, i)
    /\ UNCHANGED <<room, pState, pub, made, tid, published, publisher, leave,
                   history>>

UnsubscribeFromTrack(l, i) ==
    /\ Serves(l) /\ ~closed /\ RoomFree /\ Resolve(i) # {}
    /\ sub[Of[l]][i] # None
    /\ unsubscribe(Of[l], i)
    /\ UNCHANGED <<room, pState, pub, made, tid, published, publisher, handler,
                   leave, history>>

-----------------------------------------------------------------------------
(* The members whose subscription to ID i destroyTrackLocked ends for the  *)
(* tracks ks, on behalf of leaver p: by ID, whichever track object of that *)
(* ID they hold.                                                           *)
Detached(p, ks, i) ==
    {q \in members \ {p} : \E k \in ks :
        tid[k] = i /\ Id[q] \in subs[k] /\ sub[q][i] # None}

(* destroyTrackLocked for each of ks: the registry entry of every ID goes, *)
(* whichever object it holds; and UnsubscribeTrack of everything for all   *)
(* of ps.                                                                  *)
destroyTracks(p, ks, ps) ==
    /\ Unpublish(ks) /\ ClearPublisher(ks)
    /\ registry' = [i \in TrackIDs |->
                      IF \E k \in ks : tid[k] = i THEN None ELSE registry[i]]
    /\ sub' = [q \in Participants |->
                 [i \in TrackIDs |-> IF q \in Detached(p, ks, i) \cup ps
                                     THEN None ELSE sub[q][i]]]
    /\ subs' = [k \in Tracks |->
                  {s \in subs[k] :
                     /\ k \in ks => s = Id[p]
                     /\ \A q \in Detached(p, ks, tid[k]) \cup ps :
                           s = Id[q] => sub[q][tid[k]] # k}]

(* Room.Leave up to the list of the leaver's published tracks.             *)
LeaveBegin(p) ==
    /\ p \in members /\ ~closed /\ RoomFree
    /\ leaving' = p /\ doomed' = {i \in TrackIDs : pub[p][i] # None}
    /\ UNCHANGED <<room, people, tracks, handler, history>>

(* It destroys them one by one, each as the leaver holds it by then.       *)
LeaveDestroy(i) ==
    /\ i \in doomed /\ doomed' = doomed \ {i}
    /\ destroyTracks(leaving, {pub[leaving][i]} \ {None}, {})
    /\ UNCHANGED <<closed, members, pState, pub, made, tid, handler, leaving,
                   history>>

Orphans ==
    {registry[i] : i \in {j \in TrackIDs :
        /\ registry[j] # None /\ registry[j] \notin published
        /\ publisher[registry[j]] = Nobody}}

(* The orphans of the registry, the leaver's own subscriptions, and the    *)
(* leaver itself.  Its object keeps its state and its published tracks.    *)
(* The purge after the subscriptions finds nothing: no track without a     *)
(* publisher is published.                                                 *)
LeaveEnd ==
    /\ leaving # Nobody /\ doomed = {}
    /\ destroyTracks(leaving, Orphans, {leaving})
    /\ members' = members \ {leaving} /\ leaving' = Nobody
    /\ UNCHANGED <<closed, pState, pub, made, tid, handler, doomed, history>>

(* Participant.Leave of all of ps: their tracks are unpublished and lose   *)
(* their publisher, but keep their other subscribers.                      *)
ParticipantLeave(ps) ==
    LET gone == {pub[p][i] : p \in ps, i \in TrackIDs}
        drop(f) == [p \in Participants |-> IF p \in ps THEN Empty ELSE f[p]]
    IN  /\ pState' = [p \in Participants |->
                        IF p \in ps THEN "left" ELSE pState[p]]
        /\ pub' = drop(pub) /\ sub' = drop(sub)
        /\ Unpublish(gone) /\ ClearPublisher(gone)
        /\ subs' = [k \in Tracks |-> subs[k] \
                      {Id[p] : p \in {q \in ps :
                         k \in {pub[q][tid[k]], sub[q][tid[k]]}}}]

(* Room.Close: every member leaves, then the maps are wiped.  After its    *)
(* Leave a participant's own operations fail, so the order is immaterial.  *)
Close ==
    /\ ~closed /\ closed' = TRUE /\ RoomFree
    /\ ParticipantLeave(members)
    /\ members' = {} /\ registry' = Empty
    /\ UNCHANGED <<made, tid, handler, leave, history>>

-----------------------------------------------------------------------------
Next ==
    \/ \E p \in Participants : Join(p) \/ LeaveBegin(p)
    \/ \E i \in TrackIDs : LeaveDestroy(i)
    \/ LeaveEnd \/ Close
    \/ \E l \in Loops :
          \/ RoomPublishTrack(l) \/ RoomUnpublishTrack(l)
          \/ Attached(l) \/ RollBack(l)
          \/ \E i \in TrackIDs :
                \/ PublishTrack(l, i) \/ UnpublishTrack(l, i)
                \/ SubscribeToTrack(l, i) \/ UnsubscribeFromTrack(l, i)

Spec == Init /\ [][Next]_vars

-----------------------------------------------------------------------------
(* No other object of q's ID subscribed after it was taken out of the      *)
(* room: a track knows its subscribers by ID only.                         *)
Unshadowed(q) == \A p \in strays : Id[p] = Id[q] => p = q

(* A participant's subscriptions and a track's subscribers tell the same   *)
(* story for every member, though the two are kept under different locks   *)
(* and are undone by ID, while participants leave, rejoin under their ID   *)
(* and publish after they left; unless an earlier object of the member's   *)
(* ID subscribed after it had left.                                        *)
SubscriptionSymmetric ==
    \A q \in members, k \in 1..made :
        Unshadowed(q) => (Id[q] \in subs[k] <=> sub[q][tid[k]] = k)

(* "Loss of publisher destroys the track" (Room.Leave): no member stays    *)
(* subscribed to a track that was destroyed, nor to one that is published  *)
(* by somebody who is no longer in the room, unless it was published after *)
(* Room.Leave had listed the leaver's tracks.  A track its publisher       *)
(* unpublished is not covered: UnpublishTrack leaves it its publisher and  *)
(* its subscribers.                                                        *)
DetachedFromLost ==
    \A q \in members \ {leaving}, i \in TrackIDs :
        Unshadowed(q) /\ sub[q][i] # None =>
            LET k == sub[q][i] IN
            /\ publisher[k] # Nobody
            /\ k \in published => publisher[k] \in members \/ k \in ghosts

(* A closed room holds nothing, and nothing that was in it is published or *)
(* subscribed to, whatever handlers were under way, but for tracks that    *)
(* were published and participants that subscribed after they had been     *)
(* taken out of the room.                                                  *)
ClosedIsSilent ==
    closed => /\ registry = Empty /\ members = {}
              /\ published \subseteq ghosts
              /\ \A k \in Tracks : subs[k] \subseteq {Id[p] : p \in strays}

(* "The registry must only ever hold live tracks" (Room.Leave): every      *)
(* entry is a track that a member has published under that ID, or that its *)
(* publisher's handler is about to take out; unless the track was          *)
(* unpublished or destroyed between the two halves of handlePublishTrack,  *)
(* or published after the participant was taken out of the room.           *)
RegistryLive ==
    \A i \in TrackIDs : registry[i] # None =>
        LET k == registry[i]
            p == publisher[k] IN
        \/ p \in members /\ pub[p][i] = k /\ k \in published
        \/ \E l \in Loops :
               Of[l] = p /\ handler[l] = [op |-> "unpublish", on |-> i]
        \/ k \in ghosts
=============================================================================
