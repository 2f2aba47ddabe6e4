-------------------------- MODULE RoomDomainProofs --------------------------
(***************************************************************************)
(* Theorems about RoomDomain, for any participants, participant IDs,       *)
(* message loops, track IDs and number of tracks: handlers go on after     *)
(* their participant was taken out of the room, several of them serve one  *)
(* participant, and all of them run between the steps of Room.Leave.       *)
(***************************************************************************)
EXTENDS RoomDomain, TLAPS

TypeInv == TypeOK /\ DOMAIN handler = Loops

(* Members have joined; who subscribed after it had left is not a member   *)
(* again; only members and those subscribe; and Room.Leave is at work only *)
(* in an open room.                                                        *)
Membership ==
    /\ \A p \in members : pState[p] = "joined"
    /\ \A p \in strays : p \notin members /\ pState[p] # "new"
    /\ \A p \in Participants, i \in TrackIDs :
          sub[p][i] # None => p \in members \/ p \in strays
    /\ leaving = Nobody => doomed = {}
    /\ closed => members = {} /\ leaving = Nobody /\ registry = Empty

(* The subscriptions of participants against the lists of the tracks: a    *)
(* member that no stray shadows is listed, on a track that has a publisher *)
(* unless the member is leaving; a listed ID is a subscribed member's or a *)
(* stray's.                                                                *)
Subscriptions ==
    /\ \A p \in Participants, i \in TrackIDs :
          sub[p][i] # None => tid[sub[p][i]] = i
    /\ \A q \in members, i \in TrackIDs :
          Unshadowed(q) /\ sub[q][i] # None =>
              /\ Id[q] \in subs[sub[q][i]]
              /\ q # leaving => publisher[sub[q][i]] # Nobody
    /\ \A k \in Tracks : \A s \in subs[k] :
          \/ \E q \in members : Id[q] = s /\ sub[q][tid[k]] = k
          \/ \E p \in strays : Id[p] = s
    /\ \A k \in Tracks : k \notin 1..made => subs[k] = {}

(* A track is held by one participant at most, a published one by its      *)
(* publisher, who is a member unless the track came too late; and of a     *)
(* leaver's tracks only those that came too late are published once        *)
(* Room.Leave is done with their ID.                                       *)
Publications ==
    /\ \A p \in Participants, i \in TrackIDs :
          pub[p][i] # None => tid[pub[p][i]] = i
    /\ \A p, q \in Participants, i \in TrackIDs :
          pub[p][i] # None /\ pub[p][i] = pub[q][i] => p = q
    /\ \A k \in published :
          /\ publisher[k] # Nobody /\ pub[publisher[k]][tid[k]] = k
          /\ publisher[k] \in members \/ k \in ghosts
          /\ publisher[k] = leaving => tid[k] \in doomed \/ k \in ghosts

-----------------------------------------------------------------------------
(* The types.                                                              *)

(* The state of one handler.                                               *)
HandlerOK(h, m) ==
    \/ h = Idle
    \/ h.op = "publish" /\ h.on \in 1..m
    \/ h.op \in {"unpublish", "attach"} /\ h.on \in TrackIDs

SomeIDs == {Id[p] : p \in Participants}

(* TypeOK with its parts grouped by the object they describe.              *)
TypeParts ==
    /\ closed \in BOOLEAN /\ members \subseteq Participants
    /\ \A p, q \in members : Id[p] = Id[q] => p = q
    /\ made \in 0..MaxTracks
    /\ pState \in [Participants -> {"new", "joined", "left"}]
    /\ tid \in [Tracks -> TrackIDs]
    /\ publisher \in [Tracks -> Participants \cup {Nobody}]
    /\ subs \in [Tracks -> SUBSET SomeIDs]
    /\ registry \in [TrackIDs -> 0..made]
    /\ pub \in [Participants -> [TrackIDs -> 0..made]]
    /\ sub \in [Participants -> [TrackIDs -> 0..made]]
    /\ published \subseteq 1..made /\ ghosts \subseteq 1..made
    /\ \A i \in TrackIDs : registry[i] # None => tid[registry[i]] = i
    /\ DOMAIN handler = Loops
    /\ \A l \in Loops : HandlerOK(handler[l], made)
    /\ leaving \in members \cup {Nobody} /\ doomed \subseteq TrackIDs
    /\ strays \subseteq Participants

RoomInv ==
    /\ TypeParts /\ Membership /\ Subscriptions /\ Publications /\ RegistryLive

(* The grouping is only one.                                               *)
LEMMA TypePartsEqual == TypeInv <=> TypeParts
  BY DEF TypeInv, TypeOK, TypeParts, HandlerOK, SomeIDs

(* More tracks may be made: what was of the type stays of it.              *)
LEMMA MoreTracks ==
    ASSUME TypeParts, NEW m \in 0..MaxTracks, made <= m
    PROVE  /\ 0..made \subseteq 0..m /\ 1..made \subseteq 1..m
           /\ registry \in [TrackIDs -> 0..m]
           /\ pub \in [Participants -> [TrackIDs -> 0..m]]
           /\ sub \in [Participants -> [TrackIDs -> 0..m]]
           /\ \A l \in Loops : HandlerOK(handler[l], m)
<1>1. 0..made \subseteq 0..m /\ 1..made \subseteq 1..m
  BY RoomAssumption DEF TypeParts
<1>2. registry \in [TrackIDs -> 0..m] /\ pub \in [Participants -> [TrackIDs -> 0..m]]
      /\ sub \in [Participants -> [TrackIDs -> 0..m]]
  BY <1>1 DEF TypeParts
<1>3. \A l \in Loops : HandlerOK(handler[l], m)
  BY <1>1 DEF TypeParts, HandlerOK
<1> QED
  BY <1>1, <1>2, <1>3

(* What the types say of a handler under way.                              *)
LEMMA HandlerTypes ==
    ASSUME TypeParts, NEW l \in Loops
    PROVE  /\ handler[l].op = "publish" => handler[l].on \in 1..made
           /\ handler[l].op \in {"unpublish", "attach"} => handler[l].on \in TrackIDs
<1>1. HandlerOK(handler[l], made)
  BY DEF TypeParts
<1> QED
  BY <1>1 DEF HandlerOK, Idle

(* The numbers of tracks.                                                  *)
LEMMA TrackNumbers ==
    ASSUME TypeParts
    PROVE  /\ made \in Nat /\ None \in 0..made /\ 1..made \subseteq Tracks
           /\ 1..made \subseteq 0..made /\ None \notin Tracks
           /\ \A k \in 0..made : k # None => k \in 1..made
  BY RoomAssumption DEF TypeParts, Tracks, None

(* A loop serves a participant.                                            *)
LEMMA Served == \A l \in Loops : Of[l] \in Participants
  BY RoomAssumption

(* Ending a subscription keeps the types.                                  *)
LEMMA UnsubscribeTypes ==
    ASSUME TypeParts, NEW p \in Participants, NEW i \in TrackIDs, unsubscribe(p, i)
    PROVE  /\ sub' \in [Participants -> [TrackIDs -> 0..made]]
           /\ subs' \in [Tracks -> SUBSET SomeIDs]
<1>1. sub' = [sub EXCEPT ![p][i] = None] /\ subs' = [subs EXCEPT ![sub[p][i]] = @ \ {Id[p]}]
  BY DEF unsubscribe, RemoveSubscriber
<1>2. sub' \in [Participants -> [TrackIDs -> 0..made]]
  BY <1>1, TrackNumbers DEF TypeParts
<1>3. subs' \in [Tracks -> SUBSET SomeIDs]
  BY <1>1 DEF TypeParts
<1> QED
  BY <1>2, <1>3

(* Destroying tracks keeps the types.                                      *)
LEMMA DestroyTypes ==
    ASSUME TypeParts, NEW p, NEW ks, NEW ps, destroyTracks(p, ks, ps)
    PROVE  /\ sub' \in [Participants -> [TrackIDs -> 0..made]]
           /\ subs' \in [Tracks -> SUBSET SomeIDs]
           /\ registry' \in [TrackIDs -> 0..made]
           /\ \A i \in TrackIDs : registry'[i] # None => tid[registry'[i]] = i
           /\ published' \subseteq 1..made
           /\ publisher' \in [Tracks -> Participants \cup {Nobody}]
<1>1. None \in 0..made
  BY TrackNumbers
<1>2. sub' \in [Participants -> [TrackIDs -> 0..made]]
  BY <1>1 DEF TypeParts, destroyTracks
<1>3. subs' \in [Tracks -> SUBSET SomeIDs]
  BY DEF TypeParts, destroyTracks
<1>4. registry' \in [TrackIDs -> 0..made]
      /\ \A i \in TrackIDs : registry'[i] # None => tid[registry'[i]] = i
  BY <1>1 DEF TypeParts, destroyTracks
<1>5. published' \subseteq 1..made /\ publisher' \in [Tracks -> Participants \cup {Nobody}]
  BY DEF TypeParts, destroyTracks, Unpublish, ClearPublisher
<1> QED
  BY <1>2, <1>3, <1>4, <1>5

(* Every step keeps the types.                                             *)
LEMMA TypeStep == TypeParts /\ [Next]_vars => TypeParts'
<1> SUFFICES ASSUME TypeParts, [Next]_vars PROVE TypeParts'
  OBVIOUS
<1> USE RoomAssumption DEF room, people, tracks, leave, history
<1>1. ASSUME NEW p \in Participants, Join(p) PROVE TypeParts'
  BY <1>1 DEF TypeParts, Join, HandlerOK
<1>2. ASSUME NEW l \in Loops, NEW i \in TrackIDs, PublishTrack(l, i) PROVE TypeParts'
  <2> DEFINE k == made + 1
  <2>0. Of[l] \in Participants
    BY Served
  <2>1. made' = k /\ k \in 0..MaxTracks /\ k \in 1..k /\ k \in Tracks /\ made <= k
        /\ \A j \in 0..made : j # k
    BY <1>2 DEF TypeParts, PublishTrack, Tracks
  <2>2. /\ registry \in [TrackIDs -> 0..k]
        /\ pub \in [Participants -> [TrackIDs -> 0..k]]
        /\ sub \in [Participants -> [TrackIDs -> 0..k]]
        /\ 1..made \subseteq 1..k
        /\ \A q \in Loops : HandlerOK(handler[q], k)
    BY <2>1, MoreTracks
  <2>3. tid' \in [Tracks -> TrackIDs] /\ published' \subseteq 1..k
        /\ publisher' \in [Tracks -> Participants \cup {Nobody}]
    BY <1>2, <2>0, <2>1, <2>2 DEF TypeParts, PublishTrack, Publish
  <2>4. pub' \in [Participants -> [TrackIDs -> 0..k]]
    <3>1. pub' = [pub EXCEPT ![Of[l]][i] = k] /\ k \in 0..k
      BY <1>2, <2>1 DEF PublishTrack
    <3> QED
      BY <2>0, <2>2, <3>1
  <2>5. \A j \in TrackIDs : registry[j] # None => tid'[registry[j]] = j
    <3>1. tid' = [tid EXCEPT ![k] = i] /\ tid \in [Tracks -> TrackIDs]
      BY <1>2 DEF PublishTrack, TypeParts
    <3>2. SUFFICES ASSUME NEW j \in TrackIDs, registry[j] # None PROVE tid'[registry[j]] = j
      OBVIOUS
    <3>3. registry[j] \in 1..made /\ tid[registry[j]] = j
      BY <3>2, TrackNumbers DEF TypeParts
    <3>4. registry[j] \in Tracks /\ registry[j] # k
      BY <2>1, <3>3, TrackNumbers
    <3> QED
      BY <3>1, <3>3, <3>4
  <2>6. DOMAIN handler' = Loops /\ \A q \in Loops : HandlerOK(handler'[q], k)
    <3>1. handler' = [handler EXCEPT ![l] = [op |-> "publish", on |-> k]]
      BY <1>2 DEF PublishTrack
    <3>2. HandlerOK([op |-> "publish", on |-> k], k)
      BY <2>1 DEF HandlerOK
    <3> QED
      BY <2>2, <3>1, <3>2 DEF TypeParts
  <2>7. UNCHANGED <<room, pState, sub, subs, leave, strays>> /\ ghosts' \subseteq ghosts \cup {k}
    BY <1>2 DEF PublishTrack
  <2>8. ghosts' \subseteq 1..k
    BY <2>1, <2>2, <2>7 DEF TypeParts
  <2> HIDE DEF k
  <2> QED
    BY <2>1, <2>2, <2>3, <2>4, <2>5, <2>6, <2>7, <2>8 DEF TypeParts
<1>3. ASSUME NEW l \in Loops, RoomPublishTrack(l) PROVE TypeParts'
  <2> DEFINE k == handler[l].on
  <2>1. k \in 1..made /\ k \in 0..made /\ k \in Tracks /\ tid[k] \in TrackIDs
    <3>1. handler[l].op = "publish"
      BY <1>3 DEF RoomPublishTrack, Continues
    <3> QED
      BY <3>1, HandlerTypes, TrackNumbers DEF TypeParts
  <2>2. registry' \in [TrackIDs -> 0..made]
        /\ \A i \in TrackIDs : registry'[i] # None => tid[registry'[i]] = i
    BY <1>3, <2>1 DEF TypeParts, RoomPublishTrack
  <2>3. DOMAIN handler' = Loops /\ \A q \in Loops : HandlerOK(handler'[q], made)
    BY <1>3 DEF TypeParts, RoomPublishTrack, Continues, HandlerOK
  <2>4. UNCHANGED <<closed, members, people, tracks, leave, strays>>
        /\ ghosts' \subseteq ghosts \cup {k}
    BY <1>3 DEF RoomPublishTrack
  <2> HIDE DEF k
  <2> QED
    BY <2>1, <2>2, <2>3, <2>4 DEF TypeParts
<1>4. ASSUME NEW l \in Loops, NEW i \in TrackIDs, UnpublishTrack(l, i) PROVE TypeParts'
  <2>1. pub' \in [Participants -> [TrackIDs -> 0..made]] /\ published' \subseteq 1..made
    <3>1. pub' = [pub EXCEPT ![Of[l]][i] = None] /\ published' \subseteq published
      BY <1>4 DEF UnpublishTrack, Unpublish
    <3> QED
      BY <3>1, TrackNumbers DEF TypeParts
  <2>2. DOMAIN handler' = Loops /\ \A q \in Loops : HandlerOK(handler'[q], made)
    BY <1>4 DEF TypeParts, UnpublishTrack, HandlerOK
  <2>3. UNCHANGED <<room, pState, sub, made, tid, publisher, subs, leave, history>>
    BY <1>4 DEF UnpublishTrack
  <2> QED
    BY <2>1, <2>2, <2>3 DEF TypeParts
<1>5. ASSUME NEW l \in Loops, RoomUnpublishTrack(l) PROVE TypeParts'
  <2>1. registry' \in [TrackIDs -> 0..made]
        /\ \A i \in TrackIDs : registry'[i] # None => tid[registry'[i]] = i
    <3>1. registry' = registry \/ registry' = [registry EXCEPT ![handler[l].on] = None]
      BY <1>5 DEF RoomUnpublishTrack
    <3>2. registry' \in [TrackIDs -> 0..made]
      <4>1. registry \in [TrackIDs -> 0..made] /\ None \in 0..made
        BY TrackNumbers DEF TypeParts
      <4> QED
        BY <3>1, <4>1
    <3>3. \A i \in TrackIDs : registry'[i] \in {None, registry[i]}
      BY <3>1 DEF TypeParts
    <3> QED
      BY <3>2, <3>3 DEF TypeParts
  <2>2. DOMAIN handler' = Loops /\ \A q \in Loops : HandlerOK(handler'[q], made)
    BY <1>5 DEF TypeParts, RoomUnpublishTrack, Continues, HandlerOK
  <2>3. UNCHANGED <<closed, members, people, tracks, leave, history>>
    BY <1>5 DEF RoomUnpublishTrack
  <2> QED
    BY <2>1, <2>2, <2>3 DEF TypeParts
<1>6. ASSUME NEW l \in Loops, NEW i \in TrackIDs, SubscribeToTrack(l, i) PROVE TypeParts'
  <2>1. PICK k \in Resolve(i) : SubscribeTrack(Of[l], i, k)
    BY <1>6 DEF SubscribeToTrack
  <2>2. k \in 0..made /\ Of[l] \in Participants
    BY Served DEF Resolve, TypeParts
  <2>3. sub' \in [Participants -> [TrackIDs -> 0..made]]
    BY <2>1, <2>2 DEF TypeParts, SubscribeTrack
  <2>4. subs' \in [Tracks -> SUBSET SomeIDs]
    BY <2>1, <2>2 DEF TypeParts, SubscribeTrack, AddSubscriber, SomeIDs
  <2>5. DOMAIN handler' = Loops /\ \A q \in Loops : HandlerOK(handler'[q], made)
    BY <1>6 DEF TypeParts, SubscribeToTrack, HandlerOK
  <2>6. UNCHANGED <<room, pState, pub, made, tid, published, publisher, leave, ghosts>>
        /\ strays' \subseteq strays \cup {Of[l]}
    BY <1>6 DEF SubscribeToTrack
  <2> QED
    BY <2>2, <2>3, <2>4, <2>5, <2>6 DEF TypeParts
<1>7. ASSUME NEW l \in Loops, NEW i \in TrackIDs, UnsubscribeFromTrack(l, i) PROVE TypeParts'
  <2>1. unsubscribe(Of[l], i)
        /\ UNCHANGED <<room, pState, pub, made, tid, published, publisher, handler,
                       leave, history>>
    BY <1>7 DEF UnsubscribeFromTrack
  <2> QED
    BY <2>1, Served, UnsubscribeTypes DEF TypeParts, HandlerOK
<1>8. ASSUME NEW l \in Loops, Attached(l) PROVE TypeParts'
  BY <1>8 DEF TypeParts, Attached, Continues, HandlerOK
<1>9. ASSUME NEW l \in Loops, RollBack(l) PROVE TypeParts'
  <2>1. handler[l].on \in TrackIDs
    BY <1>9, HandlerTypes DEF RollBack, Continues
  <2>2. sub' \in [Participants -> [TrackIDs -> 0..made]]
        /\ subs' \in [Tracks -> SUBSET SomeIDs]
    BY <1>9, <2>1, Served, UnsubscribeTypes DEF TypeParts, RollBack
  <2>3. DOMAIN handler' = Loops /\ \A q \in Loops : HandlerOK(handler'[q], made)
    BY <1>9 DEF TypeParts, RollBack, Continues, HandlerOK
  <2>4. UNCHANGED <<room, pState, pub, made, tid, published, publisher, leave, history>>
    BY <1>9 DEF RollBack
  <2> QED
    BY <2>2, <2>3, <2>4 DEF TypeParts
<1>10. ASSUME NEW p \in Participants, LeaveBegin(p) PROVE TypeParts'
  BY <1>10 DEF TypeParts, LeaveBegin, HandlerOK
<1>11. ASSUME NEW i \in TrackIDs, LeaveDestroy(i) PROVE TypeParts'
  <2>1. destroyTracks(leaving, {pub[leaving][i]} \ {None}, {}) /\ doomed' = doomed \ {i}
        /\ UNCHANGED <<closed, members, pState, pub, made, tid, handler, leaving, history>>
    BY <1>11 DEF LeaveDestroy
  <2> QED
    BY <2>1, DestroyTypes DEF TypeParts
<1>12. ASSUME LeaveEnd PROVE TypeParts'
  <2>1. destroyTracks(leaving, Orphans, {leaving}) /\ members' = members \ {leaving}
        /\ leaving' = Nobody
        /\ UNCHANGED <<closed, pState, pub, made, tid, handler, doomed, history>>
    BY <1>12 DEF LeaveEnd
  <2> QED
    BY <2>1, DestroyTypes DEF TypeParts
<1>13. CASE Close
  <2>1. sub' \in [Participants -> [TrackIDs -> 0..made]]
        /\ pub' \in [Participants -> [TrackIDs -> 0..made]]
        /\ registry' \in [TrackIDs -> 0..made]
        /\ \A i \in TrackIDs : registry'[i] = None
    BY <1>13, TrackNumbers DEF TypeParts, Close, ParticipantLeave, Empty
  <2>2. subs' \in [Tracks -> SUBSET SomeIDs]
    BY <1>13 DEF TypeParts, Close, ParticipantLeave
  <2>3. published' \subseteq 1..made /\ publisher' \in [Tracks -> Participants \cup {Nobody}]
        /\ pState' \in [Participants -> {"new", "joined", "left"}]
    <3>1. published' \subseteq published
      BY <1>13 DEF Close, ParticipantLeave, Unpublish
    <3>2. publisher' \in [Tracks -> Participants \cup {Nobody}]
      BY <1>13 DEF TypeParts, Close, ParticipantLeave, ClearPublisher
    <3>3. pState' \in [Participants -> {"new", "joined", "left"}]
      BY <1>13 DEF TypeParts, Close, ParticipantLeave
    <3> QED
      BY <3>1, <3>2, <3>3 DEF TypeParts
  <2>4. closed' = TRUE /\ members' = {} /\ leaving = Nobody
        /\ UNCHANGED <<made, tid, handler, leave, history>>
    BY <1>13 DEF Close, RoomFree
  <2> QED
    BY <2>1, <2>2, <2>3, <2>4 DEF TypeParts
<1>14. CASE UNCHANGED vars
  BY <1>14 DEF TypeParts, vars, HandlerOK
<1> QED
  BY <1>1, <1>2, <1>3, <1>4, <1>5, <1>6, <1>7, <1>8, <1>9, <1>10, <1>11, <1>12,
     <1>13, <1>14, Zenon DEF Next

-----------------------------------------------------------------------------
(* The parts of the invariant.                                             *)

(* Ending a subscription ends that one.                                    *)
LEMMA UnsubscribeShrinks ==
    ASSUME TypeParts, NEW p \in Participants, NEW i \in TrackIDs, unsubscribe(p, i)
    PROVE  \A q \in Participants, j \in TrackIDs :
               sub'[q][j] = IF q = p /\ j = i THEN None ELSE sub[q][j]
<1>1. sub' = [sub EXCEPT ![p][i] = None]
  BY DEF unsubscribe
<1> QED
  BY <1>1 DEF TypeParts

(* What RollBack does to the subscriptions.                                *)
LEMMA RollBackEnds ==
    ASSUME TypeParts, NEW l \in Loops, RollBack(l)
    PROVE  /\ handler[l].on \in TrackIDs
           /\ \/ UNCHANGED <<sub, subs>>
              \/ sub[Of[l]][handler[l].on] # None /\ unsubscribe(Of[l], handler[l].on)
<1>1. handler[l].on \in TrackIDs
  BY HandlerTypes DEF RollBack, Continues
<1> QED
  BY <1>1 DEF RollBack

(* Destroying tracks only takes subscriptions.                             *)
LEMMA DestroyShrinks ==
    ASSUME TypeParts, NEW p, NEW ks, NEW ps, destroyTracks(p, ks, ps)
    PROVE  \A q \in Participants, j \in TrackIDs :
               sub'[q][j] # None => q \notin ps /\ sub[q][j] # None
  BY DEF destroyTracks

(* Membership is kept.                                                     *)
LEMMA MembershipStep == ASSUME RoomInv, [Next]_vars PROVE Membership'
<1> USE DEF room, people, tracks, leave, history
<1>0. /\ members \subseteq Participants /\ strays \subseteq Participants
      /\ pState \in [Participants -> {"new", "joined", "left"}]
      /\ sub \in [Participants -> [TrackIDs -> 0..made]]
      /\ leaving \in members \cup {Nobody} /\ Nobody \notin Participants
      /\ \A l \in Loops : Of[l] \in Participants
      /\ Membership
  BY Served, RoomAssumption DEF RoomInv, TypeParts
<1>1. ASSUME NEW p \in Participants, Join(p) PROVE Membership'
  BY <1>0, <1>1 DEF Membership, Join, RoomFree
<1>2. ASSUME NEW l \in Loops, NEW i \in TrackIDs,
             PublishTrack(l, i) \/ UnpublishTrack(l, i)
      PROVE  Membership'
  <2>1. UNCHANGED <<room, pState, sub, leave, strays>>
    BY <1>2 DEF PublishTrack, UnpublishTrack
  <2> QED
    BY <1>0, <2>1 DEF Membership, Empty
<1>3. ASSUME NEW l \in Loops, RoomPublishTrack(l) \/ RoomUnpublishTrack(l) \/ Attached(l)
      PROVE  Membership'
  <2>1. UNCHANGED <<closed, members, pState, sub, leave, strays>>
        /\ (closed => registry' = registry)
    BY <1>3 DEF RoomPublishTrack, RoomUnpublishTrack, Attached
  <2> QED
    BY <1>0, <2>1 DEF Membership, Empty
<1>4. ASSUME NEW l \in Loops, NEW i \in TrackIDs, SubscribeToTrack(l, i)
      PROVE  Membership'
  <2>1. PICK k \in Resolve(i) : SubscribeTrack(Of[l], i, k)
    BY <1>4 DEF SubscribeToTrack
  <2>2. sub' = [sub EXCEPT ![Of[l]][i] = k] /\ pState[Of[l]] = "joined"
    BY <2>1 DEF SubscribeTrack
  <2>3. UNCHANGED <<room, pState, leave>> /\ ~closed /\ leaving = Nobody
        /\ strays' = IF Gone(Of[l]) THEN strays \cup {Of[l]} ELSE strays
    BY <1>4 DEF SubscribeToTrack, RoomFree
  <2>4. Gone(Of[l]) <=> Of[l] \notin members
    BY <1>0, <2>3 DEF Gone
  <2>5. \A p \in strays' : p \notin members /\ pState[p] # "new"
    BY <1>0, <2>2, <2>3, <2>4 DEF Membership
  <2>6. \A p \in Participants, j \in TrackIDs :
            sub'[p][j] # None => p \in members \/ p \in strays'
    BY <1>0, <2>2, <2>3, <2>4 DEF Membership
  <2> QED
    BY <1>0, <2>3, <2>5, <2>6 DEF Membership
<1>5. ASSUME NEW l \in Loops, NEW i \in TrackIDs, UnsubscribeFromTrack(l, i)
      PROVE  Membership'
  <2>1. UNCHANGED <<room, pState, leave, strays>> /\ unsubscribe(Of[l], i)
    BY <1>5 DEF UnsubscribeFromTrack
  <2>2. \A q \in Participants, j \in TrackIDs : sub'[q][j] # None => sub[q][j] # None
    BY <1>0, <2>1, UnsubscribeShrinks DEF RoomInv
  <2> QED
    BY <1>0, <2>1, <2>2 DEF Membership, Empty
<1>6. ASSUME NEW l \in Loops, RollBack(l) PROVE Membership'
  <2>1. UNCHANGED <<room, pState, leave, strays>>
    BY <1>6 DEF RollBack
  <2>2. \A q \in Participants, j \in TrackIDs : sub'[q][j] # None => sub[q][j] # None
    BY <1>0, <1>6, RollBackEnds, UnsubscribeShrinks DEF RoomInv
  <2> QED
    BY <1>0, <2>1, <2>2 DEF Membership, Empty
<1>7. ASSUME NEW p \in Participants, LeaveBegin(p) PROVE Membership'
  BY <1>0, <1>7 DEF LeaveBegin, Membership
<1>8. ASSUME NEW i \in TrackIDs, LeaveDestroy(i) PROVE Membership'
  <2>1. destroyTracks(leaving, {pub[leaving][i]} \ {None}, {}) /\ doomed' = doomed \ {i}
        /\ UNCHANGED <<closed, members, pState, leaving, strays>> /\ i \in doomed
    BY <1>8 DEF LeaveDestroy
  <2>2. ~closed /\ leaving # Nobody
    BY <1>0, <2>1 DEF Membership
  <2>3. \A q \in Participants, j \in TrackIDs : sub'[q][j] # None => sub[q][j] # None
    BY <2>1, DestroyShrinks DEF RoomInv
  <2> QED
    BY <1>0, <2>1, <2>2, <2>3 DEF Membership
<1>9. ASSUME LeaveEnd PROVE Membership'
  <2>1. destroyTracks(leaving, Orphans, {leaving}) /\ members' = members \ {leaving}
        /\ leaving' = Nobody /\ leaving # Nobody /\ doomed = {}
        /\ UNCHANGED <<closed, pState, doomed, strays>>
    BY <1>9 DEF LeaveEnd
  <2>2. ~closed
    BY <1>0, <2>1 DEF Membership
  <2>3. \A q \in Participants, j \in TrackIDs :
            sub'[q][j] # None => q # leaving /\ sub[q][j] # None
    BY <2>1, DestroyShrinks DEF RoomInv
  <2> QED
    BY <1>0, <2>1, <2>2, <2>3 DEF Membership
<1>10. CASE Close
  <2>1. \A q \in Participants, j \in TrackIDs :
            sub'[q][j] # None => q \notin members /\ sub[q][j] # None
    BY <1>10 DEF Close, ParticipantLeave, Empty
  <2>2. members' = {} /\ registry' = Empty /\ leaving = Nobody /\ UNCHANGED <<leave, history>>
    BY <1>10 DEF Close, RoomFree
  <2>3. \A q \in Participants : pState[q] # "new" => pState'[q] # "new"
    BY <1>10 DEF Close, ParticipantLeave
  <2> QED
    BY <1>0, <2>1, <2>2, <2>3 DEF Membership, Empty
<1>11. CASE UNCHANGED vars
  BY <1>0, <1>11 DEF Membership, vars, Empty
<1> QED
  BY <1>1, <1>2, <1>3, <1>4, <1>5, <1>6, <1>7, <1>8, <1>9, <1>10, <1>11, Zenon
     DEF Next

(* What an ID resolves to is a track of that ID, one of the tracks made.   *)
LEMMA ResolvedTrack ==
    ASSUME RoomInv, NEW i \in TrackIDs, NEW k \in Resolve(i)
    PROVE  k \in 1..made /\ k \in Tracks /\ k # None /\ tid[k] = i
<1>1. CASE registry[i] # None
  BY <1>1, TrackNumbers DEF RoomInv, TypeParts, Resolve
<1>2. CASE registry[i] = None
  <2>1. PICK q \in members : k = pub[q][i] /\ k # None
    BY <1>2 DEF Resolve
  <2>2. q \in Participants /\ pub[q][i] \in 0..made
    BY <2>1 DEF RoomInv, TypeParts
  <2> QED
    BY <2>1, <2>2, TrackNumbers DEF RoomInv, Publications
<1> QED
  BY <1>1, <1>2

(* Ending one subscription leaves the others and their lists as they were, *)
(* but for a member that the one who ends it shadows.                      *)
LEMMA UnsubscribeKeeps ==
    ASSUME RoomInv, NEW p \in Participants, NEW i \in TrackIDs, sub[p][i] # None,
           unsubscribe(p, i), UNCHANGED <<members, made, tid, publisher, leaving, strays>>
    PROVE  Subscriptions'
<1> DEFINE k == sub[p][i]
<1>0. /\ members \subseteq Participants /\ sub \in [Participants -> [TrackIDs -> 0..made]]
      /\ subs \in [Tracks -> SUBSET SomeIDs] /\ tid \in [Tracks -> TrackIDs]
      /\ \A q, r \in members : Id[q] = Id[r] => q = r
      /\ Subscriptions /\ (p \in members \/ p \in strays)
  BY DEF RoomInv, TypeParts, Membership
<1>1. subs' = [subs EXCEPT ![k] = @ \ {Id[p]}]
      /\ \A q \in Participants, j \in TrackIDs :
            sub'[q][j] = IF q = p /\ j = i THEN None ELSE sub[q][j]
  BY UnsubscribeShrinks DEF unsubscribe, RemoveSubscriber, RoomInv
<1>2. tid[k] = i
  BY <1>0 DEF Subscriptions
<1>3. \A j \in 0..made : j # None => j \in Tracks
  BY TrackNumbers DEF RoomInv
<1>4. ASSUME NEW q \in members, NEW j \in TrackIDs, Unshadowed(q), sub'[q][j] # None
      PROVE  /\ Id[q] \in subs'[sub'[q][j]]
             /\ q # leaving => publisher[sub'[q][j]] # Nobody
  <2>1. sub'[q][j] = sub[q][j] /\ ~(q = p /\ j = i)
    BY <1>0, <1>1, <1>4
  <2>2. /\ tid[sub[q][j]] = j /\ Id[q] \in subs[sub[q][j]]
        /\ q # leaving => publisher[sub[q][j]] # Nobody
    BY <1>0, <1>4, <2>1 DEF Subscriptions
  <2>3. sub[q][j] \in Tracks
    BY <1>0, <1>3, <1>4, <2>1
  <2>4. sub[q][j] = k => q # p
    BY <1>2, <2>1, <2>2
  <2>5. sub[q][j] = k => Id[q] # Id[p]
    BY <1>0, <1>4, <2>4 DEF Unshadowed
  <2> QED
    BY <1>0, <1>1, <2>1, <2>2, <2>3, <2>5
<1>5. ASSUME NEW m \in Tracks, NEW s \in subs'[m]
      PROVE  \/ \E q \in members : Id[q] = s /\ sub'[q][tid[m]] = m
             \/ \E q \in strays : Id[q] = s
  <2>1. s \in subs[m] /\ (m = k => s # Id[p]) /\ tid[m] \in TrackIDs
    BY <1>0, <1>1, <1>5
  <2>2. CASE \E q \in strays : Id[q] = s
    BY <2>2
  <2>3. CASE \E q \in members : Id[q] = s /\ sub[q][tid[m]] = m
    <3>1. PICK q \in members : Id[q] = s /\ sub[q][tid[m]] = m
      BY <2>3
    <3>2. ~(q = p /\ tid[m] = i)
      BY <2>1, <3>1
    <3> QED
      BY <1>0, <1>1, <2>1, <3>1, <3>2
  <2> QED
    BY <1>0, <2>1, <2>2, <2>3 DEF Subscriptions
<1>6. \A m \in Tracks : subs'[m] \subseteq subs[m]
  BY <1>0, <1>1
<1> QED
  BY <1>0, <1>1, <1>4, <1>5, <1>6 DEF Subscriptions, Unshadowed

(* Destroying tracks on behalf of leaver p ends the subscriptions of every *)
(* other member to them.                                                   *)
LEMMA DestroySubscriptions ==
    ASSUME RoomInv, NEW p \in members, NEW ks, NEW ps \in SUBSET {p},
           destroyTracks(p, ks, ps), members' = members \ ps,
           ps = {p} \/ leaving' = p, UNCHANGED <<made, tid, strays>>,
           p = leaving
    PROVE  Subscriptions'
<1>0. /\ members \subseteq Participants /\ sub \in [Participants -> [TrackIDs -> 0..made]]
      /\ subs \in [Tracks -> SUBSET SomeIDs] /\ tid \in [Tracks -> TrackIDs]
      /\ \A q, r \in members : Id[q] = Id[r] => q = r
      /\ Subscriptions
  BY DEF RoomInv, TypeParts
<1>1. publisher' = [k \in Tracks |-> IF k \in ks THEN Nobody ELSE publisher[k]]
  BY DEF destroyTracks, ClearPublisher
<1>2. /\ sub' = [q \in Participants |->
                   [i \in TrackIDs |-> IF q \in Detached(p, ks, i) \cup ps
                                       THEN None ELSE sub[q][i]]]
      /\ subs' = [k \in Tracks |->
                    {s \in subs[k] :
                       /\ k \in ks => s = Id[p]
                       /\ \A q \in Detached(p, ks, tid[k]) \cup ps :
                             s = Id[q] => sub[q][tid[k]] # k}]
  BY DEF destroyTracks
<1>3. \A j \in 0..made : j # None => j \in Tracks
  BY TrackNumbers DEF RoomInv
<1>4. \A q \in Participants, j \in TrackIDs : sub'[q][j] # None => sub'[q][j] = sub[q][j]
  BY <1>2
<1>5. ASSUME NEW q \in members', NEW j \in TrackIDs, Unshadowed(q), sub'[q][j] # None
      PROVE  /\ Id[q] \in subs'[sub'[q][j]]
             /\ q # leaving' => publisher'[sub'[q][j]] # Nobody
  <2> DEFINE k == sub[q][j]
  <2>1. q \in members /\ q \in Participants /\ q \notin ps
    BY <1>0
  <2>2. sub'[q][j] = k /\ q \notin Detached(p, ks, j) /\ k # None
    BY <1>2, <1>5, <2>1
  <2>3. tid[k] = j /\ Id[q] \in subs[k] /\ (q # p => publisher[k] # Nobody)
    BY <1>0, <1>5, <2>1, <2>2 DEF Subscriptions
  <2>4. k \in Tracks
    BY <1>0, <1>3, <2>1, <2>2
  <2>5. q # p => k \notin ks
    BY <2>1, <2>2, <2>3 DEF Detached
  <2>6. ASSUME NEW r \in Detached(p, ks, tid[k]) \cup ps PROVE Id[q] # Id[r]
    <3>1. r \in members /\ r # q
      BY <2>1, <2>2, <2>3 DEF Detached
    <3> QED
      BY <1>0, <2>1, <3>1
  <2>7. Id[q] \in subs'[k]
    BY <1>2, <2>3, <2>4, <2>5, <2>6
  <2>8. q # leaving' => q # p
    BY <2>1
  <2>9. q # p => publisher'[k] # Nobody
    BY <1>1, <2>3, <2>4, <2>5
  <2> QED
    BY <2>2, <2>7, <2>8, <2>9
<1>6. ASSUME NEW k \in Tracks, NEW s \in subs'[k]
      PROVE  \/ \E q \in members' : Id[q] = s /\ sub'[q][tid[k]] = k
             \/ \E q \in strays : Id[q] = s
  <2>1. /\ s \in subs[k] /\ tid[k] \in TrackIDs
        /\ \A q \in Detached(p, ks, tid[k]) \cup ps : s = Id[q] => sub[q][tid[k]] # k
    BY <1>0, <1>2
  <2>2. CASE \E q \in strays : Id[q] = s
    BY <2>2
  <2>3. CASE \E q \in members : Id[q] = s /\ sub[q][tid[k]] = k
    <3>1. PICK q \in members : Id[q] = s /\ sub[q][tid[k]] = k
      BY <2>3
    <3>2. q \notin ps /\ q \notin Detached(p, ks, tid[k])
      BY <2>1, <3>1
    <3>3. sub'[q][tid[k]] = k
      BY <1>0, <1>2, <2>1, <3>1, <3>2
    <3> QED
      BY <3>1, <3>2, <3>3
  <2> QED
    BY <1>0, <2>1, <2>2, <2>3 DEF Subscriptions
<1>7. \A k \in Tracks : subs'[k] \subseteq subs[k]
  BY <1>2
<1> QED
  BY <1>0, <1>4, <1>5, <1>6, <1>7 DEF Subscriptions, Unshadowed

(* Subscriptions are kept.                                                 *)
LEMMA SubscriptionsStep == ASSUME RoomInv, [Next]_vars PROVE Subscriptions'
<1> USE DEF room, people, tracks, leave, history
<1>0. /\ members \subseteq Participants /\ sub \in [Participants -> [TrackIDs -> 0..made]]
      /\ subs \in [Tracks -> SUBSET SomeIDs] /\ tid \in [Tracks -> TrackIDs]
      /\ publisher \in [Tracks -> Participants \cup {Nobody}]
      /\ strays \subseteq Participants /\ leaving \in members \cup {Nobody}
      /\ \A q, r \in members : Id[q] = Id[r] => q = r
      /\ Nobody \notin Participants /\ \A l \in Loops : Of[l] \in Participants
      /\ Subscriptions /\ Membership /\ Publications
  BY Served, RoomAssumption DEF RoomInv, TypeParts
<1>1. ASSUME NEW p \in Participants, Join(p) PROVE Subscriptions'
  <2>1. p \notin members /\ p \notin strays
    BY <1>0, <1>1 DEF Membership, Join
  <2>2. \A j \in TrackIDs : sub[p][j] = None
    BY <1>0, <2>1 DEF Membership
  <2>3. members' = members \cup {p}
        /\ UNCHANGED <<sub, made, tid, subs, publisher, leaving, strays>>
    BY <1>1 DEF Join
  <2> QED
    BY <1>0, <2>2, <2>3 DEF Subscriptions, Unshadowed
<1>2. ASSUME NEW l \in Loops, NEW i \in TrackIDs, PublishTrack(l, i)
      PROVE  Subscriptions'
  <2> DEFINE n == made + 1
  <2>1. tid' = [tid EXCEPT ![n] = i] /\ publisher' = [publisher EXCEPT ![n] = Of[l]]
        /\ made' = n /\ UNCHANGED <<members, sub, subs, leaving, strays>> /\ made < MaxTracks
    BY <1>2 DEF PublishTrack, Publish
  <2>2. n \in Tracks /\ n \notin 1..made /\ 1..made \subseteq 1..n
        /\ \A j \in 0..made : j # n
    BY <2>1, RoomAssumption DEF RoomInv, TypeParts, Tracks
  <2>3. subs[n] = {}
    BY <1>0, <2>2 DEF Subscriptions
  <2>4. \A j \in 0..made : j # None => j \in Tracks
    BY TrackNumbers DEF RoomInv
  <2>5. ASSUME NEW q \in Participants, NEW j \in TrackIDs, sub[q][j] # None
        PROVE  /\ tid'[sub[q][j]] = tid[sub[q][j]]
               /\ publisher'[sub[q][j]] = publisher[sub[q][j]]
    <3>1. sub[q][j] \in 0..made
      BY <1>0
    <3>2. sub[q][j] \in Tracks /\ sub[q][j] # n
      BY <2>2, <2>4, <2>5, <3>1
    <3> QED
      BY <1>0, <2>1, <3>2
  <2>6. ASSUME NEW k \in Tracks, NEW s \in subs[k] PROVE tid'[k] = tid[k]
    <3>1. k # n
      BY <2>3, <2>6
    <3> QED
      BY <1>0, <2>1, <3>1
  <2>7. \A k \in Tracks : k \notin 1..n => subs[k] = {}
    BY <1>0, <2>2 DEF Subscriptions
  <2> HIDE DEF n
  <2>8. \A q \in members, j \in TrackIDs :
            Unshadowed(q) /\ sub[q][j] # None =>
                /\ Id[q] \in subs[sub[q][j]]
                /\ q # leaving => publisher'[sub[q][j]] # Nobody
    BY <1>0, <2>5 DEF Subscriptions
  <2>9. \A q \in Participants, j \in TrackIDs : sub[q][j] # None => tid'[sub[q][j]] = j
    BY <1>0, <2>5 DEF Subscriptions
  <2>10. \A k \in Tracks : \A s \in subs[k] :
            \/ \E q \in members : Id[q] = s /\ sub[q][tid'[k]] = k
            \/ \E q \in strays : Id[q] = s
    BY <1>0, <2>6 DEF Subscriptions
  <2> QED
    BY <2>1, <2>7, <2>8, <2>9, <2>10 DEF Subscriptions, Unshadowed
<1>3. ASSUME NEW l \in Loops, RoomPublishTrack(l) \/ RoomUnpublishTrack(l) \/ Attached(l)
      PROVE  Subscriptions'
  <2>1. UNCHANGED <<members, sub, made, tid, subs, publisher, leaving, strays>>
    BY <1>3 DEF RoomPublishTrack, RoomUnpublishTrack, Attached
  <2> QED
    BY <1>0, <2>1 DEF Subscriptions, Unshadowed
<1>4. ASSUME NEW l \in Loops, NEW i \in TrackIDs, UnpublishTrack(l, i)
      PROVE  Subscriptions'
  <2>1. UNCHANGED <<members, sub, made, tid, subs, publisher, leaving, strays>>
    BY <1>4 DEF UnpublishTrack
  <2> QED
    BY <1>0, <2>1 DEF Subscriptions, Unshadowed
<1>5. ASSUME NEW l \in Loops, NEW i \in TrackIDs, SubscribeToTrack(l, i)
      PROVE  Subscriptions'
  <2> DEFINE p == Of[l]
  <2>0. p \in Participants
    BY <1>0
  <2>1. PICK k \in Resolve(i) : SubscribeTrack(p, i, k)
    BY <1>5 DEF SubscribeToTrack
  <2>2. k \in Tracks /\ k \in 1..made /\ k # None /\ tid[k] = i
    BY ResolvedTrack
  <2>3. k \in published /\ sub[p][i] = None /\ sub' = [sub EXCEPT ![p][i] = k]
        /\ subs' = [subs EXCEPT ![k] = @ \cup {Id[p]}]
    BY <2>1 DEF SubscribeTrack, AddSubscriber
  <2>4. publisher[k] # Nobody
    BY <1>0, <2>3 DEF Publications
  <2>5. UNCHANGED <<members, made, tid, publisher, leaving>> /\ leaving = Nobody
        /\ strays' = IF Gone(p) THEN strays \cup {p} ELSE strays
    BY <1>5 DEF SubscribeToTrack, RoomFree
  <2>6. strays \subseteq strays' /\ (p \in members \/ p \in strays')
    BY <1>0, <2>5 DEF Gone
  <2>7. \A q \in Participants, j \in TrackIDs :
            sub'[q][j] = IF q = p /\ j = i THEN k ELSE sub[q][j]
    BY <1>0, <2>0, <2>3
  <2>8. subs'[k] = subs[k] \cup {Id[p]} /\ \A m \in Tracks : m # k => subs'[m] = subs[m]
    BY <1>0, <2>2, <2>3
  <2> HIDE DEF p
  <2>9. ASSUME NEW q \in members, NEW j \in TrackIDs, Unshadowed(q)', sub'[q][j] # None
        PROVE  /\ Id[q] \in subs'[sub'[q][j]]
               /\ publisher[sub'[q][j]] # Nobody
    <3>0. Unshadowed(q) /\ q # leaving /\ q \in Participants
      BY <1>0, <2>5, <2>6, <2>9 DEF Unshadowed
    <3>1. CASE q = p /\ j = i
      BY <2>4, <2>7, <2>8, <3>0, <3>1
    <3>2. CASE ~(q = p /\ j = i)
      <4>1. sub'[q][j] = sub[q][j]
        BY <2>7, <3>0, <3>2
      <4>2. Id[q] \in subs[sub[q][j]] /\ publisher[sub[q][j]] # Nobody
        BY <1>0, <2>9, <3>0, <4>1 DEF Subscriptions
      <4>3. sub[q][j] \in Tracks
        BY <1>0, <2>9, <3>0, <4>1, TrackNumbers DEF RoomInv
      <4> QED
        BY <2>8, <4>1, <4>2, <4>3
    <3> QED
      BY <3>1, <3>2
  <2>10. ASSUME NEW m \in Tracks, NEW s \in subs'[m]
        PROVE  \/ \E q \in members : Id[q] = s /\ sub'[q][tid[m]] = m
               \/ \E q \in strays' : Id[q] = s
    <3>1. CASE m = k /\ s = Id[p]
      <4>1. sub'[p][tid[m]] = m
        BY <2>0, <2>2, <2>7, <3>1
      <4> QED
        BY <2>6, <3>1, <4>1
    <3>2. CASE ~(m = k /\ s = Id[p])
      <4>1. s \in subs[m] /\ m # None /\ tid[m] \in TrackIDs
        BY <1>0, <2>8, <2>10, <3>2, TrackNumbers DEF RoomInv
      <4>2. CASE \E q \in strays : Id[q] = s
        BY <2>6, <4>2
      <4>3. CASE \E q \in members : Id[q] = s /\ sub[q][tid[m]] = m
        <5>1. PICK q \in members : Id[q] = s /\ sub[q][tid[m]] = m
          BY <4>3
        <5>2. ~(q = p /\ tid[m] = i)
          BY <2>3, <4>1, <5>1 DEF p
        <5> QED
          BY <1>0, <2>7, <4>1, <5>1, <5>2
      <4> QED
        BY <1>0, <4>1, <4>2, <4>3 DEF Subscriptions
    <3> QED
      BY <3>1, <3>2
  <2>11. \A m \in Tracks : m \notin 1..made => subs'[m] = {}
    BY <1>0, <2>2, <2>8 DEF Subscriptions
  <2>12. \A q \in Participants, j \in TrackIDs : sub'[q][j] # None => tid[sub'[q][j]] = j
    BY <1>0, <2>2, <2>7 DEF Subscriptions
  <2> QED
    BY <2>5, <2>9, <2>10, <2>11, <2>12 DEF Subscriptions
<1>6. ASSUME NEW l \in Loops, NEW i \in TrackIDs, UnsubscribeFromTrack(l, i)
      PROVE  Subscriptions'
  BY <1>0, <1>6, UnsubscribeKeeps DEF UnsubscribeFromTrack
<1>7. ASSUME NEW l \in Loops, RollBack(l) PROVE Subscriptions'
  <2>1. UNCHANGED <<members, made, tid, publisher, leaving, strays>>
    BY <1>7 DEF RollBack
  <2>2. CASE UNCHANGED <<sub, subs>>
    BY <1>0, <2>1, <2>2 DEF Subscriptions, Unshadowed
  <2> QED
    BY <1>0, <1>7, <2>1, <2>2, RollBackEnds, UnsubscribeKeeps DEF RoomInv
<1>8. ASSUME NEW p \in Participants, LeaveBegin(p) PROVE Subscriptions'
  <2>1. UNCHANGED <<members, sub, made, tid, subs, publisher, strays>> /\ leaving = Nobody
    BY <1>8 DEF LeaveBegin, RoomFree
  <2> QED
    BY <1>0, <2>1 DEF Subscriptions, Unshadowed
<1>9. ASSUME NEW i \in TrackIDs, LeaveDestroy(i) PROVE Subscriptions'
  <2>1. leaving \in members
    BY <1>0, <1>9 DEF LeaveDestroy, Membership
  <2>2. PICK p \in members : p = leaving
    BY <2>1
  <2>3. PICK ks : ks = {pub[leaving][i]} \ {None}
    OBVIOUS
  <2>4. destroyTracks(p, ks, {}) /\ UNCHANGED <<members, made, tid, leaving, strays>>
    BY <1>9, <2>2, <2>3 DEF LeaveDestroy
  <2> QED
    BY <2>2, <2>4, DestroySubscriptions
<1>10. ASSUME LeaveEnd PROVE Subscriptions'
  <2>1. leaving \in members
    BY <1>0, <1>10 DEF LeaveEnd
  <2>2. PICK p \in members : p = leaving
    BY <2>1
  <2>3. PICK ks : ks = Orphans
    OBVIOUS
  <2>4. destroyTracks(p, ks, {p}) /\ UNCHANGED <<made, tid, strays>>
        /\ members' = members \ {p}
    BY <1>10, <2>2, <2>3 DEF LeaveEnd
  <2> QED
    BY <2>2, <2>4, DestroySubscriptions
<1>11. CASE Close
  <2>1. members' = {} /\ UNCHANGED <<made, tid, strays>>
    BY <1>11 DEF Close
  <2>2. subs' = [k \in Tracks |-> subs[k] \ {Id[p] :
                   p \in {q \in members : k \in {pub[q][tid[k]], sub[q][tid[k]]}}}]
    BY <1>11 DEF Close, ParticipantLeave
  <2>3. ASSUME NEW k \in Tracks, NEW s \in subs'[k] PROVE \E p \in strays : Id[p] = s
    <3>1. s \in subs[k]
          /\ ~ \E q \in members : Id[q] = s /\ sub[q][tid[k]] = k
      BY <2>2, <2>3
    <3> QED
      BY <1>0, <3>1 DEF Subscriptions
  <2>4. \A q \in Participants, j \in TrackIDs : sub'[q][j] # None => sub'[q][j] = sub[q][j]
    BY <1>11 DEF Close, ParticipantLeave, Empty
  <2>5. \A k \in Tracks : subs'[k] \subseteq subs[k]
    BY <2>2
  <2> QED
    BY <1>0, <2>1, <2>3, <2>4, <2>5 DEF Subscriptions
<1>12. CASE UNCHANGED vars
  BY <1>0, <1>12 DEF Subscriptions, Unshadowed, vars
<1> QED
  BY <1>1, <1>2, <1>3, <1>4, <1>5, <1>6, <1>7, <1>8, <1>9, <1>10, <1>11, <1>12,
     Zenon DEF Next

(* A published track is one of the tracks made, held by a participant.     *)
LEMMA PublishedTrack ==
    ASSUME RoomInv, NEW k \in published
    PROVE  /\ k \in Tracks /\ k \in 1..made /\ k # None /\ tid[k] \in TrackIDs
           /\ publisher[k] \in Participants
           /\ k = pub[publisher[k]][tid[k]]
<1>1. k \in Tracks /\ k \in 1..made /\ k # None
  BY TrackNumbers DEF RoomInv, TypeParts
<1> QED
  BY <1>1 DEF RoomInv, TypeParts, Publications

(* Publications are kept.                                                  *)
LEMMA PublicationsStep == ASSUME RoomInv, [Next]_vars PROVE Publications'
<1> USE DEF room, people, tracks, leave, history
<1>0. /\ members \subseteq Participants /\ pub \in [Participants -> [TrackIDs -> 0..made]]
      /\ tid \in [Tracks -> TrackIDs] /\ published \subseteq 1..made
      /\ publisher \in [Tracks -> Participants \cup {Nobody}]
      /\ leaving \in members \cup {Nobody} /\ Nobody \notin Participants
      /\ \A l \in Loops : Of[l] \in Participants
      /\ Membership /\ Publications
  BY Served, RoomAssumption DEF RoomInv, TypeParts
<1>1. ASSUME NEW p \in Participants, Join(p) PROVE Publications'
  <2>1. members' = members \cup {p}
        /\ UNCHANGED <<pub, tid, published, publisher, leaving, doomed, ghosts>>
    BY <1>1 DEF Join
  <2> QED
    BY <1>0, <2>1 DEF Publications
<1>2. ASSUME NEW l \in Loops, NEW i \in TrackIDs, PublishTrack(l, i)
      PROVE  Publications'
  <2> DEFINE n == made + 1
             p == Of[l]
  <2>1. /\ tid' = [tid EXCEPT ![n] = i] /\ publisher' = [publisher EXCEPT ![n] = p]
        /\ published' = published \cup {n} /\ pub' = [pub EXCEPT ![p][i] = n]
        /\ UNCHANGED <<members, leaving, doomed>> /\ made < MaxTracks
        /\ pub[p][i] = None /\ p \in Participants
        /\ ghosts' = IF Gone(p) THEN ghosts \cup {n} ELSE ghosts
    BY <1>0, <1>2 DEF PublishTrack, Publish
  <2>2. n \in Tracks /\ n # None /\ n \notin 0..made /\ n \notin 1..made
    BY SMTT(30), <2>1, RoomAssumption DEF RoomInv, TypeParts, Tracks, None
  <2>3. \A j \in 0..made : j # None => j \in Tracks
    BY TrackNumbers DEF RoomInv
  <2>4. \A q \in Participants, j \in TrackIDs :
            pub[q][j] # None => tid'[pub[q][j]] = tid[pub[q][j]]
    BY <1>0, <2>1, <2>2, <2>3
  <2>5. \A q \in Participants, j \in TrackIDs :
            pub'[q][j] = IF q = p /\ j = i THEN n ELSE pub[q][j]
    BY <1>0, <2>1
  <2>6. tid'[n] = i /\ publisher'[n] = p /\ publisher'[n] # Nobody
    BY <1>0, <2>1, <2>2
  <2>7. \A k \in published : tid'[k] = tid[k] /\ publisher'[k] = publisher[k]
    BY <1>0, <2>1, <2>2, PublishedTrack
  <2>8. n \in ghosts' \/ (p \in members /\ p # leaving)
    BY <2>1 DEF Gone
  <2>9. ghosts \subseteq ghosts'
    BY <2>1
  <2> HIDE DEF n, p
  <2>10. \A q \in Participants, j \in TrackIDs : pub'[q][j] # None => tid'[pub'[q][j]] = j
    BY <1>0, <2>4, <2>5, <2>6 DEF Publications
  <2>11. \A q, r \in Participants, j \in TrackIDs :
            pub'[q][j] # None /\ pub'[q][j] = pub'[r][j] => q = r
    <3>1. \A q \in Participants, j \in TrackIDs : pub[q][j] # n
      BY <1>0, <2>2
    <3> QED
      BY <1>0, <2>5, <3>1 DEF Publications
  <2>12. ASSUME NEW k \in published'
         PROVE  /\ publisher'[k] # Nobody /\ pub'[publisher'[k]][tid'[k]] = k
                /\ publisher'[k] \in members \/ k \in ghosts'
                /\ publisher'[k] = leaving => tid'[k] \in doomed \/ k \in ghosts'
    <3>1. CASE k = n
      BY <2>1, <2>5, <2>6, <2>8, <3>1
    <3>2. CASE k # n
      <4>1. k \in published
        BY <2>1, <3>2
      <4>2. /\ tid[k] \in TrackIDs /\ k # None /\ publisher[k] \in Participants
            /\ pub[publisher[k]][tid[k]] = k
        BY <4>1, PublishedTrack
      <4>3. ~(publisher[k] = p /\ tid[k] = i)
        BY <2>1, <4>2
      <4>4. pub'[publisher[k]][tid[k]] = k
        BY <2>5, <4>2, <4>3
      <4> QED
        BY <1>0, <2>7, <2>9, <4>1, <4>4 DEF Publications
    <3> QED
      BY <3>1, <3>2
  <2> QED
    BY <2>1, <2>10, <2>11, <2>12 DEF Publications
<1>3. ASSUME NEW l \in Loops,
             RoomPublishTrack(l) \/ RoomUnpublishTrack(l) \/ Attached(l) \/ RollBack(l)
      PROVE  Publications'
  <2>1. UNCHANGED <<members, pub, tid, published, publisher, leaving, doomed>>
        /\ ghosts \subseteq ghosts'
    BY <1>3 DEF RoomPublishTrack, RoomUnpublishTrack, Attached, RollBack
  <2> QED
    BY <1>0, <2>1 DEF Publications
<1>4. ASSUME NEW l \in Loops, NEW i \in TrackIDs, UnpublishTrack(l, i)
      PROVE  Publications'
  <2> DEFINE n == pub[Of[l]][i]
  <2>1. /\ published' = published \ {n} /\ pub' = [pub EXCEPT ![Of[l]][i] = None]
        /\ UNCHANGED <<members, tid, publisher, leaving, doomed, ghosts>>
    BY <1>4 DEF UnpublishTrack, Unpublish
  <2>2. \A q \in Participants, j \in TrackIDs :
            pub'[q][j] = IF q = Of[l] /\ j = i THEN None ELSE pub[q][j]
    BY <1>0, <2>1
  <2>3. ASSUME NEW k \in published' PROVE k \in published /\ pub'[publisher[k]][tid[k]] = k
    <3>1. k \in published /\ k # n
      BY <2>1
    <3>2. /\ tid[k] \in TrackIDs /\ publisher[k] \in Participants
          /\ pub[publisher[k]][tid[k]] = k
      BY <3>1, PublishedTrack
    <3> QED
      BY <2>2, <3>1, <3>2
  <2>4. \A q \in Participants, j \in TrackIDs : pub'[q][j] # None => tid[pub'[q][j]] = j
    BY <1>0, <2>2 DEF Publications
  <2>5. \A q, r \in Participants, j \in TrackIDs :
            pub'[q][j] # None /\ pub'[q][j] = pub'[r][j] => q = r
    BY <1>0, <2>2 DEF Publications
  <2> QED
    BY <1>0, <2>1, <2>3, <2>4, <2>5 DEF Publications
<1>5. ASSUME NEW l \in Loops, NEW i \in TrackIDs,
             SubscribeToTrack(l, i) \/ UnsubscribeFromTrack(l, i)
      PROVE  Publications'
  <2>1. UNCHANGED <<members, pub, tid, published, publisher, leaving, doomed, ghosts>>
    BY <1>5 DEF SubscribeToTrack, UnsubscribeFromTrack
  <2> QED
    BY <1>0, <2>1 DEF Publications
<1>6. ASSUME NEW p \in Participants, LeaveBegin(p) PROVE Publications'
  <2>1. /\ UNCHANGED <<members, pub, tid, published, publisher, ghosts>>
        /\ leaving' = p /\ doomed' = {i \in TrackIDs : pub[p][i] # None}
    BY <1>6 DEF LeaveBegin
  <2>2. ASSUME NEW k \in published, publisher[k] = p PROVE tid[k] \in doomed'
    <3>1. tid[k] \in TrackIDs /\ pub[p][tid[k]] # None
      BY <2>2, PublishedTrack
    <3> QED
      BY <2>1, <3>1
  <2> QED
    BY <1>0, <2>1, <2>2 DEF Publications
<1>7. ASSUME NEW i \in TrackIDs, LeaveDestroy(i) PROVE Publications'
  <2> DEFINE ks == {pub[leaving][i]} \ {None}
  <2>1. /\ published' = published \ ks
        /\ publisher' = [k \in Tracks |-> IF k \in ks THEN Nobody ELSE publisher[k]]
        /\ doomed' = doomed \ {i}
        /\ UNCHANGED <<members, pub, tid, leaving, ghosts>>
    BY <1>7 DEF LeaveDestroy, destroyTracks, Unpublish, ClearPublisher
  <2>2. ASSUME NEW k \in published'
        PROVE  /\ k \in published /\ publisher'[k] = publisher[k]
               /\ publisher[k] = leaving => tid[k] # i
    <3>1. k \in published /\ k \notin ks
      BY <2>1
    <3>2. k \in Tracks /\ k # None /\ k = pub[publisher[k]][tid[k]]
      BY <3>1, PublishedTrack
    <3> QED
      BY <2>1, <3>1, <3>2
  <2> HIDE DEF ks
  <2>3. \A k \in published' :
            /\ publisher'[k] # Nobody /\ pub'[publisher'[k]][tid'[k]] = k
            /\ publisher'[k] \in members' \/ k \in ghosts'
    BY <1>0, <2>1, <2>2 DEF Publications
  <2>4. \A k \in published' :
            publisher'[k] = leaving' => tid'[k] \in doomed' \/ k \in ghosts'
    BY <1>0, <2>1, <2>2 DEF Publications
  <2>5. /\ \A q \in Participants, j \in TrackIDs :
               pub'[q][j] # None => tid'[pub'[q][j]] = j
        /\ \A q, r \in Participants, j \in TrackIDs :
               pub'[q][j] # None /\ pub'[q][j] = pub'[r][j] => q = r
    BY <1>0, <2>1 DEF Publications
  <2> QED
    BY <2>3, <2>4, <2>5 DEF Publications
<1>8. ASSUME LeaveEnd PROVE Publications'
  <2>1. /\ published' = published \ Orphans
        /\ publisher' = [k \in Tracks |-> IF k \in Orphans THEN Nobody ELSE publisher[k]]
        /\ members' = members \ {leaving} /\ leaving' = Nobody /\ doomed = {}
        /\ UNCHANGED <<pub, tid, doomed, ghosts>>
    BY <1>8 DEF LeaveEnd, destroyTracks, Unpublish, ClearPublisher
  <2>2. ASSUME NEW k \in published'
        PROVE  k \in published /\ publisher'[k] = publisher[k]
    BY <2>1, PublishedTrack
  <2> QED
    BY <1>0, <2>1, <2>2 DEF Publications
<1>9. CASE Close
  <2> DEFINE gone == {pub[q][i] : q \in members, i \in TrackIDs}
  <2>1. /\ members' = {} /\ UNCHANGED <<tid, leaving, doomed, ghosts>> /\ leaving = Nobody
        /\ published' = published \ gone
        /\ publisher' = [k \in Tracks |-> IF k \in gone THEN Nobody ELSE publisher[k]]
        /\ pub' = [p \in Participants |-> IF p \in members THEN Empty ELSE pub[p]]
    BY <1>9 DEF Close, ParticipantLeave, Unpublish, ClearPublisher, RoomFree
  <2>2. ASSUME NEW k \in published'
        PROVE  /\ k \in published /\ publisher'[k] = publisher[k]
               /\ publisher[k] \in Participants \ members
               /\ pub'[publisher[k]] = pub[publisher[k]]
    <3>1. k \in published /\ k \notin gone
      BY <2>1
    <3>2. /\ k \in Tracks /\ publisher[k] \in Participants /\ tid[k] \in TrackIDs
          /\ k = pub[publisher[k]][tid[k]]
      BY <3>1, PublishedTrack
    <3>3. publisher[k] \notin members
      BY <3>1, <3>2
    <3> QED
      BY <2>1, <3>1, <3>2, <3>3
  <2>3. \A q \in Participants, j \in TrackIDs : pub'[q][j] # None => pub'[q][j] = pub[q][j]
    BY <2>1 DEF Empty
  <2> HIDE DEF gone
  <2>4. \A k \in published' : k \in ghosts /\ publisher[k] # Nobody
    BY <1>0, <2>2 DEF Publications
  <2>5. \A q, r \in Participants, j \in TrackIDs :
            pub'[q][j] # None /\ pub'[q][j] = pub'[r][j] => q = r
    BY <1>0, <2>3 DEF Publications
  <2>6. \A k \in published' :
            /\ publisher'[k] # Nobody /\ pub'[publisher'[k]][tid'[k]] = k
            /\ publisher'[k] # leaving' /\ k \in ghosts'
    BY <1>0, <2>1, <2>2, <2>4 DEF Publications
  <2>7. \A q \in Participants, j \in TrackIDs :
            pub'[q][j] # None => tid'[pub'[q][j]] = j
    BY <1>0, <2>1, <2>3 DEF Publications
  <2> QED
    BY <2>5, <2>6, <2>7 DEF Publications
<1>10. CASE UNCHANGED vars
  BY <1>0, <1>10 DEF Publications, vars
<1> QED
  BY <1>1, <1>2, <1>3, <1>4, <1>5, <1>6, <1>7, <1>8, <1>9, <1>10, Zenon DEF Next

(* One registry entry and the reasons it may be there.                     *)
Live(i) ==
    LET k == registry[i]
        p == publisher[k] IN
    \/ p \in members /\ pub[p][i] = k /\ k \in published
    \/ \E l \in Loops : Of[l] = p /\ handler[l] = [op |-> "unpublish", on |-> i]
    \/ k \in ghosts

(* The registry holds live tracks.                                         *)
LEMMA RegistryStep == ASSUME RoomInv, [Next]_vars PROVE RegistryLive'
<1> USE DEF room, people, tracks, leave, history
<1>0. /\ members \subseteq Participants /\ pub \in [Participants -> [TrackIDs -> 0..made]]
      /\ tid \in [Tracks -> TrackIDs] /\ DOMAIN handler = Loops
      /\ registry \in [TrackIDs -> 0..made] /\ published \subseteq 1..made
      /\ \A j \in TrackIDs : registry[j] # None => tid[registry[j]] = j
      /\ publisher \in [Tracks -> Participants \cup {Nobody}]
      /\ leaving \in members \cup {Nobody} /\ Nobody \notin Participants
      /\ \A l \in Loops : Of[l] \in Participants
      /\ \A k \in 0..made : k # None => k \in Tracks
      /\ Membership /\ Publications
  BY Served, RoomAssumption, TrackNumbers DEF RoomInv, TypeParts
<1>a. \A j \in TrackIDs : registry[j] # None => Live(j)
  BY DEF RoomInv, RegistryLive, Live
<1>b. SUFFICES ASSUME NEW i \in TrackIDs, registry'[i] # None PROVE Live(i)'
  BY DEF RegistryLive, Live
<1>1. ASSUME NEW p \in Participants, Join(p) PROVE Live(i)'
  <2>1. members \subseteq members'
        /\ UNCHANGED <<registry, pub, publisher, published, handler, ghosts>>
    BY <1>1 DEF Join
  <2> QED
    BY <1>a, <1>b, <2>1 DEF Live
<1>2. ASSUME NEW l \in Loops, NEW j \in TrackIDs, PublishTrack(l, j) PROVE Live(i)'
  <2> DEFINE n == made + 1
  <2>1. /\ publisher' = [publisher EXCEPT ![n] = Of[l]]
        /\ published' = published \cup {n} /\ pub' = [pub EXCEPT ![Of[l]][j] = n]
        /\ UNCHANGED <<members, registry>> /\ pub[Of[l]][j] = None
        /\ handler[l] = Idle /\ ghosts \subseteq ghosts'
        /\ handler' = [handler EXCEPT ![l] = [op |-> "publish", on |-> n]]
    BY <1>2 DEF PublishTrack, Publish, Serves
  <2>2. registry[i] # None /\ registry[i] # n /\ registry[i] \in Tracks
    BY <1>0, <1>b, <2>1, TrackNumbers DEF RoomInv
  <2>3. publisher'[registry[i]] = publisher[registry[i]] /\ Live(i)
    BY <1>0, <1>a, <2>1, <2>2
  <2>4. \A q \in Loops : handler[q] # Idle => handler'[q] = handler[q]
    BY <1>0, <2>1
  <2>5. \A q \in Participants : pub[q][i] = registry[i] => pub'[q][i] = registry[i]
    BY <1>0, <2>1, <2>2
  <2> HIDE DEF n
  <2> QED
    BY <1>0, <2>1, <2>3, <2>4, <2>5 DEF Live, Idle
<1>3. ASSUME NEW l \in Loops, RoomPublishTrack(l) PROVE Live(i)'
  <2> DEFINE k == handler[l].on
  <2>1. /\ handler[l].op = "publish" /\ handler' = [handler EXCEPT ![l] = Idle]
        /\ UNCHANGED <<members, pub, publisher, published>> /\ ghosts \subseteq ghosts'
        /\ registry' = registry \/ registry' = [registry EXCEPT ![tid[k]] = k]
        /\ k \in published \/ k \in ghosts'
    BY <1>3 DEF RoomPublishTrack, Continues
  <2>2. CASE registry'[i] = registry[i]
    <3>1. Live(i)
      BY <1>a, <1>b, <2>2
    <3>2. \A q \in Loops : handler[q].op = "unpublish" => handler'[q] = handler[q]
      BY <1>0, <2>1
    <3> QED
      BY <2>1, <2>2, <3>1, <3>2 DEF Live
  <2>3. CASE registry'[i] # registry[i]
    <3>1. i = tid[k] /\ registry'[i] = k
      BY <1>0, <2>1, <2>3
    <3>2. CASE k \in ghosts'
      BY <3>1, <3>2 DEF Live
    <3>3. CASE k \in published
      BY <1>0, <2>1, <3>1, <3>3 DEF Publications, Live
    <3> QED
      BY <2>1, <3>2, <3>3
  <2> QED
    BY <2>2, <2>3
<1>4. ASSUME NEW l \in Loops, NEW j \in TrackIDs, UnpublishTrack(l, j) PROVE Live(i)'
  <2> DEFINE n == pub[Of[l]][j]
  <2>1. /\ published' = published \ {n} /\ pub' = [pub EXCEPT ![Of[l]][j] = None]
        /\ UNCHANGED <<members, registry, publisher, ghosts>>
        /\ handler[l] = Idle /\ n # None
        /\ handler' = [handler EXCEPT ![l] = [op |-> "unpublish", on |-> j]]
    BY <1>4 DEF UnpublishTrack, Unpublish, Serves
  <2>2. Live(i) /\ registry[i] # None
    BY <1>a, <1>b, <2>1
  <2>3. \A q \in Loops : handler[q] # Idle => handler'[q] = handler[q]
    BY <1>0, <2>1
  <2>4. handler'[l] = [op |-> "unpublish", on |-> j]
    BY <1>0, <2>1
  <2> DEFINE k == registry[i]
             p == publisher[k]
  <2>5. CASE p \in members /\ pub[p][i] = k /\ k \in published
    <3>1. CASE k = n
      <4>1. i = j
        BY <1>0, <2>2, <2>5, <3>1 DEF Publications
      <4>2. p = Of[l]
        BY <1>0, <2>1, <2>5, <3>1, <4>1 DEF Publications
      <4> QED
        BY <2>1, <2>4, <4>1, <4>2 DEF Live
    <3>2. CASE k # n
      <4>1. pub'[p][i] = k
        BY <1>0, <2>1, <2>5, <3>2
      <4> QED
        BY <2>1, <2>5, <3>2, <4>1 DEF Live
    <3> QED
      BY <3>1, <3>2
  <2>6. CASE \E q \in Loops : Of[q] = p /\ handler[q] = [op |-> "unpublish", on |-> i]
    BY <2>1, <2>3, <2>6 DEF Live, Idle
  <2>7. CASE k \in ghosts
    BY <2>1, <2>7 DEF Live
  <2> QED
    BY <2>2, <2>5, <2>6, <2>7 DEF Live
<1>5. ASSUME NEW l \in Loops, RoomUnpublishTrack(l) PROVE Live(i)'
  <2>1. /\ handler[l].op = "unpublish" /\ handler' = [handler EXCEPT ![l] = Idle]
        /\ UNCHANGED <<members, pub, publisher, published, ghosts>> /\ ~closed
        /\ registry' = [registry EXCEPT ![handler[l].on] = None]
    BY <1>0, <1>5, <1>b DEF RoomUnpublishTrack, Continues, Membership, Empty
  <2>2. handler[l].on # i /\ registry'[i] = registry[i]
    BY <1>0, <1>b, <2>1
  <2>3. Live(i)
    BY <1>a, <1>b, <2>2
  <2>4. \A q \in Loops : handler[q].on = i => handler'[q] = handler[q]
    BY <1>0, <2>1, <2>2
  <2> QED
    BY <2>1, <2>2, <2>3, <2>4 DEF Live
<1>6. ASSUME NEW l \in Loops, Attached(l) \/ RollBack(l) PROVE Live(i)'
  <2>1. /\ handler[l].op = "attach" /\ handler' = [handler EXCEPT ![l] = Idle]
        /\ UNCHANGED <<members, pub, registry, publisher, published, ghosts>>
    BY <1>6 DEF Attached, RollBack, Continues
  <2>2. \A q \in Loops : handler[q].op = "unpublish" => handler'[q] = handler[q]
    BY <1>0, <2>1
  <2> QED
    BY <1>a, <1>b, <2>1, <2>2 DEF Live
<1>7. ASSUME NEW l \in Loops, NEW j \in TrackIDs, SubscribeToTrack(l, j) PROVE Live(i)'
  <2>1. /\ handler[l] = Idle
        /\ handler' = [handler EXCEPT ![l] = [op |-> "attach", on |-> j]]
        /\ UNCHANGED <<members, pub, registry, publisher, published, ghosts>>
    BY <1>7 DEF SubscribeToTrack, Serves
  <2>2. \A q \in Loops : handler[q] # Idle => handler'[q] = handler[q]
    BY <1>0, <2>1
  <2> QED
    BY <1>a, <1>b, <2>1, <2>2 DEF Live, Idle
<1>8. ASSUME NEW l \in Loops, NEW j \in TrackIDs, UnsubscribeFromTrack(l, j)
      PROVE  Live(i)'
  <2>1. UNCHANGED <<members, pub, registry, publisher, published, ghosts, handler>>
    BY <1>8 DEF UnsubscribeFromTrack
  <2> QED
    BY <1>a, <1>b, <2>1 DEF Live
<1>9. ASSUME NEW p \in Participants, LeaveBegin(p) PROVE Live(i)'
  <2>1. UNCHANGED <<members, pub, registry, publisher, published, ghosts, handler>>
    BY <1>9 DEF LeaveBegin
  <2> QED
    BY <1>a, <1>b, <2>1 DEF Live
<1>10. ASSUME NEW j \in TrackIDs, LeaveDestroy(j) PROVE Live(i)'
  <2> DEFINE ks == {pub[leaving][j]} \ {None}
  <2>1. /\ published' = published \ ks
        /\ publisher' = [k \in Tracks |-> IF k \in ks THEN Nobody ELSE publisher[k]]
        /\ registry' = [m \in TrackIDs |-> IF \E k \in ks : tid[k] = m
                                           THEN None ELSE registry[m]]
        /\ UNCHANGED <<members, pub, ghosts, handler>>
    BY <1>10 DEF LeaveDestroy, destroyTracks, Unpublish, ClearPublisher
  <2>2. registry'[i] = registry[i] /\ registry[i] \notin ks /\ registry[i] \in Tracks
    BY <1>0, <1>b, <2>1
  <2>3. publisher'[registry[i]] = publisher[registry[i]]
    BY <2>1, <2>2
  <2>4. Live(i)
    BY <1>a, <1>b, <2>2
  <2> HIDE DEF ks
  <2> QED
    BY <2>1, <2>2, <2>3, <2>4 DEF Live
<1>11. ASSUME LeaveEnd PROVE Live(i)'
  <2>1. /\ published' = published \ Orphans
        /\ publisher' = [k \in Tracks |-> IF k \in Orphans THEN Nobody ELSE publisher[k]]
        /\ registry' = [m \in TrackIDs |-> IF \E k \in Orphans : tid[k] = m
                                           THEN None ELSE registry[m]]
        /\ members' = members \ {leaving} /\ doomed = {}
        /\ UNCHANGED <<pub, ghosts, handler>>
    BY <1>11 DEF LeaveEnd, destroyTracks, Unpublish, ClearPublisher
  <2>2. registry'[i] = registry[i] /\ registry[i] \notin Orphans /\ registry[i] \in Tracks
    BY <1>0, <1>b, <2>1
  <2>3. publisher'[registry[i]] = publisher[registry[i]]
    BY <2>1, <2>2
  <2>4. Live(i)
    BY <1>a, <1>b, <2>2
  <2>5. registry[i] \in published /\ publisher[registry[i]] = leaving => registry[i] \in ghosts
    BY <1>0, <2>1 DEF Publications
  <2> QED
    BY <2>1, <2>2, <2>3, <2>4, <2>5 DEF Live
<1>12. ASSUME Close PROVE Live(i)'
  BY <1>12, <1>b DEF Close, Empty
<1>13. ASSUME UNCHANGED vars PROVE Live(i)'
  <2>1. UNCHANGED <<members, pub, registry, publisher, published, ghosts, handler>>
    BY <1>13 DEF vars
  <2> QED
    BY <1>a, <1>b, <2>1 DEF Live
<1> QED
  BY <1>1, <1>2, <1>3, <1>4, <1>5, <1>6, <1>7, <1>8, <1>9, <1>10, <1>11, <1>12,
     <1>13, Zenon DEF Next

-----------------------------------------------------------------------------
(* The theorems.                                                           *)

(* The initial state: nothing is published, subscribed to or under way.    *)
LEMMA InitInv == Init => RoomInv
<1> SUFFICES ASSUME Init PROVE RoomInv
  OBVIOUS
<1> USE RoomAssumption DEF Init, Empty, None, Tracks
<1>1. TypeParts
  <2>1. tid \in [Tracks -> TrackIDs]
    OBVIOUS
  <2>2. made = 0 /\ made \in 0..MaxTracks /\ 0 \in 0..made /\ published \subseteq 1..made
    OBVIOUS
  <2>3. registry \in [TrackIDs -> 0..made] /\ pub \in [Participants -> [TrackIDs -> 0..made]]
        /\ sub \in [Participants -> [TrackIDs -> 0..made]]
        /\ \A i \in TrackIDs : registry[i] = None
    BY <2>2
  <2>4. subs \in [Tracks -> SUBSET SomeIDs]
        /\ publisher \in [Tracks -> Participants \cup {Nobody}]
        /\ pState \in [Participants -> {"new", "joined", "left"}]
    OBVIOUS
  <2>5. DOMAIN handler = Loops /\ \A l \in Loops : handler[l] = Idle
    OBVIOUS
  <2>6. closed \in BOOLEAN /\ members = {} /\ leaving = Nobody /\ doomed = {}
        /\ ghosts = {} /\ strays = {}
    OBVIOUS
  <2> QED
    BY <2>1, <2>2, <2>3, <2>4, <2>5, <2>6 DEF TypeParts, HandlerOK
<1>2. Membership /\ Subscriptions
  BY DEF Membership, Subscriptions
<1>3. Publications /\ RegistryLive
  BY DEF Publications, RegistryLive
<1> QED
  BY <1>1, <1>2, <1>3 DEF RoomInv

(* The maps, states and handlers of the room stay of their types, no two   *)
(* members share an ID and a registry entry is of the ID it is under.      *)
THEOREM RoomTypes == Spec => []TypeOK
<1>1. Init => TypeParts
  BY InitInv DEF RoomInv
<1>2. TypeParts /\ [Next]_vars => TypeParts'
  BY TypeStep
<1>3. TypeParts => TypeOK
  BY TypePartsEqual DEF TypeInv
<1> QED
  BY <1>1, <1>2, <1>3, PTL DEF Spec

(* The inductive invariant of the room, its participants and its tracks.   *)
THEOREM RoomInvariant == Spec => []RoomInv
<1>1. Init => RoomInv
  BY InitInv
<1>2. RoomInv /\ [Next]_vars => RoomInv'
  <2> SUFFICES ASSUME RoomInv, [Next]_vars PROVE RoomInv'
    OBVIOUS
  <2>1. TypeParts'
    BY TypeStep DEF RoomInv
  <2>2. Membership' /\ Subscriptions' /\ Publications' /\ RegistryLive'
    BY MembershipStep, SubscriptionsStep, PublicationsStep, RegistryStep
  <2> QED
    BY <2>1, <2>2 DEF RoomInv
<1> QED
  BY <1>1, <1>2, PTL DEF Spec

(* Participant.subTracks and Track.subscribers agree for every member that *)
(* no object of its own ID shadows, whatever handlers of participants that *)
(* left go on and wherever Room.Leave is.                                  *)
THEOREM SubscriptionsAgree == Spec => []SubscriptionSymmetric
<1>1. RoomInv => SubscriptionSymmetric
  <2> SUFFICES ASSUME RoomInv, NEW q \in members, NEW k \in 1..made, Unshadowed(q)
               PROVE  Id[q] \in subs[k] <=> sub[q][tid[k]] = k
    BY DEF SubscriptionSymmetric
  <2>1. k \in Tracks /\ k # None
    BY TrackNumbers DEF RoomInv, None
  <2>2. tid[k] \in TrackIDs /\ \A r \in members : Id[r] = Id[q] => r = q
    BY <2>1 DEF RoomInv, TypeParts
  <2>3. Subscriptions /\ \A p \in strays : Id[p] # Id[q]
    BY DEF RoomInv, Unshadowed, Membership
  <2> QED
    BY <2>1, <2>2, <2>3 DEF Subscriptions
<1> QED
  BY <1>1, RoomInvariant, PTL

(* No member stays subscribed to a track Room.Leave destroyed, nor to a    *)
(* published track of somebody who is out of the room, unless it was       *)
(* published after Room.Leave had listed the leaver's tracks.              *)
THEOREM NobodyHearsTheLost == Spec => []DetachedFromLost
<1>1. RoomInv => DetachedFromLost
  BY DEF RoomInv, Subscriptions, Publications, DetachedFromLost
<1> QED
  BY <1>1, RoomInvariant, PTL

(* After Room.Close nothing is in the room, and what is published or       *)
(* subscribed to was so after its participant had been taken out.          *)
THEOREM ClosedRoomIsSilent == Spec => []ClosedIsSilent
<1>1. RoomInv => ClosedIsSilent
  <2> SUFFICES ASSUME RoomInv, closed
               PROVE  /\ registry = Empty /\ members = {} /\ published \subseteq ghosts
                      /\ \A k \in Tracks : subs[k] \subseteq {Id[p] : p \in strays}
    BY DEF ClosedIsSilent
  <2>1. registry = Empty /\ members = {}
    BY DEF RoomInv, Membership
  <2>2. published \subseteq ghosts
    BY <2>1 DEF RoomInv, Publications
  <2>3. \A k \in Tracks : subs[k] \subseteq {Id[p] : p \in strays}
    BY <2>1 DEF RoomInv, Subscriptions
  <2> QED
    BY <2>1, <2>2, <2>3
<1> QED
  BY <1>1, RoomInvariant, PTL

(* Room.tracks holds only tracks a member has published or is taking out,  *)
(* but for those registered or published too late.                         *)
THEOREM RegistryHoldsLiveTracks == Spec => []RegistryLive
<1>1. RoomInv => RegistryLive
  BY DEF RoomInv
<1> QED
  BY <1>1, RoomInvariant, PTL
=============================================================================
