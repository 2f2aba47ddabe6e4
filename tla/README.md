# A formal model of slive

slive is a WebRTC selective forwarding unit. Clients open a WebSocket to it, join a
room, publish tracks and subscribe to those of others; the server keeps one peer
connection per participant and forwards RTP between them. This directory models the
parts of the server that decide whether that works: TLA+ modules translated from the
Go code, configurations that check them with TLC, and proofs that TLAPS checks.
Paths below are relative to `src/`.

## 1. The system

| component | state it keeps | operations | talks to |
|---|---|---|---|
| negotiation gate (`internal/webrtc/peer_connection.go`) | `isNegotiating`, `pendingNegotiation`, `pendingInboundOffer`, generations, pion's signaling state, `negMu` | `ProcessBrowserOffer`, `ProcessBrowserAnswer`, `FlushNegotiation`, `RequestSubscriberOffer`, pion's negotiation-needed callback, `AddTrack`, `RemoveTrack`, `SwapEgressTrack`, `Close` | message loops call it; it sends through the connection it is bound to |
| session (`internal/signaling/handler.go`, `connection_manager.go`, `room_manager.go`) | registries of connections, rooms and peer connections; `ghostTimers` | `handleConnection`, `leave_room`, `create_room`, `handleConnectionClosed`, `reapGhost`, `CloseRoom`, `Shutdown` | room domain, peer connections, timers |
| room domain (`internal/domain`) | rooms, participants and tracks that point at each other | join, leave, publish, unpublish, subscribe, unsubscribe, close | called by handlers, under three levels of locks |
| track forwarder (`internal/webrtc/track_forwarder.go`) | publisher, subscriber map, run loop, writers | `Start`, `UpdatePublisher`, `Stop`, `AddSubscriber`, `RemoveSubscriber` | calls the subscribers' peer connections |
| SFU forwarder registry (`handler.go`) | `trackForwarders`, deferred subscriptions | create, placeholder swap, adoption of orphans, automatic attachment, pruning | pion's OnTrack, message loops |
| RTP fan-out (`track_forwarder.go`) | bounded queue per subscriber, packet pool | `WriteRTP`, `runWriter`, the carry-over of `reconcileSubscriber` | the forwarder's operations, which add, rebuild and remove queues |
| WebSocket I/O (`internal/signaling/connection.go`) | send and receive channels | `Send`, `Receive`, read and write loop, `Close` | everything above |
| ICE candidates (`internal/webrtc/retry.go`, `peer_connection.go`) | `pendingICECandidates` | queue, flush, retry | the gate, which sets the remote description |
| SDK (`pkg/slive`) | `Client.sessions`, the in-process server, a lock per session | `Connect`, round trips, `Session.Close`, `Client.Close` | the server over a socket |
| keyframe relay, messages, HTTP, metrics, configuration | none that matters to correctness | — | — |

What makes this hard is concurrency. A participant can have several connections at once
(a reconnect before the server noticed the loss of the old one), each served by its own
goroutine; pion calls back from goroutines of its own; timers fire while they are being
cancelled; most operations take a lock for a snapshot, release it for the slow call and
take it again for the update. Sockets break between any two steps. `PROJECT.json` lists
the places where this bites (`hazards`).

What should hold of each part:

* gate: one offer/answer exchange at a time; nothing stored or coalesced is forgotten;
  the browser is told of every sender change in the end.
* session: the newest connection is the one that counts; a participant that went away is
  cleaned up, one that came back is not.
* room: publishers, subscribers and the registry tell the same story; the loss of a
  publisher ends its tracks.
* forwarder: one run loop, one writer and one sender per subscriber in the publisher's
  codec, nothing left when a subscriber or the forwarder goes, and no call that waits for
  ever.
* registry: media that arrived is served under the ID that was signaled for it, and every
  subscription ends attached to it.
* RTP: a packet has one owner; order is kept; a slow subscriber harms only itself.
* ICE: no candidate is forgotten in the queue or given to pion twice.
* sockets and SDK: a blocked sender gets free, a call gets its own answer, and closing
  ends everything that was under way.

## 2. Modules

| module | models | `MC` module |
|---|---|---|
| `OfferExchange` | abstract specification of the gate | — |
| `Negotiation` | the gate, the message loops, the socket and the browser | `MCNegotiation` |
| `NegotiationProofs` | theorems about `Negotiation` | — |
| `Session` | one participant ID and one room ID over successive or overlapping connections | `MCSession` |
| `SessionProofs` | theorems about `Session` | — |
| `RoomDomain` | one room's objects and the handlers that call them | `MCRoomDomain` |
| `RoomDomainProofs` | theorems about `RoomDomain` | — |
| `TrackForwarder` | one forwarder and its subscribers' peer connections | `MCTrackForwarder` |
| `TrackForwarderProofs` | theorems about `TrackForwarder` | — |
| `ForwarderRegistry` | the registry of forwarders, one publisher and its subscribers | `MCForwarderRegistry` |
| `ForwarderRegistryProofs` | theorems about `ForwarderRegistry` | — |
| `RtpQueue` | the packets of one forwarder: queues, writers, pool | `MCRtpQueue` |
| `RtpQueueProofs` | theorems about `RtpQueue` | — |
| `IceQueue` | the remote candidates of one peer connection | `MCIceQueue` |
| `IceQueueProofs` | theorems about `IceQueue` | — |
| `Sdk` | sessions of one SDK client, their sockets, connections and message loops | `MCSdk` |
| `SdkProofs` | theorems about `Sdk` | — |

In every module a step is what the code does under one lock (or one wait), and an action
has the name of the function it models, or of a part of it where the function releases
its lock in between. `map` in `PROJECT.json` gives the lines of each definition.

### Negotiation

`gate` records how far the holder of `negMu` has got: deciding whether to offer,
creating the offer, waiting for gathering, sending it, storing a browser offer, applying a
description, flushing, answering. `AddTrack`, `RemoveTrack`, `Close` and the state callback
take only `pc.mu` and interleave with each of those steps: `Close` also with the store of a
browser offer, whose check of the signaling state came before (`StoreOffer`). SDP is abstracted to the generation of the newest sender change
it carries (`localGen`, `bGen`) and a browser offer to its number. The socket is a FIFO to
the browser (`down`) and one from it per connection (`up`); a drop loses what is in flight
downwards, and a message loop works off what reached it. The browser answers offers, makes
offers of its own whenever it likes, and rolls back its own on glare, the polite role the
code relies on. It is external, as is pion: modelled from how the code uses them. pion
errors may occur at the calls whose error paths the code has (`MaxFaults`), and leave the
signaling state as it was or in the state the call leads to: the comment of
`SwapEgressTrack` (`peer_connection.go:827`) tells of an answer that failed although it was
installed. The variable `late` remembers for which kind of call this happened. `Send` returns
at once with success or failure.

### Session

One process per connection (`loop`), one per fired timer (`reap`), one for `CloseRoom` and
one for `Shutdown`. The timer armed at the end of connection c is timer c. Time is
abstracted: an armed timer may fire at any moment. A closed room is replaced by a new
object of the same ID. `Overlap = FALSE` makes the client wait for the server to have
noticed the end of its old connection; `EarlyDrop = FALSE` keeps connections alive until
`room_joined` was sent. Both restrict the environment, to find out which properties depend
on it.

`closePeerConnection` deletes the entry under the mutex and closes the peer connection
after it. Whoever found the entry before still uses the peer connection in between, which is
then `closing` (`CloseDone` ends this); where nobody had found it the two are one step. A
message that `ParseMessage` refuses ends the loop as the loss of the connection does
(`handler.go:412-428`): the state of the connection is looked at by nobody in between, so
`Drop` stands for both. Ghost collection is on: with `gcTTL <= 0`, `armGhostTimer` returns
at once and there is nothing to say about it.

### RoomDomain

Participants are objects, so that the same ID joining again is a second object; `Id` maps
them to IDs. Message loops are processes of their own (`Loops`), as overlapping connections
serve one participant with two, and they go on taking requests after their participant was
taken out of the room. Publishing and unpublishing are two steps each, and a subscription may
be rolled back after it was made. Room methods are one step, but for `Room.Leave`: it holds
`Room.mu` from its list of the leaver's tracks (`LeaveBegin`) over the destruction of one
after the other (`LeaveDestroy`) to the end (`LeaveEnd`), while `Participant.PublishTrack` and
the other participant methods, which take the participant's lock only, go on in between.
`Participant.UnpublishTrack` leaves the track its publisher and its subscribers
(`participant.go:142`). Broadcasts are left out.

Two history variables say what came too late: `ghosts` has the tracks that were published
after `Room.Leave` had listed its leaver's tracks, or registered after they were unpublished
or destroyed; `strays` the participants that subscribed after they had left. The code lets
both happen and nothing takes their effects back; the properties name them, and say that
everything else is clean.

### TrackForwarder

`AddSubscriber` is snapshot, attach, insert (or undo), `RemoveSubscriber` is take, join the
writer and detach, `UpdatePublisher` is snapshot, wait for the old loop, swap and reconcile
one subscriber after the other, and `Stop` is similar. A reconciliation stops the writer,
deletes the entry, removes the old sender, adds the new one (two sections of `pc.mu`, in
`SwapEgressTrack`) and inserts the new entry, or undoes its own. Sources differ in whether
they are a `TrackRemote` and in the codec egress tracks get from them. Packets are in
`RtpQueue`, and the `Read` that a cancelled run loop leaves behind in its helper goroutine
(`track_forwarder.go:1078`) is in `ForwarderRegistry`, which knows who reads what.

The variable `world` is chosen in the initial state and never changes: it says which calls
happen, how often, and whether they may overlap. A run thus covers several environments at
once (`Worlds`), and a property that needs one of them says so (`world.exclusive`).
`ForwarderRegistry` does the same.

### ForwarderRegistry

Processes are the message loops of the publisher and of each subscriber, and a goroutine
per arriving media track. `Wire` gives the ID the browser's media carries, which may or
may not be the signaled one. What a `TrackForwarder` does inside a call is one step here,
and so are the two domain calls of publish and unpublish, which `RoomDomain` has apart.
`Stop` ends the run loop but not the `Read` its helper goroutine is in: that is counted in
`leftover` until a packet comes (`ReadReturns`).
`AddTrack` does not fail. Each track's media arrives at most once. Forwarders that
nothing refers to are reused, so `MaxForwarders` bounds the ones alive together.
A world has the subscribers, the wire IDs, which of unsubscribe, unpublish and leave
happen, and whether handlers overlap or come in turn. Not modelled: the publisher leaving or
being reaped, `Shutdown`, keyframe requests, and the goroutine that `AddTrack` starts for
`OnLocalTrackAdded` (`handler.go:486-498`): it asks for the forwarder under the egress track's
ID, which is the one that attached it, and does nothing, as an egress track replaces no
publisher; only if the entry was pruned meanwhile does it register an empty forwarder.

### RtpQueue

`WriteRTP` takes a snapshot of the entries under `f.mu` and then works without a lock: per
entry it looks whether the queue is full, clones the packet, and queues or drops it. Its
callers are the run loop and one direct caller, as for a local publisher. Meanwhile entries
are added, removed, stopped, and rebuilt by `reconcileSubscriber`, which ends the old
writer, swaps the egress track and carries over what was queued since. A clone is named by
caller, packet and entry, and never reused: `packetPool` hands out objects, so an object
that comes back too early or twice shows as a clone with two owners. Sequence numbers,
counters and the throttled log line are left out. The writer of a peer connection in `Slow`
may stop for ever inside a write. `AddSubscriber` is its insertion only, and the tracks it
adds and undoes are in `TrackForwarder`. `Start` is the first one; the code also starts again
after a `Stop`, which reaches the states that the restart at the end of `UpdatePublisher` does.

### IceQueue

A candidate's handler checks twice whether to queue: under the read lock, and under the
write lock, which it then holds until it has appended. The gate sets the description
without `pc.mu` (`ProcessBrowserAnswer`, `answerExchangeLocked`), so it can appear between
the second check and the append; the flush takes `pc.mu` afterwards.
`PeerConnection.SetRemoteDescription` does both in one section. What pion does is external:
`AddICECandidate` and `SetRemoteDescription` may fail, the latter also after it installed
the description; `Close` may fail. The state callback runs in goroutines of pion and may
write an older state over a newer one. The delay between attempts is left out.

### Sdk

Two ends of each socket and what lies between: the SDK's `Client` and `Session`, a socket
buffer of `Buf` frames in each direction, the `Connection` with its two channels (`Cap`)
and two loops, and the message loop of `handleConnection` with its answers and broadcasts.
What a handler does is in the other modules; here it takes any time and ends well or with
an error. The handshake of `Connect` is a round trip named after its session. gorilla
remembers a failed read or write for good (`dead`). A deadline of the client and the read
deadline of the server may pass (`MaxFaults`); the write deadline passes when nobody
reads. Session.mu and closeMu are modelled by who may step: a session's round trips
exclude each other, and `closeTransport` waits for none of them. The branch of
`awaitLocked` for an error that answers another request is in the model and cannot be
reached: a round trip that was given up leaves the socket failed, so no late answer is
ever read. The messages the peer connection sends by itself are left out; they use the same
`Send`. `Shutdown` is here what concerns connections; it goes on to stop the forwarders and to
close the peer connections (`handler.go:226-253`), of which the latter are in `Session`.

## 3. Runs

| run | properties | bounds |
|---|---|---|
| `negotiation` | `NegotiatingIffOffered`, `StoredBehindOffer`, `ChangeNotForgotten`, `OneOutstandingOffer`, `AnswersInOrder`, refinement of `OfferExchange`, `StoredOfferAnswered`, `SteadyCatchesUp` | 2 sender changes, 2 browser offers, 2 connections, 1 pion error before or after the state changed, 1 duplicated answer |
| `session` | `NewestRegistered`, `ArmedTimerKnown`, `GhostReaped` | 2 overlapping connections, drops at any time, a leave, `CloseRoom`, `Shutdown` |
| `session_sequential` | `NoLeakedPC`, `SenderNewest`, `ReconnectCancels` | 3 connections in turn, drops at any time, a leave, `CloseRoom`, `Shutdown`, 2 room objects, a failing peer connection |
| `room_domain` | `SubscriptionSymmetric`, `DetachedFromLost`, `ClosedIsSilent`, `RegistryLive` | a participant that joins again as a second object, another with two loops, one track ID that all publish, 2 tracks |
| `forwarder` | `OneRunLoop`, `WritersAccounted`, `CallsReturn`, `CodecMatches`, `NothingLeftBehind` | 3 sources; calls that exclude each other, on 2 subscribers; calls that overlap, on 1: it is added twice at once and removed, removed and added again during a rebuild, or there are 2 stops, updates and 3 run loops |
| `registry` | `SubscriptionServed` | 1 track with its signaled ID, 1 subscriber, handlers that overlap |
| `registry_media` | `RemoteKept`, `LeaverDetached`, `OneReader` | three worlds: that of `registry`; 2 tracks of different kinds with IDs of the browser's own, 2 subscribers who may leave, handlers in turn; 1 such track, unsubscribe and unpublish, handlers that overlap |
| `rtp_queue` | `OneOwner`, `InOrder`, `StrandedOnlyLate`, `FastServed` | a fast and a slow subscriber, queues of 1, 2 packets of each of 2 callers (at most 3 times a subscriber), 3 entries, 3 operations |
| `ice_queue` | `NoneStranded`, `CandidatesSettle` | 3 candidates of 3 attempts, 2 remote descriptions, 3 errors of pion |
| `sdk` | `OwnReply`, `NoSessionOutlivesClose`, `CloseEnds`, `SendEnds` | 2 sessions, 2 publications on one of them, channels and sockets of 1 frame, 1 fault |
| `negotiation_reconnect` | `BrowserCatchesUp`, violated | 1 change, 2 connections |
| `session_half_open` | `LiveHasNoTimer`, violated | 2 overlapping connections |

The type invariants of `Session`, `RoomDomain` and `TrackForwarder` (which also say that
nobody is a member of a closed room and that no ID joins twice) are checked in the first
run of the module and proved; those of `Negotiation`, `ForwarderRegistry`, `IceQueue`, `RtpQueue` and `Sdk` are proved only.
Deadlock is not checked: every one of these systems may come to rest (a closed peer connection, a server without clients, an empty
room). That nobody waits for ever is said by the liveness properties.

*Why the bounds are enough.* The properties involve at most two rounds of something: an
exchange and the one that was coalesced or stored behind it, a connection and its
successor, a participant object and the one that rejoined, a forwarder and the one that
replaces it, a queue and the one its packets are carried over to, a frame that waits and
one behind it that blocks its sender. Two of each, and a third of the cheap ones (connections in turn, run
loops), let the second overlap the first and something follow it. Each property has a
mutant of the code, listed in `PROJECT.json`, that breaks it within the same bounds.

### What the code does not keep

Two runs end in a violation of what the repository says (quoted under `findings`).
In `negotiation_reconnect` a server offer is lost with its socket; the reconnect re-binds
the sender, the offer stays outstanding and is not repeated, and every later offer is held
back behind it. In `session_half_open` the server notices the end of an old connection
after the client reconnected, and arms a ghost timer against the live session.

Many other properties hold only under a restriction, in the property or in the bounds. The
restrictions are not assumptions the code enforces: each one leaves out a behaviour in
which the property fails. A reader can see it by lifting the restriction.

| restriction | what happens without it |
|---|---|
| `NegotiatingIffOffered`, `StoredBehindOffer`: pion has not failed on a description it had installed | `ProcessBrowserAnswer` returns with the flag up and the stored offer unflushed on a stable peer connection: every later server offer is coalesced behind an exchange that is over (`peer_connection.go:1054`) |
| `StoredBehindOffer`: the peer connection is open | `Close` comes between the check of the signaling state and the store; the offer is never answered, and need not be (`peer_connection.go:983`) |
| `OneOutstandingOffer`: answers are not duplicated | the second copy is one more answer in flight, and one that the flush's next offer may take for its own |
| `AnswersInOrder`: pion has not failed on an answer it had installed | the stored offer is answered by the flush of a later exchange, after newer ones |
| `AnswersInOrder`: first connection | the loop of the old connection still works off offers from before the drop |
| `GhostReaped`: every connection reached `room_joined` | `handleConnection` returns early and arms no timer, and the member stays (`handler.go:400`) |
| `GhostReaped`: no `CloseRoom` | a participant that joins after `CloseRoom`'s snapshot keeps its peer connection, and no timer is left for it (`handler.go:193`) |
| `ReconnectCancels`: no `leave_room` | a participant that joins again after leaving takes the branch that cancels no timer (`handler.go:330`) |
| `ReconnectCancels`: no timer has fired | `reapGhost` does not notice that its entry was cancelled, and reaps the reconnected participant (`handler.go:1965`) |
| `NoLeakedPC`: connections in turn | two calls of `ensurePeerConnection` both create, and one overwrites the other (`handler.go:459`) |
| `SubscriptionSymmetric`, `DetachedFromLost`: no earlier object of the member's ID subscribed after it had left (`Unshadowed`) | tracks list subscribers by ID: what the loop of the old object unsubscribes or rolls back takes the new one off the list (`participant.go:191`) |
| `DetachedFromLost`, `ClosedIsSilent`: tracks not published after `Room.Leave` had listed them | `Participant.PublishTrack` does not ask whether it is in a room: the track stays published after the leave and after `Room.Close` (`participant.go:123`, `room.go:132`) |
| `ClosedIsSilent`: participants that did not subscribe after they had left | nothing ends these subscriptions (`room.go:261`) |
| `RegistryLive`: tracks that were alive when they were registered, and whose publisher was in the room | `Room.PublishTrack` registers what was unpublished or destroyed since `Participant.PublishTrack`, and the entry is in the way of the ID's next track (`room.go:202`) |
| `WritersAccounted`: not what a rebuild deleted | `reconcileSubscriber` deletes the map's entry by peer connection; a resubscription that came in between loses its entry and keeps its writer (`track_forwarder.go:364`) |
| `CodecMatches`, `NothingLeftBehind`: `world.exclusive` | the loser of two `AddSubscriber` calls removes the winner's sender; a subscriber is added with the codec from before a swap, or after `Stop`; reconciliation puts a removed subscriber back (`track_forwarder.go:619`, `:547`, `:627`, `:450`) |
| `RemoteKept`: nobody leaves, and no unsubscribe | a forwarder without subscribers is dropped together with the only `TrackRemote` of a track that stays published (`handler.go:887`, `:922`) |
| `RemoteKept`, media with an ID of its own: handlers in turn | `publish_track` and OnTrack miss each other and the media stays under the wire ID (`handler.go:1207`) |
| `RemoteKept`, handlers that overlap: no unpublish | OnTrack swaps its media into a forwarder that `unpublish_track` has meanwhile taken out of the map and stopped, and a track that is published again finds none (`handler.go:694`) |
| `registry_media`: tracks of different kinds | media is bound to the wrong one of two tracks of a kind (`peer_connection.go:1781`) |
| `OneReader`: but for one `Read` left behind | a stopped run loop does not wait for the helper goroutine that reads for it (`track_forwarder.go:1078`); see below |
| `OneReader`, handlers that overlap: nobody leaves | adoption starts a second reader next to one that a leave is about to stop (`handler.go:830`) |
| `OneReader`: tracks of different kinds, whose media carries no ID signaled for another track | a published track adopts the media of another one that was unpublished while OnTrack was under way, and starts a reader while an unsubscribe has taken the old forwarder out of the map and not yet stopped it (`handler.go:922`) |
| `RemoteKept`: no two tracks whose media has one ID, or an ID signaled for another track | of two tracks with one ID the media that comes second finds a forwarder with media, and is dropped (`handler.go:694`); a track whose ID another one's media carries finds that media, and does not adopt its own (`handler.go:1207`) |
| `LeaverDetached`: handlers in turn where participants leave | an automatic attachment under way attaches the leaver again, between its removal from all forwarders and the closing of its peer connection (`handler.go:1098`) |
| `StoredOfferAnswered`, `SteadyCatchesUp`: `Steady`, the first connection holds and pion does not fail | the violation of `negotiation_reconnect`; after an error the change is marked pending, and waits for the next trigger or the end of another exchange |
| `StrandedOnlyLate`: callers with a snapshot older than the entry's removal | such a caller queues to a writer that has ended; the packet is neither written nor returned to the pool (`track_forwarder.go:86`), and so for what is in the queue when the swap of a rebuild fails (`:397`) |
| `NoneStranded`: the call that installed the description did not fail | the exchange ends before the flush, and the candidates wait for the next exchange (`peer_connection.go:1079`) |

Two remarks on the SDK. `awaitLocked` sets the default deadline anew for each frame it
reads, so for a context without a deadline notifications can prolong a round trip beyond
it (`helpers.go:267`). The comment of `closeSignalingServer` says that the forced close
releases hijacked WebSocket connections; in the model, as in `net/http`, the server does
not know them, and `CloseEnds` rests on `closeTransport` and on `Shutdown`.

`adoptOrphanForwarder` stops the orphan first "so two run loops never Read the same TrackRemote
concurrently" (`handler.go:826`). Run loops they are not, and `OneReader` shows that much. But
the loop that was stopped has left a goroutine in `TrackRemote.Read`, next to the new loop: the
two do read the same `TrackRemote`, until the next packet goes to one or the other. `OneReader`
bounds this: there is one such `Read` at most beside a run loop, as a track changes hands once,
so that an adoption costs the subscribers one packet at most.

The models also contain three behaviours that comments of the code exclude and for which no
property is stated here: a server offer sent between `ProcessBrowserOffer` and the sending
of its answer (`handler.go:1719`); `SwapEgressTrack` between an offer and its answer
(`peer_connection.go:840`); and ghost timers armed by the
loops that `Shutdown` ends, after it stopped the timers (`handler.go:224`). A peer
connection that such a loop made while `Shutdown` ran is closed by exactly that timer,
which is the part `GhostReaped` states.

### Fairness

* `Negotiation`: weak fairness of the gate's holder, of each message loop, of the waiting
  goroutines (Go's scheduler runs them and `negMu` is granted), of the browser answering
  what reached it, and of the reconnect after a drop. None on track changes, on the
  browser's own offers, on drops, errors or `Close`. Weak fairness suffices for the
  waiting goroutines because changes and offers are finitely many, so the gate is free
  from some time on.
* `Session`: weak fairness of each goroutine, and of an armed timer firing. None on the
  client, on calls of `CloseRoom` or of `Shutdown`.
* `TrackForwarder`: weak fairness of each `RemoveSubscriber` under way, of the holder of
  `lifecycleMu`, of a cancelled writer draining its queue and of a cancelled run loop noticing
  it, and of what both do on their way out. None on calls beginning, on `AddSubscriber`, or on
  a run loop that was not cancelled: it may read for ever.
* `ForwarderRegistry`: weak fairness of each handler under way, of the arrival of media
  that was offered, and of a browser finishing the exchange it is in.
* `RtpQueue`: weak fairness of each call of `WriteRTP` under way and of each writer whose
  transport takes packets. None on the writers of slow subscribers, on the callers, or on
  the operations that wait for a writer to end.
* `IceQueue`: weak fairness of each candidate's handler once it has begun, of the gate's
  exchange and of the flushes. None on the browser, on `Close` or on callbacks.
* `Sdk`: weak fairness of everything that goes on by itself: `Connect` and round trips
  under way, the connection's loops, the message loops between handlers, `Close` once it
  was called. The write deadline of the server is part of it, as `writeLoop` sets one for
  each frame. None on the callers, on any deadline of the client, on the read deadline of
  the server, or on handlers: `CloseEnds` and `SendEnds` hold though a handler never
  returns. One formula states it for all of them together, which suffices as every
  behaviour of the bounded model has finitely many steps.

## 4. Proofs

Every invariant that a run checks is proved as a theorem, and so is the refinement. Each is
stated for every value of the constants; what a theorem assumes of them beyond the module's
`ASSUME` is said below.

`NegotiationProofs` holds for every value of the bounds; the only assumption is
`BoundsAssumption` (they are naturals, and there is a connection). The theorems
`TypeCorrect`, `FlagIsExact`, `StoredOfferHasFlush`, `NoChangeForgotten` and `Refinement`
follow from `GateInvariant`, `Spec => []IInv`; `OneOfferAtATime` and `AnswersKeepOrder`
need an invariant of the wire on top of it.

None of the properties is inductive. `IInv` adds to the type invariant and
`StoredBehindOffer`:

* `GateShape`: which signaling states and flags are possible at each step of the holder of
  `negMu`, and what it takes (`late`) for flag, stored offer and signaling state to
  disagree. Without it `NegotiatingIffOffered`, which speaks of the free gate only, says
  nothing of the step that frees it.
* `GenerationOrder`: no offer is made for changes that do not exist, and the holder's
  snapshot lies between the two counters. This is what makes a server offer of the code a
  `ServerOffers` step of `OfferExchange`, which must advance `offered`.
* `PendingHasFlush`: `pendingNegotiation` is set only where a flush is still to come.
* `ChangeHasDriver`: a change no offer carries has a waiting goroutine, a holder that will
  see it, or the coalesced flag. It is `ChangeNotForgotten` with the case of an offer being
  created made precise.

Each conjunct has a lemma with one case per action. `ServerOfferCases` and `FlushCases`
say once what the two operators do that many actions end with. The refinement maps pion's
signaling state to the abstract exchange and the generations to its two counters;
`ExchangeNext` shows that every step is an abstract step or a stutter. An offer on which pion
failed after it installed it is `ServerOfferRefused`: the exchange is begun, and nothing is
offered.

`OneOutstandingOffer` counts messages on the wire, which says nothing of the step that adds
one. `FlightShape` relates them to pion's signaling state: what is in flight is *one* offer
or *one* answer, on one of the connections, and while there is such a message the local
offer is pending and none is being gathered, so that `serverOfferLocked` cannot send a
second one. It speaks of runs in which the browser has not duplicated an answer, as the
property does. `AnswersInOrder` is about two senders: the message loop sends the answer to
an offer outside `negMu`, a flush sends that to a stored offer inside it. `FirstLoop` says
why they do not overtake each other (nothing is stored while the loop holds an answer, and
the loop is waiting while the gate makes, stores or flushes one); `OfferOrder` puts all offers of the browser
in one order, from those answered over those the server has taken (`Taken`: held by the
loop, being answered, or stored) to those still on their way up.

TLC checks the same properties in `negotiation`.

`IceQueueProofs` holds for every set of candidates and every value of the bounds, from
`IceAssumption` (they are naturals, and there is at least one attempt). The inductive
invariant, `QueueInvariant`, has three conjuncts next to the type invariant:

* `NoLatecomer`: once a description was flushed, nobody is in the queue *or about to append
  to it* unless another flush is to come. `NoneStranded` speaks of the queue only and is
  not inductive: what it lacks is that the handler which found no description still holds
  `pc.mu`, and that the flush of the description that has appeared meanwhile has to wait
  for it.
* `QueueExact`: the queue and the flushes hold only candidates that are marked so, and no
  candidate is in two flushes. From it follows `HandedOverOnce`: a candidate that was
  applied, given up or dropped stays so.
* `RetriesLeft`: a candidate that is still tried has attempts left, which the type of
  `tries` needs.

`NoCandidateStranded` states the property of the run `ice_queue`. There is a lemma per
conjunct with a case per action; `TakeKeeps` and `AddKeeps` say what the shared operators
preserve.

`SessionProofs` has two parts. The first holds for any number of connections that overlap
as they like. `SessionInvariant` adds to the type invariant that connections are numbered
as they open and what is registered is one of them (`OpenedInOrder`), that the newest one
is registered from its upgrade to the deferred calls of its own handler (`NewestKept`,
which is `NewestRegistered` without the restriction to connections that serve), and that
room objects in hand have been made (`RoomsMade`). `NewestRegistered` alone does not say
what the exit of an *older* loop finds in the map; that the numbers order the connections
does. The second part assumes `~Overlap`, as the run `session_sequential` does and as
`NoLeakedPC` and its companions need: with overlap they fail, as the table of
restrictions in section 3 says.
`SequentialInvariant` adds that all but the newest loop have ended (`OneActive`), that the
peer connection a loop found under `pcMu` is still the registered one or none is
(`FoundCurrent`: nobody else makes one, but reaps and leaves may close it), and
`SenderNewest` from the step that sets the sender on. `ReconnectStopsTimer` needs one more,
`StillMember`: while no timer has fired and nobody left or closed the room, the participant
of an armed timer is still a member of the one room there is, so that the loop of the
reconnect finds it there and takes the branch that cancels the timer.

`RoomDomainProofs` holds for any participants, IDs, message loops, track IDs and tracks, from
`RoomAssumption` only; handlers of removed participants, several loops for one participant and
calls between the steps of `Room.Leave` are all in it. `RoomInvariant` relates the objects to
each other, by conjuncts named after what they describe: `Membership`, `Subscriptions`,
`Publications` and `RegistryLive`. `SubscriptionSymmetric` is not inductive: that `Room.Leave`
reaches every subscriber rests on a published track being held by one participant under one of
its IDs (`Publications`), and on what is on its list being someone's subscription
(`Subscriptions`). `DetachedFromLost` rests on the part of `Publications` about a leave under
way: of the leaver's tracks only those it has yet to destroy, or which came too late, are
published.

`TrackForwarderProofs` proves `TypeOK`, `OneRunLoop` and `WritersAccounted` for calls that
overlap in any way, and `CodecMatches` and `NothingLeftBehind` for calls that exclude each
other, which is what these properties say (`world.exclusive`). `RunInv` and `WriterInv` are the
parts of `ForwarderInvariant` that hold with overlap: at each step of a call that waits for the
run loop, what is known of the loops that may still be alive; and where the entry of each
running writer is. The other part, `Excl`, says for each step of a call under way what it knows
of the map (`MapKnown`), which codec the entries it holds have (`Codecs`), and what each peer
connection sends (`Egress`). The properties speak of the map or of a forwarder at rest; what
makes them inductive is that each connection which the call has taken out of the map, or has
not yet put in, carries exactly the entry the call holds.

`SdkProofs` holds for all sessions and calls, every capacity of the channels and sockets,
every number of faults; it assumes that sessions and calls are different things. `OwnReply`
is about the result of a call; `SdkInvariant` is about the way there. Its `Pipe` says that
as long as a session can read, the five places of a round trip (socket up, `receiveChan`,
message loop, `sendChan`, socket down) hold one call or its answer, in one place, once, and
that this is the call waited for; broadcasts may be anywhere between. Since answers are
matched by type, this is what keeps a call from taking an older call's answer, and it holds
because a session whose read timed out, or whose write failed, never reads again.
`Transports` says what `Client.Close` may rely on: a session with an open transport is
registered with the client or is itself about to close it.

`RtpQueueProofs` holds for any subscribers, queues of any size, and any number of packets,
entries and operations, from `QueueAssumption` (the bounds are naturals, a queue has room
for one packet, and the run loop is not the direct caller). It is in three layers.
`StrandInv` has the types, how far each call of `WriteRTP` is, and what
`reconcileSubscriber` knows between its steps (`Rebuild`). Its heart is `Leaving`: a writer
that may end is out of the map, and the calls which still have its entry count as late, but
for the entry that is being replaced; for `Stop` the run loop need not count, because it is
waited for. That is `StrandedOnlyLate` *before* the writer ends, when it is still to be
decided. The second layer, `Ownership`, says where each clone is and that it is nowhere
else; that a clone is made once follows from `Numbered`, the numbers of the packets.
The third is for `InOrder`. Entries rebuilt from one another form a chain with one egress
track. `Chains` says that only the last entry of a chain is in the map, has a live writer or
may be rebuilt, hence that a snapshot has one entry of a chain (`Once`); `Homes` that packets
stay in the chain they were cloned for; `Streams` that along a chain what was written, what
the writer holds, what waits in the queue and what is yet to be carried over come in this
order. The step that needs them all is the send of a late call into the queue that is being
carried over: its packet goes behind those, and nobody has the new queue yet (`Unheld`).

`ForwarderRegistryProofs` holds for any set of worlds, that is of wire IDs, operations and
ways to overlap, any subscribers and tracks, and any number of forwarders. `TypeCorrect`
needs nothing but `RegistryAssumption`. The other theorems assume something of the worlds,
which those of the runs satisfy and without which, as the table in section 3 says, the
property fails:
`LeaversDetached` that handlers come in turn where participants leave; `ReadOnce` that one
browser's tracks differ in kind, and that the ID their media carries is the signaled one of
the same track or no signaled ID at all (`Distinct`); `MediaKept` also that no two tracks
have one wire ID (`OwnWires`). The invariants are built on one another:

* `Base`: types, at which step of its handler each process may be and what it then has in
  hand (`ProcOK`), and that the room, the peer connections and the browsers agree
  (`Stages`). One lemma per kind of step, not per action, as most handlers consist of the
  same few: go on with a loop, install a forwarder, stop one.
* `Leaving`, where handlers come in turn (`Turn`): a forwarder with subscribers is in the
  map or about to be stopped, whoever is about to attach has a forwarder of the map in hand
  (`Attaching`), and a leaver that is still attached to a forwarder has it on the list of
  those it is yet to be removed from (`LeaverListed`). The property speaks of closed peer
  connections only.
* `Reading`: a forwarder with real media that is in the map is running and is there under
  the ID of its track or of its media (`MapOK`); what is about to be stopped is in the map
  under no ID, and what is about to be swapped under none but the one it was found by
  (`HandOK`); media that has not arrived is in nobody's hands (`Unread`).
  `Unique` is the part of `OneReader` about run loops, with the handlers under way: a track's
  media has one run loop, or one handler that is about to start one. `Behind` is the part about
  the reads that stopped loops left: media nobody has adopted yet has none, and while it is
  being adopted there is one, of the loop just stopped, and none before. The publisher that adopts an orphan has *both* the
  media and the forwarder that reads it, until it stopped the latter; `Unique` says that it
  unhooks and stops this one and no other. `StepKind` says once what a step can do to the
  map and the run loops, so that the conjuncts have a case for each kind of step instead of
  one for each action.
* `Kept`, while nobody left or unsubscribed (`Staying`): media that has arrived is held by
  OnTrack, in the map under its signaled ID, in the publisher's hands on the way there
  (`Carried`), or under its wire ID where `publish_track` is yet to look for it
  (`Adoptable`). `RemoteKept` is what is left of this when no handler is under way.
  `InHand` says which ID each handler works for. That an entry found as a placeholder is
  still the entry when its media is swapped in is part of it; an unpublishing that
  overlaps OnTrack breaks this, which is how the restriction of `RemoteKept` came to be
  stated. TLC checked `Kept` on the worlds of `registry_media` before it was proved.

Only model-checked:

* liveness (`StoredOfferAnswered`, `SteadyCatchesUp`, `GhostReaped`, `CallsReturn`,
  `SubscriptionServed`, `FastServed`, `CandidatesSettle`, `CloseEnds`, `SendEnds`): fairness and `ENABLED` are
  out of the prover's reach.

## 5. Not modelled

* The SDK's calls that go to the rooms in process (`CreateRoom`, `JoinRoom`, `LeaveRoom`,
  `CloseRoom`, `Snapshot`): their effects are actions of `RoomDomain` and `Session`.
* The publisher's leave in `ForwarderRegistry`, failing `AddTrack` there, and `Shutdown` of
  forwarders. `Negotiation` has the state callback's change to Failed only; that a late
  callback overwrites Closed is in `IceQueue`.
* Messages and their validation, HTTP, metrics, configuration and logging have no state to
  check. The keyframe relay keeps no state but an 8-bit sequence number that may wrap.

## 6. Plan

In this order:

1. `ForwarderRegistry`: the publisher's leave and reaping, `Shutdown`, failing `AddTrack`.
2. A composition of `Session` and `RoomDomain` for two participants: what a reap does to
   those who subscribed.
3. The SDK's calls in process next to message loops that serve the same room.
