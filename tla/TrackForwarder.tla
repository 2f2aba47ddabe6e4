--------------------------- MODULE TrackForwarder ---------------------------
(***************************************************************************)
(* One TrackForwarder (internal/webrtc/track_forwarder.go): its publisher, *)
(* its run loop, its subscribers with their writer goroutines, and the     *)
(* egress senders it attaches to the subscribers' peer connections         *)
(* (PeerConnection.AddTrack and RemoveTrack).                              *)
(*                                                                         *)
(* AddSubscriber and RemoveSubscriber hold f.mu only for a snapshot and    *)
(* for the map update, and call the peer connection in between;            *)
(* UpdatePublisher and Stop hold lifecycleMu throughout and f.mu briefly.  *)
(* A step is what happens under one lock, or one wait.  RTP packets are    *)
(* left out.                                                               *)
(***************************************************************************)
EXTENDS Naturals, Sequences, FiniteSets, SequencesExt

CONSTANTS PCs,        \* subscriber peer connections
          Sources,    \* publisher tracks
          First,      \* the publisher the forwarder is created for
          Remote,     \* the publishers that are TrackRemotes
          Mime,       \* the codec egress tracks get from each publisher
          Adders,     \* bound on concurrent AddSubscriber calls
          MaxEntries, \* bound on subscriber entries made
          MaxRuns,    \* bound on run goroutines started
          Worlds      \* the environments a run looks at, each with
                      \*   exclusive  do the subscriber operations,
                      \*              UpdatePublisher and Stop exclude
                      \*              each other?
                      \*   pcs        the connections that subscribe,
                      \*   adders, entries, runs, removes, stops, closes
                      \*              its bounds on concurrent AddSubscriber
                      \*              calls, entries and run goroutines made,
                      \*              RemoveSubscriber and Stop calls, and
                      \*              peer connections closed

ASSUME ForwarderAssumption ==
    /\ First \in Sources /\ Remote \subseteq Sources /\ DOMAIN Mime = Sources
    /\ Adders \in Nat \ {0} /\ MaxEntries \in Nat /\ MaxRuns \in Nat
    /\ \A w \in Worlds :
          /\ w.exclusive \in BOOLEAN /\ w.pcs \subseteq PCs
          /\ w.adders \in 1..Adders /\ w.entries \in 0..MaxEntries
          /\ w.runs \in 0..MaxRuns
          /\ {w.removes, w.stops, w.closes} \subseteq Nat

Entries == 1..MaxEntries
Runs    == 1..MaxRuns
Procs   == 1..Adders
None    == 0

VARIABLES
    publisher,    \* TrackForwarder.publisher
    subscribers,  \* TrackForwarder.subscribers
    running,      \* TrackForwarder.running
    current,      \* the run goroutine TrackForwarder.cancel cancels
    run,          \* state of each run goroutine
    made,         \* entries made so far
    mime,         \* codec of each entry's egress track
    writer,       \* state of each entry's writer goroutine
    senders,      \* egress transceivers of each peer connection, in order:
                  \* the entry sent on each, or None
    local,        \* peer connections with the track in localTracks
    closed,       \* closed peer connections
    adder,        \* AddSubscriber calls under way
    remover,      \* the RemoveSubscriber call on each peer connection
    life,         \* what the holder of lifecycleMu is doing
    held,         \* local variables of the holder of lifecycleMu
    swept,        \* history: entries that reconcileSubscriber took out of
                  \* the map and are not the one it had stopped
    removes, stops,
    world         \* the environment, fixed

loopVars  == <<running, current, run>>
entryVars == <<made, mime, writer>>
pcVars    == <<senders, local, closed>>
lifeVars  == <<life, held>>
counts    == <<removes, stops>>
vars == <<publisher, subscribers, loopVars, entryVars, pcVars, adder, remover,
          lifeVars, swept, counts, world>>

Free   == [step |-> "idle", pc |-> None, entry |-> None]
NoHeld == [source |-> First, snap |-> [p \in PCs |-> None], was |-> FALSE,
           todo |-> {}, pc |-> None, entry |-> None]

TypeOK ==
    /\ publisher \in Sources
    /\ subscribers \in [PCs -> 0..made]
    /\ running \in BOOLEAN /\ current \in 0..MaxRuns
    /\ run \in [Runs -> {"none", "live", "cancelled", "exiting", "ended"}]
    /\ made \in 0..MaxEntries
    /\ writer \in [Entries -> {"none", "live", "cancelled", "done"}]
    /\ senders \in [PCs -> Seq(0..made)]
    /\ local \subseteq PCs /\ closed \subseteq PCs
    /\ \A a \in Procs : adder[a] # Free =>
          /\ adder[a].step \in {"attach", "insert", "undo"}
          /\ adder[a].pc \in PCs /\ adder[a].entry \in 1..made
    /\ \A p \in PCs : remover[p] # Free =>
          remover[p].step \in {"join", "detach"} /\ remover[p].entry \in 1..made
    /\ life \in {"free", "update", "reconcile", "join", "replace", "attach",
                 "insert", "undo", "stop", "writers"}
    /\ held.todo \subseteq PCs /\ swept \subseteq 1..made
    /\ world \in Worlds
    /\ removes \in 0..world.removes /\ stops \in 0..world.stops

(* NewTrackForwarder. *)
Init ==
    /\ world \in Worlds
    /\ publisher = First
    /\ subscribers = [p \in PCs |-> None]
    /\ running = FALSE /\ current = None /\ run = [g \in Runs |-> "none"]
    /\ made = 0 /\ mime = [e \in Entries |-> Mime[First]]
    /\ writer = [e \in Entries |-> "none"]
    /\ senders = [p \in PCs |-> <<>>] /\ local = {} /\ closed = {}
    /\ adder = [a \in Procs |-> Free] /\ remover = [p \in PCs |-> Free]
    /\ life = "free" /\ held = NoHeld /\ swept = {}
    /\ removes = 0 /\ stops = 0

Quiet == /\ \A a \in Procs : adder[a] = Free
         /\ \A p \in PCs : remover[p] = Free
         /\ life = "free"

(* An operation begins. *)
Begins == world.exclusive => Quiet

-----------------------------------------------------------------------------
(* PeerConnection.AddTrack and RemoveTrack for the forwarder's track ID.   *)
(* pion reuses a transceiver that sends nothing, or appends one.  Removal  *)
(* takes the first sender with that ID, whoever attached it.               *)

Attached(p) == ToSet(senders[p]) \ {None}

Filled(q, e) ==
    {Append(q, e)} \cup
    {[q EXCEPT ![i] = e] : i \in {j \in DOMAIN q : q[j] = None}}

Vacated(p) ==
    LET q    == senders[p]
        Used == {i \in DOMAIN q : q[i] # None}
    IN  IF p \in closed \/ p \notin local \/ Used = {} THEN q
        ELSE [q EXCEPT ![CHOOSE i \in Used : \A j \in Used : i <= j] = None]

AddTrack(p, e) ==
    /\ \E q \in Filled(senders[p], e) : senders' = [senders EXCEPT ![p] = q]
    /\ local' = local \cup {p} /\ UNCHANGED closed

RemoveTrack(p) ==
    /\ senders' = [senders EXCEPT ![p] = Vacated(p)]
    /\ local' = IF p \in closed THEN local ELSE local \ {p}
    /\ UNCHANGED closed

(* PeerConnection.Close, whatever the forwarder is doing. *)
Close(p) ==
    /\ p \notin closed /\ Cardinality(closed) < world.closes
    /\ closed' = closed \cup {p}
    /\ UNCHANGED <<world, publisher, subscribers, loopVars, entryVars, senders,
                   local, adder, remover, lifeVars, swept, counts>>

NewEntry(source) ==
    made < world.entries /\ made' = made + 1
    /\ mime' = [mime EXCEPT ![made + 1] = Mime[source]]

Cancelled(w) == IF w = "live" THEN "cancelled" ELSE w

-----------------------------------------------------------------------------
(* AddSubscriber: the checks and the snapshot under f.mu, and the entry it *)
(* makes.  It returns at once for a closed or a subscribed connection.     *)
AddSnapshot(a, p) ==
    /\ Begins /\ a <= world.adders /\ adder[a] = Free
    /\ p \in world.pcs \ closed /\ subscribers[p] = None
    /\ NewEntry(publisher)
    /\ adder' = [adder EXCEPT ![a] =
                   [step |-> "attach", pc |-> p, entry |-> made + 1]]
    /\ UNCHANGED <<world, publisher, subscribers, loopVars, writer, pcVars,
                   remover, lifeVars, counts, swept>>

(* ... AddTrack outside f.mu, which a closed connection refuses ...        *)
AddAttach(a) ==
    /\ adder[a].step = "attach"
    /\ IF adder[a].pc \in closed
       THEN UNCHANGED pcVars /\ adder' = [adder EXCEPT ![a] = Free]
       ELSE /\ AddTrack(adder[a].pc, adder[a].entry)
            /\ adder' = [adder EXCEPT ![a].step = "insert"]
    /\ UNCHANGED <<world, publisher, subscribers, loopVars, entryVars, remover,
                   lifeVars, swept, counts>>

(* Mutated: the map is not checked again.                                  *)
AddInsert_Unchecked(a) ==
    /\ adder[a].step = "insert"
    /\ subscribers' = [subscribers EXCEPT ![adder[a].pc] = adder[a].entry]
    /\ writer' = [writer EXCEPT ![adder[a].entry] = "live"]
    /\ adder' = [adder EXCEPT ![a] = Free]
    /\ UNCHANGED <<world, publisher, loopVars, made, mime, pcVars, remover,
                   lifeVars, swept, counts>>

(* ... and the double-checked insertion, undone if someone else won.       *)
AddInsert(a) ==
    /\ adder[a].step = "insert"
    /\ LET p == adder[a].pc
           e == adder[a].entry
       IN  IF subscribers[p] # None
           THEN /\ adder' = [adder EXCEPT ![a].step = "undo"]
                /\ UNCHANGED <<subscribers, writer>>
           ELSE /\ subscribers' = [subscribers EXCEPT ![p] = e]
                /\ writer' = [writer EXCEPT ![e] = "live"]
                /\ adder' = [adder EXCEPT ![a] = Free]
    /\ UNCHANGED <<world, publisher, loopVars, made, mime, pcVars, remover,
                   lifeVars, swept, counts>>

AddUndo(a) ==
    /\ adder[a].step = "undo"
    /\ RemoveTrack(adder[a].pc)
    /\ adder' = [adder EXCEPT ![a] = Free]
    /\ UNCHANGED <<world, publisher, subscribers, loopVars, entryVars, remover,
                   lifeVars, swept, counts>>

-----------------------------------------------------------------------------
(* Mutated: a peer connection that is not subscribed is not refused.       *)
RemTake_Unchecked(p) ==
    /\ Begins /\ remover[p] = Free
    /\ removes < world.removes /\ removes' = removes + 1
    /\ subscribers' = [subscribers EXCEPT ![p] = None]
    /\ writer' = [writer EXCEPT ![subscribers[p]] = Cancelled(@)]
    /\ remover' = [remover EXCEPT ![p] =
                     [step |-> "join", pc |-> p, entry |-> subscribers[p]]]
    /\ UNCHANGED <<world, publisher, loopVars, made, mime, pcVars, adder,
                   lifeVars, stops, swept>>

(* RemoveSubscriber: the entry goes and its writer is cancelled ...        *)
RemTake(p) ==
    /\ Begins /\ remover[p] = Free /\ subscribers[p] # None
    /\ removes < world.removes /\ removes' = removes + 1
    /\ subscribers' = [subscribers EXCEPT ![p] = None]
    /\ writer' = [writer EXCEPT ![subscribers[p]] = Cancelled(@)]
    /\ remover' = [remover EXCEPT ![p] =
                     [step |-> "join", pc |-> p, entry |-> subscribers[p]]]
    /\ UNCHANGED <<world, publisher, loopVars, made, mime, pcVars, adder,
                   lifeVars, stops, swept>>

(* ... it is joined, and the track is removed.                             *)
RemJoin(p) ==
    /\ remover[p].step = "join" /\ writer[remover[p].entry] = "done"
    /\ remover' = [remover EXCEPT ![p].step = "detach"]
    /\ UNCHANGED <<world, publisher, subscribers, loopVars, entryVars, pcVars,
                   adder, lifeVars, swept, counts>>

RemDetach(p) ==
    /\ remover[p].step = "detach" /\ remover' = [remover EXCEPT ![p] = Free]
    /\ RemoveTrack(p)
    /\ UNCHANGED <<world, publisher, subscribers, loopVars, entryVars, adder,
                   lifeVars, swept, counts>>

(* A cancelled writer drains its queue and exits. *)
WriterExits(e) ==
    /\ writer[e] = "cancelled" /\ writer' = [writer EXCEPT ![e] = "done"]
    /\ UNCHANGED <<world, publisher, subscribers, loopVars, made, mime, pcVars,
                   adder, remover, lifeVars, swept, counts>>

-----------------------------------------------------------------------------
(* The run loop.  A goroutine leaves on cancellation or on a read error;   *)
(* its deferred calls clear running and only then release wg.              *)

Started == {g \in Runs : run[g] # "none"}

Launch ==
    LET g == CHOOSE h \in Runs :
                 run[h] = "none" /\ \A i \in 1..(h - 1) : i \in Started
    IN  /\ Cardinality(Started) < world.runs
        /\ run' = [run EXCEPT ![g] = "live"] /\ current' = g /\ running' = TRUE

(* The loop ends: on a cancelled context, or on an error of the publisher. *)
(* The helper goroutine in which it called Read may stay there a while     *)
(* longer; it writes nothing, and module ForwarderRegistry counts it.      *)
RunLeaves(g) ==
    /\ run[g] \in {"live", "cancelled"}
    /\ run' = [run EXCEPT ![g] = "exiting"] /\ running' = FALSE
    /\ UNCHANGED <<world, publisher, subscribers, current, entryVars, pcVars,
                   adder, remover, lifeVars, swept, counts>>

RunDone(g) ==
    /\ run[g] = "exiting" /\ run' = [run EXCEPT ![g] = "ended"]
    /\ UNCHANGED <<world, publisher, subscribers, running, current, entryVars,
                   pcVars, adder, remover, lifeVars, swept, counts>>

(* wg.Wait returns. *)
Joined == \A g \in Runs : run[g] \in {"none", "ended"}

CancelRun == [run EXCEPT ![current] = IF @ = "live" THEN "cancelled" ELSE @]

Start ==
    /\ Begins /\ life = "free" /\ ~running /\ publisher \in Remote
    /\ Launch
    /\ UNCHANGED <<world, publisher, subscribers, entryVars, pcVars, adder,
                   remover, lifeVars, swept, counts>>

-----------------------------------------------------------------------------
(* Mutated: the run loop is not cancelled.                                 *)
UpdateBegin_NoCancel(s) ==
    /\ Begins /\ life = "free" /\ s # publisher
    /\ s \in Remote => Cardinality(Started) < world.runs
    /\ life' = "update"
    /\ held' = [NoHeld EXCEPT !.source = s, !.snap = subscribers,
                              !.was = running]
    /\ UNCHANGED <<world, publisher, subscribers, loopVars, entryVars, pcVars,
                   adder, remover, swept, counts>>

(* UpdatePublisher: the snapshot, and the run loop cancelled ...           *)
UpdateBegin(s) ==
    /\ Begins /\ life = "free" /\ s # publisher
    /\ s \in Remote => Cardinality(Started) < world.runs
    /\ life' = "update"
    /\ held' = [NoHeld EXCEPT !.source = s, !.snap = subscribers,
                              !.was = running]
    /\ run' = IF running THEN CancelRun ELSE run
    /\ UNCHANGED <<world, publisher, subscribers, running, current, entryVars,
                   pcVars, adder, remover, swept, counts>>

(* The subscribers in the snapshot whose codec is not the authoritative.   *)
Mismatched ==
    {p \in PCs : /\ held.source \in Remote /\ held.snap[p] # None
                 /\ mime[held.snap[p]] # Mime[held.source]}

(* Mutated: the old run loop is not waited for.                            *)
UpdateSwap_NoWait ==
    /\ life = "update" /\ life' = "reconcile"
    /\ publisher' = held.source
    /\ held' = [held EXCEPT !.todo = Mismatched]
    /\ UNCHANGED <<world, subscribers, loopVars, entryVars, pcVars, adder,
                   remover, swept, counts>>

(* Mutated: no subscriber's codec is reconciled.                           *)
UpdateSwap_NoReconcile ==
    /\ life = "update" /\ (held.was => Joined) /\ life' = "reconcile"
    /\ publisher' = held.source
    /\ UNCHANGED <<world, subscribers, loopVars, entryVars, pcVars, adder,
                   remover, held, swept, counts>>

(* ... joined, and the publisher swapped.                                  *)
UpdateSwap ==
    /\ life = "update" /\ (held.was => Joined) /\ life' = "reconcile"
    /\ publisher' = held.source
    /\ held' = [held EXCEPT !.todo = Mismatched]
    /\ UNCHANGED <<world, subscribers, loopVars, entryVars, pcVars, adder,
                   remover, swept, counts>>

(* reconcileSubscriber stops the writer of the entry in the snapshot ...   *)
ReconcileCancel(p) ==
    /\ life = "reconcile" /\ p \in held.todo
    /\ life' = "join" /\ held' = [held EXCEPT !.todo = @ \ {p}, !.pc = p]
    /\ writer' = [writer EXCEPT ![held.snap[p]] = Cancelled(@)]
    /\ UNCHANGED <<world, publisher, subscribers, loopVars, made, mime, pcVars,
                   adder, remover, swept, counts>>

(* ... deletes whatever entry the map holds by then ...                    *)
ReconcileDelete ==
    /\ life = "join" /\ writer[held.snap[held.pc]] = "done"
    /\ life' = "replace"
    /\ subscribers' = [subscribers EXCEPT ![held.pc] = None]
    /\ swept' = swept \cup
                  ({subscribers[held.pc]} \ {None, held.snap[held.pc]})
    /\ UNCHANGED <<world, publisher, loopVars, entryVars, pcVars, adder,
                   remover, held, counts>>

(* ... swaps the egress track: SwapEgressTrack removes the old one and     *)
(* adds the new one, which a closed connection refuses, leaving the        *)
(* subscriber detached ...                                                 *)
ReconcileRemove ==
    /\ life = "replace" /\ life' = "attach"
    /\ RemoveTrack(held.pc)
    /\ UNCHANGED <<world, publisher, subscribers, loopVars, entryVars, adder,
                   remover, held, swept, counts>>

ReconcileAttach ==
    /\ life = "attach"
    /\ IF held.pc \in closed
       THEN life' = "reconcile" /\ UNCHANGED <<held, made, mime, pcVars>>
       ELSE /\ NewEntry(held.source)
            /\ life' = "insert" /\ held' = [held EXCEPT !.entry = made + 1]
            /\ AddTrack(held.pc, made + 1)
    /\ UNCHANGED <<world, publisher, subscribers, loopVars, writer, adder,
                   remover, swept, counts>>

(* ... and inserts the new entry unless a resubscription was faster.       *)
ReconcileInsert ==
    /\ life = "insert"
    /\ IF subscribers[held.pc] # None
       THEN life' = "undo" /\ UNCHANGED <<subscribers, writer>>
       ELSE /\ subscribers' = [subscribers EXCEPT ![held.pc] = held.entry]
            /\ writer' = [writer EXCEPT ![held.entry] = "live"]
            /\ life' = "reconcile"
    /\ UNCHANGED <<world, publisher, loopVars, made, mime, pcVars, adder,
                   remover, held, swept, counts>>

ReconcileUndo ==
    /\ life = "undo" /\ life' = "reconcile"
    /\ RemoveTrack(held.pc)
    /\ UNCHANGED <<world, publisher, subscribers, loopVars, entryVars, adder,
                   remover, held, swept, counts>>

(* The run loop is restarted on the new TrackRemote, or given up.          *)
UpdateEnd ==
    /\ life = "reconcile" /\ held.todo = {}
    /\ life' = "free" /\ held' = NoHeld
    /\ IF publisher \in Remote THEN Launch
       ELSE /\ running' = FALSE /\ UNCHANGED run
            /\ current' = IF held.was THEN None ELSE current
    /\ UNCHANGED <<world, publisher, subscribers, entryVars, pcVars, adder,
                   remover, swept, counts>>

-----------------------------------------------------------------------------
(* Stop: the map is cleared and the run loop cancelled ...                 *)
StopBegin ==
    /\ Begins /\ life = "free" /\ stops < world.stops /\ stops' = stops + 1
    /\ life' = "stop"
    /\ held' = [NoHeld EXCEPT !.was = running, !.snap = subscribers,
                   !.todo = {p \in PCs : subscribers[p] # None}]
    /\ subscribers' = [p \in PCs |-> None]
    /\ run' = IF running THEN CancelRun ELSE run
    /\ running' = FALSE /\ current' = IF running THEN None ELSE current
    /\ UNCHANGED <<world, publisher, entryVars, pcVars, adder, remover,
                   removes, swept>>

(* ... it is joined and the writers cancelled ...                          *)
StopCancel ==
    /\ life = "stop" /\ (held.was => Joined) /\ life' = "writers"
    /\ writer' = [e \in Entries |-> IF \E p \in held.todo : held.snap[p] = e
                                    THEN Cancelled(writer[e]) ELSE writer[e]]
    /\ UNCHANGED <<world, publisher, subscribers, loopVars, made, mime, pcVars,
                   adder, remover, held, swept, counts>>

WritersDone ==
    \A p \in PCs : held.snap[p] # None => writer[held.snap[p]] = "done"

(* Mutated: the tracks of the stopped subscribers stay attached.           *)
StopDetach_Keeps(p) ==
    /\ life = "writers" /\ WritersDone
    /\ p \in held.todo /\ held' = [held EXCEPT !.todo = @ \ {p}]
    /\ UNCHANGED <<world, publisher, subscribers, loopVars, entryVars, pcVars,
                   adder, remover, life, swept, counts>>

(* ... and joined; then the track is removed from each subscriber.         *)
StopDetach(p) ==
    /\ life = "writers" /\ WritersDone
    /\ p \in held.todo /\ held' = [held EXCEPT !.todo = @ \ {p}]
    /\ RemoveTrack(p)
    /\ UNCHANGED <<world, publisher, subscribers, loopVars, entryVars, adder,
                   remover, life, swept, counts>>

StopEnd ==
    /\ life = "writers" /\ held.todo = {}
    /\ life' = "free" /\ held' = NoHeld
    /\ UNCHANGED <<world, publisher, subscribers, loopVars, entryVars, pcVars,
                   adder, remover, swept, counts>>

-----------------------------------------------------------------------------
(* What the holder of lifecycleMu does next.                               *)
LifeStep ==
    \/ UpdateSwap \/ UpdateEnd
    \/ \E p \in PCs : ReconcileCancel(p) \/ StopDetach(p)
    \/ ReconcileDelete \/ ReconcileRemove \/ ReconcileAttach
    \/ ReconcileInsert \/ ReconcileUndo
    \/ StopCancel \/ StopEnd

Next ==
    \/ \E a \in Procs : \/ \E p \in PCs : AddSnapshot(a, p)
                        \/ AddAttach(a) \/ AddInsert(a) \/ AddUndo(a)
    \/ \E p \in PCs : RemTake(p) \/ RemJoin(p) \/ RemDetach(p) \/ Close(p)
    \/ \E e \in Entries : WriterExits(e)
    \/ \E g \in Runs : RunLeaves(g) \/ RunDone(g)
    \/ Start \/ StopBegin \/ LifeStep
    \/ \E s \in Sources : UpdateBegin(s)

(* Goroutines that can go on do: a call under way takes its next step, a   *)
(* cancelled writer drains its queue and exits, a cancelled run loop sees  *)
(* its context done.  Nothing makes a live run loop leave.                 *)
Fairness ==
    /\ \A p \in PCs : WF_vars(RemJoin(p) \/ RemDetach(p))
    /\ WF_vars(LifeStep)
    /\ \A e \in Entries : WF_vars(WriterExits(e))
    /\ \A g \in Runs : /\ WF_vars(run[g] = "cancelled" /\ RunLeaves(g))
                       /\ WF_vars(RunDone(g))

Spec == Init /\ [][Next]_vars /\ Fairness

-----------------------------------------------------------------------------
Alive == {g \in Runs : run[g] \in {"live", "cancelled"}}

(* At most one run loop sends what the publisher gives, and running is not *)
(* set without one: the flag a goroutine clears on its way out is not that *)
(* of its successor (UpdatePublisher, Start, Stop, run).                   *)
OneRunLoop ==
    /\ \A g, h \in Alive : g = h
    /\ running => Alive # {}

(* Whatever overlaps, a writer goroutine runs only for an entry of the map *)
(* or of the Stop that is about to cancel it, so no peer connection has    *)
(* two and none is left without its subscription: the loser of two         *)
(* AddSubscriber calls starts no writer, RemoveSubscriber, Stop and        *)
(* reconcileSubscriber stop the writer of what they take out.  The         *)
(* exception is a resubscription that reconcileSubscriber deletes by peer  *)
(* connection in place of the entry it has stopped.                        *)
WritersAccounted ==
    \A e \in Entries : writer[e] = "live" =>
        \/ \E p \in PCs : subscribers[p] = e
        \/ life = "stop" /\ \E p \in held.todo : held.snap[p] = e
        \/ e \in swept

(* Every RemoveSubscriber, UpdatePublisher and Stop returns, though they   *)
(* wait for writers and for run loops that overlapping calls start, cancel *)
(* and leave behind: what they wait for has been cancelled.  (A rebuild    *)
(* needs a new entry, of which the model has finitely many.)               *)
CallsReturn ==
    /\ \A p \in PCs : remover[p] # Free ~> remover[p] = Free
    /\ life \in {"stop", "writers"} ~> life = "free"
    /\ life # "free" ~> life = "free" \/ made = world.entries

(* The others are about calls that exclude each other.                     *)

(* Reconciliation leaves no subscriber with a codec other than the one of  *)
(* a TrackRemote publisher once no operation is under way                  *)
(* (UpdatePublisher, checkCodecInvariant).                                 *)
CodecMatches ==
    world.exclusive /\ Quiet /\ publisher \in Remote =>
        \A p \in PCs : subscribers[p] # None =>
            mime[subscribers[p]] = Mime[publisher]

(* Once no operation is under way, what is attached to the open peer       *)
(* connections is exactly what the map says and a running writer is in it: *)
(* nothing is left behind by RemoveSubscriber, Stop or reconcileSubscriber *)
(* and nothing is missing.                                                 *)
NothingLeftBehind ==
    world.exclusive /\ Quiet =>
        /\ \A p \in PCs \ closed : Attached(p) = {subscribers[p]} \ {None}
        /\ \A e \in Entries : writer[e] = "live" =>
              \E p \in PCs : subscribers[p] = e
=============================================================================
