------------------------------ MODULE RtpQueue ------------------------------
(***************************************************************************)
(* The packets of one TrackForwarder (internal/webrtc/track_forwarder.go): *)
(* WriteRTP clones each packet into the bounded queue of every subscriber, *)
(* a writer goroutine per subscriber entry (runWriter) takes them out, and *)
(* the clones come from and return to packetPool.                          *)
(*                                                                         *)
(* WriteRTP holds f.mu for its snapshot of the entries only, so entries    *)
(* come and go while a call works off its snapshot.  Module TrackForwarder *)
(* has the egress tracks; here an entry is its queue and its writer.       *)
(***************************************************************************)
EXTENDS Naturals, Sequences, FiniteSets, FiniteSetsExt

CONSTANTS Subs,        \* subscriber peer connections
          Slow,        \* those whose transport may stop taking packets
          Run, Direct, \* callers of WriteRTP: the run loop, and the API
          Cap,         \* queueSize
          MaxPackets,  \* bound on packets of each caller
          MaxOffered,  \* bound on packets times subscribers
          MaxEntries,  \* bound on subscriber entries made
          MaxOps       \* bound on AddSubscriber, RemoveSubscriber,
                       \* UpdatePublisher and Stop calls

ASSUME QueueAssumption ==
    /\ Slow \subseteq Subs /\ Run # Direct
    /\ Cap \in Nat \ {0} /\ MaxPackets \in Nat /\ MaxOffered \in Nat /\ MaxEntries \in Nat
    /\ MaxOps \in Nat

Callers == {Run, Direct}
Entries == 1..MaxEntries
None    == 0

(* A clone is named by the caller, its packet and the entry it was made    *)
(* for: packetPool.Get gives a fresh object, so that one that is returned  *)
(* too early shows by having two owners.                                   *)
Clones == Callers \X (1..MaxPackets) \X Entries
NoClone == <<>>

VARIABLES
    subscribers, \* TrackForwarder.subscribers
    made,        \* entries made so far
    owner,       \* the peer connection of each entry
    queue,       \* subscriberEntry.queue
    writer,      \* state of each entry's runWriter
    hand,        \* the packet runWriter took and has not written yet
    cloned,      \* the clones made
    pool,        \* those returned to packetPool
    call,        \* the WriteRTP call of each caller
    count,       \* packets each caller has had
    run,         \* the run goroutine
    op,          \* what the holder of lifecycleMu does
    offered,     \* packets times the subscribers in WriteRTP's snapshots
    egress,      \* the first entry of the chain each entry was rebuilt from
    out,         \* what was written to each egress
    late,        \* callers that still had each entry in their snapshot when
                 \* it left the map, and were not waited for
    ops

mapVars   == <<subscribers, made, owner, egress>>
poolVars  == <<cloned, pool>>
callVars  == <<call, count, offered>>
vars == <<mapVars, queue, writer, hand, poolVars, callVars, run, op, out,
          late, ops>>

Idle == [at |-> "idle", todo |-> {}, entry |-> None, clone |-> NoClone]
Free == [at |-> "free", todo |-> {}, old |-> None, new |-> None]

TypeOK ==
    /\ subscribers \in [Subs -> 0..made] /\ made \in 0..MaxEntries
    /\ \A e \in Entries : queue[e] \in Seq(Clones) /\ Len(queue[e]) <= Cap
    /\ writer \in [Entries -> {"none", "live", "cancelled", "done"}]
    /\ hand \in [Entries -> Clones \cup {NoClone}]
    /\ cloned \subseteq Clones /\ pool \subseteq Clones
    /\ \A c \in Callers :
          /\ call[c].at \in {"idle", "next", "send"}
          /\ call[c].todo \subseteq 1..made /\ count[c] \in 0..MaxPackets
    /\ run \in {"new", "live", "cancelled", "ended"}
    /\ op.at \in {"free", "stop", "writers", "update", "reconcile", "join",
                  "swap", "carry"}
    /\ late \in [Entries -> SUBSET Callers]

(* NewTrackForwarderWithConfig. *)
Init ==
    /\ subscribers = [p \in Subs |-> None] /\ made = 0
    /\ owner = [e \in Entries |-> None] /\ egress = [e \in Entries |-> e]
    /\ queue = [e \in Entries |-> <<>>]
    /\ writer = [e \in Entries |-> "none"] /\ hand = [e \in Entries |-> NoClone]
    /\ cloned = {} /\ pool = {}
    /\ call = [c \in Callers |-> Idle] /\ count = [c \in Callers |-> 0]
    /\ run = "new" /\ op = Free
    /\ offered = 0
    /\ out = [e \in Entries |-> <<>>] /\ late = [e \in Entries |-> {}]
    /\ ops = 0

Current == {subscribers[p] : p \in Subs} \ {None}
Holders(e) == {c \in Callers : e \in call[c].todo}
Called == ops < MaxOps /\ ops' = ops + 1
Cancel(es) == [e \in Entries |->
                 IF e \in es /\ writer[e] = "live" THEN "cancelled" ELSE writer[e]]

-----------------------------------------------------------------------------
(* The call goes on with the other entries.  A run loop that was cancelled *)
(* meanwhile leaves when the call returns.                                 *)
GoOn(c, rest) ==
    /\ call' = [call EXCEPT ![c] = IF rest = {} THEN Idle
                                   ELSE [Idle EXCEPT !.at = "next", !.todo = rest]]
    /\ run' = IF c = Run /\ rest = {} /\ run = "cancelled" THEN "ended" ELSE run

(* WriteRTP: the snapshot.  The run loop calls it with what it read, even  *)
(* if it was cancelled meanwhile: its select may choose either.            *)
Snapshot(c) ==
    /\ call[c] = Idle /\ count[c] < MaxPackets
    /\ c = Run => run \in {"live", "cancelled"}
    /\ count' = [count EXCEPT ![c] = @ + 1]
    /\ offered' = offered + Cardinality(Current) /\ offered' <= MaxOffered
    /\ GoOn(c, Current)
    /\ UNCHANGED <<mapVars, queue, writer, hand, poolVars, op, out, late,
                   ops>>

(* One entry: the packet is dropped if the queue is full, or cloned ...    *)
CheckFull(c, e) ==
    /\ call[c].at = "next" /\ e \in call[c].todo
    /\ Len(queue[e]) = Cap
    /\ GoOn(c, call[c].todo \ {e})
    /\ UNCHANGED <<mapVars, queue, writer, hand, poolVars, count, offered, op,
                   out, late, ops>>

ClonePacket(c, e) ==
    /\ call[c].at = "next" /\ e \in call[c].todo
    /\ Len(queue[e]) < Cap
    /\ LET k == <<c, count[c], e>> IN
       /\ cloned' = cloned \cup {k}
       /\ call' = [call EXCEPT ![c].at = "send", ![c].entry = e, ![c].clone = k]
    /\ UNCHANGED <<mapVars, queue, writer, hand, pool, count, offered, run,
                   op, out, late, ops>>

(* Mutated: the sender waits for room in the queue.                        *)
Enqueue_Blocks(c) ==
    LET e == call[c].entry IN
    /\ call[c].at = "send" /\ Len(queue[e]) < Cap
    /\ queue' = [queue EXCEPT ![e] = Append(@, call[c].clone)]
    /\ GoOn(c, call[c].todo \ {e})
    /\ UNCHANGED <<mapVars, writer, hand, poolVars, count, offered, op, out,
                   late, ops>>

(* Mutated: the clone that was queued is returned to the pool as well.     *)
Enqueue_Returns(c) ==
    LET e == call[c].entry
        s == call[c].clone
    IN /\ call[c].at = "send"
       /\ pool' = pool \cup {s}
       /\ IF Len(queue[e]) < Cap
          THEN /\ queue' = [queue EXCEPT ![e] = Append(@, s)]
          ELSE UNCHANGED queue
       /\ GoOn(c, call[c].todo \ {e})
       /\ UNCHANGED <<mapVars, writer, hand, cloned, count, offered, op, out,
                      late, ops>>

(* ... and queued, or dropped if the queue has become full.                *)
Enqueue(c) ==
    LET e == call[c].entry
        s == call[c].clone
    IN /\ call[c].at = "send"
       /\ IF Len(queue[e]) < Cap
          THEN /\ queue' = [queue EXCEPT ![e] = Append(@, s)]
               /\ UNCHANGED pool
          ELSE pool' = pool \cup {s} /\ UNCHANGED queue
       /\ GoOn(c, call[c].todo \ {e})
       /\ UNCHANGED <<mapVars, writer, hand, cloned, count, offered, op, out,
                      late, ops>>

-----------------------------------------------------------------------------
(* runWriter: it takes a packet, whether it was cancelled or not ...       *)
Take(e) ==
    /\ writer[e] \in {"live", "cancelled"} /\ hand[e] = NoClone /\ queue[e] # <<>>
    /\ hand' = [hand EXCEPT ![e] = Head(queue[e])]
    /\ queue' = [queue EXCEPT ![e] = Tail(@)]
    /\ UNCHANGED <<mapVars, writer, poolVars, callVars, run, op, out, late,
                   ops>>

(* ... writes it, and returns it to the pool ...                           *)
WriteOut(e) ==
    LET s == hand[e] IN
    /\ s # NoClone
    /\ out' = [out EXCEPT ![egress[e]] = Append(@, s)]
    /\ pool' = pool \cup {s}
    /\ hand' = [hand EXCEPT ![e] = NoClone]
    /\ UNCHANGED <<mapVars, queue, writer, cloned, callVars, run, op, late,
                   ops>>

(* ... until it is cancelled and finds the queue empty.                    *)
WriterExits(e) ==
    /\ writer[e] = "cancelled" /\ hand[e] = NoClone /\ queue[e] = <<>>
    /\ writer' = [writer EXCEPT ![e] = "done"]
    /\ UNCHANGED <<mapVars, queue, hand, poolVars, callVars, run, op, out,
                   late, ops>>

-----------------------------------------------------------------------------
(* AddSubscriber's insertion.                                              *)
AddSubscriber(p) ==
    /\ subscribers[p] = None /\ made < MaxEntries
    /\ Called
    /\ made' = made + 1
    /\ subscribers' = [subscribers EXCEPT ![p] = made + 1]
    /\ owner' = [owner EXCEPT ![made + 1] = p]
    /\ writer' = [writer EXCEPT ![made + 1] = "live"]
    /\ UNCHANGED <<egress, queue, hand, poolVars, callVars, run, op, out,
                   late>>

(* RemoveSubscriber, up to its wait for the writer.                        *)
RemoveSubscriber(p) ==
    LET e == subscribers[p] IN
    /\ e # None /\ Called
    /\ subscribers' = [subscribers EXCEPT ![p] = None]
    /\ writer' = Cancel({e}) /\ late' = [late EXCEPT ![e] = Holders(e)]
    /\ UNCHANGED <<made, owner, egress, queue, hand, poolVars, callVars, run,
                   op, out>>

(* The run goroutine ends: it was cancelled, or its read failed.           *)
RunLeaves ==
    /\ run \in {"live", "cancelled"} /\ call[Run] = Idle /\ run' = "ended"
    /\ UNCHANGED <<mapVars, queue, writer, hand, poolVars, callVars, op, out,
                   late, ops>>

Start ==
    /\ op = Free /\ run = "new" /\ run' = "live"
    /\ UNCHANGED <<mapVars, queue, writer, hand, poolVars, callVars, op, out,
                   late, ops>>

CancelRun == run' = IF run = "live" THEN "cancelled" ELSE run

(* Stop: the map is cleared and the run loop cancelled ...                 *)
StopBegin ==
    /\ op = Free /\ Called
    /\ op' = [Free EXCEPT !.at = "stop", !.todo = Current]
    /\ subscribers' = [p \in Subs |-> None] /\ CancelRun
    /\ late' = [e \in Entries |-> IF e \in Current THEN Holders(e) \ {Run}
                                  ELSE late[e]]
    /\ UNCHANGED <<made, owner, egress, queue, writer, hand, poolVars,
                   callVars, out>>

(* Mutated: the run loop is not waited for.                                *)
StopCancel_NoWait ==
    /\ op.at = "stop" /\ op' = [op EXCEPT !.at = "writers"]
    /\ writer' = Cancel(op.todo)
    /\ UNCHANGED <<mapVars, queue, hand, poolVars, callVars, run, out, late,
                   ops>>

(* ... once it has ended the writers are cancelled, and waited for.        *)
StopCancel ==
    /\ op.at = "stop" /\ run \in {"new", "ended"} /\ op' = [op EXCEPT !.at = "writers"]
    /\ writer' = Cancel(op.todo)
    /\ UNCHANGED <<mapVars, queue, hand, poolVars, callVars, run, out, late,
                   ops>>

StopEnd ==
    /\ op.at = "writers" /\ \A e \in op.todo : writer[e] = "done"
    /\ op' = Free
    /\ UNCHANGED <<mapVars, queue, writer, hand, poolVars, callVars, run, out,
                   late, ops>>

-----------------------------------------------------------------------------
(* UpdatePublisher: the run loop is cancelled and waited for; some of the  *)
(* subscribers in its snapshot are to be rebuilt ...                       *)
UpdateBegin(es) ==
    /\ op = Free /\ Called
    /\ op' = [Free EXCEPT !.at = "update", !.todo = es]
    /\ CancelRun
    /\ UNCHANGED <<mapVars, queue, writer, hand, poolVars, callVars, out,
                   late>>

UpdateSwap ==
    /\ op.at = "update" /\ run \in {"new", "ended"} /\ op' = [op EXCEPT !.at = "reconcile"]
    /\ UNCHANGED <<mapVars, queue, writer, hand, poolVars, callVars, run, out,
                   late, ops>>

(* ... reconcileSubscriber: the writer drains and ends, the entry in the   *)
(* map is deleted only then ...                                            *)
ReconcileStop(e) ==
    /\ op.at = "reconcile" /\ e \in op.todo
    /\ op' = [op EXCEPT !.at = "join", !.todo = @ \ {e}, !.old = e]
    /\ writer' = Cancel({e})
    /\ UNCHANGED <<mapVars, queue, hand, poolVars, callVars, run, out, late,
                   ops>>

ReconcileDelete ==
    /\ op.at = "join" /\ writer[op.old] = "done"
    /\ op' = [op EXCEPT !.at = "swap"]
    /\ subscribers' = [subscribers EXCEPT ![owner[op.old]] = None]
    /\ late' = [late EXCEPT ![op.old] = @ \cup Holders(op.old)]
    /\ UNCHANGED <<made, owner, egress, queue, writer, hand, poolVars,
                   callVars, run, out, ops>>

(* ... the egress track is swapped, which a closed connection refuses (the *)
(* packets left in the queue then stay there) ...                          *)
ReconcileSwap ==
    /\ op.at = "swap"
    /\ \/ /\ made < MaxEntries /\ made' = made + 1
          /\ op' = [op EXCEPT !.at = "carry", !.new = made + 1]
          /\ owner' = [owner EXCEPT ![made + 1] = owner[op.old]]
          /\ egress' = [egress EXCEPT ![made + 1] = egress[op.old]]
          /\ UNCHANGED late
       \/ /\ op' = [op EXCEPT !.at = "reconcile"]
          /\ late' = [late EXCEPT ![op.old] = Callers]
          /\ UNCHANGED <<made, owner, egress>>
    /\ UNCHANGED <<subscribers, queue, writer, hand, poolVars, callVars, run,
                   out, ops>>

(* ... what was queued since is carried over to the new queue ...          *)
Carry ==
    LET s == Head(queue[op.old]) IN
    /\ op.at = "carry" /\ queue[op.old] # <<>>
    /\ IF Len(queue[op.new]) < Cap
       THEN /\ queue' = [queue EXCEPT ![op.old] = Tail(@),
                                      ![op.new] = Append(@, s)]
            /\ UNCHANGED pool
       ELSE /\ queue' = [queue EXCEPT ![op.old] = Tail(@)]
            /\ pool' = pool \cup {s}
    /\ UNCHANGED <<mapVars, writer, hand, cloned, callVars, run, op, out,
                   late, ops>>

(* Mutated: the entry is registered before its queue was carried over.     *)
ReconcileInsert_Early ==
    LET p == owner[op.old] IN
    /\ op.at = "carry"
    /\ op' = IF queue[op.old] = <<>> THEN [op EXCEPT !.at = "reconcile"] ELSE op
    /\ IF subscribers[p] # None THEN UNCHANGED <<subscribers, writer>>
       ELSE /\ subscribers' = [subscribers EXCEPT ![p] = op.new]
            /\ writer' = [writer EXCEPT ![op.new] = "live"]
    /\ UNCHANGED <<made, owner, egress, queue, hand, poolVars, callVars, run,
                   out, late, ops>>

(* ... and the new entry takes its place, unless a resubscription did; the *)
(* queue that was carried over is then abandoned.                          *)
ReconcileInsert ==
    LET p == owner[op.old] IN
    /\ op.at = "carry" /\ queue[op.old] = <<>>
    /\ op' = [op EXCEPT !.at = "reconcile"]
    /\ IF subscribers[p] # None THEN UNCHANGED <<subscribers, writer>>
       ELSE /\ subscribers' = [subscribers EXCEPT ![p] = op.new]
            /\ writer' = [writer EXCEPT ![op.new] = "live"]
    /\ UNCHANGED <<made, owner, egress, queue, hand, poolVars, callVars, run,
                   out, late, ops>>

(* The run loop is restarted if the new publisher is a TrackRemote.        *)
UpdateEnd ==
    /\ op.at = "reconcile" /\ op.todo = {} /\ op' = Free
    /\ run' \in {"live", run}
    /\ UNCHANGED <<mapVars, queue, writer, hand, poolVars, callVars, out,
                   late, ops>>

-----------------------------------------------------------------------------
CallStep(c) == \/ Enqueue(c)
               \/ \E e \in Entries : CheckFull(c, e) \/ ClonePacket(c, e)

WriterStep(e) == Take(e) \/ WriteOut(e) \/ WriterExits(e)

Next ==
    \/ \E c \in Callers : Snapshot(c) \/ CallStep(c)
    \/ \E e \in Entries : WriterStep(e) \/ ReconcileStop(e)
    \/ \E p \in Subs : AddSubscriber(p) \/ RemoveSubscriber(p)
    \/ \E es \in SUBSET Current : UpdateBegin(es)
    \/ RunLeaves \/ Start \/ StopBegin \/ StopCancel \/ StopEnd
    \/ UpdateSwap \/ ReconcileDelete \/ ReconcileSwap \/ Carry
    \/ ReconcileInsert \/ UpdateEnd

Spec == Init /\ [][Next]_vars

(* Calls under way go on, and so do the writers whose transport takes      *)
(* packets.  Nothing is assumed of the others, nor of who calls.           *)
FairSpec ==
    /\ Spec
    /\ \A c \in Callers : WF_vars(CallStep(c))
    /\ \A e \in Entries : WF_vars(owner[e] \notin Slow /\ WriterStep(e))

-----------------------------------------------------------------------------
(* Every clone has one owner: the WriteRTP call that made it, a queue, a   *)
(* writer, or the pool it was returned to.  One returned too early would   *)
(* be overwritten while it waits in somebody's queue, one returned twice   *)
(* would be given to two packets (clonePacket, runWriter, the drop path of *)
(* WriteRTP, reconcileSubscriber).                                         *)
Places(k) ==
    {<<"pool">> : x \in pool \cap {k}}
    \cup {<<"call", c>> : c \in {c \in Callers : call[c].clone = k}}
    \cup {<<"hand", e>> : e \in {e \in Entries : hand[e] = k}}
    \cup UNION {{<<"queue", e, i>> : i \in {i \in DOMAIN queue[e] : queue[e][i] = k}}
                : e \in Entries}

OneOwner == \A k \in cloned : Cardinality(Places(k)) = 1

(* Each egress gets the packets of a caller in their order and once, also  *)
(* over a rebuild that moves them from one queue to another while WriteRTP *)
(* goes on (reconcileSubscriber).                                          *)
InOrder ==
    \A e \in Entries : \A i, j \in DOMAIN out[e] :
        i < j /\ out[e][i][1] = out[e][j][1] => out[e][i][2] < out[e][j][2]

(* A packet is left in the queue of a writer that has ended only by a call *)
(* whose snapshot is older than the entry's removal.  Stop waits for the   *)
(* run loop before it ends the writers, so a packet of the run loop is     *)
(* never left behind by it (runWriter's drain, Stop).                      *)
StrandedOnlyLate ==
    \A e \in Entries :
        writer[e] = "done" /\ ~(op.at \in {"join", "swap", "carry"} /\ op.old = e)
        => \A i \in DOMAIN queue[e] : queue[e][i][1] \in late[e]

(* Slow subscribers never block fast ones: once no more packets come (the  *)
(* bounds see to that) every WriteRTP call has returned and the queue of   *)
(* every other subscriber is empty, though the writers of slow ones may    *)
(* never move again (WriteRTP, runWriter).                                 *)
FastServed ==
    <>[] /\ \A c \in Callers : call[c] = Idle
         /\ \A e \in Entries : writer[e] = "live" /\ owner[e] \notin Slow
                                => queue[e] = <<>> /\ hand[e] = NoClone
=============================================================================
