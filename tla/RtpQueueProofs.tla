--------------------------- MODULE RtpQueueProofs ---------------------------
(***************************************************************************)
(* Theorems about RtpQueue, for any subscribers, any size of the queues    *)
(* and any number of packets, entries and operations.                      *)
(*                                                                         *)
(* Entries that are rebuilt from one another form a chain: they have one   *)
(* egress track, and the packets left in one are carried over to the next. *)
(***************************************************************************)
EXTENDS RtpQueue, SequenceTheorems, FiniteSetTheorems, TLAPS

Updating  == {"update", "reconcile", "join", "swap", "carry"}
Replacing == {"join", "swap", "carry"}

CallStates(m) ==
    [at : {"idle", "next", "send"}, todo : SUBSET (1..m), entry : 0..m,
     clone : Clones \cup {NoClone}]
OpStates(m) ==
    [at : {"free", "stop", "writers"} \cup Updating, todo : SUBSET (1..m),
     old : 0..m, new : 0..m]

(* The types of the entries and of the operations on them ...              *)
MapTypes ==
    /\ made \in 0..MaxEntries
    /\ subscribers \in [Subs -> 0..made]
    /\ DOMAIN owner = Entries /\ \A e \in 1..made : owner[e] \in Subs
    /\ egress \in [Entries -> Entries] /\ \A e \in Entries : egress[e] <= e
    /\ writer \in [Entries -> {"none", "live", "cancelled", "done"}]
    /\ late \in [Entries -> SUBSET Callers]
    /\ op \in OpStates(made)

(* ... of the packets ...                                                  *)
PacketTypes ==
    /\ queue \in [Entries -> Seq(Clones)] /\ out \in [Entries -> Seq(Clones)]
    /\ hand \in [Entries -> Clones \cup {NoClone}]
    /\ cloned \subseteq Clones /\ pool \subseteq Clones

(* ... and of the calls of WriteRTP.                                       *)
CallTypes ==
    /\ call \in [Callers -> CallStates(made)]
    /\ count \in [Callers -> 0..MaxPackets]
    /\ run \in {"new", "live", "cancelled", "ended"}

(* How far a call is: it holds a clone while it sends, for one of the      *)
(* entries it has not served yet.                                          *)
CallShape ==
    \A c \in Callers :
        /\ call[c].at = "idle" => call[c] = Idle
        /\ call[c].at # "idle" => count[c] # 0
        /\ call[c].at # "send" => call[c].clone = NoClone
        /\ call[c].at = "send" =>
              /\ call[c].entry \in call[c].todo
              /\ call[c].clone = <<c, count[c], call[c].entry>>

(* A run loop that has ended is in no call.                                *)
RunIdle == run \in {"new", "ended"} => call[Run] = Idle

(* An entry is in the map under the peer connection it was made for, one   *)
(* that has no writer holds no packet, and one yet to be made has nothing. *)
MapOwned ==
    /\ \A p \in Subs : subscribers[p] # None => owner[subscribers[p]] = p
    /\ \A e \in Entries : hand[e] # NoClone => writer[e] \in {"live", "cancelled"}
    /\ \A e \in Entries : e > made =>
          writer[e] = "none" /\ queue[e] = <<>> /\ egress[e] = e

(* What reconcileSubscriber knows of the entry it replaces and of the one  *)
(* it makes.                                                               *)
Rebuild ==
    /\ op.at \in Replacing => op.old # None
    /\ op.at \in {"swap", "carry"} => writer[op.old] = "done"
    /\ op.at = "carry" => /\ op.new # None /\ op.new # op.old
                          /\ writer[op.new] = "none"
                          /\ owner[op.new] = owner[op.old]
                          /\ egress[op.new] = egress[op.old]

(* The entry is out of the map, and the calls that still have it are those *)
(* that count as late.                                                     *)
Left(e) == e \notin Current /\ Holders(e) \subseteq late[e]

(* A writer that may end has left, but for the one that is replaced; the   *)
(* run loop is waited for before Stop ends the writers.                    *)
Leaving ==
    /\ \A e \in Entries :
          /\ writer[e] \in {"cancelled", "done"}
          /\ ~(op.at = "join" /\ op.old = e)
          => Left(e)
    /\ op.at = "stop" =>
          \A e \in op.todo : e \notin Current /\ Holders(e) \ {Run} \subseteq late[e]

Listed(q)   == {q[i] : i \in DOMAIN q}
Distinct(q) == \A i, j \in DOMAIN q : q[i] = q[j] => i = j

(* The clone is in a place of kind t, that of x, and nowhere else.         *)
Spot(t, x) ==
    \/ t = "pool" /\ x = None
    \/ t = "call" /\ x \in Callers
    \/ t \in {"hand", "queue"} /\ x \in Entries

Owned(k, t, x) ==
    /\ k \in pool <=> t = "pool"
    /\ \A c \in Callers : call[c].clone = k <=> t = "call" /\ x = c
    /\ \A e \in Entries : hand[e] = k <=> t = "hand" /\ x = e
    /\ \A e \in Entries : k \in Listed(queue[e]) <=> t = "queue" /\ x = e


(* OneOwner: a clone is in one place, and a packet in a queue once.        *)
Ownership ==
    /\ \A e \in Entries : Distinct(queue[e])
    /\ \A k \in cloned : \E t, x : Spot(t, x) /\ Owned(k, t, x)
    /\ \A k \in Clones \ cloned : Owned(k, "nowhere", None)

(* The clones of the packet a call has now are of entries it is done with, *)
(* or the one in its hands.                                                *)
Numbered ==
    /\ \A k \in cloned : k[2] <= count[k[1]]
    /\ \A c \in Callers : \A e \in call[c].todo :
          <<c, count[c], e>> \in cloned =>
              call[c].at = "send" /\ call[c].entry = e

StrandInv ==
    /\ MapTypes /\ PacketTypes /\ CallTypes
    /\ CallShape /\ RunIdle /\ MapOwned /\ Rebuild /\ Leaving
    /\ StrandedOnlyLate

-----------------------------------------------------------------------------
(* The order of the packets.                                               *)

(* Two entries of one chain, and the entry that was made last in its.      *)
Akin(e, f) == egress[e] = egress[f]
Last(e)    == \A f \in 1..made : Akin(e, f) => f <= e

(* A chain goes on from its last entry only, so that a snapshot of the map *)
(* has one entry of a chain at most.                                       *)
Growing(e) ==
    \/ writer[e] \in {"live", "cancelled"} \/ e \in Current
    \/ op.at \in Updating /\ e \in op.todo
    \/ op.at \in {"join", "swap"} /\ e = op.old
    \/ op.at = "carry" /\ e = op.new

Chains ==
    /\ \A e \in Entries : Growing(e) => Last(e)
    /\ op.at \in {"join", "swap"} => op.old \notin op.todo

(* Nobody has an entry whose writer has not begun.                         *)
Unheld == \A e \in Entries : writer[e] = "none" => e \notin Current /\ Holders(e) = {}

(* Packets stay in the chain they were cloned for ...                      *)
Homes ==
    /\ \A e \in Entries : \A k \in Listed(queue[e]) : Akin(k[3], e)
    /\ \A e \in Entries : hand[e] # NoClone => Akin(hand[e][3], e)
    /\ \A e \in Entries : \A k \in Listed(out[e]) : k \in pool /\ egress[k[3]] = e
    /\ \A k \in cloned : k[3] <= made

(* ... and a call clones a packet once for a chain.                        *)
Once ==
    \A c \in Callers : \A e \in call[c].todo :
        /\ \A f \in call[c].todo : Akin(e, f) => e = f
        /\ \A k \in cloned :
              k[1] = c /\ k[2] = count[c] /\ Akin(k[3], e) => k[3] = e

Earlier(s, t) == s[1] = t[1] => s[2] < t[2]
Sorted(q)     == \A i, j \in DOMAIN q : i < j => Earlier(q[i], q[j])
Before(A, B)  == \A s \in A, t \in B : Earlier(s, t)

Written(e) == Listed(out[egress[e]])
Holding(e) == {hand[e]} \ {NoClone}
Waiting(e) == Listed(queue[e])

(* What was written comes before what the writer holds, that before what   *)
(* waits in its queue, and that before what is yet to be carried over.     *)
Flow(e) ==
    /\ Before(Written(e), Holding(e)) /\ Before(Holding(e), Waiting(e))
    /\ Before(Written(e), Waiting(e)) /\ Sorted(queue[e])

Carried(o, n) ==
    /\ Sorted(queue[o]) /\ Before(Written(o), Waiting(o))
    /\ Before(Waiting(n), Waiting(o))

Streams ==
    /\ \A e \in Entries : Sorted(out[e])
    /\ \A e \in 1..made : Last(e) => Flow(e)
    /\ \A o, n \in Entries :
          op.at = "carry" /\ o = op.old /\ n = op.new => Carried(o, n)

QueueInv ==
    /\ StrandInv /\ Ownership /\ Numbered
    /\ Chains /\ Unheld /\ Homes /\ Once /\ Streams
-----------------------------------------------------------------------------
(* Facts about the operators.                                              *)

(* A clone is a triple; the empty hand is none.                            *)
LEMMA CloneFacts ==
    /\ NoClone \notin Clones
    /\ \A k \in Clones : /\ k[1] \in Callers /\ k[2] \in 1..MaxPackets
                         /\ k[3] \in Entries
<1>1. \A k \in Clones : DOMAIN k = 1..3
  BY DEF Clones
<1>2. DOMAIN NoClone = {} /\ 1 \in 1..3
  BY DEF NoClone
<1>3. NoClone \notin Clones
  BY <1>1, <1>2
<1> QED
  BY <1>3 DEF Clones

(* What a call is after GoOn.                                              *)
LEMMA GoOnFacts ==
    ASSUME made \in Nat, CallTypes, NEW c \in Callers, NEW rest \in SUBSET (1..made),
           GoOn(c, rest)
    PROVE  /\ call' \in [Callers -> CallStates(made)]
           /\ run' \in {"new", "live", "cancelled", "ended"}
           /\ call'[c].todo = rest /\ call'[c].clone = NoClone
           /\ call'[c].at \in {"idle", "next"}
           /\ call'[c].at = "idle" => call'[c] = Idle
           /\ call'[c].at = "next" => rest # {}
           /\ \A d \in Callers \ {c} : call'[d] = call[d]
<1> DEFINE v == IF rest = {} THEN Idle
                ELSE [Idle EXCEPT !.at = "next", !.todo = rest]
<1>1. call' = [call EXCEPT ![c] = v] /\ call \in [Callers -> CallStates(made)]
  BY DEF GoOn, CallTypes
<1>2. run' \in {"new", "live", "cancelled", "ended"}
  BY DEF GoOn, CallTypes
<1>m. 0 \in 0..made
  OBVIOUS
<1>3. /\ v \in CallStates(made) /\ v.todo = rest /\ v.clone = NoClone
      /\ v.at \in {"idle", "next"} /\ (v.at = "idle" => v = Idle)
      /\ (v.at = "next" => rest # {})
  <2>1. CASE rest = {}
    BY <1>m, <2>1 DEF CallStates, Idle, None
  <2>2. CASE rest # {}
    <3>1. v = [at |-> "next", todo |-> rest, entry |-> 0, clone |-> NoClone]
      BY <2>2 DEF Idle, None
    <3> QED
      BY <1>m, <2>2, <3>1 DEF CallStates
  <2> QED
    BY <2>1, <2>2
<1> HIDE DEF v
<1>4. call'[c] = v /\ \A d \in Callers \ {c} : call'[d] = call[d]
  BY <1>1
<1> QED
  BY <1>1, <1>2, <1>3, <1>4

(* The first packet of a queue and the others, and a packet behind them.   *)
LEMMA TailFacts ==
    ASSUME NEW q \in Seq(Clones), q # <<>>
    PROVE  /\ Head(q) \in Clones /\ Tail(q) \in Seq(Clones)
           /\ Head(q) = q[1] /\ 1 \in DOMAIN q
           /\ \A i \in DOMAIN Tail(q) :
                 i + 1 \in DOMAIN q /\ i \in Nat /\ Tail(q)[i] = q[i + 1]
           /\ \A i \in DOMAIN q : i # 1 => i - 1 \in DOMAIN Tail(q)
<1>1. Len(q) \in Nat /\ DOMAIN q = 1..Len(q) /\ Len(q) # 0
  BY EmptySeq
<1>2. /\ Tail(q) \in Seq(Clones) /\ Len(Tail(q)) = Len(q) - 1
      /\ \A i \in 1..Len(Tail(q)) : Tail(q)[i] = q[i + 1]
      /\ Head(q) = q[1]
  BY HeadTailProperties
<1>3. DOMAIN Tail(q) = 1..(Len(q) - 1)
  BY <1>2
<1> QED
  BY <1>1, <1>2, <1>3

LEMMA AppendFacts ==
    ASSUME NEW q \in Seq(Clones), NEW s \in Clones
    PROVE  /\ Append(q, s) \in Seq(Clones)
           /\ Len(q) \in Nat /\ DOMAIN q = 1..Len(q)
           /\ DOMAIN Append(q, s) = 1..(Len(q) + 1)
           /\ \A i \in DOMAIN q : Append(q, s)[i] = q[i]
           /\ Append(q, s)[Len(q) + 1] = s
  BY AppendProperties

(* Where the clones of a queue go when it is read from and written to.     *)
LEMMA ListedTail ==
    ASSUME NEW q \in Seq(Clones), q # <<>>, Distinct(q)
    PROVE  /\ Listed(Tail(q)) = Listed(q) \ {Head(q)} /\ Head(q) \in Listed(q)
           /\ Distinct(Tail(q))
<1> USE TailFacts DEF Listed, Distinct
<1>0. DOMAIN q \subseteq Nat
  OBVIOUS
<1>1. ASSUME NEW k \in Listed(Tail(q)) PROVE k \in Listed(q) /\ k # Head(q)
  <2>1. PICK i \in DOMAIN Tail(q) : k = Tail(q)[i]
    OBVIOUS
  <2>2. i + 1 \in DOMAIN q /\ k = q[i + 1] /\ i + 1 # 1
    BY <2>1, <1>0
  <2> QED
    BY <2>2
<1>2. ASSUME NEW k \in Listed(q), k # Head(q) PROVE k \in Listed(Tail(q))
  <2>1. PICK i \in DOMAIN q : k = q[i]
    OBVIOUS
  <2>2. i - 1 \in DOMAIN Tail(q) /\ i \in Nat
    BY <2>1, <1>2, <1>0
  <2>3. Tail(q)[i - 1] = q[i - 1 + 1] /\ i - 1 + 1 = i
    BY <2>2
  <2> QED
    BY <2>1, <2>2, <2>3
<1>3. Listed(Tail(q)) = Listed(q) \ {Head(q)}
  BY <1>1, <1>2
<1>4. Distinct(Tail(q))
  OBVIOUS
<1> QED
  BY <1>3, <1>4

LEMMA ListedAppend ==
    ASSUME NEW q \in Seq(Clones), NEW s \in Clones
    PROVE  /\ Listed(Append(q, s)) = Listed(q) \cup {s}
           /\ Distinct(q) /\ s \notin Listed(q) => Distinct(Append(q, s))
<1> USE AppendFacts DEF Listed, Distinct
<1>1. \A i \in DOMAIN Append(q, s) : i \in DOMAIN q \/ i = Len(q) + 1
  OBVIOUS
<1>2. DOMAIN q \subseteq DOMAIN Append(q, s) /\ Len(q) + 1 \in DOMAIN Append(q, s)
  OBVIOUS
<1>3. Listed(Append(q, s)) \subseteq Listed(q) \cup {s}
  BY <1>1
<1>4. Listed(q) \cup {s} \subseteq Listed(Append(q, s))
  BY <1>2
<1>5. Distinct(q) /\ s \notin Listed(q) => Distinct(Append(q, s))
  BY <1>1
<1> QED
  BY <1>3, <1>4, <1>5

(* The order of a queue that is read from and written to.                  *)
LEMMA SortedTail ==
    ASSUME NEW q \in Seq(Clones), q # <<>>, Sorted(q)
    PROVE  Sorted(Tail(q)) /\ Before({Head(q)}, Listed(Tail(q)))
<1> USE TailFacts DEF Sorted, Before, Listed
<1>0. DOMAIN q \subseteq Nat
  OBVIOUS
<1>1. ASSUME NEW i \in DOMAIN Tail(q), NEW j \in DOMAIN Tail(q), i < j
      PROVE  Earlier(Tail(q)[i], Tail(q)[j])
  <2>1. i + 1 \in DOMAIN q /\ j + 1 \in DOMAIN q /\ i + 1 < j + 1
    BY <1>1
  <2> QED
    BY <2>1
<1>2. ASSUME NEW j \in DOMAIN Tail(q) PROVE Earlier(Head(q), Tail(q)[j])
  <2>1. j + 1 \in DOMAIN q /\ 1 \in DOMAIN q /\ 1 < j + 1
    BY <1>0, <1>2
  <2> QED
    BY <2>1
<1> QED
  BY <1>1, <1>2

LEMMA SortedAppend ==
    ASSUME NEW q \in Seq(Clones), NEW s \in Clones, Sorted(q), Before(Listed(q), {s})
    PROVE  Sorted(Append(q, s))
<1> USE AppendFacts DEF Sorted, Before, Listed
<1>1. \A i \in DOMAIN Append(q, s) : i \in DOMAIN q \/ i = Len(q) + 1
  OBVIOUS
<1> QED
  BY <1>1
-----------------------------------------------------------------------------
(* The types.                                                              *)

(* More entries may be made: what was of the types stays of them.          *)
LEMMA Widen ==
    ASSUME NEW m \in Nat
    PROVE  /\ CallStates(m) \subseteq CallStates(m + 1)
           /\ OpStates(m) \subseteq OpStates(m + 1)
           /\ 1..m \subseteq 1..(m + 1) /\ 0..m \subseteq 0..(m + 1)
<1>1. 1..m \subseteq 1..(m + 1) /\ 0..m \subseteq 0..(m + 1)
  OBVIOUS
<1>2. CallStates(m) \subseteq CallStates(m + 1)
  BY <1>1 DEF CallStates
<1>3. OpStates(m) \subseteq OpStates(m + 1)
  BY <1>1 DEF OpStates
<1> QED
  BY <1>1, <1>2, <1>3

(* Current entries have been made, and those made are entries.             *)
LEMMA MadeFacts ==
    ASSUME MapTypes
    PROVE  /\ made \in Nat /\ 1..made \subseteq Entries /\ Current \subseteq 1..made
           /\ \A e \in 1..made : e # None /\ e \in Nat
           /\ made < MaxEntries => made + 1 \in Entries
<1>1. made \in Nat /\ MaxEntries \in Nat /\ made <= MaxEntries
  BY QueueAssumption DEF MapTypes
<1>2. Current \subseteq 1..made
  BY <1>1 DEF MapTypes, Current, None
<1> QED
  BY <1>1, <1>2 DEF Entries, None

(* Cancel is of the type of writer and cancels what is live.               *)
LEMMA CancelFacts ==
    ASSUME MapTypes, NEW es
    PROVE  /\ Cancel(es) \in [Entries -> {"none", "live", "cancelled", "done"}]
           /\ \A e \in Entries :
                 /\ e \notin es \/ writer[e] # "live" => Cancel(es)[e] = writer[e]
                 /\ e \in es /\ writer[e] = "live" => Cancel(es)[e] = "cancelled"
                 /\ Cancel(es)[e] = "live" => writer[e] = "live"
                 /\ Cancel(es)[e] = "none" <=> writer[e] = "none"
                 /\ Cancel(es)[e] = "done" <=> writer[e] = "done"
                 /\ Cancel(es)[e] \in {"live", "cancelled"} <=>
                       writer[e] \in {"live", "cancelled"}
  BY DEF MapTypes, Cancel

(* The steps of the holder of lifecycleMu that leave the map alone keep    *)
(* the types.                                                              *)
LEMMA OpTypeStep ==
    ASSUME MapTypes, NEW o \in OpStates(made),
           op' = o, UNCHANGED mapVars,
           writer' = writer \/ \E es : writer' = Cancel(es),
           late' \in [Entries -> SUBSET Callers]
    PROVE  MapTypes'
<1>1. writer' \in [Entries -> {"none", "live", "cancelled", "done"}]
  BY CancelFacts DEF MapTypes
<1>2. UNCHANGED <<made, subscribers, owner, egress>>
  BY DEF mapVars
<1> QED
  BY <1>1, <1>2 DEF MapTypes

(* Every step keeps the types of the entries.                              *)
LEMMA MapTypeStep ==
    ASSUME MapTypes, Rebuild, [Next]_vars
    PROVE  MapTypes'
<1>t. /\ made \in Nat /\ made <= MaxEntries /\ MaxEntries \in Nat
      /\ subscribers \in [Subs -> 0..made]
      /\ DOMAIN owner = Entries /\ \A e \in 1..made : owner[e] \in Subs
      /\ egress \in [Entries -> Entries] /\ \A e \in Entries : egress[e] <= e
      /\ writer \in [Entries -> {"none", "live", "cancelled", "done"}]
      /\ late \in [Entries -> SUBSET Callers]
      /\ op \in OpStates(made) /\ 0 \in 0..made
  BY QueueAssumption DEF MapTypes
<1>m. /\ 1..made \subseteq Entries /\ Current \subseteq 1..made
      /\ \A e \in 1..made : e # None /\ e \in Nat
      /\ made < MaxEntries => made + 1 \in Entries
  BY MadeFacts
<1>o. op.todo \subseteq 1..made /\ op.old \in 0..made /\ op.new \in 0..made
  BY <1>t DEF OpStates
<1>1. ASSUME UNCHANGED <<mapVars, writer, late, op>> PROVE MapTypes'
  BY <1>1 DEF MapTypes, mapVars
<1>2. ASSUME NEW e \in Entries, WriterExits(e) PROVE MapTypes'
  <2>1. writer' \in [Entries -> {"none", "live", "cancelled", "done"}]
    BY <1>2, <1>t DEF WriterExits
  <2>2. UNCHANGED <<made, subscribers, owner, egress, late, op>>
    BY <1>2 DEF WriterExits, mapVars
  <2> QED
    BY <2>1, <2>2 DEF MapTypes
<1>3. ASSUME NEW p \in Subs, AddSubscriber(p) PROVE MapTypes'
  <2> DEFINE n == made + 1
  <2>1. /\ n \in Entries /\ made' = n /\ n \in 0..MaxEntries
        /\ subscribers' = [subscribers EXCEPT ![p] = n]
        /\ owner' = [owner EXCEPT ![n] = p]
        /\ writer' = [writer EXCEPT ![n] = "live"]
        /\ UNCHANGED <<egress, op, late>>
    BY <1>3, <1>t, <1>m DEF AddSubscriber
  <2>2. subscribers' \in [Subs -> 0..n]
    BY <2>1, <1>t, Widen
  <2>3. DOMAIN owner' = Entries /\ \A e \in 1..n : owner'[e] \in Subs
    <3>1. \A e \in 1..n : e = n \/ e \in 1..made
      BY <1>t
    <3> QED
      BY <2>1, <1>t, <1>m, <3>1
  <2>4. op \in OpStates(n)
    BY <1>t, Widen
  <2>5. writer' \in [Entries -> {"none", "live", "cancelled", "done"}]
    BY <2>1, <1>t
  <2> QED
    BY <2>1, <2>2, <2>3, <2>4, <2>5, <1>t DEF MapTypes
<1>4. ASSUME NEW p \in Subs, RemoveSubscriber(p) PROVE MapTypes'
  <2>1. subscribers' \in [Subs -> 0..made]
    BY <1>4, <1>t DEF RemoveSubscriber, None
  <2>2. writer' \in [Entries -> {"none", "live", "cancelled", "done"}]
    BY <1>4, CancelFacts DEF RemoveSubscriber
  <2>3. late' \in [Entries -> SUBSET Callers]
    BY <1>4, <1>t DEF RemoveSubscriber, Holders
  <2>4. UNCHANGED <<made, owner, egress, op>>
    BY <1>4 DEF RemoveSubscriber
  <2> QED
    BY <2>1, <2>2, <2>3, <2>4 DEF MapTypes
<1>5. CASE StopBegin
  <2>1. subscribers' \in [Subs -> 0..made]
    BY <1>5, <1>t DEF StopBegin, None
  <2>2. late' \in [Entries -> SUBSET Callers]
    BY <1>5, <1>t DEF StopBegin, Holders
  <2>3. op' \in OpStates(made)
    BY <1>5, <1>t, <1>m DEF StopBegin, Free, OpStates, None
  <2>4. UNCHANGED <<made, owner, egress, writer>>
    BY <1>5 DEF StopBegin
  <2> QED
    BY <2>1, <2>2, <2>3, <2>4 DEF MapTypes
<1>6. CASE StopCancel
  <2>1. op' \in OpStates(made)
    BY <1>6, <1>t DEF StopCancel, OpStates
  <2> QED
    BY <1>6, <2>1, <1>t, OpTypeStep DEF StopCancel
<1>7. CASE StopEnd \/ UpdateEnd
  <2>1. op' \in OpStates(made)
    BY <1>7, <1>t DEF StopEnd, UpdateEnd, OpStates, Free, None
  <2> QED
    BY <1>7, <2>1, <1>t, OpTypeStep DEF StopEnd, UpdateEnd
<1>8. ASSUME NEW es \in SUBSET Current, UpdateBegin(es) PROVE MapTypes'
  <2>1. op' \in OpStates(made)
    BY <1>8, <1>t, <1>m DEF UpdateBegin, OpStates, Free, None, Updating
  <2> QED
    BY <1>8, <2>1, <1>t, OpTypeStep DEF UpdateBegin
<1>9. CASE UpdateSwap
  <2>1. op' \in OpStates(made)
    BY <1>9, <1>t DEF UpdateSwap, OpStates, Updating
  <2> QED
    BY <1>9, <2>1, <1>t, OpTypeStep DEF UpdateSwap
<1>10. ASSUME NEW e \in Entries, ReconcileStop(e) PROVE MapTypes'
  <2>0. e \in 0..made
    BY <1>10, <1>o, <1>t DEF ReconcileStop
  <2>1. op' \in OpStates(made)
    BY <1>10, <1>t, <2>0 DEF ReconcileStop, OpStates, Updating
  <2> QED
    BY <1>10, <2>1, <1>t, OpTypeStep DEF ReconcileStop
<1>11. CASE ReconcileDelete
  <2>1. op' \in OpStates(made)
    BY <1>11, <1>t DEF ReconcileDelete, OpStates, Updating
  <2>2. subscribers' \in [Subs -> 0..made]
    BY <1>11, <1>t DEF ReconcileDelete, None
  <2>3. late' \in [Entries -> SUBSET Callers]
    BY <1>11, <1>t DEF ReconcileDelete, Holders
  <2>4. UNCHANGED <<made, owner, egress, writer>>
    BY <1>11 DEF ReconcileDelete
  <2> QED
    BY <2>1, <2>2, <2>3, <2>4 DEF MapTypes
<1>12. CASE ReconcileSwap
  <2> DEFINE n == made + 1
  <2>0. UNCHANGED <<subscribers, writer>> /\ op.old \in 1..made
    BY <1>12, <1>o, <1>t DEF ReconcileSwap, Rebuild, Replacing, None
  <2>1. CASE /\ made < MaxEntries /\ made' = n
             /\ op' = [op EXCEPT !.at = "carry", !.new = n]
             /\ owner' = [owner EXCEPT ![n] = owner[op.old]]
             /\ egress' = [egress EXCEPT ![n] = egress[op.old]]
             /\ UNCHANGED late
    <3>1. n \in Entries /\ n \in 0..MaxEntries /\ n \in 0..n
      BY <2>1, <1>t, <1>m
    <3>2. subscribers \in [Subs -> 0..n] /\ op \in OpStates(n)
      BY <1>t, Widen
    <3>3. op' \in OpStates(n)
      BY <2>1, <3>1, <3>2 DEF OpStates, Updating
    <3>4. DOMAIN owner' = Entries /\ \A e \in 1..n : owner'[e] \in Subs
      <4>1. \A e \in 1..n : e = n \/ e \in 1..made
        BY <1>t
      <4> QED
        BY <2>0, <2>1, <1>t, <1>m, <3>1, <4>1
    <3>5. egress' \in [Entries -> Entries] /\ \A e \in Entries : egress'[e] <= e
      <4>1. op.old \in Entries /\ egress[op.old] <= op.old /\ egress[op.old] \in Entries
        BY <2>0, <1>t, <1>m
      <4>2. egress[op.old] <= n
        BY <2>0, <4>1, <1>t DEF Entries
      <4> QED
        BY <2>1, <1>t, <3>1, <4>1, <4>2
    <3> QED
      BY <2>0, <2>1, <3>1, <3>2, <3>3, <3>4, <3>5, <1>t DEF MapTypes
  <2>2. CASE /\ op' = [op EXCEPT !.at = "reconcile"]
             /\ late' = [late EXCEPT ![op.old] = Callers]
             /\ UNCHANGED <<made, owner, egress>>
    <3>1. op' \in OpStates(made)
      BY <2>2, <1>t DEF OpStates, Updating
    <3>2. late' \in [Entries -> SUBSET Callers]
      BY <2>2, <1>t
    <3> QED
      BY <2>0, <2>2, <3>1, <3>2, <1>t DEF MapTypes
  <2> QED
    BY <1>12, <2>1, <2>2 DEF ReconcileSwap
<1>13. CASE ReconcileInsert
  <2>1. op' \in OpStates(made)
    BY <1>13, <1>t DEF ReconcileInsert, OpStates, Updating
  <2>2. subscribers' \in [Subs -> 0..made]
    BY <1>13, <1>t, <1>o DEF ReconcileInsert
  <2>3. writer' \in [Entries -> {"none", "live", "cancelled", "done"}]
    BY <1>13, <1>t DEF ReconcileInsert
  <2>4. UNCHANGED <<made, owner, egress, late>>
    BY <1>13 DEF ReconcileInsert
  <2> QED
    BY <2>1, <2>2, <2>3, <2>4 DEF MapTypes
<1>14. ASSUME NEW c \in Callers, Snapshot(c) \/ CallStep(c) PROVE MapTypes'
  BY <1>14, <1>1 DEF Snapshot, CallStep, Enqueue, CheckFull, ClonePacket
<1>15. ASSUME NEW e \in Entries, Take(e) \/ WriteOut(e) PROVE MapTypes'
  BY <1>15, <1>1 DEF Take, WriteOut
<1>16. CASE RunLeaves \/ Start \/ Carry
  BY <1>16, <1>1 DEF RunLeaves, Start, Carry
<1>17. CASE UNCHANGED vars
  BY <1>17, <1>1 DEF vars
<1> QED
  BY <1>2, <1>3, <1>4, <1>5, <1>6, <1>7, <1>8, <1>9, <1>10, <1>11, <1>12, <1>13,
     <1>14, <1>15, <1>16, <1>17, Zenon DEF Next, WriterStep
(* The steps that move packets, and what the others leave alone.           *)
Moves ==
    \/ \E c \in Callers : Snapshot(c) \/ Enqueue(c)
    \/ \E c \in Callers, e \in Entries : CheckFull(c, e) \/ ClonePacket(c, e)
    \/ \E e \in Entries : Take(e) \/ WriteOut(e)
    \/ Carry

LEMMA Frames ==
    ASSUME [Next]_vars
    PROVE  \/ Moves /\ UNCHANGED <<mapVars, writer, op, late>>
           \/ UNCHANGED <<queue, hand, poolVars, callVars, out>>
<1> DEFINE Goal == \/ Moves /\ UNCHANGED <<mapVars, writer, op, late>>
                   \/ UNCHANGED <<queue, hand, poolVars, callVars, out>>
<1>1. ASSUME NEW c \in Callers, Snapshot(c) \/ CallStep(c) PROVE Goal
  BY <1>1 DEF Moves, Snapshot, CallStep, Enqueue, CheckFull, ClonePacket
<1>2. ASSUME NEW e \in Entries, WriterStep(e) \/ ReconcileStop(e) PROVE Goal
  BY <1>2 DEF Moves, WriterStep, Take, WriteOut, WriterExits, ReconcileStop
<1>3. ASSUME NEW p \in Subs, AddSubscriber(p) \/ RemoveSubscriber(p) PROVE Goal
  BY <1>3 DEF AddSubscriber, RemoveSubscriber
<1>4. ASSUME NEW es \in SUBSET Current, UpdateBegin(es) PROVE Goal
  BY <1>4 DEF UpdateBegin
<1>5. CASE RunLeaves \/ Start \/ StopBegin \/ StopCancel \/ StopEnd
  BY <1>5 DEF RunLeaves, Start, StopBegin, StopCancel, StopEnd
<1>6. CASE UpdateSwap \/ ReconcileDelete \/ ReconcileSwap
  BY <1>6 DEF UpdateSwap, ReconcileDelete, ReconcileSwap
<1>7. CASE ReconcileInsert \/ UpdateEnd \/ Carry
  BY <1>7 DEF ReconcileInsert, UpdateEnd, Carry, Moves
<1>8. CASE UNCHANGED vars
  BY <1>8 DEF vars
<1> QED
  BY <1>1, <1>2, <1>3, <1>4, <1>5, <1>6, <1>7, <1>8, Zenon DEF Next

(* What a call that sends has in its hands.                                *)
LEMMA SentClone ==
    ASSUME MapTypes, CallTypes, CallShape, NEW c \in Callers, call[c].at = "send"
    PROVE  /\ call[c].entry \in 1..made /\ call[c].entry \in call[c].todo
           /\ call[c].todo \subseteq 1..made
           /\ call[c].clone = <<c, count[c], call[c].entry>>
           /\ call[c].clone \in Clones
<1>1. /\ call[c].todo \subseteq 1..made /\ call[c].entry \in call[c].todo
      /\ call[c].clone = <<c, count[c], call[c].entry>> /\ count[c] # 0
  BY DEF CallTypes, CallStates, CallShape
<1>2. count[c] \in 1..MaxPackets
  BY <1>1, QueueAssumption DEF CallTypes
<1>3. call[c].entry \in Entries
  BY <1>1, MadeFacts
<1> QED
  BY <1>1, <1>2, <1>3 DEF Clones

(* The entry that is being replaced, and the one that replaces it.         *)
LEMMA ReplacingFacts ==
    ASSUME MapTypes, Rebuild, op.at \in Replacing
    PROVE  /\ op.old \in 1..made /\ op.old \in Entries /\ op.todo \subseteq 1..made
           /\ op.at = "carry" => /\ op.new \in 1..made /\ op.new \in Entries
                                 /\ op.new # op.old
<1>1. op.old \in 0..made /\ op.new \in 0..made /\ op.todo \subseteq 1..made
  BY DEF MapTypes, OpStates
<1>2. op.old \in 1..made /\ (op.at = "carry" => op.new \in 1..made /\ op.new # op.old)
  BY <1>1, MadeFacts DEF Rebuild, None
<1> QED
  BY <1>1, <1>2, MadeFacts

(* Every step keeps the types of the packets.                              *)
LEMMA PacketTypeStep ==
    ASSUME MapTypes, PacketTypes, CallTypes, CallShape, Rebuild, [Next]_vars
    PROVE  PacketTypes'
<1>t. /\ queue \in [Entries -> Seq(Clones)] /\ out \in [Entries -> Seq(Clones)]
      /\ hand \in [Entries -> Clones \cup {NoClone}]
      /\ cloned \subseteq Clones /\ pool \subseteq Clones
  BY DEF PacketTypes
<1>1. CASE UNCHANGED <<queue, hand, poolVars, callVars, out>>
  BY <1>1, <1>t DEF PacketTypes, poolVars
<1>2. ASSUME NEW c \in Callers, Snapshot(c) \/ \E e \in Entries : CheckFull(c, e)
      PROVE  PacketTypes'
  BY <1>2, <1>t DEF PacketTypes, poolVars, Snapshot, CheckFull
<1>3. ASSUME NEW c \in Callers, NEW e \in Entries, ClonePacket(c, e)
      PROVE  PacketTypes'
  <2>1. count[c] \in 1..MaxPackets
    BY <1>3, QueueAssumption DEF ClonePacket, CallTypes, CallShape
  <2>2. <<c, count[c], e>> \in Clones
    BY <2>1 DEF Clones
  <2>3. cloned' = cloned \cup {<<c, count[c], e>>} /\ UNCHANGED <<queue, hand, pool, out>>
    BY <1>3 DEF ClonePacket
  <2> QED
    BY <1>t, <2>2, <2>3 DEF PacketTypes
<1>4. ASSUME NEW c \in Callers, Enqueue(c) PROVE PacketTypes'
  <2> DEFINE e == call[c].entry
             s == call[c].clone
  <2>1. s \in Clones
    BY <1>4, SentClone DEF Enqueue
  <2>2. Append(queue[e], s) \in Seq(Clones) \/ e \notin Entries
    BY <2>1, <1>t, AppendFacts
  <2>3. queue' \in [Entries -> Seq(Clones)]
    BY <1>4, <1>t, <2>2 DEF Enqueue
  <2>4. pool' \subseteq Clones
    BY <1>4, <1>t, <2>1 DEF Enqueue
  <2>5. UNCHANGED <<hand, cloned, out>>
    BY <1>4 DEF Enqueue
  <2> QED
    BY <1>t, <2>3, <2>4, <2>5 DEF PacketTypes
<1>5. ASSUME NEW e \in Entries, Take(e) PROVE PacketTypes'
  <2>1. Head(queue[e]) \in Clones /\ Tail(queue[e]) \in Seq(Clones)
    BY <1>5, <1>t, TailFacts DEF Take
  <2>2. hand' = [hand EXCEPT ![e] = Head(queue[e])] /\ UNCHANGED <<out, cloned, pool>>
    BY <1>5 DEF Take, poolVars
  <2>3. queue' = [queue EXCEPT ![e] = Tail(queue[e])]
    BY <1>5 DEF Take
  <2> QED
    BY <1>t, <2>1, <2>2, <2>3 DEF PacketTypes
<1>6. ASSUME NEW e \in Entries, WriteOut(e) PROVE PacketTypes'
  <2> DEFINE s == hand[e]
  <2>1. s \in Clones
    BY <1>6, <1>t DEF WriteOut
  <2>2. egress[e] \in Entries
    BY DEF MapTypes
  <2>3. out' = [out EXCEPT ![egress[e]] = Append(out[egress[e]], s)]
    BY <1>6 DEF WriteOut
  <2>4. out' \in [Entries -> Seq(Clones)]
    BY <2>1, <2>2, <2>3, <1>t, AppendFacts
  <2>5. hand' \in [Entries -> Clones \cup {NoClone}]
    BY <1>6, <1>t DEF WriteOut
  <2>6. pool' = pool \cup {s} /\ UNCHANGED <<queue, cloned>>
    BY <1>6 DEF WriteOut
  <2> QED
    BY <1>t, <2>1, <2>4, <2>5, <2>6 DEF PacketTypes
<1>7. CASE Carry
  <2> DEFINE o == op.old
             n == op.new
             s == Head(queue[o])
  <2>0. UNCHANGED <<hand, cloned, out>>
    BY <1>7 DEF Carry
  <2>1. o \in Entries /\ n \in Entries /\ o # n
    BY <1>7, ReplacingFacts DEF Carry, Replacing
  <2>2. s \in Clones /\ Tail(queue[o]) \in Seq(Clones)
    BY <1>7, <2>1, <1>t, TailFacts DEF Carry
  <2>3. pool' \subseteq Clones
    BY <1>7, <2>2, <1>t DEF Carry
  <2>4. Append(queue[n], s) \in Seq(Clones)
    BY <2>1, <2>2, <1>t, AppendFacts
  <2>5. \/ queue' = [queue EXCEPT ![o] = Tail(queue[o])]
        \/ queue' = [queue EXCEPT ![o] = Tail(queue[o]), ![n] = Append(queue[n], s)]
    BY <1>7, <2>1 DEF Carry
  <2>6. queue' \in [Entries -> Seq(Clones)]
    BY <2>2, <2>4, <2>5, <1>t
  <2> QED
    BY <2>0, <2>3, <2>6, <1>t DEF PacketTypes
<1> QED
  BY <1>1, <1>2, <1>3, <1>4, <1>5, <1>6, <1>7, Frames, Zenon DEF Moves

(* Entries are only added.                                                 *)
LEMMA MadeGrows ==
    ASSUME MapTypes, [Next]_vars
    PROVE  made' = made \/ made' = made + 1
<1> USE DEF mapVars
<1>1. ASSUME NEW c \in Callers, Snapshot(c) \/ CallStep(c) PROVE made' = made
  BY <1>1 DEF Snapshot, CallStep, Enqueue, CheckFull, ClonePacket
<1>2. ASSUME NEW e \in Entries, WriterStep(e) \/ ReconcileStop(e) PROVE made' = made
  BY <1>2 DEF WriterStep, Take, WriteOut, WriterExits, ReconcileStop
<1>3. ASSUME NEW p \in Subs, AddSubscriber(p) \/ RemoveSubscriber(p)
      PROVE  made' = made \/ made' = made + 1
  BY <1>3 DEF AddSubscriber, RemoveSubscriber
<1>4. ASSUME NEW es \in SUBSET Current, UpdateBegin(es) PROVE made' = made
  BY <1>4 DEF UpdateBegin
<1>5. CASE RunLeaves \/ Start \/ StopBegin \/ StopCancel \/ StopEnd
  BY <1>5 DEF RunLeaves, Start, StopBegin, StopCancel, StopEnd
<1>6. CASE UpdateSwap \/ ReconcileDelete \/ ReconcileSwap
  BY <1>6 DEF UpdateSwap, ReconcileDelete, ReconcileSwap
<1>7. CASE ReconcileInsert \/ UpdateEnd \/ Carry
  BY <1>7 DEF ReconcileInsert, UpdateEnd, Carry
<1>8. CASE UNCHANGED vars
  BY <1>8 DEF vars
<1> QED
  BY <1>1, <1>2, <1>3, <1>4, <1>5, <1>6, <1>7, <1>8, Zenon DEF Next

(* Every step keeps the states of the run goroutine.                       *)
LEMMA RunTypeStep ==
    ASSUME CallTypes, [Next]_vars
    PROVE  run' \in {"new", "live", "cancelled", "ended"}
<1>t. run \in {"new", "live", "cancelled", "ended"}
  BY DEF CallTypes
<1> DEFINE Goal == run' \in {"new", "live", "cancelled", "ended"}
<1>1. ASSUME NEW c \in Callers, Snapshot(c) \/ CallStep(c) PROVE Goal
  BY <1>1, <1>t DEF Snapshot, CallStep, Enqueue, CheckFull, ClonePacket, GoOn
<1>2. ASSUME NEW e \in Entries, WriterStep(e) \/ ReconcileStop(e) PROVE Goal
  BY <1>2, <1>t DEF WriterStep, Take, WriteOut, WriterExits, ReconcileStop
<1>3. ASSUME NEW p \in Subs, AddSubscriber(p) \/ RemoveSubscriber(p) PROVE Goal
  BY <1>3, <1>t DEF AddSubscriber, RemoveSubscriber
<1>4. ASSUME NEW es \in SUBSET Current, UpdateBegin(es) PROVE Goal
  BY <1>4, <1>t DEF UpdateBegin, CancelRun
<1>5. CASE RunLeaves \/ Start \/ StopBegin \/ StopCancel \/ StopEnd
  BY <1>5, <1>t DEF RunLeaves, Start, StopBegin, CancelRun, StopCancel, StopEnd
<1>6. CASE UpdateSwap \/ ReconcileDelete \/ ReconcileSwap
  BY <1>6, <1>t DEF UpdateSwap, ReconcileDelete, ReconcileSwap
<1>7. CASE ReconcileInsert \/ UpdateEnd \/ Carry
  BY <1>7, <1>t DEF ReconcileInsert, UpdateEnd, Carry
<1>8. CASE UNCHANGED vars
  BY <1>8, <1>t DEF vars
<1> QED
  BY <1>1, <1>2, <1>3, <1>4, <1>5, <1>6, <1>7, <1>8, Zenon DEF Next

(* Every step keeps the types of the calls.                                *)
LEMMA CallTypeStep ==
    ASSUME MapTypes, CallTypes, CallShape, [Next]_vars
    PROVE  CallTypes'
<1>t. /\ call \in [Callers -> CallStates(made)] /\ made \in Nat
      /\ count \in [Callers -> 0..MaxPackets] /\ MaxPackets \in Nat
      /\ run \in {"new", "live", "cancelled", "ended"}
  BY MadeFacts, QueueAssumption DEF CallTypes
<1>0. \A c \in Callers : call[c].todo \subseteq 1..made
  BY <1>t DEF CallStates
<1>1. CASE UNCHANGED <<queue, hand, poolVars, callVars, out>>
  <2>1. UNCHANGED <<call, count>>
    BY <1>1 DEF callVars
  <2>2. call \in [Callers -> CallStates(made')]
    BY <1>t, MadeGrows, Widen
  <2> QED
    BY <1>t, <2>1, <2>2, RunTypeStep DEF CallTypes
<1>2. ASSUME NEW c \in Callers, Snapshot(c) PROVE CallTypes'
  <2>1. call' \in [Callers -> CallStates(made)]
    BY <1>2, <1>t, MadeFacts, GoOnFacts DEF Snapshot
  <2>2. count' \in [Callers -> 0..MaxPackets] /\ made' = made
    BY <1>2, <1>t DEF Snapshot, mapVars
  <2> QED
    BY <2>1, <2>2, RunTypeStep DEF CallTypes
<1>3. ASSUME NEW c \in Callers, NEW e \in Entries, CheckFull(c, e) PROVE CallTypes'
  <2>0. call[c].todo \ {e} \in SUBSET (1..made)
    BY <1>0
  <2>1. call' \in [Callers -> CallStates(made)]
    BY <1>3, <1>t, <2>0, GoOnFacts DEF CheckFull
  <2>2. UNCHANGED <<count, made>>
    BY <1>3 DEF CheckFull, mapVars
  <2> QED
    BY <1>t, <2>1, <2>2, RunTypeStep DEF CallTypes
<1>4. ASSUME NEW c \in Callers, Enqueue(c) PROVE CallTypes'
  <2>0. call[c].todo \ {call[c].entry} \in SUBSET (1..made)
    BY <1>0
  <2>1. call' \in [Callers -> CallStates(made)]
    BY <1>4, <1>t, <2>0, GoOnFacts DEF Enqueue
  <2>2. UNCHANGED <<count, made>>
    BY <1>4 DEF Enqueue, mapVars
  <2> QED
    BY <1>t, <2>1, <2>2, RunTypeStep DEF CallTypes
<1>5. ASSUME NEW c \in Callers, NEW e \in Entries, ClonePacket(c, e) PROVE CallTypes'
  <2> DEFINE k == <<c, count[c], e>>
  <2>1. e \in 0..made /\ count[c] \in 1..MaxPackets
    BY <1>0, <1>5, <1>t DEF ClonePacket, CallShape
  <2>2. k \in Clones \cup {NoClone}
    BY <2>1 DEF Clones
  <2>3. /\ call' = [call EXCEPT ![c].at = "send", ![c].entry = e, ![c].clone = k]
        /\ UNCHANGED <<count, made>>
    BY <1>5 DEF ClonePacket, mapVars
  <2> HIDE DEF k
  <2>4. call' \in [Callers -> CallStates(made)]
    <3>1. call[c] \in CallStates(made) /\ call \in [Callers -> CallStates(made)]
      BY <1>t
    <3>2. [call[c] EXCEPT !.at = "send", !.entry = e, !.clone = k] \in CallStates(made)
      BY <2>1, <2>2, <3>1 DEF CallStates
    <3>3. call' = [call EXCEPT ![c] = [call[c] EXCEPT !.at = "send", !.entry = e, !.clone = k]]
      BY <2>3
    <3> QED
      BY <3>1, <3>2, <3>3
  <2> QED
    BY <1>t, <2>3, <2>4, RunTypeStep DEF CallTypes
<1>6. ASSUME NEW e \in Entries, Take(e) \/ WriteOut(e) PROVE CallTypes'
  BY <1>6, <1>t, RunTypeStep DEF Take, WriteOut, CallTypes, callVars, mapVars
<1>7. CASE Carry
  BY <1>7, <1>t, RunTypeStep DEF Carry, CallTypes, callVars, mapVars
<1> QED
  BY <1>1, <1>2, <1>3, <1>4, <1>5, <1>6, <1>7, Frames, Zenon DEF Moves
-----------------------------------------------------------------------------
(* Where packets may be left.                                              *)

(* A call that goes on holds no clone.                                     *)
LEMMA GoOnShape ==
    ASSUME MapTypes, CallTypes, CallShape, NEW c \in Callers,
           NEW rest \in SUBSET (1..made), GoOn(c, rest),
           count' \in [Callers -> Nat], count'[c] # 0,
           \A d \in Callers \ {c} : count'[d] = count[d]
    PROVE  CallShape'
<1>1. /\ call'[c].at \in {"idle", "next"} /\ call'[c].clone = NoClone
      /\ (call'[c].at = "idle" => call'[c] = Idle)
      /\ \A d \in Callers \ {c} : call'[d] = call[d]
  BY GoOnFacts, MadeFacts
<1> SUFFICES ASSUME NEW d \in Callers PROVE CallShape!(d)'
  BY DEF CallShape
<1>2. CASE d = c
  BY <1>1, <1>2
<1>3. CASE d # c
  <2>1. call'[d] = call[d] /\ count'[d] = count[d]
    BY <1>1, <1>3
  <2> QED
    BY <2>1 DEF CallShape
<1> QED
  BY <1>2, <1>3

(* A call keeps its shape.                                                 *)
LEMMA CallShapeStep ==
    ASSUME MapTypes, CallTypes, CallTypes', CallShape, [Next]_vars
    PROVE  CallShape'
<1>t. /\ call \in [Callers -> CallStates(made)] /\ made \in Nat
      /\ count \in [Callers -> Nat] /\ count' \in [Callers -> Nat]
      /\ \A c \in Callers : call[c].todo \subseteq 1..made
  BY MadeFacts, QueueAssumption DEF CallTypes, CallStates
<1>1. ASSUME UNCHANGED <<call, count>> PROVE CallShape'
  BY <1>1 DEF CallShape
<1>2. ASSUME NEW c \in Callers, Snapshot(c) PROVE CallShape'
  <2>1. count'[c] # 0 /\ \A d \in Callers \ {c} : count'[d] = count[d]
    BY <1>2, <1>t DEF Snapshot
  <2>2. GoOn(c, Current) /\ Current \in SUBSET (1..made)
    BY <1>2, MadeFacts DEF Snapshot
  <2> QED
    BY <1>t, <2>1, <2>2, GoOnShape
<1>3. ASSUME NEW c \in Callers, NEW e \in Entries, CheckFull(c, e) PROVE CallShape'
  <2>1. count' = count /\ count[c] # 0
    BY <1>3 DEF CheckFull, CallShape
  <2>2. GoOn(c, call[c].todo \ {e}) /\ call[c].todo \ {e} \in SUBSET (1..made)
    BY <1>3, <1>t DEF CheckFull
  <2> QED
    BY <1>t, <2>1, <2>2, GoOnShape
<1>4. ASSUME NEW c \in Callers, Enqueue(c) PROVE CallShape'
  <2> DEFINE rest == call[c].todo \ {call[c].entry}
  <2>1. count' = count /\ count[c] # 0
    BY <1>4 DEF Enqueue, CallShape
  <2>2. GoOn(c, rest) /\ rest \in SUBSET (1..made)
    BY <1>4, <1>t DEF Enqueue
  <2> QED
    BY <1>t, <2>1, <2>2, GoOnShape
<1>5. ASSUME NEW c \in Callers, NEW e \in Entries, ClonePacket(c, e) PROVE CallShape'
  <2>1. count' = count /\ count[c] # 0 /\ e \in call[c].todo
    BY <1>5 DEF ClonePacket, CallShape
  <2>2. call' = [call EXCEPT ![c].at = "send", ![c].entry = e,
                             ![c].clone = <<c, count[c], e>>]
    BY <1>5 DEF ClonePacket
  <2>3. /\ call'[c].at = "send" /\ call'[c].entry = e /\ call'[c].todo = call[c].todo
        /\ call'[c].clone = <<c, count[c], e>>
        /\ \A d \in Callers \ {c} : call'[d] = call[d]
    BY <2>2, <1>t DEF CallStates
  <2> SUFFICES ASSUME NEW d \in Callers PROVE CallShape!(d)'
    BY DEF CallShape
  <2>4. CASE d = c
    BY <2>1, <2>3, <2>4
  <2>5. CASE d # c
    <3>1. call'[d] = call[d] /\ count'[d] = count[d]
      BY <2>1, <2>3, <2>5
    <3> QED
      BY <3>1 DEF CallShape
  <2> QED
    BY <2>4, <2>5
<1>6. ASSUME NEW e \in Entries, Take(e) \/ WriteOut(e) PROVE CallShape'
  BY <1>6, <1>1 DEF Take, WriteOut, callVars
<1>7. CASE Carry
  BY <1>7, <1>1 DEF Carry, callVars
<1>8. CASE UNCHANGED <<queue, hand, poolVars, callVars, out>>
  BY <1>8, <1>1 DEF callVars
<1> QED
  BY <1>2, <1>3, <1>4, <1>5, <1>6, <1>7, <1>8, Frames, Zenon DEF Moves

(* A run loop ends outside of its calls, or with its last one.             *)
LEMMA RunIdleStep ==
    ASSUME MapTypes, CallTypes, RunIdle, [Next]_vars
    PROVE  RunIdle'
<1>t. /\ call \in [Callers -> CallStates(made)] /\ made \in Nat /\ Run \in Callers
      /\ \A c \in Callers : call[c].todo \subseteq 1..made
  BY MadeFacts DEF CallTypes, CallStates, Callers
<1>1. ASSUME NEW c \in Callers, NEW rest, GoOn(c, rest),
             c = Run => run \in {"live", "cancelled"}
      PROVE  RunIdle'
  BY <1>1, <1>t DEF GoOn, RunIdle
<1>2. ASSUME NEW c \in Callers, call[c].at # "idle"
      PROVE  c = Run => run \in {"live", "cancelled"}
  BY <1>2 DEF RunIdle, Idle, CallTypes
<1>3. ASSUME NEW c \in Callers, Snapshot(c) PROVE RunIdle'
  BY <1>1, <1>3 DEF Snapshot
<1>4. ASSUME NEW c \in Callers, NEW e \in Entries, CheckFull(c, e) PROVE RunIdle'
  BY <1>1, <1>2, <1>4 DEF CheckFull
<1>5. ASSUME NEW c \in Callers, NEW e \in Entries, ClonePacket(c, e) PROVE RunIdle'
  BY <1>2, <1>5, <1>t DEF ClonePacket, RunIdle
<1>6. ASSUME NEW c \in Callers, Enqueue(c) PROVE RunIdle'
  BY <1>1, <1>2, <1>6 DEF Enqueue
<1>7. ASSUME call' = call, run' \in {run, "live"} PROVE RunIdle'
  BY <1>7 DEF RunIdle
<1>8. ASSUME call' = call, CancelRun PROVE RunIdle'
  BY <1>8 DEF CancelRun, RunIdle
<1>9. ASSUME NEW e \in Entries, WriterStep(e) \/ ReconcileStop(e) PROVE RunIdle'
  BY <1>9, <1>7 DEF WriterStep, Take, WriteOut, WriterExits, ReconcileStop, callVars
<1>10. ASSUME NEW p \in Subs, AddSubscriber(p) \/ RemoveSubscriber(p) PROVE RunIdle'
  BY <1>10, <1>7 DEF AddSubscriber, RemoveSubscriber, callVars
<1>11. CASE RunLeaves
  BY <1>11 DEF RunLeaves, RunIdle, callVars
<1>12. CASE Start \/ StopCancel \/ StopEnd \/ UpdateSwap \/ ReconcileDelete
  BY <1>12, <1>7 DEF Start, StopCancel, StopEnd, UpdateSwap, ReconcileDelete, callVars
<1>13. CASE ReconcileSwap \/ Carry \/ ReconcileInsert \/ UpdateEnd
  BY <1>13, <1>7 DEF ReconcileSwap, Carry, ReconcileInsert, UpdateEnd, callVars
<1>14. ASSUME NEW es, StopBegin \/ UpdateBegin(es) PROVE RunIdle'
  BY <1>14, <1>8 DEF StopBegin, UpdateBegin, callVars
<1>15. CASE UNCHANGED vars
  BY <1>15, <1>7 DEF vars, callVars
<1> QED
  BY <1>3, <1>4, <1>5, <1>6, <1>9, <1>10, <1>11, <1>12, <1>13, <1>14, <1>15, Zenon
     DEF Next, CallStep
(* An entry keeps its peer connection and its egress track.                *)
LEMMA EntriesKept ==
    ASSUME MapTypes, MapTypes', [Next]_vars
    PROVE  /\ \A e \in 1..made : owner'[e] = owner[e]
           /\ \A e \in Entries : e # made + 1 => egress'[e] = egress[e]
           /\ 1..made \subseteq 1..made'
           /\ \A e \in 1..made' : e \notin 1..made => e = made + 1 /\ made' = made + 1
<1>t. /\ made \in Nat /\ 1..made \subseteq Entries
      /\ DOMAIN owner = Entries /\ DOMAIN egress = Entries
  BY MadeFacts DEF MapTypes
<1>g. /\ 1..made \subseteq 1..made'
      /\ \A e \in 1..made' : e \notin 1..made => e = made + 1 /\ made' = made + 1
  BY <1>t, MadeGrows
<1> DEFINE Goal == /\ \A e \in 1..made : owner'[e] = owner[e]
                   /\ \A e \in Entries : e # made + 1 => egress'[e] = egress[e]
<1> SUFFICES Goal
  BY <1>g
<1>1. ASSUME UNCHANGED <<owner, egress>> PROVE Goal
  BY <1>1
<1>2. ASSUME NEW x, NEW y, owner' = [owner EXCEPT ![made + 1] = x],
             egress' = [egress EXCEPT ![made + 1] = y] \/ egress' = egress
      PROVE  Goal
  <2>1. \A e \in 1..made : e # made + 1
    BY <1>t
  <2> QED
    BY <1>2, <1>t, <2>1
<1>3. ASSUME NEW c \in Callers, Snapshot(c) \/ CallStep(c) PROVE Goal
  BY <1>3, <1>1 DEF Snapshot, CallStep, Enqueue, CheckFull, ClonePacket, mapVars
<1>4. ASSUME NEW e \in Entries, WriterStep(e) \/ ReconcileStop(e) PROVE Goal
  BY <1>4, <1>1 DEF WriterStep, Take, WriteOut, WriterExits, ReconcileStop, mapVars
<1>5. ASSUME NEW p \in Subs, AddSubscriber(p) PROVE Goal
  BY <1>5, <1>2 DEF AddSubscriber
<1>6. ASSUME NEW p \in Subs, RemoveSubscriber(p) PROVE Goal
  BY <1>6, <1>1 DEF RemoveSubscriber
<1>7. CASE RunLeaves \/ Start \/ StopBegin \/ StopCancel \/ StopEnd
  BY <1>7, <1>1 DEF RunLeaves, Start, StopBegin, StopCancel, StopEnd, mapVars
<1>8. CASE ReconcileSwap
  <2>1. \/ UNCHANGED <<owner, egress>>
        \/ /\ owner' = [owner EXCEPT ![made + 1] = owner[op.old]]
           /\ egress' = [egress EXCEPT ![made + 1] = egress[op.old]]
    BY <1>8 DEF ReconcileSwap
  <2>2. CASE UNCHANGED <<owner, egress>>
    BY <2>2, <1>1
  <2>3. CASE /\ owner' = [owner EXCEPT ![made + 1] = owner[op.old]]
             /\ egress' = [egress EXCEPT ![made + 1] = egress[op.old]]
    BY <2>3, <1>2, Zenon
  <2> QED
    BY <2>1, <2>2, <2>3
<1>9. ASSUME NEW es, UpdateBegin(es) \/ UpdateSwap \/ ReconcileDelete PROVE Goal
  BY <1>9, <1>1 DEF UpdateBegin, UpdateSwap, ReconcileDelete, mapVars
<1>10. CASE ReconcileInsert \/ UpdateEnd \/ Carry
  BY <1>10, <1>1 DEF ReconcileInsert, UpdateEnd, Carry, mapVars
<1>11. CASE UNCHANGED vars
  BY <1>11, <1>1 DEF vars, mapVars
<1> QED
  BY <1>3, <1>4, <1>5, <1>6, <1>7, <1>8, <1>9, <1>10, <1>11, Zenon DEF Next

(* ... and the others are given theirs when they are made.                 *)
LEMMA EgressKept ==
    ASSUME [Next]_vars, made' = made, MapTypes
    PROVE  egress' = egress
<1>t. made # made + 1
  BY MadeFacts
<1> USE DEF mapVars
<1>1. ASSUME NEW c \in Callers, Snapshot(c) \/ CallStep(c) PROVE egress' = egress
  BY <1>1 DEF Snapshot, CallStep, Enqueue, CheckFull, ClonePacket
<1>2. ASSUME NEW e \in Entries, WriterStep(e) \/ ReconcileStop(e)
      PROVE  egress' = egress
  BY <1>2 DEF WriterStep, Take, WriteOut, WriterExits, ReconcileStop
<1>3. ASSUME NEW p \in Subs, AddSubscriber(p) \/ RemoveSubscriber(p)
      PROVE  egress' = egress
  BY <1>3 DEF AddSubscriber, RemoveSubscriber
<1>4. ASSUME NEW es, UpdateBegin(es) \/ UpdateSwap \/ UpdateEnd \/ Carry
      PROVE  egress' = egress
  BY <1>4 DEF UpdateBegin, UpdateSwap, UpdateEnd, Carry
<1>5. CASE RunLeaves \/ Start \/ StopBegin \/ StopCancel \/ StopEnd
  BY <1>5 DEF RunLeaves, Start, StopBegin, StopCancel, StopEnd
<1>6. CASE ReconcileDelete \/ ReconcileSwap \/ ReconcileInsert
  BY <1>6, <1>t DEF ReconcileDelete, ReconcileSwap, ReconcileInsert
<1>7. CASE UNCHANGED vars
  BY <1>7 DEF vars
<1> QED
  BY <1>1, <1>2, <1>3, <1>4, <1>5, <1>6, <1>7, Zenon DEF Next

(* The life of a writer.  It begins when its entry enters the map, either  *)
(* as a new one or in the place of the one it was rebuilt from, and ends   *)
(* with an empty queue.                                                    *)
Begins(e) == /\ writer[e] = "none" /\ writer'[e] = "live"
             /\ \/ e = made + 1 /\ made' = made + 1 /\ UNCHANGED <<op, egress>>
                \/ op.at = "carry" /\ e = op.new /\ op'.at = "reconcile"
Ends(e)   == /\ writer[e] = "cancelled" /\ writer'[e] = "done"
             /\ hand[e] = NoClone /\ queue[e] = <<>>
             /\ UNCHANGED <<queue, op, late>>

LEMMA WriterLife ==
    ASSUME MapTypes, MapOwned, Rebuild, [Next]_vars, NEW e \in Entries
    PROVE  \/ writer'[e] = writer[e]
           \/ writer[e] = "live" /\ writer'[e] = "cancelled"
           \/ Begins(e) \/ Ends(e)
<1>t. /\ made \in Nat /\ DOMAIN writer = Entries
      /\ (made < MaxEntries => made + 1 \in Entries)
  BY MadeFacts DEF MapTypes
<1> DEFINE Goal == \/ writer'[e] = writer[e]
                   \/ writer[e] = "live" /\ writer'[e] = "cancelled"
                   \/ Begins(e) \/ Ends(e)
<1>1. ASSUME NEW es, writer' = Cancel(es) PROVE Goal
  BY <1>1, CancelFacts
<1>2. ASSUME NEW c \in Callers, Snapshot(c) \/ CallStep(c) PROVE Goal
  BY <1>2 DEF Snapshot, CallStep, Enqueue, CheckFull, ClonePacket
<1>3. ASSUME NEW f \in Entries, Take(f) \/ WriteOut(f) PROVE Goal
  BY <1>3 DEF Take, WriteOut
<1>4. ASSUME NEW f \in Entries, WriterExits(f) PROVE Goal
  BY <1>4, <1>t DEF WriterExits, Ends
<1>5. ASSUME NEW f \in Entries, ReconcileStop(f) PROVE Goal
  BY <1>5, <1>1 DEF ReconcileStop
<1>6. ASSUME NEW p \in Subs, AddSubscriber(p) PROVE Goal
  <2>1. /\ made + 1 \in Entries /\ made' = made + 1 /\ UNCHANGED <<op, egress>>
        /\ writer' = [writer EXCEPT ![made + 1] = "live"]
    BY <1>6, <1>t DEF AddSubscriber
  <2>2. writer[made + 1] = "none"
    BY <2>1, <1>t DEF MapOwned
  <2> QED
    BY <2>1, <2>2, <1>t DEF Begins
<1>7. ASSUME NEW p \in Subs, RemoveSubscriber(p) PROVE Goal
  BY <1>7, <1>1 DEF RemoveSubscriber
<1>8. CASE StopCancel
  BY <1>8, <1>1 DEF StopCancel
<1>9. CASE ReconcileInsert
  <2>1. writer' = writer \/ writer' = [writer EXCEPT ![op.new] = "live"]
    BY <1>9 DEF ReconcileInsert
  <2>2. op.at = "carry" /\ op'.at = "reconcile" /\ writer[op.new] = "none"
    BY <1>9 DEF ReconcileInsert, Rebuild, MapTypes, OpStates
  <2> QED
    BY <2>1, <2>2, <1>t DEF Begins
<1>10. CASE RunLeaves \/ Start \/ StopBegin \/ StopEnd \/ ReconcileSwap \/ ReconcileDelete
  BY <1>10 DEF RunLeaves, Start, StopBegin, StopEnd, ReconcileSwap, ReconcileDelete
<1>11. ASSUME NEW es, UpdateBegin(es) \/ UpdateSwap \/ UpdateEnd \/ Carry PROVE Goal
  BY <1>11 DEF UpdateBegin, UpdateSwap, UpdateEnd, Carry
<1>12. CASE UNCHANGED vars
  BY <1>12 DEF vars
<1> QED
  BY <1>2, <1>3, <1>4, <1>5, <1>6, <1>7, <1>8, <1>9, <1>10, <1>11, <1>12, Zenon
     DEF Next, WriterStep

(* What happens to the entry under a peer connection.                      *)
LEMMA MapMoves ==
    ASSUME MapTypes, Rebuild, [Next]_vars, NEW p \in Subs
    PROVE  \/ subscribers'[p] \in {None, subscribers[p]}
           \/ /\ subscribers'[p] = made + 1 /\ made' = made + 1
              /\ owner'[made + 1] = p /\ egress' = egress /\ op' = op
              /\ writer'[made + 1] = "live"
           \/ /\ op.at = "carry" /\ subscribers'[p] = op.new
              /\ p = owner[op.old] /\ op'.at = "reconcile"
              /\ writer'[op.new] = "live"
              /\ UNCHANGED <<made, owner, egress>>
<1>t. /\ made \in Nat /\ subscribers \in [Subs -> 0..made]
      /\ DOMAIN owner = Entries /\ DOMAIN writer = Entries /\ op \in OpStates(made)
      /\ (made < MaxEntries => made + 1 \in Entries)
  BY MadeFacts DEF MapTypes
<1> DEFINE Goal == \/ subscribers'[p] \in {None, subscribers[p]}
                   \/ /\ subscribers'[p] = made + 1 /\ made' = made + 1
                      /\ owner'[made + 1] = p /\ egress' = egress /\ op' = op
                      /\ writer'[made + 1] = "live"
                   \/ /\ op.at = "carry" /\ subscribers'[p] = op.new
                      /\ p = owner[op.old] /\ op'.at = "reconcile"
                      /\ writer'[op.new] = "live"
                      /\ UNCHANGED <<made, owner, egress>>
<1>1. ASSUME subscribers' = subscribers PROVE Goal
  BY <1>1
<1>2. ASSUME NEW c \in Callers, Snapshot(c) \/ CallStep(c) PROVE Goal
  BY <1>2, <1>1 DEF Snapshot, CallStep, Enqueue, CheckFull, ClonePacket, mapVars
<1>3. ASSUME NEW f \in Entries, WriterStep(f) \/ ReconcileStop(f) PROVE Goal
  BY <1>3, <1>1 DEF WriterStep, Take, WriteOut, WriterExits, ReconcileStop, mapVars
<1>4. ASSUME NEW q \in Subs, AddSubscriber(q) PROVE Goal
  BY <1>4, <1>t DEF AddSubscriber
<1>5. ASSUME NEW q \in Subs, RemoveSubscriber(q) PROVE Goal
  BY <1>5, <1>t DEF RemoveSubscriber
<1>6. CASE StopBegin
  BY <1>6 DEF StopBegin
<1>7. CASE ReconcileDelete
  BY <1>7, <1>t DEF ReconcileDelete
<1>8. CASE ReconcileInsert
  <2>1. op.new \in Entries
    BY <1>8, ReplacingFacts DEF ReconcileInsert, Replacing
  <2> QED
    BY <1>8, <2>1, <1>t DEF ReconcileInsert, OpStates
<1>9. CASE RunLeaves \/ Start \/ StopCancel \/ StopEnd \/ ReconcileSwap
  BY <1>9, <1>1 DEF RunLeaves, Start, StopCancel, StopEnd, ReconcileSwap, mapVars
<1>10. ASSUME NEW es, UpdateBegin(es) \/ UpdateSwap \/ UpdateEnd \/ Carry PROVE Goal
  BY <1>10, <1>1 DEF UpdateBegin, UpdateSwap, UpdateEnd, Carry, mapVars
<1>11. CASE UNCHANGED vars
  BY <1>11, <1>1 DEF vars, mapVars
<1> QED
  BY <1>2, <1>3, <1>4, <1>5, <1>6, <1>7, <1>8, <1>9, <1>10, <1>11, Zenon DEF Next

(* Entries stay where they belong.                                         *)
LEMMA MapOwnedStep ==
    ASSUME MapTypes, MapTypes', PacketTypes, CallTypes, CallShape, MapOwned,
           Rebuild, [Next]_vars
    PROVE  MapOwned'
<1>t. /\ made \in Nat /\ 1..made \subseteq Entries
      /\ subscribers \in [Subs -> 0..made] /\ op \in OpStates(made)
      /\ queue \in [Entries -> Seq(Clones)] /\ DOMAIN hand = Entries
      /\ writer \in [Entries -> {"none", "live", "cancelled", "done"}]
  BY MadeFacts DEF MapTypes, PacketTypes
<1>1. ASSUME NEW p \in Subs, subscribers'[p] # None
      PROVE  owner'[subscribers'[p]] = p
  <2>1. CASE subscribers'[p] \in {None, subscribers[p]}
    <3>1. subscribers'[p] = subscribers[p] /\ subscribers[p] \in 1..made
      BY <1>1, <2>1, <1>t DEF None
    <3> QED
      BY <1>1, <3>1, EntriesKept DEF MapOwned
  <2>2. CASE subscribers'[p] = made + 1 /\ owner'[made + 1] = p
    BY <2>2
  <2>3. CASE /\ op.at = "carry" /\ subscribers'[p] = op.new
             /\ p = owner[op.old] /\ UNCHANGED owner
    BY <2>3 DEF Rebuild
  <2> QED
    BY <2>1, <2>2, <2>3, MapMoves
<1>2. ASSUME NEW e \in Entries, hand'[e] # NoClone
      PROVE  writer'[e] \in {"live", "cancelled"}
  <2>1. CASE hand[e] # NoClone
    <3>1. writer[e] \in {"live", "cancelled"}
      BY <2>1 DEF MapOwned
    <3> QED
      BY <3>1, <2>1, WriterLife DEF Begins, Ends
  <2>2. CASE hand[e] = NoClone
    <3>1. \E f \in Entries : Take(f) \/ WriteOut(f)
      BY <1>2, <2>2, Frames
         DEF Moves, Snapshot, Enqueue, CheckFull, ClonePacket, Carry
    <3>2. PICK f \in Entries : Take(f) \/ WriteOut(f)
      BY <3>1
    <3>3. hand'[e] = hand[e] \/ (e = f /\ Take(f)) \/ hand'[e] = NoClone
      BY <3>2, <1>t DEF Take, WriteOut
    <3> QED
      BY <1>2, <2>2, <3>3 DEF Take
  <2> QED
    BY <2>1, <2>2
<1>3. ASSUME NEW e \in Entries, e > made'
      PROVE  writer'[e] = "none" /\ queue'[e] = <<>> /\ egress'[e] = e
  <2>0. e > made /\ e \notin 1..made /\ e # made' /\ e \in Nat
    BY <1>3, <1>t, MadeGrows DEF Entries
  <2>1. writer[e] = "none" /\ queue[e] = <<>> /\ egress[e] = e
    BY <2>0 DEF MapOwned
  <2>2. writer'[e] = "none"
    <3>1. op.at = "carry" => op.new # e
      BY <2>0, ReplacingFacts DEF Replacing
    <3>2. ~Begins(e)
      BY <3>1, <2>0 DEF Begins
    <3> QED
      BY <2>1, <3>2, WriterLife DEF Ends
  <2>3. queue'[e] = queue[e]
    <3>1. CASE UNCHANGED queue
      BY <3>1
    <3>2. ASSUME NEW c \in Callers, Enqueue(c) PROVE queue'[e] = queue[e]
      BY <3>2, <2>0, <1>t, SentClone DEF Enqueue
    <3>3. ASSUME NEW f \in Entries, Take(f) PROVE queue'[e] = queue[e]
      BY <3>3, <2>1, <1>t DEF Take
    <3>4. CASE Carry
      <4>1. op.old # e /\ op.new # e
        BY <3>4, <2>0, ReplacingFacts DEF Carry, Replacing
      <4> QED
        BY <3>4, <4>1, <1>t DEF Carry
    <3> QED
      BY <3>1, <3>2, <3>3, <3>4, Frames
         DEF Moves, Snapshot, CheckFull, ClonePacket, WriteOut
  <2>4. egress'[e] = egress[e]
    <3>1. CASE e # made + 1
      BY <3>1, EntriesKept
    <3>2. CASE e = made + 1
      <4>1. made' = made
        BY <3>2, <2>0, MadeGrows
      <4> QED
        BY <4>1, EgressKept
    <3> QED
      BY <3>1, <3>2
  <2> QED
    BY <2>1, <2>2, <2>3, <2>4
<1> QED
  BY <1>1, <1>2, <1>3 DEF MapOwned

(* The steps of the holder of lifecycleMu.                                 *)
OpStep ==
    \/ StopBegin \/ StopCancel \/ StopEnd
    \/ \E es \in SUBSET Current : UpdateBegin(es)
    \/ UpdateSwap \/ UpdateEnd
    \/ \E e \in Entries : ReconcileStop(e)
    \/ ReconcileDelete \/ ReconcileSwap \/ ReconcileInsert

LEMMA OpSteps == ASSUME [Next]_vars PROVE OpStep \/ op' = op
<1>1. ASSUME NEW c \in Callers, Snapshot(c) \/ CallStep(c) PROVE op' = op
  BY <1>1 DEF Snapshot, CallStep, Enqueue, CheckFull, ClonePacket
<1>2. ASSUME NEW e \in Entries, WriterStep(e) PROVE op' = op
  BY <1>2 DEF WriterStep, Take, WriteOut, WriterExits
<1>3. ASSUME NEW p \in Subs, AddSubscriber(p) \/ RemoveSubscriber(p) PROVE op' = op
  BY <1>3 DEF AddSubscriber, RemoveSubscriber
<1>4. CASE RunLeaves \/ Start \/ Carry
  BY <1>4 DEF RunLeaves, Start, Carry
<1>5. CASE UNCHANGED vars
  BY <1>5 DEF vars
<1> QED
  BY <1>1, <1>2, <1>3, <1>4, <1>5, Zenon DEF Next, OpStep

(* reconcileSubscriber's knowledge stays true.                             *)
LEMMA RebuildStep ==
    ASSUME MapTypes, MapTypes', MapOwned, Rebuild, [Next]_vars
    PROVE  Rebuild'
<1>t. /\ made \in Nat /\ op \in OpStates(made) /\ 1..made \subseteq Entries
      /\ DOMAIN owner = Entries /\ DOMAIN egress = Entries
      /\ (made < MaxEntries => made + 1 \in Entries)
  BY MadeFacts DEF MapTypes
<1>o. op.at \in Replacing =>
          /\ op.old \in 1..made
          /\ op.at = "carry" => op.new \in 1..made /\ op.new # op.old
  BY ReplacingFacts
<1>k. /\ \A e \in 1..made : owner'[e] = owner[e]
      /\ \A e \in 1..made : egress'[e] = egress[e]
  BY EntriesKept, <1>t
<1>1. CASE op' = op
  <2>1. op.at \in {"swap", "carry"} => writer'[op.old] = "done"
    <3> HAVE op.at \in {"swap", "carry"}
    <3>1. op.old \in Entries /\ writer[op.old] = "done"
      BY <1>o, <1>t DEF Rebuild, Replacing
    <3> QED
      BY <3>1, WriterLife DEF Begins, Ends
  <2>2. op.at = "carry" => writer'[op.new] = "none"
    <3> HAVE op.at = "carry"
    <3>1. op.new \in Entries /\ op.new \in 1..made /\ writer[op.new] = "none"
      BY <1>o, <1>t DEF Rebuild, Replacing
    <3>2. ~Begins(op.new)
      BY <3>1, <1>t, <1>1 DEF Begins
    <3> QED
      BY <3>1, <3>2, WriterLife DEF Ends
  <2>3. op.at = "carry" => owner'[op.new] = owner'[op.old] /\ egress'[op.new] = egress'[op.old]
    BY <1>o, <1>k DEF Rebuild, Replacing
  <2> QED
    BY <1>1, <2>1, <2>2, <2>3 DEF Rebuild, Replacing
<1>2. ASSUME op'.at \notin Replacing PROVE Rebuild'
  BY <1>2 DEF Rebuild, Replacing
<1>3. ASSUME NEW e \in Entries, ReconcileStop(e) PROVE Rebuild'
  <2>1. op'.at = "join" /\ op'.old = e
    BY <1>3, <1>t DEF ReconcileStop, OpStates
  <2> QED
    BY <2>1 DEF Rebuild, Entries, None
<1>4. CASE ReconcileDelete
  <2>1. op'.at = "swap" /\ op'.old = op.old /\ writer' = writer
    BY <1>4, <1>t DEF ReconcileDelete, OpStates
  <2> QED
    BY <1>4, <2>1 DEF Rebuild, ReconcileDelete, Replacing
<1>5. CASE ReconcileSwap
  <2>1. CASE op'.at # "carry"
    BY <1>5, <2>1, <1>2, <1>t DEF ReconcileSwap, OpStates, Replacing
  <2>2. CASE op'.at = "carry"
    <3> DEFINE n == made + 1
    <3>1. /\ made < MaxEntries /\ op' = [op EXCEPT !.at = "carry", !.new = n]
          /\ owner' = [owner EXCEPT ![n] = owner[op.old]]
          /\ egress' = [egress EXCEPT ![n] = egress[op.old]]
          /\ writer' = writer /\ op.at = "swap"
      BY <1>5, <2>2, <1>t DEF ReconcileSwap, OpStates
    <3>2. op'.new = n /\ op'.old = op.old
      BY <3>1, <1>t DEF OpStates
    <3>3. n \in Entries /\ n # 0 /\ op.old \in 1..made /\ op.old # n /\ n > made
      BY <3>1, <1>t, <1>o DEF Replacing
    <3>4. writer[n] = "none" /\ writer[op.old] = "done" /\ op.old # None
      BY <3>1, <3>3 DEF MapOwned, Rebuild, Replacing
    <3>5. /\ owner'[n] = owner'[op.old] /\ egress'[n] = egress'[op.old]
      BY <3>1, <3>3, <1>t, <1>k
    <3> HIDE DEF n
    <3> QED
      BY <2>2, <3>1, <3>2, <3>3, <3>4, <3>5 DEF Rebuild, None
  <2> QED
    BY <2>1, <2>2
<1>6. CASE StopBegin \/ StopCancel \/ StopEnd \/ UpdateEnd \/ UpdateSwap
  <2>1. CASE StopBegin
    BY <2>1, <1>2 DEF StopBegin, Replacing, Free
  <2>2. CASE StopEnd \/ UpdateEnd
    BY <2>2, <1>2 DEF StopEnd, UpdateEnd, Replacing, Free
  <2>3. CASE StopCancel
    BY <2>3, <1>2, <1>t DEF StopCancel, OpStates, Replacing
  <2>4. CASE UpdateSwap
    BY <2>4, <1>2, <1>t DEF UpdateSwap, OpStates, Replacing
  <2> QED
    BY <1>6, <2>1, <2>2, <2>3, <2>4
<1>7. ASSUME NEW es, UpdateBegin(es) PROVE Rebuild'
  BY <1>7, <1>2 DEF UpdateBegin, Free, Replacing
<1>8. CASE ReconcileInsert
  BY <1>8, <1>2, <1>t DEF ReconcileInsert, OpStates, Replacing
<1> QED
  BY <1>1, <1>3, <1>4, <1>5, <1>6, <1>7, <1>8, OpSteps, Zenon DEF OpStep

(* An entry that has left the map is not served by later calls ...         *)
LEMMA HoldersShrink ==
    ASSUME MapTypes, CallTypes, CallShape, [Next]_vars, NEW e
    PROVE  e \notin Current => Holders(e)' \subseteq Holders(e)
<1> SUFFICES ASSUME e \notin Current, NEW c \in Callers, e \in call'[c].todo
             PROVE  e \in call[c].todo
  BY DEF Holders
<1>t. /\ made \in Nat /\ call \in [Callers -> CallStates(made)]
      /\ Current \in SUBSET (1..made)
      /\ \A d \in Callers : call[d].todo \subseteq 1..made
  BY MadeFacts DEF CallTypes, CallStates
<1>1. CASE UNCHANGED call
  BY <1>1
<1>2. ASSUME NEW d \in Callers, NEW rest \in SUBSET (1..made), GoOn(d, rest),
             e \in rest => e \in call[d].todo
      PROVE  e \in call[c].todo
  <2>1. call'[d].todo = rest /\ \A b \in Callers \ {d} : call'[b] = call[b]
    BY <1>2, <1>t, GoOnFacts
  <2>2. CASE c = d
    BY <2>1, <2>2, <1>2
  <2>3. CASE c # d
    BY <2>1, <2>3
  <2> QED
    BY <2>2, <2>3
<1>3. ASSUME NEW d \in Callers, Snapshot(d) PROVE e \in call[c].todo
  BY <1>2, <1>3, <1>t DEF Snapshot
<1>4. ASSUME NEW d \in Callers, NEW f \in Entries, CheckFull(d, f)
      PROVE  e \in call[c].todo
  <2>1. GoOn(d, call[d].todo \ {f}) /\ call[d].todo \ {f} \in SUBSET (1..made)
    BY <1>4, <1>t DEF CheckFull
  <2> QED
    BY <1>2, <2>1
<1>5. ASSUME NEW d \in Callers, Enqueue(d) PROVE e \in call[c].todo
  <2> DEFINE rest == call[d].todo \ {call[d].entry}
  <2>1. GoOn(d, rest) /\ rest \in SUBSET (1..made)
    BY <1>5, <1>t DEF Enqueue
  <2> QED
    BY <1>2, <2>1
<1>6. ASSUME NEW d \in Callers, NEW f \in Entries, ClonePacket(d, f)
      PROVE  e \in call[c].todo
  BY <1>6, <1>t DEF ClonePacket, CallStates
<1> QED
  BY <1>1, <1>3, <1>4, <1>5, <1>6, Frames
     DEF Moves, callVars, Take, WriteOut, Carry

(* ... those who had it stay counted ...                                   *)
LEMMA LateGrows ==
    ASSUME MapTypes, [Next]_vars, NEW e \in Entries, e \notin Current
    PROVE  late[e] \subseteq late'[e]
<1>t. /\ late \in [Entries -> SUBSET Callers] /\ made \in Nat
      /\ subscribers \in [Subs -> 0..made]
  BY MadeFacts DEF MapTypes
<1> DEFINE Goal == late[e] \subseteq late'[e]
<1>1. ASSUME NEW c \in Callers, Snapshot(c) \/ CallStep(c) PROVE Goal
  BY <1>1 DEF Snapshot, CallStep, Enqueue, CheckFull, ClonePacket
<1>2. ASSUME NEW f \in Entries, WriterStep(f) \/ ReconcileStop(f) PROVE Goal
  BY <1>2 DEF WriterStep, Take, WriteOut, WriterExits, ReconcileStop
<1>3. ASSUME NEW p \in Subs, AddSubscriber(p) PROVE Goal
  BY <1>3 DEF AddSubscriber
<1>4. ASSUME NEW p \in Subs, RemoveSubscriber(p) PROVE Goal
  <2>1. subscribers[p] # e
    BY <1>4 DEF RemoveSubscriber, Current
  <2> QED
    BY <1>4, <2>1, <1>t DEF RemoveSubscriber
<1>5. CASE StopBegin
  BY <1>5, <1>t DEF StopBegin
<1>6. CASE ReconcileDelete
  BY <1>6, <1>t DEF ReconcileDelete
<1>7. CASE ReconcileSwap
  BY <1>7, <1>t DEF ReconcileSwap
<1>8. CASE RunLeaves \/ Start \/ StopCancel \/ StopEnd
  BY <1>8 DEF RunLeaves, Start, StopCancel, StopEnd
<1>9. ASSUME NEW es, UpdateBegin(es) \/ UpdateSwap PROVE Goal
  BY <1>9 DEF UpdateBegin, UpdateSwap
<1>10. CASE ReconcileInsert \/ UpdateEnd \/ Carry
  BY <1>10 DEF ReconcileInsert, UpdateEnd, Carry
<1>11. CASE UNCHANGED vars
  BY <1>11 DEF vars
<1> QED
  BY <1>1, <1>2, <1>3, <1>4, <1>5, <1>6, <1>7, <1>8, <1>9, <1>10, <1>11, Zenon DEF Next

(* ... and it comes back only in the place of the one it was rebuilt from. *)
LEMMA CurrentGrows ==
    ASSUME MapTypes, Rebuild, [Next]_vars, NEW e \in Current', e \notin Current
    PROVE  /\ writer'[e] = "live"
           /\ \/ e = made + 1 /\ made' = made + 1 /\ egress' = egress /\ op' = op
              \/ /\ op.at = "carry" /\ e = op.new /\ op'.at = "reconcile"
                 /\ UNCHANGED <<made, owner, egress>>
<1>1. PICK p \in Subs : subscribers'[p] = e /\ e # None
  BY DEF Current
<1>2. subscribers[p] # e
  BY <1>1 DEF Current
<1> QED
  BY <1>1, <1>2, MapMoves

LEMMA LeftStays ==
    ASSUME MapTypes, CallTypes, CallShape, MapOwned, Rebuild, [Next]_vars,
           NEW e \in Entries, Left(e), writer[e] # "none"
    PROVE  Left(e)'
<1>1. made \in Nat
  BY MadeFacts
<1>2. e # made + 1 /\ (op.at = "carry" => e # op.new)
  BY <1>1 DEF MapOwned, Rebuild
<1>3. e \notin Current'
  BY <1>2, CurrentGrows DEF Left
<1> QED
  BY <1>3, HoldersShrink, LateGrows DEF Left

(* A writer is cancelled by RemoveSubscriber, Stop or the replacement of   *)
(* its entry.                                                              *)
LEMMA Cancels ==
    ASSUME MapTypes, MapOwned, Rebuild, [Next]_vars, NEW e \in Entries,
           writer[e] = "live", writer'[e] # "live"
    PROVE  \/ \E p \in Subs : RemoveSubscriber(p) /\ subscribers[p] = e
           \/ StopCancel /\ e \in op.todo
           \/ ReconcileStop(e)
<1>t. /\ made \in Nat /\ DOMAIN writer = Entries
      /\ (made < MaxEntries => made + 1 \in Entries)
  BY MadeFacts DEF MapTypes
<1>c. ASSUME NEW es, writer' = Cancel(es) PROVE e \in es
  BY <1>c, CancelFacts
<1> DEFINE Goal == \/ \E p \in Subs : RemoveSubscriber(p) /\ subscribers[p] = e
                   \/ StopCancel /\ e \in op.todo
                   \/ ReconcileStop(e)
<1>1. ASSUME NEW c \in Callers, Snapshot(c) \/ CallStep(c) PROVE Goal
  BY <1>1 DEF Snapshot, CallStep, Enqueue, CheckFull, ClonePacket
<1>2. ASSUME NEW f \in Entries, WriterStep(f) PROVE Goal
  BY <1>2, <1>t DEF WriterStep, Take, WriteOut, WriterExits
<1>3. ASSUME NEW f \in Entries, ReconcileStop(f) PROVE Goal
  BY <1>3, <1>c DEF ReconcileStop
<1>4. ASSUME NEW p \in Subs, AddSubscriber(p) PROVE Goal
  BY <1>4, <1>t DEF AddSubscriber
<1>5. ASSUME NEW p \in Subs, RemoveSubscriber(p) PROVE Goal
  BY <1>5, <1>c DEF RemoveSubscriber
<1>6. CASE StopCancel
  BY <1>6, <1>c DEF StopCancel
<1>7. CASE ReconcileInsert
  BY <1>7, <1>t DEF ReconcileInsert
<1>8. CASE RunLeaves \/ Start \/ StopBegin \/ StopEnd \/ ReconcileSwap \/ ReconcileDelete
  BY <1>8 DEF RunLeaves, Start, StopBegin, StopEnd, ReconcileSwap, ReconcileDelete
<1>9. ASSUME NEW es, UpdateBegin(es) \/ UpdateSwap \/ UpdateEnd \/ Carry PROVE Goal
  BY <1>9 DEF UpdateBegin, UpdateSwap, UpdateEnd, Carry
<1>10. CASE UNCHANGED vars
  BY <1>10 DEF vars
<1> QED
  BY <1>1, <1>2, <1>3, <1>4, <1>5, <1>6, <1>7, <1>8, <1>9, <1>10, Zenon DEF Next

(* A writer that may end has left.                                         *)
LEMMA LeavingStep ==
    ASSUME MapTypes, MapTypes', CallTypes, CallShape, RunIdle, MapOwned, Rebuild,
           Leaving, [Next]_vars
    PROVE  Leaving'
<1>t. /\ made \in Nat /\ op \in OpStates(made) /\ 1..made \subseteq Entries
      /\ subscribers \in [Subs -> 0..made] /\ late \in [Entries -> SUBSET Callers]
      /\ writer \in [Entries -> {"none", "live", "cancelled", "done"}]
      /\ \A e \in 1..made : e # None /\ e # made + 1
      /\ Current \subseteq 1..made
  BY MadeFacts DEF MapTypes
<1>1. ASSUME NEW e \in Entries, writer'[e] \in {"cancelled", "done"},
             ~(op'.at = "join" /\ op'.old = e)
      PROVE  Left(e)'
  <2>1. CASE writer[e] \in {"cancelled", "done"} /\ ~(op.at = "join" /\ op.old = e)
    BY <2>1, LeftStays DEF Leaving
  <2>2. CASE op.at = "join" /\ op.old = e
    <3>1. op' # op
      BY <1>1, <2>2
    <3>2. ReconcileDelete
      <4>1. op # Free
        BY <2>2 DEF Free
      <4>2. ~(\E es \in SUBSET Current : UpdateBegin(es)) /\ ~StopBegin
        BY <4>1 DEF UpdateBegin, StopBegin
      <4>3. ~\E f \in Entries : ReconcileStop(f)
        BY <2>2 DEF ReconcileStop
      <4>4. ~(StopCancel \/ StopEnd \/ UpdateSwap \/ UpdateEnd)
        BY <2>2 DEF StopCancel, StopEnd, UpdateSwap, UpdateEnd
      <4>5. ~(ReconcileSwap \/ ReconcileInsert)
        BY <2>2 DEF ReconcileSwap, ReconcileInsert
      <4> QED
        BY <3>1, <4>2, <4>3, <4>4, <4>5, OpSteps DEF OpStep
    <3>3. /\ subscribers' = [subscribers EXCEPT ![owner[e]] = None]
          /\ late' = [late EXCEPT ![e] = @ \cup Holders(e)] /\ call' = call
      BY <3>2, <2>2 DEF ReconcileDelete, callVars
    <3>4. e # None
      BY <2>2 DEF Rebuild, Replacing
    <3>5. e \notin Current'
      <4> SUFFICES ASSUME NEW q \in Subs, subscribers'[q] = e PROVE FALSE
        BY DEF Current
      <4>1. subscribers[q] = e /\ q # owner[e]
        BY <3>3, <3>4, <1>t
      <4> QED
        BY <4>1, <3>4 DEF MapOwned
    <3>6. Holders(e)' \subseteq late'[e]
      BY <3>3, <1>t DEF Holders
    <3> QED
      BY <3>5, <3>6 DEF Left
  <2>3. CASE writer[e] = "live"
    <3>1. ASSUME NEW p \in Subs, RemoveSubscriber(p), subscribers[p] = e PROVE Left(e)'
      <4>1. /\ subscribers' = [subscribers EXCEPT ![p] = None] /\ e # None
            /\ late' = [late EXCEPT ![e] = Holders(e)] /\ call' = call
        BY <3>1 DEF RemoveSubscriber, callVars
      <4>2. e \notin Current'
        <5> SUFFICES ASSUME NEW q \in Subs, subscribers'[q] = e PROVE FALSE
          BY DEF Current
        <5>1. subscribers[q] = e /\ q # p
          BY <4>1, <1>t
        <5> QED
          BY <5>1, <4>1, <3>1 DEF MapOwned
      <4>3. Holders(e)' \subseteq late'[e]
        BY <4>1, <1>t DEF Holders
      <4> QED
        BY <4>2, <4>3 DEF Left
    <3>2. CASE StopCancel /\ e \in op.todo
      <4>1. e \notin Current /\ Holders(e) \ {Run} \subseteq late[e] /\ call[Run] = Idle
        BY <3>2 DEF StopCancel, Leaving, RunIdle
      <4>2. Run \notin Holders(e)
        BY <4>1 DEF Holders, Idle
      <4>3. UNCHANGED <<subscribers, call, late>>
        BY <3>2 DEF StopCancel, callVars, mapVars
      <4> QED
        BY <4>1, <4>2, <4>3 DEF Left, Current, Holders
    <3>3. ~ReconcileStop(e)
      BY <1>1, <1>t DEF ReconcileStop, OpStates
    <3> QED
      BY <3>1, <3>2, <3>3, <2>3, <1>1, Cancels
  <2>4. CASE writer[e] = "none"
    BY <2>4, <1>1, WriterLife DEF Begins, Ends
  <2> QED
    BY <2>1, <2>2, <2>3, <2>4, <1>t
<1>2. ASSUME op'.at = "stop", NEW e \in op'.todo
      PROVE  e \notin Current' /\ Holders(e)' \ {Run} \subseteq late'[e]
  <2>1. CASE op' = op
    <3>1. /\ op.at = "stop" /\ e \in op.todo /\ e \in 1..made /\ e \in Entries
          /\ e \notin Current /\ Holders(e) \ {Run} \subseteq late[e]
      BY <1>2, <2>1, <1>t DEF Leaving, OpStates
    <3>2. e \notin Current'
      BY <3>1, <1>t, CurrentGrows
    <3> QED
      BY <3>1, <3>2, HoldersShrink, LateGrows
  <2>2. CASE StopBegin
    <3>1. op' = [Free EXCEPT !.at = "stop", !.todo = Current] /\ call' = call
      BY <2>2 DEF StopBegin, callVars
    <3>2. e \in Current /\ e \in Entries /\ late'[e] = Holders(e) \ {Run}
      BY <2>2, <1>2, <3>1, <1>t DEF StopBegin, Free
    <3>3. Current' = {}
      BY <2>2 DEF StopBegin, Current
    <3> QED
      BY <3>1, <3>2, <3>3 DEF Holders
  <2>3. OpStep => StopBegin
    <3>1. ~(StopCancel \/ UpdateSwap \/ ReconcileDelete \/ ReconcileInsert)
      BY <1>2, <1>t
         DEF StopCancel, UpdateSwap, ReconcileDelete, ReconcileInsert, OpStates
    <3>2. ~(StopEnd \/ UpdateEnd)
      BY <1>2 DEF StopEnd, UpdateEnd, Free
    <3>3. ~ReconcileSwap
      BY <1>2, <1>t DEF ReconcileSwap, OpStates
    <3>4. ASSUME NEW f PROVE ~ReconcileStop(f)
      BY <1>2, <1>t DEF ReconcileStop, OpStates
    <3>5. ASSUME NEW es PROVE ~UpdateBegin(es)
      BY <1>2 DEF UpdateBegin, Free
    <3> QED
      BY <3>1, <3>2, <3>3, <3>4, <3>5 DEF OpStep
  <2> QED
    BY <2>1, <2>2, <2>3, OpSteps
<1> QED
  BY <1>1, <1>2 DEF Leaving

(* Packets are left behind by late callers only.                           *)
LEMMA StrandedStep ==
    ASSUME StrandInv, MapTypes', PacketTypes', Leaving', [Next]_vars
    PROVE  StrandedOnlyLate'
<1>i. /\ MapTypes /\ PacketTypes /\ CallTypes /\ CallShape /\ MapOwned /\ Rebuild
      /\ Leaving /\ StrandedOnlyLate
  BY DEF StrandInv
<1>t. /\ made \in Nat /\ op \in OpStates(made) /\ 1..made \subseteq Entries
      /\ queue \in [Entries -> Seq(Clones)] /\ queue' \in [Entries -> Seq(Clones)]
      /\ late \in [Entries -> SUBSET Callers]
      /\ writer \in [Entries -> {"none", "live", "cancelled", "done"}]
  BY <1>i, MadeFacts DEF MapTypes, PacketTypes
<1> DEFINE Excused(e) == op.at \in Replacing /\ op.old = e
<1> SUFFICES ASSUME NEW e \in Entries, writer'[e] = "done", ~Excused(e)',
                    NEW i \in DOMAIN queue'[e]
             PROVE  queue'[e][i][1] \in late'[e]
  BY DEF StrandedOnlyLate, Replacing
<1>1. queue'[e][i] \in Clones /\ queue'[e][i][1] \in Callers
  BY <1>t, CloneFacts
<1>l. Left(e)'
  BY DEF Leaving, Replacing
<1>2. CASE writer[e] # "done"
  <2>1. Ends(e)
    BY <1>i, <1>2, WriterLife DEF Begins
  <2>2. queue'[e] = <<>>
    BY <2>1 DEF Ends
  <2> QED
    BY <2>2
<1>3. CASE writer[e] = "done" /\ Excused(e)
(* The replacement is over: its queue was carried over, or given up.       *)
  <2>0. op' # op
    BY <1>3
  <2>1. CASE ReconcileSwap
    <3>1. op'.at # "carry"
      BY <1>3, <2>1, <1>t DEF ReconcileSwap, OpStates, Replacing
    <3>2. late' = [late EXCEPT ![e] = Callers]
      BY <1>3, <2>1, <3>1, <1>t DEF ReconcileSwap, OpStates
    <3> QED
      BY <1>1, <3>2, <1>t
  <2>2. CASE ReconcileInsert
    BY <1>3, <2>2 DEF ReconcileInsert
  <2>3. ~ReconcileDelete
    BY <1>3, <1>t DEF ReconcileDelete, Replacing, OpStates
  <2>4. ~OpStep \/ ReconcileSwap \/ ReconcileInsert \/ ReconcileDelete
    <3>1. op # Free
      BY <1>3 DEF Free, Replacing
    <3>2. ~(\E es \in SUBSET Current : UpdateBegin(es)) /\ ~StopBegin
      BY <3>1 DEF UpdateBegin, StopBegin
    <3>3. ~\E f \in Entries : ReconcileStop(f)
      BY <1>3 DEF ReconcileStop, Replacing
    <3>4. ~(StopCancel \/ StopEnd \/ UpdateSwap \/ UpdateEnd)
      BY <1>3 DEF StopCancel, StopEnd, UpdateSwap, UpdateEnd, Replacing
    <3> QED
      BY <3>2, <3>3, <3>4 DEF OpStep
  <2> QED
    BY <2>0, <2>1, <2>2, <2>3, <2>4, OpSteps
<1>4. CASE writer[e] = "done" /\ ~Excused(e)
  <2>1. Left(e) /\ \A j \in DOMAIN queue[e] : queue[e][j][1] \in late[e]
    BY <1>i, <1>4 DEF Leaving, StrandedOnlyLate, Replacing
  <2>2. late[e] \subseteq late'[e]
    BY <1>i, <2>1, LateGrows DEF Left
  <2>3. CASE queue'[e] = queue[e]
    BY <2>1, <2>2, <2>3
  <2>4. ASSUME NEW c \in Callers, Enqueue(c), queue'[e] # queue[e]
        PROVE  queue'[e][i][1] \in late'[e]
    <3> DEFINE s == call[c].clone
    <3>1. /\ call[c].at = "send" /\ call[c].entry = e
          /\ queue'[e] = Append(queue[e], s)
      BY <2>4, <1>t DEF Enqueue
    <3>2. s \in Clones /\ s = <<c, count[c], e>> /\ e \in call[c].todo
      BY <3>1, <1>i, SentClone
    <3>3. s[1] = c /\ c \in late[e]
      BY <3>2, <2>1 DEF Left, Holders
    <3>4. i \in DOMAIN queue[e] \/ i = Len(queue[e]) + 1
      BY <3>1, <3>2, <1>t, AppendFacts
    <3>5. CASE i \in DOMAIN queue[e]
      BY <3>1, <3>2, <3>5, <2>1, <2>2, <1>t, AppendFacts
    <3>6. CASE i = Len(queue[e]) + 1
      <4>1. queue'[e][i] = s
        BY <3>1, <3>2, <3>6, <1>t, AppendFacts
      <4> QED
        BY <4>1, <3>3, <2>2
    <3> QED
      BY <3>4, <3>5, <3>6
  <2>5. ASSUME NEW f \in Entries, Take(f) PROVE queue'[e] = queue[e]
    BY <2>5, <1>4, <1>t DEF Take
  <2>6. ASSUME Carry PROVE queue'[e] = queue[e]
    <3>1. e # op.old /\ e # op.new
      BY <2>6, <1>4, <1>i DEF Carry, Replacing, Rebuild
    <3> QED
      BY <2>6, <3>1, <1>t DEF Carry
  <2>7. \/ \E c \in Callers : Enqueue(c)
        \/ \E f \in Entries : Take(f)
        \/ Carry \/ queue' = queue
    BY Frames DEF Moves, Snapshot, CheckFull, ClonePacket, WriteOut
  <2> QED
    BY <2>3, <2>4, <2>5, <2>6, <2>7
<1> QED
  BY <1>2, <1>3, <1>4

(* The inductive invariant of the entries and their writers.               *)
LEMMA StrandStep ==
    ASSUME StrandInv, [Next]_vars
    PROVE  StrandInv'
<1>0. /\ MapTypes /\ PacketTypes /\ CallTypes /\ CallShape /\ RunIdle /\ MapOwned
      /\ Rebuild /\ Leaving
  BY DEF StrandInv
<1>1. MapTypes'
  BY <1>0, MapTypeStep
<1>2. PacketTypes' /\ CallTypes'
  BY <1>0, PacketTypeStep, CallTypeStep
<1>3. CallShape' /\ RunIdle'
  BY <1>0, <1>2, CallShapeStep, RunIdleStep
<1>4. MapOwned' /\ Rebuild'
  BY <1>0, <1>1, MapOwnedStep, RebuildStep
<1>5. Leaving'
  BY <1>0, <1>1, LeavingStep
<1>6. StrandedOnlyLate'
  BY <1>1, <1>2, <1>5, StrandedStep
<1> QED
  BY <1>1, <1>2, <1>3, <1>4, <1>5, <1>6 DEF StrandInv
-----------------------------------------------------------------------------
(* One owner.                                                              *)

(* A packet is cloned once for an entry.                                   *)
LEMMA NumberedStep ==
    ASSUME StrandInv, Numbered, [Next]_vars
    PROVE  Numbered'
<1>t. /\ made \in Nat /\ call \in [Callers -> CallStates(made)]
      /\ count \in [Callers -> Nat] /\ cloned \subseteq Clones
      /\ Current \in SUBSET (1..made)
      /\ \A c \in Callers : call[c].todo \subseteq 1..made
      /\ MapTypes /\ CallTypes /\ CallShape
  BY MadeFacts, QueueAssumption DEF StrandInv, CallTypes, CallStates, PacketTypes
<1>k. \A k \in cloned : k[1] \in Callers /\ k[2] \in Nat
  BY <1>t, CloneFacts
<1>1. ASSUME UNCHANGED <<call, count, cloned>> PROVE Numbered'
  BY <1>1 DEF Numbered
<1>2. ASSUME NEW c \in Callers, NEW rest \in SUBSET call[c].todo, GoOn(c, rest),
             UNCHANGED <<count, cloned>>,
             \A e \in rest : ~(call[c].at = "send" /\ call[c].entry = e)
      PROVE  Numbered'
  <2>1. call'[c].todo = rest /\ \A d \in Callers \ {c} : call'[d] = call[d]
    <3>1. rest \in SUBSET (1..made)
      BY <1>t
    <3> QED
      BY <1>2, <1>t, <3>1, GoOnFacts
  <2>2. ASSUME NEW d \in Callers, NEW e \in call'[d].todo, <<d, count[d], e>> \in cloned
        PROVE  call'[d].at = "send" /\ call'[d].entry = e
    <3>1. CASE d = c
      BY <2>1, <2>2, <3>1, <1>2 DEF Numbered
    <3>2. CASE d # c
      BY <2>1, <2>2, <3>2 DEF Numbered
    <3> QED
      BY <3>1, <3>2
  <2> QED
    BY <1>2, <2>2 DEF Numbered
<1>3. ASSUME NEW c \in Callers, Snapshot(c) PROVE Numbered'
  <2>1. /\ count'[c] = count[c] + 1 /\ \A d \in Callers \ {c} : count'[d] = count[d]
        /\ cloned' = cloned
    BY <1>3, <1>t DEF Snapshot, poolVars
  <2>2. \A d \in Callers \ {c} : call'[d] = call[d]
    BY <1>3, <1>t, GoOnFacts DEF Snapshot
  <2>3. \A k \in cloned : k[2] <= count[k[1]] /\ count[k[1]] \in Nat
    BY <1>k, <1>t DEF Numbered
  <2>4. \A k \in cloned : k[2] <= count'[k[1]]
    BY <2>1, <2>3, <1>k
  <2>5. ASSUME NEW d \in Callers, NEW e \in call'[d].todo, <<d, count'[d], e>> \in cloned
        PROVE  call'[d].at = "send" /\ call'[d].entry = e
    <3>1. CASE d = c
      <4>1. count'[d] <= count[d]
        BY <2>3, <2>5
      <4> QED
        BY <4>1, <3>1, <2>1, <1>t
    <3>2. CASE d # c
      BY <2>1, <2>2, <2>5, <3>2 DEF Numbered
    <3> QED
      BY <3>1, <3>2
  <2> QED
    BY <2>1, <2>4, <2>5 DEF Numbered
<1>4. ASSUME NEW c \in Callers, NEW e \in Entries, CheckFull(c, e) PROVE Numbered'
  <2>1. /\ GoOn(c, call[c].todo \ {e}) /\ call[c].at = "next"
        /\ UNCHANGED <<count, cloned>>
    BY <1>4 DEF CheckFull, poolVars
  <2> QED
    BY <1>2, <2>1
<1>5. ASSUME NEW c \in Callers, Enqueue(c) PROVE Numbered'
  <2>1. GoOn(c, call[c].todo \ {call[c].entry}) /\ UNCHANGED <<count, cloned>>
    BY <1>5 DEF Enqueue
  <2> QED
    BY <1>2, <2>1
<1>6. ASSUME NEW c \in Callers, NEW e \in Entries, ClonePacket(c, e) PROVE Numbered'
  <2> DEFINE k == <<c, count[c], e>>
  <2>1. /\ call[c].at = "next" /\ cloned' = cloned \cup {k} /\ count' = count
        /\ call' = [call EXCEPT ![c].at = "send", ![c].entry = e, ![c].clone = k]
    BY <1>6 DEF ClonePacket
  <2>2. /\ call'[c].at = "send" /\ call'[c].entry = e /\ call'[c].todo = call[c].todo
        /\ \A d \in Callers \ {c} : call'[d] = call[d]
    BY <2>1, <1>t DEF CallStates
  <2>3. \A j \in cloned' : j[2] <= count'[j[1]]
    BY <2>1, <1>t DEF Numbered
  <2>4. ASSUME NEW d \in Callers, NEW f \in call'[d].todo, <<d, count[d], f>> \in cloned'
        PROVE  call'[d].at = "send" /\ call'[d].entry = f
    <3>1. CASE d = c
      <4>1. <<d, count[d], f>> \notin cloned
        BY <2>1, <2>2, <2>4, <3>1 DEF Numbered
      <4>2. f = e
        BY <2>1, <2>4, <4>1
      <4> QED
        BY <3>1, <4>2, <2>2
    <3>2. CASE d # c
      <4>1. <<d, count[d], f>> \in cloned
        BY <2>1, <2>4, <3>2
      <4> QED
        BY <2>2, <2>4, <3>2, <4>1 DEF Numbered
    <3> QED
      BY <3>1, <3>2
  <2> QED
    BY <2>1, <2>3, <2>4 DEF Numbered
<1>7. ASSUME NEW e \in Entries, Take(e) \/ WriteOut(e) PROVE Numbered'
  BY <1>7, <1>1 DEF Take, WriteOut, callVars, poolVars
<1>8. CASE Carry
  BY <1>8, <1>1 DEF Carry, callVars
<1>9. CASE UNCHANGED <<queue, hand, poolVars, callVars, out>>
  BY <1>9, <1>1 DEF callVars, poolVars
<1> QED
  BY <1>3, <1>4, <1>5, <1>6, <1>7, <1>8, <1>9, Frames, Zenon DEF Moves

(* A clone that is somewhere was made, and is nowhere else.                *)
LEMMA Found ==
    ASSUME Ownership, NEW k \in Clones
    PROVE  /\ k \in pool => k \in cloned /\ Owned(k, "pool", None)
           /\ \A c \in Callers : call[c].clone = k =>
                 k \in cloned /\ Owned(k, "call", c)
           /\ \A e \in Entries : hand[e] = k =>
                 k \in cloned /\ Owned(k, "hand", e)
           /\ \A e \in Entries : k \in Listed(queue[e]) =>
                 k \in cloned /\ Owned(k, "queue", e)
<1>1. PICK t, x : Owned(k, t, x) /\ (k \notin cloned => t = "nowhere")
  <2>1. CASE k \in cloned
    BY <2>1 DEF Ownership
  <2>2. CASE k \notin cloned
    BY <2>2 DEF Ownership
  <2> QED
    BY <2>1, <2>2
<1>2. k \in pool => t = "pool"
  BY <1>1 DEF Owned
<1>3. \A c \in Callers : call[c].clone = k => t = "call" /\ x = c
  BY <1>1 DEF Owned
<1>4. \A e \in Entries : hand[e] = k => t = "hand" /\ x = e
  BY <1>1 DEF Owned
<1>5. \A e \in Entries : k \in Listed(queue[e]) => t = "queue" /\ x = e
  BY <1>1 DEF Owned
<1>6. k \in pool => k \in cloned /\ Owned(k, "pool", None)
  BY <1>1, <1>2 DEF Owned
<1> QED
  BY <1>1, <1>3, <1>4, <1>5, <1>6

(* The step does not move the clone.                                       *)
Unmoved(k) ==
    /\ k \in pool' <=> k \in pool
    /\ \A c \in Callers : call'[c].clone = k <=> call[c].clone = k
    /\ \A e \in Entries : hand'[e] = k <=> hand[e] = k
    /\ \A e \in Entries : k \in Listed(queue'[e]) <=> k \in Listed(queue[e])

(* A step may move one clone from one place to another, or make one ...    *)
LEMMA Moved ==
    ASSUME Ownership, PacketTypes, NEW s \in Clones,
           cloned' = cloned \cup {s},
           NEW t, NEW x, Spot(t, x), Owned(s, t, x)',
           \A k \in Clones \ {s} : Unmoved(k),
           \A e \in Entries : Distinct(queue'[e])
    PROVE  Ownership'
<1>1. ASSUME NEW k \in Clones, k # s, NEW u, NEW y, Owned(k, u, y)
      PROVE  Owned(k, u, y)'
  <2>1. Unmoved(k)
    BY <1>1
  <2> QED
    BY <1>1, <2>1 DEF Unmoved, Owned
<1>2. \A k \in cloned' : \E u, y : Spot(u, y) /\ Owned(k, u, y)'
  BY <1>1 DEF Ownership, PacketTypes
<1>3. \A k \in Clones \ cloned' : Owned(k, "nowhere", None)'
  BY <1>1 DEF Ownership, PacketTypes
<1> QED
  BY <1>2, <1>3 DEF Ownership

(* ... or leave all of them where they are.                                *)
LEMMA NotMoved ==
    ASSUME Ownership, PacketTypes, cloned' = cloned,
           \A k \in Clones : Unmoved(k),
           \A e \in Entries : Distinct(queue'[e])
    PROVE  Ownership'
<1>1. ASSUME NEW k \in Clones, NEW u, NEW y, Owned(k, u, y)
      PROVE  Owned(k, u, y)'
  <2>1. Unmoved(k)
    OBVIOUS
  <2> QED
    BY <1>1, <2>1 DEF Unmoved, Owned
<1>2. \A k \in cloned' : \E u, y : Spot(u, y) /\ Owned(k, u, y)'
  BY <1>1 DEF Ownership, PacketTypes
<1>3. \A k \in Clones \ cloned' : Owned(k, "nowhere", None)'
  BY <1>1 DEF Ownership, PacketTypes
<1> QED
  BY <1>2, <1>3 DEF Ownership

(* One owner stays one owner.                                              *)
LEMMA OwnershipStep ==
    ASSUME StrandInv, Numbered, Ownership, [Next]_vars
    PROVE  Ownership'
<1>t. /\ queue \in [Entries -> Seq(Clones)] /\ DOMAIN hand = Entries
      /\ hand \in [Entries -> Clones \cup {NoClone}]
      /\ call \in [Callers -> CallStates(made)] /\ made \in Nat
      /\ \A c \in Callers : call[c].todo \subseteq 1..made
      /\ \A e \in Entries : Distinct(queue[e])
      /\ NoClone \notin Clones /\ Current \in SUBSET (1..made)
      /\ MapTypes /\ PacketTypes /\ CallTypes /\ CallShape /\ Rebuild
  BY MadeFacts, CloneFacts
     DEF StrandInv, CallTypes, CallStates, PacketTypes, Ownership
<1>1. CASE UNCHANGED <<queue, hand, poolVars, callVars, out>>
  <2>1. UNCHANGED <<queue, hand, pool, cloned, call>>
    BY <1>1 DEF poolVars, callVars
  <2>2. \A k \in Clones : Unmoved(k)
    BY <2>1 DEF Unmoved
  <2> QED
    BY <1>t, <2>1, <2>2, NotMoved
<1>2. ASSUME NEW c \in Callers, call[c].at # "send",
             call'[c].clone = NoClone, \A d \in Callers \ {c} : call'[d] = call[d],
             UNCHANGED <<queue, hand, pool, cloned>>
      PROVE  Ownership'
  <2>1. call[c].clone = NoClone
    BY <1>2, <1>t DEF CallShape
  <2>2. \A k \in Clones : Unmoved(k)
    BY <1>2, <2>1, <1>t DEF Unmoved
  <2> QED
    BY <1>2, <1>t, <2>2, NotMoved
<1>3. ASSUME NEW c \in Callers, Snapshot(c) PROVE Ownership'
  <2>1. GoOn(c, Current) /\ call[c] = Idle /\ UNCHANGED <<queue, hand, pool, cloned>>
    BY <1>3 DEF Snapshot, poolVars
  <2>2. call'[c].clone = NoClone /\ \A d \in Callers \ {c} : call'[d] = call[d]
    BY <2>1, <1>t, GoOnFacts
  <2> QED
    BY <1>2, <2>1, <2>2 DEF Idle
<1>4. ASSUME NEW c \in Callers, NEW e \in Entries, CheckFull(c, e) PROVE Ownership'
  <2>1. /\ GoOn(c, call[c].todo \ {e}) /\ call[c].at = "next"
        /\ UNCHANGED <<queue, hand, pool, cloned>>
    BY <1>4 DEF CheckFull, poolVars
  <2>2. call[c].todo \ {e} \in SUBSET (1..made)
    BY <1>t
  <2>3. call'[c].clone = NoClone /\ \A d \in Callers \ {c} : call'[d] = call[d]
    BY <2>1, <2>2, <1>t, GoOnFacts
  <2> QED
    BY <1>2, <2>1, <2>3
<1>5. ASSUME NEW c \in Callers, NEW e \in Entries, ClonePacket(c, e) PROVE Ownership'
  <2>0. PICK s : s = <<c, count[c], e>>
    OBVIOUS
  <2>1. /\ call[c].at = "next" /\ e \in call[c].todo
        /\ cloned' = cloned \cup {s} /\ UNCHANGED <<queue, hand, pool>>
        /\ call' = [call EXCEPT ![c].at = "send", ![c].entry = e, ![c].clone = s]
    BY <2>0, <1>5 DEF ClonePacket
  <2>2. call'[c].clone = s /\ \A d \in Callers \ {c} : call'[d] = call[d]
    BY <2>1, <1>t DEF CallStates
  <2>3. call[c].clone = NoClone /\ count[c] \in 1..MaxPackets
    BY <2>1, <1>t, QueueAssumption DEF CallShape, CallTypes
  <2>4. s \in Clones /\ s \notin cloned
    BY <2>0, <2>1, <2>3 DEF Clones, Numbered
  <2>5. Owned(s, "nowhere", None)
    BY <2>4 DEF Ownership
  <2>6. /\ s \notin pool /\ \A d \in Callers : call[d].clone # s
        /\ \A f \in Entries : hand[f] # s /\ s \notin Listed(queue[f])
    BY <2>5 DEF Owned
  <2>7. Owned(s, "call", c)'
    BY <2>1, <2>2, <2>6 DEF Owned
  <2>8. \A k \in Clones \ {s} : Unmoved(k)
    BY <2>1, <2>2, <2>3, <1>t DEF Unmoved
  <2> QED
    BY <2>1, <2>4, <2>7, <2>8, <1>t, Moved DEF Spot
<1>6. ASSUME NEW c \in Callers, Enqueue(c) PROVE Ownership'
  <2>0. PICK s, e : s = call[c].clone /\ e = call[c].entry
    OBVIOUS
  <2>1. /\ call[c].at = "send" /\ GoOn(c, call[c].todo \ {e})
        /\ UNCHANGED <<hand, cloned>>
        /\ \/ queue' = [queue EXCEPT ![e] = Append(@, s)] /\ pool' = pool
           \/ pool' = pool \cup {s} /\ queue' = queue
    BY <2>0, <1>6 DEF Enqueue
  <2>2. s \in Clones /\ e \in 1..made /\ e \in Entries
    BY <2>0, <2>1, <1>t, SentClone, MadeFacts
  <2>3. s \in cloned /\ Owned(s, "call", c)
    BY <2>0, <2>2, Found
  <2>4. /\ s \notin pool /\ \A d \in Callers : call[d].clone = s => d = c
        /\ \A f \in Entries : hand[f] # s /\ s \notin Listed(queue[f])
    BY <2>3 DEF Owned
  <2>5. call'[c].clone = NoClone /\ \A d \in Callers \ {c} : call'[d] = call[d]
    <3>1. call[c].todo \ {e} \in SUBSET (1..made)
      BY <1>t
    <3> QED
      BY <2>1, <3>1, <1>t, GoOnFacts
  <2>6. \A d \in Callers : call'[d].clone # s
    BY <2>0, <2>2, <2>4, <2>5, <1>t
  <2>7. \A k \in Clones \ {s} : \A d \in Callers : call'[d].clone = k <=> call[d].clone = k
    BY <2>0, <2>5, <1>t
  <2>8. CASE queue' = [queue EXCEPT ![e] = Append(@, s)] /\ pool' = pool
    <3>1. /\ queue'[e] = Append(queue[e], s)
          /\ \A f \in Entries \ {e} : queue'[f] = queue[f]
      BY <2>2, <2>8, <1>t
    <3>2. Listed(queue'[e]) = Listed(queue[e]) \cup {s} /\ Distinct(queue'[e])
      BY <2>2, <2>4, <3>1, <1>t, ListedAppend
    <3>3. Owned(s, "queue", e)'
      BY <2>1, <2>4, <2>6, <2>8, <3>1, <3>2 DEF Owned
    <3>4. \A k \in Clones \ {s} : Unmoved(k)
      BY <2>1, <2>7, <2>8, <3>1, <3>2 DEF Unmoved
    <3>5. \A f \in Entries : Distinct(queue'[f])
      BY <3>1, <3>2, <1>t
    <3> QED
      BY <2>1, <2>2, <2>3, <3>3, <3>4, <3>5, <1>t, Moved DEF Spot
  <2>9. CASE pool' = pool \cup {s} /\ queue' = queue
    <3>1. Owned(s, "pool", None)'
      BY <2>1, <2>4, <2>6, <2>9 DEF Owned
    <3>2. \A k \in Clones \ {s} : Unmoved(k)
      BY <2>1, <2>7, <2>9 DEF Unmoved
    <3> QED
      BY <2>1, <2>2, <2>3, <2>9, <3>1, <3>2, <1>t, Moved DEF Spot
  <2> QED
    BY <2>1, <2>8, <2>9
<1>7. ASSUME NEW e \in Entries, Take(e) PROVE Ownership'
  <2>0. PICK s : s = Head(queue[e])
    OBVIOUS
  <2>1. /\ queue[e] # <<>> /\ hand[e] = NoClone
        /\ hand' = [hand EXCEPT ![e] = s] /\ queue' = [queue EXCEPT ![e] = Tail(@)]
        /\ UNCHANGED <<pool, cloned, call>>
    BY <2>0, <1>7 DEF Take, poolVars, callVars
  <2>2. /\ s \in Clones /\ s \in Listed(queue[e])
        /\ Listed(Tail(queue[e])) = Listed(queue[e]) \ {s}
        /\ Distinct(Tail(queue[e]))
    BY <2>0, <2>1, <1>t, TailFacts, ListedTail
  <2>3. s \in cloned /\ Owned(s, "queue", e)
    BY <2>2, Found
  <2>4. /\ s \notin pool /\ \A d \in Callers : call[d].clone # s
        /\ \A f \in Entries : hand[f] # s /\ (s \in Listed(queue[f]) => f = e)
    BY <2>3 DEF Owned
  <2>5. /\ hand'[e] = s /\ \A f \in Entries \ {e} : hand'[f] = hand[f]
        /\ Listed(queue'[e]) = Listed(queue[e]) \ {s} /\ Distinct(queue'[e])
        /\ \A f \in Entries \ {e} : queue'[f] = queue[f]
    BY <2>1, <2>2, <1>t
  <2>6. Owned(s, "hand", e)'
    BY <2>1, <2>4, <2>5 DEF Owned
  <2>7. \A k \in Clones \ {s} : Unmoved(k)
    BY <2>1, <2>5, <1>t DEF Unmoved
  <2>8. \A f \in Entries : Distinct(queue'[f])
    BY <2>5, <1>t
  <2> QED
    BY <2>1, <2>2, <2>3, <2>6, <2>7, <2>8, <1>t, Moved DEF Spot
<1>8. ASSUME NEW e \in Entries, WriteOut(e) PROVE Ownership'
  <2>0. PICK s : s = hand[e]
    OBVIOUS
  <2>1. /\ s \in Clones /\ hand' = [hand EXCEPT ![e] = NoClone]
        /\ pool' = pool \cup {s} /\ UNCHANGED <<queue, cloned, call>>
    BY <2>0, <1>8, <1>t DEF WriteOut, callVars
  <2>2. s \in cloned /\ Owned(s, "hand", e)
    BY <2>0, <2>1, Found
  <2>3. /\ \A d \in Callers : call[d].clone # s
        /\ \A f \in Entries : s \notin Listed(queue[f]) /\ (hand[f] = s => f = e)
    BY <2>2 DEF Owned
  <2>4. hand'[e] = NoClone /\ \A f \in Entries \ {e} : hand'[f] = hand[f]
    BY <2>1, <1>t
  <2>5. Owned(s, "pool", None)'
    BY <2>1, <2>3, <2>4, <1>t DEF Owned
  <2>6. \A k \in Clones \ {s} : Unmoved(k)
    BY <2>0, <2>1, <2>4, <1>t DEF Unmoved
  <2> QED
    BY <2>1, <2>2, <2>5, <2>6, <1>t, Moved DEF Spot
<1>9. CASE Carry
  <2>0. PICK o, n, s : o = op.old /\ n = op.new /\ s = Head(queue[o])
    OBVIOUS
  <2>1. o \in Entries /\ n \in Entries /\ o # n
    BY <2>0, <1>9, <1>t, ReplacingFacts DEF Carry, Replacing
  <2>2. /\ queue[o] # <<>> /\ UNCHANGED <<hand, cloned, call>>
        /\ \/ /\ queue' = [queue EXCEPT ![o] = Tail(@), ![n] = Append(@, s)]
              /\ pool' = pool
           \/ queue' = [queue EXCEPT ![o] = Tail(@)] /\ pool' = pool \cup {s}
    BY <2>0, <1>9 DEF Carry, callVars
  <2>3. /\ s \in Clones /\ s \in Listed(queue[o])
        /\ Listed(Tail(queue[o])) = Listed(queue[o]) \ {s}
        /\ Distinct(Tail(queue[o]))
    BY <2>0, <2>1, <2>2, <1>t, TailFacts, ListedTail
  <2>4. s \in cloned /\ Owned(s, "queue", o)
    BY <2>1, <2>3, Found
  <2>5. /\ s \notin pool /\ \A d \in Callers : call[d].clone # s
        /\ \A f \in Entries : hand[f] # s /\ (s \in Listed(queue[f]) => f = o)
    BY <2>4 DEF Owned
  <2>6. CASE /\ queue' = [queue EXCEPT ![o] = Tail(@), ![n] = Append(@, s)]
             /\ pool' = pool
    <3>1. /\ queue'[o] = Tail(queue[o]) /\ queue'[n] = Append(queue[n], s)
          /\ \A f \in Entries \ {o, n} : queue'[f] = queue[f]
      BY <2>1, <2>6, <1>t
    <3>2. Listed(queue'[n]) = Listed(queue[n]) \cup {s} /\ Distinct(queue'[n])
      BY <2>1, <2>3, <2>5, <3>1, <1>t, ListedAppend
    <3>3. Owned(s, "queue", n)'
      BY <2>1, <2>2, <2>3, <2>5, <2>6, <3>1, <3>2 DEF Owned
    <3>4. \A k \in Clones \ {s} : Unmoved(k)
      BY <2>1, <2>2, <2>3, <2>6, <3>1, <3>2 DEF Unmoved
    <3>5. \A f \in Entries : Distinct(queue'[f])
      <4>1. Distinct(queue'[o])
        BY <2>3, <3>1
      <4>2. \A f \in Entries \ {o, n} : Distinct(queue'[f])
        BY <3>1, <1>t
      <4> QED
        BY <3>2, <4>1, <4>2
    <3> QED
      BY <2>1, <2>2, <2>3, <2>4, <3>3, <3>4, <3>5, <1>t, Moved DEF Spot
  <2>7. CASE queue' = [queue EXCEPT ![o] = Tail(@)] /\ pool' = pool \cup {s}
    <3>1. /\ queue'[o] = Tail(queue[o])
          /\ \A f \in Entries \ {o} : queue'[f] = queue[f]
      BY <2>1, <2>7, <1>t
    <3>2. Owned(s, "pool", None)'
      BY <2>2, <2>3, <2>5, <2>7, <3>1 DEF Owned
    <3>3. \A k \in Clones \ {s} : Unmoved(k)
      BY <2>2, <2>3, <2>7, <3>1 DEF Unmoved
    <3>4. \A f \in Entries : Distinct(queue'[f])
      BY <2>3, <3>1, <1>t
    <3> QED
      BY <2>2, <2>3, <2>4, <3>2, <3>3, <3>4, <1>t, Moved DEF Spot
  <2> QED
    BY <2>2, <2>6, <2>7
<1> QED
  BY <1>1, <1>3, <1>4, <1>5, <1>6, <1>7, <1>8, <1>9, Frames, Zenon DEF Moves

(* A clone that is owned by one is in one of OneOwner's places.            *)
LEMMA OwnedPlaces ==
    ASSUME PacketTypes, Ownership
    PROVE  OneOwner
<1> SUFFICES ASSUME NEW k \in cloned PROVE Cardinality(Places(k)) = 1
  BY DEF OneOwner
<1>1. PICK t, x : Spot(t, x) /\ Owned(k, t, x)
  BY DEF Ownership
<1> DEFINE P == {<<"pool">> : y \in pool \cap {k}}
           C == {<<"call", c>> : c \in {c \in Callers : call[c].clone = k}}
           H == {<<"hand", e>> : e \in {e \in Entries : hand[e] = k}}
           Q(e) == {<<"queue", e, i>> :
                        i \in {i \in DOMAIN queue[e] : queue[e][i] = k}}
           U == UNION {Q(e) : e \in Entries}
<1>2. Places(k) = P \cup C \cup H \cup U
  BY DEF Places
<1>3. t # "pool" => P = {}
  BY <1>1 DEF Owned
<1>4. t # "call" => C = {}
  BY <1>1 DEF Owned
<1>5. t # "hand" => H = {}
  BY <1>1 DEF Owned
<1>6. \A e \in Entries : ~(t = "queue" /\ x = e) => Q(e) = {}
  BY <1>1 DEF Owned, Listed
<1>7. t # "queue" => U = {}
  BY <1>6
<1>8. \E s : Places(k) = {s}
  <2>1. CASE t = "pool"
    <3>1. P = {<<"pool">>}
      BY <1>1, <2>1 DEF Owned
    <3> QED
      BY <1>2, <1>4, <1>5, <1>7, <2>1, <3>1
  <2>2. CASE t = "call"
    <3>1. {c \in Callers : call[c].clone = k} = {x}
      BY <1>1, <2>2 DEF Owned, Spot
    <3>2. C = {<<"call", x>>}
      BY <3>1
    <3> QED
      BY <1>2, <1>3, <1>5, <1>7, <2>2, <3>2
  <2>3. CASE t = "hand"
    <3>1. {e \in Entries : hand[e] = k} = {x}
      BY <1>1, <2>3 DEF Owned, Spot
    <3>2. H = {<<"hand", x>>}
      BY <3>1
    <3> QED
      BY <1>2, <1>3, <1>4, <1>7, <2>3, <3>2
  <2>4. CASE t = "queue"
    <3>1. x \in Entries /\ k \in Listed(queue[x]) /\ Distinct(queue[x])
      BY <1>1, <2>4 DEF Owned, Spot, Ownership
    <3>2. PICK i \in DOMAIN queue[x] : queue[x][i] = k
      BY <3>1 DEF Listed
    <3>3. {j \in DOMAIN queue[x] : queue[x][j] = k} = {i}
      BY <3>1, <3>2 DEF Distinct
    <3>4. Q(x) = {<<"queue", x, i>>}
      BY <3>3
    <3> HIDE DEF Q
    <3>5. U = Q(x)
      BY <1>6, <2>4, <3>1
    <3> QED
      BY <1>2, <1>3, <1>4, <1>5, <2>4, <3>4, <3>5
  <2> QED
    BY <1>1, <2>1, <2>2, <2>3, <2>4 DEF Spot
<1> QED
  BY <1>8, FS_Singleton
-----------------------------------------------------------------------------
(* No queue is ever longer than its size: a full one is never sent to.     *)
Bounded == \A e \in Entries : Len(queue[e]) <= Cap

LEMMA BoundedStep ==
    ASSUME StrandInv, Bounded, [Next]_vars
    PROVE  Bounded'
<1>t. /\ queue \in [Entries -> Seq(Clones)] /\ Cap \in Nat
      /\ MapTypes /\ CallTypes /\ CallShape /\ Rebuild
  BY QueueAssumption DEF StrandInv, PacketTypes
<1>1. CASE UNCHANGED queue
  BY <1>1 DEF Bounded
<1>2. ASSUME NEW c \in Callers, Enqueue(c) PROVE Bounded'
  <2>0. PICK s, e : s = call[c].clone /\ e = call[c].entry
    OBVIOUS
  <2>1. s \in Clones /\ e \in Entries
    BY <2>0, <1>2, <1>t, SentClone, MadeFacts DEF Enqueue
  <2>2. CASE Len(queue[e]) < Cap
    <3>1. queue' = [queue EXCEPT ![e] = Append(@, s)]
      BY <2>0, <2>2, <1>2 DEF Enqueue
    <3>2. Len(Append(queue[e], s)) = Len(queue[e]) + 1 /\ Len(queue[e]) \in Nat
      BY <2>1, <1>t, AppendProperties
    <3> QED
      BY <2>1, <2>2, <3>1, <3>2, <1>t DEF Bounded
  <2>3. CASE ~(Len(queue[e]) < Cap)
    BY <2>0, <2>3, <1>1, <1>2 DEF Enqueue
  <2> QED
    BY <2>2, <2>3
<1>3. ASSUME NEW e \in Entries, Take(e) PROVE Bounded'
  <2>1. queue' = [queue EXCEPT ![e] = Tail(@)] /\ queue[e] # <<>>
    BY <1>3 DEF Take
  <2>2. Len(Tail(queue[e])) = Len(queue[e]) - 1 /\ Len(queue[e]) \in Nat
    BY <2>1, <1>t, HeadTailProperties
  <2> QED
    BY <2>1, <2>2, <1>t DEF Bounded
<1>4. CASE Carry
  <2>0. PICK o, n, s : o = op.old /\ n = op.new /\ s = Head(queue[o])
    OBVIOUS
  <2>1. o \in Entries /\ n \in Entries /\ o # n /\ queue[o] # <<>>
    BY <2>0, <1>4, <1>t, ReplacingFacts DEF Carry, Replacing
  <2>2. /\ Len(Tail(queue[o])) = Len(queue[o]) - 1 /\ Len(queue[o]) \in Nat
        /\ s \in Clones
    BY <2>0, <2>1, <1>t, HeadTailProperties, TailFacts
  <2>3. Len(Append(queue[n], s)) = Len(queue[n]) + 1 /\ Len(queue[n]) \in Nat
    BY <2>1, <2>2, <1>t, AppendProperties
  <2>4. CASE Len(queue[n]) < Cap
    <3>1. queue' = [queue EXCEPT ![o] = Tail(@), ![n] = Append(@, s)]
      BY <2>0, <2>4, <1>4 DEF Carry
    <3> QED
      BY <2>1, <2>2, <2>3, <2>4, <3>1, <1>t DEF Bounded
  <2>5. CASE ~(Len(queue[n]) < Cap)
    <3>1. queue' = [queue EXCEPT ![o] = Tail(@)]
      BY <2>0, <2>5, <1>4 DEF Carry
    <3> QED
      BY <2>1, <2>2, <3>1, <1>t DEF Bounded
  <2> QED
    BY <2>4, <2>5
<1>5. ASSUME NEW c \in Callers, Snapshot(c) PROVE Bounded'
  BY <1>5, <1>1 DEF Snapshot
<1>6. ASSUME NEW c \in Callers, NEW e \in Entries, CheckFull(c, e) \/ ClonePacket(c, e)
      PROVE  Bounded'
  BY <1>6, <1>1 DEF CheckFull, ClonePacket
<1>7. ASSUME NEW e \in Entries, WriteOut(e) PROVE Bounded'
  BY <1>7, <1>1 DEF WriteOut
<1>8. CASE UNCHANGED <<queue, hand, poolVars, callVars, out>>
  BY <1>8, <1>1
<1> QED
  BY <1>2, <1>3, <1>4, <1>5, <1>6, <1>7, <1>8, Frames, Zenon DEF Moves

-----------------------------------------------------------------------------
(* The first state.                                                        *)
LEMMA StrandInit ==
    ASSUME Init
    PROVE  StrandInv /\ Bounded /\ Numbered /\ Ownership
<1>n. /\ MaxEntries \in Nat /\ MaxPackets \in Nat /\ Cap \in Nat /\ 0 \in 0..MaxEntries
      /\ 0 \in 0..MaxPackets
  BY QueueAssumption
<1>e. /\ <<>> \in Seq(Clones) /\ Len(<<>>) = 0 /\ DOMAIN <<>> = {}
      /\ \A e \in Entries : queue[e] = <<>> /\ hand[e] = NoClone /\ writer[e] = "none"
      /\ \A c \in Callers : call[c] = Idle /\ count[c] = 0
  BY DEF Init
<1>0. /\ NoClone \notin Clones /\ Current = {} /\ cloned = {} /\ pool = {} /\ made = 0
      /\ op = Free /\ subscribers = [p \in Subs |-> None]
  BY CloneFacts DEF Init, Current
<1>1. MapTypes
  <2>1. op \in OpStates(0)
    BY DEF Init, Free, OpStates, None, Updating
  <2>2. egress \in [Entries -> Entries] /\ \A e \in Entries : egress[e] <= e
    BY <1>n DEF Init, Entries
  <2>3. 1..0 = {} /\ 0 \in 0..0
    OBVIOUS
  <2>4. subscribers \in [Subs -> 0..0] /\ late \in [Entries -> SUBSET Callers]
    BY <2>3 DEF Init, None
  <2> QED
    BY <1>n, <2>1, <2>2, <2>3, <2>4 DEF MapTypes, Init
<1>2. PacketTypes
  BY <1>e DEF PacketTypes, Init
<1>3. CallTypes /\ CallShape /\ RunIdle
  <2>1. Idle \in CallStates(made)
    BY <1>0 DEF Idle, CallStates, None
  <2>2. Idle.at = "idle" /\ Idle.clone = NoClone
    BY DEF Idle
  <2>3. CallTypes
    BY <1>n, <2>1 DEF CallTypes, Init
  <2>4. CallShape
    BY <1>e, <2>2 DEF CallShape
  <2>5. RunIdle
    BY <1>e DEF RunIdle, Callers
  <2> QED
    BY <2>3, <2>4, <2>5
<1>4. MapOwned
  <2>1. \A e \in Entries : egress[e] = e
    BY DEF Init
  <2> QED
    BY <1>e, <1>0, <2>1 DEF MapOwned
<1>5. op.at = "free"
  BY <1>0 DEF Free
<1>6. Rebuild /\ Leaving /\ StrandedOnlyLate
  BY <1>5, <1>e DEF Rebuild, Leaving, StrandedOnlyLate, Replacing
<1>7. Bounded
  BY <1>e, <1>n DEF Bounded
<1>8. Numbered
  BY <1>e, <1>0 DEF Numbered, Idle
<1>9. Ownership
  <2>1. \A e \in Entries : Listed(queue[e]) = {} /\ Distinct(queue[e])
    BY <1>e DEF Listed, Distinct
  <2>2. \A c \in Callers : call[c].clone = NoClone
    BY <1>e DEF Idle
  <2>3. \A k \in Clones : Owned(k, "nowhere", None)
    BY <1>e, <1>0, <2>1, <2>2 DEF Owned
  <2> QED
    BY <1>0, <2>1, <2>3 DEF Ownership
<1> QED
  BY <1>1, <1>2, <1>3, <1>4, <1>6, <1>7, <1>8, <1>9 DEF StrandInv

(* The types, and that a queue never holds more than queueSize packets.    *)
THEOREM TypeCorrect == Spec => []TypeOK
<1>1. Init => StrandInv /\ Bounded
  BY StrandInit
<1>2. StrandInv /\ Bounded /\ [Next]_vars => (StrandInv /\ Bounded)'
  BY StrandStep, BoundedStep
<1>3. StrandInv /\ Bounded => TypeOK
  <2> SUFFICES ASSUME StrandInv, Bounded PROVE TypeOK
    OBVIOUS
  <2>1. MapTypes /\ PacketTypes /\ CallTypes
    BY DEF StrandInv
  <2>2. \A c \in Callers : /\ call[c].at \in {"idle", "next", "send"}
                           /\ call[c].todo \subseteq 1..made /\ count[c] \in 0..MaxPackets
    BY <2>1 DEF CallTypes, CallStates
  <2>3. op.at \in {"free", "stop", "writers", "update", "reconcile", "join",
                   "swap", "carry"}
    BY <2>1 DEF MapTypes, OpStates, Updating
  <2> QED
    BY <2>1, <2>2, <2>3 DEF TypeOK, MapTypes, PacketTypes, CallTypes, Bounded
<1> QED
  BY <1>1, <1>2, <1>3, PTL DEF Spec

(* A packet is left in the queue of a writer that has ended only by a call *)
(* of WriteRTP whose snapshot is older than the removal of the entry: Stop *)
(* waits for the run loop before it ends the writers, and no packet of the *)
(* run loop is left behind by it.                                          *)
THEOREM OnlyLateStranded == Spec => []StrandedOnlyLate
<1>1. Init => StrandInv
  BY StrandInit
<1>2. StrandInv /\ [Next]_vars => StrandInv'
  BY StrandStep
<1>3. StrandInv => StrandedOnlyLate
  BY DEF StrandInv
<1> QED
  BY <1>1, <1>2, <1>3, PTL DEF Spec

(* Every clone of a packet has one owner: the call of WriteRTP that made   *)
(* it, one place in one queue, one writer, or packetPool.                  *)
THEOREM ClonesOwned == Spec => []OneOwner
<1>1. Init => StrandInv /\ Numbered /\ Ownership
  BY StrandInit
<1>2. StrandInv /\ Numbered /\ Ownership /\ [Next]_vars
      => (StrandInv /\ Numbered /\ Ownership)'
  BY StrandStep, NumberedStep, OwnershipStep
<1>3. StrandInv /\ Ownership => OneOwner
  BY OwnedPlaces DEF StrandInv
<1> QED
  BY <1>1, <1>2, <1>3, PTL DEF Spec
-----------------------------------------------------------------------------
(* The order of the packets: how the chains grow.                          *)

(* The entry that is replaced gets its successor.                          *)
Succeeds ==
    /\ op.at = "swap" /\ made < MaxEntries /\ made' = made + 1
    /\ op' = [op EXCEPT !.at = "carry", !.new = made + 1]
    /\ egress' = [egress EXCEPT ![made + 1] = egress[op.old]]
    /\ UNCHANGED <<subscribers, queue, writer, hand, poolVars, callVars, out>>

LEMMA Growth ==
    ASSUME MapTypes, [Next]_vars
    PROVE  \/ UNCHANGED <<made, egress>>
           \/ /\ made < MaxEntries /\ made' = made + 1
              /\ UNCHANGED <<egress, op, queue, hand, out>>
           \/ Succeeds
<1> DEFINE Goal == \/ UNCHANGED <<made, egress>>
                   \/ /\ made < MaxEntries /\ made' = made + 1
                      /\ UNCHANGED <<egress, op, queue, hand, out>>
                   \/ Succeeds
<1> USE DEF mapVars
<1>1. ASSUME NEW c \in Callers, Snapshot(c) \/ CallStep(c) PROVE Goal
  BY <1>1 DEF Snapshot, CallStep, Enqueue, CheckFull, ClonePacket
<1>2. ASSUME NEW e \in Entries, WriterStep(e) \/ ReconcileStop(e) PROVE Goal
  BY <1>2 DEF WriterStep, Take, WriteOut, WriterExits, ReconcileStop
<1>3. ASSUME NEW p \in Subs, AddSubscriber(p) PROVE Goal
  BY <1>3 DEF AddSubscriber
<1>4. ASSUME NEW p \in Subs, RemoveSubscriber(p) PROVE Goal
  BY <1>4 DEF RemoveSubscriber
<1>5. ASSUME NEW es, UpdateBegin(es) \/ UpdateSwap \/ UpdateEnd \/ Carry PROVE Goal
  BY <1>5 DEF UpdateBegin, UpdateSwap, UpdateEnd, Carry
<1>6. CASE RunLeaves \/ Start \/ StopBegin \/ StopCancel \/ StopEnd
  BY <1>6 DEF RunLeaves, Start, StopBegin, StopCancel, StopEnd
<1>7. CASE ReconcileDelete \/ ReconcileInsert
  BY <1>7 DEF ReconcileDelete, ReconcileInsert
<1>8. CASE ReconcileSwap
  BY <1>8 DEF ReconcileSwap, Succeeds
<1>9. CASE UNCHANGED vars
  BY <1>9 DEF vars
<1> QED
  BY <1>1, <1>2, <1>3, <1>4, <1>5, <1>6, <1>7, <1>8, <1>9, Zenon DEF Next

(* Entries stay in their chain, and an entry stays the last of it unless   *)
(* it is replaced.                                                         *)
LEMMA AkinKept ==
    ASSUME MapTypes, MapTypes', [Next]_vars
    PROVE  \A e, f \in 1..made : egress'[e] = egress[e] /\ (Akin(e, f)' <=> Akin(e, f))
<1>1. \A e \in 1..made : e \in Entries /\ e # made + 1
  BY MadeFacts
<1>2. \A e \in 1..made : egress'[e] = egress[e]
  BY <1>1, EntriesKept
<1> QED
  BY <1>2 DEF Akin

LEMMA LastKept ==
    ASSUME MapTypes, MapTypes', MapOwned, Rebuild, [Next]_vars,
           NEW e \in 1..made, Last(e), ~(Succeeds /\ Akin(e, op.old))
    PROVE  Last(e)'
<1>t. /\ made \in Nat /\ 1..made \subseteq Entries /\ DOMAIN egress = Entries
      /\ (made < MaxEntries => made + 1 \in Entries)
      /\ \A f \in 1..made : egress[f] <= f /\ egress[f] \in Nat
  <2>1. Entries \subseteq Nat
    BY DEF Entries
  <2> QED
    BY <2>1, MadeFacts DEF MapTypes
<1> SUFFICES ASSUME NEW f \in 1..made', Akin(e, f)' PROVE f <= e
  BY DEF Last
<1>1. CASE f \in 1..made
  BY <1>1, AkinKept DEF Last
<1>2. CASE f \notin 1..made
  <2>1. f = made + 1 /\ made' = made + 1 /\ made' # made
    BY <1>2, <1>t, EntriesKept
  <2>2. CASE egress' = egress /\ made < MaxEntries
    <3>1. egress[f] = made + 1
      BY <2>1, <2>2, <1>t DEF MapOwned
    <3>2. egress[e] = made + 1
      BY <2>2, <3>1 DEF Akin
    <3> QED
      BY <3>2, <1>t
  <2>3. CASE Succeeds
    <3>1. egress'[f] = egress[op.old]
      BY <2>1, <2>3, <1>t DEF Succeeds
    <3>2. egress'[e] = egress[e]
      BY AkinKept
    <3> QED
      BY <2>3, <3>1, <3>2 DEF Akin
  <2> QED
    BY <2>1, <2>2, <2>3, Growth
<1> QED
  BY <1>1, <1>2

(* Only one entry of a chain is its last.                                  *)
LEMMA OneLast ==
    ASSUME NEW e \in 1..made, NEW f \in 1..made, Last(e), Last(f), Akin(e, f), made \in Nat
    PROVE  e = f
<1>1. Akin(f, e)
  BY DEF Akin
<1>2. e <= f /\ f <= e
  BY <1>1 DEF Last
<1> QED
  BY <1>2

(* Chains go on from their last entry.                                     *)
LEMMA ChainsStep ==
    ASSUME StrandInv, StrandInv', Chains, [Next]_vars
    PROVE  Chains'
<1>i. /\ MapTypes /\ MapTypes' /\ MapOwned /\ Rebuild /\ Leaving
  BY DEF StrandInv
<1>t. /\ made \in Nat /\ 1..made \subseteq Entries /\ MaxEntries \in Nat
      /\ op \in OpStates(made) /\ Current \subseteq 1..made
  BY <1>i, MadeFacts, QueueAssumption DEF MapTypes
<1>s. op.at = "swap" =>
        /\ op.old \in 1..made /\ Last(op.old) /\ op.old \notin op.todo
        /\ writer[op.old] = "done" /\ op.old \notin Current
  <2> HAVE op.at = "swap"
  <2>1. op.old \in 1..made /\ op.old \in Entries
    BY <1>i, ReplacingFacts DEF Replacing
  <2>2. writer[op.old] = "done"
    BY <1>i DEF Rebuild
  <2> QED
    BY <2>1, <2>2, <1>i DEF Chains, Growing, Leaving, Left
(* Every entry that is last stays so, but for the one that is replaced,    *)
(* which nothing grows from any more.                                      *)
<1>n. ASSUME NEW e \in Entries, e = made + 1, made' = made + 1 PROVE Last(e)'
  BY <1>n, <1>t DEF Last
<1>k. ASSUME NEW e \in Entries, Growing(e), ~(Succeeds /\ e = op.old) PROVE Last(e)'
  <2>1. Last(e)
    BY <1>k DEF Chains
  <2>2. e \in 1..made
    <3>1. writer[e] \in {"live", "cancelled"} => ~(e > made)
      BY <1>i DEF MapOwned
    <3>2. op.todo \subseteq 1..made
      BY <1>t DEF OpStates
    <3>3. op.at \in Replacing => op.old \in 1..made /\ (op.at = "carry" => op.new \in 1..made)
      BY <1>i, ReplacingFacts
    <3> QED
      BY <1>k, <1>t, <3>1, <3>2, <3>3 DEF Growing, Entries, Replacing
  <2>3. ~(Succeeds /\ Akin(e, op.old))
    BY <1>k, <1>s, <1>t, <2>1, <2>2, OneLast DEF Succeeds
  <2> QED
    BY <2>1, <2>2, <2>3, <1>i, LastKept
<1>u. ~(op.at = "swap" /\ op'.at = "carry") => ~Succeeds
  BY <1>t DEF Succeeds, OpStates
<1>1. ASSUME NEW e \in Entries, writer'[e] \in {"live", "cancelled"} PROVE Last(e)'
  <2>1. CASE writer[e] \in {"live", "cancelled"}
    BY <2>1, <1>k, <1>s DEF Growing, Succeeds
  <2>2. CASE Begins(e)
    <3>1. CASE e = made + 1 /\ made' = made + 1
      BY <3>1, <1>n
    <3>2. CASE op.at = "carry" /\ e = op.new
      BY <3>2, <1>k DEF Growing, Succeeds
    <3> QED
      BY <2>2, <3>1, <3>2 DEF Begins
  <2> QED
    BY <1>1, <2>1, <2>2, <1>i, WriterLife DEF Ends
<1>2. ASSUME NEW e \in Entries, e \in Current' PROVE Last(e)'
  <2>1. CASE e \in Current
    BY <2>1, <1>k, <1>s DEF Growing, Succeeds
  <2>2. CASE e = made + 1 /\ made' = made + 1
    BY <2>2, <1>n
  <2>3. CASE op.at = "carry" /\ e = op.new
    BY <2>3, <1>k DEF Growing, Succeeds
  <2> QED
    BY <1>2, <2>1, <2>2, <2>3, <1>i, CurrentGrows
<1> DEFINE Part(e) == \/ op.at \in Updating /\ e \in op.todo
                      \/ op.at \in {"join", "swap"} /\ e = op.old
                      \/ op.at = "carry" /\ e = op.new
           Goal == /\ \A e \in Entries : Part(e)' => Last(e)'
                   /\ op'.at \in {"join", "swap"} => op'.old \notin op'.todo
<1>p. ASSUME NEW e \in Entries, Part(e), ~(Succeeds /\ e = op.old) PROVE Last(e)'
  BY <1>p, <1>k DEF Growing
<1>3. ASSUME op' = op PROVE Goal
  <2>1. ~Succeeds
    BY <1>3, <1>u
  <2> QED
    BY <1>3, <2>1, <1>p DEF Chains
<1>4. ASSUME NEW es \in SUBSET Current, UpdateBegin(es) PROVE Goal
  <2>1. op.at = "free" /\ op'.at = "update" /\ op'.todo = es
    BY <1>4 DEF UpdateBegin, Free
  <2>2. \A e \in Entries : e \in es => Last(e)'
    BY <2>1, <1>k, <1>u DEF Growing
  <2> QED
    BY <2>1, <2>2
<1>5. ASSUME UpdateSwap PROVE Goal
  <2>1. op.at = "update" /\ op'.at = "reconcile" /\ op'.todo = op.todo
    BY <1>5, <1>t DEF UpdateSwap, OpStates
  <2> QED
    BY <2>1, <1>p, <1>u DEF Updating
<1>6. ASSUME NEW e \in Entries, ReconcileStop(e) PROVE Goal
  <2>1. /\ op.at = "reconcile" /\ e \in op.todo /\ op'.at = "join"
        /\ op'.todo = op.todo \ {e} /\ op'.old = e
    BY <1>6, <1>t DEF ReconcileStop, OpStates
  <2>2. \A f \in Entries : f \in op.todo => Last(f)'
    BY <2>1, <1>p, <1>u DEF Updating
  <2> QED
    BY <2>1, <2>2
<1>7. ASSUME ReconcileDelete PROVE Goal
  <2>1. op.at = "join" /\ op'.at = "swap" /\ op'.todo = op.todo /\ op'.old = op.old
    BY <1>7, <1>t DEF ReconcileDelete, OpStates
  <2>2. \A f \in Entries : f \in op.todo \/ f = op.old => Last(f)'
    BY <2>1, <1>p, <1>u DEF Updating
  <2> QED
    BY <2>1, <2>2 DEF Chains
<1>8. ASSUME ReconcileSwap PROVE Goal
  <2>1. /\ op.at = "swap" /\ op'.todo = op.todo
        /\ \/ op'.at = "carry" /\ op'.new = made + 1 /\ made' = made + 1
           \/ op'.at = "reconcile"
    BY <1>8, <1>t DEF ReconcileSwap, OpStates
  <2>2. \A f \in Entries : f \in op.todo => Last(f)'
    BY <2>1, <1>p, <1>s DEF Updating
  <2> QED
    BY <2>1, <2>2, <1>n
<1>9. ASSUME ReconcileInsert PROVE Goal
  <2>1. op.at = "carry" /\ op'.todo = op.todo /\ op'.at = "reconcile"
    BY <1>9, <1>t DEF ReconcileInsert, OpStates
  <2> QED
    BY <2>1, <1>p, <1>u DEF Updating
<1>10. ASSUME op'.at \in {"free", "stop", "writers"} PROVE Goal
  BY <1>10 DEF Updating
<1>11. ASSUME StopBegin PROVE Goal
  BY <1>11, <1>10 DEF StopBegin, Free
<1>12. ASSUME StopEnd \/ UpdateEnd PROVE Goal
  BY <1>12, <1>10 DEF StopEnd, UpdateEnd, Free
<1>13. ASSUME StopCancel PROVE Goal
  BY <1>13, <1>10, <1>t DEF StopCancel, OpStates
<1>14. Goal
  BY <1>3, <1>4, <1>5, <1>6, <1>7, <1>8, <1>9, <1>11, <1>12, <1>13, OpSteps, Zenon
     DEF OpStep
<1> QED
  BY <1>1, <1>2, <1>14 DEF Chains, Growing

(* Nobody gets an entry whose writer has not begun.                        *)
LEMMA UnheldStep ==
    ASSUME StrandInv, Unheld, [Next]_vars
    PROVE  Unheld'
<1>i. /\ MapTypes /\ CallTypes /\ CallShape /\ MapOwned /\ Rebuild
  BY DEF StrandInv
<1> SUFFICES ASSUME NEW e \in Entries, writer'[e] = "none"
             PROVE  e \notin Current' /\ Holders(e)' = {}
  BY DEF Unheld
<1>1. writer[e] = "none"
  BY <1>i, WriterLife DEF Begins, Ends
<1>2. e \notin Current /\ Holders(e) = {}
  BY <1>1 DEF Unheld
<1>3. e \notin Current'
  BY <1>2, <1>i, CurrentGrows
<1>4. Holders(e)' \subseteq Holders(e)
  BY <1>2, <1>i, HoldersShrink
<1> QED
  BY <1>2, <1>3, <1>4

(* A call clones a packet once for a chain.                                *)
LEMMA OnceStep ==
    ASSUME StrandInv, StrandInv', Numbered, Chains, Homes, Once, [Next]_vars
    PROVE  Once'
<1>i. /\ MapTypes /\ MapTypes' /\ CallTypes /\ CallShape /\ cloned \subseteq Clones
  BY DEF StrandInv, PacketTypes
<1>t. /\ made \in Nat /\ call \in [Callers -> CallStates(made)]
      /\ count \in [Callers -> Nat] /\ Current \in SUBSET (1..made)
      /\ 1..made \subseteq Entries
      /\ \A c \in Callers : call[c].todo \subseteq 1..made
  BY <1>i, MadeFacts, QueueAssumption DEF CallTypes, CallStates
<1>c. \A k \in cloned : k[1] \in Callers /\ k[2] \in Nat /\ k[3] \in 1..made
  <2>1. \A k \in cloned : k[1] \in Callers /\ k[2] \in Nat /\ k[3] \in Nat /\ k[3] # 0
    BY <1>i, CloneFacts DEF Entries
  <2> QED
    BY <2>1, <1>t DEF Homes
<1>a. \A e, f \in 1..made : Akin(e, f)' <=> Akin(e, f)
  BY <1>i, AkinKept
<1> DEFINE Part(c, e) ==
             /\ \A f \in call[c].todo : Akin(e, f) => e = f
             /\ \A k \in cloned :
                   k[1] = c /\ k[2] = count[c] /\ Akin(k[3], e) => k[3] = e
<1>p. \A c \in Callers : \A e \in call[c].todo : Part(c, e)
  BY DEF Once
<1>q. ASSUME \A c \in Callers : \A e \in call'[c].todo : Part(c, e)' PROVE Once'
  BY <1>q DEF Once
(* The call goes on with less, or does not move.                           *)
<1>1. ASSUME NEW c \in Callers, NEW e \in call'[c].todo, e \in call[c].todo,
             call'[c].todo \subseteq call[c].todo, count'[c] = count[c], cloned' = cloned
      PROVE  Part(c, e)'
  <2>1. Part(c, e) /\ e \in 1..made
    BY <1>1, <1>p, <1>t
  <2>2. \A f \in call'[c].todo : Akin(e, f)' => e = f
    BY <1>1, <2>1, <1>a, <1>t
  <2>3. ASSUME NEW k \in cloned', k[1] = c, k[2] = count'[c], Akin(k[3], e)'
        PROVE  k[3] = e
    <3>1. k \in cloned /\ k[3] \in 1..made /\ k[2] = count[c]
      BY <1>1, <2>3, <1>c
    <3>2. Akin(k[3], e)
      BY <2>1, <2>3, <3>1, <1>a
    <3> QED
      BY <2>1, <2>3, <3>1, <3>2
  <2> QED
    BY <2>2, <2>3
<1>2. CASE UNCHANGED <<call, count, cloned>>
  <2>1. ASSUME NEW c \in Callers, NEW e \in call'[c].todo PROVE Part(c, e)'
    BY <1>1, <1>2
  <2> QED
    BY <2>1, <1>q
<1>3. ASSUME NEW c \in Callers, NEW rest \in SUBSET call[c].todo, GoOn(c, rest),
             UNCHANGED <<count, cloned>>
      PROVE  Once'
  <2>1. call'[c].todo = rest /\ \A d \in Callers \ {c} : call'[d] = call[d]
    BY <1>3, <1>i, <1>t, GoOnFacts
  <2>2. ASSUME NEW d \in Callers, NEW e \in call'[d].todo PROVE Part(d, e)'
    BY <1>1, <1>3, <2>1
  <2> QED
    BY <2>2, <1>q
<1>4. ASSUME NEW c \in Callers, Snapshot(c) PROVE Once'
  <2>1. /\ GoOn(c, Current) /\ count' = [count EXCEPT ![c] = @ + 1] /\ cloned' = cloned
    BY <1>4 DEF Snapshot, poolVars
  <2>2. call'[c].todo = Current /\ \A d \in Callers \ {c} : call'[d] = call[d]
    BY <2>1, <1>i, <1>t, GoOnFacts
  <2>3. count'[c] = count[c] + 1 /\ \A d \in Callers \ {c} : count'[d] = count[d]
    BY <2>1, <1>t
  <2>4. ASSUME NEW e \in Current PROVE Part(c, e)'
    <3>1. ASSUME NEW f \in Current, Akin(e, f)' PROVE e = f
      <4>1. Last(e) /\ Last(f) /\ e \in 1..made /\ f \in 1..made
        BY <1>t DEF Chains, Growing
      <4>2. Akin(e, f)
        BY <3>1, <4>1, <1>a
      <4> QED
        BY <4>1, <4>2, <1>t, OneLast
    <3>2. ASSUME NEW k \in cloned, k[1] = c, k[2] = count'[c] PROVE FALSE
      <4>1. k[2] <= count[c] /\ count[c] \in Nat
        BY <3>2, <1>t DEF Numbered
      <4> QED
        BY <3>2, <4>1, <2>3
    <3> QED
      BY <2>1, <2>2, <3>1, <3>2
  <2>5. ASSUME NEW d \in Callers, NEW e \in call'[d].todo PROVE Part(d, e)'
    <3>1. CASE d = c
      BY <3>1, <2>2, <2>4
    <3>2. CASE d # c
      BY <3>2, <2>1, <2>2, <2>3, <1>1
    <3> QED
      BY <3>1, <3>2
  <2> QED
    BY <2>5, <1>q
<1>5. ASSUME NEW c \in Callers, NEW e \in Entries, CheckFull(c, e) PROVE Once'
  <2>1. GoOn(c, call[c].todo \ {e}) /\ UNCHANGED <<count, cloned>>
    BY <1>5 DEF CheckFull, poolVars
  <2> QED
    BY <1>3, <2>1
<1>6. ASSUME NEW c \in Callers, Enqueue(c) PROVE Once'
  <2>1. GoOn(c, call[c].todo \ {call[c].entry}) /\ UNCHANGED <<count, cloned>>
    BY <1>6 DEF Enqueue
  <2> QED
    BY <1>3, <2>1
<1>7. ASSUME NEW c \in Callers, NEW e \in Entries, ClonePacket(c, e) PROVE Once'
  <2>0. PICK s : s = <<c, count[c], e>>
    OBVIOUS
  <2>1. /\ e \in call[c].todo /\ cloned' = cloned \cup {s} /\ count' = count
        /\ call' = [call EXCEPT ![c].at = "send", ![c].entry = e, ![c].clone = s]
    BY <2>0, <1>7 DEF ClonePacket
  <2>2. \A d \in Callers : call'[d].todo = call[d].todo
    BY <2>1, <1>t DEF CallStates
  <2>3. s[1] = c /\ s[2] = count[c] /\ s[3] = e /\ e \in 1..made
    BY <2>0, <2>1, <1>t
  <2>4. ASSUME NEW d \in Callers, NEW f \in call'[d].todo PROVE Part(d, f)'
    <3>1. f \in call[d].todo /\ f \in 1..made /\ Part(d, f)
      BY <2>2, <1>t, <1>p
    <3>2. \A g \in call'[d].todo : Akin(f, g)' => f = g
      BY <2>2, <3>1, <1>a, <1>t
    <3>3. ASSUME NEW k \in cloned', k[1] = d, k[2] = count'[d], Akin(k[3], f)'
          PROVE  k[3] = f
      <4>1. CASE k \in cloned
        BY <3>1, <3>3, <4>1, <2>1, <1>a, <1>c
      <4>2. CASE k = s
        <5>1. d = c /\ Akin(e, f)' /\ e \in call[d].todo
          BY <3>3, <4>2, <2>1, <2>3
        <5>2. Akin(e, f)
          BY <5>1, <2>3, <3>1, <1>a
        <5> QED
          BY <5>1, <5>2, <2>3, <3>1, <4>2, <1>p
      <4> QED
        BY <3>3, <4>1, <4>2, <2>1
    <3> QED
      BY <3>2, <3>3
  <2> QED
    BY <2>4, <1>q
<1>8. ASSUME NEW e \in Entries, Take(e) \/ WriteOut(e) PROVE Once'
  BY <1>8, <1>2 DEF Take, WriteOut, callVars, poolVars
<1>9. CASE Carry
  BY <1>9, <1>2 DEF Carry, callVars
<1>10. CASE UNCHANGED <<queue, hand, poolVars, callVars, out>>
  BY <1>10, <1>2 DEF callVars, poolVars
<1> QED
  BY <1>4, <1>5, <1>6, <1>7, <1>8, <1>9, <1>10, Frames, Zenon DEF Moves

(* Packets stay in the chain they were cloned for.                         *)
LEMMA HomesStep ==
    ASSUME StrandInv, StrandInv', Ownership, Homes, [Next]_vars
    PROVE  Homes'
<1>i. /\ MapTypes /\ MapTypes' /\ CallTypes /\ CallShape /\ MapOwned /\ Rebuild
      /\ PacketTypes
  BY DEF StrandInv
<1>t. /\ made \in Nat /\ 1..made \subseteq Entries /\ NoClone \notin Clones
      /\ queue \in [Entries -> Seq(Clones)] /\ out \in [Entries -> Seq(Clones)]
      /\ hand \in [Entries -> Clones \cup {NoClone}]
      /\ \A e \in Entries : Distinct(queue[e]) /\ egress[e] \in Entries
      /\ \A c \in Callers : call[c].todo \subseteq 1..made
  BY <1>i, MadeFacts, CloneFacts DEF PacketTypes, Ownership, MapTypes, CallTypes, CallStates
<1>h. /\ \A e \in Entries : \A k \in Listed(queue[e]) : Akin(k[3], e)
      /\ \A e \in Entries : hand[e] # NoClone => Akin(hand[e][3], e)
      /\ \A e \in Entries : \A k \in Listed(out[e]) : k \in pool /\ egress[k[3]] = e
      /\ \A k \in cloned : k[3] <= made
  BY DEF Homes
<1>f. \A c \in Callers : \A e \in call[c].todo : e <= made
  BY <1>t
(* The steps that leave the packets alone.                                 *)
<1>1. CASE UNCHANGED <<queue, hand, poolVars, callVars, out>>
  <2>1. UNCHANGED <<queue, hand, cloned, pool, out>>
    BY <1>1 DEF poolVars
  <2>2. \A k \in cloned : k \in Clones /\ k[3] \in 1..made
    <3>1. \A k \in cloned : k \in Clones /\ k[3] \in Nat /\ k[3] # 0
      BY <1>i, CloneFacts DEF Entries, PacketTypes
    <3> QED
      BY <3>1, <1>h, <1>t
  <2>3. /\ 1..made \subseteq 1..made' /\ made' \in Nat
    BY <1>i, EntriesKept, MadeGrows, <1>t
  <2>4. \A k \in cloned' : k[3] <= made'
    BY <2>1, <2>2, <2>3
  <2>5. \A e \in 1..made : egress'[e] = egress[e]
    BY <1>i, AkinKept
  <2>6. ASSUME NEW e \in Entries, NEW k \in Listed(queue[e]) PROVE Akin(k[3], e)'
    <3>1. k \in Clones /\ queue[e] # <<>>
      BY <1>t DEF Listed
    <3>2. k \in cloned
      BY <3>1, Found
    <3>3. e \in 1..made
      BY <3>1, <1>i, <1>t DEF MapOwned, Entries
    <3> QED
      BY <2>2, <2>5, <3>2, <3>3, <1>h DEF Akin
  <2>7. ASSUME NEW e \in Entries, hand[e] # NoClone PROVE egress'[hand[e][3]] = egress'[e]
    <3>1. hand[e] \in Clones
      BY <2>7, <1>t
    <3>2. hand[e] \in cloned
      BY <3>1, Found
    <3>3. e \in 1..made
      BY <2>7, <1>i, <1>t DEF MapOwned, Entries
    <3> QED
      BY <2>2, <2>5, <2>7, <3>2, <3>3, <1>h DEF Akin
  <2>8. ASSUME NEW e \in Entries, NEW k \in Listed(out[e])
        PROVE  k \in pool /\ egress'[k[3]] = e
    <3>1. k \in Clones /\ k \in pool
      BY <1>t, <1>h DEF Listed
    <3>2. k \in cloned
      BY <3>1, Found
    <3> QED
      BY <2>2, <2>5, <3>1, <3>2, <1>h
  <2> QED
    BY <2>1, <2>4, <2>6, <2>7, <2>8 DEF Homes, Akin
(* The others keep the chains.                                             *)
<1>2. ASSUME UNCHANGED <<made, egress>>,
             \A e \in Entries : \A k \in Listed(queue'[e]) : Akin(k[3], e),
             \A e \in Entries : hand'[e] # NoClone => Akin(hand'[e][3], e),
             \A e \in Entries : \A k \in Listed(out'[e]) : k \in pool' /\ egress[k[3]] = e,
             \A k \in cloned' : k[3] <= made
      PROVE  Homes'
  BY <1>2 DEF Homes, Akin
<1>3. ASSUME NEW c \in Callers, Snapshot(c) PROVE Homes'
  BY <1>2, <1>3, <1>h DEF Snapshot, mapVars, poolVars
<1>4. ASSUME NEW c \in Callers, NEW e \in Entries, CheckFull(c, e) PROVE Homes'
  BY <1>2, <1>4, <1>h DEF CheckFull, mapVars, poolVars
<1>5. ASSUME NEW c \in Callers, NEW e \in Entries, ClonePacket(c, e) PROVE Homes'
  <2>1. /\ cloned' = cloned \cup {<<c, count[c], e>>} /\ e \in call[c].todo
        /\ UNCHANGED <<made, egress, queue, hand, out, pool>>
    BY <1>5 DEF ClonePacket, mapVars
  <2>2. \A k \in cloned' : k[3] <= made
    BY <2>1, <1>h, <1>f
  <2> QED
    BY <1>2, <2>1, <2>2, <1>h
<1>6. ASSUME NEW c \in Callers, Enqueue(c) PROVE Homes'
  <2>0. PICK s, e : s = call[c].clone /\ e = call[c].entry
    OBVIOUS
  <2>1. /\ UNCHANGED <<made, egress, hand, out, cloned>>
        /\ \/ queue' = [queue EXCEPT ![e] = Append(@, s)] /\ pool' = pool
           \/ pool' = pool \cup {s} /\ queue' = queue
    BY <2>0, <1>6 DEF Enqueue, mapVars
  <2>2. s \in Clones /\ e \in Entries /\ s[3] = e
    BY <2>0, <1>6, <1>i, SentClone, MadeFacts DEF Enqueue
  <2>3. \A f \in Entries : \A k \in Listed(queue'[f]) : Akin(k[3], f)
    <3>1. CASE queue' = [queue EXCEPT ![e] = Append(@, s)]
      <4>1. /\ queue'[e] = Append(queue[e], s)
            /\ \A f \in Entries \ {e} : queue'[f] = queue[f]
        BY <2>2, <3>1, <1>t
      <4>2. Listed(queue'[e]) = Listed(queue[e]) \cup {s}
        BY <2>2, <4>1, <1>t, ListedAppend
      <4>3. Akin(s[3], e)
        BY <2>2 DEF Akin
      <4>4. \A k \in Listed(queue'[e]) : Akin(k[3], e)
        BY <2>2, <4>2, <4>3, <1>h
      <4>5. \A f \in Entries \ {e} : \A k \in Listed(queue'[f]) : Akin(k[3], f)
        BY <4>1, <1>h
      <4> QED
        BY <4>4, <4>5
    <3>2. CASE queue' = queue
      BY <3>2, <1>h
    <3> QED
      BY <2>1, <3>1, <3>2
  <2>4. \A f \in Entries : \A k \in Listed(out'[f]) : k \in pool' /\ egress[k[3]] = f
    BY <2>1, <1>h
  <2> QED
    BY <1>2, <2>1, <2>3, <2>4, <1>h
<1>7. ASSUME NEW e \in Entries, Take(e) PROVE Homes'
  <2>0. PICK s : s = Head(queue[e])
    OBVIOUS
  <2>1. /\ queue[e] # <<>> /\ UNCHANGED <<made, egress, pool, cloned, out>>
        /\ hand' = [hand EXCEPT ![e] = s] /\ queue' = [queue EXCEPT ![e] = Tail(@)]
    BY <2>0, <1>7 DEF Take, mapVars, poolVars
  <2>2. /\ s \in Listed(queue[e]) /\ Listed(Tail(queue[e])) \subseteq Listed(queue[e])
    BY <2>0, <2>1, <1>t, ListedTail
  <2>3. /\ hand'[e] = s /\ \A f \in Entries \ {e} : hand'[f] = hand[f]
        /\ queue'[e] = Tail(queue[e]) /\ \A f \in Entries \ {e} : queue'[f] = queue[f]
    BY <2>1, <1>t
  <2>4. \A f \in Entries : \A k \in Listed(queue'[f]) : Akin(k[3], f)
    BY <2>2, <2>3, <1>h
  <2>5. \A f \in Entries : hand'[f] # NoClone => Akin(hand'[f][3], f)
    BY <2>2, <2>3, <1>h
  <2> QED
    BY <1>2, <2>1, <2>4, <2>5, <1>h
<1>8. ASSUME NEW e \in Entries, WriteOut(e) PROVE Homes'
  <2>0. PICK s, g : s = hand[e] /\ g = egress[e]
    OBVIOUS
  <2>1. /\ s # NoClone /\ UNCHANGED <<made, egress, queue, cloned>>
        /\ out' = [out EXCEPT ![g] = Append(@, s)] /\ pool' = pool \cup {s}
        /\ hand' = [hand EXCEPT ![e] = NoClone]
    BY <2>0, <1>8 DEF WriteOut, mapVars
  <2>2. s \in Clones /\ g \in Entries /\ egress[s[3]] = g
    BY <2>0, <2>1, <1>t, <1>h DEF Akin
  <2>3. /\ out'[g] = Append(out[g], s) /\ \A f \in Entries \ {g} : out'[f] = out[f]
        /\ hand'[e] = NoClone /\ \A f \in Entries \ {e} : hand'[f] = hand[f]
    BY <2>1, <2>2, <1>t
  <2>4. Listed(out'[g]) = Listed(out[g]) \cup {s}
    BY <2>2, <2>3, <1>t, ListedAppend
  <2>5. \A f \in Entries : \A k \in Listed(out'[f]) : k \in pool' /\ egress[k[3]] = f
    BY <2>1, <2>2, <2>3, <2>4, <1>h
  <2>6. \A f \in Entries : hand'[f] # NoClone => Akin(hand'[f][3], f)
    BY <2>3, <1>h
  <2> QED
    BY <1>2, <2>1, <2>5, <2>6, <1>h
<1>9. CASE Carry
  <2>0. PICK o, n, s : o = op.old /\ n = op.new /\ s = Head(queue[o])
    OBVIOUS
  <2>1. /\ o \in Entries /\ n \in Entries /\ o # n /\ queue[o] # <<>>
        /\ egress[n] = egress[o]
    BY <2>0, <1>9, <1>i, ReplacingFacts DEF Carry, Replacing, Rebuild
  <2>2. /\ UNCHANGED <<made, egress, hand, cloned, out>>
        /\ \/ /\ queue' = [queue EXCEPT ![o] = Tail(@), ![n] = Append(@, s)]
              /\ pool' = pool
           \/ queue' = [queue EXCEPT ![o] = Tail(@)] /\ pool' = pool \cup {s}
    BY <2>0, <1>9 DEF Carry, mapVars
  <2>3. /\ s \in Clones /\ s \in Listed(queue[o])
        /\ Listed(Tail(queue[o])) \subseteq Listed(queue[o])
    BY <2>0, <2>1, <1>t, TailFacts, ListedTail
  <2>4. Akin(s[3], n)
    BY <2>1, <2>3, <1>h DEF Akin
  <2>5. \A f \in Entries : \A k \in Listed(queue'[f]) : Akin(k[3], f)
    <3>1. CASE queue' = [queue EXCEPT ![o] = Tail(@), ![n] = Append(@, s)]
      <4>1. /\ queue'[o] = Tail(queue[o]) /\ queue'[n] = Append(queue[n], s)
            /\ \A f \in Entries \ {o, n} : queue'[f] = queue[f]
        BY <2>1, <3>1, <1>t
      <4>2. Listed(queue'[n]) = Listed(queue[n]) \cup {s}
        BY <2>1, <2>3, <4>1, <1>t, ListedAppend
      <4>3. \A k \in Listed(queue'[n]) : Akin(k[3], n)
        BY <2>1, <2>4, <4>2, <1>h
      <4>4. \A k \in Listed(queue'[o]) : Akin(k[3], o)
        BY <2>1, <2>3, <4>1, <1>h
      <4>5. \A f \in Entries \ {o, n} : \A k \in Listed(queue'[f]) : Akin(k[3], f)
        BY <4>1, <1>h
      <4> QED
        BY <4>3, <4>4, <4>5
    <3>2. CASE queue' = [queue EXCEPT ![o] = Tail(@)]
      <4>1. /\ queue'[o] = Tail(queue[o])
            /\ \A f \in Entries \ {o} : queue'[f] = queue[f]
        BY <2>1, <3>2, <1>t
      <4> QED
        BY <2>3, <4>1, <1>h
    <3> QED
      BY <2>2, <3>1, <3>2
  <2>6. \A f \in Entries : \A k \in Listed(out'[f]) : k \in pool' /\ egress[k[3]] = f
    BY <2>2, <1>h
  <2> QED
    BY <1>2, <2>2, <2>5, <2>6, <1>h
<1>10. Moves => Homes'
  BY <1>3, <1>4, <1>5, <1>6, <1>7, <1>8, <1>9, Zenon DEF Moves
<1> QED
  BY <1>1, <1>10, Frames

(* What is in a stream is of its chain, and in no call's hands.            *)
LEMMA StreamFacts ==
    ASSUME StrandInv, Ownership, Homes, NEW e \in Entries,
           NEW k \in Written(e) \cup Holding(e) \cup Waiting(e)
    PROVE  k \in cloned /\ Akin(k[3], e) /\ \A c \in Callers : call[c].clone # k
<1>t. /\ queue \in [Entries -> Seq(Clones)] /\ out \in [Entries -> Seq(Clones)]
      /\ hand \in [Entries -> Clones \cup {NoClone}] /\ egress[e] \in Entries
  BY DEF StrandInv, PacketTypes, MapTypes
<1>1. CASE k \in Written(e)
  <2>1. k \in Clones /\ k \in pool /\ Akin(k[3], e)
    <3>1. k \in Listed(out[egress[e]])
      BY <1>1 DEF Written
    <3>2. k \in Clones
      BY <3>1, <1>t DEF Listed
    <3> QED
      BY <3>1, <3>2, <1>t DEF Homes, Akin
  <2>2. k \in cloned /\ Owned(k, "pool", None)
    BY <2>1, Found
  <2> QED
    BY <2>1, <2>2 DEF Owned
<1>2. CASE k \in Holding(e)
  <2>1. k \in Clones /\ hand[e] = k /\ Akin(k[3], e)
    BY <1>2, <1>t DEF Holding, Homes
  <2>2. k \in cloned /\ Owned(k, "hand", e)
    BY <2>1, Found
  <2> QED
    BY <2>1, <2>2 DEF Owned
<1>3. CASE k \in Waiting(e)
  <2>1. k \in Clones /\ k \in Listed(queue[e]) /\ Akin(k[3], e)
    <3>1. k \in Listed(queue[e])
      BY <1>3 DEF Waiting
    <3>2. k \in Clones
      BY <3>1, <1>t DEF Listed
    <3> QED
      BY <3>1, <3>2, <1>t DEF Homes
  <2>2. k \in cloned /\ Owned(k, "queue", e)
    BY <2>1, Found
  <2> QED
    BY <2>1, <2>2 DEF Owned
<1> QED
  BY <1>1, <1>2, <1>3

(* The clone a call is about to send is later than all of its stream.      *)
LEMMA SentLast ==
    ASSUME StrandInv, Ownership, Numbered, Homes, Once, NEW c \in Callers,
           call[c].at = "send", NEW s, s = call[c].clone, NEW f \in Entries,
           Akin(f, call[c].entry)
    PROVE  /\ Before(Written(f), {s}) /\ Before(Holding(f), {s})
           /\ Before(Waiting(f), {s})
<1>t. /\ s = <<c, count[c], call[c].entry>> /\ call[c].entry \in call[c].todo
      /\ count[c] \in Nat
  BY SentClone, QueueAssumption DEF StrandInv, CallTypes
<1>1. ASSUME NEW k \in Written(f) \cup Holding(f) \cup Waiting(f) PROVE Earlier(k, s)
  <2>1. k \in cloned /\ Akin(k[3], f) /\ k # s
    BY StreamFacts
  <2>2. Akin(k[3], call[c].entry)
    BY <2>1 DEF Akin
  <2>3. k \in Clones
    BY <2>1 DEF StrandInv, PacketTypes
  <2>4. k = <<k[1], k[2], k[3]>> /\ k[2] \in Nat
    BY <2>3 DEF Clones
  <2>5. CASE k[1] = c
    <3>1. k[2] <= count[c]
      BY <2>1, <2>5 DEF Numbered
    <3>2. k[2] # count[c]
      <4>1. SUFFICES ASSUME k[2] = count[c] PROVE FALSE
        OBVIOUS
      <4>2. k[3] = call[c].entry
        BY <2>1, <2>2, <2>5, <4>1, <1>t DEF Once
      <4> QED
        BY <2>1, <2>4, <2>5, <4>1, <4>2, <1>t
    <3> QED
      BY <3>1, <3>2, <2>4, <1>t DEF Earlier
  <2>6. CASE k[1] # c
    BY <2>6, <1>t DEF Earlier
  <2> QED
    BY <2>5, <2>6
<1> QED
  BY <1>1 DEF Before

(* Packets are carried over only after an entry got its successor.         *)
LEMMA CarryBegins ==
    ASSUME MapTypes, [Next]_vars, op'.at = "carry", op' # op
    PROVE  Succeeds
<1>t. op \in OpStates(made)
  BY DEF MapTypes
<1>1. ~StopBegin /\ ~StopEnd /\ ~UpdateEnd
  <2>1. ~StopBegin
    BY DEF StopBegin, Free
  <2>2. ~StopEnd
    BY DEF StopEnd, Free
  <2>3. ~UpdateEnd
    BY DEF UpdateEnd, Free
  <2> QED
    BY <2>1, <2>2, <2>3
<1>2. ~StopCancel /\ ~UpdateSwap
  BY <1>t DEF StopCancel, UpdateSwap, OpStates
<1>3. \A es : ~UpdateBegin(es)
  BY DEF UpdateBegin, Free
<1>4. \A e \in Entries : ~ReconcileStop(e)
  BY <1>t DEF ReconcileStop, OpStates
<1>5. ~ReconcileDelete /\ ~ReconcileInsert
  BY <1>t DEF ReconcileDelete, ReconcileInsert, OpStates
<1>6. ReconcileSwap => Succeeds
  BY <1>t DEF ReconcileSwap, Succeeds, OpStates
<1> QED
  BY <1>1, <1>2, <1>3, <1>4, <1>5, <1>6, OpSteps, Zenon DEF OpStep

(* The order of the streams.                                               *)
LEMMA StreamsStep ==
    ASSUME StrandInv, StrandInv', Ownership, Numbered, Chains, Unheld, Homes, Once,
           Streams, [Next]_vars
    PROVE  Streams'
<1>i. /\ MapTypes /\ MapTypes' /\ CallTypes /\ CallShape /\ MapOwned /\ Rebuild
      /\ PacketTypes
  BY DEF StrandInv
<1>t. /\ made \in Nat /\ 1..made \subseteq Entries /\ NoClone \notin Clones
      /\ (made < MaxEntries => made + 1 \in Entries)
      /\ queue \in [Entries -> Seq(Clones)] /\ out \in [Entries -> Seq(Clones)]
      /\ hand \in [Entries -> Clones \cup {NoClone}]
      /\ \A e \in Entries : Distinct(queue[e]) /\ egress[e] \in Entries
  BY <1>i, MadeFacts, CloneFacts DEF PacketTypes, Ownership, MapTypes
<1>s. /\ \A e \in Entries : Sorted(out[e])
      /\ \A e \in 1..made : Last(e) => Flow(e)
      /\ \A o, n \in Entries :
            op.at = "carry" /\ o = op.old /\ n = op.new => Carried(o, n)
  BY DEF Streams
(* The entry that is replaced and its successor.                           *)
<1>o. ASSUME NEW o \in Entries, NEW n \in Entries, op.at = "carry", o = op.old, n = op.new
      PROVE  /\ o \in 1..made /\ n \in 1..made /\ o # n
             /\ writer[o] = "done" /\ writer[n] = "none"
             /\ egress[n] = egress[o] /\ Last(n) /\ ~Last(o)
  <2>1. /\ o \in 1..made /\ n \in 1..made /\ o # n
        /\ writer[o] = "done" /\ writer[n] = "none" /\ egress[n] = egress[o]
    BY <1>o, <1>i, ReplacingFacts DEF Rebuild, Replacing
  <2>2. Last(n)
    BY <1>o DEF Chains, Growing
  <2>3. ~Last(o)
    BY <2>1, <2>2, <1>t, OneLast DEF Akin
  <2> QED
    BY <2>1, <2>2, <2>3
(* A writer that is alive is that of the last entry of its chain.          *)
<1>l. ASSUME NEW e \in Entries, writer[e] \in {"live", "cancelled"}
      PROVE  e \in 1..made /\ Last(e) /\ Flow(e)
  <2>1. e \in 1..made
    BY <1>l, <1>i, <1>t DEF MapOwned, Entries
  <2>2. Last(e)
    BY <1>l DEF Chains, Growing
  <2> QED
    BY <2>1, <2>2, <1>s
(* What keeps the streams as they are.                                     *)
<1>f. ASSUME NEW e \in Entries, egress'[e] = egress[e], Flow(e),
             out'[egress[e]] = out[egress[e]], hand'[e] = hand[e], queue'[e] = queue[e]
      PROVE  Flow(e)'
  BY <1>f DEF Flow, Written, Holding, Waiting
<1>c. ASSUME NEW o \in Entries, NEW n \in Entries, egress'[o] = egress[o], Carried(o, n),
             out'[egress[o]] = out[egress[o]], queue'[o] = queue[o], queue'[n] = queue[n]
      PROVE  Carried(o, n)'
  BY <1>c DEF Carried, Written, Waiting
(* The steps that move packets leave the chains alone.                     *)
<1>m. ASSUME UNCHANGED <<made, egress, op>>,
             \A e \in Entries : Sorted(out'[e]),
             \A e \in 1..made : Last(e) => Flow(e)',
             \A o, n \in Entries :
                 op.at = "carry" /\ o = op.old /\ n = op.new => Carried(o, n)'
      PROVE  Streams'
  <2>1. \A e \in 1..made : Last(e)' => Last(e)
    BY <1>m DEF Last, Akin
  <2> QED
    BY <1>m, <2>1 DEF Streams
<1>u. ASSUME UNCHANGED <<made, egress, op, queue, hand, out>> PROVE Streams'
  <2>1. ASSUME NEW e \in 1..made, Last(e) PROVE Flow(e)'
    <3>1. e \in Entries /\ Flow(e)
      BY <2>1, <1>s, <1>t
    <3> QED
      BY <1>u, <3>1, <1>f
  <2>2. ASSUME NEW o \in Entries, NEW n \in Entries, op.at = "carry", o = op.old, n = op.new
        PROVE  Carried(o, n)'
    BY <1>u, <2>2, <1>s, <1>c
  <2> QED
    BY <1>u, <1>m, <1>s, <2>1, <2>2
<1>1. CASE UNCHANGED <<queue, hand, poolVars, callVars, out>>
  <2>0. \A e \in 1..made : egress'[e] = egress[e]
    BY <1>i, AkinKept
  <2>n. ASSUME NEW e \in Entries, e > made
        PROVE  queue[e] = <<>> /\ Waiting(e)' = {} /\ Holding(e)' = {}
    <3>1. queue[e] = <<>> /\ hand[e] = NoClone
      BY <2>n, <1>i DEF MapOwned
    <3> QED
      BY <3>1, <1>1 DEF Waiting, Holding, Listed
  <2>1. ASSUME NEW e \in 1..made', Last(e)' PROVE Flow(e)'
    <3>1. CASE e \in 1..made
      <4>1. 1..made \subseteq 1..made'
        BY <1>i, EntriesKept
      <4>2. \A f \in 1..made : Akin(e, f)' <=> Akin(e, f)
        BY <3>1, <1>i, AkinKept
      <4>3. Last(e)
        BY <2>1, <4>1, <4>2 DEF Last
      <4> QED
        BY <3>1, <4>3, <2>0, <1>1, <1>f, <1>s, <1>t
    <3>2. CASE e \notin 1..made
      <4>1. e = made + 1 /\ made' = made + 1
        BY <3>2, <1>i, EntriesKept
      <4>2. e \in Entries /\ e > made
        BY <4>1, <1>i, <1>t, Growth DEF Succeeds
      <4>3. queue'[e] = <<>> /\ Waiting(e)' = {} /\ Holding(e)' = {}
        BY <4>2, <2>n, <1>1
      <4> QED
        BY <4>3 DEF Flow, Before, Sorted
    <3> QED
      BY <3>1, <3>2
  <2>2. ASSUME NEW o \in Entries, NEW n \in Entries, op'.at = "carry",
               o = op'.old, n = op'.new
        PROVE  Carried(o, n)'
    <3>1. CASE op' = op
      BY <2>0, <2>2, <3>1, <1>1, <1>c, <1>o, <1>s
    <3>2. CASE op' # op
      <4>1. Succeeds
        BY <2>2, <3>2, <1>i, CarryBegins
      <4>2. op.at = "swap" /\ o = op.old /\ n = made + 1
        BY <2>2, <4>1, <1>i DEF Succeeds, MapTypes, OpStates
      <4>3. o \in 1..made /\ Last(o)
        BY <4>2, <1>i, ReplacingFacts DEF Replacing, Chains, Growing
      <4>4. Flow(o)'
        BY <4>3, <2>0, <1>1, <1>f, <1>s
      <4>5. Waiting(n)' = {}
        BY <4>2, <2>n, <1>t
      <4> QED
        BY <4>4, <4>5 DEF Flow, Carried, Before
    <3> QED
      BY <3>1, <3>2
  <2> QED
    BY <1>1, <1>s, <2>1, <2>2 DEF Streams
<1>2. ASSUME NEW c \in Callers, Snapshot(c) PROVE Streams'
  BY <1>2, <1>u DEF Snapshot, mapVars
<1>3. ASSUME NEW c \in Callers, NEW e \in Entries, CheckFull(c, e) \/ ClonePacket(c, e)
      PROVE  Streams'
  BY <1>3, <1>u DEF CheckFull, ClonePacket, mapVars
<1>4. ASSUME NEW c \in Callers, Enqueue(c) PROVE Streams'
  <2>0. PICK s, e : s = call[c].clone /\ e = call[c].entry
    OBVIOUS
  <2>1. /\ call[c].at = "send" /\ UNCHANGED <<made, egress, op, hand, out>>
        /\ \/ queue' = [queue EXCEPT ![e] = Append(@, s)]
           \/ queue' = queue
    BY <2>0, <1>4 DEF Enqueue, mapVars
  <2>2. s \in Clones /\ e \in 1..made /\ e \in Entries /\ e \in call[c].todo
    BY <2>0, <2>1, <1>i, <1>t, SentClone
  <2>3. CASE queue' = queue
    BY <2>1, <2>3, <1>u
  <2>4. CASE queue' = [queue EXCEPT ![e] = Append(@, s)]
    <3>1. /\ queue'[e] = Append(queue[e], s)
          /\ \A f \in Entries \ {e} : queue'[f] = queue[f]
      BY <2>2, <2>4, <1>t
    <3>2. Waiting(e)' = Waiting(e) \cup {s}
      BY <2>2, <3>1, <1>t, ListedAppend DEF Waiting
    <3>3. \A f \in Entries : Written(f)' = Written(f) /\ Holding(f)' = Holding(f)
      BY <2>1 DEF Written, Holding
    <3>4. \A f \in Entries : Akin(f, e) =>
             Before(Written(f), {s}) /\ Before(Holding(f), {s}) /\ Before(Waiting(f), {s})
      BY <2>0, <2>1, SentLast
    <3>5. /\ Before(Written(e), {s}) /\ Before(Holding(e), {s})
          /\ Before(Waiting(e), {s})
      BY <2>2, <3>4 DEF Akin
    <3>6. Sorted(queue[e]) => Sorted(queue'[e])
      BY <2>2, <3>1, <3>5, <1>t, SortedAppend DEF Waiting
    <3>7. ASSUME NEW f \in 1..made, Last(f) PROVE Flow(f)'
      <4>1. f \in Entries /\ Flow(f)
        BY <3>7, <1>s, <1>t
      <4>2. CASE f = e
        <5>1. /\ Before(Written(e), Waiting(e) \cup {s})
              /\ Before(Holding(e), Waiting(e) \cup {s})
          BY <3>5, <4>1, <4>2 DEF Before, Flow
        <5> QED
          BY <2>2, <3>2, <3>3, <3>6, <4>1, <4>2, <5>1 DEF Flow
      <4>3. CASE f # e
        BY <2>1, <3>1, <4>1, <4>3, <1>f
      <4> QED
        BY <4>2, <4>3
    <3>8. ASSUME NEW o \in Entries, NEW n \in Entries, op.at = "carry", o = op.old, n = op.new
          PROVE  Carried(o, n)'
      <4>1. Carried(o, n) /\ writer[n] = "none" /\ Akin(n, o)
        BY <3>8, <1>s, <1>o DEF Akin
      <4>2. n # e
        BY <2>2, <4>1 DEF Unheld, Holders
      <4>3. CASE o = e
        <5>1. Before(Written(e), Waiting(e) \cup {s}) /\ Before(Waiting(n), Waiting(e) \cup {s})
          BY <3>4, <3>5, <4>1, <4>3 DEF Before, Carried
        <5>2. Waiting(n)' = Waiting(n)
          BY <3>1, <4>2 DEF Waiting
        <5> QED
          BY <2>2, <3>2, <3>3, <3>6, <4>1, <4>3, <5>1, <5>2 DEF Carried
      <4>4. CASE o # e
        BY <2>1, <3>1, <4>1, <4>2, <4>4, <1>c
      <4> QED
        BY <4>3, <4>4
    <3> QED
      BY <2>1, <3>7, <3>8, <1>m, <1>s
  <2> QED
    BY <2>1, <2>3, <2>4
<1>5. ASSUME NEW e \in Entries, Take(e) PROVE Streams'
  <2>0. PICK s : s = Head(queue[e])
    OBVIOUS
  <2>1. /\ writer[e] \in {"live", "cancelled"} /\ hand[e] = NoClone /\ queue[e] # <<>>
        /\ hand' = [hand EXCEPT ![e] = s] /\ queue' = [queue EXCEPT ![e] = Tail(@)]
        /\ UNCHANGED <<made, egress, op, out>>
    BY <2>0, <1>5 DEF Take, mapVars
  <2>2. /\ hand'[e] = s /\ \A f \in Entries \ {e} : hand'[f] = hand[f]
        /\ queue'[e] = Tail(queue[e]) /\ \A f \in Entries \ {e} : queue'[f] = queue[f]
    BY <2>1, <1>t
  <2>3. e \in 1..made /\ Last(e) /\ Flow(e)
    BY <2>1, <1>l
  <2>4. /\ s \in Waiting(e) /\ Waiting(e)' \subseteq Waiting(e) /\ s \in Clones
    BY <2>0, <2>1, <2>2, <1>t, ListedTail, TailFacts DEF Waiting
  <2>5. Sorted(queue'[e]) /\ Before({s}, Waiting(e)')
    BY <2>0, <2>1, <2>2, <2>3, <1>t, SortedTail DEF Flow, Waiting
  <2>6. Holding(e)' = {s} /\ Written(e)' = Written(e)
    BY <2>1, <2>2, <2>4, <1>t DEF Holding, Written
  <2>7. Before(Written(e), {s}) /\ Before(Written(e), Waiting(e)')
    BY <2>3, <2>4 DEF Flow, Before
  <2>8. Flow(e)'
    BY <2>5, <2>6, <2>7 DEF Flow
  <2>9. ASSUME NEW f \in 1..made, Last(f) PROVE Flow(f)'
    <3>1. f \in Entries /\ Flow(f)
      BY <2>9, <1>s, <1>t
    <3> QED
      BY <2>1, <2>2, <2>8, <3>1, <1>f
  <2>10. ASSUME NEW o \in Entries, NEW n \in Entries, op.at = "carry", o = op.old, n = op.new
         PROVE  Carried(o, n)'
    <3>1. o # e /\ n # e /\ Carried(o, n)
      BY <2>1, <2>10, <1>o, <1>s
    <3> QED
      BY <2>1, <2>2, <3>1, <1>c
  <2> QED
    BY <2>1, <2>9, <2>10, <1>m, <1>s
<1>6. ASSUME NEW e \in Entries, WriteOut(e) PROVE Streams'
  <2>0. PICK s, g : s = hand[e] /\ g = egress[e]
    OBVIOUS
  <2>1. /\ s # NoClone /\ UNCHANGED <<made, egress, op, queue>>
        /\ out' = [out EXCEPT ![g] = Append(@, s)]
        /\ hand' = [hand EXCEPT ![e] = NoClone]
    BY <2>0, <1>6 DEF WriteOut, mapVars
  <2>2. s \in Clones /\ g \in Entries /\ Holding(e) = {s}
    BY <2>0, <2>1, <1>t DEF Holding
  <2>3. writer[e] \in {"live", "cancelled"} /\ e \in 1..made /\ Last(e) /\ Flow(e)
    BY <2>0, <2>1, <1>i, <1>l DEF MapOwned
  <2>4. /\ out'[g] = Append(out[g], s) /\ \A f \in Entries \ {g} : out'[f] = out[f]
        /\ hand'[e] = NoClone /\ \A f \in Entries \ {e} : hand'[f] = hand[f]
    BY <2>1, <2>2, <1>t
  <2>5. Before(Listed(out[g]), {s})
    BY <2>0, <2>2, <2>3 DEF Flow, Written
  <2>6. \A f \in Entries : Sorted(out'[f])
    <3>1. Sorted(Append(out[g], s))
      BY <2>2, <2>5, <1>s, <1>t, SortedAppend
    <3> QED
      BY <2>4, <3>1, <1>s
  <2>7. /\ Written(e)' = Written(e) \cup {s} /\ Holding(e)' = {}
        /\ Waiting(e)' = Waiting(e)
    <3>1. Listed(out'[g]) = Listed(out[g]) \cup {s}
      BY <2>2, <2>4, <1>t, ListedAppend
    <3> QED
      BY <2>0, <2>1, <2>4, <3>1 DEF Written, Holding, Waiting
  <2>8. Flow(e)'
    <3>1. Before(Written(e) \cup {s}, Waiting(e)) /\ Before(Written(e) \cup {s}, {})
      BY <2>2, <2>3 DEF Flow, Before
    <3>2. Before({}, Waiting(e))
      BY DEF Before
    <3> QED
      BY <2>1, <2>3, <2>7, <3>1, <3>2 DEF Flow
  <2>9. ASSUME NEW f \in 1..made, Last(f) PROVE Flow(f)'
    <3>1. f \in Entries /\ Flow(f) /\ egress[f] \in Entries
      BY <2>9, <1>s, <1>t
    <3>2. CASE f = e
      BY <2>8, <3>2
    <3>3. CASE f # e
      <4>1. egress[f] # g
        BY <2>0, <2>3, <2>9, <3>3, <1>t, OneLast DEF Akin
      <4> QED
        BY <2>1, <2>4, <3>1, <3>3, <4>1, <1>f
    <3> QED
      BY <3>2, <3>3
  <2>10. ASSUME NEW o \in Entries, NEW n \in Entries, op.at = "carry", o = op.old, n = op.new
         PROVE  Carried(o, n)'
    <3>1. /\ Carried(o, n) /\ n \in 1..made /\ Last(n) /\ n # e
          /\ egress[n] = egress[o] /\ egress[o] \in Entries
      BY <2>3, <2>10, <1>o, <1>s, <1>t
    <3>2. egress[o] # g
      BY <2>0, <2>3, <3>1, <1>t, OneLast DEF Akin
    <3> QED
      BY <2>1, <2>4, <3>1, <3>2, <1>c
  <2> QED
    BY <2>1, <2>6, <2>9, <2>10, <1>m
<1>7. CASE Carry
  <2>0. PICK o, n, s : o = op.old /\ n = op.new /\ s = Head(queue[o])
    OBVIOUS
  <2>1. /\ op.at = "carry" /\ queue[o] # <<>> /\ UNCHANGED <<made, egress, op, hand, out>>
        /\ \/ queue' = [queue EXCEPT ![o] = Tail(@), ![n] = Append(@, s)]
           \/ queue' = [queue EXCEPT ![o] = Tail(@)]
    BY <2>0, <1>7 DEF Carry, mapVars
  <2>2. /\ o \in Entries /\ n \in Entries /\ o # n /\ writer[n] = "none"
        /\ egress[n] = egress[o] /\ Last(n) /\ ~Last(o) /\ Carried(o, n)
        /\ n \in 1..made
    <3>1. o \in Entries /\ n \in Entries
      BY <2>0, <2>1, <1>i, ReplacingFacts DEF Replacing
    <3> QED
      BY <2>0, <2>1, <3>1, <1>o, <1>s
  <2>3. /\ s \in Waiting(o) /\ s \in Clones
        /\ Listed(Tail(queue[o])) \subseteq Waiting(o)
        /\ Sorted(Tail(queue[o])) /\ Before({s}, Listed(Tail(queue[o])))
    <3>1. queue[o] \in Seq(Clones) /\ Distinct(queue[o]) /\ Sorted(queue[o])
      BY <2>2, <1>t DEF Carried
    <3>2. /\ s \in Listed(queue[o]) /\ s \in Clones
          /\ Listed(Tail(queue[o])) \subseteq Listed(queue[o])
      BY <2>0, <2>1, <3>1, TailFacts, ListedTail
    <3>3. Sorted(Tail(queue[o])) /\ Before({s}, Listed(Tail(queue[o])))
      BY <2>0, <2>1, <3>1, SortedTail
    <3> QED
      BY <3>2, <3>3 DEF Waiting
  <2>4. queue'[o] = Tail(queue[o]) /\ \A f \in Entries \ {o, n} : queue'[f] = queue[f]
    BY <2>1, <2>2, <1>t
  <2>5. Flow(n) /\ Holding(n) = {}
    BY <2>2, <1>i, <1>s DEF MapOwned, Holding
  <2>6. \A f \in Entries : Written(f)' = Written(f) /\ Holding(f)' = Holding(f)
    BY <2>1 DEF Written, Holding
  <2>7. Written(n) = Written(o)
    BY <2>2 DEF Written
  <2>8. Before(Waiting(n), {s}) /\ Before(Written(n), {s})
    BY <2>2, <2>3, <2>7 DEF Carried, Before
  <2>9. Sorted(queue'[n]) /\ Waiting(n)' \subseteq Waiting(n) \cup {s}
    <3>1. CASE queue' = [queue EXCEPT ![o] = Tail(@), ![n] = Append(@, s)]
      <4>1. queue'[n] = Append(queue[n], s)
        BY <2>2, <3>1, <1>t
      <4> QED
        BY <2>2, <2>3, <2>5, <2>8, <4>1, <1>t, ListedAppend, SortedAppend
           DEF Waiting, Flow
    <3>2. CASE queue' = [queue EXCEPT ![o] = Tail(@)]
      BY <2>2, <2>5, <3>2, <1>t DEF Waiting, Flow
    <3> QED
      BY <2>1, <3>1, <3>2
  <2>10. Flow(n)'
    <3>1. Before(Written(n), Waiting(n)')
      BY <2>5, <2>8, <2>9 DEF Before, Flow
    <3>2. Before(Written(n), {}) /\ Before({}, Waiting(n)')
      BY DEF Before
    <3> QED
      BY <2>2, <2>5, <2>6, <2>9, <3>1, <3>2 DEF Flow
  <2>11. Carried(o, n)'
    <3>1. Waiting(o)' = Listed(Tail(queue[o]))
      BY <2>4 DEF Waiting
    <3>2. Before(Written(o), Waiting(o)')
      BY <2>2, <2>3, <3>1 DEF Before, Carried
    <3>3. Before(Waiting(n)', Waiting(o)')
      BY <2>2, <2>3, <2>9, <3>1 DEF Before, Carried
    <3> QED
      BY <2>2, <2>3, <2>4, <2>6, <3>2, <3>3 DEF Carried
  <2>12. ASSUME NEW f \in 1..made, Last(f) PROVE Flow(f)'
    <3>1. f \in Entries /\ Flow(f) /\ f # o
      BY <2>2, <2>12, <1>s, <1>t
    <3> QED
      BY <2>1, <2>4, <2>10, <3>1, <1>f
  <2> QED
    BY <2>0, <2>1, <2>11, <2>12, <1>m, <1>s
<1>8. Moves => Streams'
  BY <1>2, <1>3, <1>4, <1>5, <1>6, <1>7, Zenon DEF Moves
<1> QED
  BY <1>1, <1>8, Frames

(* The first state.                                                        *)
LEMMA OrderInit ==
    ASSUME Init
    PROVE  Chains /\ Unheld /\ Homes /\ Once /\ Streams
<1>0. /\ made = 0 /\ 1..0 = {} /\ cloned = {} /\ Current = {} /\ op.at = "free"
      /\ \A e \in Entries : queue[e] = <<>> /\ out[e] = <<>> /\ hand[e] = NoClone
      /\ \A e \in Entries : writer[e] = "none"
      /\ \A c \in Callers : call[c].todo = {}
  BY DEF Init, Current, Free, Idle
<1>1. DOMAIN <<>> = {}
  OBVIOUS
<1>2. Listed(<<>>) = {} /\ Sorted(<<>>)
  BY <1>1 DEF Listed, Sorted
<1>3. Chains /\ Unheld
  BY <1>0 DEF Chains, Growing, Updating, Unheld, Holders
<1>4. Homes /\ Once
  BY <1>0, <1>2 DEF Homes, Once
<1>5. Streams
  BY <1>0, <1>2 DEF Streams
<1> QED
  BY <1>3, <1>4, <1>5

(* An egress track gets the packets of a caller in their order and once,   *)
(* also over the rebuilds that move packets from one queue to another      *)
(* while WriteRTP goes on.                                                 *)
THEOREM EgressInOrder == Spec => []InOrder
<1>1. Init => QueueInv
  BY StrandInit, OrderInit DEF QueueInv
<1>2. QueueInv /\ [Next]_vars => QueueInv'
  <2> SUFFICES ASSUME QueueInv, [Next]_vars PROVE QueueInv'
    OBVIOUS
  <2>1. /\ StrandInv /\ Ownership /\ Numbered
        /\ Chains /\ Unheld /\ Homes /\ Once /\ Streams
    BY DEF QueueInv
  <2>2. StrandInv' /\ Numbered' /\ Ownership'
    BY <2>1, StrandStep, NumberedStep, OwnershipStep
  <2>3. Chains' /\ Unheld' /\ Once' /\ Homes'
    BY <2>1, <2>2, ChainsStep, UnheldStep, OnceStep, HomesStep
  <2>4. Streams'
    BY <2>1, <2>2, StreamsStep
  <2> QED
    BY <2>2, <2>3, <2>4 DEF QueueInv
<1>3. QueueInv => InOrder
  BY DEF QueueInv, Streams, Sorted, Earlier, InOrder
<1> QED
  BY <1>1, <1>2, <1>3, PTL DEF Spec
=============================================================================
