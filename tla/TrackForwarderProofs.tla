------------------------ MODULE TrackForwarderProofs ------------------------
(***************************************************************************)
(* Theorems about TrackForwarder, for any peer connections, publishers and *)
(* environments, and any number of entries, run loops and calls.           *)
(*                                                                         *)
(* That there is one run loop and that every running writer is accounted   *)
(* for is proved of calls that overlap as they like; the theorems on       *)
(* codecs and on what is attached are about environments whose calls       *)
(* exclude each other, as the properties they prove are.                   *)
(***************************************************************************)
EXTENDS TrackForwarder, SequenceTheorems, FiniteSetTheorems, TLAPS

AdderStates(m) ==
    {Free} \cup [step : {"attach", "insert", "undo"}, pc : PCs, entry : 1..m]
RemoverStates(m) ==
    {Free} \cup [step : {"join", "detach"}, pc : PCs, entry : 1..m]
HeldStates(m) ==
    [source : Sources, snap : [PCs -> 0..m], was : BOOLEAN, todo : SUBSET PCs,
     pc : PCs \cup {None}, entry : 0..m]

Reconciling ==
    {"reconcile", "join", "replace", "attach", "insert", "undo"}

(* The types of the entries and of what calls hold of them ...             *)
EntryTypes ==
    /\ made \in 0..MaxEntries
    /\ subscribers \in [PCs -> 0..made]
    /\ DOMAIN mime = Entries
    /\ writer \in [Entries -> {"none", "live", "cancelled", "done"}]
    /\ senders \in [PCs -> Seq(0..made)]
    /\ adder \in [Procs -> AdderStates(made)]
    /\ remover \in [PCs -> RemoverStates(made)]
    /\ held \in HeldStates(made)

(* ... of the rest ...                                                     *)
OtherTypes ==
    /\ publisher \in Sources
    /\ local \subseteq PCs /\ closed \subseteq PCs
    /\ life \in {"free", "update", "stop", "writers"} \cup Reconciling
    /\ world \in Worlds
    /\ removes \in 0..world.removes /\ stops \in 0..world.stops

(* ... and of the run loops, which are started in order.                   *)
RunTypes ==
    /\ running \in BOOLEAN /\ current \in 0..MaxRuns
    /\ run \in [Runs -> {"none", "live", "cancelled", "exiting", "ended"}]
    /\ \E n \in 0..MaxRuns : Started = 1..n

(* What the local variables of UpdatePublisher and Stop point to.          *)
HeldTypes ==
    /\ life \in {"join", "replace", "attach", "insert", "undo"} =>
          /\ held.pc \in PCs /\ held.snap[held.pc] # None
          /\ held.pc \notin held.todo
    /\ life = "insert" => held.entry # None
    /\ life \in {"stop", "writers"} \cup Reconciling =>
          \A p \in held.todo : held.snap[p] # None

Types == EntryTypes /\ OtherTypes /\ RunTypes /\ HeldTypes

(* A run loop that reads is the one running was set for, and is gone when  *)
(* its successor is started.                                               *)
RunInv ==
    /\ \A g, h \in Alive : g = h
    /\ running => Alive # {}
    /\ life = "free" /\ ~running => Alive = {}
    /\ life \in {"update", "stop"} /\ ~held.was => Alive = {}
    /\ life = "stop" => ~running
    /\ life \in {"writers"} \cup Reconciling => Alive = {}

(* A running writer is accounted for, and what reconcileSubscriber took    *)
(* out without stopping it was made.                                       *)
WriterInv == swept \subseteq 1..made /\ WritersAccounted

-----------------------------------------------------------------------------
(* Of calls that exclude each other.                                       *)

(* One operation is under way at most.                                     *)
Alone ==
    /\ \A a, b \in Procs : adder[a] # Free /\ adder[b] # Free => a = b
    /\ \A p, q \in PCs : remover[p] # Free /\ remover[q] # Free => p = q
    /\ \A a \in Procs : adder[a] # Free =>
          life = "free" /\ \A p \in PCs : remover[p] = Free
    /\ \A p \in PCs : remover[p] # Free => life = "free"

(* What an operation under way knows of the map.                           *)
MapKnown ==
    /\ \A a \in Procs : adder[a] # Free =>
          subscribers[adder[a].pc] = None /\ adder[a].step # "undo"
    /\ \A p \in PCs : remover[p] # Free => subscribers[p] = None
    /\ life = "update" => held.snap = subscribers
    /\ life \in Reconciling =>
          /\ publisher = held.source
          /\ \A p \in held.todo : subscribers[p] = held.snap[p]
    /\ life = "join" => subscribers[held.pc] = held.snap[held.pc]
    /\ life \in {"replace", "attach", "insert"} => subscribers[held.pc] = None
    /\ life # "undo" /\ swept = {}
    /\ life \in {"stop", "writers"} => \A p \in PCs : subscribers[p] = None

(* The entries made for a TrackRemote have its codec, unless they are yet  *)
(* to be reconciled.                                                       *)
Codecs ==
    /\ \A a \in Procs :
          adder[a] # Free => mime[adder[a].entry] = Mime[publisher]
    /\ life = "insert" => mime[held.entry] = Mime[publisher]
    /\ publisher \in Remote =>
          \A p \in PCs :
              /\ subscribers[p] # None
              /\ ~(life \in Reconciling /\ p \in held.todo)
              /\ ~(life = "join" /\ p = held.pc)
              => mime[subscribers[p]] = Mime[publisher]

(* Of the transceivers q one sends entry e, if there is one, and the rest  *)
(* nothing.                                                                *)
Carries(q, e) ==
    /\ \A i \in DOMAIN q : q[i] \in {None, e}
    /\ \A i, j \in DOMAIN q : q[i] # None /\ q[j] # None => i = j
    /\ e # None => \E i \in DOMAIN q : q[i] = e

(* Entry e, and nothing else, is sent to p while p is open.                *)
Sends(p, e) ==
    p \notin closed => (p \in local <=> e # None) /\ Carries(senders[p], e)

(* Peer connections that an operation has taken out of the map, or not yet *)
(* put in.                                                                 *)
Between(p) ==
    \/ \E a \in Procs : adder[a].step = "insert" /\ adder[a].pc = p
    \/ remover[p] # Free
    \/ life \in {"replace", "attach", "insert"} /\ held.pc = p
    \/ life \in {"stop", "writers"}

(* What is sent to each peer connection, by the operation under way on it. *)
Egress ==
    /\ \A a \in Procs : adder[a].step = "insert" => Sends(adder[a].pc, adder[a].entry)
    /\ \A p \in PCs : remover[p] # Free => Sends(p, remover[p].entry)
    /\ life = "replace" => Sends(held.pc, held.snap[held.pc])
    /\ life = "attach" => Sends(held.pc, None)
    /\ life = "insert" => Sends(held.pc, held.entry)
    /\ life \in {"stop", "writers"} =>
          \A p \in PCs : Sends(p, IF p \in held.todo THEN held.snap[p] ELSE None)
    /\ \A p \in PCs : ~Between(p) => Sends(p, subscribers[p])

Excl == Alone /\ MapKnown /\ Codecs /\ Egress

ExclusiveInv == world.exclusive => Excl

ForwarderInv == Types /\ RunInv /\ WriterInv /\ ExclusiveInv
-----------------------------------------------------------------------------
(* The types.                                                              *)

(* More entries may be made: what was of the types stays of them.          *)
LEMMA MoreEntries ==
    ASSUME EntryTypes, NEW m \in 0..MaxEntries, made <= m
    PROVE  /\ 0..made \subseteq 0..m /\ 1..made \subseteq 1..m
           /\ subscribers \in [PCs -> 0..m]
           /\ senders \in [PCs -> Seq(0..m)]
           /\ adder \in [Procs -> AdderStates(m)]
           /\ remover \in [PCs -> RemoverStates(m)]
           /\ held \in HeldStates(m)
<1>0. made \in Nat /\ m \in Nat
  BY ForwarderAssumption DEF EntryTypes
<1>1. 0..made \subseteq 0..m /\ 1..made \subseteq 1..m
  BY <1>0
<1>2. subscribers \in [PCs -> 0..m]
  BY <1>1 DEF EntryTypes
<1>3. senders \in [PCs -> Seq(0..m)]
  <2>1. \A p \in PCs : senders[p] \in Seq(0..m)
    BY <1>1, SeqMonotonic DEF EntryTypes
  <2> QED
    BY <2>1 DEF EntryTypes
<1>4. AdderStates(made) \subseteq AdderStates(m) /\ RemoverStates(made) \subseteq RemoverStates(m)
  BY <1>1 DEF AdderStates, RemoverStates
<1>5. [PCs -> 0..made] \subseteq [PCs -> 0..m]
  BY <1>1
<1>6. held \in HeldStates(m)
  BY <1>1, <1>5 DEF EntryTypes, HeldStates
<1> QED
  BY <1>1, <1>2, <1>3, <1>4, <1>6 DEF EntryTypes

(* The number of an entry.                                                 *)
LEMMA EntryNumbers ==
    ASSUME EntryTypes
    PROVE  /\ made \in Nat /\ None \in 0..made /\ 1..made \subseteq Entries
           /\ 1..made \subseteq 0..made
           /\ \A e \in 0..made : e # None => e \in 1..made
           /\ \A e \in 1..made : e # None
           /\ made + 1 \notin 0..made
  BY ForwarderAssumption DEF EntryTypes, Entries, None

(* The next entry, of AddSubscriber or of reconcileSubscriber.             *)
LEMMA NextEntry ==
    ASSUME EntryTypes, OtherTypes, NEW s, NewEntry(s)
    PROVE  /\ made' = made + 1 /\ made' \in 0..MaxEntries /\ made' \in 1..made'
           /\ made' \in 0..made' /\ made' \in Entries
           /\ made' # None /\ made <= made' /\ None \in 0..made'
           /\ mime' = [mime EXCEPT ![made + 1] = Mime[s]]
<1>1. world.entries \in 0..MaxEntries /\ made \in Nat /\ MaxEntries \in Nat
  BY ForwarderAssumption DEF EntryTypes, OtherTypes
<1> QED
  BY <1>1 DEF NewEntry, Entries, None

(* What RemoveTrack leaves of the senders of a peer connection is a        *)
(* sequence of the same length.                                            *)
LEMMA VacatedType ==
    ASSUME NEW S, None \in S, NEW p \in PCs, senders[p] \in Seq(S)
    PROVE  Vacated(p) \in Seq(S) /\ Len(Vacated(p)) = Len(senders[p])
<1> DEFINE q == senders[p]
           Used == {i \in DOMAIN q : q[i] # None}
           c == CHOOSE i \in Used : \A j \in Used : i <= j
<1>1. Vacated(p) = q \/ Vacated(p) = [q EXCEPT ![c] = None]
  BY DEF Vacated
<1>2. q \in [1..Len(q) -> S] /\ Len(q) \in Nat
  OBVIOUS
<1>3. CASE Vacated(p) = [q EXCEPT ![c] = None]
  <2>1. Vacated(p) \in [1..Len(q) -> S]
    BY <1>2, <1>3
  <2> QED
    BY <1>2, <2>1
<1> QED
  BY <1>1, <1>3

(* What AddTrack makes of the senders of a peer connection.                *)
LEMMA FilledType ==
    ASSUME NEW S, NEW q \in Seq(S), NEW e \in S, NEW r \in Filled(q, e)
    PROVE  r \in Seq(S)
<1>1. CASE r = Append(q, e)
  BY <1>1
<1>2. CASE r # Append(q, e)
  <2>1. PICK i \in DOMAIN q : r = [q EXCEPT ![i] = e]
    BY <1>2 DEF Filled
  <2>2. i \in 1..Len(q)
    OBVIOUS
  <2> QED
    BY <2>1, <2>2, ExceptSeq
<1> QED
  BY <1>1, <1>2

(* RemoveTrack keeps the type of the senders ...                           *)
LEMMA RemoveTrackType ==
    ASSUME EntryTypes, NEW p \in PCs, RemoveTrack(p)
    PROVE  senders' \in [PCs -> Seq(0..made)]
<1>1. Vacated(p) \in Seq(0..made)
  BY VacatedType, EntryNumbers DEF EntryTypes
<1> QED
  BY <1>1 DEF EntryTypes, RemoveTrack

(* ... and so does AddTrack of an entry that was made.                     *)
LEMMA AddTrackType ==
    ASSUME EntryTypes, NEW p \in PCs, NEW e \in 1..made, AddTrack(p, e)
    PROVE  senders' \in [PCs -> Seq(0..made)]
<1>1. PICK q \in Filled(senders[p], e) : senders' = [senders EXCEPT ![p] = q]
  BY DEF AddTrack
<1>2. senders[p] \in Seq(0..made) /\ e \in 0..made
  BY EntryNumbers DEF EntryTypes
<1>3. q \in Seq(0..made)
  BY <1>2, FilledType
<1> QED
  BY <1>1, <1>3 DEF EntryTypes

(* What an AddSubscriber call under way holds ...                          *)
LEMMA AdderType ==
    ASSUME EntryTypes, NEW a \in Procs, adder[a].step # "idle"
    PROVE  /\ adder[a] # Free /\ adder[a].step \in {"attach", "insert", "undo"}
           /\ adder[a].pc \in PCs /\ adder[a].entry \in 1..made
           /\ adder[a].entry \in Entries /\ adder[a].entry # None
           /\ \A s \in {"attach", "insert", "undo"} :
                 [adder[a] EXCEPT !.step = s] \in AdderStates(made)
<1>1. adder[a] \in [step : {"attach", "insert", "undo"}, pc : PCs, entry : 1..made]
  BY DEF EntryTypes, AdderStates, Free
<1>2. adder[a] # Free
  BY DEF Free
<1>3. \A s \in {"attach", "insert", "undo"} :
          [adder[a] EXCEPT !.step = s] \in AdderStates(made)
  BY <1>1 DEF AdderStates
<1> QED
  BY <1>1, <1>2, <1>3, EntryNumbers

(* ... and what a RemoveSubscriber call does.                              *)
LEMMA RemoverType ==
    ASSUME EntryTypes, NEW p \in PCs, remover[p] # Free
    PROVE  /\ remover[p].step \in {"join", "detach"}
           /\ remover[p].entry \in 1..made /\ remover[p].entry \in Entries
           /\ remover[p].entry # None
  BY EntryNumbers DEF EntryTypes, RemoverStates, Free

(* Every step keeps the types of the entries.                              *)
LEMMA EntryStep == Types /\ [Next]_vars => EntryTypes'
<1> SUFFICES ASSUME Types, [Next]_vars PROVE EntryTypes'
  OBVIOUS
<1> USE ForwarderAssumption DEF loopVars, entryVars, pcVars, lifeVars, counts
<1>0. EntryTypes /\ OtherTypes /\ HeldTypes
  BY DEF Types
<1>n. None \in 0..made /\ made \in 0..MaxEntries /\ 1..made \subseteq Entries
      /\ 1..made \subseteq 0..made
  BY <1>0, EntryNumbers DEF EntryTypes
<1>h. held \in HeldStates(made)
  BY <1>0 DEF EntryTypes
<1>1. ASSUME NEW a \in Procs, NEW p \in PCs, AddSnapshot(a, p) PROVE EntryTypes'
  <2>1. NewEntry(publisher)
    BY <1>1 DEF AddSnapshot
  <2>2. made' = made + 1 /\ made' \in 0..MaxEntries /\ made' \in 1..made' /\ made <= made'
        /\ mime' = [mime EXCEPT ![made + 1] = Mime[publisher]]
    BY <1>0, <2>1, NextEntry
  <2>3. /\ subscribers \in [PCs -> 0..made'] /\ senders \in [PCs -> Seq(0..made')]
        /\ adder \in [Procs -> AdderStates(made')]
        /\ remover \in [PCs -> RemoverStates(made')] /\ held \in HeldStates(made')
    BY <1>0, <2>2, MoreEntries
  <2>4. [step |-> "attach", pc |-> p, entry |-> made + 1] \in AdderStates(made')
    BY <2>2 DEF AdderStates
  <2>5. adder' \in [Procs -> AdderStates(made')]
    BY <1>1, <2>3, <2>4 DEF AddSnapshot
  <2>6. UNCHANGED <<subscribers, writer, senders, remover, held>>
    BY <1>1 DEF AddSnapshot
  <2> QED
    BY <1>0, <2>2, <2>3, <2>5, <2>6 DEF EntryTypes
<1>2. ASSUME NEW a \in Procs, AddAttach(a) PROVE EntryTypes'
  <2>1. adder[a].step = "attach"
        /\ UNCHANGED <<subscribers, entryVars, remover, held>>
    BY <1>2 DEF AddAttach
  <2>2. adder[a].pc \in PCs /\ adder[a].entry \in 1..made
    BY <1>0, <2>1, AdderType
  <2>3. senders' \in [PCs -> Seq(0..made)]
    BY <1>0, <1>2, <2>2, AddTrackType DEF AddAttach, EntryTypes
  <2>4. adder' \in [Procs -> AdderStates(made)]
    <3>1. adder' = [adder EXCEPT ![a] = Free]
          \/ adder' = [adder EXCEPT ![a].step = "insert"]
      BY <1>2 DEF AddAttach
    <3>2. [adder[a] EXCEPT !.step = "insert"] \in AdderStates(made)
      BY <1>0, <2>1, AdderType
    <3> QED
      BY <1>0, <3>1, <3>2 DEF EntryTypes, AdderStates
  <2> QED
    BY <1>0, <2>1, <2>3, <2>4 DEF EntryTypes
<1>3. ASSUME NEW a \in Procs, AddInsert(a) PROVE EntryTypes'
  <2>1. adder[a].step = "insert"
        /\ UNCHANGED <<made, mime, senders, remover, held>>
    BY <1>3 DEF AddInsert
  <2>2. adder[a].pc \in PCs /\ adder[a].entry \in 0..made /\ adder[a].entry \in Entries
    BY <1>0, <1>n, <2>1, AdderType
  <2>3. subscribers' \in [PCs -> 0..made]
    <3>1. subscribers' = subscribers
          \/ subscribers' = [subscribers EXCEPT ![adder[a].pc] = adder[a].entry]
      BY <1>3 DEF AddInsert
    <3> QED
      BY <1>0, <2>2, <3>1 DEF EntryTypes
  <2>4. writer' \in [Entries -> {"none", "live", "cancelled", "done"}]
    BY <1>0, <1>3 DEF AddInsert, EntryTypes
  <2>5. adder' \in [Procs -> AdderStates(made)]
    <3>1. adder' = [adder EXCEPT ![a] = Free]
          \/ adder' = [adder EXCEPT ![a].step = "undo"]
      BY <1>3 DEF AddInsert
    <3>2. [adder[a] EXCEPT !.step = "undo"] \in AdderStates(made)
      BY <1>0, <2>1, AdderType
    <3> QED
      BY <1>0, <3>1, <3>2 DEF EntryTypes, AdderStates
  <2> QED
    BY <1>0, <2>1, <2>3, <2>4, <2>5 DEF EntryTypes
<1>4. ASSUME NEW a \in Procs, AddUndo(a) PROVE EntryTypes'
  <2>1. adder[a].step = "undo" /\ RemoveTrack(adder[a].pc)
        /\ adder' = [adder EXCEPT ![a] = Free]
        /\ UNCHANGED <<subscribers, entryVars, remover, held>>
    BY <1>4 DEF AddUndo
  <2>2. adder[a].pc \in PCs
    BY <1>0, <2>1, AdderType
  <2>3. senders' \in [PCs -> Seq(0..made)]
    BY <1>0, <2>1, <2>2, RemoveTrackType
  <2>4. adder' \in [Procs -> AdderStates(made)]
    BY <1>0, <2>1 DEF EntryTypes, AdderStates
  <2> QED
    BY <1>0, <2>1, <2>3, <2>4 DEF EntryTypes
<1>5. ASSUME NEW p \in PCs, RemTake(p) PROVE EntryTypes'
  <2>1. /\ subscribers[p] # None /\ subscribers' = [subscribers EXCEPT ![p] = None]
        /\ remover' = [remover EXCEPT ![p] =
                         [step |-> "join", pc |-> p, entry |-> subscribers[p]]]
        /\ UNCHANGED <<made, mime, senders, adder, held>>
    BY <1>5 DEF RemTake
  <2>2. subscribers[p] \in 1..made
    BY <1>0, <2>1, EntryNumbers DEF EntryTypes
  <2>3. writer' \in [Entries -> {"none", "live", "cancelled", "done"}]
    BY <1>0, <1>5 DEF RemTake, EntryTypes, Cancelled
  <2>4. [step |-> "join", pc |-> p, entry |-> subscribers[p]] \in RemoverStates(made)
    BY <2>2 DEF RemoverStates
  <2>5. remover' \in [PCs -> RemoverStates(made)]
    BY <1>0, <2>1, <2>4 DEF EntryTypes
  <2>6. subscribers' \in [PCs -> 0..made]
    BY <1>0, <1>n, <2>1 DEF EntryTypes
  <2> QED
    BY <1>0, <2>1, <2>3, <2>5, <2>6 DEF EntryTypes
<1>6. ASSUME NEW p \in PCs, RemJoin(p) PROVE EntryTypes'
  <2>1. remover[p].step = "join" /\ remover' = [remover EXCEPT ![p].step = "detach"]
        /\ UNCHANGED <<subscribers, entryVars, senders, adder, held>>
    BY <1>6 DEF RemJoin
  <2>2. [remover[p] EXCEPT !.step = "detach"] \in RemoverStates(made)
    <3>1. remover[p] \in [step : {"join", "detach"}, pc : PCs, entry : 1..made]
      BY <1>0, <2>1 DEF EntryTypes, RemoverStates, Free
    <3> QED
      BY <3>1 DEF RemoverStates
  <2>3. remover' \in [PCs -> RemoverStates(made)]
    BY <1>0, <2>1, <2>2 DEF EntryTypes
  <2> QED
    BY <1>0, <2>1, <2>3 DEF EntryTypes
<1>7. ASSUME NEW p \in PCs, RemDetach(p) PROVE EntryTypes'
  <2>1. RemoveTrack(p) /\ remover' = [remover EXCEPT ![p] = Free]
        /\ UNCHANGED <<subscribers, entryVars, adder, held>>
    BY <1>7 DEF RemDetach
  <2>2. senders' \in [PCs -> Seq(0..made)]
    BY <1>0, <2>1, RemoveTrackType
  <2>3. remover' \in [PCs -> RemoverStates(made)]
    BY <1>0, <2>1 DEF EntryTypes, RemoverStates
  <2> QED
    BY <1>0, <2>1, <2>2, <2>3 DEF EntryTypes
<1>8. ASSUME NEW e \in Entries, WriterExits(e) PROVE EntryTypes'
  BY <1>0, <1>8 DEF WriterExits, EntryTypes
<1>9. ASSUME \/ \E p \in PCs : Close(p)
             \/ \E g \in Runs : RunLeaves(g) \/ RunDone(g)
             \/ Start \/ UNCHANGED vars
      PROVE  EntryTypes'
  <2>1. UNCHANGED <<subscribers, entryVars, senders, adder, remover, held>>
    BY <1>9 DEF Close, RunLeaves, RunDone, Start, vars
  <2> QED
    BY <1>0, <2>1 DEF EntryTypes
<1>10. ASSUME NEW s \in Sources, UpdateBegin(s) PROVE EntryTypes'
  <2>1. held' = [NoHeld EXCEPT !.source = s, !.snap = subscribers, !.was = running]
        /\ UNCHANGED <<subscribers, entryVars, senders, adder, remover>>
    BY <1>10 DEF UpdateBegin
  <2>2. held' = [source |-> s, snap |-> subscribers, was |-> running,
                 todo |-> {}, pc |-> None, entry |-> None]
    BY <2>1 DEF NoHeld
  <2>3. held' \in HeldStates(made)
    BY <1>0, <1>n, <2>2 DEF HeldStates, EntryTypes, Types, RunTypes
  <2> QED
    BY <1>0, <2>1, <2>3 DEF EntryTypes
<1>11. CASE UpdateSwap
  <2>1. held' = [held EXCEPT !.todo = Mismatched] /\ Mismatched \subseteq PCs
        /\ UNCHANGED <<subscribers, entryVars, senders, adder, remover>>
    BY <1>11 DEF UpdateSwap, Mismatched
  <2>2. held' \in HeldStates(made)
    BY <1>h, <2>1 DEF HeldStates
  <2> QED
    BY <1>0, <2>1, <2>2 DEF EntryTypes
<1>12. ASSUME UpdateEnd \/ StopEnd PROVE EntryTypes'
  <2>1. held' = NoHeld /\ UNCHANGED <<subscribers, entryVars, senders, adder, remover>>
    BY <1>12 DEF UpdateEnd, StopEnd
  <2>2. NoHeld \in HeldStates(made)
    BY <1>n DEF HeldStates, NoHeld
  <2> QED
    BY <1>0, <2>1, <2>2 DEF EntryTypes
<1>13. ASSUME NEW p \in PCs, ReconcileCancel(p) PROVE EntryTypes'
  <2>1. held' = [held EXCEPT !.todo = @ \ {p}, !.pc = p]
        /\ UNCHANGED <<subscribers, made, mime, senders, adder, remover>>
    BY <1>13 DEF ReconcileCancel
  <2>2. held' \in HeldStates(made)
    BY <1>h, <2>1 DEF HeldStates
  <2>3. writer' \in [Entries -> {"none", "live", "cancelled", "done"}]
    BY <1>0, <1>13 DEF ReconcileCancel, EntryTypes, Cancelled
  <2> QED
    BY <1>0, <2>1, <2>2, <2>3 DEF EntryTypes
<1>14. ASSUME NEW p \in PCs, StopDetach(p) PROVE EntryTypes'
  <2>1. held' = [held EXCEPT !.todo = @ \ {p}] /\ RemoveTrack(p)
        /\ UNCHANGED <<subscribers, entryVars, adder, remover>>
    BY <1>14 DEF StopDetach
  <2>2. held' \in HeldStates(made)
    BY <1>h, <2>1 DEF HeldStates
  <2>3. senders' \in [PCs -> Seq(0..made)]
    BY <1>0, <2>1, RemoveTrackType
  <2> QED
    BY <1>0, <2>1, <2>2, <2>3 DEF EntryTypes
<1>15. CASE ReconcileDelete
  <2>1. subscribers' = [subscribers EXCEPT ![held.pc] = None]
        /\ UNCHANGED <<entryVars, senders, adder, remover, held>>
    BY <1>15 DEF ReconcileDelete
  <2>2. subscribers' \in [PCs -> 0..made]
    BY <1>0, <1>n, <2>1 DEF EntryTypes
  <2> QED
    BY <1>0, <2>1, <2>2 DEF EntryTypes
<1>16. ASSUME ReconcileRemove \/ ReconcileUndo PROVE EntryTypes'
  <2>1. life \in {"replace", "undo"} /\ RemoveTrack(held.pc)
        /\ UNCHANGED <<subscribers, entryVars, adder, remover, held>>
    BY <1>16 DEF ReconcileRemove, ReconcileUndo
  <2>2. held.pc \in PCs
    BY <1>0, <2>1 DEF HeldTypes
  <2>3. senders' \in [PCs -> Seq(0..made)]
    BY <1>0, <2>1, <2>2, RemoveTrackType
  <2> QED
    BY <1>0, <2>1, <2>3 DEF EntryTypes
<1>17. CASE ReconcileAttach
  <2>1. UNCHANGED <<subscribers, writer, adder, remover>> /\ life = "attach"
    BY <1>17 DEF ReconcileAttach
  <2>2. CASE held.pc \in closed
    <3>1. UNCHANGED <<held, made, mime, senders>>
      BY <1>17, <2>2 DEF ReconcileAttach
    <3> QED
      BY <1>0, <2>1, <3>1 DEF EntryTypes
  <2>3. CASE held.pc \notin closed
    <3>1. NewEntry(held.source) /\ held' = [held EXCEPT !.entry = made + 1]
          /\ AddTrack(held.pc, made + 1)
      BY <1>17, <2>3 DEF ReconcileAttach
    <3>2. made' = made + 1 /\ made' \in 0..MaxEntries /\ made' \in 0..made' /\ made <= made'
          /\ None \in 0..made' /\ mime' = [mime EXCEPT ![made + 1] = Mime[held.source]]
      BY <1>0, <3>1, NextEntry
    <3>3. /\ subscribers \in [PCs -> 0..made'] /\ senders \in [PCs -> Seq(0..made')]
          /\ adder \in [Procs -> AdderStates(made')]
          /\ remover \in [PCs -> RemoverStates(made')] /\ held \in HeldStates(made')
      BY <1>0, <3>2, MoreEntries
    <3>4. held.pc \in PCs
      BY <1>0, <2>1 DEF HeldTypes
    <3>5. PICK q \in Filled(senders[held.pc], made + 1) :
              senders' = [senders EXCEPT ![held.pc] = q]
      BY <3>1 DEF AddTrack
    <3>6. q \in Seq(0..made')
      BY <3>2, <3>3, <3>4, <3>5, FilledType
    <3>7. senders' \in [PCs -> Seq(0..made')]
      BY <3>3, <3>5, <3>6
    <3>8. held' \in HeldStates(made')
      BY <3>1, <3>2, <3>3 DEF HeldStates
    <3> QED
      BY <1>0, <2>1, <3>2, <3>3, <3>7, <3>8 DEF EntryTypes
  <2> QED
    BY <2>2, <2>3
<1>18. CASE ReconcileInsert
  <2>1. UNCHANGED <<made, mime, senders, adder, remover, held>> /\ life = "insert"
    BY <1>18 DEF ReconcileInsert
  <2>2. held.pc \in PCs /\ held.entry \in 0..made
    BY <1>0, <1>h, <2>1 DEF HeldTypes, HeldStates
  <2>3. subscribers' \in [PCs -> 0..made]
    BY ZenonT(40), <1>0, <1>18, <2>2 DEF ReconcileInsert, EntryTypes
  <2>4. writer' \in [Entries -> {"none", "live", "cancelled", "done"}]
    BY <1>0, <1>18 DEF ReconcileInsert, EntryTypes
  <2> QED
    BY <1>0, <2>1, <2>3, <2>4 DEF EntryTypes
<1>19. CASE StopBegin
  <2>1. held' = [NoHeld EXCEPT !.was = running, !.snap = subscribers,
                   !.todo = {p \in PCs : subscribers[p] # None}]
        /\ subscribers' = [p \in PCs |-> None]
        /\ UNCHANGED <<entryVars, senders, adder, remover>>
    BY <1>19 DEF StopBegin
  <2>2. held' = [source |-> First, snap |-> subscribers, was |-> running,
                 todo |-> {p \in PCs : subscribers[p] # None}, pc |-> None,
                 entry |-> None]
    BY <2>1 DEF NoHeld
  <2>3. held' \in HeldStates(made)
    BY <1>0, <1>n, <2>2 DEF HeldStates, EntryTypes, Types, RunTypes
  <2>4. subscribers' \in [PCs -> 0..made]
    BY <1>n, <2>1
  <2> QED
    BY <1>0, <2>1, <2>3, <2>4 DEF EntryTypes
<1>20. CASE StopCancel
  <2>1. UNCHANGED <<subscribers, made, mime, senders, adder, remover, held>>
    BY <1>20 DEF StopCancel
  <2>2. writer' \in [Entries -> {"none", "live", "cancelled", "done"}]
    BY <1>0, <1>20 DEF StopCancel, EntryTypes, Cancelled
  <2> QED
    BY <1>0, <2>1, <2>2 DEF EntryTypes
<1> QED
  BY <1>1, <1>2, <1>3, <1>4, <1>5, <1>6, <1>7, <1>8, <1>9, <1>10, <1>11, <1>12,
     <1>13, <1>14, <1>15, <1>16, <1>17, <1>18, <1>19, <1>20, Zenon DEF Next, LifeStep
(* The environment is fixed.                                               *)
LEMMA WorldFixed == [Next]_vars => world' = world
<1> SUFFICES ASSUME [Next]_vars PROVE world' = world
  OBVIOUS
<1>1. ASSUME NEW a \in Procs, \/ \E p \in PCs : AddSnapshot(a, p)
                              \/ AddAttach(a) \/ AddInsert(a) \/ AddUndo(a)
      PROVE  world' = world
  BY <1>1 DEF AddSnapshot, AddAttach, AddInsert, AddUndo
<1>2. ASSUME NEW p \in PCs, \/ RemTake(p) \/ RemJoin(p) \/ RemDetach(p) \/ Close(p)
                            \/ ReconcileCancel(p) \/ StopDetach(p)
      PROVE  world' = world
  BY <1>2 DEF RemTake, RemJoin, RemDetach, Close, ReconcileCancel, StopDetach
<1>3. ASSUME \/ \E e \in Entries : WriterExits(e)
             \/ \E g \in Runs : RunLeaves(g) \/ RunDone(g)
             \/ Start \/ UNCHANGED vars
      PROVE  world' = world
  BY <1>3 DEF WriterExits, RunLeaves, RunDone, Start, vars
<1>4. ASSUME \/ \E s \in Sources : UpdateBegin(s)
             \/ UpdateSwap \/ UpdateEnd \/ StopBegin \/ StopCancel \/ StopEnd
      PROVE  world' = world
  BY <1>4 DEF UpdateBegin, UpdateSwap, UpdateEnd, StopBegin, StopCancel, StopEnd
<1>5. ASSUME \/ ReconcileDelete \/ ReconcileRemove \/ ReconcileAttach
             \/ ReconcileInsert \/ ReconcileUndo
      PROVE  world' = world
  BY <1>5 DEF ReconcileDelete, ReconcileRemove, ReconcileAttach,
              ReconcileInsert, ReconcileUndo
<1> QED
  BY <1>1, <1>2, <1>3, <1>4, <1>5, Zenon DEF Next, LifeStep

(* Every step keeps the other types.                                       *)
LEMMA OtherStep == Types /\ [Next]_vars => OtherTypes'
<1> SUFFICES ASSUME Types, [Next]_vars PROVE OtherTypes'
  OBVIOUS
<1> USE DEF loopVars, entryVars, pcVars, lifeVars, counts, Reconciling
<1>0. EntryTypes /\ OtherTypes /\ HeldTypes
  BY DEF Types
<1>h. held.source \in Sources
  BY <1>0 DEF EntryTypes, HeldStates
<1>w. world.removes \in Nat /\ world.stops \in Nat
  BY <1>0, ForwarderAssumption DEF OtherTypes
<1>1. ASSUME NEW a \in Procs, NEW p \in PCs, AddSnapshot(a, p) PROVE OtherTypes'
  BY <1>0, <1>1 DEF OtherTypes, AddSnapshot
<1>2. ASSUME NEW a \in Procs, AddAttach(a) PROVE OtherTypes'
  <2>1. adder[a].pc \in PCs
    BY <1>0, <1>2, AdderType DEF AddAttach
  <2>2. local' \subseteq PCs /\ closed' = closed
    BY <1>0, <1>2, <2>1 DEF OtherTypes, AddAttach, AddTrack
  <2>3. UNCHANGED <<world, publisher, life, counts>>
    BY <1>2 DEF AddAttach
  <2> QED
    BY <1>0, <2>2, <2>3 DEF OtherTypes
<1>3. ASSUME NEW a \in Procs, AddInsert(a) PROVE OtherTypes'
  BY <1>0, <1>3 DEF OtherTypes, AddInsert
<1>4. ASSUME NEW p, RemoveTrack(p) PROVE local' \subseteq PCs /\ closed' = closed
  BY <1>0, <1>4 DEF OtherTypes, RemoveTrack
<1>5. ASSUME NEW a \in Procs, AddUndo(a) PROVE OtherTypes'
  <2>1. RemoveTrack(adder[a].pc) /\ UNCHANGED <<world, publisher, life, counts>>
    BY <1>5 DEF AddUndo
  <2> QED
    BY <1>0, <1>4, <2>1 DEF OtherTypes
<1>6. ASSUME NEW p \in PCs, RemTake(p) PROVE OtherTypes'
  <2>1. removes' \in 0..world.removes
    BY <1>0, <1>6, <1>w DEF OtherTypes, RemTake
  <2> QED
    BY <1>0, <1>6, <2>1 DEF OtherTypes, RemTake
<1>7. ASSUME NEW p \in PCs, RemDetach(p) \/ StopDetach(p) PROVE OtherTypes'
  <2>1. RemoveTrack(p) /\ UNCHANGED <<world, publisher, life, counts>>
    BY <1>7 DEF RemDetach, StopDetach
  <2> QED
    BY <1>0, <1>4, <2>1 DEF OtherTypes
<1>8. ASSUME \/ \E p \in PCs : RemJoin(p)
             \/ \E e \in Entries : WriterExits(e)
             \/ \E g \in Runs : RunLeaves(g) \/ RunDone(g)
             \/ Start \/ UNCHANGED vars
      PROVE  OtherTypes'
  <2>1. UNCHANGED <<publisher, local, closed, life, world, counts>>
    BY <1>8 DEF RemJoin, WriterExits, RunLeaves, RunDone, Start, vars
  <2> QED
    BY <1>0, <2>1 DEF OtherTypes
<1>9. ASSUME NEW p \in PCs, Close(p) PROVE OtherTypes'
  BY <1>0, <1>9 DEF OtherTypes, Close
<1>10. ASSUME \/ \E s \in Sources : UpdateBegin(s)
              \/ UpdateSwap \/ UpdateEnd \/ StopCancel \/ StopEnd
              \/ \E p \in PCs : ReconcileCancel(p)
              \/ ReconcileDelete
       PROVE  OtherTypes'
  <2>1. UNCHANGED <<local, closed, world, counts>>
        /\ publisher' \in {publisher, held.source}
        /\ life' \in {"free", "update", "stop", "writers"} \cup Reconciling
    BY <1>10 DEF UpdateBegin, UpdateSwap, UpdateEnd, StopCancel, StopEnd,
                 ReconcileCancel, ReconcileDelete
  <2> QED
    BY <1>0, <1>h, <2>1 DEF OtherTypes
<1>11. CASE ReconcileAttach
  <2>1. life = "attach" /\ life' \in Reconciling /\ closed' = closed
        /\ local' \subseteq local \cup {held.pc}
        /\ UNCHANGED <<world, publisher, counts>>
    BY <1>11 DEF ReconcileAttach, AddTrack
  <2>2. held.pc \in PCs
    BY <1>0, <2>1 DEF HeldTypes
  <2> QED
    BY <1>0, <2>1, <2>2 DEF OtherTypes
<1>12. ASSUME ReconcileRemove \/ ReconcileInsert \/ ReconcileUndo
       PROVE  OtherTypes'
  <2>1. RemoveTrack(held.pc) \/ UNCHANGED pcVars
    BY <1>12 DEF ReconcileRemove, ReconcileInsert, ReconcileUndo
  <2>2. life' \in Reconciling /\ UNCHANGED <<world, publisher, counts>>
    BY <1>12 DEF ReconcileRemove, ReconcileInsert, ReconcileUndo
  <2> QED
    BY <1>0, <1>4, <2>1, <2>2 DEF OtherTypes
<1>13. CASE StopBegin
  <2>1. stops' \in 0..world.stops
    BY <1>0, <1>13, <1>w DEF OtherTypes, StopBegin
  <2> QED
    BY <1>0, <1>13, <2>1 DEF OtherTypes, StopBegin
<1> QED
  BY <1>1, <1>2, <1>3, <1>5, <1>6, <1>7, <1>8, <1>9, <1>10, <1>11, <1>12, <1>13,
     Zenon DEF Next, LifeStep

(* The local variables of the holder of lifecycleMu keep pointing to       *)
(* something.                                                              *)
LEMMA HeldStep == Types /\ [Next]_vars => HeldTypes'
<1> SUFFICES ASSUME Types, [Next]_vars PROVE HeldTypes'
  OBVIOUS
<1> USE DEF lifeVars, Reconciling
<1>0. EntryTypes /\ OtherTypes /\ HeldTypes
  BY DEF Types
<1>h. held \in HeldStates(made)
  BY <1>0 DEF EntryTypes
<1>1. ASSUME NEW a \in Procs, \/ \E p \in PCs : AddSnapshot(a, p)
                              \/ AddAttach(a) \/ AddInsert(a) \/ AddUndo(a)
      PROVE  UNCHANGED lifeVars
  BY <1>1 DEF AddSnapshot, AddAttach, AddInsert, AddUndo
<1>2. ASSUME NEW p \in PCs, RemTake(p) \/ RemJoin(p) \/ RemDetach(p) \/ Close(p)
      PROVE  UNCHANGED lifeVars
  BY <1>2 DEF RemTake, RemJoin, RemDetach, Close
<1>3. ASSUME \/ \E e \in Entries : WriterExits(e)
             \/ \E g \in Runs : RunLeaves(g) \/ RunDone(g)
             \/ Start \/ UNCHANGED vars
      PROVE  UNCHANGED lifeVars
  BY <1>3 DEF WriterExits, RunLeaves, RunDone, Start, vars
<1>4. ASSUME UNCHANGED lifeVars PROVE HeldTypes'
  BY <1>0, <1>4 DEF HeldTypes
<1>5. ASSUME \/ \E s \in Sources : UpdateBegin(s)
             \/ UpdateEnd \/ StopEnd
      PROVE  HeldTypes'
  BY <1>5 DEF UpdateBegin, UpdateEnd, StopEnd, HeldTypes
<1>6. CASE UpdateSwap
  <2>1. life' = "reconcile" /\ held' = [held EXCEPT !.todo = Mismatched]
    BY <1>6 DEF UpdateSwap
  <2>2. held'.todo = Mismatched /\ held'.snap = held.snap
    BY <1>h, <2>1 DEF HeldStates
  <2> QED
    BY <2>1, <2>2 DEF HeldTypes, Mismatched
<1>7. ASSUME NEW p \in PCs, ReconcileCancel(p) PROVE HeldTypes'
  <2>1. life = "reconcile" /\ life' = "join" /\ p \in held.todo
        /\ held' = [held EXCEPT !.todo = @ \ {p}, !.pc = p]
    BY <1>7 DEF ReconcileCancel
  <2>2. held'.todo = held.todo \ {p} /\ held'.pc = p /\ held'.snap = held.snap
    BY <1>h, <2>1 DEF HeldStates
  <2> QED
    BY <1>0, <2>1, <2>2 DEF HeldTypes
<1>8. ASSUME NEW p \in PCs, StopDetach(p) PROVE HeldTypes'
  <2>1. life = "writers" /\ life' = life /\ held' = [held EXCEPT !.todo = @ \ {p}]
    BY <1>8 DEF StopDetach
  <2>2. held'.todo = held.todo \ {p} /\ held'.snap = held.snap
    BY <1>h, <2>1 DEF HeldStates
  <2> QED
    BY <1>0, <2>1, <2>2 DEF HeldTypes
<1>9. ASSUME ReconcileDelete \/ ReconcileRemove \/ ReconcileUndo
      PROVE  HeldTypes'
  BY <1>0, <1>9 DEF ReconcileDelete, ReconcileRemove, ReconcileUndo, HeldTypes
<1>10. CASE ReconcileAttach
  <2>1. CASE held.pc \in closed
    BY <1>0, <1>10, <2>1 DEF ReconcileAttach, HeldTypes
  <2>2. CASE held.pc \notin closed
    <3>1. life = "attach" /\ life' = "insert" /\ NewEntry(held.source)
          /\ held' = [held EXCEPT !.entry = made + 1]
      BY <1>10, <2>2 DEF ReconcileAttach
    <3>2. made + 1 # None
      BY <1>0, <3>1, NextEntry
    <3>3. held'.entry = made + 1 /\ held'.todo = held.todo /\ held'.snap = held.snap
          /\ held'.pc = held.pc
      BY <1>h, <3>1 DEF HeldStates
    <3> QED
      BY <1>0, <3>1, <3>2, <3>3 DEF HeldTypes
  <2> QED
    BY <2>1, <2>2
<1>11. CASE ReconcileInsert
  BY <1>0, <1>11 DEF ReconcileInsert, HeldTypes
<1>12. CASE StopBegin
  <2>1. life' = "stop" /\ held' = [NoHeld EXCEPT !.was = running, !.snap = subscribers,
                                     !.todo = {p \in PCs : subscribers[p] # None}]
    BY <1>12 DEF StopBegin
  <2>2. held'.todo = {p \in PCs : subscribers[p] # None} /\ held'.snap = subscribers
    BY <2>1 DEF NoHeld
  <2> QED
    BY <2>1, <2>2 DEF HeldTypes
<1>13. CASE StopCancel
  BY <1>0, <1>13 DEF StopCancel, HeldTypes
<1> QED
  BY <1>1, <1>2, <1>3, <1>4, <1>5, <1>6, <1>7, <1>8, <1>9, <1>10, <1>11, <1>12,
     <1>13, Zenon DEF Next, LifeStep
-----------------------------------------------------------------------------
(* The run loops.                                                          *)

(* A launch starts the next run loop.                                      *)
LEMMA LaunchNext ==
    ASSUME RunTypes, OtherTypes, Launch
    PROVE  \E n \in 0..MaxRuns :
              /\ Started = 1..n /\ n + 1 \in Runs /\ run[n + 1] = "none"
              /\ run' = [run EXCEPT ![n + 1] = "live"]
              /\ current' = n + 1 /\ running' = TRUE
<1> DEFINE P(h) == run[h] = "none" /\ \A i \in 1..(h - 1) : i \in Started
           g == CHOOSE h \in Runs : P(h)
<1>1. PICK n \in 0..MaxRuns : Started = 1..n
  BY DEF RunTypes
<1>2. MaxRuns \in Nat /\ world.runs \in 0..MaxRuns /\ n \in Nat
  BY ForwarderAssumption DEF OtherTypes
<1>3. Cardinality(Started) = n
  BY <1>1, <1>2, FS_Interval
<1>4. n < MaxRuns
  BY <1>2, <1>3 DEF Launch
<1>5. n + 1 \in Runs /\ n + 1 \notin 1..n
  BY <1>2, <1>4 DEF Runs
<1>6. run[n + 1] = "none"
  BY <1>1, <1>5 DEF Started
<1>7. P(n + 1)
  BY <1>1, <1>2, <1>6
<1>8. g \in Runs /\ P(g)
  BY <1>5, <1>7
<1>9. g = n + 1
  <2>1. g \in Nat /\ g >= 1 /\ g \notin 1..n
    BY <1>1, <1>2, <1>8 DEF Runs, Started
  <2>2. g >= n + 1
    BY <1>2, <2>1
  <2>3. CASE g > n + 1
    <3>1. n + 1 \in 1..(g - 1)
      BY <1>2, <2>1, <2>3
    <3> QED
      BY <1>1, <1>5, <1>8, <3>1
  <2> QED
    BY <1>2, <2>1, <2>2, <2>3
<1>10. run' = [run EXCEPT ![g] = "live"] /\ current' = g /\ running' = TRUE
  BY DEF Launch
<1> QED
  BY <1>1, <1>5, <1>6, <1>9, <1>10

(* The subscriber operations leave the run loops alone ...                 *)
LEMMA RunUntouched ==
    ASSUME \/ \E a \in Procs : \/ \E p \in PCs : AddSnapshot(a, p)
                               \/ AddAttach(a) \/ AddInsert(a) \/ AddUndo(a)
           \/ \E p \in PCs : RemTake(p) \/ RemJoin(p) \/ RemDetach(p) \/ Close(p)
           \/ \E e \in Entries : WriterExits(e)
           \/ UNCHANGED vars
    PROVE  UNCHANGED <<loopVars, life, held>>
<1> USE DEF loopVars, lifeVars
<1>1. ASSUME NEW a \in Procs, \/ \E p \in PCs : AddSnapshot(a, p)
                              \/ AddAttach(a) \/ AddInsert(a) \/ AddUndo(a)
      PROVE  UNCHANGED <<loopVars, life, held>>
  BY <1>1 DEF AddSnapshot, AddAttach, AddInsert, AddUndo
<1>2. ASSUME NEW p \in PCs, RemTake(p) \/ RemJoin(p) \/ RemDetach(p) \/ Close(p)
      PROVE  UNCHANGED <<loopVars, life, held>>
  BY <1>2 DEF RemTake, RemJoin, RemDetach, Close
<1>3. ASSUME (\E e \in Entries : WriterExits(e)) \/ UNCHANGED vars
      PROVE  UNCHANGED <<loopVars, life, held>>
  BY <1>3 DEF WriterExits, vars
<1> QED
  BY <1>1, <1>2, <1>3

(* ... and so do the steps of UpdatePublisher and Stop in between.         *)
LEMMA RunUntouchedByUpdate ==
    ASSUME \/ UpdateSwap \/ StopCancel \/ StopEnd
           \/ \E p \in PCs : ReconcileCancel(p) \/ StopDetach(p)
           \/ ReconcileDelete \/ ReconcileRemove \/ ReconcileAttach
           \/ ReconcileInsert \/ ReconcileUndo
    PROVE  UNCHANGED loopVars
<1> USE DEF loopVars
<1>1. ASSUME UpdateSwap \/ StopCancel \/ StopEnd PROVE UNCHANGED loopVars
  BY <1>1 DEF UpdateSwap, StopCancel, StopEnd
<1>2. ASSUME NEW p \in PCs, ReconcileCancel(p) \/ StopDetach(p) PROVE UNCHANGED loopVars
  BY <1>2 DEF ReconcileCancel, StopDetach
<1>3. ASSUME \/ ReconcileDelete \/ ReconcileRemove \/ ReconcileAttach
             \/ ReconcileInsert \/ ReconcileUndo
      PROVE  UNCHANGED loopVars
  BY <1>3 DEF ReconcileDelete, ReconcileRemove, ReconcileAttach,
              ReconcileInsert, ReconcileUndo
<1> QED
  BY <1>1, <1>2, <1>3

(* Cancelling the current run loop starts and ends none.                   *)
LEMMA CancelKeeps ==
    ASSUME RunTypes
    PROVE  /\ CancelRun \in [Runs -> {"none", "live", "cancelled", "exiting", "ended"}]
           /\ \A g \in Runs : /\ CancelRun[g] = "none" <=> run[g] = "none"
                              /\ CancelRun[g] \in {"live", "cancelled"}
                                    <=> run[g] \in {"live", "cancelled"}
  BY DEF RunTypes, CancelRun

(* Every step keeps the types of the run loops.                            *)
LEMMA RunTypeStep == Types /\ [Next]_vars => RunTypes'
<1> SUFFICES ASSUME Types, [Next]_vars PROVE RunTypes'
  OBVIOUS
<1> USE DEF loopVars, None
<1>0. OtherTypes /\ RunTypes
  BY DEF Types
<1>t. running \in BOOLEAN /\ current \in 0..MaxRuns
      /\ run \in [Runs -> {"none", "live", "cancelled", "exiting", "ended"}]
      /\ \E n \in 0..MaxRuns : Started = 1..n
  BY <1>0 DEF RunTypes
<1>m. MaxRuns \in Nat /\ 0 \in 0..MaxRuns
  BY ForwarderAssumption
<1>1. ASSUME UNCHANGED loopVars PROVE RunTypes'
  BY <1>t, <1>1 DEF RunTypes, Started
<1>2. ASSUME Launch PROVE RunTypes'
  <2>1. PICK n \in 0..MaxRuns :
              /\ Started = 1..n /\ n + 1 \in Runs /\ run[n + 1] = "none"
              /\ run' = [run EXCEPT ![n + 1] = "live"]
              /\ current' = n + 1 /\ running' = TRUE
    BY <1>0, <1>2, LaunchNext
  <2>2. n + 1 \in 0..MaxRuns /\ 1..(n + 1) = 1..n \cup {n + 1}
    BY <1>m, <2>1 DEF Runs
  <2>3. Started' = Started \cup {n + 1}
    BY <1>t, <2>1 DEF Started
  <2>4. run' \in [Runs -> {"none", "live", "cancelled", "exiting", "ended"}]
    BY <1>t, <2>1
  <2> QED
    BY <2>1, <2>2, <2>3, <2>4 DEF RunTypes
<1>3. ASSUME /\ run' \in [Runs -> {"none", "live", "cancelled", "exiting", "ended"}]
             /\ \A g \in Runs : run'[g] = "none" <=> run[g] = "none"
             /\ running' \in BOOLEAN /\ current' \in {0, current}
      PROVE  RunTypes'
  <2>1. Started' = Started
    BY <1>3 DEF Started
  <2> QED
    BY <1>t, <1>m, <1>3, <2>1 DEF RunTypes
<1>4. ASSUME NEW g \in Runs, RunLeaves(g) \/ RunDone(g) PROVE RunTypes'
  <2>1. /\ run[g] # "none" /\ current' = current /\ running' \in {running, FALSE}
        /\ \/ run' = [run EXCEPT ![g] = "exiting"]
           \/ run' = [run EXCEPT ![g] = "ended"]
    BY <1>4 DEF RunLeaves, RunDone
  <2> QED
    BY <1>t, <1>3, <2>1
<1>5. CASE Start
  BY <1>2, <1>5 DEF Start
<1>6. ASSUME (\E s \in Sources : UpdateBegin(s)) \/ StopBegin PROVE RunTypes'
  <2>1. run' \in {run, CancelRun} /\ running' \in {running, FALSE} /\ current' \in {0, current}
    BY <1>6 DEF UpdateBegin, StopBegin
  <2> QED
    BY <1>0, <1>t, <1>3, <2>1, CancelKeeps
<1>7. CASE UpdateEnd
  <2>1. Launch \/ (running' = FALSE /\ run' = run /\ current' \in {0, current})
    BY <1>7 DEF UpdateEnd
  <2> QED
    BY <1>t, <1>2, <1>3, <2>1
<1>8. CASE \/ \E a \in Procs : \/ \E p \in PCs : AddSnapshot(a, p)
                               \/ AddAttach(a) \/ AddInsert(a) \/ AddUndo(a)
           \/ \E p \in PCs : RemTake(p) \/ RemJoin(p) \/ RemDetach(p) \/ Close(p)
           \/ \E e \in Entries : WriterExits(e)
           \/ UNCHANGED vars
  BY <1>1, <1>8, RunUntouched
<1>9. CASE \/ UpdateSwap \/ StopCancel \/ StopEnd
           \/ \E p \in PCs : ReconcileCancel(p) \/ StopDetach(p)
           \/ ReconcileDelete \/ ReconcileRemove \/ ReconcileAttach
           \/ ReconcileInsert \/ ReconcileUndo
  BY <1>1, <1>9, RunUntouchedByUpdate
<1> QED
  BY <1>4, <1>5, <1>6, <1>7, <1>8, <1>9, Zenon DEF Next, LifeStep

(* Every step keeps the run loops apart.                                   *)
LEMMA RunStep == Types /\ RunInv /\ [Next]_vars => RunInv'
<1> SUFFICES ASSUME Types, RunInv, [Next]_vars PROVE RunInv'
  OBVIOUS
<1> USE DEF loopVars, lifeVars, Reconciling
<1>0. OtherTypes /\ RunTypes /\ held \in HeldStates(made)
  BY DEF Types, EntryTypes
<1>t. run \in [Runs -> {"none", "live", "cancelled", "exiting", "ended"}]
      /\ running \in BOOLEAN
      /\ life \in {"free", "update", "stop", "writers"} \cup Reconciling
  BY <1>0 DEF RunTypes, OtherTypes
<1>1. ASSUME Launch, Alive = {}, life' = "free" PROVE RunInv'
  <2>1. PICK n \in 0..MaxRuns :
              /\ n + 1 \in Runs /\ run' = [run EXCEPT ![n + 1] = "live"]
              /\ running' = TRUE
    BY <1>0, <1>1, LaunchNext
  <2>2. Alive' = {n + 1}
    BY <1>t, <1>1, <2>1 DEF Alive
  <2> QED
    BY <1>1, <2>1, <2>2 DEF RunInv
<1>2. ASSUME NEW g \in Runs, RunLeaves(g) PROVE RunInv'
  <2>1. g \in Alive /\ run' = [run EXCEPT ![g] = "exiting"] /\ running' = FALSE
        /\ UNCHANGED lifeVars
    BY <1>2 DEF RunLeaves, Alive
  <2>2. Alive = {g}
    BY <2>1 DEF RunInv
  <2>3. Alive' = {}
    BY <1>t, <2>1, <2>2 DEF Alive
  <2> QED
    BY <2>1, <2>3 DEF RunInv
<1>3. ASSUME NEW g \in Runs, RunDone(g) PROVE RunInv'
  <2>1. run[g] = "exiting" /\ run' = [run EXCEPT ![g] = "ended"]
        /\ UNCHANGED <<running, lifeVars>>
    BY <1>3 DEF RunDone
  <2>2. Alive' = Alive
    BY <1>t, <2>1 DEF Alive
  <2> QED
    BY <2>1, <2>2 DEF RunInv
<1>4. CASE Start
  <2>1. life = "free" /\ ~running /\ Launch /\ life' = life
    BY <1>4 DEF Start
  <2> QED
    BY <1>1, <2>1 DEF RunInv
<1>5. ASSUME NEW s \in Sources, UpdateBegin(s) PROVE RunInv'
  <2>1. life = "free" /\ life' = "update" /\ run' \in {run, CancelRun} /\ running' = running
        /\ held' = [NoHeld EXCEPT !.source = s, !.snap = subscribers, !.was = running]
    BY <1>5 DEF UpdateBegin
  <2>2. Alive' = Alive
    BY <1>0, <2>1, CancelKeeps DEF Alive
  <2>3. held'.was = running
    BY <2>1 DEF NoHeld
  <2> QED
    BY <2>1, <2>2, <2>3 DEF RunInv
<1>6. CASE StopBegin
  <2>1. life = "free" /\ life' = "stop" /\ run' \in {run, CancelRun} /\ running' = FALSE
        /\ held' = [NoHeld EXCEPT !.was = running, !.snap = subscribers,
                      !.todo = {p \in PCs : subscribers[p] # None}]
    BY <1>6 DEF StopBegin
  <2>2. Alive' = Alive
    BY <1>0, <2>1, CancelKeeps DEF Alive
  <2>3. held'.was = running
    BY <2>1 DEF NoHeld
  <2> QED
    BY <2>1, <2>2, <2>3 DEF RunInv
<1>7. CASE UpdateEnd
  <2>1. life = "reconcile" /\ life' = "free"
        /\ (Launch \/ (running' = FALSE /\ run' = run))
    BY <1>7 DEF UpdateEnd
  <2>2. Alive = {}
    BY <2>1 DEF RunInv
  <2>3. CASE running' = FALSE /\ run' = run
    BY <2>1, <2>2, <2>3 DEF RunInv, Alive
  <2> QED
    BY <1>1, <2>1, <2>2, <2>3
<1>8. CASE \/ \E a \in Procs : \/ \E p \in PCs : AddSnapshot(a, p)
                               \/ AddAttach(a) \/ AddInsert(a) \/ AddUndo(a)
           \/ \E p \in PCs : RemTake(p) \/ RemJoin(p) \/ RemDetach(p) \/ Close(p)
           \/ \E e \in Entries : WriterExits(e)
           \/ UNCHANGED vars
  <2>1. UNCHANGED <<loopVars, life, held>>
    BY <1>8, RunUntouched
  <2>2. Alive' = Alive
    BY <2>1 DEF Alive
  <2> QED
    BY <2>1, <2>2 DEF RunInv
<1>9. ASSUME UNCHANGED loopVars, Alive = {},
              life' \in {"writers"} \cup Reconciling \/ (life' = "free" /\ ~running)
       PROVE  RunInv'
  <2>1. Alive' = {}
    BY <1>9 DEF Alive
  <2> QED
    BY <1>9, <2>1 DEF RunInv
<1>10. ASSUME UpdateSwap \/ StopCancel PROVE RunInv'
  <2>1. life \in {"update", "stop"} /\ (held.was => Joined)
        /\ life' \in {"writers"} \cup Reconciling
    BY <1>10 DEF UpdateSwap, StopCancel
  <2>2. Alive = {}
    BY <2>1 DEF RunInv, Joined, Alive
  <2> QED
    BY <1>9, <1>10, <2>1, <2>2, RunUntouchedByUpdate
<1>11. ASSUME \/ \E p \in PCs : ReconcileCancel(p) \/ StopDetach(p)
              \/ ReconcileDelete \/ ReconcileRemove \/ ReconcileAttach
           \/ ReconcileInsert \/ ReconcileUndo
       PROVE  RunInv'
  <2>1. life \in {"writers"} \cup Reconciling /\ life' \in {"writers"} \cup Reconciling
    <3>1. ASSUME NEW p \in PCs, ReconcileCancel(p) \/ StopDetach(p)
          PROVE  life \in {"writers"} \cup Reconciling /\ life' \in {"writers"} \cup Reconciling
      BY <3>1 DEF ReconcileCancel, StopDetach
    <3>2. ASSUME \/ ReconcileDelete \/ ReconcileRemove \/ ReconcileAttach
                 \/ ReconcileInsert \/ ReconcileUndo
          PROVE  life \in {"writers"} \cup Reconciling /\ life' \in {"writers"} \cup Reconciling
      BY <3>2 DEF ReconcileDelete, ReconcileRemove, ReconcileAttach,
                  ReconcileInsert, ReconcileUndo
    <3> QED
      BY <1>11, <3>1, <3>2
  <2>2. Alive = {}
    BY <2>1 DEF RunInv
  <2> QED
    BY <1>9, <1>11, <2>1, <2>2, RunUntouchedByUpdate
<1>12. CASE StopEnd
  <2>1. life = "writers" /\ life' = "free"
    BY <1>12 DEF StopEnd
  <2>2. Alive = {} /\ ~running
    BY <2>1 DEF RunInv
  <2> QED
    BY <1>9, <1>12, <2>1, <2>2, RunUntouchedByUpdate
<1> QED
  BY <1>2, <1>3, <1>4, <1>5, <1>6, <1>7, <1>8, <1>10, <1>11, <1>12, Zenon DEF Next, LifeStep
-----------------------------------------------------------------------------
(* The writers, whatever overlaps.                                         *)

(* A step that starts no writer and takes nothing out of the map.          *)
LEMMA WritersUntouched ==
    ASSUME WritersAccounted, subscribers' = subscribers, swept' = swept,
           life # "stop" \/ UNCHANGED lifeVars,
           \A e \in Entries : writer'[e] = "live" => writer[e] = "live"
    PROVE  WritersAccounted'
  BY DEF WritersAccounted, lifeVars

(* An entry is put into the map where there was none, and its writer       *)
(* started.                                                                *)
LEMMA WritersInsert ==
    ASSUME EntryTypes, WritersAccounted, NEW p \in PCs, NEW e \in 1..made,
           subscribers[p] = None, swept' = swept,
           life # "stop" \/ UNCHANGED lifeVars,
           subscribers' = [subscribers EXCEPT ![p] = e],
           writer' = [writer EXCEPT ![e] = "live"]
    PROVE  WritersAccounted'
<1>1. /\ subscribers'[p] = e /\ \A q \in PCs \ {p} : subscribers'[q] = subscribers[q]
      /\ \A f \in Entries \ {e} : writer'[f] = writer[f]
  BY DEF EntryTypes
<1> SUFFICES ASSUME NEW f \in Entries, f # e, writer[f] = "live"
             PROVE  \/ \E q \in PCs : subscribers'[q] = f
                    \/ life' = "stop" /\ \E q \in held'.todo : held'.snap[q] = f
                    \/ f \in swept'
  BY <1>1 DEF WritersAccounted
<1>2. ASSUME NEW q \in PCs, subscribers[q] = f PROVE subscribers'[q] = f
  <2>1. q # p
    BY <1>2 DEF Entries, None
  <2> QED
    BY <1>1, <1>2, <2>1
<1> QED
  BY <1>2 DEF WritersAccounted, lifeVars

(* Every step keeps the running writers accounted for.                     *)
LEMMA WriterStep == Types /\ WriterInv /\ [Next]_vars => WriterInv'
<1> SUFFICES ASSUME Types, WriterInv, [Next]_vars PROVE WriterInv'
  OBVIOUS
<1> USE DEF loopVars, entryVars, pcVars, lifeVars, counts
<1>0. EntryTypes /\ OtherTypes /\ HeldTypes /\ swept \subseteq 1..made
      /\ WritersAccounted
  BY DEF Types, WriterInv
<1>t. /\ subscribers \in [PCs -> 0..made] /\ held \in HeldStates(made)
      /\ writer \in [Entries -> {"none", "live", "cancelled", "done"}]
      /\ made \in Nat
  BY <1>0, EntryNumbers DEF EntryTypes
<1>m. ASSUME swept' = swept, made' \in {made, made + 1}, WritersAccounted'
      PROVE  WriterInv'
  <2>1. 1..made \subseteq 1..made'
    BY <1>t, <1>m
  <2> QED
    BY <1>0, <1>m, <2>1 DEF WriterInv
<1>1. ASSUME NEW a \in Procs, NEW p \in PCs, AddSnapshot(a, p) PROVE WriterInv'
  <2>1. /\ UNCHANGED <<subscribers, writer, life, held, swept>>
        /\ made' = made + 1
    BY <1>1 DEF AddSnapshot, NewEntry
  <2> QED
    BY <1>0, <1>m, <2>1, WritersUntouched
<1>2. ASSUME NEW a \in Procs, AddAttach(a) \/ AddUndo(a) PROVE WriterInv'
  <2>1. UNCHANGED <<subscribers, made, writer, life, held, swept>>
    BY <1>2 DEF AddAttach, AddUndo
  <2> QED
    BY <1>0, <1>m, <2>1, WritersUntouched
<1>3. ASSUME NEW a \in Procs, AddInsert(a) PROVE WriterInv'
  <2>1. adder[a].step = "insert" /\ UNCHANGED <<made, life, held, swept>>
    BY <1>3 DEF AddInsert
  <2>2. adder[a].pc \in PCs /\ adder[a].entry \in 1..made
    BY <1>0, <2>1, AdderType
  <2>3. CASE subscribers[adder[a].pc] # None
    <3>1. UNCHANGED <<subscribers, writer>>
      BY <1>3, <2>3 DEF AddInsert
    <3> QED
      BY <1>0, <1>m, <2>1, <3>1, WritersUntouched
  <2>4. CASE subscribers[adder[a].pc] = None
    <3>1. /\ subscribers' = [subscribers EXCEPT ![adder[a].pc] = adder[a].entry]
          /\ writer' = [writer EXCEPT ![adder[a].entry] = "live"]
      BY <1>3, <2>4 DEF AddInsert
    <3> QED
      BY <1>0, <1>m, <2>1, <2>2, <2>4, <3>1, WritersInsert
  <2> QED
    BY <2>3, <2>4
<1>4. ASSUME NEW p \in PCs, RemTake(p) PROVE WriterInv'
  <2>1. /\ subscribers' = [subscribers EXCEPT ![p] = None]
        /\ writer' = [writer EXCEPT ![subscribers[p]] = Cancelled(@)]
        /\ UNCHANGED <<made, life, held, swept>>
    BY <1>4 DEF RemTake
  <2>2. \A q \in PCs \ {p} : subscribers'[q] = subscribers[q]
    BY <1>t, <2>1
  <2>3. \A f \in Entries : writer'[f] = "live" =>
           writer[f] = "live" /\ f # subscribers[p]
    BY <1>t, <2>1 DEF Cancelled
  <2>4. WritersAccounted'
    BY <1>0, <2>1, <2>2, <2>3 DEF WritersAccounted
  <2> QED
    BY <1>m, <2>1, <2>4
<1>5. ASSUME NEW p \in PCs, RemJoin(p) \/ RemDetach(p) \/ Close(p)
      PROVE  WriterInv'
  <2>1. UNCHANGED <<subscribers, made, writer, life, held, swept>>
    BY <1>5 DEF RemJoin, RemDetach, Close
  <2> QED
    BY <1>0, <1>m, <2>1, WritersUntouched
<1>6. ASSUME NEW e \in Entries, WriterExits(e) PROVE WriterInv'
  <2>1. /\ writer' = [writer EXCEPT ![e] = "done"]
        /\ UNCHANGED <<subscribers, made, life, held, swept>>
    BY <1>6 DEF WriterExits
  <2>2. \A f \in Entries : writer'[f] = "live" => writer[f] = "live"
    BY <1>t, <2>1
  <2> QED
    BY <1>0, <1>m, <2>1, <2>2, WritersUntouched
<1>7. ASSUME \/ \E g \in Runs : RunLeaves(g) \/ RunDone(g)
             \/ Start \/ UNCHANGED vars
      PROVE  WriterInv'
  <2>1. UNCHANGED <<subscribers, made, writer, life, held, swept>>
    BY <1>7 DEF RunLeaves, RunDone, Start, vars
  <2> QED
    BY <1>0, <1>m, <2>1, WritersUntouched
<1>8. ASSUME (\E s \in Sources : UpdateBegin(s)) \/ UpdateSwap \/ UpdateEnd \/ StopEnd
      PROVE  WriterInv'
  <2>1. life # "stop" /\ UNCHANGED <<subscribers, made, writer, swept>>
    BY <1>8 DEF UpdateBegin, UpdateSwap, UpdateEnd, StopEnd
  <2> QED
    BY <1>0, <1>m, <2>1, WritersUntouched
<1>9. ASSUME NEW p \in PCs, ReconcileCancel(p) PROVE WriterInv'
  <2>1. /\ writer' = [writer EXCEPT ![held.snap[p]] = Cancelled(@)]
        /\ life # "stop" /\ UNCHANGED <<subscribers, made, swept>>
    BY <1>9 DEF ReconcileCancel
  <2>2. \A f \in Entries : writer'[f] = "live" => writer[f] = "live"
    BY <1>t, <2>1 DEF Cancelled
  <2> QED
    BY <1>0, <1>m, <2>1, <2>2, WritersUntouched
<1>10. ASSUME \/ \E p \in PCs : StopDetach(p)
              \/ ReconcileRemove \/ ReconcileUndo
       PROVE  WriterInv'
  <2>1. life # "stop" /\ UNCHANGED <<subscribers, made, writer, swept>>
    BY <1>10 DEF StopDetach, ReconcileRemove, ReconcileUndo
  <2> QED
    BY <1>0, <1>m, <2>1, WritersUntouched
<1>11. CASE ReconcileDelete
  <2>1. /\ life = "join" /\ writer[held.snap[held.pc]] = "done"
        /\ subscribers' = [subscribers EXCEPT ![held.pc] = None]
        /\ swept' = swept \cup
                      ({subscribers[held.pc]} \ {None, held.snap[held.pc]})
        /\ UNCHANGED <<made, writer, held>>
    BY <1>11 DEF ReconcileDelete
  <2>2. held.pc \in PCs
    BY <1>0, <2>1 DEF HeldTypes
  <2>3. \A q \in PCs : q # held.pc => subscribers'[q] = subscribers[q]
    BY <1>t, <2>1
  <2>4. \A f \in Entries : writer[f] = "live" =>
           f # None /\ f # held.snap[held.pc]
    BY <2>1 DEF Entries, None
  <2>5. \A f \in Entries : writer[f] = "live" /\ f = subscribers[held.pc] => f \in swept'
    BY <2>1, <2>4
  <2>6. WritersAccounted'
    BY <1>0, <2>1, <2>3, <2>5 DEF WritersAccounted
  <2>7. subscribers[held.pc] = None \/ subscribers[held.pc] \in 1..made
    BY <1>0, <1>t, <2>2, EntryNumbers
  <2>8. swept' \subseteq 1..made'
    BY <1>0, <2>1, <2>7
  <2> QED
    BY <2>6, <2>8 DEF WriterInv
<1>12. CASE ReconcileAttach
  <2>1. life # "stop" /\ UNCHANGED <<subscribers, writer, swept>>
        /\ made' \in {made, made + 1}
    BY <1>12 DEF ReconcileAttach, NewEntry
  <2> QED
    BY <1>0, <1>m, <2>1, WritersUntouched
<1>13. CASE ReconcileInsert
  <2>1. life = "insert" /\ UNCHANGED <<made, swept>>
    BY <1>13 DEF ReconcileInsert
  <2>2. held.pc \in PCs /\ held.entry # None /\ held.entry \in 0..made
    BY <1>0, <1>t, <2>1 DEF HeldTypes, HeldStates
  <2>3. held.entry \in 1..made
    BY <1>0, <2>2, EntryNumbers
  <2>4. CASE subscribers[held.pc] # None
    <3>1. UNCHANGED <<subscribers, writer>>
      BY <1>13, <2>4 DEF ReconcileInsert
    <3> QED
      BY <1>0, <1>m, <2>1, <3>1, WritersUntouched
  <2>5. CASE subscribers[held.pc] = None
    <3>1. /\ subscribers' = [subscribers EXCEPT ![held.pc] = held.entry]
          /\ writer' = [writer EXCEPT ![held.entry] = "live"]
      BY <1>13, <2>5 DEF ReconcileInsert
    <3> QED
      BY <1>0, <1>m, <2>1, <2>2, <2>3, <2>5, <3>1, WritersInsert
  <2> QED
    BY <2>4, <2>5
<1>14. CASE StopBegin
  <2>1. /\ life = "free" /\ life' = "stop" /\ held'.snap = subscribers
        /\ held'.todo = {p \in PCs : subscribers[p] # None}
        /\ UNCHANGED <<made, writer, swept>>
    BY <1>14 DEF StopBegin, NoHeld
  <2>2. \A f \in Entries : f # None
    BY DEF Entries, None
  <2>3. WritersAccounted'
    BY <1>0, <2>1, <2>2 DEF WritersAccounted
  <2> QED
    BY <1>m, <2>1, <2>3
<1>15. CASE StopCancel
  <2>1. /\ UNCHANGED <<subscribers, made, held, swept>>
        /\ writer' = [e \in Entries |-> IF \E p \in held.todo : held.snap[p] = e
                                        THEN Cancelled(writer[e]) ELSE writer[e]]
    BY <1>15 DEF StopCancel
  <2>2. \A f \in Entries : writer'[f] = "live" =>
           writer[f] = "live" /\ ~\E p \in held.todo : held.snap[p] = f
    BY <2>1 DEF Cancelled
  <2>3. WritersAccounted'
    BY <1>0, <2>1, <2>2 DEF WritersAccounted
  <2> QED
    BY <1>m, <2>1, <2>3
<1> QED
  BY <1>1, <1>2, <1>3, <1>4, <1>5, <1>6, <1>7, <1>8, <1>9, <1>10, <1>11, <1>12,
     <1>13, <1>14, <1>15, Zenon DEF Next, LifeStep
-----------------------------------------------------------------------------
(* Calls that exclude each other: what is sent.                            *)

(* AddTrack on a connection that sends nothing ...                         *)
LEMMA FilledCarries ==
    ASSUME NEW S, NEW q \in Seq(S), Carries(q, None), NEW e, e # None,
           NEW r \in Filled(q, e)
    PROVE  Carries(r, e)
<1>1. \A i \in DOMAIN q : q[i] = None
  BY DEF Carries
<1>2. CASE r = Append(q, e)
  <2>1. Len(q) \in Nat /\ DOMAIN r = 1..(Len(q) + 1) /\ r[Len(q) + 1] = e
        /\ \A i \in 1..Len(q) : r[i] = q[i]
    BY <1>2
  <2>2. \A i \in DOMAIN r : i # Len(q) + 1 => i \in 1..Len(q) /\ i \in DOMAIN q
    BY <2>1
  <2>3. Len(q) + 1 \in DOMAIN r
    BY <2>1
  <2> QED
    BY <1>1, <2>1, <2>2, <2>3 DEF Carries
<1>3. CASE r # Append(q, e)
  <2>1. PICK i \in DOMAIN q : r = [q EXCEPT ![i] = e]
    BY <1>3 DEF Filled
  <2> QED
    BY <1>1, <2>1 DEF Carries
<1> QED
  BY <1>2, <1>3

(* ... and RemoveTrack, which takes the first sender that sends.           *)
LEMMA VacatedCarries ==
    ASSUME NEW S, NEW p \in PCs, senders[p] \in Seq(S), p \notin closed,
           NEW e, Sends(p, e)
    PROVE  Carries(Vacated(p), None)
<1> DEFINE q == senders[p]
           Used == {i \in DOMAIN q : q[i] # None}
           P(i) == \A j \in Used : i <= j
           c == CHOOSE i \in Used : P(i)
<1>1. Carries(q, e) /\ (p \in local <=> e # None)
  BY DEF Sends
<1>2. CASE Used = {}
  <2>1. Vacated(p) = q
    BY <1>2 DEF Vacated
  <2> QED
    BY <1>2, <2>1 DEF Carries
<1>3. CASE Used # {}
  <2>1. PICK i \in Used : TRUE
    BY <1>3
  <2>2. e # None
    BY <1>1, <2>1 DEF Carries
  <2>3. Used = {i}
    BY <1>1, <2>1 DEF Carries
  <2>4. i \in Nat
    BY <2>1
  <2>5. P(i)
    BY <2>3, <2>4
  <2>6. c = i
    BY <2>3, <2>5
  <2>7. Vacated(p) = [q EXCEPT ![c] = None]
    BY <1>1, <1>3, <2>2 DEF Vacated
  <2>8. \A j \in DOMAIN q : j # i => q[j] = None
    BY <2>3
  <2> QED
    BY <2>6, <2>7, <2>8 DEF Carries
<1> QED
  BY <1>2, <1>3

(* Nothing is sent to a connection after RemoveTrack.                      *)
LEMMA RemoveTrackSends ==
    ASSUME EntryTypes, NEW p \in PCs, NEW e, Sends(p, e), RemoveTrack(p)
    PROVE  /\ Sends(p, None)'
           /\ \A q \in PCs \ {p} : senders'[q] = senders[q]
           /\ \A q \in PCs \ {p} : q \in local' <=> q \in local
           /\ closed' = closed
<1>1. closed' = closed /\ senders' = [senders EXCEPT ![p] = Vacated(p)]
      /\ local' = IF p \in closed THEN local ELSE local \ {p}
  BY DEF RemoveTrack
<1>2. senders \in [PCs -> Seq(0..made)]
  BY DEF EntryTypes
<1>3. p \notin closed => Carries(Vacated(p), None)
  BY <1>2, VacatedCarries
<1>4. senders'[p] = Vacated(p) /\ \A q \in PCs \ {p} : senders'[q] = senders[q]
  BY <1>1, <1>2
<1> QED
  BY <1>1, <1>3, <1>4 DEF Sends

-----------------------------------------------------------------------------
(* Calls that exclude each other: who is under way.                        *)

(* No call is under way.                                                   *)
LEMMA FreeFacts == Free.step = "idle" /\ Free.pc = None /\ Free.entry = None
  BY DEF Free

(* An AddSubscriber call under way is alone, and is never undone.          *)
LEMMA AdderAlone ==
    ASSUME Types, Excl, NEW a \in Procs, adder[a].step # "idle"
    PROVE  /\ adder[a] # Free /\ life = "free" /\ \A p \in PCs : remover[p] = Free
           /\ \A b \in Procs \ {a} : adder[b] = Free
           /\ subscribers[adder[a].pc] = None /\ adder[a].step # "undo"
           /\ mime[adder[a].entry] = Mime[publisher]
           /\ adder[a].pc \in PCs /\ adder[a].entry \in 1..made
           /\ adder[a].entry # None /\ adder[a].entry \in Entries
<1>1. EntryTypes
  BY DEF Types
<1>2. /\ adder[a] # Free /\ adder[a].pc \in PCs /\ adder[a].entry \in 1..made
      /\ adder[a].entry # None /\ adder[a].entry \in Entries
  BY <1>1, AdderType
<1> QED
  BY <1>2 DEF Excl, Alone, MapKnown, Codecs

(* So is a RemoveSubscriber call ...                                       *)
LEMMA RemoverAlone ==
    ASSUME Types, Excl, NEW p \in PCs, remover[p] # Free
    PROVE  /\ life = "free" /\ \A q \in PCs \ {p} : remover[q] = Free
           /\ \A a \in Procs : adder[a] = Free
           /\ subscribers[p] = None
  BY DEF Excl, Alone, MapKnown

(* ... and UpdatePublisher or Stop.                                        *)
LEMMA LifeAlone ==
    ASSUME Types, Excl, life # "free"
    PROVE  /\ \A p \in PCs : remover[p] = Free
           /\ \A a \in Procs : adder[a] = Free
  BY DEF Excl, Alone

(* A connection no call is working on is sent what the map says.           *)
LEMMA IdleSends ==
    ASSUME Types, Excl, NEW p \in PCs, remover[p] = Free,
           \A a \in Procs : adder[a].step = "insert" => adder[a].pc # p,
           life \in {"replace", "attach", "insert"} => held.pc # p,
           life \notin {"stop", "writers"}
    PROVE  Sends(p, subscribers[p])
  BY DEF Excl, Egress, Between
-----------------------------------------------------------------------------
(* Calls that exclude each other: the steps of AddSubscriber.              *)

(* The entry is made for the publisher of the moment.                      *)
LEMMA ExclAddSnapshot ==
    ASSUME Types, Excl, world.exclusive, NEW a \in Procs, NEW p \in PCs, AddSnapshot(a, p)
    PROVE  Excl'
<1> USE DEF loopVars, pcVars, lifeVars, counts
<1>0. /\ life = "free" /\ (\A q \in PCs : remover[q] = Free)
      /\ \A b \in Procs : adder[b] = Free
  BY DEF AddSnapshot, Begins, Quiet
<1>1. /\ subscribers[p] = None /\ NewEntry(publisher)
      /\ adder' = [adder EXCEPT ![a] = [step |-> "attach", pc |-> p, entry |-> made + 1]]
      /\ UNCHANGED <<publisher, subscribers, writer, senders, local, closed, remover,
                     life, held, swept>>
  BY DEF AddSnapshot
<1>2. mime' = [mime EXCEPT ![made + 1] = Mime[publisher]] /\ made + 1 \in Entries
  BY <1>1, NextEntry DEF Types
<1>t. /\ adder \in [Procs -> AdderStates(made)] /\ subscribers \in [PCs -> 0..made]
      /\ DOMAIN mime = Entries /\ made + 1 \notin 0..made
  BY EntryNumbers DEF Types, EntryTypes
<1>3. adder'[a] = [step |-> "attach", pc |-> p, entry |-> made + 1]
      /\ \A b \in Procs \ {a} : adder'[b] = Free
  BY <1>0, <1>1, <1>t
<1>4. mime'[made + 1] = Mime[publisher] /\ \A q \in PCs : mime'[subscribers[q]] = mime[subscribers[q]]
  BY <1>2, <1>t
<1>5. \A b \in Procs : adder'[b].step # "insert"
  BY <1>3, FreeFacts
<1>6. Alone'
  BY <1>0, <1>1, <1>3 DEF Alone
<1>7. MapKnown'
  BY <1>0, <1>1, <1>3 DEF MapKnown, Reconciling, Excl
<1>8. Codecs'
  BY <1>0, <1>1, <1>3, <1>4 DEF Codecs, Reconciling, Excl
<1>9. \A q \in PCs : Sends(q, subscribers[q])
  BY <1>0, FreeFacts, IdleSends
<1>10. Egress'
  BY <1>0, <1>1, <1>5, <1>9 DEF Egress, Sends
<1> QED
  BY <1>6, <1>7, <1>8, <1>10 DEF Excl

(* Its egress track is attached, or the connection is closed.              *)
LEMMA ExclAddAttach ==
    ASSUME Types, Excl, NEW a \in Procs, AddAttach(a) PROVE Excl'
<1> USE DEF loopVars, entryVars, pcVars, lifeVars, counts
<1>0. /\ adder[a].step = "attach"
      /\ UNCHANGED <<publisher, subscribers, made, mime, writer, remover, life, held, swept>>
  BY DEF AddAttach
<1>1. PICK p \in PCs : p = adder[a].pc
  BY <1>0, AdderAlone
<1>2. PICK e \in 1..made : e = adder[a].entry
  BY <1>0, AdderAlone
<1>3. /\ adder[a] # Free /\ life = "free" /\ (\A q \in PCs : remover[q] = Free)
      /\ (\A b \in Procs \ {a} : adder[b] = Free)
      /\ subscribers[p] = None /\ mime[e] = Mime[publisher] /\ e # None
  BY <1>0, <1>1, <1>2, AdderAlone
<1>t. /\ adder \in [Procs -> AdderStates(made)] /\ senders \in [PCs -> Seq(0..made)]
  BY DEF Types, EntryTypes
<1>4. \A q \in PCs : Sends(q, subscribers[q])
  BY <1>0, <1>3, FreeFacts, IdleSends
<1>5. CASE p \in closed
  <2>1. UNCHANGED <<senders, local, closed>> /\ adder' = [adder EXCEPT ![a] = Free]
    BY <1>1, <1>5 DEF AddAttach
  <2>2. \A b \in Procs : adder'[b] = Free
    BY <1>3, <1>t, <2>1
  <2>3. Alone' /\ MapKnown'
    BY <1>0, <1>3, <2>2 DEF Alone, MapKnown, Reconciling, Excl
  <2>4. Codecs'
    BY <1>0, <1>3, <2>2 DEF Codecs, Reconciling, Excl
  <2>5. Egress'
    BY <1>0, <1>3, <1>4, <2>1, <2>2, FreeFacts DEF Egress, Sends
  <2> QED
    BY <2>3, <2>4, <2>5 DEF Excl
<1>6. CASE p \notin closed
  <2>1. AddTrack(p, e) /\ adder' = [adder EXCEPT ![a].step = "insert"]
    BY <1>1, <1>2, <1>6 DEF AddAttach
  <2>2. adder'[a] = [adder[a] EXCEPT !.step = "insert"]
        /\ \A b \in Procs \ {a} : adder'[b] = Free
    BY <1>3, <1>t, <2>1
  <2>3. adder[a] \in [step : {"attach", "insert", "undo"}, pc : PCs, entry : 1..made]
    BY <1>3, <1>t DEF AdderStates
  <2>4. adder'[a].step = "insert" /\ adder'[a].pc = p /\ adder'[a].entry = e
    BY <1>1, <1>2, <2>2, <2>3
  <2>5. PICK r \in Filled(senders[p], e) : senders' = [senders EXCEPT ![p] = r]
    BY <2>1 DEF AddTrack
  <2>6. local' = local \cup {p} /\ closed' = closed
    BY <2>1 DEF AddTrack
  <2>7. Carries(senders[p], None)
    BY <1>3, <1>4, <1>6 DEF Sends
  <2>8. Carries(r, e)
    BY <1>3, <1>t, <2>5, <2>7, FilledCarries
  <2>9. Sends(p, e)'
    BY <1>3, <1>t, <2>5, <2>6, <2>8 DEF Sends
  <2>10. \A q \in PCs \ {p} : senders'[q] = senders[q] /\ (q \in local' <=> q \in local)
    BY <1>t, <2>5, <2>6
  <2>11. Alone'
    BY <1>0, <1>3, <2>2 DEF Alone
  <2>12. MapKnown'
    BY <1>0, <1>3, <2>2, <2>4 DEF MapKnown, Reconciling, Excl
  <2>13. Codecs'
    BY <1>0, <1>3, <2>2, <2>4 DEF Codecs, Reconciling, Excl
  <2>14. ASSUME NEW q \in PCs, ~Between(q)' PROVE Sends(q, subscribers[q])'
    <3>1. q # p
      BY <2>4, <2>14 DEF Between
    <3> QED
      BY <1>0, <1>4, <2>6, <2>10, <3>1 DEF Sends
  <2>15. \A b \in Procs : adder'[b].step = "insert" => Sends(adder[b].pc, adder[b].entry)'
    BY <2>2, <2>4, <2>9, FreeFacts DEF Sends
  <2>16. Egress'
    BY <1>0, <1>3, <2>14, <2>15 DEF Egress
  <2> QED
    BY <2>11, <2>12, <2>13, <2>16 DEF Excl
<1> QED
  BY <1>5, <1>6

(* The entry is put into the map: nobody else was faster.                  *)
LEMMA ExclAddInsert ==
    ASSUME Types, Excl, NEW a \in Procs, AddInsert(a) PROVE Excl'
<1> USE DEF loopVars, entryVars, pcVars, lifeVars, counts
<1>0. /\ adder[a].step = "insert"
      /\ UNCHANGED <<publisher, made, mime, senders, local, closed, remover, life, held,
                     swept>>
  BY DEF AddInsert
<1>1. PICK p \in PCs : p = adder[a].pc
  BY <1>0, AdderAlone
<1>2. PICK e \in 1..made : e = adder[a].entry
  BY <1>0, AdderAlone
<1>3. /\ adder[a] # Free /\ life = "free" /\ (\A q \in PCs : remover[q] = Free)
      /\ (\A b \in Procs \ {a} : adder[b] = Free)
      /\ subscribers[p] = None /\ mime[e] = Mime[publisher] /\ e # None
      /\ e \in Entries
  BY <1>0, <1>1, <1>2, AdderAlone
<1>t. /\ adder \in [Procs -> AdderStates(made)] /\ subscribers \in [PCs -> 0..made]
      /\ writer \in [Entries -> {"none", "live", "cancelled", "done"}]
  BY DEF Types, EntryTypes
<1>4. /\ subscribers' = [subscribers EXCEPT ![p] = e]
      /\ writer' = [writer EXCEPT ![e] = "live"] /\ adder' = [adder EXCEPT ![a] = Free]
  BY <1>1, <1>2, <1>3 DEF AddInsert
<1>5. /\ \A b \in Procs : adder'[b] = Free
      /\ subscribers'[p] = e /\ \A q \in PCs \ {p} : subscribers'[q] = subscribers[q]
      /\ \A f \in Entries \ {e} : writer'[f] = writer[f]
  BY <1>3, <1>4, <1>t
<1>6. Sends(p, e)
  BY <1>0, <1>1, <1>2 DEF Excl, Egress
<1>7. \A q \in PCs \ {p} : Sends(q, subscribers[q])
  BY <1>0, <1>1, <1>3, FreeFacts, IdleSends
<1>8. Alone' /\ MapKnown'
  BY <1>0, <1>3, <1>5 DEF Alone, MapKnown, Reconciling, Excl
<1>9. Codecs'
  BY <1>0, <1>3, <1>5 DEF Codecs, Reconciling, Excl
<1>10. Egress'
  BY <1>0, <1>3, <1>5, <1>6, <1>7, FreeFacts DEF Egress, Sends
<1> QED
  BY <1>8, <1>9, <1>10 DEF Excl

-----------------------------------------------------------------------------
(* The steps of RemoveSubscriber.                                          *)

(* The entry leaves the map and its writer is cancelled.                   *)
LEMMA ExclRemTake ==
    ASSUME Types, Excl, world.exclusive, NEW p \in PCs, RemTake(p) PROVE Excl'
<1> USE DEF loopVars, pcVars, lifeVars
<1>0. /\ life = "free" /\ (\A q \in PCs : remover[q] = Free)
      /\ \A b \in Procs : adder[b] = Free
  BY DEF RemTake, Begins, Quiet
<1>1. /\ subscribers[p] # None /\ subscribers' = [subscribers EXCEPT ![p] = None]
      /\ writer' = [writer EXCEPT ![subscribers[p]] = Cancelled(@)]
      /\ remover' = [remover EXCEPT ![p] =
                       [step |-> "join", pc |-> p, entry |-> subscribers[p]]]
      /\ UNCHANGED <<publisher, made, mime, senders, local, closed, adder, life, held,
                     swept>>
  BY DEF RemTake
<1>2. PICK e \in 0..made : e = subscribers[p]
  BY DEF Types, EntryTypes
<1>t. /\ remover \in [PCs -> RemoverStates(made)] /\ subscribers \in [PCs -> 0..made]
      /\ writer \in [Entries -> {"none", "live", "cancelled", "done"}] /\ e \in Entries
  BY <1>1, <1>2, EntryNumbers DEF Types, EntryTypes
<1>3. /\ remover'[p] # Free /\ remover'[p].entry = e
      /\ \A q \in PCs \ {p} : remover'[q] = Free
  BY <1>0, <1>1, <1>2, <1>t, FreeFacts
<1>4. /\ subscribers'[p] = None /\ \A q \in PCs \ {p} : subscribers'[q] = subscribers[q]
      /\ writer'[e] # "live" /\ \A f \in Entries \ {e} : writer'[f] = writer[f]
  BY <1>1, <1>2, <1>t DEF Cancelled
<1>5. \A q \in PCs : Sends(q, subscribers[q])
  BY <1>0, FreeFacts, IdleSends
<1>6. Alone'
  BY <1>0, <1>1, <1>3 DEF Alone
<1>7. MapKnown'
  BY <1>0, <1>1, <1>3, <1>4 DEF MapKnown, Reconciling, Excl
<1>8. Codecs'
  BY <1>0, <1>1, <1>4 DEF Codecs, Reconciling, Excl
<1>9. Egress'
  <2>1. Sends(p, e)'
    BY <1>1, <1>2, <1>5 DEF Sends
  <2>2. \A q \in PCs : remover'[q] # Free => Sends(q, remover[q].entry)'
    BY <1>3, <2>1 DEF Sends
  <2>3. \A q \in PCs : ~Between(q)' => Sends(q, subscribers[q])'
    BY <1>1, <1>3, <1>4, <1>5 DEF Between, Sends
  <2> QED
    BY <1>0, <1>1, <2>2, <2>3, FreeFacts DEF Egress
<1> QED
  BY <1>6, <1>7, <1>8, <1>9 DEF Excl

(* It has been joined.                                                     *)
LEMMA ExclRemJoin ==
    ASSUME Types, Excl, NEW p \in PCs, RemJoin(p) PROVE Excl'
<1> USE DEF loopVars, entryVars, pcVars, lifeVars
<1>1. /\ remover[p].step = "join" /\ remover' = [remover EXCEPT ![p].step = "detach"]
      /\ UNCHANGED <<publisher, subscribers, made, mime, writer, senders, local, closed,
                     adder, life, held, swept>>
  BY DEF RemJoin
<1>t. remover \in [PCs -> RemoverStates(made)]
  BY DEF Types, EntryTypes
<1>2. remover[p] # Free
  BY <1>1, FreeFacts
<1>3. remover[p] \in [step : {"join", "detach"}, pc : PCs, entry : 1..made]
  BY <1>2, <1>t DEF RemoverStates
<1>4. /\ remover'[p].entry = remover[p].entry /\ remover'[p].step = "detach"
      /\ \A q \in PCs \ {p} : remover'[q] = remover[q]
  BY <1>1, <1>3, <1>t
<1>5. /\ \A q \in PCs : remover'[q] # Free <=> remover[q] # Free
      /\ \A q \in PCs : remover'[q].entry = remover[q].entry
  BY <1>2, <1>4, FreeFacts
<1>6. Alone'
  BY <1>1, <1>5 DEF Alone, Excl
<1>7. MapKnown'
  BY <1>1, <1>5 DEF MapKnown, Excl
<1>8. Codecs'
  BY <1>1 DEF Codecs, Excl
<1>9. Egress'
  BY <1>1, <1>5 DEF Egress, Between, Sends, Excl
<1> QED
  BY <1>6, <1>7, <1>8, <1>9 DEF Excl

(* The track is removed from the connection.                               *)
LEMMA ExclRemDetach ==
    ASSUME Types, Excl, NEW p \in PCs, RemDetach(p) PROVE Excl'
<1> USE DEF loopVars, entryVars, pcVars, lifeVars
<1>1. /\ remover[p].step = "detach" /\ remover' = [remover EXCEPT ![p] = Free]
      /\ RemoveTrack(p)
      /\ UNCHANGED <<publisher, subscribers, made, mime, writer, adder, life, held, swept>>
  BY DEF RemDetach
<1>t. remover \in [PCs -> RemoverStates(made)] /\ EntryTypes
  BY DEF Types, EntryTypes
<1>2. remover[p] # Free
  BY <1>1, FreeFacts
<1>3. /\ life = "free" /\ (\A q \in PCs \ {p} : remover[q] = Free)
      /\ (\A a \in Procs : adder[a] = Free) /\ subscribers[p] = None
  BY <1>2, RemoverAlone
<1>4. \A q \in PCs : remover'[q] = Free
  BY <1>1, <1>3, <1>t
<1>5. Sends(p, remover[p].entry)
  BY <1>2 DEF Excl, Egress
<1>6. /\ Sends(p, None)' /\ closed' = closed
      /\ \A q \in PCs \ {p} : senders'[q] = senders[q] /\ (q \in local' <=> q \in local)
  BY <1>1, <1>5, <1>t, RemoveTrackSends
<1>7. \A q \in PCs \ {p} : Sends(q, subscribers[q])
  BY <1>3, FreeFacts, IdleSends
<1>8. Alone' /\ MapKnown'
  BY <1>1, <1>3, <1>4 DEF Alone, MapKnown, Reconciling, Excl
<1>9. Codecs'
  BY <1>1 DEF Codecs, Excl
<1>10. \A q \in PCs : Sends(q, subscribers[q])'
  BY <1>1, <1>3, <1>6, <1>7 DEF Sends
<1>11. Egress'
  BY <1>1, <1>3, <1>4, <1>10, FreeFacts DEF Egress
<1> QED
  BY <1>8, <1>9, <1>11 DEF Excl
-----------------------------------------------------------------------------
(* The steps that leave the calls under way and the map alone.             *)

(* The run loop starts, leaves or ends, or nothing happens.                *)
LEMMA ExclUntouched ==
    ASSUME Excl,
           UNCHANGED <<publisher, subscribers, made, mime, writer, senders, local,
                       closed, adder, remover, life, held, swept>>
    PROVE  Excl'
<1>1. Alone' /\ MapKnown'
  BY DEF Alone, MapKnown, Excl
<1>2. Codecs'
  BY DEF Codecs, Excl
<1>3. Egress'
  BY DEF Egress, Between, Sends, Excl
<1> QED
  BY <1>1, <1>2, <1>3 DEF Excl

(* A peer connection closes: nothing is said of what is sent to it.        *)
LEMMA ExclClose ==
    ASSUME Excl, NEW p \in PCs, Close(p) PROVE Excl'
<1> USE DEF loopVars, entryVars, pcVars, lifeVars
<1>1. /\ closed' = closed \cup {p}
      /\ UNCHANGED <<publisher, subscribers, made, mime, writer, senders, local,
                     adder, remover, life, held, swept>>
  BY DEF Close
<1>2. Alone' /\ MapKnown'
  BY <1>1 DEF Alone, MapKnown, Excl
<1>3. Codecs'
  BY <1>1 DEF Codecs, Excl
<1>4. Egress'
  BY <1>1 DEF Egress, Between, Sends, Excl
<1> QED
  BY <1>2, <1>3, <1>4 DEF Excl

(* A cancelled writer exits.                                               *)
LEMMA ExclWriterExits ==
    ASSUME Types, Excl, NEW e \in Entries, WriterExits(e) PROVE Excl'
<1> USE DEF loopVars, pcVars, lifeVars
<1>1. /\ writer' = [writer EXCEPT ![e] = "done"]
      /\ UNCHANGED <<publisher, subscribers, made, mime, senders, local, closed,
                     adder, remover, life, held, swept>>
  BY DEF WriterExits
<1>2. Alone' /\ MapKnown'
  BY <1>1 DEF Alone, MapKnown, Excl
<1>3. Codecs'
  BY <1>1 DEF Codecs, Excl
<1>4. Egress'
  BY <1>1 DEF Egress, Between, Sends, Excl
<1> QED
  BY <1>2, <1>3, <1>4 DEF Excl

-----------------------------------------------------------------------------
(* The steps of UpdatePublisher.                                           *)

(* The snapshot is the map.                                                *)
LEMMA ExclUpdateBegin ==
    ASSUME Types, Excl, world.exclusive, NEW s \in Sources, UpdateBegin(s) PROVE Excl'
<1> USE DEF loopVars, entryVars, pcVars
<1>0. /\ life = "free" /\ (\A q \in PCs : remover[q] = Free)
      /\ \A b \in Procs : adder[b] = Free
  BY DEF UpdateBegin, Begins, Quiet
<1>1. /\ life' = "update" /\ held'.snap = subscribers
      /\ UNCHANGED <<publisher, subscribers, made, mime, writer, senders, local,
                     closed, adder, remover, swept>>
  BY DEF UpdateBegin, NoHeld
<1>2. \A q \in PCs : Sends(q, subscribers[q])
  BY <1>0, FreeFacts, IdleSends
<1>3. Alone' /\ MapKnown'
  BY <1>0, <1>1 DEF Alone, MapKnown, Reconciling, Excl
<1>4. Codecs'
  BY <1>0, <1>1 DEF Codecs, Reconciling, Excl
<1>5. Egress'
  BY <1>0, <1>1, <1>2, FreeFacts DEF Egress, Sends
<1> QED
  BY <1>3, <1>4, <1>5 DEF Excl

(* The publisher is swapped: the codecs that differ are to be reconciled.  *)
LEMMA ExclUpdateSwap ==
    ASSUME Types, Excl, UpdateSwap PROVE Excl'
<1> USE DEF loopVars, entryVars, pcVars
<1>0. /\ life = "update" /\ life' = "reconcile" /\ publisher' = held.source
      /\ held' = [held EXCEPT !.todo = Mismatched]
      /\ UNCHANGED <<subscribers, made, mime, writer, senders, local, closed, adder,
                     remover, swept>>
  BY DEF UpdateSwap
<1>1. (\A q \in PCs : remover[q] = Free) /\ \A b \in Procs : adder[b] = Free
  BY <1>0, LifeAlone
<1>2. held \in HeldStates(made)
  BY DEF Types, EntryTypes
<1>3. held'.source = held.source /\ held'.snap = held.snap /\ held'.todo = Mismatched
  BY <1>0, <1>2 DEF HeldStates
<1>4. held.snap = subscribers
  BY <1>0 DEF Excl, MapKnown
<1>5. \A q \in PCs : Sends(q, subscribers[q])
  BY <1>0, <1>1, FreeFacts, IdleSends
<1>6. Alone' /\ MapKnown'
  BY <1>0, <1>1, <1>3, <1>4 DEF Alone, MapKnown, Reconciling, Mismatched, Excl
<1>7. Codecs'
  BY <1>0, <1>1, <1>3, <1>4 DEF Codecs, Reconciling, Mismatched
<1>8. Egress'
  BY <1>0, <1>1, <1>5, FreeFacts DEF Egress, Sends
<1> QED
  BY <1>6, <1>7, <1>8 DEF Excl

(* The writer of an entry to be reconciled is cancelled.                   *)
LEMMA ExclReconcileCancel ==
    ASSUME Types, Excl, NEW p \in PCs, ReconcileCancel(p) PROVE Excl'
<1> USE DEF loopVars, pcVars
<1>0. /\ life = "reconcile" /\ p \in held.todo /\ life' = "join"
      /\ held' = [held EXCEPT !.todo = @ \ {p}, !.pc = p]
      /\ writer' = [writer EXCEPT ![held.snap[p]] = Cancelled(@)]
      /\ UNCHANGED <<publisher, subscribers, made, mime, senders, local, closed, adder,
                     remover, swept>>
  BY DEF ReconcileCancel
<1>1. (\A q \in PCs : remover[q] = Free) /\ \A b \in Procs : adder[b] = Free
  BY <1>0, LifeAlone
<1>2. /\ held \in HeldStates(made)
      /\ writer \in [Entries -> {"none", "live", "cancelled", "done"}]
  BY DEF Types, EntryTypes
<1>3. /\ held'.source = held.source /\ held'.snap = held.snap
      /\ held'.todo = held.todo \ {p} /\ held'.pc = p
  BY <1>0, <1>2 DEF HeldStates
<1>4. \A q \in PCs : Sends(q, subscribers[q])
  BY <1>0, <1>1, FreeFacts, IdleSends
<1>5. Alone' /\ MapKnown'
  BY <1>0, <1>1, <1>3 DEF Alone, MapKnown, Reconciling, Excl
<1>6. Codecs'
  BY <1>0, <1>1, <1>3 DEF Codecs, Reconciling, Excl
<1>7. Egress'
  BY <1>0, <1>1, <1>4, FreeFacts DEF Egress, Sends
<1> QED
  BY <1>5, <1>6, <1>7 DEF Excl
(* The entry leaves the map once its writer has been joined.               *)
LEMMA ExclReconcileDelete ==
    ASSUME Types, Excl, ReconcileDelete PROVE Excl'
<1> USE DEF loopVars, entryVars, pcVars
<1>0. /\ life = "join" /\ life' = "replace" /\ writer[held.snap[held.pc]] = "done"
      /\ subscribers' = [subscribers EXCEPT ![held.pc] = None]
      /\ UNCHANGED <<publisher, made, mime, writer, senders, local, closed, adder,
                     remover, held>>
  BY DEF ReconcileDelete
<1>1. (\A q \in PCs : remover[q] = Free) /\ \A b \in Procs : adder[b] = Free
  BY <1>0, LifeAlone
<1>2. PICK p \in PCs : p = held.pc
  BY <1>0 DEF Types, HeldTypes
<1>3. p \notin held.todo /\ subscribers[p] = held.snap[p]
  BY <1>0, <1>2 DEF Types, HeldTypes, Excl, MapKnown
<1>4. subscribers'[p] = None /\ \A q \in PCs \ {p} : subscribers'[q] = subscribers[q]
  BY <1>0, <1>2 DEF Types, EntryTypes
<1>s. swept' = {}
  BY <1>2, <1>3 DEF ReconcileDelete, Excl, MapKnown
<1>5. \A q \in PCs : Sends(q, subscribers[q])
  BY <1>0, <1>1, FreeFacts, IdleSends
<1>6. Alone'
  BY <1>0, <1>1 DEF Alone
<1>7. MapKnown'
  BY <1>0, <1>1, <1>2, <1>3, <1>4, <1>s DEF MapKnown, Reconciling, Excl
<1>8. Codecs'
  BY <1>0, <1>1, <1>2, <1>4 DEF Codecs, Reconciling, Excl
<1>9. Egress'
  <2>1. Sends(p, held.snap[p])'
    BY <1>0, <1>3, <1>5 DEF Sends
  <2>2. \A q \in PCs \ {p} : Sends(q, subscribers[q])'
    BY <1>0, <1>4, <1>5 DEF Sends
  <2>3. \A q \in PCs : ~Between(q)' => q # p
    BY <1>0, <1>2 DEF Between
  <2> QED
    BY <1>0, <1>1, <1>2, <2>1, <2>2, <2>3, FreeFacts DEF Egress
<1> QED
  BY <1>6, <1>7, <1>8, <1>9 DEF Excl

(* SwapEgressTrack removes the old egress track ...                        *)
LEMMA ExclReconcileRemove ==
    ASSUME Types, Excl, ReconcileRemove PROVE Excl'
<1> USE DEF loopVars, entryVars
<1>0. /\ life = "replace" /\ life' = "attach" /\ RemoveTrack(held.pc)
      /\ UNCHANGED <<publisher, subscribers, made, mime, writer, adder, remover,
                     held, swept>>
  BY DEF ReconcileRemove
<1>1. (\A q \in PCs : remover[q] = Free) /\ \A b \in Procs : adder[b] = Free
  BY <1>0, LifeAlone
<1>2. PICK p \in PCs : p = held.pc
  BY <1>0 DEF Types, HeldTypes
<1>3. Sends(p, held.snap[p]) /\ EntryTypes
  BY <1>0, <1>2 DEF Types, Excl, Egress
<1>4. \A q \in PCs \ {p} : Sends(q, subscribers[q])
  BY <1>0, <1>1, <1>2, FreeFacts, IdleSends
<1>5. /\ Sends(p, None)' /\ closed' = closed
      /\ \A q \in PCs \ {p} : senders'[q] = senders[q] /\ (q \in local' <=> q \in local)
  BY <1>0, <1>2, <1>3, RemoveTrackSends
<1>6. Alone' /\ MapKnown'
  BY <1>0, <1>1 DEF Alone, MapKnown, Reconciling, Excl
<1>7. Codecs'
  BY <1>0, <1>1 DEF Codecs, Reconciling, Excl
<1>8. Egress'
  <2>1. \A q \in PCs \ {p} : Sends(q, subscribers[q])'
    BY <1>0, <1>4, <1>5 DEF Sends
  <2>2. \A q \in PCs : ~Between(q)' => q # p
    BY <1>0, <1>2 DEF Between
  <2>3. Sends(held.pc, None)'
    BY <1>0, <1>2, <1>5
  <2> QED
    BY <1>0, <1>1, <2>1, <2>2, <2>3, FreeFacts DEF Egress
<1> QED
  BY <1>6, <1>7, <1>8 DEF Excl

(* ... and adds the new one, which a closed connection refuses.            *)
LEMMA ExclReconcileAttach ==
    ASSUME Types, Excl, ReconcileAttach PROVE Excl'
<1> USE DEF loopVars, pcVars
<1>0. /\ life = "attach"
      /\ UNCHANGED <<publisher, subscribers, writer, adder, remover, swept>>
  BY DEF ReconcileAttach
<1>1. (\A q \in PCs : remover[q] = Free) /\ \A b \in Procs : adder[b] = Free
  BY <1>0, LifeAlone
<1>2. PICK p \in PCs : p = held.pc
  BY <1>0 DEF Types, HeldTypes
<1>3. /\ p \notin held.todo /\ subscribers[p] = None /\ publisher = held.source
      /\ Sends(p, None)
  BY <1>0, <1>2 DEF Types, HeldTypes, Excl, MapKnown, Egress, Reconciling
<1>4. \A q \in PCs : Sends(q, subscribers[q])
  BY <1>0, <1>1, <1>2, <1>3, FreeFacts, IdleSends
<1>t. /\ held \in HeldStates(made) /\ senders \in [PCs -> Seq(0..made)]
      /\ DOMAIN mime = Entries /\ subscribers \in [PCs -> 0..made]
  BY DEF Types, EntryTypes
<1>5. CASE p \in closed
  <2>1. life' = "reconcile" /\ UNCHANGED <<held, made, mime, senders, local, closed>>
    BY <1>2, <1>5 DEF ReconcileAttach
  <2>2. Alone' /\ MapKnown'
    BY <1>0, <1>1, <2>1 DEF Alone, MapKnown, Reconciling, Excl
  <2>3. Codecs'
    BY <1>0, <1>1, <2>1 DEF Codecs, Reconciling, Excl
  <2>4. \A q \in PCs : Sends(q, subscribers[q])'
    BY <1>0, <1>4, <2>1 DEF Sends
  <2>5. Egress'
    BY <1>0, <1>1, <2>1, <2>4, FreeFacts DEF Egress
  <2> QED
    BY <2>2, <2>3, <2>5 DEF Excl
<1>6. CASE p \notin closed
  <2>1. /\ NewEntry(held.source) /\ life' = "insert"
        /\ held' = [held EXCEPT !.entry = made + 1] /\ AddTrack(p, made + 1)
    BY <1>2, <1>6 DEF ReconcileAttach
  <2>2. local' = local \cup {p} /\ closed' = closed
    BY <2>1 DEF AddTrack
  <2>3. PICK r \in Filled(senders[p], made + 1) : senders' = [senders EXCEPT ![p] = r]
    BY <2>1 DEF AddTrack
  <2>4. /\ mime' = [mime EXCEPT ![made + 1] = Mime[publisher]] /\ made + 1 \in Entries
        /\ made + 1 # None /\ made + 1 \notin 0..made
    BY <1>3, <2>1, NextEntry, EntryNumbers DEF Types, EntryTypes, NewEntry, None
  <2>5. /\ held'.entry = made + 1 /\ held'.pc = p /\ held'.source = held.source
        /\ held'.snap = held.snap /\ held'.todo = held.todo
    BY <1>2, <1>t, <2>1 DEF HeldStates
  <2>6. /\ mime'[made + 1] = Mime[publisher]
        /\ \A q \in PCs : mime'[subscribers[q]] = mime[subscribers[q]]
    BY <1>t, <2>4
  <2>7. Carries(senders[p], None)
    BY <1>3, <1>6 DEF Sends
  <2>8. Carries(r, made + 1)
    BY <1>t, <2>3, <2>4, <2>7, FilledCarries
  <2>9. senders'[p] = r /\ \A q \in PCs \ {p} : senders'[q] = senders[q]
    BY <1>t, <2>3
  <2>10. Alone'
    BY <1>0, <1>1, <2>1 DEF Alone
  <2>11. MapKnown'
    BY <1>0, <1>1, <1>2, <1>3, <2>1, <2>5 DEF MapKnown, Reconciling, Excl
  <2>12. Codecs'
    BY <1>0, <1>1, <1>2, <2>1, <2>5, <2>6 DEF Codecs, Reconciling, Excl
  <2>13. Egress'
    <3>1. PICK e \in Entries : e = made + 1
      BY <2>4
    <3>2. Sends(p, e)'
      BY <2>2, <2>4, <2>8, <2>9, <3>1 DEF Sends
    <3>3. \A q \in PCs \ {p} : Sends(q, subscribers[q])'
      BY <1>0, <1>4, <2>2, <2>9 DEF Sends
    <3>4. \A q \in PCs : ~Between(q)' => q # p
      BY <2>1, <2>5 DEF Between
    <3>5. Sends(held.pc, held.entry)'
      BY <2>5, <3>1, <3>2 DEF Sends
    <3> QED
      BY <1>0, <1>1, <2>1, <3>3, <3>4, <3>5, FreeFacts DEF Egress
  <2> QED
    BY <2>10, <2>11, <2>12, <2>13 DEF Excl
<1> QED
  BY <1>5, <1>6

(* The new entry enters the map.                                           *)
LEMMA ExclReconcileInsert ==
    ASSUME Types, Excl, ReconcileInsert PROVE Excl'
<1> USE DEF loopVars, pcVars
<1>0. /\ life = "insert"
      /\ UNCHANGED <<publisher, made, mime, adder, remover, held, swept>>
  BY DEF ReconcileInsert
<1>1. (\A q \in PCs : remover[q] = Free) /\ \A b \in Procs : adder[b] = Free
  BY <1>0, LifeAlone
<1>t. /\ writer \in [Entries -> {"none", "live", "cancelled", "done"}]
      /\ subscribers \in [PCs -> 0..made] /\ held \in HeldStates(made)
  BY DEF Types, EntryTypes
<1>2. PICK p \in PCs : p = held.pc
  BY <1>0 DEF Types, HeldTypes
<1>3. PICK e \in 0..made : e = held.entry
  BY <1>t DEF HeldStates
<1>4. e # None /\ e \in Entries
  BY <1>0, <1>3, EntryNumbers DEF Types, HeldTypes, EntryTypes
<1>5. /\ p \notin held.todo /\ subscribers[p] = None /\ Sends(p, e)
      /\ mime[e] = Mime[publisher]
  BY <1>0, <1>2, <1>3 DEF Types, HeldTypes, Excl, MapKnown, Egress, Codecs,
                          Reconciling
<1>6. /\ subscribers' = [subscribers EXCEPT ![p] = e]
      /\ writer' = [writer EXCEPT ![e] = "live"]
      /\ life' = "reconcile" /\ UNCHANGED <<senders, local, closed>>
  BY <1>2, <1>3, <1>5 DEF ReconcileInsert
<1>7. /\ subscribers'[p] = e /\ \A q \in PCs \ {p} : subscribers'[q] = subscribers[q]
      /\ \A f \in Entries \ {e} : writer'[f] = writer[f]
  BY <1>4, <1>6, <1>t
<1>8. \A q \in PCs \ {p} : Sends(q, subscribers[q])
  BY <1>0, <1>1, <1>2, FreeFacts, IdleSends
<1>9. Alone'
  BY <1>0, <1>1, <1>6 DEF Alone
<1>10. MapKnown'
  <2>1. held.todo \subseteq PCs \ {p}
    BY <1>5, <1>t DEF HeldStates
  <2>2. publisher = held.source /\ \A q \in held.todo : subscribers[q] = held.snap[q]
    BY <1>0 DEF MapKnown, Reconciling, Excl
  <2>3. \A q \in held.todo : subscribers'[q] = held.snap[q]
    BY <2>1, <2>2, <1>7
  <2> QED
    BY <1>0, <1>1, <1>6, <2>2, <2>3 DEF MapKnown, Reconciling, Excl
<1>11. Codecs'
  BY <1>0, <1>1, <1>5, <1>6, <1>7 DEF Codecs, Reconciling, Excl
<1>12. \A q \in PCs : Sends(q, subscribers[q])'
  BY <1>5, <1>6, <1>7, <1>8 DEF Sends
<1>13. Egress'
  BY <1>0, <1>1, <1>6, <1>12, FreeFacts DEF Egress
<1> QED
  BY <1>9, <1>10, <1>11, <1>13 DEF Excl

(* Nothing is left to reconcile.                                           *)
LEMMA ExclUpdateEnd ==
    ASSUME Types, Excl, UpdateEnd PROVE Excl'
<1> USE DEF entryVars, pcVars
<1>0. /\ life = "reconcile" /\ held.todo = {} /\ life' = "free"
      /\ UNCHANGED <<publisher, subscribers, made, mime, writer, senders, local, closed,
                     adder, remover, swept>>
  BY DEF UpdateEnd
<1>1. (\A q \in PCs : remover[q] = Free) /\ \A b \in Procs : adder[b] = Free
  BY <1>0, LifeAlone
<1>2. \A q \in PCs : Sends(q, subscribers[q])
  BY <1>0, <1>1, FreeFacts, IdleSends
<1>3. Alone' /\ MapKnown'
  BY <1>0, <1>1 DEF Alone, MapKnown, Reconciling, Excl
<1>4. Codecs'
  BY <1>0, <1>1 DEF Codecs, Reconciling, Excl
<1>5. Egress'
  BY <1>0, <1>1, <1>2, FreeFacts DEF Egress, Sends
<1> QED
  BY <1>3, <1>4, <1>5 DEF Excl
-----------------------------------------------------------------------------
(* The steps of Stop.                                                      *)

(* The map is cleared: what was in it is to be stopped.                    *)
LEMMA ExclStopBegin ==
    ASSUME Types, Excl, world.exclusive, StopBegin PROVE Excl'
<1> USE DEF entryVars, pcVars
<1>0. /\ life = "free" /\ (\A q \in PCs : remover[q] = Free)
      /\ \A b \in Procs : adder[b] = Free
  BY DEF StopBegin, Begins, Quiet
<1>1. /\ life' = "stop" /\ subscribers' = [p \in PCs |-> None]
      /\ held'.snap = subscribers /\ held'.todo = {p \in PCs : subscribers[p] # None}
      /\ UNCHANGED <<publisher, made, mime, writer, senders, local, closed, adder,
                     remover, swept>>
  BY DEF StopBegin, NoHeld
<1>2. \A q \in PCs : Sends(q, subscribers[q])
  BY <1>0, FreeFacts, IdleSends
<1>3. \A q \in PCs : subscribers'[q] = None
  BY <1>1
<1>4. Alone' /\ MapKnown'
  BY <1>0, <1>1, <1>3 DEF Alone, MapKnown, Reconciling, Excl
<1>5. Codecs'
  BY <1>0, <1>1, <1>3 DEF Codecs
<1>6. Egress'
  <2>1. \A q \in PCs : Between(q)'
    BY <1>1 DEF Between
  <2>2. \A q \in PCs : (IF q \in held'.todo THEN held'.snap[q] ELSE None) = subscribers[q]
    BY <1>1
  <2>3. \A q \in PCs : Sends(q, IF q \in held.todo THEN held.snap[q] ELSE None)'
    BY <1>1, <1>2, <2>2 DEF Sends
  <2> QED
    BY <1>0, <1>1, <2>1, <2>3, FreeFacts DEF Egress
<1> QED
  BY <1>4, <1>5, <1>6 DEF Excl

(* The writers of what was in it are cancelled: no other ran.              *)
LEMMA ExclStopCancel ==
    ASSUME Types, Excl, StopCancel PROVE Excl'
<1> USE DEF loopVars, pcVars
<1>0. /\ life = "stop" /\ life' = "writers"
      /\ writer' = [e \in Entries |-> IF \E p \in held.todo : held.snap[p] = e
                                      THEN Cancelled(writer[e]) ELSE writer[e]]
      /\ UNCHANGED <<publisher, subscribers, made, mime, senders, local, closed, adder,
                     remover, held, swept>>
  BY DEF StopCancel
<1>1. (\A q \in PCs : remover[q] = Free) /\ \A b \in Procs : adder[b] = Free
  BY <1>0, LifeAlone
<1>2. \A q \in PCs : subscribers[q] = None
  BY <1>0 DEF Excl, MapKnown
<1>3. Alone' /\ MapKnown'
  BY <1>0, <1>1, <1>2 DEF Alone, MapKnown, Reconciling, Excl
<1>4. Codecs'
  BY <1>0, <1>1, <1>2 DEF Codecs
<1>5. Egress'
  BY <1>0, <1>1, FreeFacts DEF Egress, Between, Sends, Excl
<1> QED
  BY <1>3, <1>4, <1>5 DEF Excl

(* The track is removed from one of the connections that were in the map.  *)
LEMMA ExclStopDetach ==
    ASSUME Types, Excl, NEW p \in PCs, StopDetach(p) PROVE Excl'
<1> USE DEF loopVars, entryVars
<1>0. /\ life = "writers" /\ p \in held.todo /\ held' = [held EXCEPT !.todo = @ \ {p}]
      /\ RemoveTrack(p)
      /\ UNCHANGED <<publisher, subscribers, made, mime, writer, adder, remover, life,
                     swept>>
  BY DEF StopDetach
<1>1. (\A q \in PCs : remover[q] = Free) /\ \A b \in Procs : adder[b] = Free
  BY <1>0, LifeAlone
<1>t. held \in HeldStates(made) /\ EntryTypes
  BY DEF Types, EntryTypes
<1>2. held'.snap = held.snap /\ held'.todo = held.todo \ {p}
  BY <1>0, <1>t DEF HeldStates
<1>3. \A q \in PCs : subscribers[q] = None
  BY <1>0 DEF Excl, MapKnown
<1>4. \A q \in PCs : Sends(q, IF q \in held.todo THEN held.snap[q] ELSE None)
  BY <1>0 DEF Excl, Egress
<1>5. Sends(p, held.snap[p])
  BY <1>0, <1>4
<1>6. /\ Sends(p, None)' /\ closed' = closed
      /\ \A q \in PCs \ {p} : senders'[q] = senders[q] /\ (q \in local' <=> q \in local)
  BY <1>0, <1>5, <1>t, RemoveTrackSends
<1>7. Alone' /\ MapKnown'
  BY <1>0, <1>1, <1>3 DEF Alone, MapKnown, Reconciling, Excl
<1>8. Codecs'
  BY <1>0, <1>1, <1>3 DEF Codecs, Excl
<1>9. Egress'
  <2>1. \A q \in PCs : Between(q)'
    BY <1>0 DEF Between
  <2>2. \A q \in PCs \ {p} : (IF q \in held'.todo THEN held'.snap[q] ELSE None)
                             = IF q \in held.todo THEN held.snap[q] ELSE None
    BY <1>2
  <2>3. \A q \in PCs \ {p} : Sends(q, IF q \in held.todo THEN held.snap[q] ELSE None)'
    BY <1>4, <1>6, <2>2 DEF Sends
  <2>4. Sends(p, IF p \in held.todo THEN held.snap[p] ELSE None)'
    BY <1>2, <1>6 DEF Sends
  <2> QED
    BY <1>0, <1>1, <2>1, <2>3, <2>4, FreeFacts DEF Egress
<1> QED
  BY <1>7, <1>8, <1>9 DEF Excl

(* All are removed.                                                        *)
LEMMA ExclStopEnd ==
    ASSUME Types, Excl, StopEnd PROVE Excl'
<1> USE DEF loopVars, entryVars, pcVars
<1>0. /\ life = "writers" /\ life' = "free" /\ held.todo = {}
      /\ UNCHANGED <<publisher, subscribers, made, mime, writer, senders, local, closed,
                     adder, remover, swept>>
  BY DEF StopEnd
<1>1. (\A q \in PCs : remover[q] = Free) /\ \A b \in Procs : adder[b] = Free
  BY <1>0, LifeAlone
<1>2. \A q \in PCs : subscribers[q] = None
  BY <1>0 DEF Excl, MapKnown
<1>3. \A q \in PCs : Sends(q, None)
  BY <1>0 DEF Excl, Egress
<1>4. Alone' /\ MapKnown'
  BY <1>0, <1>1, <1>2 DEF Alone, MapKnown, Reconciling, Excl
<1>5. Codecs'
  BY <1>0, <1>1, <1>2 DEF Codecs, Excl
<1>6. Egress'
  BY <1>0, <1>1, <1>2, <1>3, FreeFacts DEF Egress, Sends
<1> QED
  BY <1>4, <1>5, <1>6 DEF Excl
-----------------------------------------------------------------------------
(* Every step keeps what calls that exclude each other are sure of.        *)
LEMMA ExclStep == Types /\ ExclusiveInv /\ [Next]_vars => ExclusiveInv'
<1> SUFFICES ASSUME Types, ExclusiveInv, [Next]_vars, world'.exclusive PROVE Excl'
  BY DEF ExclusiveInv
<1>0. world.exclusive /\ Excl
  BY WorldFixed DEF ExclusiveInv
<1>1. CASE \E a \in Procs : \/ \E p \in PCs : AddSnapshot(a, p)
                            \/ AddAttach(a) \/ AddInsert(a)
  BY <1>0, <1>1, ExclAddSnapshot, ExclAddAttach, ExclAddInsert
<1>2. CASE \E a \in Procs : AddUndo(a)
  <2>1. PICK a \in Procs : adder[a].step = "undo"
    BY <1>2 DEF AddUndo
  <2> QED
    BY <1>0, <2>1, AdderAlone
<1>3. CASE \E p \in PCs : RemTake(p) \/ RemJoin(p) \/ RemDetach(p) \/ Close(p)
  BY <1>0, <1>3, ExclRemTake, ExclRemJoin, ExclRemDetach, ExclClose
<1>4. CASE \E e \in Entries : WriterExits(e)
  BY <1>0, <1>4, ExclWriterExits
<1>5. CASE \/ \E g \in Runs : RunLeaves(g) \/ RunDone(g)
           \/ Start \/ UNCHANGED vars
  <2>1. UNCHANGED <<publisher, subscribers, made, mime, writer, senders, local, closed,
                    adder, remover, life, held, swept>>
    BY <1>5 DEF RunLeaves, RunDone, Start, vars, entryVars, pcVars, lifeVars
  <2> QED
    BY <1>0, <2>1, ExclUntouched
<1>6. CASE (\E s \in Sources : UpdateBegin(s)) \/ UpdateSwap \/ UpdateEnd
  BY <1>0, <1>6, ExclUpdateBegin, ExclUpdateSwap, ExclUpdateEnd
<1>7. CASE \E p \in PCs : ReconcileCancel(p) \/ StopDetach(p)
  BY <1>0, <1>7, ExclReconcileCancel, ExclStopDetach
<1>8. CASE \/ ReconcileDelete \/ ReconcileRemove \/ ReconcileAttach
           \/ ReconcileInsert
  BY <1>0, <1>8, ExclReconcileDelete, ExclReconcileRemove, ExclReconcileAttach,
     ExclReconcileInsert
<1>9. CASE ReconcileUndo
  BY <1>0, <1>9 DEF ReconcileUndo, Excl, MapKnown
<1>10. CASE StopBegin \/ StopCancel \/ StopEnd
  BY <1>0, <1>10, ExclStopBegin, ExclStopCancel, ExclStopEnd
<1> QED
  BY <1>1, <1>2, <1>3, <1>4, <1>5, <1>6, <1>7, <1>8, <1>9, <1>10, Zenon DEF Next, LifeStep

(* NewTrackForwarder establishes the invariant.                            *)
LEMMA InitInv == Init => ForwarderInv
<1> SUFFICES ASSUME Init PROVE ForwarderInv
  OBVIOUS
<1> USE ForwarderAssumption DEF Init
<1>1. EntryTypes
  <2>1. made = 0 /\ made \in 0..MaxEntries /\ None \in 0..made
    BY DEF None
  <2>2. subscribers \in [PCs -> 0..made] /\ senders \in [PCs -> Seq(0..made)]
    BY <2>1
  <2>3. adder \in [Procs -> AdderStates(made)] /\ remover \in [PCs -> RemoverStates(made)]
    BY DEF AdderStates, RemoverStates
  <2>4. held \in HeldStates(made)
    BY <2>1 DEF NoHeld, HeldStates
  <2> QED
    BY <2>1, <2>2, <2>3, <2>4 DEF EntryTypes
<1>2. OtherTypes
  BY DEF OtherTypes
<1>3. Started = {} /\ Alive = {}
  BY DEF Started, Alive
<1>4. RunTypes
  <2>1. 0 \in 0..MaxRuns /\ Started = 1..0
    BY <1>3
  <2> QED
    BY <2>1 DEF RunTypes, None
<1>5. HeldTypes
  BY DEF HeldTypes, Reconciling
<1>6. RunInv
  BY <1>3 DEF RunInv, Reconciling
<1>7. Excl
  <2>1. \A a \in Procs : adder[a].step # "insert"
    BY FreeFacts
  <2>2. \A p \in PCs : Sends(p, subscribers[p])
    BY DEF Sends, Carries
  <2>3. Alone /\ MapKnown
    BY DEF Alone, MapKnown, Reconciling, Excl
  <2>4. Codecs
    BY DEF Codecs
  <2>5. Egress
    BY <2>1, <2>2 DEF Egress
  <2> QED
    BY <2>3, <2>4, <2>5 DEF Excl
<1>8. WriterInv
  BY DEF WriterInv, WritersAccounted
<1> QED
  BY <1>1, <1>2, <1>4, <1>5, <1>6, <1>7, <1>8 DEF ForwarderInv, Types, ExclusiveInv

(* The inductive invariant: the calls under way, the map, the peer         *)
(* connections and the goroutines of a TrackForwarder agree.               *)
THEOREM ForwarderInvariant == Spec => []ForwarderInv
<1>1. ForwarderInv /\ [Next]_vars => ForwarderInv'
  BY EntryStep, OtherStep, RunTypeStep, HeldStep, RunStep, WriterStep, ExclStep
     DEF ForwarderInv, Types
<1> QED
  BY <1>1, InitInv, PTL DEF Spec

(* TrackForwarder's state is of its types: an entry in the map, on a       *)
(* transceiver or in the hands of a call has been made.                    *)
THEOREM ForwarderTypes == Spec => []TypeOK
<1>1. ForwarderInv => TypeOK
  <2> SUFFICES ASSUME Types, WriterInv PROVE TypeOK
    BY DEF ForwarderInv
  <2>1. \A a \in Procs : adder[a] # Free =>
           /\ adder[a].step \in {"attach", "insert", "undo"}
           /\ adder[a].pc \in PCs /\ adder[a].entry \in 1..made
    BY DEF Types, EntryTypes, AdderStates
  <2>2. \A p \in PCs : remover[p] # Free =>
           remover[p].step \in {"join", "detach"} /\ remover[p].entry \in 1..made
    BY DEF Types, EntryTypes, RemoverStates
  <2>3. held.todo \subseteq PCs
    BY DEF Types, EntryTypes, HeldStates
  <2> QED
    BY <2>1, <2>2, <2>3
       DEF Types, EntryTypes, OtherTypes, RunTypes, WriterInv, Reconciling, TypeOK
<1> QED
  BY <1>1, ForwarderInvariant, PTL

(* However its calls overlap, a TrackForwarder has one run loop at most,   *)
(* and running is never set without one.                                   *)
THEOREM OneRunLoopAtATime == Spec => []OneRunLoop
<1>1. ForwarderInv => OneRunLoop
  BY DEF ForwarderInv, RunInv, OneRunLoop
<1> QED
  BY <1>1, ForwarderInvariant, PTL

(* Once no operation is under way, each connection is sent what the map    *)
(* says.                                                                   *)
LEMMA QuietSends ==
    ASSUME ForwarderInv, world.exclusive, Quiet, NEW p \in PCs
    PROVE  Sends(p, subscribers[p])
<1>1. \A a \in Procs : adder[a].step # "insert"
  BY FreeFacts DEF Quiet
<1> QED
  BY <1>1, IdleSends DEF ForwarderInv, ExclusiveInv, Quiet

(* What a sequence holds, as a set.                                        *)
LEMMA HeldBy == ASSUME NEW q PROVE ToSet(q) = {q[i] : i \in DOMAIN q}
  BY DEF ToSet

(* However its calls overlap, every writer that runs is that of an entry   *)
(* in the map, of one that Stop is about to cancel, or of a resubscription *)
(* that reconcileSubscriber took out in place of what it had stopped.      *)
THEOREM WritersAreAccountedFor == Spec => []WritersAccounted
<1>1. ForwarderInv => WritersAccounted
  BY DEF ForwarderInv, WriterInv
<1> QED
  BY <1>1, ForwarderInvariant, PTL

(* If calls exclude each other, UpdatePublisher leaves every subscriber    *)
(* with the codec of the TrackRemote it forwards.                          *)
THEOREM CodecsReconciled == Spec => []CodecMatches
<1>1. ForwarderInv => CodecMatches
  BY DEF ForwarderInv, ExclusiveInv, Excl, Codecs, CodecMatches, Quiet, Reconciling
<1> QED
  BY <1>1, ForwarderInvariant, PTL

(* If calls exclude each other, no operation leaves an egress track or a   *)
(* writer behind, and none is missing.                                     *)
THEOREM NothingIsLeftBehind == Spec => []NothingLeftBehind
<1>1. ForwarderInv => NothingLeftBehind
  <2> SUFFICES ASSUME ForwarderInv, world.exclusive, Quiet PROVE NothingLeftBehind
    BY DEF NothingLeftBehind
  <2>1. ASSUME NEW p \in PCs, p \notin closed
        PROVE  Attached(p) = {subscribers[p]} \ {None}
    <3>1. Carries(senders[p], subscribers[p])
      BY <2>1, QuietSends DEF Sends
    <3>2. Attached(p) = {senders[p][i] : i \in DOMAIN senders[p]} \ {None}
      BY HeldBy DEF Attached
    <3> QED
      BY <3>1, <3>2 DEF Carries
  <2>2. \A e \in Entries : writer[e] = "live" => \E p \in PCs : subscribers[p] = e
    BY DEF ForwarderInv, ExclusiveInv, Excl, MapKnown, WriterInv,
           WritersAccounted, Quiet
  <2> QED
    BY <2>1, <2>2 DEF NothingLeftBehind
<1> QED
  BY <1>1, ForwarderInvariant, PTL
=============================================================================
