--------------------------- MODULE IceQueueProofs ---------------------------
(***************************************************************************)
(* Theorems about IceQueue, for any set of candidates, any number of       *)
(* remote descriptions, of retries and of errors.                          *)
(***************************************************************************)
EXTENDS IceQueue, TLAPS

(* An attempt is left whenever a candidate may still be tried.             *)
RetriesLeft ==
    \A c \in Cands :
        cand[c] \in {"new", "recheck", "adding"} => tries[c] < Attempts

(* Where a candidate is said to be is where it is: in the queue, or in the *)
(* hands of exactly one flush.                                             *)
QueueExact ==
    /\ \A c \in Cands : c \in pending => cand[c] = "queued"
    /\ \A c \in Cands, s \in Setters : c \in flush[s] => cand[c] = "flushing"
    /\ \A c \in Cands : ~(c \in flush["gate"] /\ c \in flush["api"])

(* NoneStranded, and the candidate whose handler holds pc.mu and has       *)
(* decided to append: it is not stranded either.                           *)
NoLatecomer ==
    remote /\ ~half
        /\ (pending # {} \/ \E c \in Cands : cand[c] = "append")
    => gate = "take"

IInv == TypeOK /\ RetriesLeft /\ QueueExact /\ NoLatecomer

-----------------------------------------------------------------------------
(* What a flush that takes the queue does to the bookkeeping.              *)
LEMMA TakeKeeps ==
    ASSUME IInv, NEW s \in Setters, Take(s)
    PROVE  /\ flush' \in [Setters -> SUBSET Cands] /\ pending' = {}
           /\ cand' \in [Cands -> {"new", "recheck", "append", "adding",
                                   "queued", "flushing", "applied", "failed",
                                   "dropped"}]
           /\ QueueExact'
           /\ \A c \in Cands : cand'[c] # cand[c] => cand'[c] = "flushing"
  BY DEF IInv, TypeOK, QueueExact, Take, Setters

(* AddICECandidate only counts an error of pion.                           *)
LEMMA AddKeeps ==
    ASSUME TypeOK, NEW ok \in BOOLEAN, AddICECandidate(ok)
    PROVE  errors' \in 0..MaxErrors
  BY IceAssumption DEF TypeOK, AddICECandidate

-----------------------------------------------------------------------------
(* The types hold initially and every step keeps them.                     *)
LEMMA TypeStep == IInv /\ [Next]_vars => TypeOK'
<1> SUFFICES ASSUME IInv, [Next]_vars PROVE TypeOK'
  OBVIOUS
<1> USE IceAssumption DEF descr, state
<1>1. ASSUME NEW c \in Cands, HandleICECandidate(c) PROVE TypeOK'
  BY <1>1 DEF IInv, TypeOK, HandleICECandidate
<1>2. ASSUME NEW c \in Cands, CandStep(c) PROVE TypeOK'
  <2>1. CASE Recheck(c)
    BY <2>1 DEF IInv, TypeOK, Recheck
  <2>2. CASE Append(c)
    BY <2>2 DEF IInv, TypeOK, Append
  <2>3. ASSUME NEW ok \in BOOLEAN, Retry(c, ok) PROVE TypeOK'
    <3>1. errors' \in 0..MaxErrors
      BY <2>3, AddKeeps DEF IInv, Retry
    <3>2. tries[c] + 1 \in 0..Attempts
      BY <2>3 DEF IInv, TypeOK, RetriesLeft, Retry
    <3> QED
      BY <2>3, <3>1, <3>2 DEF IInv, TypeOK, Retry
  <2> QED
    BY <1>2, <2>1, <2>2, <2>3 DEF CandStep
<1>3. CASE GateBegin
  BY <1>3 DEF IInv, TypeOK, GateBegin
<1>4. CASE GateStep
  <2>1. CASE GateSet
    <3>1. remote' \in BOOLEAN /\ half' \in BOOLEAN /\ gate' \in {"idle", "take"}
      BY <2>1, Zenon DEF IInv, TypeOK, GateSet
    <3>2. \/ errors' = errors
          \/ errors < MaxErrors /\ errors' = errors + 1
      BY <2>1, Zenon DEF GateSet
    <3>3. errors' \in 0..MaxErrors
      BY <3>2 DEF IInv, TypeOK
    <3> QED
      BY <2>1, <3>1, <3>3 DEF IInv, TypeOK, GateSet
  <2>2. CASE FlushICECandidates
    <3>1. /\ flush' \in [Setters -> SUBSET Cands] /\ pending' = {}
          /\ cand' \in [Cands -> {"new", "recheck", "append", "adding",
                                  "queued", "flushing", "applied", "failed",
                                  "dropped"}]
      BY <2>2, TakeKeeps DEF FlushICECandidates, Setters
    <3> QED
      BY <2>2, <3>1 DEF IInv, TypeOK, FlushICECandidates
  <2> QED
    BY <1>4, <2>1, <2>2 DEF GateStep
<1>5. ASSUME NEW s \in Setters, NEW c \in Cands, NEW ok \in BOOLEAN,
             FlushOne(s, c, ok)
      PROVE  TypeOK'
  <2>1. errors' \in 0..MaxErrors
    BY <1>5, AddKeeps DEF IInv, FlushOne
  <2> QED
    BY <1>5, <2>1 DEF IInv, TypeOK, FlushOne
<1>6. CASE SetRemoteDescription
  <2>1. CASE Take("api") /\ remote' = TRUE /\ half' = FALSE /\ UNCHANGED errors
    <3>1. /\ flush' \in [Setters -> SUBSET Cands] /\ pending' = {}
          /\ cand' \in [Cands -> {"new", "recheck", "append", "adding",
                                  "queued", "flushing", "applied", "failed",
                                  "dropped"}]
      BY <2>1, TakeKeeps DEF Setters
    <3>2. sets' \in 0..MaxSets /\ UNCHANGED <<pcState, shut, tries, gate>>
      BY <1>6 DEF IInv, TypeOK, SetRemoteDescription
    <3> QED
      BY <2>1, <3>1, <3>2 DEF IInv, TypeOK
  <2>2. CASE /\ errors < MaxErrors /\ errors' = errors + 1
             /\ remote' \in {remote, TRUE} /\ half' = (half \/ remote' # remote)
             /\ UNCHANGED <<pending, flush, cand>>
    <3>1. remote' \in BOOLEAN /\ half' \in BOOLEAN
      BY <2>2 DEF IInv, TypeOK
    <3>2. errors' \in 0..MaxErrors /\ sets' \in 0..MaxSets
      BY <1>6, <2>2 DEF IInv, TypeOK, SetRemoteDescription
    <3> QED
      BY <1>6, <2>2, <3>1, <3>2 DEF IInv, TypeOK, SetRemoteDescription
  <2>3. CASE UNCHANGED <<descr, pending, flush, cand, errors>>
    BY <1>6, <2>3 DEF IInv, TypeOK, SetRemoteDescription
  <2> QED
    BY <1>6, <2>1, <2>2, <2>3, Zenon DEF SetRemoteDescription
<1>7. CASE Close
  BY <1>7 DEF IInv, TypeOK, Close
<1>8. CASE handleConnectionStateChange
  BY <1>8 DEF IInv, TypeOK, handleConnectionStateChange
<1>9. CASE UNCHANGED vars
  BY <1>9 DEF IInv, TypeOK, vars
<1> QED
  BY <1>1, <1>2, <1>3, <1>4, <1>5, <1>6, <1>7, <1>8, <1>9 DEF Next, FlushStep

(* Only a failed attempt uses one up, and the last one gives up.           *)
LEMMA RetriesStep == IInv /\ [Next]_vars => RetriesLeft'
<1> SUFFICES ASSUME IInv, [Next]_vars PROVE RetriesLeft'
  OBVIOUS
<1> USE IceAssumption DEF IInv, TypeOK, RetriesLeft, descr, state
<1>1. ASSUME NEW c \in Cands, HandleICECandidate(c) \/ Recheck(c) \/ Append(c)
      PROVE  RetriesLeft'
  BY <1>1 DEF HandleICECandidate, Recheck, Append
<1>2. ASSUME NEW c \in Cands, NEW ok \in BOOLEAN, Retry(c, ok)
      PROVE  RetriesLeft'
  BY <1>2 DEF Retry
<1>3. CASE GateBegin \/ GateSet \/ handleConnectionStateChange \/ UNCHANGED vars
  BY <1>3 DEF GateBegin, GateSet, handleConnectionStateChange, vars
<1>4. CASE FlushICECandidates
  BY <1>4, TakeKeeps DEF FlushICECandidates, Setters
<1>5. ASSUME NEW s \in Setters, NEW c \in Cands, NEW ok \in BOOLEAN,
             FlushOne(s, c, ok)
      PROVE  RetriesLeft'
  BY <1>5 DEF FlushOne
<1>6. CASE SetRemoteDescription
  <2>1. CASE Take("api")
    BY <1>6, <2>1, TakeKeeps DEF SetRemoteDescription, Setters
  <2>2. CASE UNCHANGED <<pending, flush, cand>>
    BY <1>6, <2>2 DEF SetRemoteDescription
  <2> QED
    BY <1>6, <2>1, <2>2 DEF SetRemoteDescription
<1>7. CASE Close
  BY <1>7 DEF Close
<1> QED
  BY <1>1, <1>2, <1>3, <1>4, <1>5, <1>6, <1>7 DEF Next, CandStep, GateStep, FlushStep

(* A candidate moves into the queue when it is appended, out of it with a  *)
(* flush or with Close, and out of a flush when it is added.               *)
LEMMA QueueStep == IInv /\ [Next]_vars => QueueExact'
<1> SUFFICES ASSUME IInv, [Next]_vars PROVE QueueExact'
  OBVIOUS
<1> USE DEF IInv, TypeOK, QueueExact, Setters, descr, state
<1>1. ASSUME NEW c \in Cands, HandleICECandidate(c) \/ Recheck(c) \/ Append(c)
      PROVE  QueueExact'
  BY <1>1 DEF HandleICECandidate, Recheck, Append
<1>2. ASSUME NEW c \in Cands, NEW ok \in BOOLEAN, Retry(c, ok)
      PROVE  QueueExact'
  BY <1>2 DEF Retry
<1>3. CASE GateBegin \/ GateSet \/ handleConnectionStateChange \/ UNCHANGED vars
  BY <1>3 DEF GateBegin, GateSet, handleConnectionStateChange, vars
<1>4. CASE FlushICECandidates
  BY <1>4, TakeKeeps DEF FlushICECandidates
<1>5. ASSUME NEW s \in Setters, NEW c \in Cands, NEW ok \in BOOLEAN,
             FlushOne(s, c, ok)
      PROVE  QueueExact'
  BY <1>5 DEF FlushOne
<1>6. CASE SetRemoteDescription
  <2>1. CASE Take("api")
    BY <2>1, TakeKeeps
  <2>2. CASE UNCHANGED <<pending, flush, cand>>
    BY <2>2
  <2> QED
    BY <1>6, <2>1, <2>2 DEF SetRemoteDescription
<1>7. CASE Close
  BY <1>7 DEF Close
<1> QED
  BY <1>1, <1>2, <1>3, <1>4, <1>5, <1>6, <1>7 DEF Next, CandStep, GateStep, FlushStep

(* A description that appears is followed by a flush or is half installed, *)
(* and once it is there nobody decides to append.                          *)
LEMMA LatecomerStep == IInv /\ [Next]_vars => NoLatecomer'
<1> SUFFICES ASSUME IInv, [Next]_vars PROVE NoLatecomer'
  OBVIOUS
<1> USE DEF IInv, TypeOK, NoLatecomer, descr, state
<1>1. ASSUME NEW c \in Cands, HandleICECandidate(c) \/ Recheck(c) \/ Append(c)
      PROVE  NoLatecomer'
  BY <1>1 DEF HandleICECandidate, Recheck, Append, ToQueue
<1>2. ASSUME NEW c \in Cands, NEW ok \in BOOLEAN, Retry(c, ok)
      PROVE  NoLatecomer'
  BY <1>2 DEF Retry
<1>3. CASE GateBegin \/ handleConnectionStateChange \/ UNCHANGED vars
  BY <1>3 DEF GateBegin, handleConnectionStateChange, vars
<1>4. CASE GateSet
  BY <1>4 DEF GateSet
<1>5. CASE FlushICECandidates
  <2>1. pending' = {} /\ \A c \in Cands : cand'[c] # "append"
    BY <1>5, TakeKeeps DEF FlushICECandidates, MuFree, Setters
  <2> QED
    BY <2>1
<1>6. ASSUME NEW s \in Setters, NEW c \in Cands, NEW ok \in BOOLEAN,
             FlushOne(s, c, ok)
      PROVE  NoLatecomer'
  BY <1>6 DEF FlushOne
<1>7. CASE SetRemoteDescription
  <2>1. CASE Take("api")
    <3>1. pending' = {} /\ \A c \in Cands : cand'[c] # "append"
      BY <1>7, <2>1, TakeKeeps DEF SetRemoteDescription, MuFree, Setters
    <3> QED
      BY <3>1
  <2>2. CASE /\ remote' \in {remote, TRUE} /\ half' = (half \/ remote' # remote)
             /\ UNCHANGED <<pending, flush, cand>>
    <3>1. gate' = gate /\ pcState' = pcState
      BY <1>7 DEF SetRemoteDescription
    <3>2. CASE remote' = remote
      <4>1. half' => half \/ remote' # remote
        BY <2>2
      <4>2. half => half'
        BY <2>2
      <4> QED
        BY <2>2, <3>1, <3>2, <4>1, <4>2
    <3>3. CASE remote' # remote
      BY <2>2, <3>3
    <3> QED
      BY <3>2, <3>3
  <2> QED
    BY <1>7, <2>1, <2>2 DEF SetRemoteDescription
<1>8. CASE Close
  BY <1>8 DEF Close
<1> QED
  BY <1>1, <1>2, <1>3, <1>4, <1>5, <1>6, <1>7, <1>8
     DEF Next, CandStep, GateStep, FlushStep

(* The inductive invariant, from which the others follow.                  *)
THEOREM QueueInvariant == Spec => []IInv
<1>1. Init => IInv
  <2> SUFFICES ASSUME Init PROVE IInv
    OBVIOUS
  <2>1. TypeOK
    <3>1. tries \in [Cands -> 0..Attempts] /\ sets \in 0..MaxSets
             /\ errors \in 0..MaxErrors
      BY IceAssumption DEF Init
    <3>2. flush \in [Setters -> SUBSET Cands] /\ pending \subseteq Cands
      BY DEF Init
    <3> QED
      BY <3>1, <3>2, Zenon DEF Init, TypeOK
  <2>2. RetriesLeft
    BY IceAssumption DEF Init, RetriesLeft
  <2>3. QueueExact
    BY DEF Init, QueueExact, Setters
  <2>4. NoLatecomer
    BY DEF Init, NoLatecomer
  <2> QED
    BY <2>1, <2>2, <2>3, <2>4 DEF IInv
<1>2. IInv /\ [Next]_vars => IInv'
  BY TypeStep, RetriesStep, QueueStep, LatecomerStep DEF IInv
<1> QED
  BY <1>1, <1>2, PTL DEF Spec

(* The variables keep their types, whatever the bounds: no attempt is made *)
(* beyond the last, and no error beyond those pion makes.                  *)
THEOREM TypeCorrect == Spec => []TypeOK
<1>1. IInv => TypeOK
  BY DEF IInv
<1> QED
  BY <1>1, QueueInvariant, PTL

(* Once there is a remote description, a candidate is in the queue only    *)
(* while the exchange that installed it is about to take the queue.        *)
THEOREM NoCandidateStranded == Spec => []NoneStranded
<1>1. IInv => NoneStranded
  BY DEF IInv, NoLatecomer, NoneStranded
<1> QED
  BY <1>1, QueueInvariant, PTL

(* A candidate that was applied, given up or dropped is never touched      *)
(* again: the queue and the flushes between them hold each candidate at    *)
(* most once, so pion is not given one twice.                              *)
Done(c) == cand[c] \in {"applied", "failed", "dropped"}

DoneForGood == \A c \in Cands : Done(c) => cand'[c] = cand[c]

(* pion is given no candidate twice.                                       *)
THEOREM HandedOverOnce == Spec => [][DoneForGood]_vars
<1>1. IInv /\ [Next]_vars => [DoneForGood]_vars
  <2> SUFFICES ASSUME IInv, Next PROVE DoneForGood
    BY DEF vars
  <2> USE DEF IInv, TypeOK, QueueExact, DoneForGood, Done, Setters, descr, state
  <2>1. ASSUME NEW c \in Cands, HandleICECandidate(c) \/ Recheck(c) \/ Append(c)
        PROVE  DoneForGood
    BY <2>1 DEF HandleICECandidate, Recheck, Append
  <2>2. ASSUME NEW c \in Cands, NEW ok \in BOOLEAN, Retry(c, ok)
        PROVE  DoneForGood
    BY <2>2 DEF Retry
  <2>3. CASE GateBegin \/ GateSet \/ handleConnectionStateChange
    BY <2>3 DEF GateBegin, GateSet, handleConnectionStateChange
  <2>4. CASE FlushICECandidates
    BY <2>4 DEF FlushICECandidates, Take
  <2>5. ASSUME NEW s \in Setters, NEW c \in Cands, NEW ok \in BOOLEAN,
               FlushOne(s, c, ok)
        PROVE  DoneForGood
    BY <2>5 DEF FlushOne
  <2>6. CASE SetRemoteDescription
    BY <2>6 DEF SetRemoteDescription, Take
  <2>7. CASE Close
    BY <2>7 DEF Close
  <2> QED
    BY <2>1, <2>2, <2>3, <2>4, <2>5, <2>6, <2>7 DEF Next, CandStep, GateStep, FlushStep
<1> QED
  BY <1>1, QueueInvariant, PTL DEF Spec
=============================================================================
