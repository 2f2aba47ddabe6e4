------------------------------ MODULE IceQueue ------------------------------
(***************************************************************************)
(* The remote ICE candidates of one PeerConnection.  A candidate that      *)
(* arrives before the remote description is queued in pendingICECandidates *)
(* (internal/webrtc/retry.go); whoever sets the description flushes the    *)
(* queue afterwards (internal/webrtc/peer_connection.go).                  *)
(*                                                                         *)
(* The gate (ProcessBrowserAnswer, answerExchangeLocked; see Negotiation)  *)
(* calls pion's SetRemoteDescription without pc.mu, so that the            *)
(* description can appear between any two steps of a candidate's handler,  *)
(* also between its second check and its append, which hold pc.mu.         *)
(***************************************************************************)
EXTENDS Naturals

CONSTANTS Cands,       \* candidates the browser sends
          Attempts,    \* defaultICERetryAttempts
          MaxSets,     \* bound on remote descriptions
          MaxErrors    \* bound on errors of pion

ASSUME IceAssumption ==
    Attempts \in Nat \ {0} /\ MaxSets \in Nat /\ MaxErrors \in Nat

Setters == {"gate", "api"}

VARIABLES
    remote,   \* pionPC.RemoteDescription() is not nil
    half,     \* it was installed by a SetRemoteDescription that then failed,
              \* and nothing was flushed since
    pcState,  \* pc.state: every state but Failed and Closed is "open"
    shut,     \* pion's connection is closed
    pending,  \* pendingICECandidates
    cand,     \* where each candidate is
    tries,    \* failed attempts of AddICECandidateWithRetry
    gate,     \* the exchange that holds negMu
    flush,    \* what the flush of each setter has still to add: the gate,
              \* and callers of PeerConnection.SetRemoteDescription
    sets, errors

descr == <<remote, half>>
state == <<pcState, shut>>
vars == <<descr, state, pending, cand, tries, gate, flush, sets, errors>>

TypeOK ==
    /\ remote \in BOOLEAN /\ half \in BOOLEAN
    /\ pcState \in {"open", "failed", "closed"} /\ shut \in BOOLEAN
    /\ pending \subseteq Cands /\ flush \in [Setters -> SUBSET Cands]
    /\ cand \in [Cands -> {"new", "recheck", "append", "adding", "queued",
                           "flushing", "applied", "failed", "dropped"}]
    /\ tries \in [Cands -> 0..Attempts]
    /\ gate \in {"idle", "set", "take"}
    /\ sets \in 0..MaxSets /\ errors \in 0..MaxErrors

Init ==
    /\ remote = FALSE /\ half = FALSE /\ pcState = "open" /\ shut = FALSE
    /\ pending = {} /\ flush = [s \in Setters |-> {}] /\ gate = "idle"
    /\ cand = [c \in Cands |-> "new"] /\ tries = [c \in Cands |-> 0]
    /\ sets = 0 /\ errors = 0

-----------------------------------------------------------------------------
(* pc.mu is held over two steps by the append only.                        *)
MuFree == \A c \in Cands : cand[c] # "append"

ToQueue == pcState = "open" /\ ~remote

(* handleICECandidate up to AddICECandidateWithRetry's first check, under  *)
(* the read lock.                                                          *)
HandleICECandidate(c) ==
    /\ cand[c] = "new" /\ MuFree
    /\ cand' = [cand EXCEPT ![c] = IF ToQueue THEN "recheck" ELSE "adding"]
    /\ UNCHANGED <<descr, state, pending, tries, gate, flush, sets, errors>>

(* Mutated: the answer of the first check is relied on.                    *)
Recheck_Skipped(c) ==
    /\ cand[c] = "recheck" /\ MuFree
    /\ cand' = [cand EXCEPT ![c] = "append"]
    /\ UNCHANGED <<descr, state, pending, tries, gate, flush, sets, errors>>

(* The check again, with pc.mu held from here to the append.               *)
Recheck(c) ==
    /\ cand[c] = "recheck" /\ MuFree
    /\ cand' = [cand EXCEPT ![c] = IF ToQueue THEN "append" ELSE "adding"]
    /\ UNCHANGED <<descr, state, pending, tries, gate, flush, sets, errors>>

Append(c) ==
    /\ cand[c] = "append"
    /\ pending' = pending \cup {c}
    /\ cand' = [cand EXCEPT ![c] = "queued"]
    /\ UNCHANGED <<descr, state, tries, gate, flush, sets, errors>>

(* AddICECandidate: an unusable connection and pion refuse the candidate.  *)
AddICECandidate(ok) ==
    \/ ok /\ pcState = "open" /\ UNCHANGED errors
    \/ ~ok /\ pcState # "open" /\ UNCHANGED errors
    \/ ~ok /\ pcState = "open" /\ errors < MaxErrors /\ errors' = errors + 1

(* An attempt of the retry loop; the last one that fails gives up.         *)
Retry(c, ok) ==
    /\ cand[c] = "adding" /\ MuFree /\ AddICECandidate(ok)
    /\ IF ok
       THEN cand' = [cand EXCEPT ![c] = "applied"] /\ UNCHANGED tries
       ELSE /\ tries' = [tries EXCEPT ![c] = @ + 1]
            /\ cand' = [cand EXCEPT ![c] =
                          IF tries[c] + 1 = Attempts THEN "failed" ELSE @]
    /\ UNCHANGED <<descr, state, pending, gate, flush, sets>>

-----------------------------------------------------------------------------
(* An exchange of the gate begins with the check of pc.state ...           *)
GateBegin ==
    /\ gate = "idle" /\ flush["gate"] = {} /\ MuFree /\ pcState = "open"
    /\ sets < MaxSets /\ sets' = sets + 1 /\ gate' = "set"
    /\ UNCHANGED <<descr, state, pending, cand, tries, flush, errors>>

(* ... pion sets the description, without pc.mu.  It may fail, having      *)
(* installed the description or not; the exchange then ends.               *)
GateSet ==
    /\ gate = "set"
    /\ \/ /\ ~shut
          /\ remote' = TRUE /\ gate' = "take"
          /\ UNCHANGED <<half, errors>>
       \/ /\ ~shut /\ errors < MaxErrors /\ errors' = errors + 1
          /\ gate' = "idle"
          /\ remote' \in {remote, TRUE} /\ half' = (half \/ remote' # remote)
       \/ /\ shut /\ gate' = "idle"
          /\ UNCHANGED <<remote, half, errors>>
    /\ UNCHANGED <<state, pending, cand, tries, flush, sets>>

(* flushICECandidates: the queue is taken under pc.mu ...                  *)
Take(s) ==
    /\ flush' = [flush EXCEPT ![s] = @ \cup pending] /\ pending' = {}
    /\ cand' = [c \in Cands |-> IF c \in pending THEN "flushing" ELSE cand[c]]

FlushICECandidates ==
    /\ gate = "take" /\ MuFree /\ Take("gate")
    /\ gate' = "idle" /\ half' = FALSE
    /\ UNCHANGED <<remote, state, tries, sets, errors>>

(* Mutated: the first candidate that is refused ends the flush.            *)
FlushOne_Stops(s, c, ok) ==
    /\ c \in flush[s] /\ MuFree /\ AddICECandidate(ok)
    /\ flush' = [flush EXCEPT ![s] = IF ok THEN @ \ {c} ELSE {}]
    /\ cand' = [cand EXCEPT ![c] = IF ok THEN "applied" ELSE "dropped"]
    /\ UNCHANGED <<descr, state, pending, tries, gate, sets>>

(* ... and each candidate of it is added once.                             *)
FlushOne(s, c, ok) ==
    /\ c \in flush[s] /\ MuFree /\ AddICECandidate(ok)
    /\ flush' = [flush EXCEPT ![s] = @ \ {c}]
    /\ cand' = [cand EXCEPT ![c] = IF ok THEN "applied" ELSE "dropped"]
    /\ UNCHANGED <<descr, state, pending, tries, gate, sets>>

(* PeerConnection.SetRemoteDescription: pion is called and the queue taken *)
(* in one section of pc.mu.                                                *)
SetRemoteDescription ==
    /\ MuFree /\ pcState = "open" /\ sets < MaxSets /\ sets' = sets + 1
    /\ \/ /\ ~shut /\ remote' = TRUE /\ half' = FALSE /\ Take("api")
          /\ UNCHANGED errors
       \/ /\ ~shut /\ errors < MaxErrors /\ errors' = errors + 1
          /\ remote' \in {remote, TRUE} /\ half' = (half \/ remote' # remote)
          /\ UNCHANGED <<pending, flush, cand>>
       \/ /\ shut /\ UNCHANGED <<descr, pending, flush, cand, errors>>
    /\ UNCHANGED <<state, tries, gate>>

(* Close, which gives up half way if closing pion's connection fails.      *)
Close ==
    /\ MuFree /\ pcState # "closed" /\ shut' = TRUE
    /\ \/ /\ pcState' = "closed" /\ pending' = {} /\ UNCHANGED errors
          /\ cand' = [c \in Cands |->
                        IF c \in pending THEN "dropped" ELSE cand[c]]
       \/ /\ errors < MaxErrors /\ errors' = errors + 1
          /\ UNCHANGED <<pcState, pending, cand>>
    /\ UNCHANGED <<descr, tries, gate, flush, sets>>

(* The callback writes whatever state it was called for.  pion calls it in *)
(* a goroutine each time, so that a late one may overwrite a newer state,  *)
(* Closed included.                                                        *)
handleConnectionStateChange ==
    /\ MuFree
    /\ pcState' \in {"open", "failed"} \cup (IF shut THEN {"closed"} ELSE {})
    /\ UNCHANGED <<descr, shut, pending, cand, tries, gate, flush, sets,
                   errors>>

-----------------------------------------------------------------------------
CandStep(c) == Recheck(c) \/ Append(c) \/ \E ok \in BOOLEAN : Retry(c, ok)
FlushStep == \E s \in Setters, c \in Cands, ok \in BOOLEAN : FlushOne(s, c, ok)
GateStep == GateSet \/ FlushICECandidates

Next ==
    \/ \E c \in Cands : HandleICECandidate(c) \/ CandStep(c)
    \/ GateBegin \/ GateStep \/ FlushStep
    \/ SetRemoteDescription \/ Close \/ handleConnectionStateChange

Spec == Init /\ [][Next]_vars

(* Handlers and exchanges under way go on.                                 *)
FairSpec ==
    /\ Spec
    /\ \A c \in Cands : WF_vars(CandStep(c))
    /\ WF_vars(GateStep) /\ WF_vars(FlushStep)

-----------------------------------------------------------------------------
(* No candidate waits in the queue once there is a remote description and  *)
(* nobody is about to flush it: nothing would flush it until the next      *)
(* exchange, and the connection may never be established.  This holds in   *)
(* every state, whatever the state callback overwrites.  Exempt is a       *)
(* description that was installed by a call that failed, as the exchange   *)
(* then ends unflushed (AddICECandidateWithRetry, flushICECandidates).     *)
NoneStranded == remote /\ ~half /\ pending # {} => gate = "take"

(* Every candidate that was received is applied, given up or dropped in    *)
(* the end, or waits for a remote description; a candidate that pion       *)
(* refuses does not hold up the others (the retry and flush loops).        *)
Settled(c) ==
    \/ cand[c] \in {"new", "applied", "failed", "dropped"}
    \/ cand[c] = "queued" /\ (~remote \/ half)

CandidatesSettle == <>[](\A c \in Cands : Settled(c))
=============================================================================
