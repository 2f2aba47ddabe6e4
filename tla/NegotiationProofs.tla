------------------------- MODULE NegotiationProofs -------------------------
(***************************************************************************)
(* Proofs about the negotiation gate, for every bound: type correctness,   *)
(* the invariants of the gate, and the implementation of OfferExchange.    *)
(* What pion's errors after the fact do to them is part of the statements: *)
(* `late' records the calls that failed after they took effect.            *)
(***************************************************************************)
EXTENDS Negotiation, SequenceTheorems, FiniteSetTheorems, TLAPS

AnswerSteps == {"answer", "answerLocal", "gatherAnswer"}

(* pion failed on an offer, or on an answer, that it had installed.        *)
OfferRefused  == "local offer" \in late
AnswerRefused == "remote answer" \in late

(* What the holder of negMu may rely on at each of its steps: the          *)
(* signaling state, the flag, ...                                          *)
SigShape ==
    /\ sig = "closed" <=> pcState = "closed"
    /\ sig # "closed" =>
        /\ gate = "offer" => sig = "stable"
        /\ gate \in {"gatherOffer", "store"} => sig = "have-local-offer"
        /\ gate \in {"answer", "gatherAnswer", "flush"} => sig = "stable"
        /\ gate = "answerLocal" => sig = "have-remote-offer"

FlagShape ==
    sig # "closed" =>
        /\ sig = "have-local-offer" => isNegotiating \/ OfferRefused
        /\ gate \in {"offer", "gatherOffer"} => isNegotiating
        /\ isNegotiating => \/ gate \in {"offer", "flush"}
                            \/ sig = "have-local-offer" \/ AnswerRefused

(* ... the empty slot while an offer is being answered, and pion's record. *)
SlotShape == gate \in AnswerSteps => pendingInbound = None \/ AnswerRefused

FaultShape == faults = 0 => ~OfferRefused /\ ~AnswerRefused

GateShape == SigShape /\ FlagShape /\ SlotShape /\ FaultShape

(* The recorded generations never run ahead of the real one.               *)
GenerationOrder ==
    /\ lastGen <= gen /\ offerGen <= gen
    /\ gate = "offer" => lastGen < offerGen

(* The coalesced flag is only left armed where a completion will flush it, *)
(* and only a pion error leaves a browser offer unanswered.                *)
PendingHasFlush ==
    pcState = "open" /\ faults = 0 =>
        /\ pendingNegotiation => \/ sig = "have-local-offer" \/ gate = "flush"
                                 \/ gate \in AnswerSteps /\ gateLoop = None
        /\ sig = "have-remote-offer" => gate = "answerLocal"

(* A change newer than the last offer has somebody to offer it.            *)
ChangeHasDriver ==
    pcState = "open" =>
        /\ lastGen # gen => \/ requested \/ needed
                            \/ gate = "offer" \/ pendingNegotiation
        /\ gate = "offer" /\ offerGen # gen => requested \/ needed

IInv == /\ TypeOK
        /\ GateShape
        /\ StoredBehindOffer
        /\ GenerationOrder
        /\ PendingHasFlush
        /\ ChangeHasDriver

-----------------------------------------------------------------------------
(* What the operators shared by the gate operations do. *)

USE DEF flags, gens, holder, wakeups, loops, net, browser, budget,
        AnswerSteps, GateShape

StartsOffer(s) ==
    /\ pcState = "open" /\ s = "stable" /\ lastGen # gen
    /\ gate' = "offer" /\ isNegotiating' = TRUE /\ pendingNegotiation' = FALSE
    /\ offerGen' = gen /\ offerConn' = sender

SkipsOffer(s) ==
    /\ pcState = "open" /\ s = "stable" => lastGen = gen
    /\ gate' = "free" /\ isNegotiating' = FALSE
    /\ pendingNegotiation' \in BOOLEAN
    /\ pcState = "open" => (pendingNegotiation' <=> s # "stable")
    /\ offerGen' = offerGen /\ offerConn' = offerConn

(* serverOfferLocked either starts an offer for a newer generation or      *)
(* leaves the gate free.                                                   *)
LEMMA ServerOfferCases ==
    ASSUME NEW s, TypeFlags, ServerOffer(s)
    PROVE  StartsOffer(s) \/ SkipsOffer(s)
<1>1. CASE pcState = "open" /\ s = "stable" /\ lastGen # gen
      BY <1>1 DEF ServerOffer, StartsOffer
<1>2. CASE ~(pcState = "open" /\ s = "stable" /\ lastGen # gen)
      BY <1>2 DEF ServerOffer, SkipsOffer, TypeFlags
<1> QED
    BY <1>1, <1>2

AnswersStored(s, n) ==
    /\ s = "stable" /\ pendingInbound # None
    /\ gate' = "answer" /\ gateOffer' = pendingInbound /\ gateLoop' = None
    /\ pendingInbound' = None /\ isNegotiating' = n
    /\ pendingNegotiation' = pendingNegotiation
    /\ offerGen' = offerGen /\ offerConn' = offerConn

FlushesOffer(s) ==
    /\ StartsOffer(s)
    /\ pendingInbound = None /\ pendingInbound' = None
    /\ gateOffer' = gateOffer /\ gateLoop' = gateLoop

FlushesNothing(s, n) ==
    /\ gate' = "free" /\ isNegotiating' = n
    /\ pendingInbound' = pendingInbound
    /\ s = "stable" => pendingInbound = None
    /\ pendingNegotiation' \in BOOLEAN
    /\ pendingNegotiation' => pendingNegotiation
    /\ pcState = "open" /\ pendingNegotiation /\ ~pendingNegotiation' =>
           lastGen = gen
    /\ pcState = "open" /\ pendingNegotiation' => s # "stable" \/ n
    /\ offerGen' = offerGen /\ offerConn' = offerConn
    /\ gateOffer' = gateOffer /\ gateLoop' = gateLoop

(* flushPendingLocked starts the answer to the stored offer, or one        *)
(* coalesced offer, or leaves the gate free.                               *)
LEMMA FlushCases ==
    ASSUME NEW s, NEW n \in BOOLEAN, TypeFlags, FlushPending(s, n)
    PROVE  AnswersStored(s, n) \/ FlushesOffer(s) \/ FlushesNothing(s, n)
<1>1. CASE pendingInbound # None /\ s = "stable"
      BY <1>1 DEF FlushPending, AnswersStored
<1>2. CASE pendingInbound # None /\ s # "stable"
      BY <1>2 DEF FlushPending, FlushesNothing, TypeFlags
<1>3. CASE pendingInbound = None
  <2>1. FlushOffer(s, n)
        /\ pendingInbound' = pendingInbound
        /\ gateOffer' = gateOffer /\ gateLoop' = gateLoop
        BY <1>3 DEF FlushPending
  <2>2. CASE pendingNegotiation /\ pcState = "open" /\ s = "stable" /\ ~n
    <3>1. ServerOffer(s)
          BY <2>1, <2>2 DEF FlushOffer
    <3> QED
        BY <1>3, <2>1, <2>2, <3>1, ServerOfferCases
        DEF FlushesOffer, FlushesNothing, SkipsOffer
  <2>3. CASE ~(pendingNegotiation /\ pcState = "open" /\ s = "stable" /\ ~n)
        BY <1>3, <2>1, <2>3 DEF FlushOffer, FlushesNothing, TypeFlags
  <2> QED
      BY <2>2, <2>3
<1> QED
    BY <1>1, <1>2, <1>3

(* The part of those lemmas that is about generations alone.               *)
OfferGenStep ==
    \/ gate' = "offer" /\ offerGen' = gen /\ lastGen # gen
    \/ gate' # "offer" /\ offerGen' = offerGen

(* A step that offers the current generation, or offers nothing, keeps the *)
(* order of the generations.                                               *)
LEMMA GenerationKept ==
    ASSUME TypeOK, GenerationOrder, gen' = gen, lastGen' = lastGen,
           OfferGenStep
    PROVE  GenerationOrder'
BY DEF TypeOK, TypePC, TypeGate, GenerationOrder, OfferGenStep

(* driveOffer offers the current generation, or nothing.                   *)
LEMMA DriveOfferGen ==
    ASSUME TypeFlags, DriveOffer
    PROVE  OfferGenStep
BY ServerOfferCases DEF DriveOffer, StartsOffer, SkipsOffer, OfferGenStep

(* Messages and queues are typed.                                          *)
LEMMA DeliverType ==
    ASSUME TypeNet, NEW c, NEW m \in ServerOffers \cup ServerAnswers,
           Deliver(c, m)
    PROVE  down' \in Seq(ServerOffers \cup ServerAnswers)
BY DEF TypeNet, Deliver

(* What the server receives is of its type.                                *)
LEMMA ReceivesType ==
    ASSUME TypeNet, NEW c \in Conns, NEW t, Receives(c, t)
    PROVE  /\ up' \in [Conns -> Seq(BrowserOffers \cup BrowserAnswers)]
           /\ t = "offer" => Head(up[c]).id \in 1..MaxOffers
<1> DEFINE M == BrowserOffers \cup BrowserAnswers
<1>1. up[c] \in Seq(M) /\ up[c] # <<>>
      BY DEF TypeNet, Receives
<1>2. Head(up[c]) \in M /\ Tail(up[c]) \in Seq(M)
      BY <1>1, HeadTailProperties
<1>3. t = "offer" => Head(up[c]).id \in 1..MaxOffers
      BY <1>2 DEF Receives, BrowserOffers, BrowserAnswers
<1>4. up' = [up EXCEPT ![c] = Tail(up[c])]
      BY DEF Receives
<1> QED
    BY <1>2, <1>3, <1>4 DEF TypeNet

(* The initial state is of the types.                                      *)
LEMMA InitType == Init => TypeOK
<1> SUFFICES ASSUME Init PROVE TypeOK
    OBVIOUS
<1>1. TypePC
      BY BoundsAssumption DEF Init, TypePC, Conns, None, BoundsAssumption
<1>2. TypeGate
      BY BoundsAssumption
      DEF Init, TypeGate, Conns, None, GateSteps, BoundsAssumption
<1>3. TypeLoops
      BY BoundsAssumption DEF Init, TypeLoops, Conns, None, BoundsAssumption
<1>4. TypeNet
      BY BoundsAssumption DEF Init, TypeNet, Conns, BoundsAssumption
<1>5. TypeBrowser
      BY BoundsAssumption DEF Init, TypeBrowser, BoundsAssumption
<1>6. TypeFlags
      BY DEF Init, TypeFlags
<1> QED
    BY <1>6, <1>1, <1>2, <1>3, <1>4, <1>5 DEF TypeOK

(* Whatever a flush does, the holder's variables keep their types.         *)
LEMMA FlushTypes ==
    ASSUME TypeOK, NEW s, NEW n \in BOOLEAN, FlushPending(s, n)
    PROVE  TypeGate'
<1>1. CASE pendingInbound # None
      BY <1>1, BoundsAssumption
      DEF FlushPending, TypeOK, TypePC, TypeGate, GateSteps, None,
          BoundsAssumption
<1>2. CASE pendingInbound = None
      BY <1>2, ServerOfferCases
      DEF FlushPending, FlushOffer, StartsOffer, SkipsOffer, TypeOK, TypePC,
          TypeGate, GateSteps, None
<1> QED
    BY <1>1, <1>2

(* Type correctness, one lemma per group of variables. *)
LEMMA FlagsStep == TypeOK /\ [Next]_vars => TypeFlags'
<1> SUFFICES ASSUME TypeOK, [Next]_vars PROVE TypeFlags'
    OBVIOUS
<1>1. CASE \/ AddTrack \/ RemoveTrack \/ SwapEgressTrack
      BY <1>1
      DEF AddTrack, RemoveTrack, SwapEgressTrack, TypeOK, TypeFlags
<1>2. CASE \/ RequestSubscriberOffer \/ handleNegotiationNeeded
      BY <1>2, ServerOfferCases
      DEF RequestSubscriberOffer, handleNegotiationNeeded, DriveOffer,
         StartsOffer, SkipsOffer, TypeOK, TypeFlags
<1>3. CASE \/ OfferFails \/ OfferAborted \/ Close \/ Drop \/ Reconnect
      BY <1>3
      DEF OfferFails, OfferAborted, Close, Drop, Reconnect, TypeOK, TypeFlags
<1>4. CASE AnswerDelivered
      BY <1>4, ServerOfferCases
      DEF AnswerDelivered, FlushOffer, StartsOffer, SkipsOffer, TypeOK,
         TypeFlags
<1>5. CASE AnswerApplied
      BY <1>5, ServerOfferCases
      DEF AnswerApplied, FlushPending, FlushOffer, StartsOffer,
         SkipsOffer, TypeOK, TypeFlags
<1>6. ASSUME NEW c \in Conns, FlushDeferredNegotiation(c) PROVE TypeFlags'
      BY <1>6, ServerOfferCases
      DEF FlushDeferredNegotiation, FlushPending, FlushOffer, StartsOffer,
         SkipsOffer, TypeOK, TypeFlags
<1>7. ASSUME \/ OfferSetLocal \/ OfferSend \/ AnswerSetRemote
             \/ AnswerSetLocal \/ AnswerFails \/ AnswerReturned
             \/ AnswerAborted \/ StoreOffer \/ handleConnectionStateChange
             \/ BrowserOffer \/ BrowserOnOffer \/ BrowserOnAnswer
      PROVE  UNCHANGED <<isNegotiating, pendingNegotiation, requested,
                          needed, linkUp>>
      BY <1>7
      DEF OfferSetLocal, OfferSend, AnswerSetRemote, AnswerSetLocal,
         AnswerFails, AnswerReturned, AnswerAborted, StoreOffer,
         handleConnectionStateChange, BrowserOffer, BrowserOnOffer,
         BrowserOnAnswer
<1>8. ASSUME NEW c \in Conns,
             \/ ProcessBrowserOffer(c) \/ ProcessBrowserAnswer(c)
             \/ BrowserAnswerRejected(c) \/ SendAnswer(c)
             \/ UpdateSignalingSender(c)
      PROVE  UNCHANGED <<isNegotiating, pendingNegotiation, requested,
                          needed, linkUp>>
      BY <1>8
      DEF ProcessBrowserOffer, ProcessBrowserAnswer, BrowserAnswerRejected,
         SendAnswer, UpdateSignalingSender
<1>9. ASSUME UNCHANGED vars
      PROVE  UNCHANGED <<isNegotiating, pendingNegotiation, requested,
                          needed, linkUp>>
      BY <1>9 DEF vars
<1>10. CASE UNCHANGED <<isNegotiating, pendingNegotiation, requested, needed,
                         linkUp>>
      BY <1>10
      DEF TypeOK, TypeFlags, vars
<1> QED
    BY <1>1, <1>2, <1>3, <1>4, <1>5, <1>6, <1>7, <1>8, <1>9, <1>10
    DEF Next, Gate, Loop

(* Every step keeps the types of the peer connections.                     *)
LEMMA PCStep == TypeOK /\ [Next]_vars => TypePC'
<1> SUFFICES ASSUME TypeOK, [Next]_vars PROVE TypePC'
    OBVIOUS
<1>1. CASE \/ AddTrack \/ RemoveTrack \/ SwapEgressTrack \/ Close
      BY <1>1, BoundsAssumption
      DEF AddTrack, RemoveTrack, SwapEgressTrack, Close, TypeOK, TypePC,
         None, BoundsAssumption
<1>2. CASE \/ OfferSetLocal \/ AnswerSetRemote \/ AnswerSetLocal
           \/ StoreOffer \/ handleConnectionStateChange
      BY <1>2
      DEF OfferSetLocal, AnswerSetRemote, AnswerSetLocal, StoreOffer,
         handleConnectionStateChange, TypeOK, TypePC, None, TypeGate
<1>3. CASE OfferFails \/ AnswerFails
      BY <1>3 DEF OfferFails, AnswerFails, PionFails, TypeOK, TypePC
<1>4. CASE AnswerApplied
  <2>1. pendingInbound' \in {pendingInbound, None}
        BY <1>4 DEF AnswerApplied, FlushPending
  <2> QED
      BY <1>4, <2>1, BoundsAssumption
      DEF AnswerApplied, TypeOK, TypePC, None, BoundsAssumption
<1>5. ASSUME NEW c \in Conns, FlushDeferredNegotiation(c) PROVE TypePC'
      BY <1>5, BoundsAssumption
      DEF FlushDeferredNegotiation, FlushPending, TypeOK, TypePC, None,
         BoundsAssumption
<1>6. ASSUME NEW c \in Conns,
             \/ UpdateSignalingSender(c) \/ ProcessBrowserAnswer(c)
             \/ BrowserAnswerRejected(c)
      PROVE  TypePC'
      BY <1>6
      DEF UpdateSignalingSender, ProcessBrowserAnswer, BrowserAnswerRejected,
         PionFails, TypeOK, TypePC, None
<1>7. ASSUME \/ RequestSubscriberOffer \/ handleNegotiationNeeded
             \/ OfferSend \/ OfferAborted \/ AnswerReturned
             \/ AnswerDelivered \/ AnswerAborted
             \/ BrowserOffer \/ BrowserOnOffer \/ BrowserOnAnswer \/ Drop
             \/ Reconnect
      PROVE  UNCHANGED <<pcState, sig, pendingInbound, gen, lastGen,
                          localGen, sender>>
      BY <1>7
      DEF RequestSubscriberOffer, handleNegotiationNeeded, OfferSend,
         OfferAborted, AnswerReturned, AnswerDelivered, AnswerAborted,
         BrowserOffer, BrowserOnOffer, BrowserOnAnswer, Drop, Reconnect,
         DriveOffer
<1>8. ASSUME NEW c \in Conns, ProcessBrowserOffer(c) \/ SendAnswer(c)
      PROVE  UNCHANGED <<pcState, sig, pendingInbound, gen, lastGen,
                          localGen, sender>>
      BY <1>8
      DEF ProcessBrowserOffer, SendAnswer
<1>9. ASSUME UNCHANGED vars
      PROVE  UNCHANGED <<pcState, sig, pendingInbound, gen, lastGen,
                          localGen, sender>>
      BY <1>9 DEF vars
<1>10. CASE UNCHANGED <<pcState, sig, pendingInbound, gen, lastGen, localGen,
                         sender>>
      BY <1>10
      DEF TypeOK, TypePC, None
<1> QED
    BY <1>1, <1>2, <1>3, <1>4, <1>5, <1>6, <1>7, <1>8, <1>9, <1>10
    DEF Next, Gate, Loop

(* Every step keeps the types of the gate.                                 *)
LEMMA GateStep == TypeOK /\ [Next]_vars => TypeGate'
<1> SUFFICES ASSUME TypeOK, [Next]_vars PROVE TypeGate'
    OBVIOUS
<1>1. CASE \/ RequestSubscriberOffer \/ handleNegotiationNeeded
      BY <1>1, ServerOfferCases, BoundsAssumption
      DEF RequestSubscriberOffer, handleNegotiationNeeded, DriveOffer,
         StartsOffer, SkipsOffer, TypeOK, TypePC, TypeGate, GateSteps, Conns,
         None, BoundsAssumption
<1>2. CASE \/ OfferSetLocal \/ OfferFails \/ OfferSend \/ OfferAborted
           \/ AnswerSetRemote \/ AnswerSetLocal \/ AnswerFails
           \/ AnswerReturned \/ StoreOffer
      BY <1>2
      DEF OfferSetLocal, OfferFails, OfferSend, OfferAborted,
         AnswerSetRemote, AnswerSetLocal, AnswerFails, AnswerReturned,
         StoreOffer,
         TypeOK, TypePC, TypeGate, GateSteps, Conns, None
<1>3. CASE AnswerDelivered
      BY <1>3, ServerOfferCases
      DEF AnswerDelivered, FlushOffer, StartsOffer, SkipsOffer, TypeOK,
         TypePC, TypeGate, GateSteps, Conns, None
<1>4. CASE AnswerAborted
      BY <1>4
      DEF AnswerAborted, TypeOK, TypePC, TypeGate, GateSteps, Conns, None
<1>5. ASSUME NEW c \in Conns, ProcessBrowserOffer(c) PROVE TypeGate'
  <2>1. Head(up[c]).id \in 1..MaxOffers /\ gate = "free"
        BY <1>5, ReceivesType DEF ProcessBrowserOffer, Receives, TypeOK
  <2> QED
      BY <1>5, <2>1, BoundsAssumption
      DEF ProcessBrowserOffer, TypeOK, TypeGate, GateSteps, Conns, None,
          BoundsAssumption
<1>6. CASE AnswerApplied
      BY <1>6, FlushTypes DEF AnswerApplied
<1>7. ASSUME NEW c \in Conns, FlushDeferredNegotiation(c) PROVE TypeGate'
  <2>1. CASE pcState # "open"
        BY <1>7, <2>1 DEF FlushDeferredNegotiation, TypeOK, TypeGate
  <2>2. CASE pcState = "open"
        BY <1>7, <2>2, FlushTypes
        DEF FlushDeferredNegotiation, TypeOK, TypeFlags
  <2> QED
      BY <2>1, <2>2
<1>8. ASSUME \/ AddTrack \/ RemoveTrack \/ SwapEgressTrack \/ Close
             \/ handleConnectionStateChange \/ BrowserOffer \/ BrowserOnOffer
             \/ BrowserOnAnswer \/ Drop \/ Reconnect
      PROVE  UNCHANGED <<gate, offerGen, offerConn, gateOffer, gateLoop>>
      BY <1>8
      DEF AddTrack, RemoveTrack, SwapEgressTrack, Close,
         handleConnectionStateChange, BrowserOffer, BrowserOnOffer,
         BrowserOnAnswer, Drop, Reconnect
<1>9. ASSUME NEW c \in Conns,
             \/ BrowserAnswerRejected(c) \/ SendAnswer(c)
             \/ UpdateSignalingSender(c)
      PROVE  UNCHANGED <<gate, offerGen, offerConn, gateOffer, gateLoop>>
      BY <1>9
      DEF BrowserAnswerRejected, SendAnswer, UpdateSignalingSender
<1>10. ASSUME UNCHANGED vars
      PROVE  UNCHANGED <<gate, offerGen, offerConn, gateOffer, gateLoop>>
      BY <1>10 DEF vars
<1>11. CASE UNCHANGED <<gate, offerGen, offerConn, gateOffer, gateLoop>>
      BY <1>11
      DEF TypeOK, TypePC, TypeGate, GateSteps, Conns, None
<1>12. ASSUME NEW c \in Conns, ProcessBrowserAnswer(c) PROVE TypeGate'
      BY <1>12 DEF ProcessBrowserAnswer, TypeOK, TypeGate, GateSteps
<1> QED
    BY <1>1, <1>2, <1>3, <1>4, <1>5, <1>6, <1>7, <1>8, <1>9, <1>10, <1>11,
       <1>12
    DEF Next, Gate, Loop

(* Every step keeps the types of the message loops.                        *)
LEMMA LoopsStep == TypeOK /\ [Next]_vars => TypeLoops'
<1> SUFFICES ASSUME TypeOK, [Next]_vars PROVE TypeLoops'
    OBVIOUS
<1>1. CASE AnswerReturned
      BY <1>1, BoundsAssumption
      DEF AnswerReturned, TypeOK, TypeGate, TypeLoops, Conns, None,
         BoundsAssumption
<1>2. CASE Reconnect
      BY <1>2, BoundsAssumption
      DEF Reconnect, TypeOK, TypeGate, TypeLoops, Conns, None, TypeNet,
         BoundsAssumption
<1>3. ASSUME NEW c \in Conns, SendAnswer(c) PROVE TypeLoops'
      BY <1>3
      DEF SendAnswer, TypeOK, TypeGate, TypeLoops, Conns, None
<1>4. ASSUME NEW c \in Conns, FlushDeferredNegotiation(c) PROVE TypeLoops'
      BY <1>4
      DEF FlushDeferredNegotiation, TypeOK, TypeGate, TypeLoops, Conns, None
<1>5. ASSUME NEW c \in Conns, UpdateSignalingSender(c) PROVE TypeLoops'
      BY <1>5
      DEF UpdateSignalingSender, TypeOK, TypeGate, TypeLoops, Conns, None
<1>6. ASSUME \/ AddTrack \/ RemoveTrack \/ SwapEgressTrack
             \/ RequestSubscriberOffer \/ handleNegotiationNeeded
             \/ OfferSetLocal \/ OfferFails \/ OfferSend \/ OfferAborted
             \/ AnswerSetRemote \/ AnswerSetLocal \/ AnswerFails
             \/ AnswerDelivered \/ AnswerAborted \/ StoreOffer \/ AnswerApplied
             \/ Close \/ handleConnectionStateChange \/ BrowserOffer
             \/ BrowserOnOffer \/ BrowserOnAnswer \/ Drop
      PROVE  UNCHANGED <<loop, held>>
      BY <1>6
      DEF AddTrack, RemoveTrack, SwapEgressTrack, RequestSubscriberOffer,
         handleNegotiationNeeded, OfferSetLocal, OfferFails, OfferSend,
         OfferAborted, AnswerSetRemote, AnswerSetLocal, AnswerFails,
         AnswerDelivered, AnswerAborted, StoreOffer, AnswerApplied, Close,
         handleConnectionStateChange, BrowserOffer, BrowserOnOffer,
         BrowserOnAnswer, Drop
<1>7. ASSUME NEW c \in Conns,
             \/ ProcessBrowserOffer(c) \/ ProcessBrowserAnswer(c)
             \/ BrowserAnswerRejected(c)
      PROVE  UNCHANGED <<loop, held>>
      BY <1>7
      DEF ProcessBrowserOffer, ProcessBrowserAnswer, BrowserAnswerRejected
<1>8. ASSUME UNCHANGED vars
      PROVE  UNCHANGED <<loop, held>>
      BY <1>8 DEF vars
<1>9. CASE UNCHANGED <<loop, held>>
      BY <1>9
      DEF TypeOK, TypeGate, TypeLoops, Conns, None
<1> QED
    BY <1>1, <1>2, <1>3, <1>4, <1>5, <1>6, <1>7, <1>8, <1>9
    DEF Next, Gate, Loop

(* Every step keeps the types of the channels.                             *)
LEMMA NetStep == TypeOK /\ [Next]_vars => TypeNet'
<1> SUFFICES ASSUME TypeOK, [Next]_vars PROVE TypeNet'
    OBVIOUS
<1>1. CASE OfferSend
  <2>1. [type |-> "offer", gen |-> localGen] \in ServerOffers
        BY DEF TypeOK, TypePC, ServerOffers
  <2> QED
      BY <1>1, <2>1, DeliverType DEF OfferSend, TypeOK, TypeNet
<1>2. CASE AnswerDelivered
  <2>1. [type |-> "answer", id |-> gateOffer] \in ServerAnswers
        BY <1>2 DEF AnswerDelivered, TypeOK, TypeGate, ServerAnswers, None
  <2> QED
      BY <1>2, <2>1, DeliverType DEF AnswerDelivered, TypeOK, TypeNet
<1>3. CASE BrowserOffer
      BY <1>3
      DEF BrowserOffer, BrowserOffers, TypeOK, TypeNet, Conns, TypeBrowser
<1>4. CASE BrowserOnOffer
  <2> DEFINE M == BrowserOffers \cup BrowserAnswers
             answer == [type |-> "answer", gen |-> Head(down).gen]
  <2>1. /\ Head(down) \in ServerOffers
        /\ Tail(down) \in Seq(ServerOffers \cup ServerAnswers)
        BY <1>4, HeadTailProperties
        DEF BrowserOnOffer, TypeOK, TypeNet, ServerOffers, ServerAnswers
  <2>2. answer \in M /\ <<answer, answer>> \in Seq(M)
        BY <2>1 DEF ServerOffers, BrowserAnswers
  <2>3. Append(up[conn], answer) \in Seq(M)
        /\ up[conn] \o <<answer, answer>> \in Seq(M)
        BY <2>2 DEF TypeOK, TypeNet
  <2> QED
      BY <1>4, <2>1, <2>3 DEF BrowserOnOffer, TypeOK, TypeNet
<1>5. CASE BrowserOnAnswer
      BY <1>5, HeadTailProperties
      DEF BrowserOnAnswer, TypeOK, TypeNet, Conns
<1>6. CASE Drop
  <2>1. \A n \in 0..Len(up[conn]) :
           SubSeq(up[conn], 1, n) \in Seq(BrowserOffers \cup BrowserAnswers)
        BY SubSeqProperties DEF TypeOK, TypeNet
  <2> QED
      BY <1>6, <2>1 DEF Drop, TypeOK, TypeNet
<1>7. CASE Reconnect
      BY <1>7, BoundsAssumption
      DEF Reconnect, TypeOK, TypeNet, Conns, BoundsAssumption
<1>8. ASSUME NEW c \in Conns, ProcessBrowserOffer(c) PROVE TypeNet'
      BY <1>8, ReceivesType
      DEF ProcessBrowserOffer, TypeOK, TypeNet, Conns
<1>9. ASSUME NEW c \in Conns, ProcessBrowserAnswer(c) PROVE TypeNet'
      BY <1>9, ReceivesType
      DEF ProcessBrowserAnswer, TypeOK, TypeNet, Conns
<1>10. ASSUME NEW c \in Conns, BrowserAnswerRejected(c) PROVE TypeNet'
      BY <1>10, ReceivesType
      DEF BrowserAnswerRejected, TypeOK, TypeNet, Conns
<1>11. ASSUME NEW c \in Conns, SendAnswer(c) PROVE TypeNet'
  <2>1. [type |-> "answer", id |-> held[c]] \in ServerAnswers
        BY <1>11 DEF SendAnswer, TypeOK, TypeLoops, ServerAnswers, None
  <2> QED
      BY <1>11, <2>1, DeliverType DEF SendAnswer, TypeOK, TypeNet
<1>12. ASSUME \/ AddTrack \/ RemoveTrack \/ SwapEgressTrack
              \/ RequestSubscriberOffer \/ handleNegotiationNeeded
              \/ OfferSetLocal \/ OfferFails \/ OfferAborted
              \/ AnswerSetRemote \/ AnswerSetLocal \/ AnswerFails
              \/ AnswerReturned \/ AnswerAborted \/ StoreOffer
              \/ AnswerApplied \/ Close \/ handleConnectionStateChange
      PROVE  UNCHANGED <<conn, up, down>>
      BY <1>12
      DEF AddTrack, RemoveTrack, SwapEgressTrack, RequestSubscriberOffer,
         handleNegotiationNeeded, OfferSetLocal, OfferFails, OfferAborted,
         AnswerSetRemote, AnswerSetLocal, AnswerFails, AnswerReturned,
         AnswerAborted, StoreOffer, AnswerApplied, Close,
         handleConnectionStateChange
<1>13. ASSUME NEW c \in Conns,
             \/ FlushDeferredNegotiation(c) \/ UpdateSignalingSender(c)
      PROVE  UNCHANGED <<conn, up, down>>
      BY <1>13
      DEF FlushDeferredNegotiation, UpdateSignalingSender
<1>14. ASSUME UNCHANGED vars
      PROVE  UNCHANGED <<conn, up, down>>
      BY <1>14 DEF vars
<1>15. CASE UNCHANGED <<conn, up, down>>
      BY <1>15
      DEF TypeOK, TypeNet, Conns
<1> QED
    BY <1>1, <1>2, <1>3, <1>4, <1>5, <1>6, <1>7, <1>8, <1>9, <1>10, <1>11,
       <1>12, <1>13, <1>14, <1>15
    DEF Next, Gate, Loop

(* An error of pion stays within the bound.                                *)
LEMMA FaultTypes ==
    ASSUME TypeBrowser, NEW call \in PionCalls, NEW s, PionFails(call, s)
    PROVE  /\ faults' \in 0..MaxFaults /\ dups' \in 0..MaxDups
           /\ late' \subseteq PionCalls
<1>1. faults' \in 0..MaxFaults /\ dups' \in 0..MaxDups
      BY BoundsAssumption DEF PionFails, TypeBrowser, BoundsAssumption
<1>2. late' \in {late, late \cup {call}} /\ late \subseteq PionCalls
      BY DEF PionFails, TypeBrowser
<1> QED
    BY <1>1, <1>2

(* Every step keeps the types of the browser.                              *)
LEMMA BrowserStep == TypeOK /\ [Next]_vars => TypeBrowser'
<1> SUFFICES ASSUME TypeOK, [Next]_vars PROVE TypeBrowser'
    OBVIOUS
<1>1. CASE \/ OfferFails \/ AnswerFails
  <2>1. PICK call \in PionCalls :
           PionFails(call, "have-local-offer") \/
           PionFails(call, "have-remote-offer") \/ PionFails(call, "stable")
        BY <1>1 DEF OfferFails, AnswerFails, PionCalls
  <2>2. UNCHANGED <<bSig, bGen, nextOffer>>
        BY <1>1 DEF OfferFails, AnswerFails
  <2> QED
      BY <2>1, <2>2, FaultTypes DEF TypeOK, TypeBrowser
<1>2. CASE BrowserOffer
      BY <1>2, BoundsAssumption
      DEF BrowserOffer, TypeOK, TypeBrowser, BoundsAssumption
<1>3. CASE BrowserOnOffer
      BY SMTT(30), <1>3, HeadTailProperties, BoundsAssumption
      DEF BrowserOnOffer, TypeOK, TypeBrowser, TypeNet, ServerOffers,
         ServerAnswers, BoundsAssumption
<1>4. CASE BrowserOnAnswer
      BY <1>4
      DEF BrowserOnAnswer, TypeOK, TypeBrowser
<1>5. ASSUME NEW c \in Conns, BrowserAnswerRejected(c) PROVE TypeBrowser'
  <2>1. \/ UNCHANGED budget
        \/ PionFails("remote answer", "stable")
        BY <1>5 DEF BrowserAnswerRejected
  <2>2. UNCHANGED <<bSig, bGen, nextOffer>> /\ "remote answer" \in PionCalls
        BY <1>5 DEF BrowserAnswerRejected, PionCalls
  <2> QED
      BY <2>1, <2>2, FaultTypes DEF TypeOK, TypeBrowser
<1>6. ASSUME \/ AddTrack \/ RemoveTrack \/ SwapEgressTrack
             \/ RequestSubscriberOffer \/ handleNegotiationNeeded
             \/ OfferSetLocal \/ OfferSend \/ OfferAborted \/ AnswerSetRemote
             \/ AnswerSetLocal \/ AnswerReturned \/ AnswerDelivered
             \/ AnswerAborted \/ StoreOffer \/ AnswerApplied \/ Close
             \/ handleConnectionStateChange \/ Drop \/ Reconnect
      PROVE  UNCHANGED <<bSig, bGen, nextOffer, faults, dups, late>>
      BY <1>6
      DEF AddTrack, RemoveTrack, SwapEgressTrack, RequestSubscriberOffer,
         handleNegotiationNeeded, OfferSetLocal, OfferSend, OfferAborted,
         AnswerSetRemote, AnswerSetLocal, AnswerReturned, AnswerDelivered,
         AnswerAborted, StoreOffer, AnswerApplied, Close,
         handleConnectionStateChange, Drop, Reconnect
<1>7. ASSUME NEW c \in Conns,
             \/ ProcessBrowserOffer(c) \/ ProcessBrowserAnswer(c)
             \/ SendAnswer(c) \/ FlushDeferredNegotiation(c)
             \/ UpdateSignalingSender(c)
      PROVE  UNCHANGED <<bSig, bGen, nextOffer, faults, dups, late>>
      BY <1>7
      DEF ProcessBrowserOffer, ProcessBrowserAnswer, SendAnswer,
         FlushDeferredNegotiation, UpdateSignalingSender
<1>8. ASSUME UNCHANGED vars
      PROVE  UNCHANGED <<bSig, bGen, nextOffer, faults, dups, late>>
      BY <1>8 DEF vars
<1>9. CASE UNCHANGED <<bSig, bGen, nextOffer, faults, dups, late>>
      BY <1>9
      DEF TypeOK, TypeBrowser
<1> QED
    BY <1>1, <1>2, <1>3, <1>4, <1>5, <1>6, <1>7, <1>8, <1>9
    DEF Next, Gate, Loop

(* What an error of pion does. *)
LEMMA PionCases ==
    ASSUME TypeBrowser, NEW call, NEW s, PionFails(call, s)
    PROVE  /\ dups' = dups
           /\ \/ sig = "closed" /\ UNCHANGED <<sig, faults, late>>
              \/ /\ sig # "closed" /\ faults' # 0
                 /\ \/ UNCHANGED <<sig, late>>
                    \/ sig' = s /\ late' = late \cup {call}
BY BoundsAssumption DEF PionFails, TypeBrowser, BoundsAssumption

(* The steps that leave alone what the shape of the gate is about.         *)
ShapeVars == <<pcState, sig, gate, isNegotiating, pendingInbound, faults, late>>

(* Most steps are not about the gate.                                      *)
LEMMA ShapeQuiet ==
    /\ \/ AddTrack \/ RemoveTrack \/ SwapEgressTrack \/ BrowserOffer
       \/ BrowserOnOffer \/ BrowserOnAnswer \/ Drop \/ Reconnect
       => UNCHANGED ShapeVars
    /\ \A c \in Conns : SendAnswer(c) \/ UpdateSignalingSender(c)
                        => UNCHANGED ShapeVars
    /\ UNCHANGED vars => UNCHANGED ShapeVars
BY DEF AddTrack, RemoveTrack, SwapEgressTrack, BrowserOffer, BrowserOnOffer,
       BrowserOnAnswer, Drop, Reconnect, SendAnswer, UpdateSignalingSender,
       vars, ShapeVars

(* What driveOffer does to the gate and its flags.                         *)
LEMMA DriveCases ==
    ASSUME TypeFlags, DriveOffer
    PROVE  /\ gate = "free" /\ pendingInbound' = pendingInbound
           /\ \/ gate' = "free" /\ isNegotiating' = isNegotiating
              \/ /\ pcState = "open" /\ sig = "stable" /\ ~isNegotiating
                 /\ \/ gate' = "free" /\ isNegotiating' = FALSE
                    \/ gate' = "offer" /\ isNegotiating' = TRUE
BY ServerOfferCases DEF DriveOffer, StartsOffer, SkipsOffer

(* What a flush does to them.                                              *)
FlushStep(s, n) ==
    \/ /\ gate' = "free" /\ isNegotiating' = n
       /\ pendingInbound' = pendingInbound
       /\ s = "stable" => pendingInbound = None
    \/ /\ gate' = "offer" /\ isNegotiating' = TRUE /\ s = "stable"
       /\ pcState = "open" /\ pendingInbound' = pendingInbound
       /\ pendingInbound = None
    \/ /\ gate' = "answer" /\ isNegotiating' = n /\ s = "stable"
       /\ pendingInbound' = None

(* flushPendingLocked in these terms.                                      *)
LEMMA FlushEffect ==
    ASSUME NEW s, NEW n \in BOOLEAN, TypeFlags, FlushPending(s, n)
    PROVE  FlushStep(s, n)
BY FlushCases
DEF AnswersStored, FlushesOffer, StartsOffer, FlushesNothing, FlushStep

(* Its second half, at the end of an answer exchange.                      *)
LEMMA FlushOfferEffect ==
    ASSUME NEW s, NEW n \in BOOLEAN, TypeFlags, FlushOffer(s, n)
    PROVE  \/ gate' = "free" /\ isNegotiating' = n
           \/ gate' = "offer" /\ isNegotiating' = TRUE /\ s = "stable"
BY ServerOfferCases DEF FlushOffer, StartsOffer, SkipsOffer

(* The other conjuncts of IInv, one lemma each. *)
LEMMA SigShapeStep == IInv /\ [Next]_vars => SigShape'
<1> SUFFICES ASSUME IInv, [Next]_vars PROVE SigShape'
    OBVIOUS
<1>t. TypeFlags /\ TypeBrowser /\ isNegotiating \in BOOLEAN /\ FALSE \in BOOLEAN
      BY DEF IInv, TypeOK, TypeFlags
<1>1. CASE RequestSubscriberOffer \/ handleNegotiationNeeded
      BY <1>1, <1>t, DriveCases
      DEF RequestSubscriberOffer, handleNegotiationNeeded, IInv, SigShape
<1>2. CASE \/ OfferSetLocal \/ OfferSend \/ OfferAborted \/ AnswerSetRemote
           \/ AnswerSetLocal \/ AnswerReturned \/ AnswerAborted \/ Close
           \/ StoreOffer \/ handleConnectionStateChange
      BY <1>2
      DEF OfferSetLocal, OfferSend, OfferAborted, AnswerSetRemote,
          AnswerSetLocal, AnswerReturned, AnswerAborted, Close, StoreOffer,
          handleConnectionStateChange, IInv, SigShape
<1>3. CASE OfferFails \/ AnswerFails
  <2>1. gate' = "free" /\ pcState' = pcState
        BY <1>3 DEF OfferFails, AnswerFails
  <2>2. sig' = sig \/ (sig # "closed" /\ sig' # "closed")
    <3>1. CASE PionFails("local offer", "have-local-offer")
          BY <3>1 DEF PionFails
    <3>2. CASE PionFails("remote offer", "have-remote-offer")
          BY <3>2 DEF PionFails
    <3>3. CASE PionFails("local answer", "stable")
          BY <3>3 DEF PionFails
    <3> QED
        BY <1>3, <3>1, <3>2, <3>3 DEF OfferFails, AnswerFails
  <2> QED
      BY <2>1, <2>2 DEF IInv, SigShape
<1>4. CASE AnswerDelivered
      BY <1>4, <1>t, FlushOfferEffect DEF AnswerDelivered, IInv, SigShape
<1>5. CASE AnswerApplied
      BY <1>5, <1>t, FlushEffect
      DEF AnswerApplied, FlushStep, IInv, SigShape
<1>6. ASSUME NEW c \in Conns, ProcessBrowserOffer(c) \/ ProcessBrowserAnswer(c)
      PROVE  SigShape'
      BY <1>6 DEF ProcessBrowserOffer, ProcessBrowserAnswer, IInv, SigShape
<1>7. ASSUME NEW c \in Conns, BrowserAnswerRejected(c) PROVE SigShape'
  <2>1. gate = "free" /\ gate' = "free" /\ pcState' = pcState
        BY <1>7 DEF BrowserAnswerRejected, Receives
  <2>2. sig' = sig \/ (sig # "closed" /\ sig' = "stable")
        BY <1>7, <1>t, PionCases DEF BrowserAnswerRejected
  <2> QED
      BY <2>1, <2>2 DEF IInv, SigShape
<1>8. ASSUME NEW c \in Conns, FlushDeferredNegotiation(c) PROVE SigShape'
      BY <1>8, <1>t, FlushEffect
      DEF FlushDeferredNegotiation, FlushStep, IInv, SigShape
<1>9. CASE UNCHANGED ShapeVars
      BY <1>9 DEF ShapeVars, IInv, SigShape
<1> QED
    BY <1>1, <1>2, <1>3, <1>4, <1>5, <1>6, <1>7, <1>8, <1>9, ShapeQuiet
    DEF Next, Gate, Loop

(* The flag follows the signaling state.                                   *)
LEMMA FlagShapeStep == IInv /\ [Next]_vars => FlagShape'
<1> SUFFICES ASSUME IInv, [Next]_vars PROVE FlagShape'
    OBVIOUS
<1>t. TypeFlags /\ TypeBrowser /\ isNegotiating \in BOOLEAN /\ FALSE \in BOOLEAN
      BY DEF IInv, TypeOK, TypeFlags
<1>r. /\ late' = late => /\ OfferRefused' = OfferRefused
                         /\ AnswerRefused' = AnswerRefused
      /\ late' = late \cup {"local offer"} => /\ OfferRefused'
                                              /\ AnswerRefused => AnswerRefused'
      /\ late' = late \cup {"remote answer"} => /\ AnswerRefused'
                                                /\ OfferRefused => OfferRefused'
      /\ late \subseteq late' => /\ OfferRefused => OfferRefused'
                                 /\ AnswerRefused => AnswerRefused'
      BY DEF OfferRefused, AnswerRefused
<1>1. CASE RequestSubscriberOffer \/ handleNegotiationNeeded
      BY <1>1, <1>t, <1>r, DriveCases
      DEF RequestSubscriberOffer, handleNegotiationNeeded, IInv, FlagShape
<1>2. CASE \/ OfferSetLocal \/ OfferSend \/ OfferAborted \/ AnswerSetRemote
           \/ AnswerSetLocal \/ AnswerReturned \/ AnswerAborted \/ Close
           \/ StoreOffer \/ handleConnectionStateChange
      BY <1>2, <1>r
      DEF OfferSetLocal, OfferSend, OfferAborted, AnswerSetRemote,
          AnswerSetLocal, AnswerReturned, AnswerAborted, Close, StoreOffer,
          handleConnectionStateChange, IInv, SigShape, FlagShape
<1>3. CASE OfferFails
  <2>1. gate' = "free" /\ isNegotiating' = FALSE /\ gate = "offer"
        BY <1>3 DEF OfferFails
  <2>2. \/ sig' = sig /\ late' = late
        \/ sig' = "have-local-offer" /\ late' = late \cup {"local offer"}
        BY <1>3, <1>t, PionCases DEF OfferFails
  <2> QED
      BY <1>r, <2>1, <2>2 DEF IInv, SigShape, FlagShape
<1>4. CASE AnswerFails
  <2>1. /\ gate \in {"answer", "answerLocal"} /\ gate' = "free"
        /\ isNegotiating' = isNegotiating
        BY <1>4 DEF AnswerFails
  <2>2. /\ late \subseteq late'
        /\ sig' = sig \/ (sig' # "have-local-offer" /\ sig # "closed")
    <3>1. CASE PionFails("remote offer", "have-remote-offer")
          BY <3>1 DEF PionFails
    <3>2. CASE PionFails("local answer", "stable")
          BY <3>2 DEF PionFails
    <3> QED
        BY <1>4, <3>1, <3>2 DEF AnswerFails
  <2> QED
      BY <1>r, <2>1, <2>2 DEF IInv, SigShape, FlagShape
<1>5. CASE AnswerDelivered
      BY <1>5, <1>t, <1>r, FlushOfferEffect
      DEF AnswerDelivered, IInv, SigShape, FlagShape
<1>6. CASE AnswerApplied
      BY <1>6, <1>t, <1>r, FlushEffect
      DEF AnswerApplied, FlushStep, IInv, SigShape, FlagShape
<1>7. ASSUME NEW c \in Conns, ProcessBrowserOffer(c) \/ ProcessBrowserAnswer(c)
      PROVE  FlagShape'
      BY <1>7, <1>r
      DEF ProcessBrowserOffer, ProcessBrowserAnswer, Receives, IInv, SigShape,
          FlagShape
<1>8. ASSUME NEW c \in Conns, BrowserAnswerRejected(c) PROVE FlagShape'
  <2>1. gate = "free" /\ gate' = "free" /\ isNegotiating' = isNegotiating
        BY <1>8 DEF BrowserAnswerRejected, Receives
  <2>2. \/ sig' = sig /\ late' = late
        \/ sig' = "stable" /\ late' = late \cup {"remote answer"}
        BY <1>8, <1>t, PionCases DEF BrowserAnswerRejected
  <2> QED
      BY <1>r, <2>1, <2>2 DEF IInv, FlagShape
<1>9. ASSUME NEW c \in Conns, FlushDeferredNegotiation(c) PROVE FlagShape'
  <2>1. gate = "free" /\ sig' = sig /\ late' = late
        BY <1>9 DEF FlushDeferredNegotiation
  <2>2. \/ gate' = "free" /\ isNegotiating' = isNegotiating
        \/ FlushStep(sig, isNegotiating)
        BY <1>9, <1>t, FlushEffect DEF FlushDeferredNegotiation
  <2> QED
      BY <1>r, <2>1, <2>2 DEF FlushStep, IInv, SigShape, FlagShape
<1>10. CASE UNCHANGED ShapeVars
      BY <1>10, <1>r DEF ShapeVars, IInv, FlagShape
<1> QED
    BY <1>1, <1>2, <1>3, <1>4, <1>5, <1>6, <1>7, <1>8, <1>9, <1>10, ShapeQuiet
    DEF Next, Gate, Loop

(* pion's record only grows, and only with an error.                       *)
LEMMA LateStep ==
    IInv /\ [Next]_vars =>
        /\ late \subseteq late'
        /\ \/ UNCHANGED <<faults, late>>
           \/ faults' # 0
<1> SUFFICES ASSUME IInv, [Next]_vars
             PROVE  /\ late \subseteq late'
                    /\ \/ UNCHANGED <<faults, late>>
                       \/ faults' # 0
    OBVIOUS
<1>t. TypeBrowser
      BY DEF IInv, TypeOK
<1>1. CASE OfferFails \/ AnswerFails
      BY <1>1, <1>t, PionCases DEF OfferFails, AnswerFails
<1>2. ASSUME NEW c \in Conns, BrowserAnswerRejected(c)
      PROVE  /\ late \subseteq late'
             /\ \/ UNCHANGED <<faults, late>>
                \/ faults' # 0
      BY <1>2, <1>t, PionCases DEF BrowserAnswerRejected
<1>3. ASSUME \/ RequestSubscriberOffer \/ handleNegotiationNeeded
             \/ OfferSetLocal \/ OfferSend \/ OfferAborted \/ AnswerSetRemote
             \/ AnswerSetLocal \/ AnswerReturned \/ AnswerDelivered
             \/ AnswerAborted \/ StoreOffer \/ AnswerApplied \/ Close
             \/ handleConnectionStateChange
      PROVE  UNCHANGED <<faults, late>>
      BY <1>3
      DEF RequestSubscriberOffer, handleNegotiationNeeded, OfferSetLocal,
          OfferSend, OfferAborted, AnswerSetRemote, AnswerSetLocal,
          AnswerReturned, AnswerDelivered, AnswerAborted, StoreOffer,
          AnswerApplied, Close, handleConnectionStateChange
<1>4. ASSUME NEW c \in Conns,
             \/ ProcessBrowserOffer(c) \/ ProcessBrowserAnswer(c)
             \/ FlushDeferredNegotiation(c)
      PROVE  UNCHANGED <<faults, late>>
      BY <1>4
      DEF ProcessBrowserOffer, ProcessBrowserAnswer, FlushDeferredNegotiation
<1>5. ASSUME UNCHANGED ShapeVars PROVE UNCHANGED <<faults, late>>
      BY <1>5 DEF ShapeVars
<1>6. CASE UNCHANGED <<faults, late>>
      BY <1>6
<1> QED
    BY <1>1, <1>2, <1>3, <1>4, <1>5, <1>6, ShapeQuiet DEF Next, Gate, Loop

(* Nothing is stored while an offer is being answered.                     *)
LEMMA SlotShapeStep == IInv /\ [Next]_vars => SlotShape'
<1> SUFFICES ASSUME IInv, [Next]_vars PROVE SlotShape'
    OBVIOUS
<1>t. TypeFlags /\ isNegotiating \in BOOLEAN /\ FALSE \in BOOLEAN
      BY DEF IInv, TypeOK, TypeFlags
<1>r. AnswerRefused => AnswerRefused'
      BY LateStep DEF AnswerRefused
<1>1. CASE gate' = gate /\ pendingInbound' \in {pendingInbound, None}
      BY <1>1, <1>r DEF IInv, SlotShape
<1>2. CASE gate' \notin AnswerSteps
      BY <1>2 DEF SlotShape
<1>3. CASE AnswerSetRemote \/ AnswerSetLocal
      BY <1>3, <1>r DEF AnswerSetRemote, AnswerSetLocal, IInv, SlotShape
<1>4. ASSUME \/ OfferSetLocal \/ OfferFails \/ OfferSend \/ OfferAborted
             \/ AnswerFails \/ AnswerReturned \/ AnswerAborted \/ StoreOffer
      PROVE  gate' \notin AnswerSteps
      BY <1>4
      DEF OfferSetLocal, OfferFails, OfferSend, OfferAborted, AnswerFails,
          AnswerReturned, AnswerAborted, StoreOffer
<1>5. ASSUME RequestSubscriberOffer \/ handleNegotiationNeeded
      PROVE  gate' \notin AnswerSteps
      BY <1>5, <1>t, DriveCases
      DEF RequestSubscriberOffer, handleNegotiationNeeded
<1>6. ASSUME AnswerDelivered PROVE gate' \notin AnswerSteps
      BY <1>6, <1>t, FlushOfferEffect DEF AnswerDelivered
<1>7. CASE AnswerApplied
      BY <1>7, <1>t, FlushEffect DEF AnswerApplied, FlushStep, SlotShape
<1>8. ASSUME NEW c \in Conns, FlushDeferredNegotiation(c) PROVE SlotShape'
      BY <1>8, <1>t, FlushEffect
      DEF FlushDeferredNegotiation, FlushStep, SlotShape
<1>9. ASSUME NEW c \in Conns, ProcessBrowserOffer(c) PROVE SlotShape'
  <2>1. /\ pendingInbound' = pendingInbound
        /\ gate' \in {"free", "store"} \/ (gate' = "answer" /\ sig = "stable")
        /\ gate = "free"
        BY <1>9 DEF ProcessBrowserOffer, Receives
  <2> QED
      BY <1>r, <2>1 DEF IInv, StoredBehindOffer, SlotShape, AnswerRefused
<1>10. ASSUME NEW c \in Conns, ProcessBrowserAnswer(c)
       PROVE  gate' \notin AnswerSteps
      BY <1>10 DEF ProcessBrowserAnswer
<1>11. ASSUME NEW c \in Conns, BrowserAnswerRejected(c)
       PROVE  gate' = gate /\ pendingInbound' \in {pendingInbound, None}
      BY <1>11 DEF BrowserAnswerRejected
<1>12. ASSUME Close \/ handleConnectionStateChange \/ UNCHANGED ShapeVars
       PROVE  gate' = gate /\ pendingInbound' \in {pendingInbound, None}
      BY <1>12 DEF Close, handleConnectionStateChange, ShapeVars
<1> QED
    BY <1>1, <1>2, <1>3, <1>4, <1>5, <1>6, <1>7, <1>8, <1>9, <1>10, <1>11,
       <1>12, ShapeQuiet
    DEF Next, Gate, Loop

(* Together: the shape of the gate.                                        *)
LEMMA GateShapeStep == IInv /\ [Next]_vars => GateShape'
<1>1. IInv /\ [Next]_vars => FaultShape'
      BY LateStep DEF IInv, FaultShape, OfferRefused, AnswerRefused
<1> QED
    BY <1>1, SigShapeStep, FlagShapeStep, SlotShapeStep

(* What is stored stays behind an offer.                                   *)
LEMMA StoredStep == IInv /\ [Next]_vars => StoredBehindOffer'
<1> SUFFICES ASSUME IInv, [Next]_vars PROVE StoredBehindOffer'
    OBVIOUS
<1>1. CASE \/ OfferSetLocal \/ AnswerSetRemote \/ AnswerSetLocal \/ Close
           \/ OfferFails \/ AnswerFails \/ StoreOffer
      BY <1>1
      DEF OfferSetLocal, AnswerSetRemote, AnswerSetLocal, Close, OfferFails,
         AnswerFails, PionFails, StoreOffer, IInv, SigShape,
         StoredBehindOffer, None
<1>2. ASSUME NEW c \in Conns,
             \/ ProcessBrowserOffer(c) \/ ProcessBrowserAnswer(c)
             \/ BrowserAnswerRejected(c)
      PROVE  StoredBehindOffer'
      BY <1>2
      DEF ProcessBrowserOffer, ProcessBrowserAnswer, BrowserAnswerRejected,
         Receives, PionFails, IInv, SigShape, StoredBehindOffer, None
<1>3. CASE AnswerApplied
  <2>1. \/ AnswersStored(sig, FALSE) \/ FlushesOffer(sig)
        \/ FlushesNothing(sig, FALSE)
        BY <1>3, FlushCases DEF AnswerApplied, IInv, TypeOK
  <2> QED
      BY <1>3, <2>1
      DEF AnswerApplied, AnswersStored, FlushesOffer, StartsOffer,
          FlushesNothing, IInv, SigShape, StoredBehindOffer, None
<1>4. ASSUME NEW c \in Conns, FlushDeferredNegotiation(c)
      PROVE  StoredBehindOffer'
  <2>1. CASE pcState # "open"
        BY <1>4, <2>1 DEF FlushDeferredNegotiation, IInv, SigShape,
            StoredBehindOffer, None
  <2>2. CASE pcState = "open"
    <3>1. gate = "free"
          BY <1>4, <2>2 DEF FlushDeferredNegotiation
    <3>2. \/ AnswersStored(sig, isNegotiating) \/ FlushesOffer(sig)
          \/ FlushesNothing(sig, isNegotiating)
          BY <1>4, <2>2, <3>1, FlushCases
          DEF FlushDeferredNegotiation, IInv, TypeOK, TypeFlags
    <3> QED
        BY <1>4, <2>2, <3>1, <3>2
        DEF FlushDeferredNegotiation, AnswersStored, FlushesOffer,
            StartsOffer, FlushesNothing, IInv, SigShape, StoredBehindOffer,
            None
  <2> QED
      BY <2>1, <2>2
<1>5. ASSUME \/ AddTrack \/ RemoveTrack \/ SwapEgressTrack
             \/ RequestSubscriberOffer \/ handleNegotiationNeeded
             \/ OfferSend \/ OfferAborted \/ AnswerReturned
             \/ AnswerDelivered \/ AnswerAborted
             \/ handleConnectionStateChange \/ BrowserOffer \/ BrowserOnOffer
             \/ BrowserOnAnswer \/ Drop \/ Reconnect
      PROVE  /\ UNCHANGED <<pendingInbound, sig, late>>
             /\ gate = "flush" => gate' = gate
      BY <1>5
      DEF AddTrack, RemoveTrack, SwapEgressTrack, RequestSubscriberOffer,
         handleNegotiationNeeded, OfferSend, OfferAborted, AnswerReturned,
         AnswerDelivered, AnswerAborted, handleConnectionStateChange,
         BrowserOffer, BrowserOnOffer, BrowserOnAnswer, Drop, Reconnect,
         DriveOffer
<1>6. ASSUME NEW c \in Conns, SendAnswer(c) \/ UpdateSignalingSender(c)
      PROVE  UNCHANGED <<pendingInbound, sig, late, gate>>
      BY <1>6
      DEF SendAnswer, UpdateSignalingSender
<1>7. ASSUME UNCHANGED vars
      PROVE  UNCHANGED <<pendingInbound, sig, late, gate>>
      BY <1>7 DEF vars
<1>8. CASE /\ UNCHANGED <<pendingInbound, sig, late>>
           /\ gate = "flush" => gate' = gate
      BY <1>8
      DEF IInv, SigShape, StoredBehindOffer, None
<1> QED
    BY <1>1, <1>2, <1>3, <1>4, <1>5, <1>6, <1>7, <1>8
    DEF Next, Gate, Loop

(* The generations stay in order.                                          *)
LEMMA GenerationStep == IInv /\ [Next]_vars => GenerationOrder'
<1> SUFFICES ASSUME IInv, [Next]_vars PROVE GenerationOrder'
    OBVIOUS
<1>1. CASE \/ AddTrack \/ RemoveTrack \/ SwapEgressTrack \/ OfferSetLocal
      BY <1>1, BoundsAssumption
      DEF AddTrack, RemoveTrack, SwapEgressTrack, OfferSetLocal, IInv,
         TypeOK, TypePC, TypeGate, GenerationOrder, BoundsAssumption
<1>2. CASE RequestSubscriberOffer
  <2>1. OfferGenStep
        BY <1>2, DriveOfferGen DEF RequestSubscriberOffer, IInv, TypeOK
  <2> QED
      BY <1>2, <2>1, GenerationKept DEF RequestSubscriberOffer, IInv
<1>3. CASE handleNegotiationNeeded
  <2>1. OfferGenStep
        BY <1>3, DriveOfferGen DEF handleNegotiationNeeded, IInv, TypeOK
  <2> QED
      BY <1>3, <2>1, GenerationKept DEF handleNegotiationNeeded, IInv
<1>4. CASE \/ OfferFails \/ OfferSend \/ OfferAborted \/ AnswerSetRemote
           \/ AnswerSetLocal \/ AnswerFails \/ AnswerReturned
           \/ AnswerAborted \/ StoreOffer
      BY <1>4
      DEF OfferFails, OfferSend, OfferAborted, AnswerSetRemote,
         AnswerSetLocal, AnswerFails, AnswerReturned, AnswerAborted,
         StoreOffer, IInv,
         TypeOK, TypePC, TypeGate, GenerationOrder
<1>5. CASE AnswerDelivered
  <2>1. OfferGenStep
        BY <1>5, ServerOfferCases
        DEF AnswerDelivered, FlushOffer, StartsOffer, SkipsOffer,
            OfferGenStep, IInv, TypeOK
  <2> QED
      BY <1>5, <2>1, GenerationKept DEF AnswerDelivered, IInv
<1>6. ASSUME NEW c \in Conns, ProcessBrowserOffer(c) \/ ProcessBrowserAnswer(c)
      PROVE  GenerationOrder'
      BY <1>6
      DEF ProcessBrowserOffer, ProcessBrowserAnswer, IInv, TypeOK, TypePC,
         TypeGate, GenerationOrder
<1>7. CASE AnswerApplied
  <2>1. OfferGenStep
        BY <1>7, FlushCases
        DEF AnswerApplied, AnswersStored, FlushesOffer,
            StartsOffer, FlushesNothing, OfferGenStep, IInv, TypeOK
  <2> QED
      BY <1>7, <2>1, GenerationKept DEF AnswerApplied, IInv
<1>8. ASSUME NEW c \in Conns, FlushDeferredNegotiation(c) PROVE GenerationOrder'
  <2>1. CASE pcState # "open"
        BY <1>8, <2>1
        DEF FlushDeferredNegotiation, IInv, GenerationOrder
  <2>2. CASE pcState = "open"
    <3>1. OfferGenStep
          BY <1>8, <2>2, FlushCases
          DEF FlushDeferredNegotiation, AnswersStored, FlushesOffer,
              StartsOffer, FlushesNothing, OfferGenStep, IInv, TypeOK,
              TypeFlags, SigShape
    <3> QED
        BY <1>8, <3>1, GenerationKept DEF FlushDeferredNegotiation, IInv
  <2> QED
      BY <2>1, <2>2
<1>9. ASSUME \/ Close \/ handleConnectionStateChange \/ BrowserOffer
             \/ BrowserOnOffer \/ BrowserOnAnswer \/ Drop \/ Reconnect
      PROVE  UNCHANGED <<gate, gen, lastGen, offerGen>>
      BY <1>9
      DEF Close, handleConnectionStateChange, BrowserOffer, BrowserOnOffer,
         BrowserOnAnswer, Drop, Reconnect
<1>10. ASSUME NEW c \in Conns,
             \/ BrowserAnswerRejected(c) \/ SendAnswer(c)
             \/ UpdateSignalingSender(c)
      PROVE  UNCHANGED <<gate, gen, lastGen, offerGen>>
      BY <1>10
      DEF BrowserAnswerRejected, SendAnswer, UpdateSignalingSender
<1>11. ASSUME UNCHANGED vars
      PROVE  UNCHANGED <<gate, gen, lastGen, offerGen>>
      BY <1>11 DEF vars
<1>12. CASE UNCHANGED <<gate, gen, lastGen, offerGen>>
      BY <1>12
      DEF IInv, TypeOK, TypePC, TypeGate, GenerationOrder
<1> QED
    BY <1>1, <1>2, <1>3, <1>4, <1>5, <1>6, <1>7, <1>8, <1>9, <1>10, <1>11,
       <1>12
    DEF Next, Gate, Loop

(* A pending renegotiation keeps something that will flush it.             *)
LEMMA PendingStep == IInv /\ [Next]_vars => PendingHasFlush'
<1> SUFFICES ASSUME IInv, [Next]_vars PROVE PendingHasFlush'
    OBVIOUS
<1>1. CASE RequestSubscriberOffer
  <2>1. CASE ServerOffer(sig) /\ gate = "free"
             /\ pcState = "open" /\ ~isNegotiating /\ sig = "stable"
    <3>1. StartsOffer(sig) \/ SkipsOffer(sig)
          BY <2>1, ServerOfferCases DEF IInv, TypeOK
    <3> QED
        BY <1>1, <2>1, <3>1 DEF RequestSubscriberOffer, StartsOffer, SkipsOffer,
            IInv, TypeOK, TypeFlags, TypePC, TypeBrowser, SigShape,
            PendingHasFlush, AnswerSteps, None
  <2>2. CASE ~(pcState = "open" /\ ~isNegotiating /\ sig = "stable")
        BY <1>1, <2>2 DEF RequestSubscriberOffer, DriveOffer, IInv, TypeOK,
            TypeFlags, TypePC, TypeBrowser, SigShape, FlagShape, FaultShape,
            PendingHasFlush, None
  <2> QED
      BY <1>1, <2>1, <2>2 DEF RequestSubscriberOffer, DriveOffer
<1>2. CASE handleNegotiationNeeded
  <2>1. CASE ServerOffer(sig) /\ gate = "free"
             /\ pcState = "open" /\ ~isNegotiating /\ sig = "stable"
    <3>1. StartsOffer(sig) \/ SkipsOffer(sig)
          BY <2>1, ServerOfferCases DEF IInv, TypeOK
    <3> QED
        BY <1>2, <2>1, <3>1 DEF handleNegotiationNeeded, StartsOffer,
            SkipsOffer, IInv, TypeOK, TypeFlags, TypePC, TypeBrowser,
            SigShape, PendingHasFlush, AnswerSteps, None
  <2>2. CASE ~(pcState = "open" /\ ~isNegotiating /\ sig = "stable")
        BY <1>2, <2>2 DEF handleNegotiationNeeded, DriveOffer, IInv, TypeOK,
            TypeFlags, TypePC, TypeBrowser, SigShape, FlagShape, FaultShape,
            PendingHasFlush, None
  <2> QED
      BY <1>2, <2>1, <2>2 DEF handleNegotiationNeeded, DriveOffer
<1>3. CASE \/ OfferFails \/ AnswerFails
  <2>1. faults' # 0 \/ (sig = "closed" /\ sig' = "closed")
        BY <1>3, PionCases DEF OfferFails, AnswerFails, IInv, TypeOK
  <2> QED
      BY <1>3, <2>1 DEF OfferFails, AnswerFails, IInv, SigShape, PendingHasFlush
<1>4. CASE \/ OfferSetLocal \/ OfferSend \/ OfferAborted \/ AnswerSetRemote
           \/ AnswerSetLocal \/ AnswerReturned \/ AnswerAborted \/ Close
           \/ StoreOffer \/ handleConnectionStateChange
      BY <1>4
      DEF OfferSetLocal, OfferSend, OfferAborted, AnswerSetRemote,
         AnswerSetLocal, AnswerReturned, AnswerAborted, Close, StoreOffer,
         handleConnectionStateChange, IInv, TypeOK, TypeFlags, TypePC,
         TypeBrowser, SigShape, PendingHasFlush, AnswerSteps, None
<1>5. CASE AnswerDelivered
      BY <1>5, ServerOfferCases
      DEF AnswerDelivered, FlushOffer, StartsOffer, SkipsOffer, IInv, TypeOK,
         TypeFlags, TypePC, TypeBrowser, SigShape, FlagShape, FaultShape,
         PendingHasFlush, None
<1>6. ASSUME NEW c \in Conns, BrowserAnswerRejected(c) PROVE PendingHasFlush'
  <2>1. faults' # 0 \/ UNCHANGED <<sig, faults>>
        BY <1>6, PionCases DEF BrowserAnswerRejected, IInv, TypeOK
  <2> QED
      BY <1>6, <2>1 DEF BrowserAnswerRejected, IInv, PendingHasFlush
<1>7. ASSUME NEW c \in Conns, ProcessBrowserOffer(c) \/ ProcessBrowserAnswer(c)
      PROVE  PendingHasFlush'
      BY <1>7
      DEF ProcessBrowserOffer, ProcessBrowserAnswer, Receives, IInv, TypeOK,
         TypeFlags, TypePC, TypeBrowser, SigShape, PendingHasFlush, None
<1>8. CASE AnswerApplied
  <2>1. \/ AnswersStored(sig, FALSE) \/ FlushesOffer(sig)
        \/ FlushesNothing(sig, FALSE)
        BY <1>8, FlushCases DEF AnswerApplied, IInv, TypeOK
  <2> QED
      BY <1>8, <2>1
      DEF AnswerApplied, AnswersStored, FlushesOffer, StartsOffer,
          FlushesNothing, IInv, TypeOK, TypeFlags, TypePC, TypeBrowser,
          SigShape, PendingHasFlush, AnswerSteps, None
<1>9. ASSUME NEW c \in Conns, FlushDeferredNegotiation(c) PROVE PendingHasFlush'
  <2>1. CASE pcState # "open"
        BY <1>9, <2>1 DEF FlushDeferredNegotiation, IInv, TypeOK, TypeFlags,
            TypePC, TypeBrowser, SigShape, PendingHasFlush, AnswerSteps,
            None
  <2>2. CASE pcState = "open"
    <3>1. gate = "free" /\ (isNegotiating /\ faults = 0 => sig # "stable")
          BY <1>9, <2>2
          DEF FlushDeferredNegotiation, IInv, SigShape, FlagShape, FaultShape
    <3>2. \/ AnswersStored(sig, isNegotiating) \/ FlushesOffer(sig)
          \/ FlushesNothing(sig, isNegotiating)
          BY <1>9, <2>2, <3>1, FlushCases
          DEF FlushDeferredNegotiation, IInv, TypeOK, TypeFlags
    <3> QED
        BY <1>9, <2>2, <3>1, <3>2
        DEF FlushDeferredNegotiation, AnswersStored, FlushesOffer,
            StartsOffer, FlushesNothing, IInv, TypeOK, TypeFlags, TypePC,
            TypeBrowser, SigShape, PendingHasFlush, AnswerSteps, None
  <2> QED
      BY <2>1, <2>2
<1>10. ASSUME \/ AddTrack \/ RemoveTrack \/ SwapEgressTrack \/ BrowserOffer
              \/ BrowserOnOffer \/ BrowserOnAnswer \/ Drop \/ Reconnect
      PROVE  UNCHANGED <<pcState, faults, pendingNegotiation, sig, gate,
                          gateLoop>>
      BY <1>10
      DEF AddTrack, RemoveTrack, SwapEgressTrack, BrowserOffer,
         BrowserOnOffer, BrowserOnAnswer, Drop, Reconnect
<1>11. ASSUME NEW c \in Conns,
             \/ SendAnswer(c) \/ UpdateSignalingSender(c)
      PROVE  UNCHANGED <<pcState, faults, pendingNegotiation, sig, gate,
                          gateLoop>>
      BY <1>11
      DEF SendAnswer, UpdateSignalingSender
<1>12. ASSUME UNCHANGED vars
      PROVE  UNCHANGED <<pcState, faults, pendingNegotiation, sig, gate,
                          gateLoop>>
      BY <1>12 DEF vars
<1>13. CASE UNCHANGED <<pcState, faults, pendingNegotiation, sig, gate,
                         gateLoop>>
      BY <1>13
      DEF IInv, TypeOK, TypeFlags, TypePC, TypeBrowser, SigShape,
         PendingHasFlush, AnswerSteps, None
<1> QED
    BY <1>1, <1>2, <1>3, <1>4, <1>5, <1>6, <1>7, <1>8, <1>9, <1>10, <1>11,
       <1>12, <1>13
    DEF Next, Gate, Loop

(* A change keeps something that will offer it.                            *)
LEMMA ChangeStep == IInv /\ [Next]_vars => ChangeHasDriver'
<1> SUFFICES ASSUME IInv, [Next]_vars PROVE ChangeHasDriver'
    OBVIOUS
<1>1. CASE \/ AddTrack \/ RemoveTrack \/ SwapEgressTrack \/ OfferSetLocal
           \/ OfferFails \/ OfferSend \/ OfferAborted \/ AnswerSetRemote
           \/ AnswerSetLocal \/ AnswerFails \/ AnswerReturned
           \/ AnswerAborted \/ StoreOffer \/ Close
           \/ handleConnectionStateChange
      BY <1>1
      DEF AddTrack, RemoveTrack, SwapEgressTrack, OfferSetLocal, OfferFails,
         OfferSend, OfferAborted, AnswerSetRemote, AnswerSetLocal,
         AnswerFails, AnswerReturned, AnswerAborted, StoreOffer, Close,
         handleConnectionStateChange, IInv, TypeOK, TypeFlags, SigShape,
         ChangeHasDriver
<1>2. CASE RequestSubscriberOffer
  <2>1. CASE ServerOffer(sig) /\ gate = "free"
             /\ pcState = "open" /\ ~isNegotiating /\ sig = "stable"
    <3>1. StartsOffer(sig) \/ SkipsOffer(sig)
          BY <2>1, ServerOfferCases DEF IInv, TypeOK
    <3> QED
        BY <1>2, <2>1, <3>1 DEF RequestSubscriberOffer, StartsOffer, SkipsOffer,
            IInv, TypeOK, TypeFlags, SigShape, ChangeHasDriver
  <2>2. CASE ~(pcState = "open" /\ ~isNegotiating /\ sig = "stable")
        BY <1>2, <2>2 DEF RequestSubscriberOffer, DriveOffer, IInv, TypeOK,
            TypeFlags, SigShape, ChangeHasDriver
  <2> QED
      BY <1>2, <2>1, <2>2 DEF RequestSubscriberOffer, DriveOffer
<1>3. CASE handleNegotiationNeeded
  <2>1. CASE ServerOffer(sig) /\ gate = "free"
             /\ pcState = "open" /\ ~isNegotiating /\ sig = "stable"
    <3>1. StartsOffer(sig) \/ SkipsOffer(sig)
          BY <2>1, ServerOfferCases DEF IInv, TypeOK
    <3> QED
        BY <1>3, <2>1, <3>1 DEF handleNegotiationNeeded, StartsOffer,
            SkipsOffer, IInv, TypeOK, TypeFlags, SigShape, ChangeHasDriver
  <2>2. CASE ~(pcState = "open" /\ ~isNegotiating /\ sig = "stable")
        BY <1>3, <2>2 DEF handleNegotiationNeeded, DriveOffer, IInv, TypeOK,
            TypeFlags, SigShape, ChangeHasDriver
  <2> QED
      BY <1>3, <2>1, <2>2 DEF handleNegotiationNeeded, DriveOffer
<1>4. CASE AnswerDelivered
      BY <1>4, ServerOfferCases
      DEF AnswerDelivered, FlushOffer, StartsOffer, SkipsOffer, IInv, TypeOK,
         TypeFlags, SigShape, ChangeHasDriver
<1>5. ASSUME NEW c \in Conns, ProcessBrowserOffer(c) \/ ProcessBrowserAnswer(c)
      PROVE  ChangeHasDriver'
      BY <1>5
      DEF ProcessBrowserOffer, ProcessBrowserAnswer, Receives, IInv, TypeOK,
         TypeFlags, SigShape, ChangeHasDriver
<1>6. CASE AnswerApplied
  <2>1. \/ AnswersStored(sig, FALSE) \/ FlushesOffer(sig)
        \/ FlushesNothing(sig, FALSE)
        BY <1>6, FlushCases DEF AnswerApplied, IInv, TypeOK
  <2> QED
      BY <1>6, <2>1
      DEF AnswerApplied, AnswersStored, FlushesOffer, StartsOffer,
          FlushesNothing, IInv, TypeOK, TypeFlags, SigShape, ChangeHasDriver
<1>7. ASSUME NEW c \in Conns, FlushDeferredNegotiation(c) PROVE ChangeHasDriver'
  <2>1. CASE pcState # "open"
        BY <1>7, <2>1 DEF FlushDeferredNegotiation, IInv, TypeOK, TypeFlags,
            SigShape, ChangeHasDriver
  <2>2. CASE pcState = "open"
    <3>1. gate = "free"
          BY <1>7, <2>2 DEF FlushDeferredNegotiation
    <3>2. \/ AnswersStored(sig, isNegotiating) \/ FlushesOffer(sig)
          \/ FlushesNothing(sig, isNegotiating)
          BY <1>7, <2>2, <3>1, FlushCases
          DEF FlushDeferredNegotiation, IInv, TypeOK, TypeFlags
    <3> QED
        BY <1>7, <2>2, <3>1, <3>2
        DEF FlushDeferredNegotiation, AnswersStored, FlushesOffer,
            StartsOffer, FlushesNothing, IInv, TypeOK, TypeFlags, SigShape,
            ChangeHasDriver
  <2> QED
      BY <2>1, <2>2
<1>8. ASSUME \/ BrowserOffer \/ BrowserOnOffer \/ BrowserOnAnswer \/ Drop
             \/ Reconnect
      PROVE  UNCHANGED <<pcState, gen, lastGen, offerGen, requested, needed,
                          gate, pendingNegotiation>>
      BY <1>8
      DEF BrowserOffer, BrowserOnOffer, BrowserOnAnswer, Drop, Reconnect
<1>9. ASSUME NEW c \in Conns,
             \/ BrowserAnswerRejected(c) \/ SendAnswer(c)
             \/ UpdateSignalingSender(c)
      PROVE  UNCHANGED <<pcState, gen, lastGen, offerGen, requested, needed,
                          gate, pendingNegotiation>>
      BY <1>9
      DEF BrowserAnswerRejected, SendAnswer, UpdateSignalingSender
<1>10. ASSUME UNCHANGED vars
      PROVE  UNCHANGED <<pcState, gen, lastGen, offerGen, requested, needed,
                          gate, pendingNegotiation>>
      BY <1>10 DEF vars
<1>11. CASE UNCHANGED <<pcState, gen, lastGen, offerGen, requested, needed,
                         gate, pendingNegotiation>>
      BY <1>11
      DEF IInv, TypeOK, TypeFlags, SigShape, ChangeHasDriver
<1> QED
    BY <1>1, <1>2, <1>3, <1>4, <1>5, <1>6, <1>7, <1>8, <1>9, <1>10, <1>11
    DEF Next, Gate, Loop

-----------------------------------------------------------------------------

(* The invariant holds initially ...                                       *)
LEMMA InitIInv == Init => IInv
<1> SUFFICES ASSUME Init PROVE IInv
    OBVIOUS
<1>1. TypeOK
      BY InitType
<1>2. GateShape /\ StoredBehindOffer /\ PendingHasFlush /\ ChangeHasDriver
      BY DEF Init, SigShape, FlagShape, FaultShape, SlotShape,
             OfferRefused, AnswerRefused, StoredBehindOffer, PendingHasFlush,
             ChangeHasDriver, None
<1>3. GenerationOrder
      BY DEF Init, GenerationOrder
<1> QED
    BY <1>1, <1>2, <1>3 DEF IInv

(* ... and every step keeps it.                                            *)
LEMMA NextIInv == IInv /\ [Next]_vars => IInv'
<1> SUFFICES ASSUME IInv, [Next]_vars PROVE IInv'
    OBVIOUS
<1>1. TypeOK
      BY DEF IInv
<1>2. TypeOK'
      BY <1>1, FlagsStep, PCStep, GateStep, LoopsStep, NetStep, BrowserStep
      DEF TypeOK
<1> QED
    BY <1>2, GateShapeStep, StoredStep, GenerationStep, PendingStep, ChangeStep
    DEF IInv

(* IInv holds in every reachable state of the gate.                        *)
THEOREM GateInvariant == Spec => []IInv
BY InitIInv, NextIInv, PTL DEF Spec

(* Every variable of the gate keeps its type, for all bounds.              *)
THEOREM TypeCorrect == Spec => []TypeOK
<1>1. IInv => TypeOK
      BY DEF IInv
<1> QED
    BY <1>1, GateInvariant, PTL

(* isNegotiating is set exactly while a server offer is outstanding, seen  *)
(* by anyone who acquires negMu (RequestSubscriberOffer,                   *)
(* handleNegotiationNeeded, flushPendingLocked), unless pion reported an   *)
(* error for a description it had installed: an answer for the flag to be  *)
(* left set, an offer for it to be left down, and nothing else.            *)
THEOREM FlagIsExact == Spec => []NegotiatingIffOffered
<1>1. IInv => NegotiatingIffOffered
      BY DEF IInv, FlagShape, OfferRefused, AnswerRefused,
             NegotiatingIffOffered
<1> QED
    BY <1>1, GateInvariant, PTL

(* A browser offer is only ever stored behind an outstanding server offer, *)
(* whose answer will take it out again, or on a peer connection that Close *)
(* ended before the store (ProcessBrowserOffer), unless pion refused an    *)
(* answer it had installed (ProcessBrowserAnswer returns without a flush). *)
THEOREM StoredOfferHasFlush == Spec => []StoredBehindOffer
<1>1. IInv => StoredBehindOffer
      BY DEF IInv
<1> QED
    BY <1>1, GateInvariant, PTL

(* Coalescing loses no sender change: until pion fails, a change newer     *)
(* than the last server offer always has somebody left to offer it.        *)
THEOREM NoChangeForgotten == Spec => []ChangeNotForgotten
<1>1. IInv => ChangeNotForgotten
      BY DEF IInv, PendingHasFlush, ChangeHasDriver, ChangeNotForgotten,
             AnswerSteps
<1> QED
    BY <1>1, GateInvariant, PTL

-----------------------------------------------------------------------------
(* The abstract step of each concrete one. *)

(* The refinement: initial states ...                                      *)
LEMMA ExchangeInit == Init => Exchange!Init
BY DEF Init, Exchange!Init

(* ... and steps.                                                          *)
LEMMA ExchangeNext == IInv /\ [Next]_vars => [Exchange!Next]_Exchange!vars
<1> SUFFICES ASSUME IInv, [Next]_vars PROVE [Exchange!Next]_Exchange!vars
    OBVIOUS
<1>1. CASE AddTrack \/ RemoveTrack \/ SwapEgressTrack
  <2>1. sig # "closed" /\ gen' \in {gen + 1, gen + 2}
        /\ sig' = sig /\ lastGen' = lastGen
        BY <1>1
        DEF AddTrack, RemoveTrack, SwapEgressTrack, IInv, SigShape
  <2>2. Exchange!Change
        BY <2>1 DEF Exchange!Change, IInv, TypeOK, TypePC
  <2> QED
      BY <2>2 DEF Exchange!Next
<1>2. CASE OfferSetLocal
  <2>1. Exchange!ServerOffers
        BY <1>2
        DEF OfferSetLocal, Exchange!ServerOffers, IInv, GenerationOrder,
            TypeOK, TypePC, TypeGate
  <2> QED
      BY <2>1 DEF Exchange!Next
<1>3. CASE AnswerSetRemote
      BY <1>3 DEF AnswerSetRemote, Exchange!BrowserOffers, Exchange!Next
<1>4. CASE AnswerSetLocal
      BY <1>4 DEF AnswerSetLocal, Exchange!Answered, Exchange!Next
<1>5. ASSUME NEW c \in Conns, ProcessBrowserAnswer(c)
      PROVE  [Exchange!Next]_Exchange!vars
      BY <1>5 DEF ProcessBrowserAnswer, Exchange!Answered, Exchange!Next
<1>6. CASE Close
      BY <1>6
      DEF Close, Exchange!Close, Exchange!Next, IInv, SigShape, TypeOK, TypePC
<1>7. ASSUME \/ RequestSubscriberOffer \/ handleNegotiationNeeded
             \/ OfferSend \/ OfferAborted \/ AnswerReturned
             \/ AnswerDelivered \/ AnswerAborted \/ StoreOffer
             \/ AnswerApplied \/ handleConnectionStateChange
             \/ BrowserOffer \/ BrowserOnOffer \/ BrowserOnAnswer
             \/ Drop \/ Reconnect
      PROVE  UNCHANGED <<sig, gen, lastGen>>
      BY <1>7
      DEF RequestSubscriberOffer, handleNegotiationNeeded, OfferSend,
          OfferAborted, AnswerReturned, AnswerDelivered, AnswerAborted,
          StoreOffer, AnswerApplied, handleConnectionStateChange,
          BrowserOffer, BrowserOnOffer, BrowserOnAnswer, Drop, Reconnect
<1>8. ASSUME NEW c \in Conns,
             \/ ProcessBrowserOffer(c) \/ SendAnswer(c)
             \/ FlushDeferredNegotiation(c) \/ UpdateSignalingSender(c)
      PROVE  UNCHANGED <<sig, gen, lastGen>>
      BY <1>8
      DEF ProcessBrowserOffer, SendAnswer, FlushDeferredNegotiation,
          UpdateSignalingSender
<1>9. ASSUME UNCHANGED vars PROVE UNCHANGED <<sig, gen, lastGen>>
      BY <1>9 DEF vars
<1>10. CASE UNCHANGED <<sig, gen, lastGen>>
       BY <1>10 DEF Exchange!vars
<1>11. CASE OfferFails
  <2>1. CASE sig' = sig
        BY <1>10, <1>11, <2>1 DEF OfferFails
  <2>2. CASE sig = "stable" /\ sig' = "have-local-offer"
    <3>1. lastGen < gen
      <4>1. lastGen \in Nat /\ offerGen \in Nat /\ gen \in Nat
            BY BoundsAssumption
            DEF IInv, TypeOK, TypePC, TypeGate, BoundsAssumption
      <4>2. lastGen < offerGen /\ offerGen <= gen
            BY <1>11 DEF OfferFails, IInv, GenerationOrder
      <4> QED
          BY <4>1, <4>2
    <3> QED
        BY <1>11, <2>2, <3>1
        DEF OfferFails, Exchange!ServerOfferRefused, Exchange!Next
  <2> QED
      BY <1>11, <2>1, <2>2 DEF OfferFails, PionFails, IInv, SigShape
<1>12. CASE AnswerFails
  <2>1. CASE sig' = sig
        BY <1>10, <1>12, <2>1 DEF AnswerFails
  <2>2. CASE sig = "stable" /\ sig' = "have-remote-offer"
        BY <1>12, <2>2 DEF AnswerFails, Exchange!BrowserOffers, Exchange!Next
  <2>3. CASE sig = "have-remote-offer" /\ sig' = "stable"
        BY <1>12, <2>3 DEF AnswerFails, Exchange!Answered, Exchange!Next
  <2> QED
      BY <1>12, <2>1, <2>2, <2>3 DEF AnswerFails, PionFails, IInv, SigShape
<1>13. ASSUME NEW c \in Conns, BrowserAnswerRejected(c)
       PROVE  [Exchange!Next]_Exchange!vars
  <2>1. CASE sig' = sig
        BY <1>10, <1>13, <2>1 DEF BrowserAnswerRejected
  <2>2. CASE sig = "have-local-offer" /\ sig' = "stable"
        BY <1>13, <2>2
        DEF BrowserAnswerRejected, Exchange!Answered, Exchange!Next
  <2> QED
      BY <1>13, <2>1, <2>2 DEF BrowserAnswerRejected, PionFails
<1> QED
    BY <1>1, <1>2, <1>3, <1>4, <1>5, <1>6, <1>7, <1>8, <1>9, <1>10, <1>11,
       <1>12, <1>13
    DEF Next, Gate, Loop

(* The gate, with its flags, generations, locks, lost messages and         *)
(* reconnections, implements the abstract one-exchange-at-a-time protocol. *)
THEOREM Refinement == Spec => ImplementsExchange
BY ExchangeInit, ExchangeNext, GateInvariant, PTL
DEF Spec, ImplementsExchange, Exchange!Spec

-----------------------------------------------------------------------------
(* What is on the wire. *)

OffersDown   == {i \in DOMAIN down : down[i].type = "offer"}
AnswersUp(c) == {i \in DOMAIN up[c] : up[c][i].type = "answer"}

(* A server offer is on its way down, or its answer on its way back.       *)
Flying == OffersDown # {} \/ \E c \in Conns : AnswersUp(c) # {}

(* Until the browser sends an answer twice there is one of them at most,   *)
(* and while there is one no offer is about to be sent.                    *)
FlightShape ==
    dups = 0 =>
        /\ \A i, j \in OffersDown : i = j
        /\ \A c, d \in Conns : \A i \in AnswersUp(c), j \in AnswersUp(d) :
              c = d /\ i = j
        /\ \A c \in Conns : OffersDown = {} \/ AnswersUp(c) = {}
        /\ Flying => /\ sig \in {"have-local-offer", "closed"}
                     /\ gate # "gatherOffer"

(* The messages of a queue after one is taken off its head ...             *)
LEMMA TailParts ==
    ASSUME NEW S, NEW s \in Seq(S), s # <<>>
    PROVE  /\ Tail(s) \in Seq(S) /\ 1 \in DOMAIN s
           /\ \A i \in DOMAIN Tail(s) :
                 i + 1 \in DOMAIN s /\ Tail(s)[i] = s[i + 1]
           /\ \A i \in DOMAIN Tail(s) : i \in Nat
OBVIOUS

(* ... after one is put at its end ...                                     *)
LEMMA AppendParts ==
    ASSUME NEW S, NEW s \in Seq(S), NEW m \in S
    PROVE  /\ DOMAIN Append(s, m) = DOMAIN s \cup {Len(s) + 1}
           /\ Len(s) + 1 \notin DOMAIN s
           /\ Append(s, m)[Len(s) + 1] = m
           /\ \A i \in DOMAIN s : Append(s, m)[i] = s[i] /\ i \in 1..Len(s)
OBVIOUS

(* ... and after the connection broke behind the first n.                  *)
LEMMA PrefixParts ==
    ASSUME NEW S, NEW s \in Seq(S), NEW n \in 0..Len(s)
    PROVE  \A i \in DOMAIN SubSeq(s, 1, n) :
               i \in DOMAIN s /\ SubSeq(s, 1, n)[i] = s[i]
<1>1. SubSeq(s, 1, n) = [i \in 1..n |-> s[i]]
      OBVIOUS
<1> QED
    BY <1>1

(* Steps that touch no message only have to keep the peer connection       *)
(* waiting.                                                                *)
LEMMA FlightQuiet ==
    ASSUME FlightShape, UNCHANGED <<up, down, dups>>,
           dups = 0 /\ Flying => /\ sig' \in {"have-local-offer", "closed"}
                                 /\ gate' # "gatherOffer"
    PROVE  FlightShape'
BY DEF FlightShape, Flying, OffersDown, AnswersUp

(* No offer takes to the air but the one being sent, and no answer but the *)
(* browser's.                                                              *)
LEMMA FlightShrinks ==
    ASSUME FlightShape, dups' = 0 => dups = 0, sig' = sig,
           gate' # "gatherOffer" \/ gate' = gate,
           OffersDown' \subseteq OffersDown,
           \A c \in Conns : AnswersUp(c)' \subseteq AnswersUp(c)
    PROVE  FlightShape'
BY DEF FlightShape, Flying

(* A message loop takes an offer: the answers behind it move up.           *)
LEMMA ReceivesKeepsFlight ==
    ASSUME FlightShape, NEW M, up \in [Conns -> Seq(M)], NEW c \in Conns,
           NEW t, Receives(c, t), UNCHANGED <<down, dups, sig>>,
           gate' # "gatherOffer"
    PROVE  FlightShape'
<1>1. up[c] \in Seq(M) /\ up[c] # <<>> /\ up' = [up EXCEPT ![c] = Tail(up[c])]
      BY DEF Receives
<1>2. OffersDown' = OffersDown
      BY DEF OffersDown
<1>3. \A d \in Conns : d # c => AnswersUp(d)' = AnswersUp(d)
      BY <1>1 DEF AnswersUp
<1>4. \A i \in AnswersUp(c)' : i \in Nat /\ i + 1 \in AnswersUp(c)
      BY <1>1, TailParts DEF AnswersUp
<1>5. \A i, j \in AnswersUp(c)' : i + 1 = j + 1 => i = j
      BY <1>4
<1>6. \A d \in Conns : AnswersUp(d)' # {} => AnswersUp(d) # {}
      BY <1>3, <1>4
<1>7. ASSUME dups = 0, NEW d \in Conns, NEW e \in Conns,
             NEW i, i \in AnswersUp(d)', NEW j, j \in AnswersUp(e)'
      PROVE  d = e /\ i = j
  <2>1. d = e
        BY <1>6, <1>7 DEF FlightShape
  <2>2. CASE d = c
        BY <1>4, <1>5, <1>7, <2>1, <2>2 DEF FlightShape
  <2>3. CASE d # c
        BY <1>3, <1>7, <2>1, <2>3 DEF FlightShape
  <2> QED
      BY <2>1, <2>2, <2>3
<1> QED
    BY <1>2, <1>6, <1>7 DEF FlightShape, Flying

(* It takes the answer: nothing is left in flight.                         *)
LEMMA ReceivesAnswer ==
    ASSUME FlightShape, dups = 0, NEW M, up \in [Conns -> Seq(M)],
           NEW c \in Conns, Receives(c, "answer"), UNCHANGED down
    PROVE  OffersDown' = {} /\ \A d \in Conns : AnswersUp(d)' = {}
<1>1. /\ up[c] \in Seq(M) /\ up[c] # <<>> /\ Head(up[c]).type = "answer"
      /\ up' = [up EXCEPT ![c] = Tail(up[c])]
      BY DEF Receives
<1>2. 1 \in AnswersUp(c)
      BY <1>1, TailParts DEF AnswersUp
<1>3. OffersDown = {} /\ \A d \in Conns : \A i \in AnswersUp(d) : d = c /\ i = 1
      BY <1>2 DEF FlightShape
<1>4. OffersDown' = {}
      BY <1>3 DEF OffersDown
<1>5. ASSUME NEW d \in Conns, d # c PROVE AnswersUp(d)' = {}
  <2>1. up'[d] = up[d]
        BY <1>1, <1>5
  <2> QED
      BY <1>3, <1>5, <2>1 DEF AnswersUp
<1>6. AnswersUp(c)' = {}
  <2>1. ASSUME NEW i \in AnswersUp(c)' PROVE FALSE
    <3>1. i \in Nat /\ i \in 1..Len(Tail(up[c])) /\ i + 1 \in AnswersUp(c)
          BY <1>1, <2>1, TailParts DEF AnswersUp
    <3> QED
        BY <1>3, <3>1
  <2> QED
      BY <2>1
<1> QED
    BY <1>4, <1>5, <1>6

(* Every step keeps the flight in shape.                                   *)
LEMMA FlightStep == IInv /\ FlightShape /\ [Next]_vars => FlightShape'
<1> SUFFICES ASSUME IInv, FlightShape, [Next]_vars PROVE FlightShape'
    OBVIOUS
<1> DEFINE M == ServerOffers \cup ServerAnswers
           N == BrowserOffers \cup BrowserAnswers
<1>t. /\ down \in Seq(M) /\ up \in [Conns -> Seq(N)] /\ conn \in Conns
      /\ \A c \in Conns : up[c] \in Seq(N)
      BY DEF IInv, TypeOK, TypeNet
<1>g. /\ sig # "closed" => /\ gate = "offer" => sig = "stable"
                           /\ gate = "gatherOffer" => sig = "have-local-offer"
                           /\ gate = "answer" => sig = "stable"
                           /\ gate = "answerLocal" => sig = "have-remote-offer"
      /\ sig = "closed" <=> pcState = "closed"
      BY DEF IInv, SigShape
<1>1. CASE AddTrack \/ RemoveTrack \/ SwapEgressTrack \/ OfferAborted
           \/ AnswerReturned \/ AnswerAborted \/ StoreOffer
           \/ Close \/ handleConnectionStateChange \/ Reconnect
  <2>1. /\ UNCHANGED <<up, down, dups>> /\ sig' \in {sig, "closed"}
        /\ gate' \in {gate, "free"}
        BY <1>1
        DEF AddTrack, RemoveTrack, SwapEgressTrack, OfferAborted,
            AnswerReturned, AnswerAborted, StoreOffer, Close,
            handleConnectionStateChange, Reconnect
  <2>2. dups = 0 /\ Flying => /\ sig' \in {"have-local-offer", "closed"}
                              /\ gate' # "gatherOffer"
        BY <2>1 DEF FlightShape
  <2> QED
      BY <2>1, <2>2, FlightQuiet
<1>2. CASE OfferSetLocal \/ AnswerSetRemote \/ AnswerSetLocal
  <2>1. UNCHANGED <<up, down, dups>>
        BY <1>2 DEF OfferSetLocal, AnswerSetRemote, AnswerSetLocal
  <2>2. sig \in {"stable", "have-remote-offer"}
        BY <1>2 DEF OfferSetLocal, AnswerSetRemote, AnswerSetLocal
  <2>3. ~(dups = 0 /\ Flying)
        BY <2>2 DEF FlightShape
  <2> QED
      BY <2>1, <2>3, FlightQuiet
<1>3. CASE RequestSubscriberOffer \/ handleNegotiationNeeded
  <2>1. UNCHANGED <<up, down, dups, sig>> /\ gate' \in {gate, "free", "offer"}
        BY <1>3, ServerOfferCases
        DEF RequestSubscriberOffer, handleNegotiationNeeded, DriveOffer,
            StartsOffer, SkipsOffer, IInv, TypeOK
  <2>2. dups = 0 /\ Flying => /\ sig' \in {"have-local-offer", "closed"}
                              /\ gate' # "gatherOffer"
        BY <2>1 DEF FlightShape
  <2> QED
      BY <2>1, <2>2, FlightQuiet
<1>4. CASE OfferSend
  <2>1. /\ gate = "gatherOffer" /\ gate' = "free" /\ sig' = sig
        /\ UNCHANGED <<up, dups>>
        BY <1>4 DEF OfferSend
  <2>2. SUFFICES ASSUME dups = 0 PROVE FlightShape'
        BY <2>1 DEF FlightShape
  <2>3. OffersDown = {} /\ \A c \in Conns : AnswersUp(c) = {}
        BY <2>1, <2>2 DEF FlightShape, Flying
  <2>4. sig \in {"have-local-offer", "closed"}
        BY <2>1, <1>g
  <2>5. \E k : OffersDown' \subseteq {k}
    <3>1. [type |-> "offer", gen |-> localGen] \in M
          BY DEF IInv, TypeOK, TypePC, ServerOffers
    <3>2. \/ down' = down
          \/ down' = Append(down, [type |-> "offer", gen |-> localGen])
          BY <1>4 DEF OfferSend, Deliver
    <3>3. CASE down' = down
          BY <2>3, <3>3 DEF OffersDown
    <3>4. CASE down' = Append(down, [type |-> "offer", gen |-> localGen])
      <4>1. /\ DOMAIN down' = DOMAIN down \cup {Len(down) + 1}
            /\ \A i \in DOMAIN down : down'[i] = down[i]
            BY <1>t, <3>1, <3>4, AppendParts
      <4>2. OffersDown' \subseteq {Len(down) + 1}
            BY <2>3, <4>1 DEF OffersDown
      <4> QED
          BY <4>2
    <3> QED
        BY <3>2, <3>3, <3>4
  <2>6. \A c \in Conns : AnswersUp(c)' = {}
        BY <2>1, <2>3 DEF AnswersUp
  <2> QED
      BY <2>1, <2>4, <2>5, <2>6 DEF FlightShape, Flying
<1>5. CASE AnswerDelivered
  <2>1. /\ UNCHANGED <<up, dups, sig>> /\ gate' \in {"free", "offer"}
        /\ Deliver(sender, [type |-> "answer", id |-> gateOffer])
        /\ gate = "gatherAnswer"
        BY <1>5, ServerOfferCases
        DEF AnswerDelivered, FlushOffer, StartsOffer, SkipsOffer, IInv, TypeOK
  <2>2. [type |-> "answer", id |-> gateOffer] \in M
        BY <2>1 DEF IInv, TypeOK, TypeGate, ServerAnswers, None
  <2>3. \/ down' = down
        \/ down' = Append(down, [type |-> "answer", id |-> gateOffer])
        BY <2>1 DEF Deliver
  <2>4. OffersDown' = OffersDown
        BY <1>t, <2>2, <2>3, AppendParts DEF OffersDown
  <2>5. \A c \in Conns : AnswersUp(c)' = AnswersUp(c)
        BY <2>1 DEF AnswersUp
  <2> QED
      BY <2>1, <2>4, <2>5, FlightShrinks
<1>6. ASSUME NEW c \in Conns, SendAnswer(c) PROVE FlightShape'
  <2>1. /\ UNCHANGED <<up, dups, sig, gate>>
        /\ Deliver(c, [type |-> "answer", id |-> held[c]])
        BY <1>6 DEF SendAnswer
  <2>2. [type |-> "answer", id |-> held[c]] \in M
        BY <1>6 DEF SendAnswer, IInv, TypeOK, TypeLoops, ServerAnswers, None
  <2>3. \/ down' = down
        \/ down' = Append(down, [type |-> "answer", id |-> held[c]])
        BY <2>1 DEF Deliver
  <2>4. OffersDown' = OffersDown
        BY <1>t, <2>2, <2>3, AppendParts DEF OffersDown
  <2>5. \A d \in Conns : AnswersUp(d)' = AnswersUp(d)
        BY <2>1 DEF AnswersUp
  <2> QED
      BY <2>1, <2>4, <2>5, FlightShrinks
<1>7. ASSUME NEW c \in Conns, ProcessBrowserOffer(c) PROVE FlightShape'
  <2>1. /\ UNCHANGED <<down, dups, sig>> /\ gate' \in {"free", "answer", "store"}
        /\ Receives(c, "offer")
        BY <1>7 DEF ProcessBrowserOffer, Receives
  <2> QED
      BY <1>t, <2>1, ReceivesKeepsFlight
<1>8. ASSUME NEW c \in Conns, ProcessBrowserAnswer(c) PROVE FlightShape'
  <2>1. UNCHANGED <<down, dups>> /\ Receives(c, "answer")
        BY <1>8 DEF ProcessBrowserAnswer
  <2>2. SUFFICES ASSUME dups = 0 PROVE FlightShape'
        BY <2>1 DEF FlightShape
  <2>3. OffersDown' = {} /\ \A d \in Conns : AnswersUp(d)' = {}
        BY <1>t, <2>1, <2>2, ReceivesAnswer
  <2> QED
      BY <2>3 DEF FlightShape, Flying
<1>9. ASSUME NEW c \in Conns, BrowserAnswerRejected(c) PROVE FlightShape'
  <2>1. /\ UNCHANGED <<down, dups>> /\ Receives(c, "answer")
        BY <1>9 DEF BrowserAnswerRejected, PionFails
  <2>2. SUFFICES ASSUME dups = 0 PROVE FlightShape'
        BY <2>1 DEF FlightShape
  <2>3. OffersDown' = {} /\ \A d \in Conns : AnswersUp(d)' = {}
        BY <1>t, <2>1, <2>2, ReceivesAnswer
  <2> QED
      BY <2>3 DEF FlightShape, Flying
<1>10. ASSUME NEW c \in Conns, FlushDeferredNegotiation(c) PROVE FlightShape'
  <2>1. /\ UNCHANGED <<up, down, dups, sig>>
        /\ gate' \in {gate, "free", "answer", "offer"}
        BY <1>10, ServerOfferCases
        DEF FlushDeferredNegotiation, FlushPending, FlushOffer, StartsOffer,
            SkipsOffer, IInv, TypeOK
  <2>2. dups = 0 /\ Flying => /\ sig' \in {"have-local-offer", "closed"}
                              /\ gate' # "gatherOffer"
        BY <2>1 DEF FlightShape
  <2> QED
      BY <2>1, <2>2, FlightQuiet
<1>11. ASSUME NEW c \in Conns, UpdateSignalingSender(c) PROVE FlightShape'
  <2>1. UNCHANGED <<up, down, dups, sig, gate>>
        BY <1>11 DEF UpdateSignalingSender
  <2>2. dups = 0 /\ Flying => /\ sig' \in {"have-local-offer", "closed"}
                              /\ gate' # "gatherOffer"
        BY <2>1 DEF FlightShape
  <2> QED
      BY <2>1, <2>2, FlightQuiet
<1>12. CASE BrowserOffer
  <2>1. /\ UNCHANGED <<down, dups, sig, gate>>
        /\ up' = [up EXCEPT ![conn] =
                     Append(up[conn], [type |-> "offer", id |-> nextOffer])]
        BY <1>12 DEF BrowserOffer
  <2>2. [type |-> "offer", id |-> nextOffer] \in N
        BY <1>12, BoundsAssumption
        DEF BrowserOffer, IInv, TypeOK, TypeBrowser, BrowserOffers,
            BoundsAssumption
  <2>3. OffersDown' = OffersDown
        BY <2>1 DEF OffersDown
  <2>4. ASSUME NEW c \in Conns PROVE AnswersUp(c)' = AnswersUp(c)
    <3>1. CASE c # conn
          BY <1>t, <2>1, <3>1 DEF AnswersUp
    <3>2. CASE c = conn
      <4>1. up'[c] = Append(up[c], [type |-> "offer", id |-> nextOffer])
            BY <1>t, <2>1, <3>2
      <4> QED
          BY <1>t, <2>2, <4>1, AppendParts DEF AnswersUp
    <3> QED
        BY <3>1, <3>2
  <2> QED
      BY <2>1, <2>3, <2>4, FlightShrinks
<1>13. CASE BrowserOnOffer
  <2>1. SUFFICES ASSUME dups' = 0 PROVE FlightShape'
        BY DEF FlightShape
  <2>2. PICK a \in BrowserAnswers :
            /\ up' = [up EXCEPT ![conn] = Append(up[conn], a)]
            /\ dups = 0
    <3>1. Head(down) \in M /\ Head(down).type = "offer"
          BY <1>13, <1>t DEF BrowserOnOffer
    <3>2. [type |-> "answer", gen |-> Head(down).gen] \in BrowserAnswers
          BY <3>1 DEF ServerOffers, ServerAnswers, BrowserAnswers
    <3>3. dups \in Nat
          BY BoundsAssumption
          DEF IInv, TypeOK, TypeBrowser, BoundsAssumption
    <3> QED
        BY <1>13, <2>1, <3>2, <3>3 DEF BrowserOnOffer
  <2>3. /\ down # <<>> /\ Head(down).type = "offer" /\ down' = Tail(down)
        /\ UNCHANGED <<sig, gate>>
        BY <1>13 DEF BrowserOnOffer
  <2>4. 1 \in OffersDown
        BY <1>t, <2>3, TailParts DEF OffersDown
  <2>5. \A c \in Conns : AnswersUp(c) = {}
        BY <2>2, <2>4 DEF FlightShape
  <2>6. sig \in {"have-local-offer", "closed"} /\ gate # "gatherOffer"
        BY <2>2, <2>4 DEF FlightShape, Flying
  <2>7. OffersDown' = {}
    <3>1. \A i \in OffersDown : i = 1
          BY <2>2, <2>4 DEF FlightShape
    <3>2. ASSUME NEW i \in OffersDown' PROVE FALSE
      <4>1. i \in Nat /\ i + 1 \in DOMAIN down /\ down[i + 1].type = "offer"
            /\ i \in DOMAIN Tail(down)
            BY <1>t, <2>3, <3>2, TailParts DEF OffersDown
      <4>2. i + 1 = 1 /\ i \in 1..Len(Tail(down))
            BY <1>t, <2>3, <3>1, <4>1, TailParts DEF OffersDown
      <4> QED
          BY <4>2
    <3> QED
        BY <3>2
  <2>8. ASSUME NEW c \in Conns
        PROVE  AnswersUp(c)' = IF c = conn THEN {Len(up[c]) + 1} ELSE {}
    <3>1. CASE c # conn
          BY <1>t, <2>2, <2>5, <3>1 DEF AnswersUp
    <3>2. CASE c = conn
      <4>1. up'[c] = Append(up[c], a) /\ a \in N /\ a.type = "answer"
            BY <1>t, <2>2, <3>2 DEF BrowserAnswers
      <4> QED
          BY <1>t, <2>5, <3>2, <4>1, AppendParts DEF AnswersUp
    <3> QED
        BY <3>1, <3>2
  <2> QED
      BY <2>3, <2>6, <2>7, <2>8 DEF FlightShape, Flying
<1>14. CASE BrowserOnAnswer
  <2>1. /\ UNCHANGED <<up, dups, sig, gate>> /\ down # <<>>
        /\ down' = Tail(down)
        BY <1>14 DEF BrowserOnAnswer
  <2>2. \A i \in OffersDown' : i \in Nat /\ i + 1 \in OffersDown
        BY <1>t, <2>1, TailParts DEF OffersDown
  <2>3. \A c \in Conns : AnswersUp(c)' = AnswersUp(c)
        BY <2>1 DEF AnswersUp
  <2>4. \A i, j \in OffersDown' : i + 1 = j + 1 => i = j
        BY <2>2
  <2> QED
      BY <2>1, <2>2, <2>3, <2>4 DEF FlightShape, Flying
<1>15. CASE Drop
  <2>1. /\ UNCHANGED <<dups, sig, gate>> /\ down' = <<>>
        /\ \E n \in 0..Len(up[conn]) :
              up' = [up EXCEPT ![conn] = SubSeq(up[conn], 1, n)]
        BY <1>15 DEF Drop
  <2>2. OffersDown' \subseteq OffersDown
        BY <2>1 DEF OffersDown
  <2>3. ASSUME NEW c \in Conns PROVE AnswersUp(c)' \subseteq AnswersUp(c)
    <3>1. CASE c # conn
          BY <1>t, <2>1, <3>1 DEF AnswersUp
    <3>2. CASE c = conn
      <4>1. PICK n \in 0..Len(up[c]) : up'[c] = SubSeq(up[c], 1, n)
            BY <1>t, <2>1, <3>2
      <4> QED
          BY <1>t, <4>1, PrefixParts DEF AnswersUp
    <3> QED
        BY <3>1, <3>2
  <2> QED
      BY <2>1, <2>2, <2>3, FlightShrinks
<1>16. CASE AnswerApplied
  <2>1. /\ UNCHANGED <<up, down, dups, sig>>
        /\ gate' \in {"free", "answer", "offer"}
        BY <1>16, FlushEffect
        DEF AnswerApplied, FlushStep, IInv, TypeOK
  <2>2. dups = 0 /\ Flying => /\ sig' \in {"have-local-offer", "closed"}
                              /\ gate' # "gatherOffer"
        BY <2>1 DEF FlightShape
  <2> QED
      BY <2>1, <2>2, FlightQuiet
<1>17. CASE OfferFails \/ AnswerFails
  <2>1. UNCHANGED <<up, down>> /\ gate' = "free"
        /\ gate \in {"offer", "answer", "answerLocal"}
        BY <1>17 DEF OfferFails, AnswerFails
  <2>2. dups' = dups /\ (sig = "closed" => sig' = "closed")
        BY <1>17 DEF OfferFails, AnswerFails, PionFails
  <2>3. sig \notin {"have-local-offer"}
        BY <1>g, <2>1
  <2> QED
      BY <2>1, <2>2, <2>3, FlightQuiet DEF FlightShape
<1>18. CASE UNCHANGED vars
  <2>1. UNCHANGED <<up, down, dups, sig, gate>>
        BY <1>18 DEF vars
  <2>2. dups = 0 /\ Flying => /\ sig' \in {"have-local-offer", "closed"}
                              /\ gate' # "gatherOffer"
        BY <2>1 DEF FlightShape
  <2> QED
      BY <2>1, <2>2, FlightQuiet
<1> QED
    BY <1>1, <1>2, <1>3, <1>4, <1>5, <1>6, <1>7, <1>8, <1>9, <1>10, <1>11,
       <1>12, <1>13, <1>14, <1>15, <1>16, <1>17, <1>18
    DEF Next, Gate, Loop

(* Hence at most one server offer is on its way to being answered.         *)
LEMMA FlightCounted == IInv /\ FlightShape => OneOutstandingOffer
<1> SUFFICES ASSUME IInv, FlightShape, dups = 0, InFlight > 0
             PROVE  /\ InFlight = 1
                    /\ sig \in {"have-local-offer", "closed"}
    BY DEF OneOutstandingOffer
<1> DEFINE D == {i \in DOMAIN down : down[i].type = "offer"}
           P == {ci \in UNION {{c} \X DOMAIN up[c] : c \in Conns} :
                    up[ci[1]][ci[2]].type = "answer"}
<1>1. D = OffersDown
      BY DEF OffersDown
<1>2. \A p \in P : \E c \in Conns : \E i \in AnswersUp(c) : p = <<c, i>>
      BY DEF AnswersUp
<1>3. \A i, j \in D : i = j
      BY <1>1 DEF FlightShape
<1>4. \A p, q \in P : p = q
  <2> SUFFICES ASSUME NEW p \in P, NEW q \in P PROVE p = q
      OBVIOUS
  <2>1. PICK c \in Conns : \E i \in AnswersUp(c) : p = <<c, i>>
        BY <1>2
  <2>2. PICK d \in Conns : \E j \in AnswersUp(d) : q = <<d, j>>
        BY <1>2
  <2>3. \A i \in AnswersUp(c), j \in AnswersUp(d) : c = d /\ i = j
        BY DEF FlightShape
  <2> QED
      BY <2>1, <2>2, <2>3
<1>5. D = {} \/ P = {}
      BY <1>1, <1>2 DEF FlightShape
<1>6. \A S : S = {} => Cardinality(S) = 0
      BY FS_EmptySet
<1>7. \A S : (\A x, y \in S : x = y) => S = {} \/ Cardinality(S) = 1
  <2> SUFFICES ASSUME NEW S, \A x, y \in S : x = y, S # {}
               PROVE  Cardinality(S) = 1
      OBVIOUS
  <2>1. PICK x : S = {x}
        OBVIOUS
  <2> QED
      BY <2>1, FS_Singleton
<1>8. InFlight = Cardinality(D) + Cardinality(P)
      BY DEF InFlight
<1> HIDE DEF D, P
<1>9. \/ Cardinality(D) = 1 /\ Cardinality(P) = 0
      \/ Cardinality(D) = 0 /\ Cardinality(P) = 1
      \/ Cardinality(D) = 0 /\ Cardinality(P) = 0
      BY <1>3, <1>4, <1>5, <1>6, <1>7
<1>10. InFlight = 1 /\ ~(D = {} /\ P = {})
       BY <1>6, <1>8, <1>9
<1>11. Flying
       BY <1>1, <1>2, <1>10 DEF Flying
<1> QED
    BY <1>10, <1>11 DEF FlightShape

(* At most one server offer is being negotiated at a time, over all        *)
(* connections, the messages still on the wire included: serverOfferLocked *)
(* never starts a second one before handleAnswer has taken the answer to   *)
(* the first.                                                              *)
THEOREM OneOfferAtATime == Spec => []OneOutstandingOffer
<1>1. Init => FlightShape
      BY DEF Init, FlightShape, Flying, OffersDown, AnswersUp
<1>2. IInv /\ IInv' /\ FlightShape /\ [Next]_vars => FlightShape'
      BY FlightStep
<1>3. Spec => []FlightShape
      BY <1>1, <1>2, GateInvariant, PTL DEF Spec
<1> QED
    BY <1>3, FlightCounted, GateInvariant, PTL
-----------------------------------------------------------------------------
(* The order of the browser's offers, on its first connection and while    *)
(* pion has not refused an answer it had installed.                        *)

First == conn = 1 /\ ~AnswerRefused

(* The gate works for the message loop, or for the flush after its answer. *)
ForLoop == AnswerSteps \cup {"store", "flush"}

OffersUp    == {i \in DOMAIN up[1] : up[1][i].type = "offer"}
AnswersDown == {i \in DOMAIN down : down[i].type = "answer"}

(* The browser offers the server has taken and not answered: the answer    *)
(* the message loop holds, the one being made or the offer being stored    *)
(* inside negMu, and the stored offer.                                     *)
Taken == {k \in 1..MaxOffers : \/ loop[1] = "send" /\ k = held[1]
                               \/ /\ gate \in AnswerSteps \cup {"store"}
                                  /\ k = gateOffer
                               \/ k = pendingInbound}

(* Only one message loop runs, and it holds an answer only while no flush  *)
(* can send one before it: it waits for negMu while the gate answers, and  *)
(* nothing is stored while it sends.                                       *)
FirstLoop ==
    First =>
        /\ \A c \in Conns \ {1} : loop[c] = "off"
        /\ gateLoop \in {None, 1}
        /\ gate \in ForLoop => loop[1] = "recv"
        /\ loop[1] = "send" => pendingInbound = None

(* Offer k was made before the offers still on their way to the server.    *)
Before(k) == k < nextOffer /\ \A i \in OffersUp : k < up[1][i].id

(* What was answered was offered before what the server has taken, and     *)
(* that before what is still coming.                                       *)
OfferOrder ==
    First =>
        /\ \A i \in OffersUp : up[1][i].id < nextOffer
        /\ \A i, j \in OffersUp : i < j => up[1][i].id < up[1][j].id
        /\ \A k \in Taken : Before(k)
        /\ \A i \in AnswersDown :
              Before(down[i].id) /\ \A k \in Taken : down[i].id < k
        /\ \A i, j \in AnswersDown : i < j => down[i].id < down[j].id

(* The connection stays the first one only if it is.                       *)
LEMMA ConnGrows ==
    TypeOK /\ [Next]_vars => conn' = conn \/ (Reconnect /\ conn' # 1)
<1> SUFFICES ASSUME TypeOK, [Next]_vars
             PROVE  conn' = conn \/ (Reconnect /\ conn' # 1)
    OBVIOUS
<1>1. ASSUME \/ AddTrack \/ RemoveTrack \/ SwapEgressTrack
             \/ RequestSubscriberOffer \/ handleNegotiationNeeded
             \/ Close \/ handleConnectionStateChange \/ BrowserOffer
             \/ BrowserOnOffer \/ BrowserOnAnswer \/ Drop
      PROVE  conn' = conn
      BY <1>1
      DEF AddTrack, RemoveTrack, SwapEgressTrack, RequestSubscriberOffer,
          handleNegotiationNeeded, Close, handleConnectionStateChange,
          BrowserOffer, BrowserOnOffer, BrowserOnAnswer, Drop
<1>2. ASSUME Gate PROVE conn' = conn
      BY <1>2
      DEF Gate, OfferSetLocal, OfferFails, OfferSend, OfferAborted,
          AnswerSetRemote, AnswerSetLocal, AnswerFails, AnswerReturned,
          AnswerDelivered, AnswerAborted, StoreOffer, AnswerApplied
<1>3. ASSUME NEW c \in Conns, Loop(c) PROVE conn' = conn
      BY <1>3
      DEF Loop, ProcessBrowserOffer, ProcessBrowserAnswer,
          BrowserAnswerRejected, SendAnswer, FlushDeferredNegotiation,
          UpdateSignalingSender
<1>4. ASSUME Reconnect PROVE conn' # 1
  <2>1. conn \in Nat \ {0} /\ conn' = conn + 1
        BY <1>4, BoundsAssumption
        DEF Reconnect, TypeOK, TypeNet, Conns, BoundsAssumption
  <2> QED
      BY <2>1
<1>5. ASSUME UNCHANGED vars PROVE conn' = conn
      BY <1>5 DEF vars
<1> QED
    BY <1>1, <1>2, <1>3, <1>4, <1>5 DEF Next

(* Both restrictions, once lifted, stay lifted.                            *)
LEMMA FirstBefore ==
    ASSUME IInv, [Next]_vars, First'
    PROVE  First /\ conn = 1 /\ ~Reconnect
<1>1. conn' = 1 /\ ~AnswerRefused'
      BY DEF First
<1>2. conn = 1 /\ ~Reconnect
  <2>1. conn' = conn
        BY <1>1, ConnGrows DEF IInv
  <2>2. conn \in Nat
        BY BoundsAssumption DEF IInv, TypeOK, TypeNet, Conns, BoundsAssumption
  <2> QED
      BY <1>1, <2>1, <2>2 DEF Reconnect
<1>3. late \subseteq late'
      BY LateStep
<1> QED
    BY <1>1, <1>2, <1>3 DEF First, AnswerRefused

(* Every step keeps the message loop and the gate out of each other's way. *)
LEMMA FirstLoopStep == IInv /\ FirstLoop /\ [Next]_vars => FirstLoop'
<1> SUFFICES ASSUME IInv, FirstLoop, [Next]_vars, First' PROVE FirstLoop'
    BY DEF FirstLoop
<1>t. /\ First /\ ~Reconnect
      /\ loop \in [Conns -> {"off", "start", "recv", "send", "flush"}]
      /\ 1 \in Conns /\ gate \in GateSteps
      BY FirstBefore, BoundsAssumption
      DEF IInv, TypeOK, TypeLoops, TypeGate, Conns, BoundsAssumption, TypeNet
<1>i. /\ \A c \in Conns \ {1} : loop[c] = "off"
      /\ gateLoop \in {None, 1}
      /\ gate \in ForLoop => loop[1] = "recv"
      /\ gate \in AnswerSteps => pendingInbound = None
      /\ loop[1] = "send" => pendingInbound = None
      BY <1>t DEF First, FirstLoop, IInv, SlotShape
<1>1. ASSUME UNCHANGED <<loop, gateLoop>>,
             pendingInbound' \in {pendingInbound, None},
             gate' \in {gate, "free", "offer", "gatherOffer"}
             \/ gate \in AnswerSteps
      PROVE  FirstLoop'
      BY <1>i, <1>1 DEF FirstLoop, ForLoop
<1>2. CASE \/ AddTrack \/ RemoveTrack \/ SwapEgressTrack \/ OfferSetLocal
           \/ OfferFails \/ OfferSend \/ OfferAborted \/ AnswerSetRemote
           \/ AnswerSetLocal \/ AnswerFails \/ AnswerAborted \/ Close
           \/ handleConnectionStateChange \/ BrowserOffer \/ BrowserOnOffer
           \/ BrowserOnAnswer \/ Drop \/ UNCHANGED vars
  <2>1. /\ UNCHANGED <<loop, gateLoop>>
        /\ pendingInbound' \in {pendingInbound, None}
        /\ \/ gate' \in {gate, "free", "offer", "gatherOffer"}
           \/ gate \in AnswerSteps
        BY <1>2
        DEF AddTrack, RemoveTrack, SwapEgressTrack, OfferSetLocal, OfferFails,
            OfferSend, OfferAborted, AnswerSetRemote, AnswerSetLocal,
            AnswerFails, AnswerAborted, Close, handleConnectionStateChange,
            BrowserOffer, BrowserOnOffer, BrowserOnAnswer, Drop, vars,
            AnswerSteps
  <2> QED
      BY <1>1, <2>1
<1>3. CASE RequestSubscriberOffer \/ handleNegotiationNeeded \/ AnswerDelivered
  <2>1. /\ UNCHANGED <<loop, gateLoop, pendingInbound>>
        /\ gate' \in {gate, "free", "offer"}
        BY <1>3, ServerOfferCases
        DEF RequestSubscriberOffer, handleNegotiationNeeded, AnswerDelivered,
            DriveOffer, FlushOffer, StartsOffer, SkipsOffer, IInv, TypeOK
  <2> QED
      BY <1>1, <2>1
<1>4. CASE AnswerReturned
  <2>1. /\ gate \in AnswerSteps /\ gateLoop = 1 /\ gate' = "free"
        /\ loop' = [loop EXCEPT ![1] = "send"]
        /\ UNCHANGED <<gateLoop, pendingInbound>>
        BY <1>4, <1>i DEF AnswerReturned, AnswerSteps
  <2> QED
      BY <1>t, <1>i, <2>1 DEF FirstLoop, ForLoop
<1>5. ASSUME NEW c \in Conns, ProcessBrowserOffer(c) PROVE FirstLoop'
  <2>1. loop[c] = "recv" /\ c = 1
        BY <1>5, <1>i DEF ProcessBrowserOffer, Receives
  <2>2. /\ loop' = loop
        /\ gateLoop' \in {gateLoop, 1}
        BY <1>5, <2>1 DEF ProcessBrowserOffer
  <2> QED
      BY <1>i, <2>1, <2>2 DEF FirstLoop
<1>6. ASSUME NEW c \in Conns, ProcessBrowserAnswer(c) PROVE FirstLoop'
  <2>1. loop[c] = "recv" /\ c = 1 /\ loop' = loop
        BY <1>6, <1>i DEF ProcessBrowserAnswer, Receives
  <2>2. gateLoop' = gateLoop
        BY <1>6 DEF ProcessBrowserAnswer
  <2> QED
      BY <1>i, <2>1, <2>2 DEF FirstLoop
<1>7. ASSUME NEW c \in Conns, BrowserAnswerRejected(c) PROVE FirstLoop'
      BY <1>1, <1>7 DEF BrowserAnswerRejected
<1>8. ASSUME NEW c \in Conns,
             SendAnswer(c) \/ FlushDeferredNegotiation(c)
             \/ UpdateSignalingSender(c)
      PROVE  FirstLoop'
  <2>1. c = 1 /\ loop[1] # "recv"
        BY <1>8, <1>i
        DEF SendAnswer, FlushDeferredNegotiation, UpdateSignalingSender
  <2>2. /\ loop' \in {[loop EXCEPT ![1] = "recv"], [loop EXCEPT ![1] = "flush"]}
        /\ loop'[1] # "recv" => gate' = gate
        /\ gateLoop' \in {gateLoop, None}
        BY <1>8, <1>t, <2>1
        DEF SendAnswer, FlushDeferredNegotiation, UpdateSignalingSender,
            FlushPending
  <2> QED
      BY <1>t, <1>i, <2>1, <2>2 DEF FirstLoop, ForLoop
<1>9. CASE StoreOffer \/ AnswerApplied
  <2>1. loop[1] = "recv" /\ loop' = loop
        BY <1>9, <1>i DEF StoreOffer, AnswerApplied, ForLoop
  <2>2. gateLoop' \in {gateLoop, None}
        BY <1>9 DEF StoreOffer, AnswerApplied, FlushPending
  <2> QED
      BY <1>i, <2>1, <2>2 DEF FirstLoop
<1> QED
    BY <1>t, <1>2, <1>3, <1>4, <1>5, <1>6, <1>7, <1>8, <1>9
    DEF Next, Gate, Loop

(* The offers on their way up and the answers on their way down have       *)
(* numbers for names.                                                      *)
LEMMA NamesAreNumbers ==
    TypeOK => /\ \A i \in OffersUp : i \in Nat \ {0} /\ up[1][i].id \in Nat
              /\ \A i \in AnswersDown : i \in Nat /\ down[i].id \in Nat
              /\ nextOffer \in Nat
<1> SUFFICES ASSUME TypeOK
             PROVE  /\ \A i \in OffersUp :
                          i \in Nat \ {0} /\ up[1][i].id \in Nat
                    /\ \A i \in AnswersDown : i \in Nat /\ down[i].id \in Nat
                    /\ nextOffer \in Nat
    OBVIOUS
<1> DEFINE M == ServerOffers \cup ServerAnswers
           N == BrowserOffers \cup BrowserAnswers
<1>1. down \in Seq(M) /\ up[1] \in Seq(N)
      BY BoundsAssumption DEF TypeOK, TypeNet, Conns, BoundsAssumption
<1>2. \A i \in DOMAIN down : i \in Nat /\ down[i] \in M
      BY <1>1
<1>3. \A i \in DOMAIN up[1] : i \in Nat \ {0} /\ up[1][i] \in N
      BY <1>1
<1>4. \A m \in M : m.type = "answer" => m.id \in Nat
      BY BoundsAssumption DEF ServerOffers, ServerAnswers, BoundsAssumption
<1>5. \A m \in N : m.type = "offer" => m.id \in Nat
      BY BoundsAssumption DEF BrowserOffers, BrowserAnswers, BoundsAssumption
<1>6. nextOffer \in Nat
      BY BoundsAssumption DEF TypeOK, TypeBrowser, BoundsAssumption
<1> HIDE DEF M, N
<1> QED
    BY <1>2, <1>3, <1>4, <1>5, <1>6 DEF OffersUp, AnswersDown

(* Messages that leave the head of a queue, or are lost from its end, and  *)
(* offers that are dealt with leave the rest in order; and so does taking  *)
(* the first offer on its way up.                                          *)
LEMMA OrderShifts ==
    ASSUME TypeOK, OfferOrder, First, nextOffer' = nextOffer,
           NEW p \in {0, 1}, NEW q \in {0, 1},
           \A i \in OffersUp' :
              i \in Nat \ {0} /\ i + p \in OffersUp /\ up'[1][i] = up[1][i + p],
           \A i \in AnswersDown' :
              i \in Nat /\ i + q \in AnswersDown /\ down'[i] = down[i + q],
           \A k \in Taken' :
              k \in Taken \/ (p = 1 /\ 1 \in OffersUp /\ k = up[1][1].id)
    PROVE  OfferOrder'
<1>o. /\ \A i \in OffersUp : up[1][i].id < nextOffer
      /\ \A i, j \in OffersUp : i < j => up[1][i].id < up[1][j].id
      /\ \A k \in Taken : Before(k)
      /\ \A i \in AnswersDown :
            Before(down[i].id) /\ \A k \in Taken : down[i].id < k
      /\ \A i, j \in AnswersDown : i < j => down[i].id < down[j].id
      BY DEF OfferOrder
<1>1. \A k : Before(k) => Before(k)'
      BY DEF Before
<1>2. \A i \in OffersUp' : up'[1][i].id < nextOffer'
      BY <1>o
<1>3. \A i, j \in OffersUp' : i < j => up'[1][i].id < up'[1][j].id
  <2> SUFFICES ASSUME NEW i, i \in OffersUp', NEW j, j \in OffersUp', i < j
               PROVE  up'[1][i].id < up'[1][j].id
      OBVIOUS
  <2>1. i + p < j + p /\ i + p \in OffersUp /\ j + p \in OffersUp
        OBVIOUS
  <2> QED
      BY <1>o, <2>1
<1>4. \A k \in Taken' : Before(k)'
  <2>1. ASSUME NEW n, p = 1, 1 \in OffersUp, n = up[1][1].id PROVE Before(n)'
    <3>1. ASSUME NEW i, i \in OffersUp' PROVE n < up'[1][i].id
      <4>1. i + 1 \in OffersUp /\ 1 < i + 1 /\ up'[1][i] = up[1][i + 1]
            BY <2>1, <3>1
      <4> QED
          BY <1>o, <2>1, <4>1
    <3>2. n < nextOffer'
          BY <1>o, <2>1
    <3> QED
        BY <3>1, <3>2 DEF Before
  <2> QED
      BY <1>o, <1>1, <2>1
<1>5. ASSUME NEW i, i \in AnswersDown', NEW n, n = down'[i].id
      PROVE  Before(n)' /\ \A k \in Taken' : n < k
  <2>1. i + q \in AnswersDown /\ down[i + q].id = n
        BY <1>5
  <2>2. Before(n) /\ \A k \in Taken : n < k
        BY <1>o, <2>1
  <2>3. Before(n)'
        BY <1>1, <2>2
  <2>4. \A k \in Taken' : n < k
        BY <2>2 DEF Before
  <2> QED
      BY <2>3, <2>4
<1>6. \A i, j \in AnswersDown' : i < j => down'[i].id < down'[j].id
  <2> SUFFICES ASSUME NEW i, i \in AnswersDown', NEW j, j \in AnswersDown',
                      i < j
               PROVE  down'[i].id < down'[j].id
      OBVIOUS
  <2>1. i + q < j + q /\ i + q \in AnswersDown /\ j + q \in AnswersDown
        OBVIOUS
  <2> QED
      BY <1>o, <2>1
<1> QED
    BY <1>2, <1>3, <1>4, <1>5, <1>6 DEF OfferOrder

(* Steps that touch no message and take no offer.                          *)
LEMMA OrderQuiet ==
    ASSUME TypeOK, OfferOrder, First, UNCHANGED <<up, down, nextOffer>>,
           Taken' \subseteq Taken
    PROVE  OfferOrder'
<1>1. OffersUp' = OffersUp /\ AnswersDown' = AnswersDown
      BY DEF OffersUp, AnswersDown
<1>2. \A i \in OffersUp' :
         i \in Nat \ {0} /\ i + 0 \in OffersUp /\ up'[1][i] = up[1][i + 0]
      BY <1>1, NamesAreNumbers
<1>3. \A i \in AnswersDown' :
         i \in Nat /\ i + 0 \in AnswersDown /\ down'[i] = down[i + 0]
      BY <1>1, NamesAreNumbers
<1> QED
    BY <1>2, <1>3, OrderShifts

(* A message loop takes a message from its connection.                     *)
LEMMA OrderReceives ==
    ASSUME TypeOK, OfferOrder, First, NEW t, Receives(1, t),
           UNCHANGED <<down, nextOffer>>,
           \A k \in Taken' :
              k \in Taken \/ (t = "offer" /\ k = Head(up[1]).id)
    PROVE  OfferOrder'
<1>1. up[1] \in Seq(BrowserOffers \cup BrowserAnswers) /\ 1 \in Conns
      /\ up[1] # <<>> /\ up'[1] = Tail(up[1]) /\ Head(up[1]) = up[1][1]
      /\ Head(up[1]).type = t
      BY BoundsAssumption DEF Receives, TypeOK, TypeNet, Conns, BoundsAssumption
<1>2. 1 \in DOMAIN up[1]
      BY <1>1, TailParts
<1>3. \A i \in OffersUp' :
         i \in Nat \ {0} /\ i + 1 \in OffersUp /\ up'[1][i] = up[1][i + 1]
  <2>1. \A i \in DOMAIN up'[1] : /\ i \in Nat \ {0} /\ i + 1 \in DOMAIN up[1]
                                 /\ up'[1][i] = up[1][i + 1]
        BY <1>1, TailParts
  <2> QED
      BY <2>1 DEF OffersUp
<1>4. \A i \in AnswersDown' :
         i \in Nat /\ i + 0 \in AnswersDown /\ down'[i] = down[i + 0]
  <2>1. AnswersDown' = AnswersDown
        BY DEF AnswersDown
  <2> QED
      BY <2>1, NamesAreNumbers
<1>5. t = "offer" => 1 \in OffersUp
      BY <1>1, <1>2 DEF OffersUp
<1> QED
    BY <1>1, <1>3, <1>4, <1>5, OrderShifts

(* The answer to the only offer taken is put on the connection, or lost.   *)
LEMMA OrderAnswered ==
    ASSUME TypeOK, OfferOrder, First, UNCHANGED <<up, nextOffer>>,
           NEW k \in Taken, Taken' = {}, NEW c,
           Deliver(c, [type |-> "answer", id |-> k])
    PROVE  OfferOrder'
<1> DEFINE m == [type |-> "answer", id |-> k]
<1>1. CASE down' = down
      BY <1>1, OrderQuiet
<1>2. CASE down' = Append(down, m)
  <2>1. m \in ServerOffers \cup ServerAnswers
        BY DEF Taken, ServerAnswers
  <2>2. /\ DOMAIN down' = DOMAIN down \cup {Len(down) + 1}
        /\ down'[Len(down) + 1] = m
        /\ \A i \in DOMAIN down : down'[i] = down[i] /\ i \in 1..Len(down)
        BY <1>2, <2>1, AppendParts DEF TypeOK, TypeNet
  <2>3. /\ AnswersDown' = AnswersDown \cup {Len(down) + 1}
        /\ \A i \in AnswersDown : down'[i] = down[i] /\ i < Len(down) + 1
        BY <2>2 DEF AnswersDown, TypeOK, TypeNet
  <2>4. OffersUp' = OffersUp /\ \A n : Before(n) => Before(n)'
        BY DEF OffersUp, Before
  <2>5. Before(k) /\ \A i \in AnswersDown : down[i].id < k
        BY DEF OfferOrder
  <2>6. ASSUME NEW n, NEW i, i \in AnswersDown', n = down'[i].id
        PROVE  Before(n)'
        BY <2>2, <2>3, <2>4, <2>5, <2>6 DEF OfferOrder
  <2>7. ASSUME NEW i, i \in AnswersDown', NEW j, j \in AnswersDown', i < j
        PROVE  down'[i].id < down'[j].id
    <3>1. i \in AnswersDown
      <4>1. Len(down) \in Nat /\ AnswersDown \subseteq Nat
            BY NamesAreNumbers DEF TypeOK, TypeNet
      <4>2. i # Len(down) + 1
            BY <2>3, <2>7, <4>1
      <4> QED
          BY <2>3, <2>7, <4>2
    <3>2. CASE j \in AnswersDown
          BY <2>3, <2>7, <3>1, <3>2 DEF OfferOrder
    <3>3. CASE j = Len(down) + 1
          BY <2>2, <2>3, <2>5, <3>1, <3>3
    <3> QED
        BY <2>3, <2>7, <3>2, <3>3
  <2>8. /\ \A i \in OffersUp' : up'[1][i].id < nextOffer'
        /\ \A i, j \in OffersUp' : i < j => up'[1][i].id < up'[1][j].id
        BY <2>4 DEF OfferOrder
  <2> QED
      BY <2>6, <2>7, <2>8 DEF OfferOrder
<1> QED
    BY <1>1, <1>2 DEF Deliver

(* A flush moves the stored offer to the gate, and takes nothing new.      *)
LEMMA FlushTakesNothing ==
    ASSUME TypeOK, NEW s, NEW n \in BOOLEAN, gate \in {"free", "flush"},
           FlushPending(s, n), held' = held,
           loop'[1] = "send" => loop[1] = "send"
    PROVE  Taken' \subseteq Taken
<1>1. \/ gate' = "answer" /\ gateOffer' = pendingInbound
         /\ pendingInbound' = None
      \/ gate' \in {"free", "offer"} /\ pendingInbound' = pendingInbound
      BY ServerOfferCases
      DEF FlushPending, FlushOffer, StartsOffer, SkipsOffer, TypeOK,
          AnswerSteps
<1> QED
    BY <1>1 DEF Taken, None

(* Every step keeps the order.                                             *)
LEMMA OrderStep ==
    IInv /\ FirstLoop /\ OfferOrder /\ [Next]_vars => OfferOrder'
<1> SUFFICES ASSUME IInv, FirstLoop, OfferOrder, [Next]_vars, First'
             PROVE  OfferOrder'
    BY DEF OfferOrder
<1> DEFINE M == ServerOffers \cup ServerAnswers
           N == BrowserOffers \cup BrowserAnswers
<1>t. /\ TypeOK /\ First /\ conn = 1 /\ ~Reconnect
      /\ loop \in [Conns -> {"off", "start", "recv", "send", "flush"}]
      /\ held \in [Conns -> 0..MaxOffers]
      /\ 1 \in Conns /\ gate \in GateSteps
      /\ down \in Seq(M) /\ up \in [Conns -> Seq(N)] /\ up[1] \in Seq(N)
      BY FirstBefore, BoundsAssumption
      DEF IInv, TypeOK, TypeLoops, TypeGate, Conns, BoundsAssumption, TypeNet
<1>i. /\ \A c \in Conns \ {1} : loop[c] = "off"
      /\ gateLoop \in {None, 1}
      /\ gate \in ForLoop => loop[1] = "recv"
      /\ gate \in AnswerSteps => pendingInbound = None
      /\ loop[1] = "send" => pendingInbound = None
      BY <1>t DEF First, FirstLoop, IInv, SlotShape
<1>n. \A k \in Taken : k # None
      BY DEF Taken, None
<1>1. CASE \/ AddTrack \/ RemoveTrack \/ SwapEgressTrack \/ OfferSetLocal
           \/ OfferFails \/ OfferAborted \/ AnswerSetRemote \/ AnswerSetLocal
           \/ AnswerFails \/ AnswerAborted \/ Close
           \/ handleConnectionStateChange \/ UNCHANGED vars
  <2>1. /\ UNCHANGED <<up, down, nextOffer, loop, held, gateOffer>>
        /\ pendingInbound' \in {pendingInbound, None}
        /\ gate' \in AnswerSteps => gate \in AnswerSteps
        /\ gate' = "store" => gate = "store"
        BY <1>1
        DEF AddTrack, RemoveTrack, SwapEgressTrack, OfferSetLocal, OfferFails,
            OfferAborted, AnswerSetRemote, AnswerSetLocal, AnswerFails,
            AnswerAborted, Close, handleConnectionStateChange, vars,
            AnswerSteps
  <2>2. Taken' \subseteq Taken
        BY <2>1 DEF Taken, None
  <2> QED
      BY <1>t, <2>1, <2>2, OrderQuiet
<1>2. CASE RequestSubscriberOffer \/ handleNegotiationNeeded
  <2>1. /\ UNCHANGED <<up, down, nextOffer, loop, held, gateOffer,
                       pendingInbound>>
        /\ gate' \in AnswerSteps => gate \in AnswerSteps
        /\ gate' # "store"
        BY <1>2, ServerOfferCases
        DEF RequestSubscriberOffer, handleNegotiationNeeded, DriveOffer,
            StartsOffer, SkipsOffer, IInv, TypeOK, AnswerSteps
  <2>2. Taken' \subseteq Taken
        BY <2>1 DEF Taken
  <2> QED
      BY <1>t, <2>1, <2>2, OrderQuiet
<1>3. CASE AnswerReturned
  <2>1. /\ UNCHANGED <<up, down, nextOffer, pendingInbound, gateOffer>>
        /\ gate \in AnswerSteps /\ gate' = "free"
        /\ held'[1] = gateOffer
        BY <1>3, <1>t, <1>i DEF AnswerReturned, AnswerSteps
  <2>2. Taken' \subseteq Taken
        BY <2>1 DEF Taken
  <2> QED
      BY <1>t, <2>1, <2>2, OrderQuiet
<1>4. CASE OfferSend
  <2>1. /\ UNCHANGED <<up, nextOffer, loop, held, gateOffer, pendingInbound>>
        /\ gate' = "free"
        /\ Deliver(offerConn, [type |-> "offer", gen |-> localGen])
        BY <1>4 DEF OfferSend, AnswerSteps
  <2>2. Taken' \subseteq Taken /\ OffersUp' = OffersUp
        BY <2>1 DEF Taken, OffersUp
  <2>3. [type |-> "offer", gen |-> localGen] \in M
        BY <1>t DEF TypeOK, TypePC, ServerOffers
  <2>4. \A i \in AnswersDown' : i \in AnswersDown /\ down'[i] = down[i]
        BY <1>t, <2>1, <2>3, AppendParts DEF AnswersDown, Deliver
  <2>5. \A i \in AnswersDown' :
           i \in Nat /\ i + 0 \in AnswersDown /\ down'[i] = down[i + 0]
        BY <1>t, <2>4, NamesAreNumbers
  <2>6. \A i \in OffersUp' :
           i \in Nat \ {0} /\ i + 0 \in OffersUp /\ up'[1][i] = up[1][i + 0]
        BY <1>t, <2>1, <2>2, NamesAreNumbers
  <2> QED
      BY <1>t, <2>1, <2>2, <2>5, <2>6, OrderShifts
<1>5. CASE AnswerDelivered
  <2>1. /\ UNCHANGED <<up, nextOffer, loop, pendingInbound>>
        /\ gate = "gatherAnswer" /\ gate' \in {"free", "offer"}
        /\ Deliver(sender, [type |-> "answer", id |-> gateOffer])
        BY <1>5, ServerOfferCases
        DEF AnswerDelivered, FlushOffer, StartsOffer, SkipsOffer, IInv, TypeOK,
            AnswerSteps
  <2>2. gateOffer \in Taken
        BY <1>t, <2>1 DEF Taken, TypeOK, TypeGate, None, AnswerSteps
  <2>3. Taken' = {}
    <3>1. loop'[1] # "send" /\ pendingInbound' = None
          BY <1>i, <2>1 DEF ForLoop
    <3> QED
        BY <2>1, <3>1 DEF Taken, None
  <2> QED
      BY <1>t, <2>1, <2>2, <2>3, OrderAnswered
<1>6. ASSUME NEW c \in Conns, SendAnswer(c) PROVE OfferOrder'
  <2>1. c = 1 /\ loop[1] = "send"
        BY <1>6, <1>i DEF SendAnswer
  <2>2. /\ UNCHANGED <<up, nextOffer, pendingInbound, gate>>
        /\ loop'[1] # "send"
        /\ Deliver(1, [type |-> "answer", id |-> held[1]])
        BY <1>6, <1>t, <2>1 DEF SendAnswer
  <2>3. held[1] \in Taken
        BY <1>t, <2>1 DEF Taken, TypeOK, TypeLoops, None
  <2>4. Taken' = {}
        BY <1>i, <2>1, <2>2 DEF Taken, ForLoop, None
  <2> QED
      BY <1>t, <2>2, <2>3, <2>4, OrderAnswered
<1>7. ASSUME NEW c \in Conns, ProcessBrowserOffer(c) PROVE OfferOrder'
  <2>1. c = 1 /\ loop[1] = "recv"
        BY <1>7, <1>i DEF ProcessBrowserOffer, Receives
  <2>2. Receives(1, "offer") /\ UNCHANGED <<down, nextOffer, loop, held>>
        BY <1>7, <2>1 DEF ProcessBrowserOffer
  <2>3. \/ UNCHANGED <<gate, gateOffer, pendingInbound>>
        \/ gateOffer' = Head(up[1]).id /\ UNCHANGED pendingInbound
        BY <1>7, <2>1 DEF ProcessBrowserOffer
  <2>4. \A k \in Taken' : k \in Taken \/ k = Head(up[1]).id
        BY <2>1, <2>2, <2>3 DEF Taken
  <2> QED
      BY <1>t, <2>2, <2>4, OrderReceives
<1>8. ASSUME NEW c \in Conns, ProcessBrowserAnswer(c) PROVE OfferOrder'
  <2>1. c = 1 /\ loop[1] = "recv"
        BY <1>8, <1>i DEF ProcessBrowserAnswer, Receives
  <2>2. /\ Receives(1, "answer") /\ gate' = "flush"
        /\ UNCHANGED <<down, nextOffer, loop, held, gateOffer, pendingInbound>>
        BY <1>8, <2>1 DEF ProcessBrowserAnswer
  <2>3. Taken' \subseteq Taken
        BY <2>1, <2>2 DEF Taken
  <2> QED
      BY <1>t, <2>2, <2>3, OrderReceives
<1>9. ASSUME NEW c \in Conns, BrowserAnswerRejected(c) PROVE OfferOrder'
  <2>1. c = 1
        BY <1>9, <1>i DEF BrowserAnswerRejected, Receives
  <2>2. /\ Receives(1, "answer")
        /\ UNCHANGED <<down, nextOffer, loop, held, gate, gateOffer,
                       pendingInbound>>
        BY <1>9, <2>1 DEF BrowserAnswerRejected
  <2>3. Taken' \subseteq Taken
        BY <2>2 DEF Taken
  <2> QED
      BY <1>t, <2>2, <2>3, OrderReceives
<1>10. ASSUME NEW c \in Conns, FlushDeferredNegotiation(c) PROVE OfferOrder'
  <2>1. /\ c = 1 /\ loop[1] = "flush" /\ loop'[1] = "recv" /\ gate = "free"
        /\ UNCHANGED <<up, down, nextOffer, held>>
        BY <1>10, <1>t, <1>i DEF FlushDeferredNegotiation
  <2>2. \/ UNCHANGED <<gate, gateOffer, pendingInbound>>
        \/ FlushPending(sig, isNegotiating)
        BY <1>10 DEF FlushDeferredNegotiation
  <2>3. Taken' \subseteq Taken
    <3>1. CASE UNCHANGED <<gate, gateOffer, pendingInbound>>
          BY <2>1, <3>1 DEF Taken
    <3>2. CASE FlushPending(sig, isNegotiating)
          BY <1>t, <2>1, <3>2, FlushTakesNothing
          DEF TypeOK, TypeFlags, AnswerSteps
    <3> QED
        BY <2>2, <3>1, <3>2
  <2> QED
      BY <1>t, <2>1, <2>3, OrderQuiet
<1>11. ASSUME NEW c \in Conns, UpdateSignalingSender(c) PROVE OfferOrder'
  <2>1. /\ UNCHANGED <<up, down, nextOffer, held, gate, gateOffer,
                       pendingInbound>>
        /\ loop'[1] = "send" => loop[1] = "send"
        BY <1>11, <1>t DEF UpdateSignalingSender
  <2>2. Taken' \subseteq Taken
        BY <2>1 DEF Taken
  <2> QED
      BY <1>t, <2>1, <2>2, OrderQuiet
<1>12. CASE BrowserOffer
  <2>1. PICK m : m = [type |-> "offer", id |-> nextOffer]
        OBVIOUS
  <2>2. /\ up'[1] = Append(up[1], m) /\ nextOffer' = nextOffer + 1
        /\ UNCHANGED <<down, loop, held, gate, gateOffer, pendingInbound>>
        BY <1>12, <1>t, <2>1 DEF BrowserOffer
  <2>3. m \in N
        BY <1>12, <2>1, BoundsAssumption
        DEF BrowserOffer, IInv, TypeOK, TypeBrowser, BrowserOffers,
            BoundsAssumption
  <2>4. /\ DOMAIN up'[1] = DOMAIN up[1] \cup {Len(up[1]) + 1}
        /\ up'[1][Len(up[1]) + 1] = m
        /\ \A i \in DOMAIN up[1] : up'[1][i] = up[1][i] /\ i \in 1..Len(up[1])
        BY <1>t, <2>2, <2>3, AppendParts
  <2>5. /\ OffersUp' = OffersUp \cup {Len(up[1]) + 1}
        /\ \A i \in OffersUp : up'[1][i] = up[1][i] /\ i < Len(up[1]) + 1
        BY <1>t, <2>1, <2>4 DEF OffersUp
  <2>6. Taken' = Taken /\ AnswersDown' = AnswersDown
        BY <2>2 DEF Taken, AnswersDown
  <2>7. nextOffer \in Nat /\ \A i \in OffersUp : up[1][i].id \in Nat
        BY <1>t, NamesAreNumbers
  <2>8. ASSUME NEW k \in Nat, Before(k) PROVE Before(k)'
    <3>1. ASSUME NEW i, i \in OffersUp' PROVE k < up'[1][i].id
          BY <2>1, <2>4, <2>5, <2>8, <3>1 DEF Before
    <3>2. k < nextOffer'
          BY <2>2, <2>7, <2>8 DEF Before
    <3> QED
        BY <3>1, <3>2 DEF Before
  <2>9. \A i \in OffersUp' : up'[1][i].id < nextOffer'
    <3>1. \A i \in OffersUp : up[1][i].id < nextOffer
          BY <1>t DEF OfferOrder
    <3>2. up'[1][Len(up[1]) + 1].id = nextOffer
          BY <2>1, <2>4
    <3>3. \A i \in OffersUp : up'[1][i].id < nextOffer + 1
          BY <2>5, <2>7, <3>1
    <3>4. nextOffer < nextOffer + 1
          BY <2>7
    <3> QED
        BY <2>2, <2>5, <3>2, <3>3, <3>4
  <2>10. ASSUME NEW i, i \in OffersUp', NEW j, j \in OffersUp', i < j
         PROVE  up'[1][i].id < up'[1][j].id
    <3>1. i \in OffersUp
      <4>1. Len(up[1]) \in Nat /\ OffersUp \subseteq Nat
            BY <1>t, NamesAreNumbers
      <4>2. i # Len(up[1]) + 1
            BY <2>5, <2>10, <4>1
      <4> QED
          BY <2>5, <2>10, <4>2
    <3>2. CASE j \in OffersUp
          BY <1>t, <2>5, <2>10, <3>1, <3>2 DEF OfferOrder
    <3>3. CASE j = Len(up[1]) + 1
          BY <1>t, <2>1, <2>4, <2>5, <3>1, <3>3 DEF OfferOrder
    <3> QED
        BY <2>5, <2>10, <3>2, <3>3
  <2>11. \A k \in Taken' : Before(k)'
    <3>1. \A k \in Taken : k \in Nat /\ Before(k)
          BY <1>t DEF Taken, OfferOrder
    <3> QED
        BY <2>6, <2>8, <3>1
  <2>12. ASSUME NEW n, NEW i, i \in AnswersDown', n = down'[i].id
         PROVE  Before(n)' /\ \A k \in Taken' : n < k
    <3>1. n \in Nat /\ Before(n) /\ \A k \in Taken : n < k
          BY <1>t, <2>2, <2>6, <2>12, NamesAreNumbers DEF OfferOrder
    <3> QED
        BY <2>6, <2>8, <3>1
  <2>13. \A i, j \in AnswersDown' : i < j => down'[i].id < down'[j].id
         BY <1>t, <2>2, <2>6 DEF OfferOrder
  <2> QED
      BY <2>9, <2>10, <2>11, <2>12, <2>13 DEF OfferOrder
<1>13. CASE BrowserOnOffer
  <2>1. /\ down # <<>> /\ down' = Tail(down)
        /\ UNCHANGED <<nextOffer, loop, held, gate, gateOffer, pendingInbound>>
        BY <1>13 DEF BrowserOnOffer
  <2>2. PICK a \in BrowserAnswers :
           up'[1] \in {Append(up[1], a), up[1] \o <<a, a>>}
    <3>1. Head(down) \in M /\ Head(down).type = "offer"
          BY <1>13, <1>t DEF BrowserOnOffer
    <3>2. [type |-> "answer", gen |-> Head(down).gen] \in BrowserAnswers
          BY <3>1 DEF ServerOffers, ServerAnswers, BrowserAnswers
    <3> QED
        BY <1>13, <1>t, <3>2 DEF BrowserOnOffer
  <2>3. \A i \in OffersUp' :
           i \in Nat \ {0} /\ i + 0 \in OffersUp /\ up'[1][i] = up[1][i + 0]
    <3>1. a.type = "answer" /\ a \in N
          BY DEF BrowserAnswers
    <3>2. PICK r \in Seq(N) :
             up'[1] = up[1] \o r /\ \A i \in DOMAIN r : r[i] = a
      <4>1. up'[1] = up[1] \o <<a>> \/ up'[1] = up[1] \o <<a, a>>
            BY <1>t, <2>2, <3>1, AppendIsConcat
      <4>2. /\ <<a>> \in Seq(N) /\ \A i \in DOMAIN <<a>> : <<a>>[i] = a
            /\ <<a, a>> \in Seq(N) /\ \A i \in DOMAIN <<a, a>> : <<a, a>>[i] = a
        <5>1. <<a>> \in Seq(N) /\ <<a, a>> \in Seq(N)
              BY <3>1
        <5>2. \A i \in DOMAIN <<a>> : <<a>>[i] = a
              OBVIOUS
        <5>3. \A i \in DOMAIN <<a, a>> : <<a, a>>[i] = a
              OBVIOUS
        <5> QED
            BY <5>1, <5>2, <5>3
      <4> QED
          BY <4>1, <4>2
    <3>3. \A i \in DOMAIN up'[1] :
             \/ i \in DOMAIN up[1] /\ up'[1][i] = up[1][i]
             \/ up'[1][i] = a
          BY <1>t, <3>2
    <3>4. \A i \in OffersUp' : i \in OffersUp /\ up'[1][i] = up[1][i]
          BY <3>1, <3>3 DEF OffersUp
    <3> QED
        BY <1>t, <3>4, NamesAreNumbers
  <2>4. \A i \in AnswersDown' :
           i \in Nat /\ i + 1 \in AnswersDown /\ down'[i] = down[i + 1]
        BY <1>t, <2>1, TailParts DEF AnswersDown
  <2>5. Taken' = Taken
        BY <2>1 DEF Taken
  <2> QED
      BY <1>t, <2>1, <2>3, <2>4, <2>5, OrderShifts
<1>14. CASE BrowserOnAnswer
  <2>1. /\ down # <<>> /\ down' = Tail(down)
        /\ UNCHANGED <<up, nextOffer, loop, held, gate, gateOffer,
                       pendingInbound>>
        BY <1>14 DEF BrowserOnAnswer
  <2>2. Taken' = Taken /\ OffersUp' = OffersUp
        BY <2>1 DEF Taken, OffersUp
  <2>3. \A i \in OffersUp' :
           i \in Nat \ {0} /\ i + 0 \in OffersUp /\ up'[1][i] = up[1][i + 0]
        BY <1>t, <2>1, <2>2, NamesAreNumbers
  <2>4. \A i \in AnswersDown' :
           i \in Nat /\ i + 1 \in AnswersDown /\ down'[i] = down[i + 1]
        BY <1>t, <2>1, TailParts DEF AnswersDown
  <2> QED
      BY <1>t, <2>1, <2>2, <2>3, <2>4, OrderShifts
<1>15. CASE Drop
  <2>1. /\ down' = <<>>
        /\ UNCHANGED <<nextOffer, loop, held, gate, gateOffer, pendingInbound>>
        /\ \E n \in 0..Len(up[1]) : up'[1] = SubSeq(up[1], 1, n)
        BY <1>15, <1>t DEF Drop
  <2>2. \A i \in OffersUp' : i \in OffersUp /\ up'[1][i] = up[1][i]
    <3>1. PICK n \in 0..Len(up[1]) : up'[1] = SubSeq(up[1], 1, n)
          BY <2>1
    <3> QED
        BY <1>t, <3>1, PrefixParts DEF OffersUp
  <2>3. \A i \in OffersUp' :
           i \in Nat \ {0} /\ i + 0 \in OffersUp /\ up'[1][i] = up[1][i + 0]
        BY <1>t, <2>2, NamesAreNumbers
  <2>4. AnswersDown' = {} /\ Taken' = Taken
        BY <2>1 DEF AnswersDown, Taken
  <2> QED
      BY <1>t, <2>1, <2>3, <2>4, OrderShifts
<1>16. CASE StoreOffer
  <2>1. /\ UNCHANGED <<up, down, nextOffer, loop, held, gateOffer>>
        /\ pendingInbound' = gateOffer /\ gate = "store" /\ gate' = "free"
        BY <1>16 DEF StoreOffer
  <2>2. Taken' \subseteq Taken
        BY <2>1 DEF Taken
  <2> QED
      BY <1>t, <2>1, <2>2, OrderQuiet
<1>17. CASE AnswerApplied
  <2>1. /\ UNCHANGED <<up, down, nextOffer, loop, held>> /\ gate = "flush"
        /\ FlushPending(sig, FALSE)
        BY <1>17 DEF AnswerApplied
  <2>2. Taken' \subseteq Taken
        BY <1>t, <2>1, FlushTakesNothing
  <2> QED
      BY <1>t, <2>1, <2>2, OrderQuiet
<1> QED
    BY <1>t, <1>1, <1>2, <1>3, <1>4, <1>5, <1>6, <1>7, <1>8, <1>9, <1>10,
       <1>11, <1>12, <1>13, <1>14, <1>15, <1>16, <1>17
    DEF Next, Gate, Loop

(* Answers to the browser are enqueued in the order of its offers, though  *)
(* the message loop sends some outside negMu (handleOffer) and a flush     *)
(* some inside it (deliverAnswerLocked): an answer that could overtake     *)
(* another is never being made while the loop still holds one.             *)
THEOREM AnswersKeepOrder == Spec => []AnswersInOrder
<1>1. Init => FirstLoop /\ OfferOrder
  <2> SUFFICES ASSUME Init PROVE FirstLoop /\ OfferOrder
      OBVIOUS
  <2>1. FirstLoop
        BY DEF Init, FirstLoop, ForLoop
  <2>2. OffersUp = {} /\ AnswersDown = {} /\ Taken = {}
        BY BoundsAssumption
        DEF Init, OffersUp, AnswersDown, Taken, None, Conns, AnswerSteps,
            BoundsAssumption
  <2> QED
      BY <2>1, <2>2 DEF OfferOrder
<1>2. IInv /\ FirstLoop /\ OfferOrder /\ [Next]_vars
      => FirstLoop' /\ OfferOrder'
      BY FirstLoopStep, OrderStep
<1>3. Spec => [](FirstLoop /\ OfferOrder)
      BY <1>1, <1>2, GateInvariant, PTL DEF Spec
<1>4. OfferOrder => AnswersInOrder
  <2> SUFFICES ASSUME OfferOrder, First, NEW i \in DOMAIN down,
                      NEW j \in DOMAIN down, i < j,
                      down[i].type = "answer", down[j].type = "answer"
               PROVE  down[i].id < down[j].id
      BY DEF AnswersInOrder, First, AnswerRefused
  <2>1. i \in AnswersDown /\ j \in AnswersDown
        BY DEF AnswersDown
  <2> QED
      BY <2>1 DEF OfferOrder
<1> QED
    BY <1>3, <1>4, PTL
=============================================================================
