---------------------------- MODULE Negotiation ----------------------------
(***************************************************************************)
(* The negotiation gate of one server-side PeerConnection                  *)
(* (internal/webrtc/peer_connection.go), the message loops that drive it   *)
(* (internal/signaling/handler.go, handleOffer and handleAnswer), and the  *)
(* browser at the other end of the signaling WebSocket.                    *)
(*                                                                         *)
(* Every gate operation holds negMu; `gate' records how far the current    *)
(* holder has got.  AddTrack, RemoveTrack, Close and pion's state callback *)
(* take only pc.mu, so they interleave with every step of a holder.        *)
(* SDP content is abstracted to the sender-change generation it carries.   *)
(***************************************************************************)
EXTENDS Naturals, Sequences, FiniteSets

CONSTANTS MaxGen,     \* bound on negotiationGeneration
          MaxOffers,  \* bound on offers the browser makes
          MaxConns,   \* bound on successive WebSocket connections
          MaxFaults,  \* bound on pion errors on an open peer connection
          MaxDups     \* bound on answers the browser sends twice

ASSUME BoundsAssumption ==
    /\ MaxGen \in Nat /\ MaxOffers \in Nat /\ MaxFaults \in Nat
    /\ MaxDups \in Nat /\ MaxConns \in Nat \ {0}

Conns == 1..MaxConns
None  == 0            \* no browser offer, no connection

ServerOffers   == [type : {"offer"},  gen : 0..MaxGen]
ServerAnswers  == [type : {"answer"}, id : 1..MaxOffers]
BrowserOffers  == [type : {"offer"},  id : 1..MaxOffers]
BrowserAnswers == [type : {"answer"}, gen : 0..MaxGen]

VARIABLES
    pcState,            \* PeerConnection.state: "open" stands for every usable state
    sig,                \* pion's signaling state
    isNegotiating,      \* a server offer is outstanding
    pendingNegotiation, \* coalesced need for one more server offer
    pendingInbound,     \* stored browser offer, or None
    gen, lastGen,       \* negotiationGeneration, lastOfferGeneration
    localGen,           \* newest sender change the local offer carries
    sender,             \* connection the signaling sender is bound to
    gate,               \* progress of the negMu holder
    offerGen, offerConn, \* serverOfferLocked's snapshots of gen and sender
    gateOffer, gateLoop, \* browser offer being answered, and for which loop
    requested, needed,  \* waiting RequestSubscriberOffer / pion callback
    loop, held,         \* message loop of each connection, answer it holds
    conn, linkUp,       \* newest connection, whether it works
    up, down,           \* browser to server (per connection), and back
    bSig, bGen,         \* browser's signaling state, newest change it saw
    nextOffer,          \* next browser offer
    faults, dups,
    late                \* history: pion calls that failed after they took effect

flags   == <<isNegotiating, pendingNegotiation, pendingInbound>>
gens    == <<gen, lastGen, localGen>>
holder  == <<gate, offerGen, offerConn, gateOffer, gateLoop>>
wakeups == <<requested, needed>>
loops   == <<loop, held>>
net     == <<conn, linkUp, up, down>>
browser == <<bSig, bGen, nextOffer>>
budget  == <<faults, dups, late>>
vars == <<pcState, sig, flags, gens, sender, holder, wakeups, loops, net,
          browser, budget>>

GateSteps == {"free", "offer", "gatherOffer", "store", "flush",
              "answer", "answerLocal", "gatherAnswer"}

PionCalls == {"local offer", "remote offer", "local answer", "remote answer"}

TypeFlags ==
    /\ isNegotiating \in BOOLEAN /\ pendingNegotiation \in BOOLEAN
    /\ requested \in BOOLEAN /\ needed \in BOOLEAN /\ linkUp \in BOOLEAN

TypePC ==
    /\ pcState \in {"open", "failed", "closed"}
    /\ sig \in {"stable", "have-local-offer", "have-remote-offer", "closed"}
    /\ pendingInbound \in 0..MaxOffers
    /\ gen \in 0..MaxGen /\ lastGen \in 0..MaxGen /\ localGen \in 0..MaxGen
    /\ sender \in Conns

TypeGate ==
    /\ gate \in GateSteps
    /\ offerGen \in 0..MaxGen /\ offerConn \in Conns
    /\ gateOffer \in 0..MaxOffers /\ gateLoop \in 0..MaxConns
    /\ gate \in {"store", "answer", "answerLocal", "gatherAnswer"} =>
          gateOffer # None

TypeLoops ==
    /\ loop \in [Conns -> {"off", "start", "recv", "send", "flush"}]
    /\ held \in [Conns -> 0..MaxOffers]
    /\ \A c \in Conns : loop[c] = "send" => held[c] # None

TypeNet ==
    /\ conn \in Conns
    /\ up \in [Conns -> Seq(BrowserOffers \cup BrowserAnswers)]
    /\ down \in Seq(ServerOffers \cup ServerAnswers)

TypeBrowser ==
    /\ bSig \in {"stable", "have-local-offer"}
    /\ bGen \in 0..MaxGen
    /\ nextOffer \in 1..(MaxOffers + 1)
    /\ faults \in 0..MaxFaults /\ dups \in 0..MaxDups
    /\ late \subseteq PionCalls

TypeOK == TypeFlags /\ TypePC /\ TypeGate /\ TypeLoops /\ TypeNet /\ TypeBrowser

(* A fresh peer connection, created by ensurePeerConnection for the first *)
(* connection, whose message loop is about to receive.                    *)
Init ==
    /\ pcState = "open" /\ sig = "stable"
    /\ isNegotiating = FALSE /\ pendingNegotiation = FALSE
    /\ pendingInbound = None
    /\ gen = 0 /\ lastGen = 0 /\ localGen = 0
    /\ sender = 1
    /\ gate = "free" /\ offerGen = 0 /\ offerConn = 1
    /\ gateOffer = None /\ gateLoop = None
    /\ requested = FALSE /\ needed = FALSE
    /\ loop = [c \in Conns |-> IF c = 1 THEN "recv" ELSE "off"]
    /\ held = [c \in Conns |-> None]
    /\ conn = 1 /\ linkUp = TRUE
    /\ up = [c \in Conns |-> <<>>] /\ down = <<>>
    /\ bSig = "stable" /\ bGen = 0 /\ nextOffer = 1
    /\ faults = 0 /\ dups = 0 /\ late = {}

(* conn.Send on connection c: an error, and nothing sent, once c is gone. *)
Deliver(c, m) ==
    down' = IF c = conn /\ linkUp THEN Append(down, m) ELSE down

(* External: a pion call returns an error, always on a closed peer        *)
(* connection and at most MaxFaults times on a live one.  SetLocal and    *)
(* SetRemote may fail before they move the signaling state to s or after  *)
(* it (an answer whose codecs do not fit the senders is installed first   *)
(* and refused then: the comment on SwapEgressTrack).                     *)
PionFails(call, s) ==
    \/ sig = "closed" /\ UNCHANGED <<sig, budget>>
    \/ /\ sig # "closed" /\ faults < MaxFaults
       /\ faults' = faults + 1 /\ UNCHANGED dups
       /\ \/ UNCHANGED <<sig, late>>
          \/ sig' = s /\ late' = late \cup {call}

-----------------------------------------------------------------------------
(* Sender changes.  Each bumps the generation under pc.mu; the caller of   *)
(* AddTrack starts RequestSubscriberOffer, and pion schedules its          *)
(* negotiation-needed callback after every change.                         *)

AddTrack ==
    /\ pcState = "open" /\ gen < MaxGen
    /\ gen' = gen + 1
    /\ requested' = TRUE /\ needed' = TRUE
    /\ UNCHANGED <<pcState, sig, flags, lastGen, localGen, sender, holder,
                   loops, net, browser, budget>>

RemoveTrack ==
    /\ pcState = "open" /\ gen < MaxGen
    /\ gen' = gen + 1
    /\ needed' = TRUE
    /\ UNCHANGED <<pcState, sig, flags, lastGen, localGen, sender, holder,
                   requested, loops, net, browser, budget>>

(* RemoveTrack (which may find nothing to remove) and AddTrack, as one     *)
(* holder of negMu.                                                        *)
SwapEgressTrack ==
    /\ gate = "free" /\ pcState = "open"
    /\ \E n \in {1, 2} : gen + n <= MaxGen /\ gen' = gen + n
    /\ needed' = TRUE
    /\ UNCHANGED <<pcState, sig, flags, lastGen, localGen, sender, holder,
                   requested, loops, net, browser, budget>>

-----------------------------------------------------------------------------
(* Mutated: the generation guard is dropped, so an unchanged peer          *)
(* connection is offered again.                                            *)
ServerOffer_NoGuard(s) ==
    LET start == pcState = "open" /\ s = "stable"
    IN  /\ gate' = IF start THEN "offer" ELSE "free"
        /\ isNegotiating' = start
        /\ pendingNegotiation' = (pcState = "open" /\ s # "stable")
        /\ offerGen'  = IF start THEN gen ELSE offerGen
        /\ offerConn' = IF start THEN sender ELSE offerConn

(* serverOfferLocked up to its release of pc.mu, called with signaling     *)
(* state s and isNegotiating false.                                        *)

ServerOffer(s) ==
    LET start == pcState = "open" /\ s = "stable" /\ lastGen # gen
    IN  /\ gate' = IF start THEN "offer" ELSE "free"
        /\ isNegotiating' = start
        /\ pendingNegotiation' = CASE pcState # "open" -> pendingNegotiation
                                   [] s # "stable"     -> TRUE
                                   [] OTHER            -> FALSE
        /\ offerGen'  = IF start THEN gen ELSE offerGen
        /\ offerConn' = IF start THEN sender ELSE offerConn

(* The second half of flushPendingLocked: at most one coalesced offer.     *)
(* n is the current value of isNegotiating.                                *)
FlushOffer(s, n) ==
    IF pendingNegotiation /\ pcState = "open" /\ s = "stable" /\ ~n
    THEN ServerOffer(s)
    ELSE /\ gate' = "free" /\ isNegotiating' = n
         /\ pendingNegotiation' = (pendingNegotiation /\ pcState = "open")
         /\ UNCHANGED <<offerGen, offerConn>>

(* Mutated: the stored offer is answered and left in its slot.             *)
FlushPending_KeepsStored(s, n) ==
    \/ /\ pendingInbound # None /\ s = "stable"
       /\ gate' = "answer" /\ gateOffer' = pendingInbound /\ gateLoop' = None
       /\ isNegotiating' = n
       /\ UNCHANGED <<pendingNegotiation, pendingInbound, offerGen, offerConn>>
    \/ /\ ~(pendingInbound # None /\ s = "stable")
       /\ FlushOffer(s, n)
       /\ UNCHANGED <<pendingInbound, gateOffer, gateLoop>>

(* Mutated: only the coalesced offer is flushed.                           *)
FlushPending_SkipsStored(s, n) ==
    /\ FlushOffer(s, n)
    /\ UNCHANGED <<pendingInbound, gateOffer, gateLoop>>

(* flushPendingLocked: the stored browser offer first, restored if the     *)
(* peer connection is not stable; the answer exchange is the next gate     *)
(* step.                                                                   *)
FlushPending(s, n) ==
    \/ /\ pendingInbound # None /\ s = "stable"
       /\ pendingInbound' = None
       /\ gate' = "answer" /\ gateOffer' = pendingInbound /\ gateLoop' = None
       /\ isNegotiating' = n
       /\ UNCHANGED <<pendingNegotiation, offerGen, offerConn>>
    \/ /\ pendingInbound # None /\ s # "stable"
       /\ gate' = "free" /\ isNegotiating' = n
       /\ UNCHANGED <<pendingNegotiation, pendingInbound, offerGen, offerConn,
                      gateOffer, gateLoop>>
    \/ /\ pendingInbound = None
       /\ FlushOffer(s, n)
       /\ UNCHANGED <<pendingInbound, gateOffer, gateLoop>>

(* Mutated: a busy gate drops the need instead of coalescing it.           *)
DriveOffer_NoCoalesce ==
    /\ gate = "free"
    /\ IF pcState = "open" /\ ~isNegotiating /\ sig = "stable"
       THEN ServerOffer(sig) /\ UNCHANGED <<pendingInbound, gateOffer, gateLoop>>
       ELSE UNCHANGED <<flags, holder>>

(* The gate shared by RequestSubscriberOffer and handleNegotiationNeeded.  *)
DriveOffer ==
    /\ gate = "free"
    /\ \/ pcState # "open" /\ UNCHANGED <<flags, holder>>
       \/ /\ pcState = "open" /\ (isNegotiating \/ sig # "stable")
          /\ pendingNegotiation' = TRUE
          /\ UNCHANGED <<isNegotiating, pendingInbound, holder>>
       \/ /\ pcState = "open" /\ ~isNegotiating /\ sig = "stable"
          /\ ServerOffer(sig)
          /\ UNCHANGED <<pendingInbound, gateOffer, gateLoop>>

RequestSubscriberOffer ==
    /\ requested /\ requested' = FALSE
    /\ DriveOffer
    /\ UNCHANGED <<pcState, sig, gens, sender, needed, loops, net, browser,
                   budget>>

handleNegotiationNeeded ==
    /\ needed /\ needed' = FALSE
    /\ DriveOffer
    /\ UNCHANGED <<pcState, sig, gens, sender, requested, loops, net, browser,
                   budget>>

-----------------------------------------------------------------------------
(* The rest of serverOfferLocked. *)

(* CreateOffer and SetLocalDescription succeed.  The offer carries every   *)
(* sender attached by now, the generation recorded is the earlier snapshot. *)
OfferSetLocal ==
    /\ gate = "offer" /\ sig = "stable"
    /\ sig' = "have-local-offer" /\ gate' = "gatherOffer"
    /\ lastGen' = offerGen /\ localGen' = gen
    /\ UNCHANGED <<pcState, flags, gen, sender, offerGen, offerConn, gateOffer,
                   gateLoop, wakeups, loops, net, browser, budget>>

(* Mutated: the error path leaves isNegotiating set.                       *)
OfferFails_KeepsFlag ==
    /\ gate = "offer"
    /\ PionFails("local offer", "have-local-offer")
    /\ gate' = "free" /\ pendingNegotiation' = TRUE
    /\ UNCHANGED <<pcState, isNegotiating, pendingInbound, gens, sender,
                   offerGen, offerConn, gateOffer, gateLoop, wakeups, loops,
                   net, browser>>

(* CreateOffer or SetLocalDescription returns an error: the closure `fail' *)
(* resets the flag and re-arms the need.                                   *)
OfferFails ==
    /\ gate = "offer"
    /\ PionFails("local offer", "have-local-offer")
    /\ gate' = "free"
    /\ isNegotiating' = FALSE /\ pendingNegotiation' = TRUE
    /\ UNCHANGED <<pcState, pendingInbound, gens, sender, offerGen,
                   offerConn, gateOffer, gateLoop, wakeups, loops, net,
                   browser>>

(* Mutated: a send that succeeded is retried.                              *)
OfferSend_Twice ==
    /\ gate = "gatherOffer" /\ gate' = "free"
    /\ LET offer == [type |-> "offer", gen |-> localGen]
       IN  down' = IF offerConn = conn /\ linkUp
                   THEN down \o <<offer, offer>> ELSE down
    /\ UNCHANGED <<pcState, sig, flags, gens, sender, offerGen, offerConn,
                   gateOffer, gateLoop, wakeups, loops, conn, linkUp, up,
                   browser, budget>>

(* Gathering completes and the offer goes to the snapshotted sender; a     *)
(* send error is only logged.                                              *)
OfferSend ==
    /\ gate = "gatherOffer" /\ gate' = "free"
    /\ Deliver(offerConn, [type |-> "offer", gen |-> localGen])
    /\ UNCHANGED <<pcState, sig, flags, gens, sender, offerGen, offerConn,
                   gateOffer, gateLoop, wakeups, loops, conn, linkUp, up,
                   browser, budget>>

(* Close cancels the wait for gathering; `fail' re-arms the need. *)
OfferAborted ==
    /\ gate = "gatherOffer" /\ pcState = "closed" /\ gate' = "free"
    /\ isNegotiating' = FALSE /\ pendingNegotiation' = TRUE
    /\ UNCHANGED <<pcState, sig, pendingInbound, gens, sender, offerGen,
                   offerConn, gateOffer, gateLoop, wakeups, loops, net,
                   browser, budget>>

-----------------------------------------------------------------------------
(* answerExchangeLocked: SetRemote(offer), CreateAnswer and                *)
(* SetLocal(answer), gather.                                               *)

AnswerSetRemote ==
    /\ gate = "answer" /\ sig = "stable"
    /\ sig' = "have-remote-offer" /\ gate' = "answerLocal"
    /\ UNCHANGED <<pcState, flags, gens, sender, offerGen, offerConn,
                   gateOffer, gateLoop, wakeups, loops, net, browser, budget>>

AnswerSetLocal ==
    /\ gate = "answerLocal" /\ sig = "have-remote-offer"
    /\ sig' = "stable" /\ gate' = "gatherAnswer"
    /\ UNCHANGED <<pcState, flags, gens, sender, offerGen, offerConn,
                   gateOffer, gateLoop, wakeups, loops, net, browser, budget>>

(* Either pion step fails: handleOffer reports it, flushPendingLocked logs *)
(* it, and both return without flushing anything else.                     *)
AnswerFails ==
    /\ \/ gate = "answer" /\ PionFails("remote offer", "have-remote-offer")
       \/ gate = "answerLocal" /\ PionFails("local answer", "stable")
    /\ gate' = "free"
    /\ UNCHANGED <<pcState, flags, gens, sender, offerGen, offerConn,
                   gateOffer, gateLoop, wakeups, loops, net, browser>>

(* ProcessBrowserOffer returns the answer to the message loop that called  *)
(* it, and releases negMu.                                                 *)
AnswerReturned ==
    /\ gate = "gatherAnswer" /\ gateLoop # None /\ gate' = "free"
    /\ loop' = [loop EXCEPT ![gateLoop] = "send"]
    /\ held' = [held EXCEPT ![gateLoop] = gateOffer]
    /\ UNCHANGED <<pcState, sig, flags, gens, sender, offerGen, offerConn,
                   gateOffer, gateLoop, wakeups, net, browser, budget>>

(* deliverAnswerLocked over the current sender, then the coalesced offer.  *)
AnswerDelivered ==
    /\ gate = "gatherAnswer" /\ gateLoop = None
    /\ Deliver(sender, [type |-> "answer", id |-> gateOffer])
    /\ FlushOffer(sig, isNegotiating)
    /\ UNCHANGED <<pcState, sig, pendingInbound, gens, sender, gateOffer,
                   gateLoop, wakeups, loops, conn, linkUp, up, browser, budget>>

(* Close cancels the wait for gathering. *)
AnswerAborted ==
    /\ gate = "gatherAnswer" /\ pcState = "closed" /\ gate' = "free"
    /\ UNCHANGED <<pcState, sig, flags, gens, sender, offerGen, offerConn,
                   gateOffer, gateLoop, wakeups, loops, net, browser, budget>>

-----------------------------------------------------------------------------
(* The message loop of connection c. *)

Receives(c, t) ==
    /\ loop[c] = "recv" /\ gate = "free"
    /\ up[c] # <<>> /\ Head(up[c]).type = t
    /\ up' = [up EXCEPT ![c] = Tail(@)]

(* handleOffer up to the start of the answer exchange, to the decision to  *)
(* store the offer, or to the error of ProcessBrowserOffer.                *)
ProcessBrowserOffer(c) ==
    /\ Receives(c, "offer")
    /\ LET offer == Head(up[c]).id IN
       \/ /\ pcState = "open" /\ sig = "stable"
          /\ gate' = "answer" /\ gateOffer' = offer /\ gateLoop' = c
          /\ UNCHANGED <<flags, offerGen, offerConn>>
       \/ /\ pcState = "open" /\ sig = "have-local-offer"
          /\ gate' = "store" /\ gateOffer' = offer /\ gateLoop' = c
          /\ UNCHANGED <<flags, offerGen, offerConn>>
       \/ /\ pcState # "open" \/ sig \notin {"stable", "have-local-offer"}
          /\ UNCHANGED <<flags, holder>>
    /\ UNCHANGED <<pcState, sig, gens, sender, wakeups, loops, conn, linkUp,
                   down, browser, budget>>

(* The rest of the store: the signaling state was read without pc.mu, so   *)
(* the peer connection may be closed by now.                               *)
StoreOffer ==
    /\ gate = "store" /\ gate' = "free"
    /\ pendingInbound' = gateOffer
    /\ UNCHANGED <<pcState, sig, isNegotiating, pendingNegotiation, gens,
                   sender, offerGen, offerConn, gateOffer, gateLoop, wakeups,
                   loops, net, browser, budget>>

(* handleAnswer when a server offer is outstanding: SetRemote(answer).     *)
ProcessBrowserAnswer(c) ==
    /\ Receives(c, "answer")
    /\ pcState = "open" /\ sig = "have-local-offer"
    /\ sig' = "stable" /\ gate' = "flush"
    /\ UNCHANGED <<pcState, flags, gens, sender, offerGen, offerConn, gateOffer,
                   gateLoop, wakeups, loops, conn, linkUp, down, browser, budget>>

(* Mutated: the answer is applied and nothing is flushed.                  *)
AnswerApplied_NoFlush ==
    /\ gate = "flush" /\ gate' = "free"
    /\ isNegotiating' = FALSE
    /\ UNCHANGED <<pcState, sig, pendingNegotiation, pendingInbound, gens,
                   sender, offerGen, offerConn, gateOffer, gateLoop, wakeups,
                   loops, net, browser, budget>>

(* The rest of ProcessBrowserAnswer: the flag falls and deferred work is   *)
(* flushed, whatever Close or a failure did since.                         *)
AnswerApplied ==
    /\ gate = "flush"
    /\ FlushPending(sig, FALSE)
    /\ UNCHANGED <<pcState, sig, gens, sender, wakeups, loops, net, browser,
                   budget>>

(* handleAnswer otherwise: closed, no pending offer, or pion returns an    *)
(* error.  Then the flag is not reset and nothing is flushed, though pion  *)
(* may be stable again.                                                    *)
BrowserAnswerRejected(c) ==
    /\ Receives(c, "answer")
    /\ \/ /\ pcState # "open" \/ sig # "have-local-offer"
          /\ UNCHANGED <<sig, budget>>
       \/ /\ pcState = "open" /\ sig = "have-local-offer"
          /\ PionFails("remote answer", "stable")
    /\ UNCHANGED <<pcState, flags, gens, sender, holder, wakeups, loops,
                   conn, linkUp, down, browser>>

(* handleOffer sends the inline answer on its own connection and flushes   *)
(* only if Send succeeds.  On a closed connection Send picks between its   *)
(* buffer and the error at random.                                         *)
SendAnswer(c) ==
    /\ loop[c] = "send"
    /\ Deliver(c, [type |-> "answer", id |-> held[c]])
    /\ \/ loop' = [loop EXCEPT ![c] = "flush"]
       \/ ~(c = conn /\ linkUp) /\ loop' = [loop EXCEPT ![c] = "recv"]
    /\ UNCHANGED <<pcState, sig, flags, gens, sender, holder, wakeups, held,
                   conn, linkUp, up, browser, budget>>

FlushDeferredNegotiation(c) ==
    /\ loop[c] = "flush" /\ gate = "free"
    /\ loop' = [loop EXCEPT ![c] = "recv"]
    /\ \/ pcState # "open" /\ UNCHANGED <<flags, holder>>
       \/ pcState = "open" /\ FlushPending(sig, isNegotiating)
    /\ UNCHANGED <<pcState, sig, gens, sender, wakeups, held, net, browser,
                   budget>>

(* ensurePeerConnection on reconnect: a usable peer connection is kept and *)
(* only its signaling sender is swapped; then the message loop starts.     *)
UpdateSignalingSender(c) ==
    /\ loop[c] = "start" /\ pcState = "open"
    /\ sender' = c
    /\ loop' = [loop EXCEPT ![c] = "recv"]
    /\ UNCHANGED <<pcState, sig, flags, gens, holder, wakeups, held, net,
                   browser, budget>>

-----------------------------------------------------------------------------
(* End of the peer connection.  Both hold only pc.mu. *)

Close ==
    /\ pcState # "closed"
    /\ pcState' = "closed" /\ sig' = "closed"
    /\ isNegotiating' = FALSE /\ pendingNegotiation' = FALSE
    /\ pendingInbound' = None
    /\ UNCHANGED <<gens, sender, holder, wakeups, loops, net, browser, budget>>

handleConnectionStateChange ==
    /\ pcState = "open" /\ pcState' = "failed"
    /\ UNCHANGED <<sig, flags, gens, sender, holder, wakeups, loops, net,
                   browser, budget>>

-----------------------------------------------------------------------------
(* External: the browser, and the WebSocket between the two. *)

(* The browser offers its own media, possibly again before the answer. *)
BrowserOffer ==
    /\ linkUp /\ nextOffer <= MaxOffers
    /\ bSig' = "have-local-offer" /\ nextOffer' = nextOffer + 1
    /\ up' = [up EXCEPT ![conn] =
                Append(@, [type |-> "offer", id |-> nextOffer])]
    /\ UNCHANGED <<pcState, sig, flags, gens, sender, holder, wakeups, loops,
                   conn, linkUp, down, bGen, budget>>

(* A server offer: answered at once, rolling back an offer of its own. *)
BrowserOnOffer ==
    /\ linkUp /\ down # <<>> /\ Head(down).type = "offer"
    /\ LET answer == [type |-> "answer", gen |-> Head(down).gen] IN
       \/ /\ up' = [up EXCEPT ![conn] = Append(@, answer)]
          /\ UNCHANGED budget
       \/ /\ dups < MaxDups /\ dups' = dups + 1 /\ UNCHANGED <<faults, late>>
          /\ up' = [up EXCEPT ![conn] = @ \o <<answer, answer>>]
    /\ bSig' = "stable" /\ bGen' = Head(down).gen
    /\ down' = Tail(down)
    /\ UNCHANGED <<pcState, sig, flags, gens, sender, holder, wakeups, loops,
                   conn, linkUp, nextOffer>>

(* The answer to its own offer; lost when it has none outstanding. *)
BrowserOnAnswer ==
    /\ linkUp /\ down # <<>> /\ Head(down).type = "answer"
    /\ bSig' = "stable" /\ down' = Tail(down)
    /\ UNCHANGED <<pcState, sig, flags, gens, sender, holder, wakeups, loops,
                   conn, linkUp, up, bGen, nextOffer, budget>>

(* The socket breaks: what the server has not read or sent yet is lost.    *)
Drop ==
    /\ linkUp /\ conn < MaxConns
    /\ linkUp' = FALSE /\ down' = <<>>
    /\ \E n \in 0..Len(up[conn]) :
          up' = [up EXCEPT ![conn] = SubSeq(@, 1, n)]
    /\ UNCHANGED <<pcState, sig, flags, gens, sender, holder, wakeups, loops,
                   conn, browser, budget>>

Reconnect ==
    /\ ~linkUp /\ conn < MaxConns
    /\ conn' = conn + 1 /\ linkUp' = TRUE
    /\ loop' = [loop EXCEPT ![conn + 1] = "start"]
    /\ UNCHANGED <<pcState, sig, flags, gens, sender, holder, wakeups, held,
                   up, down, browser, budget>>

-----------------------------------------------------------------------------
Gate == \/ OfferSetLocal \/ OfferFails \/ OfferSend \/ OfferAborted
        \/ AnswerSetRemote \/ AnswerSetLocal \/ AnswerFails
        \/ AnswerReturned \/ AnswerDelivered \/ AnswerAborted
        \/ StoreOffer \/ AnswerApplied

Loop(c) == \/ ProcessBrowserOffer(c) \/ ProcessBrowserAnswer(c)
           \/ BrowserAnswerRejected(c) \/ SendAnswer(c)
           \/ FlushDeferredNegotiation(c) \/ UpdateSignalingSender(c)

Next == \/ AddTrack \/ RemoveTrack \/ SwapEgressTrack
        \/ RequestSubscriberOffer \/ handleNegotiationNeeded
        \/ Gate
        \/ \E c \in Conns : Loop(c)
        \/ Close \/ handleConnectionStateChange
        \/ BrowserOffer \/ BrowserOnOffer \/ BrowserOnAnswer
        \/ Drop \/ Reconnect

Spec == Init /\ [][Next]_vars

(* The goroutines of the server are scheduled, a mutex is granted, and the *)
(* browser and the network keep serving what reaches them.                 *)
Fairness ==
    /\ WF_vars(RequestSubscriberOffer) /\ WF_vars(handleNegotiationNeeded)
    /\ WF_vars(Gate) /\ \A c \in Conns : WF_vars(Loop(c))
    /\ WF_vars(BrowserOnOffer) /\ WF_vars(BrowserOnAnswer)
    /\ WF_vars(Reconnect)

FairSpec == Spec /\ Fairness

-----------------------------------------------------------------------------
(* Whenever negMu is free on a live peer connection, isNegotiating says    *)
(* exactly that a server offer is outstanding, but for the two pion errors *)
(* that move the signaling state behind the flag's back: the flag stays    *)
(* set on a stable peer connection, and defers every later offer for ever, *)
(* only after SetRemoteDescription failed on an answer it had installed;   *)
(* it is down with an offer pending only after SetLocalDescription failed  *)
(* on an offer it had installed.  No other error path, no Close and no     *)
(* answer sent twice does either.                                          *)
NegotiatingIffOffered ==
    gate = "free" /\ sig # "closed" =>
        /\ isNegotiating => sig = "have-local-offer" \/ "remote answer" \in late
        /\ sig = "have-local-offer" => isNegotiating \/ "local offer" \in late

(* On a live peer connection a browser offer is stored only behind an      *)
(* outstanding server offer, or while the flush that takes it is still to  *)
(* come (ProcessBrowserOffer: "stored, never dropped"); pion failing on an *)
(* answer it had installed is the one way to pass the flush by.  An offer  *)
(* stored while Close runs stays on a peer connection that is closed.      *)
StoredBehindOffer ==
    pendingInbound # None =>
        \/ sig \in {"have-local-offer", "closed"}
        \/ gate = "flush"
        \/ "remote answer" \in late

(* As long as pion has not failed, every sender change that no server      *)
(* offer was made for still has something that will offer it: a waiting    *)
(* goroutine, an offer being created, or the coalesced flag on a path that *)
(* ends in flushPendingLocked.  No AddTrack in the middle of an offer, and *)
(* no coalesced trigger, is lost.                                          *)
ChangeNotForgotten ==
    pcState = "open" /\ faults = 0 /\ lastGen # gen =>
        \/ requested \/ needed
        \/ gate = "offer"
        \/ pendingNegotiation /\ (sig = "have-local-offer" \/ gate = "flush")
        \/ pendingNegotiation /\ gate # "free" /\ gateLoop = None

(* At most one server offer is on its way to being answered, counting the  *)
(* offers in flight and the answers in flight on every connection, and     *)
(* while there is one the peer connection is waiting for it; as long as    *)
(* the browser has answered each offer once.                               *)
InFlight ==
    Cardinality({i \in DOMAIN down : down[i].type = "offer"})
    + Cardinality({ci \in UNION {{c} \X DOMAIN up[c] : c \in Conns} :
                     up[ci[1]][ci[2]].type = "answer"})

OneOutstandingOffer ==
    dups = 0 /\ InFlight > 0 =>
        InFlight = 1 /\ sig \in {"have-local-offer", "closed"}

(* On one connection, answers to the browser are enqueued in the order of  *)
(* its offers, though some are sent by the message loop outside negMu and  *)
(* some by a flush inside it; unless pion failed on an answer it had       *)
(* installed, which leaves a stored offer behind for a later flush.        *)
AnswersInOrder ==
    conn = 1 /\ "remote answer" \notin late => \A i, j \in DOMAIN down :
        i < j /\ down[i].type = "answer" /\ down[j].type = "answer" =>
            down[i].id < down[j].id

(* The connection has never broken, pion has not failed, and the peer      *)
(* connection lives.                                                       *)
Steady == pcState = "open" /\ conn = 1 /\ linkUp /\ faults = 0

(* A stored browser offer does not stay stored: the server offer it waits  *)
(* behind is answered and the flush takes it, though answers may come      *)
(* twice, as long as the connection is steady.                             *)
StoredOfferAnswered ==
    pendingInbound # None ~> (pendingInbound = None \/ ~Steady)

(* On a steady connection the browser has in the end been offered every    *)
(* sender change, the ones coalesced into a later offer too.               *)
SteadyCatchesUp == <>[](Steady => bGen = gen)

(* The browser has been offered every sender change in the end, on         *)
(* whichever connection.                                                   *)
BrowserCatchesUp == <>[](pcState # "open" \/ bGen = gen)

(* The gate implements the abstract offer/answer exchange.                 *)
Exchange == INSTANCE OfferExchange WITH
    exchange <- CASE sig = "stable"            -> "none"
                  [] sig = "have-local-offer"  -> "server"
                  [] sig = "have-remote-offer" -> "browser"
                  [] OTHER                     -> "closed",
    changed <- gen,
    offered <- lastGen

ImplementsExchange == Exchange!Spec
=============================================================================
