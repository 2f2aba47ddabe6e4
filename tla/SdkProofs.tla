----------------------------- MODULE SdkProofs ------------------------------
(***************************************************************************)
(* Theorems about Sdk, for any sessions and requests, any capacity of the  *)
(* channels and of the sockets, and any number of faults.                  *)
(***************************************************************************)
EXTENDS Sdk, SequenceTheorems, TLAPS

Frames == [kind : {"note", "ok", "error"}, id : Ids \cup {Nothing}]
Loops  == [at : {"none", "join", "cast", "reply", "recv", "busy", "exit", "done"},
           id : Ids \cup {Nothing}, kind : {"ok", "error"}, todo : SUBSET Sess]

(* The types of the sessions and of the client ...                         *)
CallTypes ==
    /\ client \in {"open", "sessions", "server", "done"}
    /\ sessions \subseteq Sess
    /\ conn \in [Sess -> {"idle", "dial", "join", "register", "open", "failed"}]
    /\ ws \in [Sess -> {"none", "open", "closed"}]
    /\ dead \in [Sess -> SUBSET {"up", "down"}]
    /\ leaving \in [Sess -> {"no", "transport", "done"}]
    /\ req \in [Reqs -> {"idle", "wait", "write", "read", "ok", "error", "failed"}]
    /\ DOMAIN got = Ids

(* ... and of what is on its way between them and the server.              *)
PipeTypes ==
    /\ up \in [Sess -> Seq(Reqs)] /\ receive \in [Sess -> Seq(Reqs)]
    /\ send \in [Sess -> Seq(Frames)] /\ down \in [Sess -> Seq(Frames)]
    /\ loop \in [Sess -> Loops]

(* Client.Close closes the transport of every session that has one, but    *)
(* for those whose own Close has unregistered them.                        *)
Transports ==
    /\ \A s \in sessions : conn[s] = "open"
    /\ client \in {"server", "done"} => sessions = {}
    /\ \A s \in Sess : conn[s] = "open" =>
          ws[s] = "closed" \/ leaving[s] = "transport" \/ s \in sessions

(* A session that has not dialled has nothing on its way.                  *)
Undialled ==
    /\ \A s \in Sess : conn[s] \in {"idle", "dial"} => ws[s] = "none"
    /\ \A s \in Sess : ws[s] = "none" =>
          /\ up[s] = <<>> /\ receive[s] = <<>> /\ send[s] = <<>> /\ down[s] = <<>>
          /\ loop[s] = NoLoop /\ s \notin reg

(* Session.mu: one request of a session is on its round trip, and only     *)
(* once Connect has returned.                                              *)
Serial ==
    /\ \A r \in Reqs : req[r] # "idle" => conn[On[r]] = "open"
    /\ \A q, r \in Reqs :
          /\ On[q] = On[r]
          /\ req[q] \in {"write", "read"} /\ req[r] \in {"write", "read"}
          => q = r

(* What the message loop handles is a request, and the answer to a         *)
(* handshake is its last step.                                             *)
Sound(s, l) == /\ l.at = "busy" => l.id \in Reqs
               /\ l.at = "reply" /\ l.id = s => l.todo = {}
LoopIds == \A s \in Sess : Sound(s, loop[s])

-----------------------------------------------------------------------------
(* The round trip.  The call a message loop l of session s has to answer:  *)
(* the handshake until that has been answered, then a request.             *)
InLoop(s, l) ==
    IF l.at \in {"none", "join"} THEN {s}
    ELSE IF l.at \in {"busy", "reply"} THEN {l.id}
    ELSE IF l.at = "cast" /\ l.id = s THEN {s}
    ELSE {}

Listed(q)   == {q[k] : k \in DOMAIN q}
Answered(q) == {q[k].id : k \in {j \in DOMAIN q : q[j].kind # "note"}}
Quiet(q)    == \A k \in DOMAIN q : q[k].kind = "note"
Single(q)   == \A j, k \in DOMAIN q : q[j].kind # "note" /\ q[k].kind # "note" => j = k

(* Of the socket u, receiveChan r, the message loop l, sendChan a and the  *)
(* socket d back, one holds a call or its answer, and holds one.           *)
Stages == {"up", "receive", "loop", "send", "down"}
One(s, u, r, l, a, d) ==
    \E w \in Stages : /\ u # <<>> => w = "up" /\ Len(u) = 1
                      /\ r # <<>> => w = "receive" /\ Len(r) = 1
                      /\ InLoop(s, l) # {} => w = "loop"
                      /\ ~Quiet(a) => w = "send" /\ Single(a)
                      /\ ~Quiet(d) => w = "down" /\ Single(d)

Pending(s, u, r, l, a, d) ==
    Listed(u) \cup Listed(r) \cup InLoop(s, l) \cup Answered(a) \cup Answered(d)

(* The session can still read answers.                                     *)
Live(s) == ws[s] = "open" /\ "down" \notin dead[s]

(* While it can, one call is on its way at most, and it is the one that is *)
(* waited for.                                                             *)
Pipe(s) ==
    Live(s) => /\ One(s, up[s], receive[s], loop[s], send[s], down[s])
               /\ \A i \in Pending(s, up[s], receive[s], loop[s], send[s], down[s]) :
                     Awaits(s, i)

SdkInv == /\ CallTypes /\ PipeTypes
          /\ Transports /\ Undialled /\ Serial /\ LoopIds
          /\ (\A s \in Sess : Pipe(s))
          /\ OwnReply
-----------------------------------------------------------------------------
(* What the steps leave alone.                                             *)

(* The steps of the server ...                                             *)
Server(s) == \/ Serving(s) \/ HandleMessage(s)
             \/ Reading(s) \/ ReadTimeout(s) \/ Writing(s)

(* ... of the calls that open and close sessions ...                       *)
Opens(s) == \/ ConnectBegin(s) \/ Dial(s) \/ RegisterSession(s)
            \/ SessionClose(s) \/ CloseSession(s)

(* ... of a call that waits for its answer, or gives up ...                *)
Ends(s, i) == Await(s, i) \/ AwaitFails(s, i) \/ Timeout(s, i)

(* ... and of a request before that.                                       *)
Trips(r) == Request(r) \/ Lock(r) \/ Write(r) \/ WriteFails(r)

(* Every other step is Client.Close's.                                     *)
LEMMA Steps ==
    ASSUME [Next]_vars
    PROVE  \/ \E s \in Sess : Opens(s)
           \/ \E s \in Sess, i \in Ids : Ends(s, i)
           \/ \E r \in Reqs : Trips(r)
           \/ \E s \in Sess : Server(s)
           \/ CloseBegin \/ CloseServer \/ CloseAll
           \/ UNCHANGED vars
<1>1. CASE \E s \in Sess : Server(s) \/ ConnectBegin(s) \/ SessionClose(s)
  BY <1>1 DEF Opens
<1>2. CASE \E s \in Sess : Connecting(s) \/ \E i \in Ids : Timeout(s, i)
  BY <1>2 DEF Connecting, Opens, Ends, Ids
<1>3. CASE \E r \in Reqs : Request(r) \/ RoundTrip(r)
  BY <1>3, SdkAssumption DEF RoundTrip, Trips, Ends, Ids
<1>4. CASE CloseBegin \/ Closing
  BY <1>4 DEF Closing, Opens
<1> QED
  BY <1>1, <1>2, <1>3, <1>4, Zenon DEF Next, Server

(* The server does not touch the client and its sessions.                  *)
LEMMA ServerKeeps ==
    ASSUME NEW s \in Sess, Server(s)
    PROVE  UNCHANGED <<client, sessions, listening, conn, ws, dead, leaving, req, got>>
<1> USE DEF clientVars, sessVars, Handled
<1>1. CASE Add(s) \/ Join(s) \/ Receive(s) \/ Reply(s) \/ LoopEnds(s) \/ Exit(s)
  BY <1>1 DEF Add, Join, Receive, Reply, LoopEnds, Exit
<1>2. CASE (\E t \in Sess : Cast(s, t)) \/ HandleMessage(s)
  BY <1>2 DEF Cast, HandleMessage
<1>3. CASE Reading(s) \/ ReadTimeout(s) \/ Writing(s)
  BY <1>3 DEF Reading, Read, ReadFails, ReadTimeout, Writing, WriteFrame, WriterFails
<1> QED
  BY <1>1, <1>2, <1>3 DEF Server, Serving

(* The calls do not touch the server.                                      *)
LEMMA CallsKeep ==
    ASSUME \/ \E s \in Sess : Opens(s)
           \/ \E s \in Sess, i \in Ids : Ends(s, i)
           \/ \E r \in Reqs : Trips(r)
           \/ CloseBegin \/ CloseServer \/ UNCHANGED vars
    PROVE  UNCHANGED <<reg, receive, send, loop>>
<1> USE DEF chanVars
<1>1. ASSUME NEW s \in Sess, Opens(s) PROVE UNCHANGED <<reg, receive, send, loop>>
  BY <1>1 DEF Opens, ConnectBegin, Dial, RegisterSession, SessionClose, CloseSession
<1>2. ASSUME NEW s \in Sess, NEW i \in Ids, Ends(s, i)
      PROVE  UNCHANGED <<reg, receive, send, loop>>
  BY <1>2 DEF Ends, Await, AwaitFails, Timeout
<1>3. ASSUME NEW r \in Reqs, Trips(r) PROVE UNCHANGED <<reg, receive, send, loop>>
  BY <1>3 DEF Trips, Request, Lock, Write, WriteFails
<1>4. ASSUME CloseBegin \/ CloseServer \/ UNCHANGED vars
      PROVE  UNCHANGED <<reg, receive, send, loop>>
  BY <1>4 DEF CloseBegin, CloseServer, vars
<1> QED
  BY <1>1, <1>2, <1>3, <1>4

(* The transport of a session is closed.                                   *)
LEMMA Dropped ==
    ASSUME CallTypes, PipeTypes, NEW s \in Sess, Drop(s)
    PROVE  /\ ws' \in [Sess -> {"none", "open", "closed"}] /\ down' \in [Sess -> Seq(Frames)]
           /\ ws'[s] = "closed" /\ down'[s] = <<>>
           /\ \A t \in Sess \ {s} : ws'[t] = ws[t] /\ down'[t] = down[t]
<1>1. <<>> \in Seq(Frames)
  OBVIOUS
<1> QED
  BY <1>1 DEF CallTypes, PipeTypes, Drop

(* A call of a session, a request or the handshake, returns.               *)
Returns(s, i, result, rest) ==
    /\ conn' \in [Sess -> {"idle", "dial", "join", "register", "open", "failed"}]
    /\ ws' \in [Sess -> {"none", "open", "closed"}]
    /\ req' \in [Reqs -> {"idle", "wait", "write", "read", "ok", "error", "failed"}]
    /\ down' \in [Sess -> Seq(Frames)]
    /\ \A t \in Sess \ {s} : conn'[t] = conn[t] /\ ws'[t] = ws[t] /\ down'[t] = down[t]
    /\ \/ conn'[s] = conn[s]
       \/ conn[s] = "join" /\ conn'[s] \in {"register", "failed"}
    /\ \A r \in Reqs : \/ req'[r] = req[r]
                       \/ /\ r = i /\ On[r] = s /\ req[r] \in {"write", "read"}
                          /\ req'[r] = result
    /\ \/ ws'[s] = "closed" /\ down'[s] = <<>>
       \/ ws'[s] = ws[s] /\ down'[s] = rest[s]

(* What its return changes.                                                *)
LEMMA Returned ==
    ASSUME CallTypes, PipeTypes, NEW s \in Sess, NEW i \in Ids,
           Awaits(s, i) \/ (i \in Reqs /\ On[i] = s /\ req[i] = "write"),
           NEW result \in {"ok", "error", "failed"}, NEW close \in BOOLEAN,
           NEW rest \in [Sess -> Seq(Frames)], \A t \in Sess \ {s} : rest[t] = down[t],
           Return(s, i, result, close, rest)
    PROVE  Returns(s, i, result, rest)
<1> USE DEF Returns
<1>1. CASE i \in Reqs
  <2>1. req' = [req EXCEPT ![i] = result] /\ conn' = conn
    BY <1>1 DEF Return
  <2>2. On[i] = s /\ req[i] \in {"write", "read"}
    BY <1>1, SdkAssumption DEF Awaits
  <2>3. CASE close \/ (i \in Sess /\ result # "ok")
    <3>1. Drop(s)
      BY <2>3 DEF Return
    <3> QED
      BY <1>1, <2>1, <2>2, <3>1, Dropped DEF CallTypes
  <2>4. CASE ~(close \/ (i \in Sess /\ result # "ok"))
    <3>1. ws' = ws /\ down' = rest
      BY <2>4 DEF Return
    <3> QED
      BY <1>1, <2>1, <2>2, <3>1 DEF CallTypes
  <2> QED
    BY <2>3, <2>4
<1>2. CASE i \notin Reqs
  <2>1. i = s /\ conn[s] = "join"
    BY <1>2 DEF Awaits
  <2>2. /\ conn' = [conn EXCEPT ![s] = IF result = "ok" THEN "register" ELSE "failed"]
        /\ req' = req
    BY <1>2 DEF Return
  <2>3. /\ conn' \in [Sess -> {"idle", "dial", "join", "register", "open", "failed"}]
        /\ conn'[s] \in {"register", "failed"} /\ \A t \in Sess \ {s} : conn'[t] = conn[t]
    BY <2>2 DEF CallTypes
  <2>4. CASE close \/ (i \in Sess /\ result # "ok")
    <3>1. Drop(s)
      BY <2>4 DEF Return
    <3> QED
      BY <2>1, <2>2, <2>3, <3>1, Dropped DEF CallTypes
  <2>5. CASE ~(close \/ (i \in Sess /\ result # "ok"))
    <3>1. ws' = ws /\ down' = rest
      BY <2>5 DEF Return
    <3> QED
      BY <2>1, <2>2, <2>3, <3>1 DEF CallTypes
  <2> QED
    BY <2>4, <2>5
<1> QED
  BY <1>1, <1>2
(* A frame is read, or the call is given up.                               *)
LEMMA CallEnds ==
    ASSUME CallTypes, PipeTypes, NEW s \in Sess, NEW i \in Ids,
           Ends(s, i)
    PROVE  /\ conn' \in [Sess -> {"idle", "dial", "join", "register", "open", "failed"}]
           /\ ws' \in [Sess -> {"none", "open", "closed"}]
           /\ req' \in [Reqs -> {"idle", "wait", "write", "read", "ok", "error", "failed"}]
           /\ dead' \in [Sess -> SUBSET {"up", "down"}] /\ DOMAIN got' = Ids
           /\ down' \in [Sess -> Seq(Frames)]
           /\ \A t \in Sess \ {s} : /\ conn'[t] = conn[t] /\ ws'[t] = ws[t]
                                    /\ down'[t] = down[t] /\ dead'[t] = dead[t]
           /\ \/ conn'[s] = conn[s]
              \/ conn[s] = "join" /\ conn'[s] \in {"register", "failed"}
           /\ \A r \in Reqs : \/ req'[r] = req[r]
                              \/ /\ On[r] = s /\ req[r] \in {"write", "read"}
                                 /\ req'[r] \in {"ok", "error", "failed"}
           /\ ws'[s] \in {ws[s], "closed"}
           /\ down[s] = <<>> => down'[s] = <<>>
           /\ UNCHANGED <<client, sessions, listening, leaving, up, link>>
<1> USE DEF clientVars
<1>t. down \in [Sess -> Seq(Frames)] /\ dead \in [Sess -> SUBSET {"up", "down"}]
  BY DEF CallTypes, PipeTypes
<1>1. CASE Await(s, i)
  <2> DEFINE rest == [down EXCEPT ![s] = Tail(@)]
             f == Head(down[s])
  <2>1. /\ Awaits(s, i) /\ down[s] # <<>> /\ dead' = dead
        /\ UNCHANGED <<client, sessions, listening, leaving, up, link>>
    BY <1>1 DEF Await
  <2>2. Tail(down[s]) \in Seq(Frames)
    BY <1>t, <2>1
  <2>3. rest \in [Sess -> Seq(Frames)] /\ \A t \in Sess \ {s} : rest[t] = down[t]
    BY <1>t, <2>2
  <2>4. DOMAIN got' = Ids
    BY <1>1 DEF Await, CallTypes
  <2>5. CASE f.kind \in {"ok", "error"} /\ Return(s, i, f.kind, FALSE, rest)
    <3>1. Returns(s, i, f.kind, rest)
      BY ZenonT(40), <2>1, <2>3, <2>5, Returned
    <3> QED
      BY <1>t, <2>1, <2>3, <2>4, <2>5, <3>1 DEF Returns
  <2>6. CASE Return(s, i, "failed", TRUE, rest)
    <3>1. Returns(s, i, "failed", rest)
      BY <2>1, <2>3, <2>6, Returned
    <3> QED
      BY <1>t, <2>1, <2>3, <2>4, <3>1 DEF Returns
  <2>7. CASE down' = rest /\ UNCHANGED <<conn, ws, req, got>>
    BY <1>t, <2>1, <2>3, <2>4, <2>7 DEF CallTypes
  <2> QED
    BY <1>1, <2>5, <2>6, <2>7 DEF Await
<1>2. CASE AwaitFails(s, i) \/ Timeout(s, i)
  <2>1. /\ \/ Awaits(s, i)
           \/ i \in Reqs /\ On[i] = s /\ req[i] = "write"
        /\ Return(s, i, "failed", FALSE, down)
        /\ UNCHANGED <<client, sessions, listening, leaving, up, link, got>>
    BY <1>2 DEF AwaitFails, Timeout
  <2>2. PICK x \in {"up", "down"} : dead' = [dead EXCEPT ![s] = @ \cup {x}]
    BY <1>2 DEF AwaitFails, Timeout
  <2>3. /\ dead' \in [Sess -> SUBSET {"up", "down"}]
        /\ \A t \in Sess \ {s} : dead'[t] = dead[t]
    BY <1>t, <2>2
  <2>4. DOMAIN got' = Ids
    BY <2>1 DEF CallTypes
  <2>5. Returns(s, i, "failed", down)
    BY <1>t, <2>1, Returned
  <2> QED
    BY <2>1, <2>3, <2>4, <2>5 DEF Returns
<1> QED
  BY <1>1, <1>2 DEF Ends
-----------------------------------------------------------------------------
(* The types.                                                              *)

(* Every step keeps those of the client and its sessions ...               *)
LEMMA CallTypeStep ==
    ASSUME CallTypes, PipeTypes, Transports, [Next]_vars PROVE CallTypes'
<1> USE DEF clientVars, sessVars
<1>1. ASSUME NEW s \in Sess, Opens(s) PROVE CallTypes'
  <2>1. CASE ConnectBegin(s) \/ Dial(s)
    BY <2>1 DEF ConnectBegin, Dial, CallTypes
  <2>2. CASE RegisterSession(s)
    <3>1. ws' \in [Sess -> {"none", "open", "closed"}]
      BY <2>2, Dropped DEF RegisterSession, CloseTransport, CallTypes
    <3> QED
      BY <2>2, <3>1 DEF RegisterSession, CallTypes
  <2>3. CASE SessionClose(s)
    <3>1. ws' \in [Sess -> {"none", "open", "closed"}]
      BY <2>3, Dropped DEF SessionClose, CloseTransport, CallTypes
    <3> QED
      BY <2>3, <3>1 DEF SessionClose, CallTypes
  <2>4. CASE CloseSession(s)
    <3>1. ws' \in [Sess -> {"none", "open", "closed"}]
      BY <2>4, Dropped DEF CloseSession, CloseTransport
    <3> QED
      BY <2>4, <3>1 DEF CloseSession, CallTypes
  <2> QED
    BY <1>1, <2>1, <2>2, <2>3, <2>4 DEF Opens
<1>2. ASSUME NEW s \in Sess, NEW i \in Ids, Ends(s, i) PROVE CallTypes'
  BY <1>2, CallEnds DEF CallTypes
<1>3. ASSUME NEW r \in Reqs, Trips(r) PROVE CallTypes'
  BY <1>3 DEF Trips, Request, Lock, Write, WriteFails, CallTypes
<1>4. ASSUME NEW s \in Sess, Server(s) PROVE CallTypes'
  BY <1>4, ServerKeeps DEF CallTypes
<1>5. CASE CloseBegin \/ CloseServer \/ CloseAll \/ UNCHANGED vars
  BY <1>5 DEF CloseBegin, CloseServer, CloseAll, vars, CallTypes
<1> QED
  BY <1>1, <1>2, <1>3, <1>4, <1>5, Steps

(* Connections are closed: what they had not read is lost.                 *)
LEMMA ShutUp ==
    ASSUME PipeTypes, NEW S, Shut(S)
    PROVE  /\ up' \in [Sess -> Seq(Reqs)]
           /\ \A s \in Sess : up'[s] = up[s] \/ up'[s] = <<>>
<1>1. <<>> \in Seq(Reqs)
  OBVIOUS
<1> QED
  BY <1>1 DEF PipeTypes, Shut

(* A frame is sent to session t, or its connection is closed.              *)
LEMMA Sent ==
    ASSUME PipeTypes, NEW t \in Sess, NEW f \in Frames, NEW ok \in BOOLEAN, Send(t, f, ok)
    PROVE  /\ send' \in [Sess -> Seq(Frames)]
           /\ \A s \in Sess \ {t} : send'[s] = send[s]
           /\ send'[t] = IF ok THEN Append(send[t], f) ELSE send[t]
<1>1. send \in [Sess -> Seq(Frames)]
  BY DEF PipeTypes
<1>2. Append(send[t], f) \in Seq(Frames)
  BY <1>1
<1> QED
  BY <1>1, <1>2 DEF Send
-----------------------------------------------------------------------------
(* What the steps of a message loop do.                                    *)

(* Only the loop of session s moves.                                       *)
Moves(s) == /\ loop' \in [Sess -> Loops] /\ Sound(s, loop'[s])
            /\ \A t \in Sess \ {s} : loop'[t] = loop[t]

(* It starts, joins the room, handles a message or ends, without a channel.*)
LEMMA LoopSteps ==
    ASSUME PipeTypes, LoopIds, NEW s \in Sess,
           Add(s) \/ Join(s) \/ HandleMessage(s) \/ LoopEnds(s)
    PROVE  /\ Moves(s) /\ InLoop(s, loop'[s]) \subseteq InLoop(s, loop[s])
           /\ UNCHANGED <<up, receive, send, down>>
           /\ reg' = reg \/ (reg' = reg \cup {s} /\ ws[s] # "none")
           /\ ws[s] # "none" \/ loop[s] # NoLoop
<1> USE DEF Handled, chanVars
<1>t. loop \in [Sess -> Loops] /\ loop[s] \in Loops /\ Sound(s, loop[s])
      /\ s \in Ids /\ s \notin Reqs
  BY SdkAssumption DEF PipeTypes, LoopIds, Ids
<1>1. CASE Add(s)
  <2>1. /\ loop' = [loop EXCEPT ![s].at = "join"] /\ loop[s] = NoLoop
        /\ reg' = reg \cup {s} /\ ws[s] # "none" /\ UNCHANGED <<up, receive, send, down>>
    BY <1>1 DEF Add
  <2>2. loop'[s] = [NoLoop EXCEPT !.at = "join"]
    BY <1>t, <2>1
  <2>3. loop'[s] \in Loops /\ loop'[s].at = "join" /\ loop[s].at = "none"
    BY <2>1, <2>2 DEF NoLoop, Loops
  <2> QED
    BY <1>t, <2>1, <2>3 DEF Moves, Sound, InLoop
<1>2. CASE Join(s)
  <2>1. PICK k \in {"ok", "error"} :
           loop' = [loop EXCEPT ![s] =
                     [at |-> IF k = "ok" THEN "cast" ELSE "reply", id |-> s,
                      kind |-> k, todo |-> IF k = "ok" THEN Sess \ {s} ELSE {}]]
    BY <1>2 DEF Join
  <2>2. loop[s].at = "join" /\ UNCHANGED <<up, receive, send, down, reg>>
    BY <1>2 DEF Join
  <2>3. /\ loop'[s] \in Loops /\ loop'[s].id = s /\ loop'[s].at \in {"cast", "reply"}
        /\ loop'[s].at = "reply" => loop'[s].todo = {}
    BY <1>t, <2>1 DEF Loops
  <2> QED
    BY <1>t, <2>1, <2>2, <2>3 DEF Moves, Sound, InLoop, NoLoop
<1>3. CASE HandleMessage(s)
  <2>1. PICK k \in {"ok", "error"}, T \in SUBSET Sess :
           loop' = [loop EXCEPT ![s].at = "reply", ![s].kind = k, ![s].todo = T]
    BY <1>3 DEF HandleMessage
  <2>2. loop[s].at = "busy" /\ UNCHANGED <<up, receive, send, down, reg>>
    BY <1>3 DEF HandleMessage
  <2>3. loop'[s] \in Loops /\ loop'[s].id = loop[s].id /\ loop'[s].at = "reply"
    BY <1>t, <2>1 DEF Loops
  <2> QED
    BY <1>t, <2>1, <2>2, <2>3 DEF Moves, Sound, InLoop, NoLoop
<1>4. CASE LoopEnds(s)
  <2>1. loop' = [loop EXCEPT ![s].at = "exit"] /\ loop[s].at = "recv"
        /\ UNCHANGED <<up, receive, send, down, reg>>
    BY <1>4 DEF LoopEnds
  <2>2. loop'[s] \in Loops /\ loop'[s].at = "exit"
    BY <1>t, <2>1 DEF Loops
  <2> QED
    BY <1>t, <2>1, <2>2 DEF Moves, Sound, InLoop, NoLoop
<1> QED
  BY <1>1, <1>2, <1>3, <1>4

(* It takes a request from receiveChan.                                    *)
LEMMA ReceiveStep ==
    ASSUME PipeTypes, NEW s \in Sess, Receive(s)
    PROVE  /\ Moves(s) /\ InLoop(s, loop'[s]) = {Head(receive[s])} /\ InLoop(s, loop[s]) = {}
           /\ receive[s] # <<>> /\ receive' = [receive EXCEPT ![s] = Tail(@)]
           /\ UNCHANGED <<up, send, down, reg>> /\ loop[s] # NoLoop
<1>t. loop \in [Sess -> Loops] /\ loop[s] \in Loops /\ receive[s] \in Seq(Reqs)
  BY DEF PipeTypes
<1>1. /\ loop' = [loop EXCEPT ![s].at = "busy", ![s].id = Head(receive[s])]
      /\ loop[s].at = "recv" /\ receive[s] # <<>>
      /\ receive' = [receive EXCEPT ![s] = Tail(@)] /\ UNCHANGED <<up, send, down, reg>>
  BY DEF Receive, Handled
<1>2. Head(receive[s]) \in Reqs
  BY <1>t, <1>1
<1>3. loop'[s] \in Loops /\ loop'[s].id = Head(receive[s]) /\ loop'[s].at = "busy"
  BY <1>t, <1>1, <1>2 DEF Loops, Ids
<1> QED
  BY <1>t, <1>1, <1>2, <1>3 DEF Moves, Sound, InLoop, NoLoop

(* It answers, and has nothing to answer then.                             *)
LEMMA ReplyStep ==
    ASSUME PipeTypes, LoopIds, NEW s \in Sess, Reply(s)
    PROVE  /\ Moves(s) /\ InLoop(s, loop'[s]) = {} /\ InLoop(s, loop[s]) = {loop[s].id}
           /\ UNCHANGED <<up, receive, down, reg>> /\ loop[s] # NoLoop
           /\ \E ok \in BOOLEAN, f \in Frames :
                 f.id = loop[s].id /\ f.kind # "note" /\ Send(s, f, ok)
<1>t. loop \in [Sess -> Loops] /\ loop[s] \in Loops /\ Sound(s, loop[s])
  BY DEF PipeTypes, LoopIds
<1>1. loop[s].at = "reply" /\ UNCHANGED <<up, receive, down, reg>>
  BY DEF Reply, Handled
<1>2. PICK ok \in BOOLEAN :
       /\ Send(s, [kind |-> loop[s].kind, id |-> loop[s].id], ok)
       /\ loop' = [loop EXCEPT ![s] =
            IF loop[s].id = s /\ ~(ok /\ loop[s].kind = "ok")
            THEN [NoLoop EXCEPT !.at = "exit"]
            ELSE IF ok /\ loop[s].todo # {} THEN [loop[s] EXCEPT !.at = "cast"]
            ELSE [NoLoop EXCEPT !.at = "recv"]]
  BY DEF Reply
<1> DEFINE f == [kind |-> loop[s].kind, id |-> loop[s].id]
<1>3. f \in Frames /\ f.id = loop[s].id /\ f.kind # "note"
  BY <1>t DEF Frames, Loops
<1>4. \A x \in {"exit", "recv"} : /\ [NoLoop EXCEPT !.at = x] \in Loops
                                  /\ [NoLoop EXCEPT !.at = x].at = x
  BY DEF NoLoop, Loops
<1>5. /\ [loop[s] EXCEPT !.at = "cast"] \in Loops
      /\ [loop[s] EXCEPT !.at = "cast"].at = "cast"
      /\ [loop[s] EXCEPT !.at = "cast"].id = loop[s].id
  BY <1>t DEF Loops
<1>6. \/ loop'[s] \in {[NoLoop EXCEPT !.at = x] : x \in {"exit", "recv"}}
      \/ loop'[s] = [loop[s] EXCEPT !.at = "cast"] /\ loop[s].todo # {}
  BY <1>t, <1>2
<1>7. loop'[s] \in Loops /\ Sound(s, loop'[s]) /\ InLoop(s, loop'[s]) = {}
  <2>1. CASE loop'[s] \in {[NoLoop EXCEPT !.at = x] : x \in {"exit", "recv"}}
    BY <1>4, <2>1 DEF Sound, InLoop
  <2>2. CASE loop'[s] = [loop[s] EXCEPT !.at = "cast"] /\ loop[s].todo # {}
    BY <1>t, <1>1, <1>5, <2>2 DEF Sound, InLoop
  <2> QED
    BY <1>6, <2>1, <2>2
<1>8. InLoop(s, loop[s]) = {loop[s].id} /\ loop[s] # NoLoop
  BY <1>1 DEF InLoop, NoLoop
<1>9. Moves(s)
  BY <1>t, <1>2, <1>7 DEF Moves
<1> QED
  BY <1>1, <1>2, <1>3, <1>7, <1>8, <1>9

(* It broadcasts, to session t.                                            *)
LEMMA CastStep ==
    ASSUME PipeTypes, NEW s \in Sess, NEW t \in Sess, Cast(s, t)
    PROVE  /\ Moves(s) /\ InLoop(s, loop'[s]) \subseteq InLoop(s, loop[s])
           /\ UNCHANGED <<up, receive, down, reg>> /\ loop[s] # NoLoop
           /\ \/ UNCHANGED send
              \/ t \in reg /\ \E ok \in BOOLEAN : Send(t, Note, ok)
<1>t. loop \in [Sess -> Loops] /\ loop[s] \in Loops
  BY DEF PipeTypes
<1>1. /\ loop[s].at = "cast" /\ UNCHANGED <<up, receive, down, reg>>
      /\ \/ UNCHANGED send
         \/ t \in reg /\ \E ok \in BOOLEAN : Send(t, Note, ok)
  BY DEF Cast, Handled
<1> DEFINE rest == loop[s].todo \ {t}
<1>2. loop' = [loop EXCEPT ![s] =
                  IF rest # {} THEN [loop[s] EXCEPT !.todo = rest]
                  ELSE IF loop[s].id = s THEN [loop[s] EXCEPT !.at = "reply", !.todo = {}]
                  ELSE [NoLoop EXCEPT !.at = "recv"]]
  BY DEF Cast
<1>3. /\ [loop[s] EXCEPT !.todo = rest] \in Loops
      /\ [loop[s] EXCEPT !.todo = rest].at = "cast"
      /\ [loop[s] EXCEPT !.todo = rest].id = loop[s].id
  BY <1>t, <1>1 DEF Loops
<1>4. /\ [loop[s] EXCEPT !.at = "reply", !.todo = {}] \in Loops
      /\ [loop[s] EXCEPT !.at = "reply", !.todo = {}].at = "reply"
      /\ [loop[s] EXCEPT !.at = "reply", !.todo = {}].id = loop[s].id
      /\ [loop[s] EXCEPT !.at = "reply", !.todo = {}].todo = {}
  BY <1>t DEF Loops
<1>5. [NoLoop EXCEPT !.at = "recv"] \in Loops /\ [NoLoop EXCEPT !.at = "recv"].at = "recv"
  BY DEF NoLoop, Loops
<1> HIDE DEF rest
<1>6. \/ loop'[s] = [loop[s] EXCEPT !.todo = rest]
      \/ loop'[s] = [loop[s] EXCEPT !.at = "reply", !.todo = {}] /\ loop[s].id = s
      \/ loop'[s] = [NoLoop EXCEPT !.at = "recv"]
  BY <1>t, <1>2
<1>7. /\ loop'[s] \in Loops /\ Sound(s, loop'[s])
      /\ InLoop(s, loop'[s]) \subseteq InLoop(s, loop[s])
  BY <1>1, <1>3, <1>4, <1>5, <1>6 DEF Sound, InLoop
<1>8. loop[s] # NoLoop
  BY <1>1 DEF NoLoop
<1>9. Moves(s)
  BY <1>t, <1>2, <1>7 DEF Moves
<1> QED
  BY <1>1, <1>7, <1>8, <1>9
(* It has ended: its connection is closed.                                 *)
LEMMA ExitStep ==
    ASSUME PipeTypes, NEW s \in Sess, Exit(s)
    PROVE  /\ Moves(s) /\ InLoop(s, loop'[s]) = {} /\ loop[s] # NoLoop
           /\ receive' = [receive EXCEPT ![s] = <<>>] /\ send' = [send EXCEPT ![s] = <<>>]
           /\ Shut({s}) /\ reg' = reg \ {s} /\ UNCHANGED down
<1>t. loop \in [Sess -> Loops] /\ loop[s] \in Loops
  BY DEF PipeTypes
<1>1. loop[s].at = "exit" /\ loop' = [loop EXCEPT ![s].at = "done"]
  BY DEF Exit
<1>2. loop'[s] \in Loops /\ loop'[s].at = "done"
  BY <1>t, <1>1 DEF Loops
<1> QED
  BY <1>t, <1>1, <1>2 DEF Moves, Sound, InLoop, NoLoop, Exit

(* Nothing was on its way on an empty stage, and the first of a stage      *)
(* moves on to the end of the next.                                        *)
LEMMA HeadTail ==
    ASSUME NEW S, NEW q \in Seq(S), q # <<>>
    PROVE  Head(q) \in S /\ Tail(q) \in Seq(S)
  OBVIOUS

(* ... and of what is on its way.                                          *)
LEMMA PipeTypeStep ==
    ASSUME CallTypes, PipeTypes, LoopIds, [Next]_vars PROVE PipeTypes'
<1> USE DEF clientVars, sessVars, chanVars
<1>t. /\ up \in [Sess -> Seq(Reqs)] /\ receive \in [Sess -> Seq(Reqs)]
      /\ send \in [Sess -> Seq(Frames)] /\ down \in [Sess -> Seq(Frames)]
      /\ loop \in [Sess -> Loops]
  BY DEF PipeTypes
<1>n. Note \in Frames /\ <<>> \in Seq(Frames) /\ <<>> \in Seq(Reqs)
  BY DEF Note, Frames
<1>1. ASSUME NEW s \in Sess, Opens(s) PROVE PipeTypes'
  <2>1. UNCHANGED <<up, receive, send, loop>>
    BY <1>1, CallsKeep DEF Opens, ConnectBegin, Dial, RegisterSession, SessionClose,
                           CloseSession
  <2>2. UNCHANGED down \/ Drop(s)
    BY <1>1 DEF Opens, ConnectBegin, Dial, RegisterSession, SessionClose, CloseSession,
                CloseTransport
  <2> QED
    BY <1>t, <2>1, <2>2, Dropped DEF PipeTypes
<1>2. ASSUME NEW s \in Sess, NEW i \in Ids, Ends(s, i) PROVE PipeTypes'
  <2>1. UNCHANGED <<receive, send, loop>>
    BY <1>2, CallsKeep
  <2> QED
    BY <1>2, <1>t, <2>1, CallEnds DEF PipeTypes
<1>3. ASSUME NEW r \in Reqs, Trips(r) PROVE PipeTypes'
  <2>1. UNCHANGED <<receive, send, loop>>
    BY <1>3, CallsKeep
  <2>2. UNCHANGED down /\ (UNCHANGED up \/ up' = [up EXCEPT ![On[r]] = Append(@, r)])
    BY <1>3 DEF Trips, Request, Lock, Write, WriteFails
  <2>3. On[r] \in Sess /\ Append(up[On[r]], r) \in Seq(Reqs)
    BY <1>t, SdkAssumption
  <2> QED
    BY <1>t, <2>1, <2>2, <2>3 DEF PipeTypes
<1>4. ASSUME NEW s \in Sess, Server(s) PROVE PipeTypes'
  <2>1. CASE Add(s) \/ Join(s) \/ HandleMessage(s) \/ LoopEnds(s)
    BY <2>1, <1>t, LoopSteps DEF Moves, PipeTypes
  <2>2. CASE Receive(s)
    <3>1. receive[s] # <<>> /\ receive' = [receive EXCEPT ![s] = Tail(@)]
      BY <2>2, ReceiveStep
    <3>2. Tail(receive[s]) \in Seq(Reqs)
      BY <1>t, <3>1, HeadTail
    <3> QED
      BY <2>2, <1>t, <3>1, <3>2, ReceiveStep DEF Moves, PipeTypes
  <2>3. CASE Reply(s)
    <3>1. PICK ok \in BOOLEAN, f \in Frames : Send(s, f, ok)
      BY <2>3, ReplyStep
    <3>2. send' \in [Sess -> Seq(Frames)]
      BY <3>1, Sent
    <3> QED
      BY <2>3, <1>t, <3>2, ReplyStep DEF Moves, PipeTypes
  <2>4. CASE \E t \in Sess : Cast(s, t)
    <3>1. PICK t \in Sess : Cast(s, t)
      BY <2>4
    <3>2. send' \in [Sess -> Seq(Frames)]
      BY <1>t, <1>n, <3>1, CastStep, Sent
    <3> QED
      BY <1>t, <3>1, <3>2, CastStep DEF Moves, PipeTypes
  <2>5. CASE Exit(s)
    <3>1. /\ loop' \in [Sess -> Loops] /\ down' = down /\ Shut({s})
          /\ receive' = [receive EXCEPT ![s] = <<>>] /\ send' = [send EXCEPT ![s] = <<>>]
      BY <2>5, ExitStep DEF Moves
    <3>2. up' \in [Sess -> Seq(Reqs)]
      BY <3>1, ShutUp
    <3> QED
      BY <1>t, <1>n, <3>1, <3>2 DEF PipeTypes
  <2>6. CASE Read(s)
    <3>1. Head(up[s]) \in Reqs /\ Tail(up[s]) \in Seq(Reqs)
      BY <2>6, <1>t, HeadTail DEF Read
    <3>2. Append(receive[s], Head(up[s])) \in Seq(Reqs)
      BY <1>t, <3>1
    <3> QED
      BY <2>6, <1>t, <3>1, <3>2 DEF Read, PipeTypes
  <2>7. CASE WriteFrame(s)
    <3>1. Head(send[s]) \in Frames /\ Tail(send[s]) \in Seq(Frames)
      BY <2>7, <1>t, HeadTail DEF WriteFrame
    <3>2. Append(down[s], Head(send[s])) \in Seq(Frames)
      BY <1>t, <3>1
    <3> QED
      BY <2>7, <1>t, <3>1, <3>2 DEF WriteFrame, PipeTypes
  <2>8. CASE ReadFails(s) \/ ReadTimeout(s) \/ WriterFails(s)
    BY <2>8, <1>t, ShutUp DEF ReadFails, ReadTimeout, WriterFails, PipeTypes
  <2> QED
    BY <1>4, <2>1, <2>2, <2>3, <2>4, <2>5, <2>6, <2>7, <2>8
       DEF Server, Serving, Reading, Writing
<1>5. CASE CloseBegin \/ CloseServer \/ UNCHANGED vars
  BY <1>5, <1>t DEF CloseBegin, CloseServer, vars, PipeTypes
<1>6. CASE CloseAll
  BY <1>6, <1>t, ShutUp DEF CloseAll, PipeTypes
<1> QED
  BY <1>1, <1>2, <1>3, <1>4, <1>5, <1>6, Steps

-----------------------------------------------------------------------------
(* Sessions and their transports.                                          *)

(* Every step keeps what Client.Close relies on.                           *)
LEMMA TransportsStep ==
    ASSUME CallTypes, PipeTypes, Transports, Undialled, [Next]_vars PROVE Transports'
<1> USE DEF clientVars, sessVars
<1>t. /\ sessions \subseteq Sess /\ ws \in [Sess -> {"none", "open", "closed"}]
      /\ conn \in [Sess -> {"idle", "dial", "join", "register", "open", "failed"}]
      /\ leaving \in [Sess -> {"no", "transport", "done"}]
  BY DEF CallTypes
<1>1. ASSUME NEW s \in Sess, Opens(s) PROVE Transports'
  <2>1. CASE ConnectBegin(s) \/ Dial(s)
    BY <2>1, <1>t DEF ConnectBegin, Dial, Transports
  <2>2. CASE RegisterSession(s)
    <3>1. CASE client = "open"
      BY <2>2, <3>1, <1>t DEF RegisterSession, Transports
    <3>2. CASE client # "open"
      <4>1. /\ Drop(s) /\ conn[s] = "register" /\ conn' = [conn EXCEPT ![s] = "failed"]
            /\ UNCHANGED <<client, sessions, leaving>>
        BY <2>2, <3>2 DEF RegisterSession, CloseTransport
      <4> QED
        BY <4>1, <1>t, Dropped DEF Transports
    <3> QED
      BY <3>1, <3>2
  <2>3. CASE SessionClose(s)
    <3>1. CASE leaving[s] = "no"
      <4>1. /\ leaving' = [leaving EXCEPT ![s] = "transport"]
            /\ sessions' = IF client = "open" THEN sessions \ {s} ELSE sessions
            /\ UNCHANGED <<client, conn, ws>>
        BY <2>3, <3>1 DEF SessionClose
      <4> QED
        BY <4>1, <1>t DEF Transports
    <3>2. CASE leaving[s] # "no"
      <4>1. Drop(s) /\ leaving' = [leaving EXCEPT ![s] = "done"]
            /\ UNCHANGED <<client, conn, sessions>>
        BY <2>3, <3>2 DEF SessionClose, CloseTransport
      <4> QED
        BY <4>1, <1>t, Dropped DEF Transports
    <3> QED
      BY <3>1, <3>2
  <2>4. CASE CloseSession(s)
    <3>1. Drop(s) /\ sessions' = sessions \ {s} /\ UNCHANGED <<client, conn, leaving>>
      BY <2>4 DEF CloseSession, CloseTransport
    <3> QED
      BY <3>1, <1>t, Dropped DEF Transports
  <2> QED
    BY <1>1, <2>1, <2>2, <2>3, <2>4 DEF Opens
<1>2. ASSUME NEW s \in Sess, NEW i \in Ids, Ends(s, i) PROVE Transports'
  <2>1. /\ conn'[s] = "open" <=> conn[s] = "open"
        /\ ws'[s] \in {ws[s], "closed"}
        /\ \A t \in Sess \ {s} : conn'[t] = conn[t] /\ ws'[t] = ws[t]
        /\ UNCHANGED <<client, sessions, leaving>>
    <3>1. /\ \/ conn'[s] = conn[s]
             \/ conn[s] = "join" /\ conn'[s] \in {"register", "failed"}
          /\ ws'[s] \in {ws[s], "closed"}
          /\ \A t \in Sess \ {s} : conn'[t] = conn[t] /\ ws'[t] = ws[t]
          /\ UNCHANGED <<client, sessions, leaving>>
      BY <1>2, CallEnds
    <3> QED
      BY <3>1
  <2>2. \A t \in Sess : (conn'[t] = "open" <=> conn[t] = "open") /\ ws'[t] \in {ws[t], "closed"}
    BY <2>1
  <2> QED
    BY <2>1, <2>2, <1>t DEF Transports
<1>3. ASSUME NEW r \in Reqs, Trips(r) PROVE Transports'
  BY <1>3 DEF Trips, Request, Lock, Write, WriteFails, Transports
<1>4. ASSUME NEW s \in Sess, Server(s) PROVE Transports'
  BY <1>4, ServerKeeps DEF Transports
<1>5. CASE CloseBegin \/ CloseServer \/ CloseAll \/ UNCHANGED vars
  BY <1>5 DEF CloseBegin, CloseServer, CloseAll, vars, Transports
<1> QED
  BY <1>1, <1>2, <1>3, <1>4, <1>5, Steps
(* A session that has not dialled has nothing on its way.                  *)
LEMMA UndialledStep ==
    ASSUME CallTypes, PipeTypes, Transports, Undialled, Serial, LoopIds, [Next]_vars
    PROVE  Undialled'
<1> USE DEF clientVars, sessVars, chanVars
<1>t. /\ sessions \subseteq Sess /\ ws \in [Sess -> {"none", "open", "closed"}]
      /\ conn \in [Sess -> {"idle", "dial", "join", "register", "open", "failed"}]
      /\ up \in [Sess -> Seq(Reqs)] /\ receive \in [Sess -> Seq(Reqs)]
      /\ send \in [Sess -> Seq(Frames)] /\ down \in [Sess -> Seq(Frames)]
      /\ loop \in [Sess -> Loops]
  BY DEF CallTypes, PipeTypes
<1>1. ASSUME NEW s \in Sess, Opens(s) PROVE Undialled'
  <2>1. UNCHANGED <<reg, up, receive, send, loop>>
    BY <1>1, CallsKeep DEF Opens, ConnectBegin, Dial, RegisterSession, SessionClose,
                           CloseSession
  <2>2. CASE ConnectBegin(s) \/ Dial(s)
    BY <2>1, <2>2, <1>t DEF ConnectBegin, Dial, Undialled
  <2>3. CASE /\ RegisterSession(s) \/ SessionClose(s) \/ CloseSession(s)
             /\ Drop(s)
    <3>1. /\ ws'[s] = "closed" /\ \A t \in Sess \ {s} : ws'[t] = ws[t] /\ down'[t] = down[t]
      BY <2>3, Dropped
    <3>2. conn'[s] \notin {"idle", "dial"} /\ \A t \in Sess \ {s} : conn'[t] = conn[t]
      BY <1>t, <2>3 DEF RegisterSession, SessionClose, CloseSession, Transports
    <3> QED
      BY <2>1, <3>1, <3>2 DEF Undialled
  <2>4. CASE /\ RegisterSession(s) \/ SessionClose(s) \/ CloseSession(s)
             /\ ~Drop(s)
    <3>1. UNCHANGED <<ws, down>>
      BY <2>4 DEF RegisterSession, SessionClose, CloseSession, CloseTransport
    <3>2. \A t \in Sess : conn'[t] \in {"idle", "dial"} => conn'[t] = conn[t]
      BY <1>t, <2>4 DEF RegisterSession, SessionClose, CloseSession
    <3> QED
      BY <2>1, <3>1, <3>2 DEF Undialled
  <2> QED
    BY <1>1, <2>2, <2>3, <2>4 DEF Opens
<1>2. ASSUME NEW s \in Sess, NEW i \in Ids, Ends(s, i) PROVE Undialled'
  <2>1. UNCHANGED <<reg, receive, send, loop>>
    BY <1>2, CallsKeep
  <2>2. /\ \/ conn'[s] = conn[s]
           \/ conn[s] = "join" /\ conn'[s] \in {"register", "failed"}
        /\ ws'[s] \in {ws[s], "closed"} /\ (down[s] = <<>> => down'[s] = <<>>)
        /\ \A t \in Sess \ {s} : conn'[t] = conn[t] /\ ws'[t] = ws[t] /\ down'[t] = down[t]
        /\ UNCHANGED up
    BY <1>2, CallEnds
  <2>3. conn[s] \notin {"idle", "dial"}
    <3>1. \/ Awaits(s, i)
          \/ i \in Reqs /\ On[i] = s /\ req[i] = "write"
      BY <1>2 DEF Ends, Await, AwaitFails, Timeout
    <3> QED
      BY <3>1 DEF Awaits, Serial
  <2>4. conn'[s] \notin {"idle", "dial"}
    BY <2>2, <2>3
  <2>5. ws'[s] = "none" => ws[s] = "none"
    BY <2>2
  <2> QED
    BY <2>1, <2>2, <2>4, <2>5 DEF Undialled
<1>3. ASSUME NEW r \in Reqs, Trips(r) PROVE Undialled'
  <2>1. UNCHANGED <<reg, receive, send, loop>>
    BY <1>3, CallsKeep
  <2>2. /\ UNCHANGED <<conn, ws, down>>
        /\ \/ UNCHANGED up
           \/ ws[On[r]] = "open" /\ up' = [up EXCEPT ![On[r]] = Append(@, r)]
    BY <1>3 DEF Trips, Request, Lock, Write, WriteFails
  <2> QED
    BY <1>t, <2>1, <2>2 DEF Undialled
<1>4. ASSUME NEW s \in Sess, Server(s) PROVE Undialled'
  <2>0. UNCHANGED <<conn, ws>>
    BY <1>4, ServerKeeps
  <2> SUFFICES ASSUME NEW t \in Sess, ws[t] = "none"
               PROVE  /\ up'[t] = <<>> /\ receive'[t] = <<>> /\ send'[t] = <<>>
                      /\ down'[t] = <<>> /\ loop'[t] = NoLoop /\ t \notin reg'
    BY <2>0 DEF Undialled
  <2>t. /\ up[t] = <<>> /\ receive[t] = <<>> /\ send[t] = <<>>
        /\ down[t] = <<>> /\ loop[t] = NoLoop /\ t \notin reg
    BY DEF Undialled
  <2>1. CASE Add(s) \/ Join(s) \/ HandleMessage(s) \/ LoopEnds(s)
    BY <2>1, <2>t, LoopSteps DEF Moves
  <2>2. CASE Receive(s)
    BY <2>2, <2>t, <1>t, ReceiveStep DEF Moves
  <2>3. CASE Reply(s)
    <3>1. PICK ok \in BOOLEAN, f \in Frames : Send(s, f, ok)
      BY <2>3, ReplyStep
    <3>2. s # t
      BY <2>3, <2>t, ReplyStep
    <3>3. send'[t] = send[t]
      BY <3>1, <3>2, Sent
    <3> QED
      BY <2>3, <2>t, <3>2, <3>3, ReplyStep DEF Moves
  <2>4. CASE \E u \in Sess : Cast(s, u)
    <3>1. PICK u \in Sess : Cast(s, u)
      BY <2>4
    <3>n. Note \in Frames
      BY DEF Note, Frames
    <3>2. send'[t] = send[t]
      BY <2>t, <3>1, <3>n, CastStep, Sent
    <3> QED
      BY <2>t, <3>1, <3>2, CastStep DEF Moves
  <2>5. CASE Exit(s)
    BY <2>5, <2>t, <1>t, ExitStep, ShutUp DEF Moves
  <2>6. CASE Read(s) \/ WriteFrame(s)
    BY <2>6, <2>t, <1>t DEF Read, WriteFrame
  <2>7. CASE ReadFails(s) \/ ReadTimeout(s) \/ WriterFails(s)
    BY <2>7, <2>t, <1>t, ShutUp DEF ReadFails, ReadTimeout, WriterFails
  <2> QED
    BY <1>4, <2>1, <2>2, <2>3, <2>4, <2>5, <2>6, <2>7
       DEF Server, Serving, Reading, Writing
<1>5. CASE CloseBegin \/ CloseServer \/ UNCHANGED vars
  BY <1>5 DEF CloseBegin, CloseServer, vars, Undialled
<1>6. CASE CloseAll
  BY <1>6, ShutUp DEF CloseAll, Undialled
<1> QED
  BY <1>1, <1>2, <1>3, <1>4, <1>5, <1>6, Steps

(* The requests of a session take turns.                                   *)
LEMMA SerialStep ==
    ASSUME CallTypes, PipeTypes, Transports, Serial, [Next]_vars PROVE Serial'
<1> USE DEF clientVars, sessVars
<1>t. /\ conn \in [Sess -> {"idle", "dial", "join", "register", "open", "failed"}]
      /\ req \in [Reqs -> {"idle", "wait", "write", "read", "ok", "error", "failed"}]
      /\ On \in [Reqs -> Sess]
  BY SdkAssumption DEF CallTypes
<1>1. ASSUME NEW s \in Sess, Opens(s) PROVE Serial'
  <2>1. UNCHANGED req /\ \A t \in Sess : conn[t] = "open" => conn'[t] = "open"
    BY <1>1, <1>t DEF Opens, ConnectBegin, Dial, RegisterSession, SessionClose,
                      CloseSession
  <2> QED
    BY <1>t, <2>1 DEF Serial
<1>2. ASSUME NEW s \in Sess, NEW i \in Ids, Ends(s, i) PROVE Serial'
  <2>1. /\ \/ conn'[s] = conn[s]
           \/ conn[s] = "join" /\ conn'[s] \in {"register", "failed"}
        /\ \A t \in Sess \ {s} : conn'[t] = conn[t]
        /\ \A r \in Reqs : \/ req'[r] = req[r]
                           \/ /\ On[r] = s /\ req[r] \in {"write", "read"}
                              /\ req'[r] \in {"ok", "error", "failed"}
    BY <1>2, CallEnds
  <2>2. \A t \in Sess : conn[t] = "open" => conn'[t] = "open"
    BY <2>1
  <2> QED
    BY <1>t, <2>1, <2>2 DEF Serial
<1>3. ASSUME NEW r \in Reqs, Trips(r) PROVE Serial'
  BY <1>3, <1>t DEF Trips, Request, Lock, Write, WriteFails, Serial
<1>4. ASSUME NEW s \in Sess, Server(s) PROVE Serial'
  BY <1>4, ServerKeeps DEF Serial
<1>5. CASE CloseBegin \/ CloseServer \/ CloseAll \/ UNCHANGED vars
  BY <1>5 DEF CloseBegin, CloseServer, CloseAll, vars, Serial
<1> QED
  BY <1>1, <1>2, <1>3, <1>4, <1>5, Steps

(* The message loops.                                                      *)
LEMMA LoopIdsStep ==
    ASSUME CallTypes, PipeTypes, LoopIds, [Next]_vars PROVE LoopIds'
<1>1. ASSUME NEW s \in Sess, Server(s) PROVE LoopIds'
  <2>1. Moves(s) \/ UNCHANGED loop
    <3>1. CASE Read(s) \/ WriteFrame(s) \/ ReadFails(s) \/ ReadTimeout(s) \/ WriterFails(s)
      BY <3>1 DEF Read, WriteFrame, ReadFails, ReadTimeout, WriterFails
    <3> QED
      BY <1>1, <3>1, LoopSteps, ReceiveStep, ReplyStep, CastStep, ExitStep
         DEF Server, Serving, Reading, Writing
  <2> QED
    BY <2>1 DEF Moves, LoopIds
<1>2. CASE ~\E s \in Sess : Server(s)
  <2>1. UNCHANGED loop
    BY <1>2, Steps, CallsKeep DEF CloseAll
  <2> QED
    BY <2>1 DEF LoopIds
<1> QED
  BY <1>1, <1>2
-----------------------------------------------------------------------------
(* The round trip: what is on one stage.                                   *)

(* A socket or a channel without answers.                                  *)
LEMMA NoAnswers ==
    ASSUME NEW q
    PROVE  /\ Quiet(q) => Single(q) /\ Answered(q) = {}
           /\ Answered(q) = {} => Quiet(q)
           /\ Quiet(<<>>) /\ Single(<<>>) /\ Answered(<<>>) = {} /\ Listed(<<>>) = {}
  BY DEF Quiet, Single, Answered, Listed

(* Its first frame is taken.                                               *)
LEMMA FirstTaken ==
    ASSUME NEW q \in Seq(Frames), q # <<>>
    PROVE  /\ Quiet(q) => Quiet(Tail(q))
           /\ Single(q) => Single(Tail(q))
           /\ Answered(Tail(q)) \subseteq Answered(q)
           /\ Head(q).kind # "note" =>
                 /\ ~Quiet(q) /\ Head(q).id \in Answered(q)
                 /\ Single(q) => Quiet(Tail(q))
<1>1. /\ Len(q) \in Nat /\ Len(q) > 0 /\ DOMAIN q = 1..Len(q) /\ Head(q) = q[1]
      /\ DOMAIN Tail(q) = 1..(Len(q) - 1)
      /\ \A k \in 1..(Len(q) - 1) : Tail(q)[k] = q[k + 1]
  OBVIOUS
<1>2. 1 \in DOMAIN q /\ \A k \in DOMAIN Tail(q) : /\ k + 1 \in DOMAIN q /\ k + 1 # 1
                                                 /\ Tail(q)[k] = q[k + 1]
  BY <1>1
<1>3. \A j, k \in DOMAIN Tail(q) : j + 1 = k + 1 => j = k
  BY <1>1
<1>4. Quiet(q) => Quiet(Tail(q))
  BY <1>2 DEF Quiet
<1>5. Single(q) => Single(Tail(q))
  BY <1>2, <1>3 DEF Single
<1>6. Answered(Tail(q)) \subseteq Answered(q)
  BY <1>2 DEF Answered
<1>7. ASSUME Head(q).kind # "note"
      PROVE  ~Quiet(q) /\ Head(q).id \in Answered(q) /\ (Single(q) => Quiet(Tail(q)))
  BY <1>1, <1>2, <1>7 DEF Quiet, Single, Answered
<1> QED
  BY <1>4, <1>5, <1>6, <1>7

(* A frame is added.                                                       *)
LEMMA FrameAdded ==
    ASSUME NEW q \in Seq(Frames), NEW f \in Frames
    PROVE  /\ Quiet(q) => Single(Append(q, f))
           /\ Answered(Append(q, f)) \subseteq Answered(q) \cup {f.id}
           /\ f.kind = "note" =>
                 /\ Quiet(q) => Quiet(Append(q, f))
                 /\ Single(q) => Single(Append(q, f))
                 /\ Answered(Append(q, f)) \subseteq Answered(q)
<1> DEFINE r == Append(q, f)
<1>1. /\ Len(q) \in Nat /\ DOMAIN q = 1..Len(q) /\ DOMAIN r = 1..(Len(q) + 1)
      /\ r[Len(q) + 1] = f /\ \A k \in 1..Len(q) : r[k] = q[k]
  OBVIOUS
<1>2. \A k \in DOMAIN r : \/ k \in DOMAIN q /\ r[k] = q[k]
                          \/ k = Len(q) + 1 /\ r[k] = f
  BY <1>1
<1> HIDE DEF r
<1>3. Quiet(q) => Single(r)
  BY <1>2 DEF Quiet, Single
<1>4. Answered(r) \subseteq Answered(q) \cup {f.id}
  BY <1>2 DEF Answered
<1>5. ASSUME f.kind = "note"
      PROVE  /\ Quiet(q) => Quiet(r)
             /\ Single(q) => Single(r)
             /\ Answered(r) \subseteq Answered(q)
  BY <1>2, <1>5 DEF Quiet, Single, Answered
<1> QED
  BY <1>3, <1>4, <1>5 DEF r

(* The same of requests.                                                   *)
LEMMA RequestMoves ==
    ASSUME NEW q \in Seq(Reqs), NEW x \in Reqs
    PROVE  /\ Listed(Append(q, x)) = Listed(q) \cup {x}
           /\ q = <<>> => Len(Append(q, x)) = 1
           /\ q # <<>> => Head(q) \in Listed(q) /\ Listed(Tail(q)) \subseteq Listed(q)
           /\ Len(q) = 1 => Tail(q) = <<>>
           /\ Listed(q) = {} => q = <<>>
<1>1. /\ Len(q) \in Nat /\ DOMAIN q = 1..Len(q) /\ DOMAIN Append(q, x) = 1..(Len(q) + 1)
      /\ Append(q, x)[Len(q) + 1] = x /\ \A k \in 1..Len(q) : Append(q, x)[k] = q[k]
  OBVIOUS
<1>2. Listed(Append(q, x)) = Listed(q) \cup {x}
  BY <1>1 DEF Listed
<1>3. q # <<>> => Head(q) \in Listed(q) /\ Listed(Tail(q)) \subseteq Listed(q)
  <2> SUFFICES ASSUME q # <<>>
               PROVE  Head(q) \in Listed(q) /\ Listed(Tail(q)) \subseteq Listed(q)
    OBVIOUS
  <2>1. /\ 1 \in DOMAIN q /\ Head(q) = q[1] /\ DOMAIN Tail(q) = 1..(Len(q) - 1)
        /\ \A k \in DOMAIN Tail(q) : k + 1 \in DOMAIN q /\ Tail(q)[k] = q[k + 1]
    BY <1>1
  <2> QED
    BY <2>1 DEF Listed
<1>4. Len(q) = 1 => Tail(q) = <<>>
  <2> SUFFICES ASSUME Len(q) = 1 PROVE Tail(q) = <<>>
    OBVIOUS
  <2>1. q # <<>>
    BY SMTT(30), EmptySeq
  <2>2. Tail(q) \in Seq(Reqs) /\ Len(Tail(q)) = 0
    BY <2>1, HeadTailProperties
  <2> QED
    BY <2>2, EmptySeq
<1>5. q = <<>> => Len(Append(q, x)) = 1
  OBVIOUS
<1>6. Listed(q) = {} => q = <<>>
  <2> SUFFICES ASSUME Listed(q) = {} PROVE q = <<>>
    OBVIOUS
  <2>1. Len(q) = 0
    <3>1. Len(q) > 0 => 1 \in DOMAIN q
      BY <1>1
    <3>2. Len(q) > 0 => q[1] \in Listed(q)
      BY <3>1 DEF Listed
    <3> QED
      BY <1>1, <3>2
  <2> QED
    BY <2>1, EmptySeq
<1> QED
  BY <1>2, <1>3, <1>4, <1>5, <1>6

-----------------------------------------------------------------------------
(* The round trip: from stage to stage.                                    *)

(* Nothing is added.                                                       *)
LEMMA LessPending ==
    ASSUME NEW s, NEW u, NEW r, NEW l, NEW a, NEW d, One(s, u, r, l, a, d),
           NEW u2 \in {u, <<>>}, NEW r2 \in {r, <<>>},
           NEW l2, InLoop(s, l2) \subseteq InLoop(s, l),
           NEW a2, Quiet(a) => Quiet(a2), Single(a) => Single(a2),
           Answered(a2) \subseteq Answered(a),
           NEW d2, Quiet(d) => Quiet(d2), Single(d) => Single(d2),
           Answered(d2) \subseteq Answered(d)
    PROVE  /\ One(s, u2, r2, l2, a2, d2)
           /\ Pending(s, u2, r2, l2, a2, d2) \subseteq Pending(s, u, r, l, a, d)
<1>1. Listed(u2) \subseteq Listed(u) /\ Listed(r2) \subseteq Listed(r)
  BY NoAnswers
<1>2. PICK w \in Stages : /\ u # <<>> => w = "up" /\ Len(u) = 1
                          /\ r # <<>> => w = "receive" /\ Len(r) = 1
                          /\ InLoop(s, l) # {} => w = "loop"
                          /\ ~Quiet(a) => w = "send" /\ Single(a)
                          /\ ~Quiet(d) => w = "down" /\ Single(d)
  BY DEF One
<1>3. One(s, u2, r2, l2, a2, d2)
  BY <1>2 DEF One
<1> QED
  BY <1>1, <1>3 DEF Pending

(* The server reads a request ...                                          *)
LEMMA ReadPending ==
    ASSUME NEW s, NEW u \in Seq(Reqs), NEW r \in Seq(Reqs), NEW l, NEW a, NEW d,
           One(s, u, r, l, a, d), u # <<>>
    PROVE  /\ One(s, Tail(u), Append(r, Head(u)), l, a, d)
           /\ Pending(s, Tail(u), Append(r, Head(u)), l, a, d)
                 \subseteq Pending(s, u, r, l, a, d)
<1>1. /\ Len(u) = 1 /\ r = <<>> /\ InLoop(s, l) = {} /\ Quiet(a) /\ Quiet(d)
  BY DEF One
<1>2. Head(u) \in Reqs
  BY HeadTail
<1>3. Tail(u) = <<>> /\ Len(Append(r, Head(u))) = 1
  BY <1>1, <1>2, RequestMoves
<1>4. One(s, Tail(u), Append(r, Head(u)), l, a, d)
  BY <1>1, <1>3 DEF One, Stages
<1>5. Listed(Tail(u)) \subseteq Listed(u) /\ Listed(Append(r, Head(u))) \subseteq Listed(r) \cup Listed(u)
  BY <1>2, RequestMoves
<1> QED
  BY <1>4, <1>5 DEF Pending

(* ... the message loop takes it ...                                       *)
LEMMA ReceivePending ==
    ASSUME NEW s, NEW u, NEW r \in Seq(Reqs), NEW l, NEW a, NEW d,
           One(s, u, r, l, a, d), r # <<>>, NEW l2, InLoop(s, l2) = {Head(r)}
    PROVE  /\ One(s, u, Tail(r), l2, a, d)
           /\ Pending(s, u, Tail(r), l2, a, d) \subseteq Pending(s, u, r, l, a, d)
<1>1. Len(r) = 1 /\ u = <<>> /\ Quiet(a) /\ Quiet(d)
  BY DEF One
<1>2. Head(r) \in Reqs
  BY HeadTail
<1>3. Tail(r) = <<>> /\ Head(r) \in Listed(r)
  BY <1>1, <1>2, RequestMoves
<1>4. One(s, u, Tail(r), l2, a, d)
  BY <1>1, <1>3 DEF One, Stages
<1>5. Listed(Tail(r)) = {}
  BY <1>3, NoAnswers
<1> QED
  BY <1>3, <1>4, <1>5 DEF Pending

(* ... answers it ...                                                      *)
LEMMA ReplyPending ==
    ASSUME NEW s, NEW u, NEW r, NEW l, NEW a \in Seq(Frames), NEW d,
           One(s, u, r, l, a, d), NEW f \in Frames, InLoop(s, l) = {f.id},
           NEW l2, InLoop(s, l2) = {}
    PROVE  /\ One(s, u, r, l2, Append(a, f), d)
           /\ Pending(s, u, r, l2, Append(a, f), d) \subseteq Pending(s, u, r, l, a, d)
<1>1. u = <<>> /\ r = <<>> /\ Quiet(a) /\ Quiet(d)
  BY DEF One
<1>2. Single(Append(a, f)) /\ Answered(Append(a, f)) \subseteq Answered(a) \cup {f.id}
  BY <1>1, FrameAdded
<1>3. One(s, u, r, l2, Append(a, f), d)
  BY <1>1, <1>2 DEF One, Stages
<1> QED
  BY <1>2, <1>3 DEF Pending

(* ... and writes the answer.                                              *)
LEMMA WritePending ==
    ASSUME NEW s, NEW u, NEW r, NEW l, NEW a \in Seq(Frames), NEW d \in Seq(Frames),
           One(s, u, r, l, a, d), a # <<>>
    PROVE  /\ One(s, u, r, l, Tail(a), Append(d, Head(a)))
           /\ Pending(s, u, r, l, Tail(a), Append(d, Head(a)))
                 \subseteq Pending(s, u, r, l, a, d)
<1>1. Head(a) \in Frames
  BY HeadTail
<1>2. /\ Quiet(a) => Quiet(Tail(a))
      /\ Single(a) => Single(Tail(a))
      /\ Answered(Tail(a)) \subseteq Answered(a)
  BY FirstTaken
<1>3. CASE Head(a).kind = "note"
  <2>1. /\ Quiet(d) => Quiet(Append(d, Head(a)))
        /\ Single(d) => Single(Append(d, Head(a)))
        /\ Answered(Append(d, Head(a))) \subseteq Answered(d)
    BY <1>1, <1>3, FrameAdded
  <2> QED
    BY <1>2, <2>1, LessPending
<1>4. CASE Head(a).kind # "note"
  <2>1. ~Quiet(a) /\ Head(a).id \in Answered(a) /\ (Single(a) => Quiet(Tail(a)))
    BY <1>4, FirstTaken
  <2>2. u = <<>> /\ r = <<>> /\ InLoop(s, l) = {} /\ Quiet(d) /\ Single(a)
    BY <2>1 DEF One
  <2>3. /\ Single(Append(d, Head(a)))
        /\ Answered(Append(d, Head(a))) \subseteq Answered(d) \cup {Head(a).id}
    BY <1>1, <2>2, FrameAdded
  <2>4. One(s, u, r, l, Tail(a), Append(d, Head(a)))
    BY <2>1, <2>2, <2>3 DEF One, Stages
  <2> QED
    BY <1>2, <2>1, <2>3, <2>4 DEF Pending
<1> QED
  BY <1>3, <1>4

(* The session reads it: nothing is on its way then.                       *)
LEMMA AwaitPending ==
    ASSUME NEW s, NEW u, NEW r, NEW l, NEW a, NEW d \in Seq(Frames),
           One(s, u, r, l, a, d), d # <<>>, Head(d).kind # "note"
    PROVE  /\ One(s, u, r, l, a, Tail(d))
           /\ Pending(s, u, r, l, a, Tail(d)) = {}
<1>1. ~Quiet(d) /\ (Single(d) => Quiet(Tail(d)))
  BY FirstTaken
<1>2. u = <<>> /\ r = <<>> /\ InLoop(s, l) = {} /\ Quiet(a) /\ Single(d)
  BY <1>1 DEF One
<1>3. One(s, u, r, l, a, Tail(d))
  BY <1>1, <1>2 DEF One
<1>4. Listed(u) = {} /\ Listed(r) = {} /\ Answered(a) = {} /\ Answered(Tail(d)) = {}
  BY <1>1, <1>2, NoAnswers
<1> QED
  BY <1>2, <1>3, <1>4 DEF Pending

(* It writes a request, when nothing is on its way.                        *)
LEMMA RequestPending ==
    ASSUME NEW s, NEW u \in Seq(Reqs), NEW r \in Seq(Reqs), NEW l, NEW a, NEW d,
           Pending(s, u, r, l, a, d) = {}, NEW x \in Reqs
    PROVE  /\ One(s, Append(u, x), r, l, a, d)
           /\ Pending(s, Append(u, x), r, l, a, d) \subseteq {x}
<1>1. Listed(u) = {} /\ Listed(r) = {} /\ InLoop(s, l) = {} /\ Answered(a) = {} /\ Answered(d) = {}
  BY DEF Pending
<1>2. u = <<>> /\ r = <<>>
  BY <1>1, RequestMoves
<1>3. Quiet(a) /\ Quiet(d)
  BY <1>1, NoAnswers
<1>4. Len(Append(u, x)) = 1 /\ Listed(Append(u, x)) = Listed(u) \cup {x}
  BY <1>2, RequestMoves
<1>5. One(s, Append(u, x), r, l, a, d)
  BY <1>1, <1>2, <1>3, <1>4 DEF One, Stages
<1> QED
  BY <1>1, <1>4, <1>5 DEF Pending
-----------------------------------------------------------------------------
(* The round trip: the steps.                                              *)

(* A session waits for one answer at a time.                               *)
LEMMA OneAwaited ==
    ASSUME Serial, NEW s \in Sess, NEW i, Awaits(s, i), NEW j, Awaits(s, j)
    PROVE  i = j
  BY DEF Awaits, Serial

(* A step that adds nothing to what is on its way, and ends no wait.       *)
LEMMA PipeKept ==
    ASSUME NEW t \in Sess, Pipe(t), Live(t)' => Live(t),
           conn[t] = "join" => conn'[t] = "join",
           \A r \in Reqs : On[r] = t /\ req[r] = "read" => req'[r] = "read",
           up'[t] \in {up[t], <<>>}, receive'[t] \in {receive[t], <<>>},
           InLoop(t, loop'[t]) \subseteq InLoop(t, loop[t]),
           \/ send'[t] \in {send[t], <<>>}
           \/ send[t] \in Seq(Frames) /\ send'[t] = Append(send[t], Note),
           down'[t] \in {down[t], <<>>}
    PROVE  Pipe(t)'
<1> SUFFICES ASSUME Live(t)'
             PROVE  /\ One(t, up[t], receive[t], loop[t], send[t], down[t])'
                    /\ \A i \in Pending(t, up[t], receive[t], loop[t], send[t], down[t])' :
                          Awaits(t, i)'
  BY DEF Pipe
<1>1. /\ One(t, up[t], receive[t], loop[t], send[t], down[t])
      /\ \A i \in Pending(t, up[t], receive[t], loop[t], send[t], down[t]) : Awaits(t, i)
  BY DEF Pipe
<1>2. \A i : Awaits(t, i) => Awaits(t, i)'
  BY DEF Awaits
<1>3. /\ Quiet(send[t]) => Quiet(send'[t])
      /\ Single(send[t]) => Single(send'[t])
      /\ Answered(send'[t]) \subseteq Answered(send[t])
  <2>1. Note \in Frames /\ Note.kind = "note"
    BY DEF Note, Frames
  <2>2. CASE send'[t] \in {send[t], <<>>}
    BY <2>2, NoAnswers
  <2>3. CASE send[t] \in Seq(Frames) /\ send'[t] = Append(send[t], Note)
    BY <2>1, <2>3, FrameAdded
  <2> QED
    BY <2>2, <2>3
<1>4. /\ Quiet(down[t]) => Quiet(down'[t])
      /\ Single(down[t]) => Single(down'[t])
      /\ Answered(down'[t]) \subseteq Answered(down[t])
  BY NoAnswers
<1>5. /\ One(t, up'[t], receive'[t], loop'[t], send'[t], down'[t])
      /\ Pending(t, up'[t], receive'[t], loop'[t], send'[t], down'[t])
            \subseteq Pending(t, up[t], receive[t], loop[t], send[t], down[t])
  BY SMTT(30), <1>1, <1>3, <1>4, LessPending
<1> QED
  BY <1>1, <1>2, <1>5

(* A step of the server that moves a call or its answer on.                *)
LEMMA PipeMoved ==
    ASSUME NEW t \in Sess, Pipe(t), UNCHANGED <<ws, dead, conn, req>>,
           Live(t) => One(t, up[t], receive[t], loop[t], send[t], down[t])',
           Live(t) => Pending(t, up[t], receive[t], loop[t], send[t], down[t])'
                         \subseteq Pending(t, up[t], receive[t], loop[t], send[t], down[t])
    PROVE  Pipe(t)'
<1>1. Live(t)' <=> Live(t)
  BY DEF Live
<1>2. \A i : Awaits(t, i) => Awaits(t, i)'
  BY DEF Awaits
<1> QED
  BY <1>1, <1>2 DEF Pipe

(* The steps of the server.                                                *)
LEMMA ServerPipe ==
    ASSUME PipeTypes, LoopIds, NEW s \in Sess, Server(s), NEW t \in Sess, Pipe(t)
    PROVE  Pipe(t)'
<1> USE DEF clientVars, sessVars, chanVars
<1>0. UNCHANGED <<conn, ws, dead, req>>
  BY ServerKeeps
<1>l. Live(t)' => Live(t)
  BY <1>0 DEF Live
<1>p. Live(t) => One(t, up[t], receive[t], loop[t], send[t], down[t])
  BY DEF Pipe
<1>t. /\ up \in [Sess -> Seq(Reqs)] /\ receive \in [Sess -> Seq(Reqs)]
      /\ send \in [Sess -> Seq(Frames)] /\ down \in [Sess -> Seq(Frames)]
      /\ loop \in [Sess -> Loops]
  BY DEF PipeTypes
<1>1. CASE Add(s) \/ Join(s) \/ HandleMessage(s) \/ LoopEnds(s)
  <2>1. /\ UNCHANGED <<up, receive, send, down>>
        /\ InLoop(t, loop'[t]) \subseteq InLoop(t, loop[t])
    BY <1>1, LoopSteps DEF Moves
  <2> QED
    BY <1>0, <1>l, <2>1, PipeKept
<1>2. CASE Receive(s)
  <2>1. /\ InLoop(s, loop'[s]) = {Head(receive[s])} /\ receive[s] # <<>>
        /\ receive' = [receive EXCEPT ![s] = Tail(@)] /\ UNCHANGED <<up, send, down>>
        /\ \A v \in Sess \ {s} : loop'[v] = loop[v]
    BY <1>2, ReceiveStep DEF Moves
  <2>2. CASE t # s
    BY <1>0, <1>l, <1>t, <2>1, <2>2, PipeKept
  <2>3. CASE t = s
    <3>1. up'[t] = up[t] /\ receive'[t] = Tail(receive[t]) /\ send'[t] = send[t] /\ down'[t] = down[t]
      BY <1>t, <2>1, <2>3
    <3> QED
      BY <1>0, <1>p, <1>t, <2>1, <2>3, <3>1, ReceivePending, PipeMoved
  <2> QED
    BY <2>2, <2>3
<1>3. CASE Reply(s)
  <2>1. /\ InLoop(s, loop'[s]) = {} /\ InLoop(s, loop[s]) = {loop[s].id}
        /\ UNCHANGED <<up, receive, down>> /\ \A v \in Sess \ {s} : loop'[v] = loop[v]
    BY <1>3, ReplyStep DEF Moves
  <2>2. PICK ok \in BOOLEAN, f \in Frames :
           f.id = loop[s].id /\ f.kind # "note" /\ Send(s, f, ok)
    BY <1>3, ReplyStep
  <2>3. /\ \A v \in Sess \ {s} : send'[v] = send[v]
        /\ send'[s] = IF ok THEN Append(send[s], f) ELSE send[s]
    BY <2>2, Sent
  <2>4. CASE t # s \/ ~ok
    <3>1. send'[t] = send[t] /\ InLoop(t, loop'[t]) \subseteq InLoop(t, loop[t])
      BY <2>1, <2>3, <2>4
    <3> QED
      BY <1>0, <1>l, <2>1, <3>1, PipeKept
  <2>5. CASE t = s /\ ok
    <3>1. send'[t] = Append(send[t], f)
      BY <2>3, <2>5
    <3>2. InLoop(t, loop[t]) = {f.id} /\ InLoop(t, loop'[t]) = {}
      BY <2>1, <2>2, <2>5
    <3>3. send[t] \in Seq(Frames)
      BY <1>t
    <3>4. ASSUME Live(t)
          PROVE  /\ One(t, up[t], receive[t], loop'[t], Append(send[t], f), down[t])
                 /\ Pending(t, up[t], receive[t], loop'[t], Append(send[t], f), down[t])
                      \subseteq Pending(t, up[t], receive[t], loop[t], send[t], down[t])
      BY <1>p, <3>2, <3>3, <3>4, ReplyPending
    <3> QED
      BY <1>0, <2>1, <3>1, <3>4, PipeMoved
  <2> QED
    BY <2>4, <2>5
<1>4. CASE \E v \in Sess : Cast(s, v)
  <2>1. PICK v \in Sess : Cast(s, v)
    BY <1>4
  <2>2. /\ UNCHANGED <<up, receive, down>>
        /\ InLoop(t, loop'[t]) \subseteq InLoop(t, loop[t])
    BY <2>1, CastStep DEF Moves
  <2>3. \/ send'[t] = send[t]
        \/ send[t] \in Seq(Frames) /\ send'[t] = Append(send[t], Note)
    <3>1. UNCHANGED send \/ \E ok \in BOOLEAN : Send(v, Note, ok)
      BY <2>1, CastStep
    <3>2. Note \in Frames
      BY DEF Note, Frames
    <3> QED
      BY <1>t, <3>1, <3>2, Sent
  <2> QED
    BY <1>0, <1>l, <2>2, <2>3, PipeKept
<1>5. CASE Exit(s)
  <2>1. /\ Shut({s}) /\ UNCHANGED down
        /\ receive' = [receive EXCEPT ![s] = <<>>] /\ send' = [send EXCEPT ![s] = <<>>]
        /\ InLoop(t, loop'[t]) \subseteq InLoop(t, loop[t])
    BY <1>5, ExitStep DEF Moves
  <2>2. /\ up'[t] \in {up[t], <<>>} /\ receive'[t] \in {receive[t], <<>>}
        /\ send'[t] \in {send[t], <<>>}
    BY <1>t, <2>1, ShutUp
  <2> QED
    BY <1>0, <1>l, <2>1, <2>2, PipeKept
<1>6. CASE Read(s)
  <2>1. /\ up[s] # <<>> /\ receive' = [receive EXCEPT ![s] = Append(@, Head(up[s]))]
        /\ up' = [up EXCEPT ![s] = Tail(@)] /\ UNCHANGED <<send, down, loop>>
    BY <1>6 DEF Read
  <2>2. CASE t # s
    <3>1. up'[t] = up[t] /\ receive'[t] = receive[t]
      BY <1>t, <2>1, <2>2
    <3> QED
      BY <1>0, <1>l, <2>1, <3>1, PipeKept
  <2>3. CASE t = s
    <3>1. up'[t] = Tail(up[t]) /\ receive'[t] = Append(receive[t], Head(up[t]))
      BY <1>t, <2>1, <2>3
    <3> QED
      BY <1>0, <1>p, <1>t, <2>1, <2>3, <3>1, ReadPending, PipeMoved
  <2> QED
    BY <2>2, <2>3
<1>7. CASE WriteFrame(s)
  <2>1. /\ send[s] # <<>> /\ down' = [down EXCEPT ![s] = Append(@, Head(send[s]))]
        /\ send' = [send EXCEPT ![s] = Tail(@)] /\ UNCHANGED <<up, receive, loop>>
    BY <1>7 DEF WriteFrame
  <2>2. CASE t # s
    <3>1. send'[t] = send[t] /\ down'[t] = down[t]
      BY <1>t, <2>1, <2>2
    <3> QED
      BY <1>0, <1>l, <2>1, <3>1, PipeKept
  <2>3. CASE t = s
    <3>1. send'[t] = Tail(send[t]) /\ down'[t] = Append(down[t], Head(send[t]))
      BY <1>t, <2>1, <2>3
    <3> QED
      BY <1>0, <1>p, <1>t, <2>1, <2>3, <3>1, WritePending, PipeMoved
  <2> QED
    BY <2>2, <2>3
<1>8. CASE ReadFails(s) \/ ReadTimeout(s) \/ WriterFails(s)
  <2>1. Shut({s}) /\ UNCHANGED <<receive, send, down, loop>>
    BY <1>8 DEF ReadFails, ReadTimeout, WriterFails
  <2>2. up'[t] \in {up[t], <<>>}
    BY <2>1, ShutUp
  <2> QED
    BY <1>0, <1>l, <2>1, <2>2, PipeKept
<1> QED
  BY <1>1, <1>2, <1>3, <1>4, <1>5, <1>6, <1>7, <1>8 DEF Server, Serving, Reading, Writing
(* A frame is read: the answer that is waited for, or a broadcast.         *)
LEMMA AwaitPipe ==
    ASSUME CallTypes, PipeTypes, Serial, NEW s \in Sess, NEW i \in Ids, Pipe(s), Await(s, i)
    PROVE  Pipe(s)' /\ got'[i] \in {got[i], i} /\ \A j \in Ids \ {i} : got'[j] = got[j]
<1> USE DEF clientVars, chanVars
<1> DEFINE f == Head(down[s])
           rest == [down EXCEPT ![s] = Tail(@)]
<1>0. /\ Awaits(s, i) /\ Live(s) /\ down[s] # <<>>
      /\ UNCHANGED <<dead, up, receive, send, loop>>
  BY DEF Await, Live
<1>t. /\ down \in [Sess -> Seq(Frames)] /\ down[s] \in Seq(Frames) /\ DOMAIN got = Ids
  BY DEF PipeTypes, CallTypes
<1>1. /\ f \in Frames /\ rest \in [Sess -> Seq(Frames)] /\ rest[s] = Tail(down[s])
      /\ \A t \in Sess \ {s} : rest[t] = down[t]
  BY <1>0, <1>t, HeadTail
<1>2. /\ One(s, up[s], receive[s], loop[s], send[s], down[s])
      /\ \A j \in Pending(s, up[s], receive[s], loop[s], send[s], down[s]) : Awaits(s, j)
  BY <1>0 DEF Pipe
<1>3. CASE f.kind # "note"
  <2>1. f.id \in Answered(down[s])
    BY <1>0, <1>3, <1>t, FirstTaken
  <2>2. f.id = i
    BY <1>0, <1>2, <2>1, OneAwaited DEF Pending
  <2>3. /\ One(s, up[s], receive[s], loop[s], send[s], Tail(down[s]))
        /\ Pending(s, up[s], receive[s], loop[s], send[s], Tail(down[s])) = {}
    BY <1>0, <1>2, <1>3, <1>t, AwaitPending
  <2>4. Return(s, i, f.kind, FALSE, rest) /\ got' = [got EXCEPT ![i] = f.id]
        /\ f.kind \in {"ok", "error"}
    BY <1>1, <1>3, <2>2 DEF Await, Frames
  <2>5. Returns(s, i, f.kind, rest)
    BY ZenonT(40), <1>0, <1>1, <2>4, Returned
  <2>6. \/ ws'[s] = "closed"
        \/ down'[s] = Tail(down[s])
    BY <1>1, <2>5 DEF Returns
  <2>7. Pipe(s)'
    <3>1. CASE ws'[s] = "closed"
      BY <3>1 DEF Pipe, Live
    <3>2. CASE down'[s] = Tail(down[s])
      BY <1>0, <2>3, <3>2 DEF Pipe
    <3> QED
      BY <2>6, <3>1, <3>2
  <2> QED
    BY <1>t, <2>2, <2>4, <2>7
<1>4. CASE f.kind = "note"
  <2>1. down' = rest /\ UNCHANGED <<conn, ws, req, got>>
    BY <1>4 DEF Await
  <2>2. /\ Quiet(down[s]) => Quiet(Tail(down[s]))
        /\ Single(down[s]) => Single(Tail(down[s]))
        /\ Answered(Tail(down[s])) \subseteq Answered(down[s])
    BY <1>0, <1>t, FirstTaken
  <2>3. /\ Quiet(send[s]) => Quiet(send[s])
        /\ Single(send[s]) => Single(send[s])
    OBVIOUS
  <2>4. /\ One(s, up[s], receive[s], loop[s], send[s], Tail(down[s]))
        /\ Pending(s, up[s], receive[s], loop[s], send[s], Tail(down[s]))
              \subseteq Pending(s, up[s], receive[s], loop[s], send[s], down[s])
    BY <1>2, <2>2, <2>3, LessPending
  <2>5. down'[s] = Tail(down[s])
    BY <1>1, <2>1
  <2>6. Pipe(s)'
    BY <1>0, <2>1, <2>4, <2>5, PipeMoved
  <2> QED
    BY <2>1, <2>6
<1> QED
  BY <1>3, <1>4

(* The steps of a call that waits, or gives up.                            *)
LEMMA EndsPipe ==
    ASSUME CallTypes, PipeTypes, Serial, NEW s \in Sess, NEW i \in Ids, Ends(s, i),
           NEW t \in Sess, Pipe(t)
    PROVE  Pipe(t)'
<1>0. UNCHANGED <<receive, send, loop>>
  BY CallsKeep
<1>1. CASE t # s
  <2>1. /\ conn'[t] = conn[t] /\ ws'[t] = ws[t] /\ down'[t] = down[t] /\ dead'[t] = dead[t]
        /\ up' = up
        /\ \A r \in Reqs : \/ req'[r] = req[r]
                           \/ /\ On[r] = s /\ req[r] \in {"write", "read"}
                              /\ req'[r] \in {"ok", "error", "failed"}
    BY <1>1, CallEnds
  <2>2. \A r \in Reqs : On[r] = t => req'[r] = req[r]
    BY <1>1, <2>1
  <2>3. Live(t)' => Live(t)
    BY <2>1 DEF Live
  <2> QED
    BY <1>0, <2>1, <2>2, <2>3, PipeKept
<1>2. CASE t = s /\ Await(s, i)
  BY <1>2, AwaitPipe
<1>3. CASE t = s /\ (AwaitFails(s, i) \/ Timeout(s, i))
  <2>1. dead \in [Sess -> SUBSET {"up", "down"}]
    BY DEF CallTypes
  <2>2. CASE dead' = [dead EXCEPT ![s] = @ \cup {"down"}]
    BY <1>3, <2>1, <2>2 DEF Pipe, Live
  <2>3. CASE dead' # [dead EXCEPT ![s] = @ \cup {"down"}]
    <3>1. /\ i \in Reqs /\ On[i] = s /\ req[i] = "write" /\ up' = up
          /\ Return(s, i, "failed", FALSE, down)
          /\ dead' = [dead EXCEPT ![s] = @ \cup {"up"}]
      BY <1>3, <2>3 DEF AwaitFails, Timeout
    <3>2. req' = [req EXCEPT ![i] = "failed"] /\ conn' = conn
      BY <3>1 DEF Return
    <3>3. \A r \in Reqs : req[r] = "read" => req'[r] = "read"
      BY <3>1, <3>2 DEF CallTypes
    <3>4. i \notin Sess
      BY <3>1, SdkAssumption
    <3>5. ws' = ws /\ down' = down
      BY <3>1, <3>4 DEF Return
    <3>6. Live(t)' => Live(t)
      BY <1>3, <2>1, <3>1, <3>5 DEF Live
    <3> QED
      BY <1>0, <3>1, <3>2, <3>3, <3>5, <3>6, PipeKept
  <2> QED
    BY <2>2, <2>3
<1> QED
  BY <1>1, <1>2, <1>3 DEF Ends

(* The steps of Connect and of the two Close.                              *)
LEMMA OpensPipe ==
    ASSUME CallTypes, PipeTypes, Undialled, Serial, NEW s \in Sess, Opens(s),
           NEW t \in Sess, Pipe(t)
    PROVE  Pipe(t)'
<1> USE DEF clientVars, chanVars
<1>t. /\ conn \in [Sess -> {"idle", "dial", "join", "register", "open", "failed"}]
      /\ ws \in [Sess -> {"none", "open", "closed"}]
  BY DEF CallTypes
<1>0. UNCHANGED <<receive, send, loop, up, req, dead>>
  BY CallsKeep DEF Opens, ConnectBegin, Dial, RegisterSession, SessionClose, CloseSession
<1>1. CASE Dial(s) /\ listening /\ t = s
  <2>1. conn[s] = "dial" /\ conn' = [conn EXCEPT ![s] = "join"] /\ UNCHANGED down
    BY <1>1 DEF Dial
  <2>2. /\ up[s] = <<>> /\ receive[s] = <<>> /\ send[s] = <<>> /\ down[s] = <<>>
        /\ loop[s] = NoLoop
    BY <2>1 DEF Undialled
  <2>3. InLoop(s, loop[s]) = {s}
    BY <2>2 DEF InLoop, NoLoop
  <2>4. One(s, up[s], receive[s], loop[s], send[s], down[s])
    BY <2>2, <2>3, NoAnswers DEF One, Stages
  <2>5. Pending(s, up[s], receive[s], loop[s], send[s], down[s]) = {s}
    BY <2>2, <2>3, NoAnswers DEF Pending
  <2>6. Awaits(s, s)'
    BY <1>t, <2>1 DEF Awaits
  <2> QED
    BY <1>0, <1>1, <2>1, <2>4, <2>5, <2>6 DEF Pipe
<1>2. CASE ~(Dial(s) /\ listening /\ t = s)
  <2>1. CASE Drop(s) /\ ~ConnectBegin(s) /\ ~Dial(s)
    <3>1. ws'[t] \in {ws[t], "closed"} /\ down'[t] \in {down[t], <<>>}
      BY <2>1, Dropped
    <3>2. conn[t] = "join" => conn'[t] = "join"
      BY <1>t, <2>1 DEF Opens, RegisterSession, SessionClose, CloseSession
    <3>3. Live(t)' => Live(t)
      BY <1>0, <3>1 DEF Live
    <3> QED
      BY <1>0, <3>1, <3>2, <3>3, PipeKept
  <2>2. CASE ConnectBegin(s) \/ Dial(s) \/ ~Drop(s)
    <3>1. down' = down /\ ws'[t] = ws[t]
      BY <1>2, <1>t, <2>2 DEF Opens, ConnectBegin, Dial, RegisterSession, SessionClose,
                              CloseSession, CloseTransport
    <3>2. conn[t] = "join" => conn'[t] = "join"
      BY <1>t DEF Opens, ConnectBegin, Dial, RegisterSession, SessionClose, CloseSession
    <3>3. Live(t)' => Live(t)
      BY <1>0, <3>1 DEF Live
    <3> QED
      BY <1>0, <3>1, <3>2, <3>3, PipeKept
  <2> QED
    BY <2>1, <2>2
<1> QED
  BY <1>1, <1>2

(* The steps of a request up to its answer.                                *)
LEMMA TripsPipe ==
    ASSUME CallTypes, PipeTypes, Serial, NEW x \in Reqs, Trips(x), NEW t \in Sess, Pipe(t)
    PROVE  Pipe(t)'
<1> USE DEF clientVars, chanVars
<1>t. /\ req \in [Reqs -> {"idle", "wait", "write", "read", "ok", "error", "failed"}]
      /\ dead \in [Sess -> SUBSET {"up", "down"}]
      /\ up \in [Sess -> Seq(Reqs)] /\ receive \in [Sess -> Seq(Reqs)]
      /\ On[x] \in Sess /\ x \notin Sess
  BY SdkAssumption DEF CallTypes, PipeTypes
<1>0. UNCHANGED <<receive, send, loop, down, ws, conn>>
  BY CallsKeep DEF Trips, Request, Lock, Write, WriteFails
<1>1. \A r \in Reqs : req[r] = "read" => req'[r] = "read"
  BY <1>t DEF Trips, Request, Lock, Write, WriteFails
<1>2. Live(t)' => Live(t)
  <2>1. dead' = dead \/ dead' = [dead EXCEPT ![On[x]] = @ \cup {"up"}]
    BY DEF Trips, Request, Lock, Write, WriteFails
  <2>2. dead'[t] = dead[t] \/ dead'[t] = dead[t] \cup {"up"}
    <3>1. CASE dead' = dead
      BY <3>1
    <3>2. CASE dead' = [dead EXCEPT ![On[x]] = @ \cup {"up"}]
      <4>1. DOMAIN dead = Sess
        BY <1>t
      <4> QED
        BY <4>1, <3>2
    <3> QED
      BY <2>1, <3>1, <3>2
  <2> QED
    BY <1>0, <2>2 DEF Live
<1>3. CASE up'[t] = up[t]
  BY <1>0, <1>1, <1>2, <1>3, PipeKept
<1>4. CASE up'[t] # up[t]
  <2>1. /\ t = On[x] /\ req[x] = "write" /\ req' = [req EXCEPT ![x] = "read"]
        /\ up'[t] = Append(up[t], x) /\ dead' = dead
    BY <1>4, <1>t DEF Trips, Request, Lock, Write, WriteFails
  <2>2. \A i : ~Awaits(t, i)
    BY <2>1 DEF Awaits, Serial
  <2>3. Awaits(t, x)'
    BY <1>t, <2>1 DEF Awaits
  <2> SUFFICES ASSUME Live(t) PROVE Pipe(t)'
    BY <1>2 DEF Pipe
  <2>4. Pending(t, up[t], receive[t], loop[t], send[t], down[t]) = {}
    BY <2>2 DEF Pipe
  <2>5. /\ One(t, Append(up[t], x), receive[t], loop[t], send[t], down[t])
        /\ Pending(t, Append(up[t], x), receive[t], loop[t], send[t], down[t]) \subseteq {x}
    BY <1>t, <2>4, RequestPending
  <2> QED
    BY <1>0, <2>1, <2>3, <2>5 DEF Pipe
<1> QED
  BY <1>3, <1>4
-----------------------------------------------------------------------------
(* Nothing else touches what a call got.                                   *)
LEMMA GotKept ==
    ASSUME \/ \E s \in Sess : Opens(s)
           \/ \E s \in Sess, i \in Ids : AwaitFails(s, i) \/ Timeout(s, i)
           \/ \E r \in Reqs : Trips(r)
           \/ \E s \in Sess : Server(s)
           \/ CloseBegin \/ CloseServer \/ CloseAll \/ UNCHANGED vars
    PROVE  UNCHANGED got
<1> USE DEF sessVars
<1>1. ASSUME NEW s \in Sess, Opens(s) PROVE UNCHANGED got
  BY <1>1 DEF Opens, ConnectBegin, Dial, RegisterSession, SessionClose, CloseSession
<1>2. ASSUME NEW s \in Sess, NEW i \in Ids, AwaitFails(s, i) \/ Timeout(s, i)
      PROVE  UNCHANGED got
  BY <1>2 DEF AwaitFails, Timeout
<1>3. ASSUME NEW r \in Reqs, Trips(r) PROVE UNCHANGED got
  BY <1>3 DEF Trips, Request, Lock, Write, WriteFails
<1>4. CASE CloseBegin \/ CloseServer \/ CloseAll \/ UNCHANGED vars
  BY <1>4 DEF CloseBegin, CloseServer, CloseAll, vars
<1> QED
  BY <1>1, <1>2, <1>3, <1>4, ServerKeeps

(* Every step keeps the round trips in order ...                           *)
LEMMA PipeStep ==
    ASSUME SdkInv, [Next]_vars PROVE \A t \in Sess : Pipe(t)'
<1> SUFFICES ASSUME NEW t \in Sess PROVE Pipe(t)'
  OBVIOUS
<1>0. /\ CallTypes /\ PipeTypes /\ Undialled /\ Serial /\ LoopIds /\ Pipe(t)
  BY DEF SdkInv
<1>1. ASSUME NEW s \in Sess, Opens(s) PROVE Pipe(t)'
  BY <1>0, <1>1, OpensPipe
<1>2. ASSUME NEW s \in Sess, NEW i \in Ids, Ends(s, i) PROVE Pipe(t)'
  BY <1>0, <1>2, EndsPipe
<1>3. ASSUME NEW r \in Reqs, Trips(r) PROVE Pipe(t)'
  BY <1>0, <1>3, TripsPipe
<1>4. ASSUME NEW s \in Sess, Server(s) PROVE Pipe(t)'
  BY <1>0, <1>4, ServerPipe
<1>5. CASE CloseBegin \/ CloseServer \/ CloseAll \/ UNCHANGED vars
  <2>1. /\ UNCHANGED <<conn, ws, dead, req, receive, send, down, loop>>
        /\ UNCHANGED up \/ Shut(reg)
    BY <1>5 DEF CloseBegin, CloseServer, CloseAll, vars, sessVars, chanVars
  <2>2. up'[t] \in {up[t], <<>>}
    BY <1>0, <2>1, ShutUp
  <2>3. Live(t)' => Live(t)
    BY <2>1 DEF Live
  <2> QED
    BY <1>0, <2>1, <2>2, <2>3, PipeKept
<1> QED
  BY <1>1, <1>2, <1>3, <1>4, <1>5, Steps

(* ... so that a call gets its own answer.                                 *)
LEMMA OwnReplyStep ==
    ASSUME SdkInv, [Next]_vars PROVE OwnReply'
<1>0. CallTypes /\ PipeTypes /\ Serial /\ OwnReply /\ \A s \in Sess : Pipe(s)
  BY DEF SdkInv
<1>1. ASSUME NEW s \in Sess, NEW i \in Ids, Await(s, i) PROVE OwnReply'
  <2>1. got'[i] \in {got[i], i} /\ \A j \in Ids \ {i} : got'[j] = got[j]
    BY <1>0, <1>1, AwaitPipe
  <2> QED
    BY <1>0, <2>1 DEF OwnReply
<1>2. CASE UNCHANGED got
  BY <1>0, <1>2 DEF OwnReply
<1> QED
  BY <1>1, <1>2, Steps, GotKept DEF Ends

(* Nothing has been called yet.                                            *)
LEMMA InitInv == Init => SdkInv
<1> SUFFICES ASSUME Init PROVE SdkInv
  OBVIOUS
<1> USE SdkAssumption DEF Init
<1>1. CallTypes
  BY DEF CallTypes
<1>2. PipeTypes
  <2>1. NoLoop \in Loops
    BY DEF NoLoop, Loops
  <2>2. <<>> \in Seq(Reqs) /\ <<>> \in Seq(Frames)
    OBVIOUS
  <2> QED
    BY <2>1, <2>2 DEF PipeTypes
<1>3. Transports /\ Undialled
  BY DEF Transports, Undialled
<1>4. Serial
  BY DEF Serial
<1>5. LoopIds
  BY DEF LoopIds, Sound, NoLoop
<1>6. \A s \in Sess : Pipe(s)
  BY DEF Pipe, Live
<1>7. OwnReply
  BY DEF OwnReply
<1> QED
  BY <1>1, <1>2, <1>3, <1>4, <1>5, <1>6, <1>7 DEF SdkInv

(* The inductive invariant of the SDK's sessions and their connections.    *)
THEOREM SdkInvariant == Spec => []SdkInv
<1>1. SdkInv /\ [Next]_vars => SdkInv'
  <2> SUFFICES ASSUME SdkInv, [Next]_vars PROVE SdkInv'
    OBVIOUS
  <2>0. CallTypes /\ PipeTypes /\ Transports /\ Undialled /\ Serial /\ LoopIds
    BY DEF SdkInv
  <2>1. CallTypes' /\ PipeTypes'
    BY <2>0, CallTypeStep, PipeTypeStep
  <2>2. Transports' /\ Undialled' /\ Serial' /\ LoopIds'
    BY <2>0, TransportsStep, UndialledStep, SerialStep, LoopIdsStep
  <2>3. (\A s \in Sess : Pipe(s)') /\ OwnReply'
    BY PipeStep, OwnReplyStep
  <2> QED
    BY <2>1, <2>2, <2>3 DEF SdkInv
<1> QED
  BY <1>1, InitInv, PTL DEF Spec

(* Whatever requests time out, fail or overlap, one that ends with an      *)
(* answer ends with its own.                                               *)
THEOREM EveryCallGetsItsOwnReply == Spec => []OwnReply
<1>1. SdkInv => OwnReply
  BY DEF SdkInv
<1> QED
  BY <1>1, SdkInvariant, PTL

(* Client.Close leaves no session with a transport, also when Connect or   *)
(* Session.Close was on its way.                                           *)
THEOREM CloseLeavesNoSession == Spec => []NoSessionOutlivesClose
<1>1. SdkInv => NoSessionOutlivesClose
  BY DEF SdkInv, Transports, NoSessionOutlivesClose
<1> QED
  BY <1>1, SdkInvariant, PTL
=============================================================================
