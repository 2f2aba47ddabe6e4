-------------------------------- MODULE Sdk ---------------------------------
(***************************************************************************)
(* SDK sessions against the signaling server of their Client:              *)
(*   - Client and Session (pkg/slive/client.go, helpers.go): Connect,      *)
(*     request round trips, Session.Close, Client.Close;                   *)
(*   - Connection (internal/signaling/connection.go): the read and write   *)
(*     loops, their channels, blocking Send;                               *)
(*   - the message loop and the broadcasts of Handler.handleConnection,    *)
(*     and Handler.Shutdown (internal/signaling/handler.go).               *)
(*                                                                         *)
(* A Session reads its socket only during a round trip.  While it is idle  *)
(* what others broadcast to it fills the socket, then sendChan, and then   *)
(* blocks the broadcasting message loops until a write deadline passes.    *)
(***************************************************************************)
EXTENDS Naturals, Sequences, FiniteSets

CONSTANTS Sess,     \* sessions, each from one call of Connect
          Reqs,     \* calls of PublishTrack and SubscribeTrack
          On,       \* the session of each request
          Leavers,  \* sessions whose user may close them
          Publish,  \* those of them that publish; the others subscribe
          Cap,      \* of sendChan and of receiveChan
          Buf,      \* what a socket holds in one direction
          MaxFaults \* bound on deadlines that pass and requests that fail

ASSUME SdkAssumption ==
    /\ Reqs \cap Sess = {} /\ On \in [Reqs -> Sess] /\ Leavers \subseteq Sess
    /\ Publish \subseteq Reqs /\ Cap > 0 /\ Buf > 0 /\ MaxFaults \in Nat

(* Frames name the request they answer; the answer to connecting names     *)
(* the session.                                                            *)
Ids == Reqs \cup Sess

VARIABLES
    \* Client
    client,    \* "open", or how far Client.Close is
    sessions,  \* Client.sessions; those Close has yet to close, once it runs
    listening, \* the in-process HTTP server accepts
    \* Session
    conn,      \* where Connect is
    ws,        \* Session.ws: "none" before the dial, "closed" after closeTransport
    dead,      \* directions in which gorilla remembers an error, as it does for good
    leaving,   \* Session.Close: how far it is
    req,       \* where each request is
    got,       \* the frame that ended a request or a handshake
    \* the wire
    up, down,
    \* Connection
    link,      \* "open" while readLoop and writeLoop run, "shut" once closeChan
               \* is closed, which ends both
    reg,       \* registered in ConnectionManager
    receive, send,  \* receiveChan and sendChan
    \* Handler
    loop,      \* handleConnection: where it is, the request it handles, its
               \* outcome, and whom it has still to notify
    faults

clientVars == <<client, sessions, listening>>
sessVars   == <<conn, ws, dead, leaving, req, got>>
chanVars   == <<receive, send>>
vars == <<clientVars, sessVars, up, down, link, reg, chanVars, loop, faults>>

Nothing == <<>>
Note == [kind |-> "note", id |-> Nothing]
NoLoop == [at |-> "none", id |-> Nothing, kind |-> "ok", todo |-> {}]

Init ==
    /\ client = "open" /\ sessions = {} /\ listening = FALSE
    /\ conn = [s \in Sess |-> "idle"] /\ ws = [s \in Sess |-> "none"]
    /\ dead = [s \in Sess |-> {}] /\ leaving = [s \in Sess |-> "no"]
    /\ req = [r \in Reqs |-> "idle"] /\ got = [i \in Ids |-> Nothing]
    /\ up = [s \in Sess |-> <<>>] /\ down = [s \in Sess |-> <<>>]
    /\ link = [s \in Sess |-> "none"] /\ reg = {}
    /\ receive = [s \in Sess |-> <<>>] /\ send = [s \in Sess |-> <<>>]
    /\ loop = [s \in Sess |-> NoLoop]
    /\ faults = 0

Fault == faults < MaxFaults /\ faults' = faults + 1

-----------------------------------------------------------------------------
(* Connect: SignalingURL starts the server, unless the client is closed.   *)
ConnectBegin(s) ==
    /\ conn[s] = "idle"
    /\ IF client = "open"
       THEN conn' = [conn EXCEPT ![s] = "dial"] /\ listening' = TRUE
       ELSE conn' = [conn EXCEPT ![s] = "failed"] /\ UNCHANGED listening
    /\ UNCHANGED <<client, sessions, ws, dead, leaving, req, got, up, down,
                   link, reg, chanVars, loop, faults>>

(* The dial, and the server's upgrade: NewConnection starts the loops.     *)
Dial(s) ==
    /\ conn[s] = "dial"
    /\ IF listening
       THEN /\ conn' = [conn EXCEPT ![s] = "join"]
            /\ ws' = [ws EXCEPT ![s] = "open"]
            /\ link' = [link EXCEPT ![s] = "open"]
       ELSE /\ conn' = [conn EXCEPT ![s] = "failed"]
            /\ UNCHANGED <<ws, link>>
    /\ UNCHANGED <<clientVars, dead, leaving, req, got, up, down, reg, chanVars,
                   loop, faults>>

(* The rest of ServeHTTP.                                                  *)
Add(s) ==
    /\ ws[s] # "none" /\ loop[s] = NoLoop
    /\ reg' = reg \cup {s}
    /\ loop' = [loop EXCEPT ![s].at = "join"]
    /\ UNCHANGED <<clientVars, sessVars, up, down, link, chanVars, faults>>

(* The client's end of the socket is closed, with what was unread in it.   *)
Drop(s) == /\ ws' = [ws EXCEPT ![s] = "closed"]
           /\ down' = [down EXCEPT ![s] = <<>>]

(* Mutated: closeTransport takes the lock of the round trips.              *)
CloseTransport_Queues(s) ==
    /\ \A r \in Reqs : On[r] = s => req[r] \notin {"write", "read"}
    /\ Drop(s)

(* closeTransport needs closeMu only, which nobody holds over a read.      *)
CloseTransport(s) == Drop(s)

(* Mutated: closed is not checked.                                         *)
RegisterSession_Late(s) ==
    /\ conn[s] = "register"
    /\ sessions' = IF client = "open" THEN sessions \cup {s} ELSE sessions
    /\ conn' = [conn EXCEPT ![s] = "open"]
    /\ UNCHANGED <<client, listening, ws, dead, leaving, req, got, up, down,
                   link, reg, chanVars, loop, faults>>

(* registerSession, the last step of Connect.                              *)
RegisterSession(s) ==
    /\ conn[s] = "register"
    /\ IF client = "open"
       THEN /\ sessions' = sessions \cup {s} /\ UNCHANGED <<ws, down>>
            /\ conn' = [conn EXCEPT ![s] = "open"]
       ELSE /\ CloseTransport(s) /\ UNCHANGED sessions
            /\ conn' = [conn EXCEPT ![s] = "failed"]
    /\ UNCHANGED <<client, listening, dead, leaving, req, got, up, link,
                   reg, chanVars, loop, faults>>

-----------------------------------------------------------------------------
(* request: the caller waits for Session.mu ...                            *)
Request(r) ==
    /\ req[r] = "idle" /\ conn[On[r]] = "open"
    /\ req' = [req EXCEPT ![r] = "wait"]
    /\ UNCHANGED <<clientVars, conn, ws, dead, leaving, got, up, down, link,
                   reg, chanVars, loop, faults>>

(* Mutated: the round trips of a session are not serialized.               *)
Lock_Free(r) ==
    /\ req[r] = "wait" /\ req' = [req EXCEPT ![r] = "write"]
    /\ UNCHANGED <<clientVars, conn, ws, dead, leaving, got, up, down, link,
                   reg, chanVars, loop, faults>>

Lock(r) ==
    /\ req[r] = "wait"
    /\ \A q \in Reqs : On[q] = On[r] => req[q] \notin {"write", "read"}
    /\ req' = [req EXCEPT ![r] = "write"]
    /\ UNCHANGED <<clientVars, conn, ws, dead, leaving, got, up, down, link,
                   reg, chanVars, loop, faults>>

(* ... writeLocked: the request goes out, or the socket refuses it ...     *)
Write(r) ==
    LET s == On[r] IN
    /\ req[r] = "write" /\ ws[s] = "open" /\ "up" \notin dead[s] /\ Len(up[s]) < Buf
    /\ up' = IF link[s] = "open" THEN [up EXCEPT ![s] = Append(@, r)] ELSE up
    /\ req' = [req EXCEPT ![r] = "read"]
    /\ UNCHANGED <<clientVars, conn, ws, dead, leaving, got, down, link, reg,
                   chanVars, loop, faults>>

WriteFails(r) ==
    LET s == On[r] IN
    /\ req[r] = "write" /\ (ws[s] = "closed" \/ "up" \in dead[s] \/ link[s] = "shut")
    /\ req' = [req EXCEPT ![r] = "failed"]
    /\ dead' = [dead EXCEPT ![s] = @ \cup {"up"}]
    /\ UNCHANGED <<clientVars, conn, ws, leaving, got, up, down, link, reg,
                   chanVars, loop, faults>>

(* ... awaitLocked, also used by Connect, in which a session stands for    *)
(* its handshake.                                                          *)
Awaits(s, i) == IF i = s THEN conn[s] = "join"
                ELSE i \in Reqs /\ On[i] = s /\ req[i] = "read"

Tag(i) == IF i \in Sess THEN "join_room"
          ELSE IF i \in Publish THEN "publish_track" ELSE "subscribe_track"

(* The call returns.  Connect closes the transport unless it got its       *)
(* answer; an error that answers something else closes it for anybody.     *)
Return(s, i, result, close, rest) ==
    /\ IF i \in Reqs
       THEN req' = [req EXCEPT ![i] = result] /\ UNCHANGED conn
       ELSE /\ conn' = [conn EXCEPT ![s] = IF result = "ok" THEN "register" ELSE "failed"]
            /\ UNCHANGED req
    /\ IF close \/ (i \in Sess /\ result # "ok") THEN Drop(s)
       ELSE ws' = ws /\ down' = rest

(* A frame is read.                                                        *)
Await(s, i) ==
    LET f == Head(down[s])
        rest == [down EXCEPT ![s] = Tail(@)]
        own == Tag(f.id) = Tag(i)
    IN /\ Awaits(s, i) /\ ws[s] = "open" /\ "down" \notin dead[s] /\ down[s] # <<>>
       /\ \/ /\ f.kind \in {"ok", "error"} /\ own
             /\ Return(s, i, f.kind, FALSE, rest) /\ got' = [got EXCEPT ![i] = f.id]
          \/ /\ f.kind = "error" /\ ~own
             /\ Return(s, i, "failed", TRUE, rest) /\ UNCHANGED got
          \/ /\ f.kind = "note" \/ (f.kind = "ok" /\ ~own)
             /\ down' = rest /\ UNCHANGED <<conn, ws, req, got>>
       /\ UNCHANGED <<clientVars, dead, leaving, up, link, reg, chanVars,
                      loop, faults>>

(* The read fails: the transport was closed at this end or the other, or   *)
(* a read has failed before.                                               *)
AwaitFails(s, i) ==
    /\ Awaits(s, i)
    /\ ws[s] = "closed" \/ "down" \in dead[s] \/ (link[s] = "shut" /\ down[s] = <<>>)
    /\ Return(s, i, "failed", FALSE, down) /\ dead' = [dead EXCEPT ![s] = @ \cup {"down"}]
    /\ UNCHANGED <<clientVars, leaving, got, up, link, reg, chanVars,
                   loop, faults>>

(* A deadline passes while the call writes or reads.                       *)
Timeout(s, i) ==
    /\ ws[s] = "open" /\ Fault
    /\ \/ /\ Awaits(s, i) /\ down[s] = <<>>
          /\ Return(s, i, "failed", FALSE, down)
          /\ dead' = [dead EXCEPT ![s] = @ \cup {"down"}]
       \/ /\ i \in Reqs /\ On[i] = s /\ req[i] = "write" /\ Len(up[s]) = Buf
          /\ Return(s, i, "failed", FALSE, down)
          /\ dead' = [dead EXCEPT ![s] = @ \cup {"up"}]
    /\ UNCHANGED <<clientVars, leaving, got, up, link, reg, chanVars,
                   loop>>

(* Session.Close: the session is unregistered, then its transport closed.  *)
SessionClose(s) ==
    /\ conn[s] = "open" /\ s \in Leavers
    /\ \/ /\ leaving[s] = "no" /\ leaving' = [leaving EXCEPT ![s] = "transport"]
          /\ sessions' = IF client = "open" THEN sessions \ {s} ELSE sessions
          /\ UNCHANGED <<ws, down>>
       \/ /\ leaving[s] = "transport" /\ leaving' = [leaving EXCEPT ![s] = "done"]
          /\ CloseTransport(s) /\ UNCHANGED sessions
    /\ UNCHANGED <<client, listening, conn, dead, req, got, up, link,
                   reg, chanVars, loop, faults>>

-----------------------------------------------------------------------------
(* Connection.Close of some connections.                                   *)
Shut(S) == /\ link' = [s \in Sess |-> IF s \in S THEN "shut" ELSE link[s]]
           /\ up' = [s \in Sess |-> IF s \in S THEN <<>> ELSE up[s]]

(* Connection.readLoop.  The frame it holds while receiveChan is full is   *)
(* counted to the wire.  Its read fails when the client has gone, or when  *)
(* nothing came for the read timeout.                                      *)
Read(s) ==
    /\ link[s] = "open" /\ up[s] # <<>> /\ Len(receive[s]) < Cap
    /\ receive' = [receive EXCEPT ![s] = Append(@, Head(up[s]))]
    /\ up' = [up EXCEPT ![s] = Tail(@)]
    /\ UNCHANGED <<clientVars, sessVars, down, link, reg, send, loop, faults>>

ReadFails(s) ==
    /\ link[s] = "open" /\ ws[s] = "closed" /\ up[s] = <<>> /\ Shut({s})
    /\ UNCHANGED <<clientVars, sessVars, down, reg, chanVars, loop,
                   faults>>

ReadTimeout(s) ==
    /\ link[s] = "open" /\ ws[s] = "open" /\ up[s] = <<>> /\ Shut({s}) /\ Fault
    /\ UNCHANGED <<clientVars, sessVars, down, reg, chanVars, loop>>

(* Connection.writeLoop.  The frame it is writing is counted to sendChan.  *)
WriteFrame(s) ==
    /\ link[s] = "open" /\ send[s] # <<>> /\ ws[s] = "open" /\ Len(down[s]) < Buf
    /\ down' = [down EXCEPT ![s] = Append(@, Head(send[s]))]
    /\ send' = [send EXCEPT ![s] = Tail(@)]
    /\ UNCHANGED <<clientVars, sessVars, up, link, reg, receive, loop,
                   faults>>

(* A frame or a ping cannot be written, or the write deadline passes       *)
(* because nobody reads.                                                   *)
WriterFails(s) ==
    /\ link[s] = "open"
    /\ ws[s] = "closed" \/ (send[s] # <<>> /\ Len(down[s]) = Buf)
    /\ Shut({s})
    /\ UNCHANGED <<clientVars, sessVars, down, reg, chanVars, loop,
                   faults>>

-----------------------------------------------------------------------------
(* Mutated: Send waits for room in sendChan only.                          *)
Send_Waits(s, f, ok) ==
    ok /\ Len(send[s]) < Cap /\ send' = [send EXCEPT ![s] = Append(@, f)]

(* Connection.Send blocks until sendChan has room or the connection is     *)
(* closed.                                                                 *)
Send(s, f, ok) ==
    \/ ok /\ Len(send[s]) < Cap /\ send' = [send EXCEPT ![s] = Append(@, f)]
    \/ ~ok /\ link[s] = "shut" /\ UNCHANGED send

Handled == <<clientVars, sessVars, up, down, link, reg>>

(* handleConnection: the participant joins the room (module Session), the  *)
(* others are told and the client is answered; or joining fails.           *)
Join(s) ==
    /\ loop[s].at = "join"
    /\ \E k \in {"ok", "error"} :
          /\ IF k = "error" THEN Fault ELSE UNCHANGED faults
          /\ loop' = [loop EXCEPT ![s] =
                     [at |-> IF k = "ok" THEN "cast" ELSE "reply", id |-> s,
                      kind |-> k, todo |-> IF k = "ok" THEN Sess \ {s} ELSE {}]]
    /\ UNCHANGED <<Handled, receive, send>>

(* The message loop takes a request ...                                    *)
Receive(s) ==
    /\ loop[s].at = "recv" /\ receive[s] # <<>>
    /\ receive' = [receive EXCEPT ![s] = Tail(@)]
    /\ loop' = [loop EXCEPT ![s].at = "busy", ![s].id = Head(receive[s])]
    /\ UNCHANGED <<Handled, send, faults>>

(* ... and handleMessage handles it (modules Negotiation, RoomDomain and   *)
(* ForwarderRegistry), which may take any time: it waits for locks and for *)
(* pion.  A track that was published is to be announced.                   *)
HandleMessage(s) ==
    /\ loop[s].at = "busy"
    /\ \E k \in {"ok", "error"} :
          /\ IF k = "error" THEN Fault ELSE UNCHANGED faults
          /\ loop' = [loop EXCEPT
                ![s].at = "reply", ![s].kind = k,
                ![s].todo = IF k = "ok" /\ loop[s].id \in Publish THEN Sess \ {s}
                            ELSE {}]
    /\ UNCHANGED <<Handled, chanVars>>

(* The answer.  A handshake that fails ends the loop, without the cleanup; *)
(* a publication that could not be answered is not announced.              *)
Reply(s) ==
    /\ loop[s].at = "reply"
    /\ \E ok \in BOOLEAN :
       /\ Send(s, [kind |-> loop[s].kind, id |-> loop[s].id], ok)
       /\ loop' = [loop EXCEPT ![s] =
            IF loop[s].id = s /\ ~(ok /\ loop[s].kind = "ok")
            THEN [NoLoop EXCEPT !.at = "exit"]
            ELSE IF ok /\ loop[s].todo # {} THEN [loop[s] EXCEPT !.at = "cast"]
            ELSE [NoLoop EXCEPT !.at = "recv"]]
    /\ UNCHANGED <<Handled, receive, faults>>

(* broadcastToRoom: one connection after the other, each with a blocking   *)
(* Send.                                                                   *)
Cast(s, t) ==
    /\ loop[s].at = "cast" /\ t \in loop[s].todo
    /\ IF t \in reg /\ loop[t].at # "join"
       THEN \E ok \in BOOLEAN : Send(t, Note, ok)
       ELSE UNCHANGED send
    /\ LET rest == loop[s].todo \ {t} IN
       loop' = [loop EXCEPT ![s] =
                  IF rest # {} THEN [loop[s] EXCEPT !.todo = rest]
                  ELSE IF loop[s].id = s THEN [loop[s] EXCEPT !.at = "reply", !.todo = {}]
                  ELSE [NoLoop EXCEPT !.at = "recv"]]
    /\ UNCHANGED <<Handled, receive, faults>>

(* Receive fails: the connection was closed.  (readLoop closes receiveChan *)
(* only after that.)  The cleanup, handleConnectionClosed, is Session's.   *)
LoopEnds(s) ==
    /\ loop[s].at = "recv"
    /\ link[s] = "shut"
    /\ loop' = [loop EXCEPT ![s].at = "exit"]
    /\ UNCHANGED <<Handled, receive, send, faults>>

(* The deferred calls of handleConnection.                                 *)
Exit(s) ==
    /\ loop[s].at = "exit"
    /\ loop' = [loop EXCEPT ![s].at = "done"]
    /\ receive' = [receive EXCEPT ![s] = <<>>]
    /\ send' = [send EXCEPT ![s] = <<>>]
    /\ reg' = reg \ {s} /\ Shut({s})
    /\ UNCHANGED <<clientVars, sessVars, down, faults>>

-----------------------------------------------------------------------------
(* Client.Close marks the client closed ...                                *)
CloseBegin ==
    /\ client = "open" /\ client' = "sessions"
    /\ UNCHANGED <<sessions, listening, sessVars, up, down, link, reg,
                   chanVars, loop, faults>>

(* ... closes the transports of the sessions it had ...                    *)
CloseSession(s) ==
    /\ client = "sessions" /\ s \in sessions
    /\ sessions' = sessions \ {s} /\ CloseTransport(s)
    /\ UNCHANGED <<client, listening, conn, dead, leaving, req, got, up,
                   link, reg, chanVars, loop, faults>>

(* ... closes the HTTP server, which knows nothing of upgraded connections *)
CloseServer ==
    /\ client = "sessions" /\ sessions = {}
    /\ client' = "server" /\ listening' = FALSE
    /\ UNCHANGED <<sessions, sessVars, up, down, link, reg, chanVars, loop,
                   faults>>

(* ... and Handler.Shutdown closes the registered connections.             *)
CloseAll ==
    /\ client = "server" /\ client' = "done"
    /\ Shut(reg) /\ reg' = {}
    /\ UNCHANGED <<sessions, listening, sessVars, down, chanVars, loop,
                   faults>>

-----------------------------------------------------------------------------
Connecting(s) == Dial(s) \/ RegisterSession(s) \/ Await(s, s) \/ AwaitFails(s, s)
RoundTrip(r) == \/ Lock(r) \/ Write(r) \/ WriteFails(r)
                \/ Await(On[r], r) \/ AwaitFails(On[r], r)
Serving(s) == \/ Add(s) \/ Join(s) \/ Receive(s) \/ Reply(s) \/ LoopEnds(s)
              \/ Exit(s) \/ \E t \in Sess : Cast(s, t)
Reading(s) == Read(s) \/ ReadFails(s)
Writing(s) == WriteFrame(s) \/ WriterFails(s)
Closing == CloseServer \/ CloseAll \/ \E s \in Sess : CloseSession(s)

Next ==
    \/ \E s \in Sess : \/ ConnectBegin(s) \/ Connecting(s) \/ SessionClose(s)
                       \/ Serving(s) \/ HandleMessage(s)
                       \/ Reading(s) \/ ReadTimeout(s) \/ Writing(s)
                       \/ \E i \in Ids : Timeout(s, i)
    \/ \E r \in Reqs : Request(r) \/ RoundTrip(r)
    \/ CloseBegin \/ Closing

Spec == Init /\ [][Next]_vars

(* What goes on by itself: every goroutine but the callers.  No deadline   *)
(* of the client and no read deadline of the server need ever pass, and    *)
(* handling a message may take for ever.                                   *)
Fair == \/ \E s \in Sess : \/ Connecting(s)
                           \/ Serving(s)
                           \/ Reading(s)
                           \/ Writing(s)
                           \/ leaving[s] = "transport" /\ SessionClose(s)
        \/ \E r \in Reqs : RoundTrip(r)
        \/ Closing

(* Sessions, requests and faults are bounded, and every step uses one of   *)
(* them up or brings a call, a frame or a loop further: no behaviour steps *)
(* for ever, so that fairness for all is fairness for each.                *)
FairSpec == Spec /\ WF_vars(Fair)

-----------------------------------------------------------------------------
(* A round trip that ends with an answer ends with its own: neither        *)
(* another call on the same session nor one that was given up leaves an    *)
(* answer that a later call takes for its own, though answers are matched  *)
(* by their type only (request, awaitLocked).                              *)
OwnReply == \A i \in Ids : got[i] \in {Nothing, i}

(* Once Client.Close has returned no session that Connect handed out has a *)
(* transport, unless its own Close is about to close it; also when Connect *)
(* was on its way (registerSession, Client.Close).                         *)
NoSessionOutlivesClose ==
    client = "done" =>
        \A s \in Sess : conn[s] = "open" => ws[s] = "closed" \/ leaving[s] = "transport"

(* Once a client is being closed everything comes to an end: Close returns *)
(* though round trips are parked in a read because the server does not     *)
(* answer, and so do they; no message loop, reader or writer is left but   *)
(* for a loop whose handler never returns (closeTransport, Shutdown).      *)
Down == /\ client = "done"
        /\ \A r \in Reqs : req[r] \in {"idle", "ok", "error", "failed"}
        /\ \A s \in Sess : /\ conn[s] \in {"idle", "open", "failed"}
                           /\ loop[s].at \in {"none", "busy", "done"}
                           /\ link[s] # "open"
CloseEnds == <>[](client # "open" => Down)

(* A message loop that answers or broadcasts always gets on, though the    *)
(* sessions it sends to may never read, and may themselves be blocked in a *)
(* broadcast to it (Connection.Send, writeLoop).                           *)
SendEnds == <>[](\A s \in Sess : loop[s].at \notin {"cast", "reply"})
=============================================================================
