---------------------------- MODULE PortForward ----------------------------
(***************************************************************************)
(* One port-forward session: a desktop, the realtime gateway's             *)
(* PortForwardSessionBroker (port_forward_sessions.py) and the cluster     *)
(* agent's PortForwardController (port_forward_stream.py, driven by        *)
(* live_summary.py's _stream) relay TCP connections to a target over the   *)
(* agent's outbound websocket, with credit windows in both directions.     *)
(*                                                                         *)
(* Bytes are counted in frames: a frame takes one unit of credit, so the   *)
(* sequence number of a frame is the number of units sent before it.  The  *)
(* desktop and the target are not part of the repository: the desktop is   *)
(* any client that keeps the contract as far as it can see, the target     *)
(* sends, closes and fails at will.  A frame of the desktop is handled by  *)
(* the gateway in the step that sends it; what the gateway has for the     *)
(* desktop waits in the session's queue.                                   *)
(*                                                                         *)
(* The handlers are coroutines: a step ends where the code awaits and      *)
(* another task may change what it has read.                               *)
(***************************************************************************)
EXTENDS Naturals, Sequences, FiniteSetsExt

CONSTANTS
    Conns,      \* connection ids, within MAX_PORT_FORWARD_CONNECTIONS_PER_SESSION
    Window,     \* PORT_FORWARD_CREDIT_WINDOW_BYTES
    ByteLimit,  \* MAX_PORT_FORWARD_BYTES_PER_DIRECTION
    QueueMax,   \* PORT_FORWARD_BROWSER_QUEUE_MAX
    MaxFrames   \* bound on the frames each end sends over a connection

ASSUME PortForwardAssumption ==
    /\ Conns # {}
    /\ Window \in Nat \ {0}
    /\ ByteLimit \in Nat
    /\ QueueMax \in Nat \ {0}
    /\ MaxFrames \in Nat

VARIABLES
    \* the gateway
    gw,        \* the session: "absent", "auditing", "open", "done", "refused"
    opened,    \* opened_target is set
    g,         \* the session's connections
    total,     \* the session's byte counters
    out,       \* the queue to the desktop
    ending,    \* per task, the end it will record once PortForwardClose is sent
    loop,      \* serve_browser: "off", "opening", "receiving", "stopped"
    audit,     \* the audit record of its end
    \* the agent
    slot,      \* the session in the controller's table: "none", "open",
               \* "closing" (done, still in the table), "gone"
    a,         \* the session's connections
    atotal,    \* byte counters of the connections that ended
    tcp,       \* sockets to the target that are open
    aloop,     \* the receive loop: "idle", "connecting", "draining", "stopped"
    acur,      \* the connection it is busy with
    closer,    \* who runs _finish_session: "none", "loop", "watcher", "dead"
    rest,      \* connections that the closer has still to finish
    \* in between
    link,      \* the agent's websocket: "up", "lost", "closed"
    toAgent, toGateway,
    \* the desktop
    desk,      \* its view of the connections
    seen,      \* it has the opened receipt
    told       \* it knows that the session is over

gatewayVars == <<gw, opened, g, total, out, ending, loop, audit>>
tableVars == <<slot, closer, rest>>
agentVars == <<tableVars, a, atotal, tcp, aloop, acur>>
deskVars == <<desk, seen, told>>
vars == <<gatewayVars, agentVars, link, toAgent, toGateway, deskVars>>

Tasks == {"desktop", "agent"}
NoEnd == "none"
\* How a session ends: the gateway's own end (closed, a deadline, the byte
\* limit), the agent's end, or an error of either side.
Reasons == {"closed", "ended", "error"}

\* The connections in the dictionaries of the two ends.
Known == {c \in Conns : g[c].st \in {"pending", "open"}}
Live == {c \in Conns : a[c].st = "open"}

Msg(kind, c, n) == [kind |-> kind, c |-> c, n |-> n, m |-> 0]
Receipt(kind, c, n, m) == [kind |-> kind, c |-> c, n |-> n, m |-> m]
Anyone == CHOOSE c \in Conns : TRUE     \* for messages about no connection
Session(kind) == Msg(kind, Anyone, 0)

Init ==
    /\ gw = "absent" /\ opened = FALSE
    /\ g = [c \in Conns |-> [st |-> "none", closing |-> FALSE, dCredit |-> 0,
                             tCredit |-> Window, d |-> 0, t |-> 0]]
    /\ total = [d |-> 0, t |-> 0]
    /\ out = <<>>
    /\ ending = [k \in Tasks |-> NoEnd]
    /\ loop = "off"
    /\ audit = [reason |-> NoEnd, d |-> 0, t |-> 0]
    /\ slot = "none" /\ closer = "none" /\ rest = {}
    /\ a = [c \in Conns |-> [st |-> "none", by |-> "none", credit |-> Window,
                             in |-> 0, d |-> 0, t |-> 0, dHalf |-> FALSE,
                             tHalf |-> FALSE, reader |-> "off"]]
    /\ atotal = [d |-> 0, t |-> 0]
    /\ tcp = {}
    /\ aloop = "idle" /\ acur = Anyone
    /\ link = "up" /\ toAgent = <<>> /\ toGateway = <<>>
    /\ desk = [c \in Conns |-> [st |-> "none", credit |-> 0, sent |-> 0,
                                got |-> 0, owed |-> 0, half |-> FALSE]]
    /\ seen = FALSE /\ told = FALSE

-----------------------------------------------------------------------------
(* The gateway: ends of a session *)

\* _finish: the first end empties the queue, tells the desktop, frees the
\* session and records it; any other finds it done.
Finish(reason) ==
    IF gw = "done" THEN UNCHANGED <<gw, out, audit>>
    ELSE /\ gw' = "done"
         /\ out' = <<Session("final")>>
         /\ audit' = [reason |-> reason, d |-> total.d, t |-> total.t]

\* A send to the agent: into the websocket, or into the void when the socket
\* is dead and nobody has noticed.
Send(m) == toAgent' = IF link = "up" THEN Append(toAgent, m) ELSE toAgent

\* Mutant: the agent is told and the session never finished.
CloseWithReason_NoFinish(task, reason) ==
    /\ Send(Session("close"))
    /\ UNCHANGED <<ending, gw, out, audit>>

\* _close_with_reason, _protocol_error and _browser_closed tell the agent
\* first (errors suppressed) and call _finish when the send is through.
CloseWithReason(task, reason) ==
    /\ Send(Session("close"))
    /\ ending' = [ending EXCEPT ![task] = reason]
    /\ UNCHANGED <<gw, out, audit>>

ProtocolError(task) == CloseWithReason(task, "error")

FinishAfterClose(task) ==
    /\ ending[task] # NoEnd
    /\ Finish(ending[task])
    /\ ending' = [ending EXCEPT ![task] = NoEnd]
    /\ loop' = IF task = "desktop" THEN "stopped" ELSE loop
    /\ UNCHANGED <<opened, g, total, agentVars, link, toAgent, toGateway, deskVars>>

\* agent.send_json in the receive loop, which then looks at done again.  On a
\* socket that is known to be closed it raises, and serve_browser ends the
\* session.
Forward(m) ==
    /\ UNCHANGED ending
    /\ IF link = "closed"
       THEN /\ Finish("error")
            /\ loop' = "stopped"
            /\ UNCHANGED toAgent
       ELSE /\ Send(m)
            /\ loop' = IF gw = "done" THEN "stopped" ELSE "receiving"
            /\ UNCHANGED <<gw, out, audit>>

-----------------------------------------------------------------------------
(* The gateway: serve_browser *)

\* Limits, agent lookup, start frame and authorization are behind us.
Start ==
    /\ gw = "absent"
    /\ link = "up"
    /\ gw' = "auditing"
    /\ UNCHANGED <<opened, g, total, out, ending, loop, audit, agentVars, link,
                   toAgent, toGateway, deskVars>>

\* _audit_started raised: audit_unavailable, no session.
AuditFails ==
    /\ gw = "auditing"
    /\ gw' = "refused"
    /\ told' = TRUE
    /\ UNCHANGED <<opened, g, total, out, ending, loop, audit, agentVars, link,
                   toAgent, toGateway, desk, seen>>

AuditStarted ==
    /\ gw = "auditing"
    /\ gw' = "open"
    /\ loop' = "opening"
    /\ UNCHANGED <<opened, g, total, out, ending, audit, agentVars, link,
                   toAgent, toGateway, deskVars>>

OpenAtAgent ==
    /\ loop = "opening"
    /\ Forward(Session("open"))
    /\ UNCHANGED <<opened, g, total, agentVars, link, toGateway, deskVars>>

\* The loop waits in receive; it may get a frame after another task has set
\* done, because it looks at done only before it waits.
Receiving == loop = "receiving" /\ ending["desktop"] = NoEnd

DesktopSends == Receiving /\ ~told

\* port_forward.connection_open.
OpenConnection(c) ==
    /\ DesktopSends /\ seen
    /\ desk[c].st = "none"
    /\ desk' = [desk EXCEPT ![c].st = "asked"]
    /\ IF opened /\ c \notin Known
       THEN /\ g' = [g EXCEPT ![c].st = "pending"]
            /\ Forward(Msg("connection_open", c, 0))
       ELSE ProtocolError("desktop") /\ UNCHANGED <<g, loop>>
    /\ UNCHANGED <<opened, total, agentVars, link, toGateway, seen, told>>

\* Mutant: the byte limit is left to the agent.
DesktopData_NoLimit(c) ==
    /\ DesktopSends
    /\ desk[c].st = "open" /\ ~desk[c].half
    /\ desk[c].credit > 0 /\ desk[c].sent < MaxFrames
    /\ desk' = [desk EXCEPT ![c].credit = @ - 1, ![c].sent = @ + 1]
    /\ IF g[c].st = "open" /\ g[c].dCredit > 0 /\ g[c].d = desk[c].sent
       THEN /\ g' = [g EXCEPT ![c].dCredit = @ - 1, ![c].d = @ + 1]
            /\ total' = [total EXCEPT !.d = @ + 1]
            /\ Forward(Msg("data", c, desk[c].sent))
       ELSE ProtocolError("desktop") /\ UNCHANGED <<g, total, loop>>
    /\ UNCHANGED <<opened, agentVars, link, toGateway, seen, told>>

\* A binary frame: _browser_binary.
DesktopData(c) ==
    /\ DesktopSends
    /\ desk[c].st = "open" /\ ~desk[c].half
    /\ desk[c].credit > 0 /\ desk[c].sent < MaxFrames
    /\ desk' = [desk EXCEPT ![c].credit = @ - 1, ![c].sent = @ + 1]
    /\ \/ /\ g[c].st = "open" /\ g[c].dCredit > 0 /\ g[c].d = desk[c].sent
          /\ total.d < ByteLimit
          /\ g' = [g EXCEPT ![c].dCredit = @ - 1, ![c].d = @ + 1]
          /\ total' = [total EXCEPT !.d = @ + 1]
          /\ Forward(Msg("data", c, desk[c].sent))
       \/ /\ g[c].st = "open" /\ g[c].dCredit > 0 /\ g[c].d = desk[c].sent
          /\ total.d >= ByteLimit
          /\ CloseWithReason("desktop", "closed")
          /\ UNCHANGED <<g, total, loop>>
       \/ /\ ~(g[c].st = "open" /\ g[c].dCredit > 0 /\ g[c].d = desk[c].sent)
          /\ ProtocolError("desktop")
          /\ UNCHANGED <<g, total, loop>>
    /\ UNCHANGED <<opened, agentVars, link, toGateway, seen, told>>

\* port_forward.window: the desktop has consumed a frame.
GrantCredit(c) ==
    /\ DesktopSends
    /\ desk[c].st = "open" /\ desk[c].owed > 0
    /\ desk' = [desk EXCEPT ![c].owed = @ - 1]
    /\ IF c \in Known /\ g[c].tCredit < Window
       THEN /\ g' = [g EXCEPT ![c].tCredit = @ + 1]
            /\ Forward(Msg("window", c, 1))
       ELSE ProtocolError("desktop") /\ UNCHANGED <<g, loop>>
    /\ UNCHANGED <<opened, total, agentVars, link, toGateway, seen, told>>

\* port_forward.half_close.
HalfClose(c) ==
    /\ DesktopSends
    /\ desk[c].st = "open" /\ ~desk[c].half
    /\ desk' = [desk EXCEPT ![c].half = TRUE]
    /\ IF c \in Known THEN Forward(Msg("half_close", c, 0))
       ELSE ProtocolError("desktop") /\ UNCHANGED loop
    /\ UNCHANGED <<opened, g, total, agentVars, link, toGateway, seen, told>>

\* port_forward.connection_close.
CloseConnection(c) ==
    /\ DesktopSends
    /\ desk[c].st \in {"asked", "open"}
    /\ desk' = [desk EXCEPT ![c].st = "closing"]
    /\ IF c \in Known /\ ~g[c].closing
       THEN /\ g' = [g EXCEPT ![c].closing = TRUE]
            /\ Forward(Msg("connection_close", c, 0))
       ELSE ProtocolError("desktop") /\ UNCHANGED <<g, loop>>
    /\ UNCHANGED <<opened, total, agentVars, link, toGateway, seen, told>>

\* port_forward.close, or the desktop's websocket is gone.
CloseSession ==
    /\ DesktopSends
    /\ \/ IF link = "closed" THEN Forward(Session("close")) /\ UNCHANGED told
          ELSE CloseWithReason("desktop", "closed") /\ UNCHANGED <<loop, told>>
       \/ /\ told' = TRUE
          /\ IF gw = "done"
             THEN loop' = "stopped" /\ UNCHANGED <<gw, out, audit, ending, toAgent>>
             ELSE CloseWithReason("desktop", "closed") /\ UNCHANGED loop
    /\ UNCHANGED <<opened, g, total, agentVars, link, toGateway, desk, seen>>

\* The session's or the idle deadline has passed.
Timeout ==
    /\ Receiving
    /\ gw = "open"
    /\ CloseWithReason("desktop", "closed")
    /\ UNCHANGED <<opened, g, total, loop, agentVars, link, toGateway, deskVars>>

LoopEnds ==
    /\ Receiving
    /\ gw = "done"
    /\ loop' = "stopped"
    /\ UNCHANGED <<gw, opened, g, total, out, ending, audit, agentVars, link,
                   toAgent, toGateway, deskVars>>

-----------------------------------------------------------------------------
(* The gateway: frames of the agent *)

\* handle_agent_payload and handle_agent_binary take the next frame.
Frame(kind) ==
    /\ toGateway # <<>>
    /\ link # "closed"
    /\ ending["agent"] = NoEnd
    /\ Head(toGateway).kind = kind
    /\ toGateway' = Tail(toGateway)

\* The frame goes to the desktop's queue.
Offer(m) ==
    IF Len(out) < QueueMax
    THEN out' = Append(out, m) /\ UNCHANGED <<gw, audit, ending, toAgent>>
    ELSE ProtocolError("agent")

Expect(ok, m) == IF ok THEN Offer(m) ELSE ProtocolError("agent")

\* No session of that id any more.
FrameOfNoSession ==
    /\ gw # "open"
    /\ toGateway # <<>> /\ Frame(Head(toGateway).kind)
    /\ UNCHANGED <<gatewayVars, agentVars, link, toAgent, deskVars>>

OnOpened ==
    /\ gw = "open" /\ Frame("opened")
    /\ opened' = TRUE
    /\ Expect(~opened, Head(toGateway))
    /\ UNCHANGED <<g, total, loop, agentVars, link, deskVars>>

OnConnectionOpened(c) ==
    /\ gw = "open" /\ Frame("connection_opened")
    /\ Head(toGateway).c = c
    /\ g' = [g EXCEPT ![c].st = IF @ = "pending" THEN "open" ELSE @]
    /\ Expect(g[c].st = "pending", Head(toGateway))
    /\ UNCHANGED <<opened, total, loop, agentVars, link, deskVars>>

OnWindow(c) ==
    /\ gw = "open" /\ Frame("window")
    /\ Head(toGateway).c = c
    /\ LET n == Head(toGateway).n
           ok == c \in Known /\ g[c].dCredit + n <= Window
       IN  /\ g' = IF ok THEN [g EXCEPT ![c].dCredit = @ + n] ELSE g
           /\ Expect(ok, Head(toGateway))
    /\ UNCHANGED <<opened, total, loop, agentVars, link, deskVars>>

OnHalfClose(c) ==
    /\ gw = "open" /\ Frame("half_close")
    /\ Head(toGateway).c = c
    /\ Expect(c \in Known, Head(toGateway))
    /\ UNCHANGED <<opened, g, total, loop, agentVars, link, deskVars>>

\* Mutant: the receipt is not compared with what was relayed.
OnConnectionEnd_AnyReceipt(c) ==
    /\ gw = "open" /\ Frame("connection_end")
    /\ Head(toGateway).c = c
    /\ g' = IF c \in Known THEN [g EXCEPT ![c].st = "ended"] ELSE g
    /\ Expect(c \in Known, Head(toGateway))
    /\ UNCHANGED <<opened, total, loop, agentVars, link, deskVars>>

\* The byte receipt of a connection must agree with what was relayed.
OnConnectionEnd(c) ==
    /\ gw = "open" /\ Frame("connection_end")
    /\ Head(toGateway).c = c
    /\ LET ok == /\ c \in Known
                 /\ Head(toGateway).n = g[c].d /\ Head(toGateway).m = g[c].t
       IN  /\ g' = IF ok THEN [g EXCEPT ![c].st = "ended"] ELSE g
           /\ Expect(ok, Head(toGateway))
    /\ UNCHANGED <<opened, total, loop, agentVars, link, deskVars>>

\* Mutant: the session's end is taken while connections are open.
OnEnd_LiveConnections ==
    /\ gw = "open" /\ Frame("end")
    /\ IF Head(toGateway).n = total.d /\ Head(toGateway).m = total.t
       THEN Finish("ended") /\ UNCHANGED <<ending, toAgent>>
       ELSE ProtocolError("agent")
    /\ UNCHANGED <<opened, g, total, loop, agentVars, link, deskVars>>

OnEnd ==
    /\ gw = "open" /\ Frame("end")
    /\ IF Known = {} /\ Head(toGateway).n = total.d /\ Head(toGateway).m = total.t
       THEN Finish("ended") /\ UNCHANGED <<ending, toAgent>>
       ELSE ProtocolError("agent")
    /\ UNCHANGED <<opened, g, total, loop, agentVars, link, deskVars>>

OnError ==
    /\ gw = "open" /\ Frame("error")
    /\ Finish("error")
    /\ UNCHANGED <<opened, g, total, ending, loop, agentVars, link, toAgent, deskVars>>

\* A binary frame of the target.  Over the limit the session ends without a
\* word to the agent.
OnData(c) ==
    /\ gw = "open" /\ Frame("data")
    /\ Head(toGateway).c = c
    /\ IF ~(g[c].st = "open" /\ g[c].tCredit > 0 /\ g[c].t = Head(toGateway).n)
       THEN ProtocolError("agent") /\ UNCHANGED <<g, total>>
       ELSE IF total.t >= ByteLimit
       THEN Finish("closed") /\ UNCHANGED <<g, total, ending, toAgent>>
       ELSE /\ g' = [g EXCEPT ![c].tCredit = @ - 1, ![c].t = @ + 1]
            /\ total' = [total EXCEPT !.t = @ + 1]
            /\ Offer(Head(toGateway))
    /\ UNCHANGED <<opened, loop, agentVars, link, deskVars>>

\* agent_live sees the disconnect, or a new socket replaces the old one:
\* agent_disconnected ends every session of the connection.
AgentDisconnected ==
    /\ link = "lost"
    /\ link' = "closed"
    /\ toGateway' = <<>>
    /\ IF gw = "open" THEN Finish("error")
       ELSE UNCHANGED <<gw, out, audit>>
    /\ UNCHANGED <<opened, g, total, ending, loop, agentVars, toAgent, deskVars>>

-----------------------------------------------------------------------------
(* The desktop and the network *)

\* _browser_sender: the desktop gets the next frame of the queue.
Deliver ==
    /\ out # <<>> /\ ~told
    /\ LET m == Head(out)
           c == m.c
       IN  /\ desk' = CASE m.kind = "connection_opened" /\ desk[c].st = "asked" ->
                               [desk EXCEPT ![c].st = "open"]
                        [] m.kind = "window" -> [desk EXCEPT ![c].credit = @ + m.n]
                        [] m.kind = "data" ->
                               [desk EXCEPT ![c].got = @ + 1, ![c].owed = @ + 1]
                        [] m.kind = "connection_end" -> [desk EXCEPT ![c].st = "ended"]
                        [] OTHER -> desk
           /\ seen' = (seen \/ m.kind = "opened")
           /\ told' = (m.kind = "final")
    /\ out' = Tail(out)
    /\ UNCHANGED <<gw, opened, g, total, ending, loop, audit, agentVars, link,
                   toAgent, toGateway>>

\* serve_browser returns: the sender has a second for the rest of the queue,
\* then the socket is closed.
Hangup ==
    /\ loop = "stopped" /\ ~told
    /\ told' = TRUE
    /\ out' = <<>>
    /\ UNCHANGED <<gw, opened, g, total, ending, loop, audit, agentVars, link,
                   toAgent, toGateway, desk, seen>>

LinkLost ==
    /\ link = "up"
    /\ link' = "lost"
    /\ toAgent' = <<>>
    /\ UNCHANGED <<gatewayVars, agentVars, toGateway, deskVars>>

-----------------------------------------------------------------------------
(* The agent: PortForwardController *)

\* emit_event and emit_data; on a dead socket they raise, and what the task
\* that called them does then is part of each action.
Emit(ms) == toGateway' = IF link = "up" THEN toGateway \o ms ELSE toGateway

\* The receive loop is back at recv when every handler it awaits is through.
LoopReady ==
    /\ aloop = "idle"
    /\ closer # "loop"
    /\ \A c \in Conns : a[c].st = "ending" => a[c].by # "loop"

Take(kind) ==
    /\ LoopReady /\ link = "up"
    /\ toAgent # <<>> /\ Head(toAgent).kind = kind
    /\ toAgent' = Tail(toAgent)

InTable == slot \in {"open", "closing"}

\* The session's total in one direction: ended connections and live ones.
Relayed(dir) == atotal[dir] + MapThenSumSet(LAMBDA c : a[c][dir], Live)

\* A reader that is cancelled while it waits to send has counted its frame;
\* the frame may be out already or never go.
Unsent(c, by) ==
    IF a[c].reader = "emitting" /\ by # "reader"
    THEN {<<>>, <<Msg("data", c, a[c].t - 1)>>} ELSE {<<>>}

\* _finish_connection up to wait_closed: the connection leaves the session,
\* its reader is cancelled and its socket closed.
FinishConnection(c, by, ms) ==
    /\ \E frame \in Unsent(c, by) : Emit(ms \o frame)
    /\ a' = [a EXCEPT ![c].st = "ending", ![c].by = by, ![c].reader = "off"]
    /\ tcp' = tcp \ {c}

\* _fail_connection.
FailConnection(c, by) == FinishConnection(c, by, <<Session("error")>>)

\* ... and after it: the totals and the byte receipt.
EmitConnectionEnd(c) ==
    /\ a[c].st = "ending"
    /\ a' = [a EXCEPT ![c].st = "ended"]
    /\ atotal' = [d |-> atotal.d + a[c].d, t |-> atotal.t + a[c].t]
    /\ Emit(<<Receipt("connection_end", c, a[c].d, a[c].t)>>)
    /\ aloop' = IF link # "up" /\ (a[c].by = "loop" \/ closer = "loop")
                THEN "stopped" ELSE aloop
    /\ closer' = IF link # "up" /\ a[c].by = "closer" THEN "dead" ELSE closer
    /\ UNCHANGED <<gatewayVars, slot, rest, tcp, acur, link, toAgent, deskVars>>

\* _open: the target is resolved, or the request is refused.
Open ==
    /\ Take("open")
    /\ slot = "none"
    /\ \/ slot' = "open" /\ Emit(<<Session("opened")>>)
       \/ UNCHANGED slot /\ Emit(<<Session("error")>>)
    /\ UNCHANGED <<gatewayVars, closer, rest, a, atotal, tcp, aloop, acur, link,
                   deskVars>>

\* A frame for a session or a connection that is not there.
Ignore ==
    /\ toAgent # <<>>
    /\ LET m == Head(toAgent)
       IN  /\ Take(m.kind)
           /\ \/ m.kind # "open" /\ ~InTable
              \/ m.kind \in {"data", "window", "half_close", "connection_close"}
                 /\ m.c \notin Live
              \/ m.kind = "close" /\ slot = "closing"
    /\ UNCHANGED <<gatewayVars, agentVars, link, toGateway, deskVars>>

\* _open_connection waits for the connector.
OpenTcp(c) ==
    /\ Take("connection_open") /\ Head(toAgent).c = c
    /\ InTable /\ a[c].st = "none"
    /\ aloop' = "connecting" /\ acur' = c
    /\ UNCHANGED <<gatewayVars, tableVars, a, atotal, tcp, link, toGateway, deskVars>>

\* The session may be over by now: nothing looks.
TcpOpened ==
    /\ aloop = "connecting"
    /\ tcp' = tcp \cup {acur}
    /\ a' = [a EXCEPT ![acur].st = "open", ![acur].reader = "reading"]
    /\ Emit(<<Msg("connection_opened", acur, 0), Msg("window", acur, Window)>>)
    /\ aloop' = IF link = "up" THEN "idle" ELSE "stopped"
    /\ UNCHANGED <<gatewayVars, tableVars, atotal, acur, link, toAgent, deskVars>>

TcpRefused ==
    /\ aloop = "connecting"
    /\ Emit(<<Session("error")>>)
    /\ aloop' = IF link = "up" THEN "idle" ELSE "stopped"
    /\ UNCHANGED <<gatewayVars, tableVars, a, atotal, tcp, acur, link, toAgent,
                   deskVars>>

\* handle_data: the frame is written and the loop waits for drain (so that
\* input_credit is whole again whenever it is checked).
WriteData(c) ==
    /\ Take("data") /\ Head(toAgent).c = c
    /\ InTable /\ c \in Live
    /\ IF Head(toAgent).n # a[c].in
       THEN FailConnection(c, "loop") /\ UNCHANGED <<aloop, acur>>
       ELSE IF Relayed("d") >= ByteLimit
       THEN FinishConnection(c, "loop", <<>>) /\ UNCHANGED <<aloop, acur>>
       ELSE /\ a' = [a EXCEPT ![c].in = @ + 1]
            /\ aloop' = "draining" /\ acur' = c
            /\ UNCHANGED <<tcp, toGateway>>
    /\ UNCHANGED <<gatewayVars, tableVars, atotal, link, deskVars>>

\* Mutant: the credit of a frame that fills the window is not given back.
Drained_NoWindow ==
    /\ aloop = "draining"
    /\ a' = [a EXCEPT ![acur].d = @ + 1]
    /\ aloop' = IF link = "up" THEN "idle" ELSE "stopped"
    /\ UNCHANGED <<gatewayVars, tableVars, atotal, tcp, acur, link, toAgent,
                   toGateway, deskVars>>

\* The frame is counted and its credit given back.
Drained ==
    /\ aloop = "draining"
    /\ a' = [a EXCEPT ![acur].d = @ + 1]
    /\ Emit(<<Msg("window", acur, 1)>>)
    /\ aloop' = IF link = "up" THEN "idle" ELSE "stopped"
    /\ UNCHANGED <<gatewayVars, tableVars, atotal, tcp, acur, link, toAgent, deskVars>>

DrainFails ==
    /\ aloop = "draining"
    /\ IF acur \in Live /\ link = "up" THEN FailConnection(acur, "loop")
       ELSE Emit(<<Session("error")>>) /\ UNCHANGED <<a, tcp>>
    /\ aloop' = IF link = "up" THEN "idle" ELSE "stopped"
    /\ UNCHANGED <<gatewayVars, tableVars, atotal, acur, link, toAgent, deskVars>>

\* _grant_output_credit.
TakeCredit(c) ==
    /\ Take("window") /\ Head(toAgent).c = c
    /\ InTable /\ c \in Live
    /\ IF a[c].credit < Window
       THEN a' = [a EXCEPT ![c].credit = @ + 1] /\ UNCHANGED <<tcp, toGateway>>
       ELSE FailConnection(c, "loop")
    /\ UNCHANGED <<gatewayVars, tableVars, atotal, aloop, acur, link, deskVars>>

\* _half_close.
DesktopHalfClosed(c) ==
    /\ Take("half_close") /\ Head(toAgent).c = c
    /\ InTable /\ c \in Live
    /\ IF a[c].tHalf
       THEN FinishConnection(c, "loop", <<>>)
       ELSE a' = [a EXCEPT ![c].dHalf = TRUE] /\ UNCHANGED <<tcp, toGateway>>
    /\ UNCHANGED <<gatewayVars, tableVars, atotal, aloop, acur, link, deskVars>>

CloseTcp(c) ==
    /\ Take("connection_close") /\ Head(toAgent).c = c
    /\ InTable /\ c \in Live
    /\ FinishConnection(c, "loop", <<>>)
    /\ UNCHANGED <<gatewayVars, tableVars, atotal, aloop, acur, link, deskVars>>

-----------------------------------------------------------------------------
(* The agent: _read_target, one task for each connection *)

Reading(c) ==
    /\ c \in Live
    /\ a[c].reader = "reading"
    /\ a[c].credit > 0

\* The target has sent a frame; it is counted before it goes out.
ReadFrame(c) ==
    /\ Reading(c)
    /\ a[c].t < MaxFrames
    /\ IF Relayed("t") < ByteLimit
       THEN /\ a' = [a EXCEPT ![c].credit = @ - 1, ![c].t = @ + 1,
                              ![c].reader = "emitting"]
            /\ UNCHANGED <<tcp, toGateway>>
       ELSE FinishConnection(c, "reader", <<>>)
    /\ UNCHANGED <<gatewayVars, tableVars, atotal, aloop, acur, link, toAgent, deskVars>>

\* emit_data has the lock and the socket takes the frame; on a dead socket
\* the task dies of its exception.
SendFrame(c) ==
    /\ c \in Live /\ a[c].reader = "emitting"
    /\ Emit(<<Msg("data", c, a[c].t - 1)>>)
    /\ a' = [a EXCEPT ![c].reader = IF link = "up" THEN "reading" ELSE "dead"]
    /\ UNCHANGED <<gatewayVars, tableVars, atotal, tcp, aloop, acur, link,
                   toAgent, deskVars>>

\* End of file: half close, and the connection's end when both halves are.
ReadEof(c) ==
    /\ Reading(c)
    /\ IF link # "up"
       THEN /\ a' = [a EXCEPT ![c].tHalf = TRUE, ![c].reader = "dead"]
            /\ UNCHANGED <<tcp, toGateway>>
       ELSE IF a[c].dHalf
       THEN FinishConnection(c, "reader", <<Msg("half_close", c, 0)>>)
       ELSE /\ a' = [a EXCEPT ![c].tHalf = TRUE, ![c].reader = "off"]
            /\ Emit(<<Msg("half_close", c, 0)>>)
            /\ UNCHANGED tcp
    /\ UNCHANGED <<gatewayVars, tableVars, atotal, aloop, acur, link, toAgent, deskVars>>

ReadFails(c) ==
    /\ Reading(c)
    /\ IF link = "up" THEN FailConnection(c, "reader")
       ELSE a' = [a EXCEPT ![c].reader = "dead"] /\ UNCHANGED <<tcp, toGateway>>
    /\ UNCHANGED <<gatewayVars, tableVars, atotal, aloop, acur, link, toAgent, deskVars>>

-----------------------------------------------------------------------------
(* The agent: _finish_session *)

Closes(who) ==
    /\ slot = "open"
    /\ slot' = "closing"
    /\ closer' = who
    /\ rest' = Live

\* port_forward.close from the gateway.
CloseFrame ==
    /\ Take("close")
    /\ Closes("loop")
    /\ UNCHANGED <<gatewayVars, a, atotal, tcp, aloop, acur, link, toGateway, deskVars>>

\* _watch: the session's or the idle deadline has passed.
Watch ==
    /\ Closes("watcher")
    /\ UNCHANGED <<gatewayVars, a, atotal, tcp, aloop, acur, link, toAgent,
                   toGateway, deskVars>>

\* The stream's loop ends with the socket and runs close_all.
StreamEnds ==
    /\ link # "up"
    /\ \/ LoopReady /\ aloop' = "stopped" /\ UNCHANGED tableVars
       \/ aloop = "stopped" /\ Closes("loop") /\ UNCHANGED aloop
    /\ UNCHANGED <<gatewayVars, a, atotal, tcp, acur, link, toAgent, toGateway,
                   deskVars>>

CloserFree ==
    /\ closer \in {"loop", "watcher"}
    /\ \A c \in Conns : a[c].st = "ending" => a[c].by # "closer"

\* Mutant: the closer waits for a connection that another task has finished.
CloseNext_LiveOnly(c) ==
    /\ CloserFree
    /\ c \in rest /\ c \in Live
    /\ rest' = rest \ {c}
    /\ FinishConnection(c, "closer", <<>>)
    /\ UNCHANGED <<gatewayVars, slot, atotal, closer, aloop, acur, link, toAgent,
                   deskVars>>

\* The next connection of the list.  Awaiting a reader that died raises its
\* exception: the socket is not closed and the session stays in the table.
CloseNext(c) ==
    /\ CloserFree
    /\ c \in rest
    /\ rest' = rest \ {c}
    /\ \/ /\ c \notin Live
          /\ UNCHANGED <<a, tcp, closer, toGateway>>
       \/ /\ c \in Live /\ a[c].reader # "dead"
          /\ FinishConnection(c, "closer", <<>>)
          /\ UNCHANGED closer
       \/ /\ c \in Live /\ a[c].reader = "dead"
          /\ a' = [a EXCEPT ![c].st = "ended"]
          /\ closer' = "dead"
          /\ UNCHANGED <<tcp, toGateway>>
    /\ UNCHANGED <<gatewayVars, slot, atotal, aloop, acur, link, toAgent, deskVars>>

SessionEnds ==
    /\ CloserFree
    /\ rest = {}
    /\ slot' = "gone"
    /\ closer' = "none"
    /\ Emit(<<Receipt("end", Anyone, atotal.d, atotal.t)>>)
    /\ UNCHANGED <<gatewayVars, rest, a, atotal, tcp, aloop, acur, link, toAgent,
                   deskVars>>

-----------------------------------------------------------------------------
Desktop ==
    \/ \E c \in Conns : \/ OpenConnection(c) \/ DesktopData(c) \/ GrantCredit(c)
                        \/ HalfClose(c) \/ CloseConnection(c)
    \/ CloseSession

ServeBrowser ==
    \/ AuditStarted \/ OpenAtAgent \/ LoopEnds \/ Hangup
    \/ FinishAfterClose("desktop")

AgentLive ==
    \/ FrameOfNoSession \/ OnOpened \/ OnEnd \/ OnError
    \/ \E c \in Conns : \/ OnConnectionOpened(c) \/ OnWindow(c) \/ OnHalfClose(c)
                        \/ OnConnectionEnd(c) \/ OnData(c)
    \/ AgentDisconnected
    \/ FinishAfterClose("agent")

Loop ==
    \/ Open \/ Ignore \/ TcpOpened \/ TcpRefused \/ Drained \/ DrainFails
    \/ CloseFrame \/ StreamEnds
    \/ \E c \in Conns : \/ OpenTcp(c) \/ WriteData(c) \/ TakeCredit(c)
                        \/ DesktopHalfClosed(c) \/ CloseTcp(c)

Target(c) == ReadFrame(c) \/ ReadEof(c) \/ ReadFails(c)

Closer ==
    \/ SessionEnds
    \/ \E c \in Conns : CloseNext(c) \/ EmitConnectionEnd(c)

Next ==
    \/ Start \/ AuditFails \/ Desktop \/ ServeBrowser \/ AgentLive \/ Deliver
    \/ Timeout \/ Watch \/ LinkLost \/ Loop \/ Closer
    \/ \E c \in Conns : SendFrame(c) \/ Target(c)

Spec == Init /\ [][Next]_vars

\* serve_browser and _finish_session are scheduled again, and both deadlines
\* pass.  The desktop, the target, the network and the other tasks promise
\* nothing: neither end relies on the other.
Fairness ==
    /\ WF_vars(ServeBrowser) /\ WF_vars(Timeout)
    /\ WF_vars(Watch) /\ WF_vars(Closer)

FairSpec == Spec /\ Fairness

-----------------------------------------------------------------------------
(* Properties *)

Messages == [kind : {"open", "opened", "close", "end", "error", "final",
                     "connection_open", "connection_opened", "data", "window",
                     "half_close", "connection_close", "connection_end"},
             c : Conns, n : Nat, m : Nat]

GatewayConns == [st : {"none", "pending", "open", "ended"}, closing : BOOLEAN,
                 dCredit : 0..Window, tCredit : 0..Window,
                 d : 0..ByteLimit, t : 0..ByteLimit]
AgentConns == [st : {"none", "open", "ending", "ended"},
               by : {"none", "loop", "reader", "closer"},
               credit : 0..Window, in : Nat, d : Nat, t : 0..MaxFrames,
               dHalf : BOOLEAN, tHalf : BOOLEAN,
               reader : {"off", "reading", "emitting", "dead"}]
DesktopConns == [st : {"none", "asked", "open", "closing", "ended"},
                 credit : 0..Window, sent : 0..MaxFrames,
                 got : Nat, owed : Nat, half : BOOLEAN]
Audits == [reason : Reasons \cup {NoEnd}, d : 0..ByteLimit, t : 0..ByteLimit]

GatewayTypes ==
    /\ gw \in {"absent", "auditing", "open", "done", "refused"}
    /\ opened \in BOOLEAN
    /\ g \in [Conns -> GatewayConns]
    /\ total \in [d : 0..ByteLimit, t : 0..ByteLimit]
    /\ out \in Seq(Messages) /\ Len(out) <= QueueMax
    /\ ending \in [Tasks -> Reasons \cup {NoEnd}]
    /\ loop \in {"off", "opening", "receiving", "stopped"}
    /\ audit \in Audits

AgentTypes ==
    /\ slot \in {"none", "open", "closing", "gone"}
    /\ closer \in {"none", "loop", "watcher", "dead"}
    /\ rest \in SUBSET Conns
    /\ a \in [Conns -> AgentConns]
    /\ atotal \in [d : Nat, t : Nat]
    /\ tcp \in SUBSET Conns
    /\ aloop \in {"idle", "connecting", "draining", "stopped"}
    /\ acur \in Conns

LinkTypes ==
    /\ link \in {"up", "lost", "closed"}
    /\ toAgent \in Seq(Messages)
    /\ toGateway \in Seq(Messages)

DesktopTypes ==
    /\ desk \in [Conns -> DesktopConns]
    /\ seen \in BOOLEAN /\ told \in BOOLEAN

\* Credits stay within the window and the gateway's counters within the limit.
TypeOK == GatewayTypes /\ AgentTypes /\ LinkTypes /\ DesktopTypes

\* What is on its way.
Indices(q, kind, c) == {i \in DOMAIN q : q[i].kind = kind /\ q[i].c = c}
Count(q, kind, c) == Cardinality(Indices(q, kind, c))
One(b) == IF b THEN 1 ELSE 0

\* Units of credit in the window frames: unit k of frame i is <<i, k>>.
Units(q, c) == UNION {{i} \X (1..q[i].n) : i \in Indices(q, "window", c)}
Credit(q, c) == Cardinality(Units(q, c))

\* Flow control: while the session and the socket are up, the credit of a
\* connection is conserved in both directions.  What the gateway lets the
\* desktop send, what is on its way or being written, and what the agent is
\* handing back make up the window; what the agent may still send, what is on
\* its way and what is being granted is exactly what the gateway will accept.
\* A window update lost, doubled or given before the bytes are drained breaks
\* it, long before a frame is refused.
FlowControlled ==
    gw = "open" /\ link = "up" /\ InTable =>
        \A c \in Known \cap Live :
            /\ g[c].dCredit + Count(toAgent, "data", c)
                 + One(aloop = "draining" /\ acur = c) + Credit(toGateway, c) = Window
            /\ a[c].credit + One(a[c].reader = "emitting")
                 + Count(toGateway, "data", c) + Count(toAgent, "window", c)
                 = g[c].tCredit

\* The byte receipt of a connection is true end to end: if the desktop holds
\* it and the session goes on, the target was written what the desktop had
\* sent and the desktop holds what was read from the target, although the
\* reader may be cancelled between counting a frame and sending it and frames
\* of the desktop may cross the end.
ReceiptTrue ==
    gw = "open" /\ ending = [k \in Tasks |-> NoEnd] =>
        \A c \in Conns : desk[c].st = "ended" =>
            desk[c].got = a[c].t /\ desk[c].sent = a[c].d

\* The frames counted by f over all connections, and their number.
Frames(f) == UNION {{c} \X (1..f[c]) : c \in Conns}
SumOf(f) == Cardinality(Frames(f))

\* The audit record of a session that the agent ended has the bytes the agent
\* relayed, over all connections, one that was still being opened included.
AuditTrue ==
    audit.reason = "ended" =>
        /\ audit.d = SumOf([c \in Conns |-> a[c].d])
        /\ audit.t = SumOf([c \in Conns |-> a[c].t])

\* The desktop of an open session learns that it is over or is hung up on,
\* whatever becomes of the agent: no path leaves serve_browser waiting.
EventuallyTold == gw = "open" ~> told

\* The agent's table gives a session back, although the gateway may have
\* ended it without a word: the watcher and the close frame do not wait for
\* each other, nor for connections that end by themselves meanwhile.
EventuallyReleased == slot = "open" ~> (slot = "gone" \/ link # "up")

=============================================================================
