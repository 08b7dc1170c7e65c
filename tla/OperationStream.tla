-------------------------- MODULE OperationStream --------------------------
(***************************************************************************)
(* How a browser follows one command: lifecycle transactions append to the *)
(* command's durable event ledger; gateways announce committed events to   *)
(* their own subscribers and, through Redis, to those of other gateways;   *)
(* the SSE handler command_events replays the ledger and follows the       *)
(* announcements; the client reconnects with the last sequence it has seen *)
(* (domains/command, packages/runtime/operation_events.py and              *)
(* frontend/src/api/operation-events.ts).                                  *)
(*                                                                         *)
(* Redis is only a wake-up: announcements are lost, doubled and reordered. *)
(* An event is its sequence number and whether it ends the stream.         *)
(***************************************************************************)
EXTENDS Naturals, Sequences, FiniteSets

CONSTANTS
    Gateways,    \* replicas of the api-gateway
    Browsers,    \* clients that follow the command
    Origins,     \* how the command may come to be: "receipt", "workflow", "legacy"
    Limit,       \* rows of one list_command_operation_events
    QueueMax,    \* OPERATION_EVENT_QUEUE_MAX
    NoGateway,   \* a commit by the janitor or a worker, announced by nobody
    MaxEvents,   \* bound on the ledger's length
    MaxNotes,    \* bound on announcements waiting to be made
    MaxFaults    \* bound on crashes, lost calls and dropped connections

ASSUME StreamAssumption ==
    /\ NoGateway \notin Gateways
    /\ Origins \subseteq {"receipt", "workflow", "legacy"}
    /\ Limit \in Nat \ {0}
    /\ QueueMax \in Nat \ {0}
    /\ MaxEvents \in Nat
    /\ MaxNotes \in Nat
    /\ MaxFaults \in Nat

Kinds == {"progress", "end"}
Snapshots == {"snapshot", "snapshot_end"}
Ending == {"end", "snapshot_end"}

\* "emit" sends a batch read from the ledger, "wait" is subscription.next(),
\* "closing" is after the handler has returned or raised.
Subscribed == {"subscribed", "context", "row", "emit", "wait"}
Phases == {"away", "closing", "done", "failed"} \cup Subscribed

Event == [seq : Nat \ {0}, kind : Kinds \cup Snapshots]

\* OperationEventStreamOverflow in a queue of sequence numbers.
Overflow == 0

VARIABLES
    row,        \* the command: "absent", "active" or "over" for good
    log,        \* kinds of the ledger's events, by sequence
    notes,      \* announcements a gateway has still to make
    listening,  \* the gateway's Redis client and listener are up
    wire,       \* Redis messages on their way to each listener
    phase,      \* each browser's connection
    at,         \* the gateway that serves it
    queue,      \* its subscription: sequences announced
    delivered,  \* the handler's last sequence sent
    batch,      \* events read from the ledger, still to be sent
    last,       \* the batch ends with an ending event
    live,       \* the announced sequence that made the handler read; or 0
    sent,       \* events on their way to the browser
    got,        \* kinds the browser has yielded, by sequence
    faults      \* faults so far

ledgerVars == <<row, log>>
brokerVars == <<notes, listening, wire>>
serverVars == <<at, queue, delivered, batch, last, live>>
vars == <<ledgerVars, brokerVars, phase, serverVars, sent, got, faults>>

Note == [by : Gateways, seq : Nat \ {0}, local : BOOLEAN]

TypeOK ==
    /\ row \in {"absent", "active", "over"}
    /\ log \in Seq(Kinds)
    /\ notes \in SUBSET Note
    /\ listening \in [Gateways -> BOOLEAN]
    /\ wire \in [Gateways -> Seq(Nat \ {0})]
    /\ phase \in [Browsers -> Phases]
    /\ at \in [Browsers -> Gateways \cup {NoGateway}]
    /\ queue \in [Browsers -> Seq(Nat)]
    /\ \A b \in Browsers : Len(queue[b]) <= QueueMax
    /\ delivered \in [Browsers -> Nat]
    /\ batch \in [Browsers -> Seq(Event)]
    /\ last \in [Browsers -> BOOLEAN]
    /\ live \in [Browsers -> Nat]
    /\ sent \in [Browsers -> Seq(Event)]
    /\ got \in [Browsers -> Seq(Kinds \cup Snapshots)]
    /\ faults \in 0..MaxFaults

Init ==
    /\ row = "absent"
    /\ log = <<>>
    /\ notes = {}
    /\ listening = [g \in Gateways |-> TRUE]
    /\ wire = [g \in Gateways |-> <<>>]
    /\ phase = [b \in Browsers |-> "away"]
    /\ at = [b \in Browsers |-> NoGateway]
    /\ queue = [b \in Browsers |-> <<>>]
    /\ delivered = [b \in Browsers |-> 0]
    /\ batch = [b \in Browsers |-> <<>>]
    /\ last = [b \in Browsers |-> FALSE]
    /\ live = [b \in Browsers |-> 0]
    /\ sent = [b \in Browsers |-> <<>>]
    /\ got = [b \in Browsers |-> <<>>]
    /\ faults = 0

Fault ==
    /\ faults < MaxFaults
    /\ faults' = faults + 1

-----------------------------------------------------------------------------
(* The ledger *)

\* What the gateway g that committed event n has to announce.
Staged(g, n) ==
    IF g = NoGateway THEN {} ELSE {[by |-> g, seq |-> n, local |-> FALSE]}

\* A receipt commits the command and its first event together; a command a
\* workflow requests is projected without an event; a legacy command was over
\* for good before there was a ledger.  A failed command that may be retried is
\* still "active": its stream is open (StreamAgrees of AgentCommand).
Create(o, g) ==
    /\ row = "absent"
    /\ o \in Origins
    /\ (o = "receipt") = (g # NoGateway)
    /\ row' = IF o = "legacy" THEN "over" ELSE "active"
    /\ log' = IF o = "receipt" THEN <<"progress">> ELSE <<>>
    /\ notes' = notes \cup Staged(g, 1)
    /\ UNCHANGED <<listening, wire, phase, serverVars, sent, got, faults>>

Append_AfterEnd(k, g) ==
    /\ row # "absent"
    /\ Len(log) < MaxEvents
    /\ log' = Append(log, k)
    /\ row' = IF k = "end" THEN "over" ELSE row
    /\ notes' = notes \cup Staged(g, Len(log) + 1)
    /\ UNCHANGED <<listening, wire, phase, serverVars, sent, got, faults>>

\* append_command_operation_event_in_transaction: the cursor row gives the
\* next sequence, and none after the ending event (terminal_sequence).
AppendEvent(k, g) ==
    /\ row = "active"
    /\ Len(log) < MaxEvents
    /\ g # NoGateway => Cardinality(notes) < MaxNotes
    /\ log' = Append(log, k)
    /\ row' = IF k = "end" THEN "over" ELSE row
    /\ notes' = notes \cup Staged(g, Len(log) + 1)
    /\ UNCHANGED <<listening, wire, phase, serverVars, sent, got, faults>>

-----------------------------------------------------------------------------
(* The broker *)

\* _offer: a full queue is emptied and left with the overflow mark.
Offer(q, n) == IF Len(q) < QueueMax THEN Append(q, n) ELSE <<Overflow>>

\* Queues after gateway g has delivered event n to its subscribers.
Deliver(g, n) ==
    queue' = [b \in Browsers |->
                IF at[b] = g /\ phase[b] \in Subscribed
                THEN Offer(queue[b], n) ELSE queue[b]]

\* announce: first the gateway's own subscribers ...
AnnounceLocally(m) ==
    /\ m \in notes
    /\ ~m.local
    /\ Deliver(m.by, m.seq)
    /\ notes' = (notes \ {m}) \cup {[m EXCEPT !.local = TRUE]}
    /\ UNCHANGED <<ledgerVars, listening, wire, phase, at, delivered, batch,
                   last, live, sent, got, faults>>

\* ... then Redis, if there is a client.  Every listener gets the message, the
\* announcing gateway's own included.
AnnounceRemotely(m) ==
    /\ m \in notes
    /\ m.local
    /\ notes' = notes \ {m}
    /\ wire' = [g \in Gateways |->
                  IF listening[m.by] /\ listening[g]
                  THEN Append(wire[g], m.seq) ELSE wire[g]]
    /\ UNCHANGED <<ledgerVars, listening, phase, serverVars, sent, got, faults>>

\* _listen
Listen(g) ==
    /\ wire[g] # <<>>
    /\ Deliver(g, Head(wire[g]))
    /\ wire' = [wire EXCEPT ![g] = Tail(@)]
    /\ UNCHANGED <<ledgerVars, notes, listening, phase, at, delivered, batch,
                   last, live, sent, got, faults>>

\* The listener or a publish fails: the client is closed and what was on its
\* way is lost.
LoseRedis(g) ==
    /\ listening[g]
    /\ Fault
    /\ listening' = [listening EXCEPT ![g] = FALSE]
    /\ wire' = [wire EXCEPT ![g] = <<>>]
    /\ UNCHANGED <<ledgerVars, notes, phase, serverVars, sent, got>>

\* _reconnect
Reconnect(g) ==
    /\ ~listening[g]
    /\ listening' = [listening EXCEPT ![g] = TRUE]
    /\ UNCHANGED <<ledgerVars, notes, wire, phase, serverVars, sent, got, faults>>

-----------------------------------------------------------------------------
(* The SSE handler *)

Go(b, p) == phase' = [phase EXCEPT ![b] = p]

\* Whatever the handler held for the connection is gone.
Drop(b, p) ==
    /\ Go(b, p)
    /\ sent' = [sent EXCEPT ![b] = <<>>]
    /\ at' = [at EXCEPT ![b] = NoGateway]
    /\ queue' = [queue EXCEPT ![b] = <<>>]
    /\ delivered' = [delivered EXCEPT ![b] = 0]
    /\ batch' = [batch EXCEPT ![b] = <<>>]
    /\ last' = [last EXCEPT ![b] = FALSE]
    /\ live' = [live EXCEPT ![b] = 0]

\* list_command_operation_events: the rows after d, at most Limit of them.
Rows(d) ==
    IF d >= Len(log) THEN 0
    ELSE IF Len(log) - d < Limit THEN Len(log) - d ELSE Limit

Replay(d) == [i \in 1..Rows(d) |-> [seq |-> d + i, kind |-> log[d + i]]]

Read(b, events, n) ==
    /\ batch' = [batch EXCEPT ![b] = events]
    /\ last' = [last EXCEPT ![b] = events # <<>> /\ events[Len(events)].kind \in Ending]
    /\ live' = [live EXCEPT ![b] = n]

\* The client connects, with the last sequence it has yielded as cursor, and
\* is subscribed before the ledger is read.  It learnt the command's id from
\* the receipt or a list, so the command exists.
Subscribe(b, g) ==
    /\ phase[b] = "away"
    /\ row # "absent"
    /\ Go(b, "subscribed")
    /\ at' = [at EXCEPT ![b] = g]
    /\ queue' = [queue EXCEPT ![b] = <<>>]
    /\ delivered' = [delivered EXCEPT ![b] = Len(got[b])]
    /\ UNCHANGED <<ledgerVars, brokerVars, batch, last, live, sent, got, faults>>

InitialReplay(b) ==
    /\ phase[b] = "subscribed"
    /\ Read(b, Replay(delivered[b]), 0)
    /\ Go(b, IF Rows(delivered[b]) > 0 THEN "emit" ELSE "context")
    /\ UNCHANGED <<ledgerVars, brokerVars, at, queue, delivered, sent, got, faults>>

\* get_command_operation_event_context: without a ledger the handler falls
\* back on the command's row; a cursor ahead of the ledger is refused, which
\* the client takes as final.
ReadContext(b) ==
    /\ phase[b] = "context"
    /\ IF log # <<>> /\ delivered[b] > Len(log)
       THEN Drop(b, "failed")
       ELSE Go(b, IF log = <<>> THEN "row" ELSE "wait") /\ UNCHANGED <<serverVars, sent>>
    /\ UNCHANGED <<ledgerVars, brokerVars, got, faults>>

\* command_snapshot_event: one event, with sequence 1, of the row's status.
ReadRow(b) ==
    /\ phase[b] = "row"
    /\ LET kind == IF row = "over" THEN "snapshot_end" ELSE "snapshot"
       IN  Read(b, <<[seq |-> 1, kind |-> kind]>>, 0)
    /\ Go(b, "emit")
    /\ UNCHANGED <<ledgerVars, brokerVars, at, queue, delivered, sent, got, faults>>

Send(b, e) ==
    /\ sent' = [sent EXCEPT ![b] = Append(@, e)]
    /\ delivered' = [delivered EXCEPT ![b] = e.seq]

Hold(b) == UNCHANGED <<sent, delivered>>

\* emit: one event of the batch.  An event that is not the next one raises; an
\* ending one is the last to be sent.
Emit(b) ==
    /\ phase[b] = "emit"
    /\ batch[b] # <<>>
    /\ LET e == Head(batch[b])
           stale == e.seq <= delivered[b]
           gap == delivered[b] > 0 /\ e.seq > delivered[b] + 1
       IN  /\ IF stale \/ gap THEN Hold(b) ELSE Send(b, e)
           /\ batch' = [batch EXCEPT ![b] =
                          IF gap \/ (~stale /\ e.kind \in Ending) THEN <<>> ELSE Tail(@)]
           /\ Go(b, IF gap THEN "closing" ELSE "emit")
    /\ UNCHANGED <<ledgerVars, brokerVars, at, queue, last, live, got, faults>>

\* After the batch of a first read or a poll: return if it ended the stream.
EmittedAll(b) ==
    /\ phase[b] = "emit"
    /\ batch[b] = <<>>
    /\ live[b] = 0
    /\ Go(b, IF last[b] THEN "closing" ELSE "wait")
    /\ UNCHANGED <<ledgerVars, brokerVars, serverVars, sent, got, faults>>

\* Takes the announced event n: the next one is sent, and ends the stream if it
\* is an ending one; any other left over is a gap the ledger did not close.
TakeLive(b, n) ==
    IF n <= delivered[b] THEN Hold(b) /\ Go(b, "wait")
    ELSE IF n = delivered[b] + 1
         THEN /\ Send(b, [seq |-> n, kind |-> log[n]])
              /\ Go(b, IF log[n] \in Ending THEN "closing" ELSE "wait")
         ELSE Hold(b) /\ Go(b, "closing")

\* After the batch that was read to close a gap.
ClosedGap(b) ==
    /\ phase[b] = "emit"
    /\ batch[b] = <<>>
    /\ live[b] > 0
    /\ TakeLive(b, live[b])
    /\ UNCHANGED <<ledgerVars, brokerVars, at, queue, batch, last, live, got, faults>>

NextLive_TrustsOrder(b) ==
    /\ phase[b] = "wait"
    /\ queue[b] # <<>>
    /\ queue' = [queue EXCEPT ![b] = Tail(@)]
    /\ LET n == Head(queue[b])
       IN  IF n = Overflow \/ n <= delivered[b]
           THEN Go(b, IF n = Overflow THEN "closing" ELSE "wait") /\ Hold(b)
           ELSE Send(b, [seq |-> n, kind |-> log[n]]) /\ Go(b, "wait")
    /\ UNCHANGED <<ledgerVars, brokerVars, at, batch, last, live, got, faults>>

\* subscription.next() returns: the overflow mark raises, an event ahead of the
\* next one makes the handler read the ledger first.
NextLive(b) ==
    /\ phase[b] = "wait"
    /\ queue[b] # <<>>
    /\ queue' = [queue EXCEPT ![b] = Tail(@)]
    /\ LET n == Head(queue[b])
       IN  \/ /\ n = Overflow
              /\ Go(b, "closing")
              /\ UNCHANGED <<sent, delivered, batch, last, live>>
           \/ /\ n # Overflow
              /\ n <= delivered[b] + 1
              /\ TakeLive(b, n)
              /\ UNCHANGED <<batch, last, live>>
           \/ /\ n > delivered[b] + 1
              /\ Read(b, Replay(delivered[b]), n)
              /\ Go(b, "emit")
              /\ Hold(b)
    /\ UNCHANGED <<ledgerVars, brokerVars, at, got, faults>>

PollTimeout_KeepAliveOnly(b) ==
    /\ phase[b] = "wait"
    /\ queue[b] = <<>>
    /\ UNCHANGED vars

\* No announcement for OPERATION_EVENT_REPLAY_POLL_SECONDS: the ledger is read
\* again; when it has nothing new a keep-alive is sent.
PollTimeout(b) ==
    /\ phase[b] = "wait"
    /\ queue[b] = <<>>
    /\ Rows(delivered[b]) > 0
    /\ Read(b, Replay(delivered[b]), 0)
    /\ Go(b, "emit")
    /\ UNCHANGED <<ledgerVars, brokerVars, at, queue, delivered, sent, got, faults>>

-----------------------------------------------------------------------------
(* The client *)

\* consume: an event already seen is skipped, any other than the next one is an
\* invalid payload, which is final; an ending event completes the stream.
Receive(b) ==
    /\ sent[b] # <<>>
    /\ LET e == Head(sent[b])
           ahead == e.seq > Len(got[b]) + 1
           next == e.seq = Len(got[b]) + 1
       IN  /\ got' = IF next THEN [got EXCEPT ![b] = Append(@, e.kind)] ELSE got
           /\ IF ahead \/ (next /\ e.kind \in Ending)
              THEN Drop(b, IF ahead THEN "failed" ELSE "done")
              ELSE sent' = [sent EXCEPT ![b] = Tail(@)] /\ UNCHANGED <<phase, serverVars>>
    /\ UNCHANGED <<ledgerVars, brokerVars, faults>>

\* The response is over and read to its end: the client will reconnect.
EndOfResponse(b) ==
    /\ phase[b] = "closing"
    /\ sent[b] = <<>>
    /\ Drop(b, "away")
    /\ UNCHANGED <<ledgerVars, brokerVars, got, faults>>

\* The connection breaks; what was on its way is lost.
Disconnect(b) ==
    /\ phase[b] \in Subscribed \cup {"closing"}
    /\ Fault
    /\ Drop(b, "away")
    /\ UNCHANGED <<ledgerVars, brokerVars, got>>

\* A gateway dies with its announcements, its listener and its connections.
GatewayCrash(g) ==
    /\ Fault
    /\ phase' = [b \in Browsers |-> IF at[b] = g THEN "away" ELSE phase[b]]
    /\ at' = [b \in Browsers |-> IF at[b] = g THEN NoGateway ELSE at[b]]
    /\ queue' = [b \in Browsers |-> IF at[b] = g THEN <<>> ELSE queue[b]]
    /\ delivered' = [b \in Browsers |-> IF at[b] = g THEN 0 ELSE delivered[b]]
    /\ batch' = [b \in Browsers |-> IF at[b] = g THEN <<>> ELSE batch[b]]
    /\ last' = [b \in Browsers |-> IF at[b] = g THEN FALSE ELSE last[b]]
    /\ live' = [b \in Browsers |-> IF at[b] = g THEN 0 ELSE live[b]]
    /\ sent' = [b \in Browsers |-> IF at[b] = g THEN <<>> ELSE sent[b]]
    /\ notes' = {m \in notes : m.by # g}
    /\ listening' = [listening EXCEPT ![g] = FALSE]
    /\ wire' = [wire EXCEPT ![g] = <<>>]
    /\ UNCHANGED <<ledgerVars, got>>

-----------------------------------------------------------------------------
Handler(b) ==
    \/ InitialReplay(b)
    \/ ReadContext(b)
    \/ ReadRow(b)
    \/ Emit(b)
    \/ EmittedAll(b)
    \/ ClosedGap(b)
    \/ NextLive(b)
    \/ PollTimeout(b)

Client(b) ==
    \/ \E g \in Gateways : Subscribe(b, g)
    \/ Receive(b)
    \/ EndOfResponse(b)

Broker ==
    \/ \E m \in notes : AnnounceLocally(m) \/ AnnounceRemotely(m)
    \/ \E g \in Gateways : Listen(g) \/ Reconnect(g)

Next ==
    \/ \E g \in Gateways \cup {NoGateway} :
         \/ \E o \in Origins : Create(o, g)
         \/ \E k \in Kinds : AppendEvent(k, g)
    \/ Broker
    \/ \E g \in Gateways : LoseRedis(g) \/ GatewayCrash(g)
    \/ \E b \in Browsers : Handler(b) \/ Client(b) \/ Disconnect(b)

\* The event loop of a live gateway runs its handlers and the client's
\* reconnection loop never gives up; nothing is assumed of the broker.
Fairness == \A b \in Browsers : WF_vars(Handler(b)) /\ WF_vars(Client(b))

Spec == Init /\ [][Next]_vars
FairSpec == Spec /\ Fairness

-----------------------------------------------------------------------------
(* Properties *)

\* A client never meets an event out of sequence, nor is its cursor refused:
\* both end the stream for good (operation-events.ts: invalid-payload and
\* invalid-request are not retried).  The handler keeps its events contiguous
\* across replay, gaps, doubled announcements, overflow and reconnection.
NeverInvalid == \A b \in Browsers : phase[b] # "failed"

\* What may be told as event i of the command: the ledger's event i or, as its
\* first, the command's row as it was before there was a ledger.  A receipt has
\* its ledger from the start and a legacy command never gets one; only what a
\* workflow requests can be followed before its first event, and the snapshot
\* then stands in that event's place.
Says(i, k) ==
    \/ i \in 1..Len(log) /\ k = log[i]
    \/ /\ i = 1
       /\ \/ k = "snapshot" /\ (row = "active" \/ log # <<>>)
          \/ k = "snapshot_end" /\ row = "over"
       /\ log # <<>> => "workflow" \in Origins

\* A browser has yielded the durable history from its start, in order, and one
\* that takes the stream as completed has yielded all of it, or has been shown
\* the row of a command that was over: nothing is appended after an ending
\* event (terminal_sequence) and nothing is skipped.
Complete ==
    \A b \in Browsers :
        /\ \A i \in 1..Len(got[b]) : Says(i, got[b][i])
        /\ phase[b] = "done" =>
              /\ row = "over"
              /\ Len(got[b]) = Len(log) \/ got[b] = <<"snapshot_end">>

\* A workflow's command was shown to b before its first event, and that event
\* is its end (the janitor expires it, or it is cancelled, while it is queued).
\* The snapshot has taken sequence 1, so event 1 is never past b's cursor.
EndMissed(b) == got[b] = <<"snapshot">> /\ log = <<"end">>

\* Once a command is over, every browser that follows it is told, whoever
\* announces it, also when nobody does (the poll of command_events).  The one
\* exception is EndMissed, where neither a poll nor an announcement nor a
\* reconnection ever tells the browser.
EventuallyTold ==
    \A b \in Browsers : row = "over" ~> phase[b] = "done" \/ EndMissed(b)
=============================================================================
