---------------------------- MODULE OutboxRelay ----------------------------
(***************************************************************************)
(* The publishing half of the event pipeline: rows that a transaction      *)
(* staged in the outbox are leased in batches by relays, published to      *)
(* JetStream and marked sent; a retention sweep quarantines rows that were *)
(* never sent (packages/runtime/relay.py, services/gateway/outbox-relay    *)
(* and packages/storage/repositories/outbox.py).                           *)
(*                                                                         *)
(* Every worker runs a relay too, so several relays compete for the rows.  *)
(* An event is its row id: ids grow in the order of insertion.             *)
(***************************************************************************)
EXTENDS Naturals, FiniteSets

CONSTANTS
    Rows,           \* outbox row ids
    TooLarge,       \* the events whose publish raises MaxPayloadError
    Relays,         \* relay loops
    Batch,          \* OUTBOX_RELAY_BATCH
    LeaseSeconds,   \* DEFAULT_OUTBOX_LEASE_SECONDS
    MaxBatchTime,   \* longest time between a lease and its run_once's end
    MaxFaults       \* bound on crashes and failed calls

ASSUME RelayAssumption ==
    /\ Rows \subseteq Nat
    /\ TooLarge \subseteq Rows
    /\ Batch \in Nat \ {0}
    /\ LeaseSeconds \in Nat \ {0}
    /\ MaxBatchTime \in Nat
    /\ MaxFaults \in Nat

VARIABLES
    row,        \* "absent", "unsent" (sent_at null), "sent" or "deleted"
    lease,      \* time left of the row's lease; 0: none or expired
    old,        \* the row's occurred_at is before the retention cutoff
    stored,     \* copies of the event in the stream
    window,     \* the stream still remembers the event's Nats-Msg-Id
    captured,   \* dead-letter rows written for the event
    relay,      \* phase of each relay
    todo,       \* leased rows a relay has still to publish
    published,  \* rows a relay has published and not yet marked
    busy,       \* time since the relay's lease
    swept,      \* rows the retention sweep has selected and not yet updated
    faults      \* crashes and failed calls so far

rowVars == <<row, lease, old>>
relayVars == <<relay, todo, published, busy>>
outboxVars == <<rowVars, stored, window, captured, relayVars, swept, faults>>

RelayTypeOK ==
    /\ row \in [Rows -> {"absent", "unsent", "sent", "deleted"}]
    /\ lease \in [Rows -> 0..LeaseSeconds]
    /\ old \in [Rows -> BOOLEAN]
    /\ stored \in [Rows -> Nat]
    /\ window \in [Rows -> BOOLEAN]
    /\ captured \in [Rows -> Nat]
    /\ relay \in [Relays -> {"idle", "publishing", "marking"}]
    /\ todo \in [Relays -> SUBSET Rows]
    /\ published \in [Relays -> SUBSET Rows]
    /\ busy \in [Relays -> 0..MaxBatchTime]
    /\ swept \in SUBSET Rows
    /\ faults \in 0..MaxFaults
    /\ \A r \in Relays : relay[r] = "idle" => todo[r] = {} /\ published[r] = {}

RelayInit ==
    /\ row = [e \in Rows |-> "absent"]
    /\ lease = [e \in Rows |-> 0]
    /\ old = [e \in Rows |-> FALSE]
    /\ stored = [e \in Rows |-> 0]
    /\ window = [e \in Rows |-> FALSE]
    /\ captured = [e \in Rows |-> 0]
    /\ relay = [r \in Relays |-> "idle"]
    /\ todo = [r \in Relays |-> {}]
    /\ published = [r \in Relays |-> {}]
    /\ busy = [r \in Relays |-> 0]
    /\ swept = {}
    /\ faults = 0

-----------------------------------------------------------------------------
(* Building blocks *)

RelayFault ==
    /\ faults < MaxFaults
    /\ faults' = faults + 1

\* unsent_events: rows without sent_at whose lease is absent or expired.
Available == {e \in Rows : row[e] = "unsent" /\ lease[e] = 0}

\* ORDER BY id LIMIT Batch.
FirstBatch(S, B) ==
    /\ B \subseteq S
    /\ Cardinality(B) <= Batch
    /\ Cardinality(B) = Batch \/ B = S
    /\ \A x \in B, y \in S \ B : x < y

\* The rows of S get sent_at and lose their lease.
SentRows(S) ==
    /\ row' = [e \in Rows |-> IF e \in S /\ row[e] # "deleted"
                                THEN "sent" ELSE row[e]]
    /\ lease' = [e \in Rows |-> IF e \in S THEN 0 ELSE lease[e]]
    /\ UNCHANGED old

\* publish_envelope reached the stream: a copy is kept unless the stream
\* remembers the message id.
Store(e) ==
    /\ stored' = [stored EXCEPT ![e] = IF window[e] THEN @ ELSE @ + 1]
    /\ window' = [window EXCEPT ![e] = TRUE]

Idle(r) ==
    /\ relay' = [relay EXCEPT ![r] = "idle"]
    /\ todo' = [todo EXCEPT ![r] = {}]
    /\ published' = [published EXCEPT ![r] = {}]
    /\ busy' = [busy EXCEPT ![r] = 0]

-----------------------------------------------------------------------------
(* Rows and time *)

\* stage_events (ON CONFLICT DO NOTHING), in the business transaction.
Stage(e) ==
    /\ row[e] = "absent"
    /\ row' = [row EXCEPT ![e] = "unsent"]
    /\ UNCHANGED <<lease, old, stored, window, captured, relayVars, swept, faults>>

\* The row passes the age at which retention looks at it (7 days; a lease is
\* a minute, so it comes as an event of its own).
GrowOld(e) ==
    /\ row[e] \in {"unsent", "sent"}
    /\ ~old[e]
    /\ old' = [old EXCEPT ![e] = TRUE]
    /\ UNCHANGED <<row, lease, stored, window, captured, relayVars, swept, faults>>

\* The stream forgets the message id (STREAM_DUPLICATE_WINDOW_SECONDS).
WindowCloses(e) ==
    /\ window[e]
    /\ window' = [window EXCEPT ![e] = FALSE]
    /\ UNCHANGED <<rowVars, stored, captured, relayVars, swept, faults>>

RelayTick ==
    /\ \A r \in Relays : relay[r] # "idle" => busy[r] < MaxBatchTime
    /\ lease' = [e \in Rows |-> IF lease[e] > 0 THEN lease[e] - 1 ELSE 0]
    /\ busy' = [r \in Relays |-> IF relay[r] # "idle" THEN busy[r] + 1 ELSE 0]
    /\ UNCHANGED <<row, old, stored, window, captured, relay, todo, published,
                   swept, faults>>

-----------------------------------------------------------------------------
(* OutboxRelay.run_once *)

\* unsent_events: one UPDATE ... RETURNING over FOR UPDATE SKIP LOCKED rows.
Lease(r) ==
    /\ relay[r] = "idle"
    /\ Available # {}
    /\ \E B \in SUBSET Available :
          /\ FirstBatch(Available, B)
          /\ lease' = [e \in Rows |-> IF e \in B THEN LeaseSeconds ELSE lease[e]]
          /\ todo' = [todo EXCEPT ![r] = B]
    /\ relay' = [relay EXCEPT ![r] = "publishing"]
    /\ busy' = [busy EXCEPT ![r] = 0]
    /\ UNCHANGED <<row, old, stored, window, captured, published, swept, faults>>

\* The loop publishes the next row: RETURNING gives the batch in no order.
PublishOk(r, e) ==
    /\ relay[r] = "publishing"
    /\ e \in todo[r] \ TooLarge
    /\ Store(e)
    /\ todo' = [todo EXCEPT ![r] = @ \ {e}]
    /\ published' = [published EXCEPT ![r] = @ \cup {e}]
    /\ UNCHANGED <<rowVars, captured, relay, busy, swept, faults>>

PublishTooLarge_Raises(r, e) ==
    /\ relay[r] = "publishing"
    /\ e \in todo[r] \cap TooLarge
    /\ relay' = [relay EXCEPT ![r] = "marking"]
    /\ todo' = [todo EXCEPT ![r] = {}]
    /\ UNCHANGED <<rowVars, stored, window, captured, published, busy, swept, faults>>

\* MaxPayloadError: mark_events_dead_lettered writes the dead letter and
\* takes the row out of the relay's reach in one transaction; the loop goes on.
PublishTooLarge(r, e) ==
    /\ relay[r] = "publishing"
    /\ e \in todo[r] \cap TooLarge
    /\ captured' = [captured EXCEPT ![e] = @ + 1]
    /\ SentRows({e})
    /\ todo' = [todo EXCEPT ![r] = @ \ {e}]
    /\ UNCHANGED <<stored, window, relay, published, busy, swept, faults>>

\* Another error or the publish timeout, or mark_events_dead_lettered failed.
\* The stream may have stored the message all the same.  The rest of the
\* batch is abandoned with its lease.
PublishRaises(r, e) ==
    /\ relay[r] = "publishing"
    /\ e \in todo[r]
    /\ RelayFault
    /\ \/ e \notin TooLarge /\ Store(e)
       \/ UNCHANGED <<stored, window>>
    /\ relay' = [relay EXCEPT ![r] = "marking"]
    /\ todo' = [todo EXCEPT ![r] = {}]
    /\ UNCHANGED <<rowVars, captured, published, busy, swept>>

\* The loop over the rows ended.
EndOfBatch(r) ==
    /\ relay[r] = "publishing"
    /\ todo[r] = {}
    /\ relay' = [relay EXCEPT ![r] = "marking"]
    /\ UNCHANGED <<rowVars, stored, window, captured, todo, published, busy, swept,
                   faults>>

\* finally: mark_events_sent(published), whoever holds the lease now.
MarkSent(r) ==
    /\ relay[r] = "marking"
    /\ SentRows(published[r])
    /\ Idle(r)
    /\ UNCHANGED <<stored, window, captured, swept, faults>>

\* mark_events_sent raised, or the process died at any point of the batch.
CrashOrMarkFails(r) ==
    /\ relay[r] # "idle"
    /\ RelayFault
    /\ Idle(r)
    /\ UNCHANGED <<rowVars, stored, window, captured, swept>>

-----------------------------------------------------------------------------
(* Retention: dead_letter_unsent_outbox_older_than, delete_sent_outbox_... *)

\* The SELECT takes no lock.
SweepSelect ==
    /\ swept = {}
    /\ swept' = {e \in Available : old[e]}
    /\ swept' # {}
    /\ UNCHANGED <<rowVars, stored, window, captured, relayVars, faults>>

SweepCommit_NoDeadLetter ==
    /\ swept # {}
    /\ SentRows(swept)
    /\ swept' = {}
    /\ UNCHANGED <<captured, stored, window, relayVars, faults>>

\* The dead letters and the UPDATE by id, committed together.
SweepCommit ==
    /\ swept # {}
    /\ captured' = [e \in Rows |-> IF e \in swept THEN captured[e] + 1 ELSE captured[e]]
    /\ SentRows(swept)
    /\ swept' = {}
    /\ UNCHANGED <<stored, window, relayVars, faults>>

SweepFails ==
    /\ swept # {}
    /\ RelayFault
    /\ swept' = {}
    /\ UNCHANGED <<rowVars, stored, window, captured, relayVars>>

DeleteSent(e) ==
    /\ row[e] = "sent"
    /\ old[e]
    /\ row' = [row EXCEPT ![e] = "deleted"]
    /\ lease' = [lease EXCEPT ![e] = 0]
    /\ UNCHANGED <<old, stored, window, captured, relayVars, swept, faults>>

RelayStep(r) ==
    \/ Lease(r)
    \/ \E e \in Rows : PublishOk(r, e) \/ PublishTooLarge(r, e)
    \/ EndOfBatch(r)
    \/ MarkSent(r)

RelayNext ==
    \/ \E e \in Rows : Stage(e) \/ GrowOld(e) \/ WindowCloses(e) \/ DeleteSent(e)
    \/ \E r \in Relays : RelayStep(r) \/ CrashOrMarkFails(r)
    \/ \E r \in Relays, e \in Rows : PublishRaises(r, e)
    \/ SweepSelect \/ SweepCommit \/ SweepFails
    \/ RelayTick

\* The relay loop never stops for good and leases expire.  Retention is not
\* assumed to run.
RelayFairness ==
    /\ \A r \in Relays : WF_outboxVars(RelayStep(r))
    /\ WF_outboxVars(RelayTick)

RelaySpec == RelayInit /\ [][RelayNext]_outboxVars
RelayFairSpec == RelaySpec /\ RelayFairness

-----------------------------------------------------------------------------
(* Properties *)

\* A row leaves the outbox only after the stream has the event or a dead
\* letter records it (relay.py: only what was published is marked sent; the
\* sweep quarantines and does not delete).
NoSilentDrop ==
    \A e \in Rows : row[e] \in {"sent", "deleted"} => stored[e] > 0 \/ captured[e] > 0

\* Rows a relay is working on.
InHand(r) == todo[r] \cup published[r]

\* Two relays have the same row in hand only while one of them has outlasted
\* its lease (unsent_events' lease; neither the publish nor mark_events_sent
\* looks at the lease again).  When every batch ends within its lease, each
\* relay works on its rows alone.
SingleOwner ==
    \A q, r \in Relays : q # r =>
        \A e \in InHand(q) \cap InHand(r) :
            busy[q] >= LeaseSeconds \/ busy[r] >= LeaseSeconds

\* sent_at is never taken back.
SentIsFinal ==
    [][\A e \in Rows : row[e] \in {"sent", "deleted"} =>
          row'[e] \in {"sent", "deleted"}]_outboxVars

\* Every staged row leaves the outbox once faults stop, also behind a row the
\* broker refuses (run_once dead-letters it and continues).
EventuallyRelayed ==
    \A e \in Rows : row[e] = "unsent" ~> row[e] \in {"sent", "deleted"}

=============================================================================
