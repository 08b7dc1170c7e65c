---------------------------- MODULE EventWorker ----------------------------
(***************************************************************************)
(* The consuming half of the event pipeline: replicas of one consumer take *)
(* messages from JetStream, claim them in the processing ledger, run the   *)
(* handler, and acknowledge (packages/runtime/worker.py, ledger.py and     *)
(* packages/storage/repositories/event.py).                                *)
(*                                                                         *)
(* A worker is one consume_subject loop of one replica.  Time is discrete: *)
(* the ledger's updated_at, JetStream's ack timer and the time since a     *)
(* claim are kept as ages that Tick advances.                              *)
(***************************************************************************)
EXTENDS Naturals, FiniteSets

CONSTANTS
    Events,             \* event ids published to the subject
    Poison,             \* the events whose message cannot be decoded
    Workers,            \* consumer loops sharing one durable consumer
    NoEvent,            \* "no message in hand"
    MaxAttempts,        \* WORKER_MAX_ATTEMPTS
    HandlerTimeout,     \* WORKER_HANDLER_TIMEOUT_SECONDS
    DeadLetterTimeout,  \* WORKER_DEAD_LETTER_TIMEOUT_SECONDS
    AckWait,            \* NATS_ACK_WAIT_SECONDS
    StaleSeconds,       \* EVENT_PROCESSING_STALE_SECONDS
    Block,              \* longest time a loop is held up outside its timeouts
                        \* (synchronous database call, commit, paused process)
    MaxDisruptions      \* bound on crashes, failed calls and duplicates

ASSUME WorkerAssumption ==
    /\ Poison \subseteq Events
    /\ NoEvent \notin Events
    /\ MaxAttempts \in Nat \ {0}
    /\ HandlerTimeout \in Nat /\ DeadLetterTimeout \in Nat
    /\ AckWait \in Nat /\ StaleSeconds \in Nat
    /\ Block \in Nat /\ MaxDisruptions \in Nat

\* What validate_event_timing_contract enforces at start-up.
ASSUME BootContract == HandlerTimeout < AckWait /\ AckWait < StaleSeconds

VARIABLES
    msg,          \* JetStream's view of the message of each event
    ackAge,       \* time since the last delivery of the message
    status,       \* ledger row: processing status, "none" when no row
    attempts,     \* ledger row: attempts
    age,          \* ledger row: time since updated_at, saturating
    effect,       \* committed business effects of the event
    dlq,          \* dead-letter rows written for the event
    phase,        \* where each worker is in process()
    cur,          \* the event whose message the worker holds
    held,         \* time since the worker's claim was committed
    tries,        \* the attempts value the claim returned to the worker
    disruptions   \* faults so far

ledgerVars == <<status, attempts, age>>
workerVars == <<phase, cur, held, tries>>
vars == <<msg, ackAge, ledgerVars, effect, dlq, workerVars, disruptions>>

TerminalStatuses == {"PROCESSED", "DEAD_LETTERED"}
Statuses == {"none", "PROCESSING", "RETRYING"} \cup TerminalStatuses
MsgStates == {"none", "ready", "delayed", "out", "acked"}
Phases == {"idle", "fetched", "handling", "failing", "captured", "acking",
           "nacking"}
\* The phases in which the worker's claim is still to be closed.
Holding == {"handling", "failing", "captured"}

MaxHold == HandlerTimeout + Block + DeadLetterTimeout

TypeOK ==
    /\ msg \in [Events -> MsgStates]
    /\ ackAge \in [Events -> 0..AckWait]
    /\ status \in [Events -> Statuses]
    /\ attempts \in [Events -> Nat]
    /\ age \in [Events -> 0..StaleSeconds + 1]
    /\ effect \in [Events -> Nat]
    /\ dlq \in [Events -> Nat]
    /\ phase \in [Workers -> Phases]
    /\ cur \in [Workers -> Events \cup {NoEvent}]
    /\ held \in [Workers -> 0..MaxHold]
    /\ tries \in [Workers -> Nat]
    /\ disruptions \in 0..MaxDisruptions
    /\ \A w \in Workers : phase[w] = "idle" <=> cur[w] = NoEvent

Init ==
    /\ msg = [e \in Events |-> "none"]
    /\ ackAge = [e \in Events |-> 0]
    /\ status = [e \in Events |-> "none"]
    /\ attempts = [e \in Events |-> 0]
    /\ age = [e \in Events |-> 0]
    /\ effect = [e \in Events |-> 0]
    /\ dlq = [e \in Events |-> 0]
    /\ phase = [w \in Workers |-> "idle"]
    /\ cur = [w \in Workers |-> NoEvent]
    /\ held = [w \in Workers |-> 0]
    /\ tries = [w \in Workers |-> 0]
    /\ disruptions = 0

-----------------------------------------------------------------------------
(* Building blocks *)

Disrupt ==
    /\ disruptions < MaxDisruptions
    /\ disruptions' = disruptions + 1

\* Worker w moves to phase p, keeping its message.
Goto(w, p) ==
    /\ phase' = [phase EXCEPT ![w] = p]
    /\ held' = [held EXCEPT ![w] = IF p \in Holding THEN @ ELSE 0]
    /\ UNCHANGED <<cur, tries>>

\* Worker w drops its message and returns to the top of its loop.
Release(w) ==
    /\ phase' = [phase EXCEPT ![w] = "idle"]
    /\ cur' = [cur EXCEPT ![w] = NoEvent]
    /\ held' = [held EXCEPT ![w] = 0]
    /\ UNCHANGED tries

\* finish_event_processing and fail_event_processing: UPDATE by
\* (event_id, consumer), whatever the row says now.
SetStatus(e, s) ==
    /\ status' = [status EXCEPT ![e] = s]
    /\ age' = [age EXCEPT ![e] = 0]
    /\ UNCHANGED attempts

\* record_dead_letter and record_raw_dead_letter: always a new row.
RecordDeadLetter(e) == dlq' = [dlq EXCEPT ![e] = @ + 1]

Claimable_NoFreshness(e) == status[e] \notin TerminalStatuses
Claimable_NeverStale(e) ==
    status[e] \notin TerminalStatuses /\ status[e] # "PROCESSING"

\* claim_event_processing: the WHERE of the upsert.
Claimable(e) ==
    /\ status[e] \notin TerminalStatuses
    /\ status[e] # "PROCESSING" \/ age[e] > StaleSeconds

-----------------------------------------------------------------------------
(* JetStream, as the code in src/ uses it *)

Publish(e) ==
    /\ msg[e] = "none"
    /\ msg' = [msg EXCEPT ![e] = "ready"]
    /\ UNCHANGED <<ackAge, ledgerVars, effect, dlq, workerVars, disruptions>>

\* The same event id stored once more, outside the duplicate window.
Republish(e) ==
    /\ msg[e] = "acked"
    /\ Disrupt
    /\ msg' = [msg EXCEPT ![e] = "ready"]
    /\ UNCHANGED <<ackAge, ledgerVars, effect, dlq, workerVars>>

\* ack_wait passed without an answer: the message is delivered again.
AckTimeout(e) ==
    /\ msg[e] = "out"
    /\ ackAge[e] = AckWait
    /\ msg' = [msg EXCEPT ![e] = "ready"]
    /\ UNCHANGED <<ackAge, ledgerVars, effect, dlq, workerVars, disruptions>>

\* A unit of time.  It cannot pass while a claim is at the limit that the
\* handler timeout, the dead-letter timeout and Block put on it.
Tick ==
    /\ \A w \in Workers :
          /\ phase[w] = "handling" => held[w] < HandlerTimeout + Block
          /\ phase[w] \in Holding => held[w] < MaxHold
    /\ msg' = [e \in Events |-> IF msg[e] = "delayed" THEN "ready" ELSE msg[e]]
    /\ ackAge' = [e \in Events |->
                    IF msg[e] = "out" /\ ackAge[e] < AckWait
                    THEN ackAge[e] + 1 ELSE ackAge[e]]
    /\ age' = [e \in Events |->
                    IF status[e] # "none" /\ age[e] <= StaleSeconds
                    THEN age[e] + 1 ELSE age[e]]
    /\ held' = [w \in Workers |->
                    IF phase[w] \in Holding THEN held[w] + 1 ELSE held[w]]
    /\ UNCHANGED <<status, attempts, effect, dlq, phase, cur, tries,
                   disruptions>>

-----------------------------------------------------------------------------
(* The worker *)

\* consume_subject: subscription.fetch hands the message over.
Fetch(w, e) ==
    /\ phase[w] = "idle"
    /\ msg[e] = "ready"
    /\ msg' = [msg EXCEPT ![e] = "out"]
    /\ ackAge' = [ackAge EXCEPT ![e] = 0]
    /\ phase' = [phase EXCEPT ![w] = "fetched"]
    /\ cur' = [cur EXCEPT ![w] = e]
    /\ UNCHANGED <<ledgerVars, effect, dlq, held, tries, disruptions>>

\* consume_subject: SIGTERM arrived, the fetched message is handed back.
StopBeforeProcess(w) ==
    /\ phase[w] = "fetched"
    /\ Disrupt
    /\ Goto(w, "nacking")
    /\ UNCHANGED <<msg, ackAge, ledgerVars, effect, dlq>>

\* process: decode failed and capture_raw succeeded.
DeadLetterRaw(w) ==
    /\ phase[w] = "fetched"
    /\ cur[w] \in Poison
    /\ RecordDeadLetter(cur[w])
    /\ Goto(w, "acking")
    /\ UNCHANGED <<msg, ackAge, ledgerVars, effect, disruptions>>

\* process: decode failed and capture_raw failed, before or after its row
\* was written (the row is committed before the event is emitted).
DeadLetterRawFails(w) ==
    /\ phase[w] = "fetched"
    /\ cur[w] \in Poison
    /\ Disrupt
    /\ RecordDeadLetter(cur[w]) \/ UNCHANGED dlq
    /\ Goto(w, "nacking")
    /\ UNCHANGED <<msg, ackAge, ledgerVars, effect>>

\* process: ledger.begin returned PROCESSING, the claim is committed.
Claim(w) ==
    LET e == cur[w] IN
    /\ phase[w] = "fetched"
    /\ e \notin Poison
    /\ Claimable(e)
    /\ status' = [status EXCEPT ![e] = "PROCESSING"]
    /\ attempts' = [attempts EXCEPT ![e] = @ + 1]
    /\ age' = [age EXCEPT ![e] = 0]
    /\ phase' = [phase EXCEPT ![w] = "handling"]
    /\ held' = [held EXCEPT ![w] = 0]
    /\ tries' = [tries EXCEPT ![w] = attempts[e] + 1]
    /\ UNCHANGED <<msg, ackAge, effect, dlq, cur, disruptions>>

Refuse_AcksBlocked(w) ==
    /\ phase[w] = "fetched"
    /\ cur[w] \notin Poison
    /\ ~Claimable(cur[w])
    /\ Goto(w, "acking")
    /\ UNCHANGED <<msg, ackAge, ledgerVars, effect, dlq, disruptions>>

\* process: ledger.begin refused the claim.  A settled event is
\* acknowledged, one that another worker holds is handed back.
Refuse(w) ==
    LET e == cur[w] IN
    /\ phase[w] = "fetched"
    /\ e \notin Poison
    /\ ~Claimable(e)
    /\ Goto(w, IF status[e] \in TerminalStatuses THEN "acking" ELSE "nacking")
    /\ UNCHANGED <<msg, ackAge, ledgerVars, effect, dlq, disruptions>>

Commit_LedgerLeftOpen(w) ==
    /\ phase[w] = "handling"
    /\ effect' = [effect EXCEPT ![cur[w]] = @ + 1]
    /\ Goto(w, "acking")
    /\ UNCHANGED <<msg, ackAge, ledgerVars, dlq, disruptions>>

\* process: the handler returned; its writes, the outbox rows and the
\* ledger's PROCESSED are committed in one transaction.
Commit(w) ==
    /\ phase[w] = "handling"
    /\ SetStatus(cur[w], "PROCESSED")
    /\ effect' = [effect EXCEPT ![cur[w]] = @ + 1]
    /\ Goto(w, "acking")
    /\ UNCHANGED <<msg, ackAge, dlq, disruptions>>

\* process: the handler raised or timed out, its transaction rolled back.
HandlerFails(w) ==
    /\ phase[w] = "handling"
    /\ Goto(w, "failing")
    /\ UNCHANGED <<msg, ackAge, ledgerVars, effect, dlq, disruptions>>

\* fail: attempts are left.
Retry(w) ==
    /\ phase[w] = "failing"
    /\ tries[w] < MaxAttempts
    /\ SetStatus(cur[w], "RETRYING")
    /\ Goto(w, "nacking")
    /\ UNCHANGED <<msg, ackAge, effect, dlq, disruptions>>

Capture_OneTooEarly(w) ==
    /\ phase[w] = "failing"
    /\ tries[w] + 1 >= MaxAttempts
    /\ RecordDeadLetter(cur[w])
    /\ Goto(w, "captured")
    /\ UNCHANGED <<msg, ackAge, ledgerVars, effect, disruptions>>

\* fail: attempts are used up, capture wrote the dead-letter row.
Capture(w) ==
    /\ phase[w] = "failing"
    /\ tries[w] >= MaxAttempts
    /\ RecordDeadLetter(cur[w])
    /\ Goto(w, "captured")
    /\ UNCHANGED <<msg, ackAge, ledgerVars, effect, disruptions>>

\* fail: capture raised or timed out, before or after its row was written;
\* the ledger goes back to RETRYING.
CaptureFails(w) ==
    /\ phase[w] = "failing"
    /\ tries[w] >= MaxAttempts
    /\ Disrupt
    /\ RecordDeadLetter(cur[w]) \/ UNCHANGED dlq
    /\ SetStatus(cur[w], "RETRYING")
    /\ Goto(w, "nacking")
    /\ UNCHANGED <<msg, ackAge, effect>>

\* fail: ledger.dead_letter, in a transaction after the capture's.
MarkDeadLettered(w) ==
    /\ phase[w] = "captured"
    /\ SetStatus(cur[w], "DEAD_LETTERED")
    /\ Goto(w, "acking")
    /\ UNCHANGED <<msg, ackAge, effect, dlq, disruptions>>

\* consume_subject: a database or broker call raised out of process, the
\* message is handed back.
ProcessorError(w) ==
    /\ phase[w] \in {"fetched", "failing", "captured", "acking"}
    /\ Disrupt
    /\ Goto(w, "nacking")
    /\ UNCHANGED <<msg, ackAge, ledgerVars, effect, dlq>>

Ack(w) ==
    /\ phase[w] = "acking"
    /\ msg' = [msg EXCEPT ![cur[w]] = "acked"]
    /\ Release(w)
    /\ UNCHANGED <<ackAge, ledgerVars, effect, dlq, disruptions>>

\* nak(delay): an acknowledged message stays acknowledged.
Nak(w) ==
    /\ phase[w] = "nacking"
    /\ msg' = [msg EXCEPT ![cur[w]] = IF @ = "acked" THEN @ ELSE "delayed"]
    /\ Release(w)
    /\ UNCHANGED <<ackAge, ledgerVars, effect, dlq, disruptions>>

\* The process dies: no handler of the code runs, open transactions roll back.
Crash(w) ==
    /\ phase[w] # "idle"
    /\ Disrupt
    /\ Release(w)
    /\ UNCHANGED <<msg, ackAge, ledgerVars, effect, dlq>>

\* What a running worker does of its own accord.
Step(w) ==
    \/ DeadLetterRaw(w) \/ Claim(w) \/ Refuse(w) \/ Commit(w)
    \/ HandlerFails(w) \/ Retry(w) \/ Capture(w) \/ MarkDeadLettered(w)
    \/ Ack(w) \/ Nak(w)

Fault(w) ==
    \/ StopBeforeProcess(w) \/ DeadLetterRawFails(w) \/ CaptureFails(w)
    \/ ProcessorError(w) \/ Crash(w)

Next ==
    \/ \E e \in Events : Publish(e) \/ Republish(e) \/ AckTimeout(e)
    \/ \E w \in Workers, e \in Events : Fetch(w, e)
    \/ \E w \in Workers : Step(w) \/ Fault(w)
    \/ Tick

\* A running loop takes its next step, time passes, JetStream redelivers,
\* and no ready message is passed over for ever (it delivers in stream order).
Fairness ==
    /\ \A w \in Workers : WF_vars(Step(w))
    /\ \A e \in Events : WF_vars(AckTimeout(e))
    /\ \A e \in Events : SF_vars(\E w \in Workers : Fetch(w, e))
    /\ WF_vars(Tick)

Spec == Init /\ [][Next]_vars
FairSpec == Spec /\ Fairness

-----------------------------------------------------------------------------
(* Properties *)

\* The claim cannot be taken over while its owner is within its time limits.
TimingContract == MaxHold <= StaleSeconds

\* An event is settled when nothing is left to do for it: its effect is
\* committed, or it is in the dead-letter table.
Settled(e) ==
    IF e \in Poison THEN dlq[e] > 0
    ELSE \/ status[e] = "PROCESSED" /\ effect[e] > 0
         \/ status[e] = "DEAD_LETTERED" /\ dlq[e] > 0

\* Two workers never both believe that they own the claim of one event
\* (claim_event_processing's freshness window, worker.py timing contract).
SingleClaim ==
    \A v, w \in Workers :
        (phase[v] \in Holding /\ phase[w] \in Holding /\ cur[v] = cur[w])
            => v = w

\* The handler's writes are committed at most once per event, however often
\* the message is delivered, and never for an event the ledger calls dead
\* (process: one transaction for business writes, outbox and PROCESSED).
EffectOnce ==
    \A e \in Events : effect[e] = IF status[e] = "PROCESSED" THEN 1 ELSE 0

\* A message leaves the stream only when its event is settled: process acks
\* after the commit or after the dead-letter row, never before.
NoLoss == \A e \in Events : msg[e] = "acked" => Settled(e)

\* A dead-letter row exists only after MaxAttempts claims, and there are no
\* more rows than one per event plus one per fault (fail writes the row in a
\* transaction of its own, before the ledger is closed).
DeadLettersJustified ==
    \A e \in Events \ Poison :
        /\ dlq[e] <= 1 + disruptions
        /\ dlq[e] > 0 => attempts[e] >= MaxAttempts

\* PROCESSED and DEAD_LETTERED are final: finish and fail update the row
\* without looking at it, so this rests on who may still call them.
TerminalIsFinal ==
    [][\A e \in Events : status[e] \in TerminalStatuses => status'[e] = status[e]]_vars

\* The promise to the handlers (EventContract): whatever is delivered twice,
\* late or to two replicas, and wherever a worker dies, an event is decided
\* once, by the ledger's PROCESSED with its one effect or by a dead letter (of
\* an event that cannot be decoded, by the raw dead letter alone), and is
\* acknowledged only then.
Verdict(e) ==
    IF e \in Poison THEN IF dlq[e] > 0 THEN "given up" ELSE "open"
    ELSE IF status[e] = "PROCESSED" THEN "handled"
    ELSE IF status[e] = "DEAD_LETTERED" THEN "given up" ELSE "open"

Contract == INSTANCE EventContract WITH
    Open <- "open", Handled <- "handled", GivenUp <- "given up",
    verdict <- [e \in Events |-> Verdict(e)], effects <- effect,
    released <- {e \in Events : msg[e] = "acked"}

ImplementsDelivery == Contract!Promise

\* Once faults stop, every delivered message is settled and acknowledged:
\* no event is retried for ever, none is stuck behind a dead claim.
EventuallySettled ==
    \A e \in Events : msg[e] = "ready" ~> (msg[e] = "acked" /\ Settled(e))
=============================================================================
