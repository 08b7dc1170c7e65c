# Kyro: a TLA+ development of the control plane's protocols

Kyro is a management plane for Kubernetes clusters: a gateway, some forty
workers that talk through NATS JetStream, a PostgreSQL database, and agents that
run inside the target clusters and poll the gateway. This directory holds
specifications of the parts whose steps interleave with those of others, the TLC models that check
them on small instances, and TLAPS proofs of their main properties for every
instance. Paths below are relative to `src/src/` unless they start with `docs/`,
`frontend/` or `deploy/`.

## 1. Inventory

| Component | State | Operations | Interacts with | What is hard |
|---|---|---|---|---|
| Event worker runtime (`packages/runtime/worker.py`, `ledger.py`, `packages/storage/repositories/event.py`) | ledger row per (event, consumer): status, attempts, updated_at; message in hand | fetch, claim, handle, commit, retry, dead-letter, ack, nak | JetStream, database, dead letters | redelivery races, crash at any step, three timers in a fixed order |
| Dead letters (`repositories/dead_letter.py`, `packages/events/bus.py`) | dead-letter rows | capture, capture_raw, replay | worker, relay, gateway | written in a transaction of its own |
| Outbox relay (`packages/runtime/relay.py`, `repositories/outbox.py`, `services/gateway/outbox-relay`) | outbox rows: sent_at, lease; batch in hand | stage, lease, publish, mark sent, quarantine | every worker runs one, JetStream | lease shorter than a slow batch, publish with unknown outcome |
| Retention (`packages/storage/retention.py`) | none of its own | quarantine old unsent rows, delete sent rows | outbox | SELECT and UPDATE without a lock between them |
| Logical command (`domains/command/repository.py`, `lifecycle.py`, `models.py`) | command row, attempt row, operation stream, control rows | accept, project, lease, start, heartbeat, complete, cancel, retry, reject, expire | gateway, command worker, janitor, agent | six parties update one row, each with its own condition |
| Command worker and janitor (`domains/command/handler.py`, `services/command/*`) | none of their own | handle CommandRequested, sweep | command rows, outbox | two connections in one handler, two sweepers |
| Cluster agent command loop (`services/target/cluster-agent/agent.py`, `commands/outbox.py`) | command being run, SQLite outbox of results | poll, start, heartbeat, execute, flush | gateway over HTTP | lost answers, expired leases, crash |
| Operation event stream (`domains/command/repository.py`, `router.py`, `packages/runtime/operation_events.py`, `frontend/src/api/operation-events.ts`) | event ledger with its cursor row, subscription queues, the client's cursor | append, announce, deliver, subscribe, replay, follow, poll, reconnect | command transactions, Redis, browsers | announcements lost, doubled or late; bounded queues and replays; reconnection |
| Evidence jobs and windows (`domains/target/repository.py`, `evidence_jobs.py`, `router.py`, the agent's `evidence/jobs.py`, janitor) | a job per provider with lease and result, the window | schedule, lease, report, exhaust, aggregate, publish | agent loops, janitor, outbox | a join of several jobs that every reporter may complete, exhausted jobs |
| Workflow controller (`services/gitops/workflow-controller`, `domains/gitops/repository.py`, `router.py`) | one run per commit, approvals and commands per resource, snapshots | one handler per event, grant and reject | render, diff and policy workers, Safe PR, commands, recovery | events in any order, four ways to end a run, three ways to dispatch, a join read before its lock |
| Recovery plan (`domains/rca/*`, `services/ai/rca-feedback-worker`, approval, select and Safe PR workers, `domains/gitops/router.py`) | a row with status, selected action and lifecycle | select, dispatch, reopen, track the pull request, deploy, verify, expire, retry | SCM webhooks, controller, evidence, operators | handlers that read without a lock and write the whole lifecycle, long chains, deadlines |
| Alert rules (`domains/alert/*`, `services/alert/alert-worker`, incident janitor) | row of the sustained condition, ledger of events, outbox | evaluate, acknowledge, promote, edit, resolve with the incident | samples, operators, incidents | cycles that fail half-way, the ledger changing under the evaluator |
| Port forwarding (`services/realtime/realtime-gateway/port_forward_sessions.py`, the agent's `port_forward_stream.py`) | session, connections, credits and byte counts on both sides | open, relay, grant credit, half-close, close, time out, audit | desktop, gateway, agent, target over one websocket | coroutines cancelled at an await, frames that cross an end, four ends |
| Release flow, inventory, auto revert, reconcile and drift workers, AI workers | read models, small rows | event handlers | events | little beyond the event worker's guarantees |
| Providers, catalogue, read APIs, MCP, frontend | read only or batch | queries | | no protocol between processes |

What makes them correct:

* **Event worker**: a message leaves the stream only when its event is settled;
  the effect of an event is committed at most once; no two replicas own the
  claim of one event; what is final stays final; nothing is retried for ever.
* **Outbox relay**: a committed event is published or recorded as a dead letter,
  never dropped; a row the broker refuses does not block the others.
* **Command**: a command changes a cluster, so it runs at most once per attempt;
  its row, its attempt and its browser stream never disagree; it ends whatever
  the agent does; whoever waits for its end is told.
* **Operation stream**: a browser gets every event of a command once and in
  order over any number of connections, and learns of the end even if nobody
  announces it (with one exception, `EndMissed` in section 3).
* **Evidence window**: published at most once, with what the providers really
  reported, covering every provider asked in time, and published in the end.
* **Workflow run**: one outcome; a resource is changed at most once and only
  under a granted approval; success means that everything was applied; a run
  with nothing left to wait for ends.
* **Recovery plan**: completed only after health that lasted, seen after the
  deployment of the merged change; nothing else is selected while that change is
  deployed and verified; the
  incident is resolved with it; no verification lasts for ever.
* **Alert rule**: an event stands for a condition that lasted; no event stays
  active unwatched; what the channels are told is what the ledger says.
* **Port forward**: neither side overruns the other's window; receipts and audit
  have the bytes that went through; the desktop learns of the end and the agent
  gives the session's slot back.

`PROJECT.json` lists the components with their status and, under `hazards`, the
places of the code where these properties could go wrong.

## 2. Modules

| Module | Models | Proved in |
|---|---|---|
| `EventContract` | abstract: what the handlers of events are promised | |
| `EventWorker` | the consuming half of the pipeline; implements `EventContract` | `EventPipelineProofs` |
| `OutboxRelay` | the publishing half and retention | `EventPipelineProofs` |
| `AgentCommand` | the life of a command between gateway, worker, janitor, operator and agents | `AgentCommandProofs` |
| `OperationStream` | how a browser follows one command over ledger, gateways, Redis and SSE | `OperationStreamProofs` |
| `EvidenceContract` | abstract: what the consumers of a window are promised | |
| `EvidenceJobs` | jobs, leases and the publication of one window; implements `EvidenceContract` | `EvidenceJobsProofs` |
| `WorkflowRun` | the GitOps workflow of one commit with several resources | `WorkflowRunProofs` |
| `AlertRule` | evaluation of one rule on one subject, with its ledger | `AlertRuleProofs` |
| `PortForward` | one port-forward session | `PortForwardProofs` |
| `RecoveryPlan` | one recovery plan from selection to verification | `RecoveryPlanProofs` |

Each module is the root of its own run: the `.cfg` of the same name gives the
constants. The modules meet in the events they exchange. `WorkflowRun` and
`RecoveryPlan` take an event as handled once, in any order, which is what
`EventContract` promises, `EventWorker` implements (`ImplementsDelivery`) and
`OutboxRelay` feeds without dropping an event (`NoSilentDrop`); the two halves
share the events and the stream, and `PipelineKeepsEvents` is proved of both
together; the end of a
command in `WorkflowRun` is one of those `AgentCommand` announces (`EndAnnounced`);
the end of a run in `RecoveryPlan` is an outcome of `WorkflowRun` (`OneOutcome`);
the incident janitor's end of an incident is an input of `AlertRule`.

A definition whose name ends in `_Something` next to a definition of the code is
a deliberate fault, listed under `mutants` in `PROJECT.json`: each property is
violated when the fault takes the definition's place.

### EventWorker

A worker is one `consume_subject` loop of one replica. `phase` says where it is
in `EventProcessor.process`: `fetched`, `handling` (claim committed, handler
running), `failing` (in `fail`), `captured` (dead letter written, ledger not yet
closed), `acking`, `nacking`. The actions follow the statements between two
points at which the code can be interrupted or fail:

* `Claim` and `Refuse` are the two answers of `begin_event_processing`; the
  `WHERE` of its upsert is `Claimable`.
* `Commit` is the single transaction of handler writes, outbox rows and
  `PROCESSED`; `HandlerFails` is its rollback, by an exception or the timeout.
* `Retry`, `Capture`, `CaptureFails` and `MarkDeadLettered` are the branches of
  `fail`. The dead letter and the ledger are separate transactions in the code
  and separate actions here.
* `SetStatus` is unconditional, as `finish_event_processing` and
  `fail_event_processing` are.
* `ProcessorError`, `StopBeforeProcess` and `Crash` are the ways out of
  `process` that `consume_subject` or nobody handles.

`Publish`, `Republish`, `AckTimeout`, `Ack` and `Nak` are JetStream as
`packages/events/bus.py` configures it (no delivery limit, explicit ack). Time
is discrete. `held` is the time since the claim; `Tick` lets it grow to
`HandlerTimeout + Block` while the handler runs and by `DeadLetterTimeout` more
while `fail` runs. `Block` stands for everything the two timeouts do not
interrupt: synchronous database calls inside a unit of work run on the loop's
own thread (`packages/runtime/async_db.py`), commits, a paused container.

`EventContract` knows neither workers nor attempts: an event is handled once with
one effect or given up once, and the stream lets go of it only then. The mapping
reads the decision from the ledger's status (`Verdict`), and of an event that
cannot be decoded, which has no ledger row, from its raw dead letter; what is
acknowledged is what the stream has let go of.

### OutboxRelay

A relay leases the first `Batch` available rows (`Lease`), publishes them in any
order (`UPDATE ... RETURNING` gives none), and marks the published ones sent.
`PublishTooLarge` is `MaxPayloadError` with `mark_events_dead_lettered`;
`PublishRaises` is every other failure, with the message stored or not;
`MarkSent` is the `finally`, which does not look at the lease; the retention
sweep is `SweepSelect` and `SweepCommit`, because its `SELECT` takes no lock.
`busy` bounds a batch by `MaxBatchTime`, which may be more than the lease.

### AgentCommand

The rows of `agent_commands`, `agent_command_attempts` (the active one) and
`command_operation_event_cursors` of a command are one record, since every
statement updates them in one transaction. The row operators (`Projected`,
`Leased`, `Started`, `Beaten`, `Completed`, `Cancelled`, `Retried`, `Expired`,
`FailedLogical`) are what the statements of `repository.py` do to it, and the
predicates next to them are their `WHERE` clauses. The actions say who calls
them and what becomes of the answer: an answer that gets lost has been applied
(`Lease`, `Start`, `Heartbeat`, `Flush`), and the agent acts as the code does
(it gives the command up, or sends the result again until `FlushAttempts`).

`DuplicateBlocks` is worth a word. When a second `CommandRequested` finds the
command projected and still queued, `agent_command_queue_upsert` changes nothing
but keeps the row locked; `close_operation` then updates the same row on another
connection, without `lock_timeout`, and waits for its own transaction until the
handler timeout. While `locked[c]` holds, no other statement can change the row;
a sweep that would has to wait and fails, a lease skips it.

Not distinguished: payloads, priorities, actions, retry delay (they only choose
among available commands), which policy rejects a request, the idempotency keys
of controls (a repeated control changes nothing). `runs` is a history variable.

### OperationStream

One command. `log` is its rows in `command_operation_events`; the sequence of an
event is its index, because the cursor row is advanced by one in the transaction
that appends. `AppendEvent(k, g)` is any of the lifecycle transactions of
`AgentCommand`: `k` says whether the event ends the stream, `g` is the gateway
that will announce it, or `NoGateway` for the janitor and the workers, who
announce nothing. `row` is "over" when the stream is: a failed command that may
be retried counts as active. `Create` has the three ways a command comes to be: a
receipt has its first event from the start, a command that a workflow requests
has none until it is leased, and a legacy command was over before there was a
ledger and never gets one. A browser that follows a command without events is
sent a snapshot of its row with sequence 1.

`announce` is two actions, since it awaits Redis between the delivery to the
gateway's own subscribers and the publication; several announcements wait in
`notes` in no order. Redis gives every listener its own ordered `wire`.
`LoseRedis` is a failed listener or publish, `Reconnect` the task that
`_schedule_reconnect` starts.

`command_events` is cut at its awaits and its yields: `Subscribe`,
`InitialReplay`, `ReadContext`, `ReadRow`, then `Emit` for each event of a batch
and `EmittedAll`, `ClosedGap` after it, and `NextLive` or `PollTimeout` in the
loop. `delivered` is the handler's variable. `Receive` is the body of the
client's `consume`; the client's cursor is `Len(got[b])`. A phase "failed" is an
error the client does not retry.

Not distinguished: payloads, the three ending kinds, the delays of reconnection,
access checks, several commands (nothing is shared between their streams but the
Redis connection).

### EvidenceJobs

One window. A job is a row of `evidence_jobs`; the lease id is the attempt it was
given for, and a result is named by the attempt that collected it, so that a
result of a lease that was taken over can be told apart. `Complete` and
`CompleteAgain` are the two branches of `complete_evidence_job`, `Sweep` is the
janitor's `fail_exhausted_evidence_jobs`. Both lead to `emit_evidence_if_ready`,
which is three transactions and three actions: `CheckWindow`, `ReadPayload` (with
`Ready` and `Aggregate`), `Record`. `Record` inserts the window or finds it, and
clears the jobs' results. `EmitFails` is an error at any of the three; `dropped`
remembers it. `late` is a history variable: the job was inserted after some
payload had been read.

`EvidenceContract` knows neither leases nor emitters: providers are asked and
conclude once, and at most one announcement is made, which covers at least one
provider and tells the truth of each it covers. The mapping gives a job the
outcome "attempt n" when it is completed and "unavailable" when it failed, and
the announcement is the window.

### WorkflowRun

One commit. `run` is the row's status, moved only where
`workflow_transition_guard` allows it (`Forward`: not from an ended run, not to a
lower rank; `update_workflow_run` also refuses the status the run already has).
`inbox` is the set of events that the controller has not handled; it handles them
in any order. Each `On...` action is one handler with everything it stages;
`OnDiffAnalyzed...` are the three routes of one handler. The services in front
(`PullGit`, `Render`, `DetectDiff`, `AnalyzeDiff`, `CreateSafePr`,
`DispatchAlert`, `HandleCommandRequested`) are their outcomes. `GrantApproval`
and `RejectApproval` are the API.

`on_command_completed` reads approvals and commands (`ReadProgress`) and decides
later (`CommitProgress`). The second half is one action although it is several
statements: `record_approved_workflow_snapshots` locks the run's row and reads
everything again, the transition that follows is in the same transaction, and
every other ender needs the same row.

### AlertRule

One evaluator (the deployment has one replica with strategy `Recreate`), one rule,
one subject. A cycle is `Load` (the latest sample), `Read` (the row of the
sustained condition) and one write: `StayCold`, `Recover`, `Refresh`, `Wait` or
`Fire`. Each of the last is one transaction with the ledger and the outbox;
between `Read` and it, operators and incidents commit. `CycleFails` ends a cycle
anywhere. The end of an incident is two transactions of the janitor
(`IncidentEnds`, `CloseAlerts`), between which it can die (`SweepDies`).

### PortForward

One session, cut where the coroutines await. Bytes are counted in frames of one
credit unit. The gateway's part is `serve_browser` with its receive loop and its
sender, and the handlers of agent frames (`On...`); the agent's part is the loop
that takes control and data frames, a reader for each connection, the watcher
and `_finish_session`. `FinishConnection` cancels a reader that may have counted
a frame without sending it. `Drained` is the credit given back after the write.
Each direction of the websocket is a FIFO (`toAgent`, `toGateway`).

### RecoveryPlan

One plan. Handlers read the row without a lock (`...Read`, kept in `reads`) and
commit later with `update_recovery_plan_lifecycle_if_status` (`Saves`): the status
must be one of those expected, and the whole lifecycle is replaced. The
lifecycle is what the properties tell apart: selection, pull request, deployment
run, reason of failure, retry number, start of the verification and the stretch
of healthy windows. `Evaluate` is `evaluate_recovery_evidence` over windows,
`Expire` the janitor's deadline, `Upsert` the insert of the approval worker with
its list of statuses it must not overwrite. The events of a subject have one
handler at a time; retry requests come over HTTP, up to `MaxRequests` together.
A merge webhook ends in the deployment (`MergeCommit`), in the refusal for missing
prerequisites (`RefuseMerge`) or in the plan's rejection (`RejectCommit`). A
failed Safe PR belongs to the action its approval names, or to the current
selection when the approval names none (`FailedRead`). `overtaken` is a history
variable: a retry took effect on a failed plan that was no longer the one its
request had read.

## 3. Runs

Passing runs:

| Run | Instance | States | Shows |
|---|---|---|---|
| `event_worker` | 2 replicas, 1 ordinary and 1 undecodable event, 2 attempts, 1 fault | 435,000 | `SingleClaim`, `NoLoss`, `DeadLettersJustified`, `ImplementsDelivery`, `EventuallySettled` |
| `outbox_relay` | 2 relays, 2 rows (1 too large), batches that outlast the lease, 1 fault | 256,000 | `NoSilentDrop`, `EventuallyRelayed` |
| `agent_command` | 1 command, 2 agents, 2 requests, 2 attempts, 3 leases, 2 faults | 108,000 | `RecordsAgree`, `ExecutedOnce`, `EndAnnounced`, `LifecycleKept`, `EventuallyOver` |
| `operation_stream` | 2 gateways, 1 browser, a command of a receipt, of a workflow or of old, 4 events, queue and replay of 1, 1 fault | 1,578,000 | `NeverInvalid`, `Complete`, `EventuallyTold` |
| `evidence_jobs` | 2 providers, 2 agents with a loop for each, the janitor, 2 attempts | 448,000 | `WindowSound`, `ImplementsContract`, `EventuallyPublished` |
| `workflow_run` | 2 resources, one the target of a recovery, at most 3 unhandled events | 735,000 | `OneOutcome`, `OneCommandPerGrant`, `SuccessIsJoined`, `SettledRunEnds`, `GrantIsDispatched` |
| `port_forward` | 1 connection, window 1, limit 1, queue 2, 2 frames each way | 1,077,000 | `TypeOK`, `FlowControlled`, `ReceiptTrue`, `AuditTrue`, `EventuallyTold`, `EventuallyReleased` |
| `alert_rule` | 2 event ids, a condition that must last 2, 7 samples | 243,000 | `Sustained`, `Watched`, `ToldTruth`, `EventuallyResolved` |
| `recovery_plan` | 2 candidate actions, 2 selections, 1 retry, 1 retry request at a time, 3 windows | 653,000 | `RunAwaited`, `OutcomeTold`, `CompletedStable`, `VerifiesDeployed`, `MergedStays`, `VerificationEnds`, `DeployFollowed` |

The type invariants of the modules that have proofs are proved (`TypeCorrect` in
each, `RelayTypeCorrect` for the relay) and not checked again, and so are the action properties `TerminalIsFinal`,
`SentIsFinal`, `DecisionFinal` and `LedgerForward` and the invariants
`EffectOnce`, `SingleOwner` and `SnapshotsApplied`. Only the run of `PortForward`
checks its type invariant too: there it says that credits stay within the window
and counters within the limit, and it cannot be proved without the rest.

Runs that disagree with a statement of the repository (`findings` in
`PROJECT.json` quotes it):

| Run | Property | What happens |
|---|---|---|
| `evidence_jobs_decided` | `EventuallyDecided` | the emission fails after the last job became final; no sweep and no agent need try again, and the window is neither published nor withheld |
| `workflow_run_announced` | `EveryApprovalAnnounced` | the second resource of a commit finds the run already waiting for approval, its `ApprovalRequested` is never published |
| `recovery_plan_attempt` | `LaterAttemptKept` | evidence read in one verification is committed in the next one, whose status is the same, and puts the earlier attempt back |

Other disagreements are part of the models and of the properties' wording, and
have no run of their own:

* the handler can run once more than `WORKER_MAX_ATTEMPTS` after a crash or a
  failed capture (`DeadLettersJustified` allows one more per fault);
* the timing contract checked at start-up leaves out the dead-letter capture and
  blocking calls (`TimingContract` in the proofs does not);
* the retention sweep may quarantine a row that a relay has just leased, because
  it selects without a lock (the event is still published or recorded);
* the command worker's sweep causes a second `CommandCompleted` with another id;
  `EndAnnounced` asks for at least one;
* a command that the janitor failed cannot be retried, its result is not marked
  retryable;
* a command of a workflow has no event until it is leased, and a snapshot sent
  meanwhile takes sequence 1. If the command is leased, the snapshot stands for
  that event (`Says`). If it expires or is cancelled while it is queued, its only
  event is its end, with a sequence that is not past the browser's cursor: no
  poll, announcement or reconnection tells the browser (`EndMissed`, the one
  exception of `EventuallyTold`);
* an alert event that was resolved with its incident stays in the rule's row
  until the condition goes away, so the rule does not fire again before;
* a result that arrives for a provider scheduled after the window was read is
  cleared without having been published (`WindowSound` excuses `late` jobs);
* a run can succeed before another resource of its commit was analysed
  (`SuccessIsJoined` speaks of the approval rows there are), and a command
  cancelled before its start leaves its run waiting (`Settled` excludes it);
* the agent keeps the slot of a port-forward session when the websocket dies
  while `close_all` waits (`EventuallyReleased` speaks of links that are up);
* a pull-request webhook that is lost leaves the plan at `pr_open`;
* the status alone does not tell two failures of a plan apart: of two retry
  requests that overlap, the second may commit after the retry of the first has
  failed in its turn, and acts on the earlier failure: the plan waits for a run
  that has ended, or a second change is selected after a first one was deployed,
  and a late handler of the first run can then take the plan from the second
  run while it is under way. `overtaken` says that this happened; `DeployFollowed`
  and the last part of `RunAwaited` except it. It cannot make two runs of one
  merged change run together (the other parts of `RunAwaited`), and the other
  invariants of the plan and `MergedStays` hold in spite of it.

**Bounds.** Times are scaled so that every order the code relies on is strict
and every limit can be passed by one unit: in `EventWorker.cfg`
`HandlerTimeout < AckWait < StaleSeconds` as with 30, 60 and 90 seconds, and
`HandlerTimeout + Block + DeadLetterTimeout = StaleSeconds`, the largest value
that the proofs allow. Two replicas, relays or agents are enough for every race
over one row, since the code knows no third role; two attempts have a first, a
last and a retry. `MaxDisruptions` and `MaxFaults` bound crashes and lost calls
together, so a fault may hit the recovery from another one. In the command
model `MaxLeases` bounds leases per command, which matters for `EventuallyOver`
(below).

In `OperationStream.cfg` a replay and a queue of one stand for 500 and 64: four
events overflow the queue, make gaps, and make gaps that one replay does not
close. Browsers share nothing but the ledger and the broker, so one is enough;
with a second gateway announcements come directly, through Redis, twice or never.

In `EvidenceJobs.cfg` two providers make a join, and a loop of each of two agents
makes takeovers and late reports; the second attempt is the last. In
`WorkflowRun.cfg` `MaxPending` bounds how far the services run ahead of the
controller; three events can be handled in any order, and all kinds occur. Two
resources are the smallest set on which the run's status and the resources'
differ. In `PortForward.cfg` window and limit of one frame are reached by the
first frame and passed by the second (`MaxFrames`); the connections share only
the session's end and its sums, but interleavings of two connections are not
covered by the run. In `AlertRule.cfg` `MaxTime` leaves room for two events of a
condition that lasts two samples each with a cold sample between them. In
`RecoveryPlan.cfg` `MaxSelections` lets a plan be opened again or its Safe PR be
retried once, `MaxRetries` a deployment or a verification, `MaxTime` a healthy
stretch, a gap and a deadline. `MaxRequests` is one, so in this run `overtaken`
stays false and `RunAwaited` and `DeployFollowed` hold without their exception; the
theorems cover requests that overlap, for the invariants. With two requests and the
same other constants TLC has visited all of 10.7 million states without a violation
of an invariant, which is too long for a run of this project; `DeployFollowed` and
`VerificationEnds` have been checked for one request at a time only.

**Deadlock** is checked for `EventWorker`; elsewhere the system may come to rest:
all rows sent and deleted, all commands over, all events told, the window
published, the run ended, the clock at its bound.

**Fairness.** `EventWorker`: a loop that can take a step takes it (weak), time
passes and ack timers fire (weak), and a message that is ready again and again is
fetched (strong): JetStream delivers in stream order and the loop fetches for
ever. Faults are not fair and bounded. `OutboxRelay`: the relay loop goes on
after every error (`outbox-relay/app.py`, `WorkerRuntime.run`) and time passes;
retention need not run. `AgentCommand`: the janitor loop, time, the handler
timeout, and an execution that ends; no agent has to poll, start, beat or flush.
A leased command can be leased again without limit while its starts get lost
(the queue limit counts for queued commands only), so `EventuallyOver` holds for
finitely many leases. `OperationStream`: the SSE handler of a live gateway and
the client's reconnection loop go on (weak, for each browser); Redis, the
announcements and the reconnection to Redis need not, so `EventuallyTold` rests
on the poll alone, and fails where the poll does (`EndMissed`). `EvidenceJobs`: the agents' loops, the requests they make, the
janitor's sweep and time go on (weak); failures are possible at every step, so
`EventuallyPublished` excuses a window whose emission failed. `WorkflowRun`: the
controller's worker consumes (weak); no service, agent or person has to act.
`PortForward`: the gateway's handler and its timeout, the agent's watcher and the
task that closes a session (weak); no desktop, target, link or reader has to.
`AlertRule`: the evaluator loop starts cycles (weak) and a cycle does not fail
every time at the same step (strong on its read and its write). `RecoveryPlan`:
the clock and the janitor (weak), an event about a run is read (weak for each run)
and its commit succeeds at some time (strong), since the event worker delivers it
until it does; selections, webhooks, evidence and retries need not come.

## 4. Proofs

`tlapm` checks all obligations. The theorems hold for every set of events,
workers, rows, relays, commands, agents, gateways, browsers, providers,
resources and connections and for all limits that satisfy the named assumptions,
without symmetry and without a bound that matters.

**EventPipelineProofs, the workers.** All theorems but `TypeCorrect` assume `TimingContract`:
`HandlerTimeout + Block + DeadLetterTimeout <= StaleSeconds`. This is what the
code needs and does not check at start-up. `SingleClaim` is not inductive. The
invariant adds: a worker that holds a claim sees `PROCESSING` in the ledger and
its holding time equals the ledger row's age (`OwnerInv`), so the row is not
stale and no one else can claim it; what each phase implies about the row
(`PhaseInv`, for instance that a worker about to acknowledge has a settled
event); that the ledger's final statuses go with an effect or a dead letter
(`LedgerInv`); and the counts behind the dead letters (`CountInv`,
`ExhaustedInv`). From it follow `EffectIsOnce`, `NothingIsLost`,
`DeadLettersAreJustified` and the action property `TerminalStaysFinal`.
`DeliveryRefinement` proves `Spec => Contract!Promise` step by step: a commit is
`Handle`, closing the ledger after a capture and a raw capture are `GiveUp`, an
acknowledgement is `LetGo`, and everything else leaves the decision, the effects
and what was released alone. `OwnerInv` shows that an event that is committed or
closed was still open, `PhaseInv` that one that is acknowledged was not; without
`TimingContract` a second owner could decide what another had decided.

**EventPipelineProofs, the relays.** The same module extends `OutboxRelay`, whose
definitions have names of their own for this (`RelaySpec`, `RelayNext`, `captured`
for its dead letters, `Rows` for the events it has rows of). `NothingDropped` and
`SentStaysSent` need no timing: the invariant says that a published row in the hands of a relay is stored.
`OwnerIsUnique` needs none either, since `SingleOwner` speaks of relays that have
not outlasted their lease; its invariant ties a relay's time since the lease to
what is left of the lease of every row it holds.

**EventPipelineProofs, the composition.** Both specifications constrain one
behaviour; their variables are disjoint, so a step belongs to one half or to both.
What joins them is `Handoff`: the consumers have a message exactly for the events
that a relay has stored, which is what the stream does. It is a hypothesis of
`PipelineKeepsEvents`, since the stream is not part of the repository, and so is
that both speak of the same events (`Rows = Events`). From
`NoSilentDrop` and `NoLoss` follows `EndToEnd`: an event whose row is marked sent or
deleted has a dead letter, is with the consumers, or is settled by them.

**AgentCommandProofs.** The invariant `IInv` has one part per kind of state:
`RowOK` (status, attempt, stream, lease and completion events of a row fit
together), `RunsOK` (executions so far are bounded by attempts, and a row that
can still be started has not been started in this attempt), `RequestOK` (a locked
row is queued with an attempt), `JobOK` (what an agent works on has a lease that
was handed out; an executing agent owns the one lease that was started) and
`ResultOK` (a result belongs to a lease that was started and is no longer
executed, and "cancelled" is in an outbox only after a cancellation was seen).
Each row operator has a lemma saying which parts it keeps; each action then has
one step. `RunsAtMostOnce`, `RecordsAlwaysAgree` (the stream's and the attempt's
agreement with the row), `EndIsAnnounced` and `LifecycleIsKept` follow.

**OperationStreamProofs.** `TypeCorrect` proves `TypeOK` together with `Durable`:
whatever is announced, queued or read is a sequence of the ledger. For
`NeverInvalid` the invariant `Tracked` says that what is on its way to a browser
continues what it has, up to what the handler takes as delivered (`InFlight`),
and that a batch continues what was delivered or is a snapshot sent before
(`Ordered`). For `Complete` it adds that an ending event is the ledger's last
(`Ledger`) and that whatever is in a batch, on its way or received says what the
ledger says, or, as the first event, what the row said before there was one
(`Content`); an append keeps this since the ledger only grows. Both hold for
commands of every origin and assume nothing.

**EvidenceJobsProofs.** `WindowTrue` is not inductive: the invariant adds that a
job which was leased used an attempt (`Attempted`), that until the window is
recorded a completed job keeps the result of its attempt (`ResultsKept`), that a
payload in the hands of an emitter is true as long as the window is not recorded,
and covers what was scheduled in time (`SnapTrue`), and the same of the window
(`WindowInv`). `Refinement` proves `Spec => Contract!Promise`: each action changes
the outcome of jobs as `Collect` does, or is `Announce`, or leaves both alone;
`Record` needs `SnapTrue`.

**WorkflowRunProofs.** `OneOutcome` and `SnapshotsApplied` are conjuncts of the
invariant; `Dispatching` says, for each resource, in which states of its approval,
its route and its unhandled events a command may still be asked for, and it is
what makes `OneCommandPerGrant` inductive although three handlers dispatch.
`DecisionIsFinal` and `SuccessIsOfAll` are action properties from the same
invariant.

**AlertRuleProofs.** The invariant relates what the evaluator has read (`mine`) to
the row and the ledger, which others change in between: the row itself is
written by the evaluator alone while the rule exists, an event it points to can
only have moved forward, and the samples since `since` were all hot.

**RecoveryPlanProofs.** Durations, selections, retries and the retry requests that
overlap are arbitrary; the assumptions are that a plan can be selected at all and
that the clock can move (`RecoveryPlanAssumption`). Every handler writes back a lifecycle that it read
before, so the invariant must speak of the copies in `reads` as well as of the
row. `RowsGood` says that what a row or a copy claims of its pull request and its
run is true and stays true, and that what a handler found when it read
(`Relevant`) still holds when it commits: merges and successes are final, so a
stale copy is old but not false. `Chain` orders the events of one selection, so
that it makes one pull request. With the types these are inductive (`DeployInv`)
and give `OutcomeIsTold`, `DeployedIsVerified`, and the action properties
`MergedIsFinal` and `CompletedIsFinal`. `CompletedIsStable` also needs that the
evidence subject is served one event at a time (`OnePerKind`) and that the count
of healthy windows is true of the row and of the copy in the handler's hands
(`Judged`). `RunIsAwaited` has two parts. That the runs of a change start one after
the other (`InTurn`) is inductive however retries overlap: a run is started by the
merge or by the retry of a run that failed, and every run before that one has
failed too. That the plan waits for the run under way needs that a run whose
failure was not yet heard of is still the plan's (`Awaited`), that the report of a
failed run waits for its handler (`Held`), and that a retry works on the row as it
is, which is so until one overtakes. Hence the exception in `RunAwaited`; that it
needs two requests at the same time is `OneAtATime`.

**PortForwardProofs.** None of the four invariants is inductive, and none can be
proved without the others: a frame that overdraws a window would also break the
types, and a frame that is refused ends the session with wrong counts. What a
connection has under way is spread over three queues, so the proofs look at a
queue through a few views for each connection (`Indices`, `Count`, `Credit`) and
first prove what appending or taking one frame does to each view; sums are
cardinalities of sets of numbered units (`Units`, `Frames`), which needs no
induction over data. The invariant `IInv` has for each connection:

* `Bounds`: its counters are within the session's, and the credit the desktop has
  or is about to get is within what the gateway will accept;
* `Life`: how its states at desktop, gateway and agent follow each other. Nothing
  is under way of a connection the agent has not opened (`Untouched`); a receipt
  under way has all that was read from the target and what was written so far
  (`Receipts`); a connection ended at the gateway has the agent's counts;
* `Shown`: what the desktop sent and got is what the gateway counted, less what
  waits in its queue, and no data follows the end (`DataFirst`);
* `Flow`: the equations of `FlowControlled`, which must also hold before the
  gateway has heard of the opening and while the agent closes, together with the
  order of what is under way: the opened frame comes first (`OpenedFirst`) and the
  data frames carry just the numbers the gateway expects next, in order
  (`Sequenced`). Counts alone are not inductive: the gateway refuses a frame by
  its number, and a refused frame would leave the equations wrong.

For the session it adds that the counters are the sums over the connections
(`Totals`), that after the agent's end nothing is counted any more (`AuditInv`),
and what the states of the receive loop exclude (`LoopInv`). Each action is shown
to leave all connections but one as they are (`Still`, `Views`), so that a step of
the proof is about the one connection it acts on. There is no assumption besides
those on the constants.

**Only model-checked**: the liveness properties, `EventuallyTold` and
`EventuallyReleased` of `PortForward` among them (fairness is outside the prover's
reach), and the counterexamples, which are single behaviours.

## 5. Not modelled

The content of handlers, policies, patches and commands; metrics, heartbeat files
and logs; creation of streams and consumers; the mark that a dead letter was
replayed (a replay appears as `Republish`); a commit whose outcome the client
does not learn; the RCA test reservation, command capacity, agent uninstallation;
access checks and the layout of SSE frames; evidence windows that an older
release claimed (`pending:`) and those of alertmanager webhooks; promotion and
global fan-out of a workflow; auto revert; delivery of alerts after the outbox;
terminal sessions. `PROJECT.json` gives the reason for each component left out.

## 6. Plan

1. Done: `EventWorker` with `EventContract`, `OutboxRelay`, `AgentCommand`,
   `OperationStream`, `EvidenceJobs` with `EvidenceContract`, `WorkflowRun`,
   `AlertRule`, `PortForward` and `RecoveryPlan` with runs and proofs; the
   composition of `OutboxRelay` with `EventWorker`. Every invariant and action
   property of a passing run is stated by a theorem.
2. The stream between the two halves as a module of its own, with its duplicate
   window, and the unknown outcome of a commit.
3. Command capacity under its advisory lock, agent uninstallation.
4. Inventory snapshots, terminal sessions, promotion between environments.
