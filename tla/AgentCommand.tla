---------------------------- MODULE AgentCommand ----------------------------
(***************************************************************************)
(* The life of a logical command: accepted by the gateway, projected by    *)
(* the command worker, leased, started, kept alive and completed by a      *)
(* cluster agent, cancelled or retried by an operator, and closed by the   *)
(* janitor when nobody finishes it (domains/command/repository.py,         *)
(* domains/command/handler.py and services/target/cluster-agent).          *)
(*                                                                         *)
(* A row of agent_commands with its active attempt, its operation stream   *)
(* and the CommandCompleted events staged for it is one record.  Times are *)
(* ages that Tick advances and that stop counting once nothing can depend  *)
(* on them.  Priority and creation order only decide which command a poll  *)
(* gets first: the model lets it be any available one.                     *)
(***************************************************************************)
EXTENDS Naturals

CONSTANTS
    Commands,       \* command ids
    Agents,         \* cluster agents
    SupportsCancel, \* commands whose action spec has supports_cancel
    SupportsRetry,  \* commands whose action spec has supports_manual_retry
    MaxAttempts,    \* retry_policy.max_attempts, first attempt included
    LeaseSeconds,   \* DEFAULT_COMMAND_LEASE_SECONDS
    GraceSeconds,   \* EXPIRED_COMMAND_GRACE_SECONDS
    QueueTTL,       \* QUEUED_COMMAND_TTL_SECONDS
    FlushAttempts,  \* COMMAND_OUTBOX_MAX_ATTEMPTS
    NoJob,          \* an agent between two commands
    MaxRequests,    \* bound on CommandRequested events per command
    MaxLeases,      \* bound on leases per command
    MaxFaults       \* bound on crashes, lost calls and rolled back handlers

ASSUME CommandAssumption ==
    /\ SupportsCancel \subseteq Commands
    /\ SupportsRetry \subseteq Commands
    /\ MaxAttempts \in Nat \ {0}
    /\ LeaseSeconds \in Nat
    /\ GraceSeconds \in Nat \ {0}
    /\ QueueTTL \in Nat \ {0}
    /\ FlushAttempts \in Nat \ {0}
    /\ MaxRequests \in Nat
    /\ MaxLeases \in Nat
    /\ MaxFaults \in Nat

Stopping == {"cancel_requested", "cancelling"}
Working == {"running"} \cup Stopping
Active == {"queued", "leased"} \cup Working
Terminal == {"completed", "failed", "cancelled"}

Row == [status    : {"absent"} \cup Active \cup Terminal,
        attempt   : {"none", "queued", "leased", "running", "expired"} \cup Terminal,
        count     : 0..MaxAttempts,             \* attempt_count
        lease     : 0..MaxLeases,               \* lease_id; 0: null
        issued    : 0..MaxLeases,               \* lease ids handed out so far
        idle      : 0..(LeaseSeconds + GraceSeconds + 1), \* since leased_until was set
        age       : 0..(QueueTTL + 1),          \* since created_at
        gen       : Nat,                        \* cancel_generation
        started   : BOOLEAN,                    \* started_at is set
        retryable : BOOLEAN,                    \* result.retryable is True
        stream    : {"open"} \cup Terminal,     \* kind that closed the stream
        announced : Nat]      \* CommandCompleted events staged for the attempt

Job == [cmd : Commands, lease : 1..MaxLeases, phase : {"leased", "executing"},
        seen : Nat]                             \* observed_cancel_generation

Result == [cmd : Commands, lease : 1..MaxLeases, status : Terminal,
           retryable : BOOLEAN, tries : 0..FlushAttempts]

VARIABLES
    cmd,      \* the command rows
    pending,  \* CommandRequested events not yet handled
    asked,    \* CommandRequested events so far
    locked,   \* a handler waits for the row lock its own transaction holds
    job,      \* what each agent's poll loop works on
    outbox,   \* each agent's pending command results (SQLite)
    runs,     \* history: executions begun
    faults    \* crashes, lost calls and rolled back handlers so far

requestVars == <<pending, asked, locked>>
agentVars == <<job, outbox, runs>>
vars == <<cmd, requestVars, agentVars, faults>>

TypeOK ==
    /\ cmd \in [Commands -> Row]
    /\ pending \in [Commands -> 0..MaxRequests]
    /\ asked \in [Commands -> 0..MaxRequests]
    /\ locked \in [Commands -> BOOLEAN]
    /\ job \in [Agents -> Job \cup {NoJob}]
    /\ outbox \in [Agents -> SUBSET Result]
    /\ runs \in [Commands -> Nat]
    /\ faults \in 0..MaxFaults

NewRow == [status |-> "absent", attempt |-> "none", count |-> 0, lease |-> 0,
           issued |-> 0, idle |-> 0, age |-> 0, gen |-> 0, started |-> FALSE,
           retryable |-> FALSE, stream |-> "open", announced |-> 0]

Init ==
    /\ cmd = [c \in Commands |-> NewRow]
    /\ pending = [c \in Commands |-> 0]
    /\ asked = [c \in Commands |-> 0]
    /\ locked = [c \in Commands |-> FALSE]
    /\ job = [a \in Agents |-> NoJob]
    /\ outbox = [a \in Agents |-> {}]
    /\ runs = [c \in Commands |-> 0]
    /\ faults = 0

Fault ==
    /\ faults < MaxFaults
    /\ faults' = faults + 1

-----------------------------------------------------------------------------
(* What the statements of the repository do to a row *)

\* The operation stream takes a closing event once (terminal_sequence).
Close(r, kind) == IF r.stream = "open" THEN kind ELSE r.stream

\* agent_command_queue_upsert: only a row without an attempt is projected.
Projectable(r) ==
    \/ r.status = "absent"
    \/ r.status = "queued" /\ r.attempt = "none" /\ r.count = 0

Projected(r) ==
    [r EXCEPT !.status = "queued", !.attempt = "queued", !.count = 1]

\* fail_logical_command_and_stage_event: closes a queued row, whatever its
\* attempt, and leaves any other row alone.
FailedLogical(r) ==
    IF r.status = "queued"
    THEN [r EXCEPT !.status = "failed", !.retryable = FALSE,
                   !.stream = Close(r, "failed")]
    ELSE r

Available_Running(r) ==
    \/ r.status = "queued" /\ r.attempt = "queued"
    \/ r.status \in {"leased", "running"} /\ r.idle > LeaseSeconds

\* lease_agent_command: a queued attempt, or a leased one whose lease ran out.
Available(r) ==
    \/ r.status = "queued" /\ r.attempt = "queued"
    \/ r.status = "leased" /\ r.attempt = "leased" /\ r.idle > LeaseSeconds

Leased(r) ==
    [r EXCEPT !.status = "leased", !.attempt = "leased",
              !.lease = r.issued + 1, !.issued = r.issued + 1, !.idle = 0]

LiveLease(r, l) == r.lease = l /\ r.idle <= LeaseSeconds

Startable_AnyStatus(r, l) == LiveLease(r, l)

Startable(r, l) == r.status = "leased" /\ LiveLease(r, l)

Started(r) ==
    [r EXCEPT !.status = "running", !.attempt = "running", !.idle = 0,
              !.started = TRUE]

\* heartbeat_agent_command for an agent that has seen cancel generation g
\* (0: none).
Beatable(r, l) == r.status \in {"leased"} \cup Working /\ LiveLease(r, l)

Beaten(r, g) ==
    [r EXCEPT !.idle = 0,
              !.status = IF r.status = "cancel_requested" /\ g # 0 /\ g >= r.gen
                         THEN "cancelling" ELSE r.status]

\* The same test in the completion and in the manual retry: the command can
\* have a further attempt, so its stream stays open.
RetryLeft(c, r, retryable) ==
    retryable /\ c \in SupportsRetry /\ r.count < MaxAttempts

\* complete_agent_command_and_stage_event.
Completable(r, l) == r.status \in Working /\ LiveLease(r, l)

Completed(c, r, x) ==
    [r EXCEPT !.status = x.status,
              !.attempt = x.status,
              !.retryable = x.retryable,
              !.stream = IF x.status = "failed" /\ RetryLeft(c, r, x.retryable)
                         THEN r.stream ELSE Close(r, x.status),
              !.announced = r.announced + 1]

Cancelled_LeavesAttempt(r) ==
    IF r.status = "running"
    THEN [r EXCEPT !.status = "cancel_requested", !.gen = r.gen + 1]
    ELSE [r EXCEPT !.status = "cancelled", !.retryable = FALSE,
                   !.stream = Close(r, "cancelled")]

\* stage_command_control_in_transaction, action "cancel".
Cancelled(r) ==
    IF r.status = "running"
    THEN [r EXCEPT !.status = "cancel_requested", !.gen = r.gen + 1]
    ELSE [r EXCEPT !.status = "cancelled", !.retryable = FALSE,
                   !.attempt = IF r.attempt = "none" THEN r.attempt ELSE "cancelled",
                   !.stream = Close(r, "cancelled")]

\* stage_command_control_in_transaction, action "retry".
Retried(r) ==
    [r EXCEPT !.status = "queued", !.attempt = "queued", !.count = r.count + 1,
              !.lease = 0, !.idle = 0, !.started = FALSE, !.retryable = FALSE,
              !.announced = 0]

Expirable_NotStopping(r) ==
    \/ r.status = "queued" /\ r.age > QueueTTL
    \/ r.status \in {"leased", "running"} /\ r.idle > LeaseSeconds + GraceSeconds

\* fail_expired_agent_commands: the rows it closes, and a row after it; n is
\* the number of CommandCompleted events the caller causes.
Expirable(r) ==
    \/ r.status = "queued" /\ r.age > QueueTTL
    \/ r.status \in {"leased"} \cup Working /\ r.idle > LeaseSeconds + GraceSeconds

Expired_NotAnnounced(r, n) ==
    IF ~Expirable(r) THEN r
    ELSE LET end == IF r.status \in Stopping THEN "cancelled" ELSE "failed"
         IN  [r EXCEPT !.status = end, !.retryable = FALSE,
                       !.attempt = IF r.attempt = "none" THEN r.attempt ELSE "expired",
                       !.stream = Close(r, end)]

Expired(r, n) ==
    IF ~Expirable(r) THEN r
    ELSE LET end == IF r.status \in Stopping THEN "cancelled" ELSE "failed"
         IN  [r EXCEPT !.status = end, !.retryable = FALSE,
                       !.attempt = IF r.attempt = "none" THEN r.attempt ELSE "expired",
                       !.stream = Close(r, end), !.announced = r.announced + n]

\* Ages stop counting at the first value past the last limit.
Next1(n, limit) == IF n > limit THEN n ELSE n + 1

Aged(r) ==
    [r EXCEPT !.idle = IF r.status \in {"leased"} \cup Working
                       THEN Next1(r.idle, LeaseSeconds + GraceSeconds) ELSE r.idle,
              !.age = IF r.status \in Active \cup {"failed"}
                      THEN Next1(r.age, QueueTTL) ELSE r.age]

SetRow(c, r) == cmd' = [cmd EXCEPT ![c] = r]

-----------------------------------------------------------------------------
(* Gateway and command worker *)

\* accept_command_with_receipt_stage: the row and its CommandRequested event
\* are committed together.
Accept(c) ==
    /\ cmd[c].status = "absent"
    /\ asked[c] < MaxRequests
    /\ SetRow(c, [cmd[c] EXCEPT !.status = "queued"])
    /\ pending' = [pending EXCEPT ![c] = @ + 1]
    /\ asked' = [asked EXCEPT ![c] = @ + 1]
    /\ UNCHANGED <<locked, agentVars, faults>>

\* CommandRequested without a receipt: from a workflow, or the same request
\* again under a new event id (command ids are derived from the request).
Request(c) ==
    /\ asked[c] < MaxRequests
    /\ pending' = [pending EXCEPT ![c] = @ + 1]
    /\ asked' = [asked EXCEPT ![c] = @ + 1]
    /\ UNCHANGED <<cmd, locked, agentVars, faults>>

\* The rows after the opportunistic sweep that ends every handler run.  The
\* sweep stages CommandCompleted itself and the worker yields it once more.
SweptByWorker(rows) == [c \in Commands |-> Expired(rows[c], 2)]

\* An UPDATE of the sweep waits for a locked row and then fails.
SweepUnblocked == \A c \in Commands : locked[c] => ~Expirable(cmd[c])

\* handle_command_requested up to its commit: `row` is what it made of c.
Handled(c, row) ==
    /\ pending[c] > 0
    /\ ~locked[c]
    /\ SweepUnblocked
    /\ cmd' = SweptByWorker([cmd EXCEPT ![c] = row])
    /\ pending' = [pending EXCEPT ![c] = @ - 1]
    /\ UNCHANGED <<asked, locked, agentVars, faults>>

ProjectRequest(c) ==
    /\ Projectable(cmd[c])
    /\ Handled(c, Projected(cmd[c]))

\* A policy, a guard or an approval check rejects the request.
RejectRequest(c) == Handled(c, FailedLogical(cmd[c]))

\* fail_logical_command_and_stage_event commits on a connection of its own:
\* the handler may still fail, and its event comes again.
RejectRolledBack(c) ==
    /\ pending[c] > 0
    /\ ~locked[c]
    /\ cmd[c].status = "queued"
    /\ Fault
    /\ SetRow(c, FailedLogical(cmd[c]))
    /\ UNCHANGED <<requestVars, agentVars>>

\* The upsert finds the row projected or over: nothing to queue, and
\* close_operation finds no queued row either.
DuplicateRequest(c) ==
    /\ ~Projectable(cmd[c])
    /\ cmd[c].status # "queued"
    /\ Handled(c, cmd[c])

\* The upsert finds the row queued with an attempt and keeps it locked (ON
\* CONFLICT DO UPDATE locks a row its WHERE excludes); close_operation then
\* waits for that lock on its own connection.
DuplicateBlocks(c) ==
    /\ pending[c] > 0
    /\ ~locked[c]
    /\ ~Projectable(cmd[c])
    /\ cmd[c].status = "queued"
    /\ locked' = [locked EXCEPT ![c] = TRUE]
    /\ UNCHANGED <<cmd, pending, asked, agentVars, faults>>

\* The handler timeout ends the wait and rolls back.  The event is retried or,
\* after its last attempt, dead-lettered.
DuplicateTimesOut(c) ==
    /\ locked[c]
    /\ locked' = [locked EXCEPT ![c] = FALSE]
    /\ \/ Fault /\ UNCHANGED pending
       \/ pending' = [pending EXCEPT ![c] = @ - 1] /\ UNCHANGED faults
    /\ UNCHANGED <<cmd, asked, agentVars>>

-----------------------------------------------------------------------------
(* Operator and janitor *)

Cancel(c) ==
    /\ ~locked[c]
    /\ c \in SupportsCancel
    /\ cmd[c].status \in {"queued", "leased", "running"}
    /\ SetRow(c, Cancelled(cmd[c]))
    /\ UNCHANGED <<requestVars, agentVars, faults>>

Retry(c) ==
    /\ ~locked[c]
    /\ cmd[c].status = "failed"
    /\ RetryLeft(c, cmd[c], cmd[c].retryable)
    /\ SetRow(c, Retried(cmd[c]))
    /\ UNCHANGED <<requestVars, agentVars, faults>>

\* The dedicated command-janitor.
Sweep ==
    /\ \E c \in Commands : Expirable(cmd[c])
    /\ SweepUnblocked
    /\ cmd' = [c \in Commands |-> Expired(cmd[c], 1)]
    /\ UNCHANGED <<requestVars, agentVars, faults>>

Tick ==
    /\ \E c \in Commands : Aged(cmd[c]) # cmd[c]
    /\ cmd' = [c \in Commands |-> Aged(cmd[c])]
    /\ UNCHANGED <<requestVars, agentVars, faults>>

-----------------------------------------------------------------------------
(* Agent *)

\* A poll that leased command c; its answer may be lost.
Lease(a, c) ==
    /\ job[a] = NoJob
    /\ ~locked[c]
    /\ Available(cmd[c])
    /\ cmd[c].issued < MaxLeases
    /\ SetRow(c, Leased(cmd[c]))
    /\ \/ /\ job' = [job EXCEPT ![a] = [cmd |-> c, lease |-> cmd[c].issued + 1,
                                        phase |-> "leased", seen |-> 0]]
          /\ UNCHANGED faults
       \/ Fault /\ UNCHANGED job
    /\ UNCHANGED <<requestVars, outbox, runs>>

\* start_command: execution begins only when the answer arrives.
Start(a) ==
    /\ job[a] # NoJob
    /\ job[a].phase = "leased"
    /\ LET c == job[a].cmd IN
       /\ Startable(cmd[c], job[a].lease)
       /\ SetRow(c, Started(cmd[c]))
       /\ \/ /\ job' = [job EXCEPT ![a].phase = "executing"]
             /\ runs' = [runs EXCEPT ![c] = @ + 1]
             /\ UNCHANGED faults
          \/ /\ Fault
             /\ job' = [job EXCEPT ![a] = NoJob]
             /\ UNCHANGED runs
    /\ UNCHANGED <<requestVars, outbox>>

\* start_command answers 404: the poll loop logs it and polls again.
StartRefused(a) ==
    /\ job[a] # NoJob
    /\ job[a].phase = "leased"
    /\ ~Startable(cmd[job[a].cmd], job[a].lease)
    /\ job' = [job EXCEPT ![a] = NoJob]
    /\ UNCHANGED <<cmd, requestVars, outbox, runs, faults>>

\* A heartbeat during execution; the agent learns of a cancellation from the
\* answer.  A refused heartbeat changes nothing: the execution goes on.
Heartbeat(a) ==
    /\ job[a] # NoJob
    /\ job[a].phase = "executing"
    /\ LET c == job[a].cmd
           r == Beaten(cmd[c], job[a].seen) IN
       /\ Beatable(cmd[c], job[a].lease)
       /\ SetRow(c, r)
       /\ \/ /\ job' = [job EXCEPT ![a].seen =
                            IF r.status \in Stopping THEN r.gen ELSE @]
             /\ UNCHANGED faults
          \/ Fault /\ UNCHANGED job
    /\ UNCHANGED <<requestVars, outbox, runs>>

\* The execution ends and its result is in the agent's outbox.  "cancelled" is
\* reported only after a cancellation was observed.
Finish(a) ==
    /\ job[a] # NoJob
    /\ job[a].phase = "executing"
    /\ \E end \in Terminal, retryable \in BOOLEAN :
          /\ end = "cancelled" => job[a].seen > 0
          /\ retryable => end = "failed"
          /\ outbox' = [outbox EXCEPT ![a] = @ \cup
                {[cmd |-> job[a].cmd, lease |-> job[a].lease, status |-> end,
                  retryable |-> retryable, tries |-> 0]}]
    /\ job' = [job EXCEPT ![a] = NoJob]
    /\ UNCHANGED <<cmd, requestVars, runs, faults>>

\* mark_sent, or record_failure: a result that failed too often is abandoned.
Sent(a, x) == outbox' = [outbox EXCEPT ![a] = @ \ {x}]

NotSent(a, x) ==
    outbox' = [outbox EXCEPT ![a] = (@ \ {x}) \cup
        (IF x.tries + 1 < FlushAttempts THEN {[x EXCEPT !.tries = @ + 1]} ELSE {})]

\* complete_command; the answer of an applied call may be lost.
Flush(a, x) ==
    /\ Completable(cmd[x.cmd], x.lease)
    /\ SetRow(x.cmd, Completed(x.cmd, cmd[x.cmd], x))
    /\ \/ Sent(a, x) /\ UNCHANGED faults
       \/ NotSent(a, x) /\ Fault
    /\ UNCHANGED <<requestVars, job, runs>>

\* complete_command answers 404 or does not get through.
FlushFails(a, x) ==
    /\ \/ ~Completable(cmd[x.cmd], x.lease) /\ UNCHANGED faults
       \/ Fault
    /\ NotSent(a, x)
    /\ UNCHANGED <<cmd, requestVars, job, runs>>

\* The agent process dies; its outbox survives.
Crash(a) ==
    /\ job[a] # NoJob
    /\ Fault
    /\ job' = [job EXCEPT ![a] = NoJob]
    /\ UNCHANGED <<cmd, requestVars, outbox, runs>>

-----------------------------------------------------------------------------
Handle(c) ==
    \/ ProjectRequest(c) \/ RejectRequest(c) \/ DuplicateRequest(c)
    \/ DuplicateBlocks(c) \/ DuplicateTimesOut(c)

Work(a) ==
    \/ Start(a) \/ StartRefused(a) \/ Heartbeat(a) \/ Finish(a)
    \/ \E x \in outbox[a] : Flush(a, x) \/ FlushFails(a, x)

Next ==
    \/ \E c \in Commands :
          \/ Accept(c) \/ Request(c) \/ Handle(c) \/ RejectRolledBack(c)
          \/ Cancel(c) \/ Retry(c)
    \/ Sweep
    \/ Tick
    \/ \E a \in Agents :
          \/ \E c \in Commands : Lease(a, c)
          \/ Work(a)
          \/ Crash(a)

Spec == Init /\ [][Next]_vars

\* The janitor runs in a loop, time passes, a handler ends at the latest by
\* its timeout and an execution ends.  Agents need not poll.
Fairness ==
    /\ WF_vars(Sweep)
    /\ WF_vars(Tick)
    /\ \A c \in Commands : WF_vars(DuplicateTimesOut(c))
    /\ \A a \in Agents : WF_vars(StartRefused(a)) /\ WF_vars(Finish(a))

FairSpec == Spec /\ Fairness

-----------------------------------------------------------------------------
(* Properties *)

\* _ALLOWED_TRANSITIONS of domains/command/lifecycle.py, which no caller
\* enforces.
AllowedTransitions ==
    [queued           |-> {"leased", "cancelled", "failed"},
     leased           |-> {"queued", "running", "cancel_requested", "cancelled",
                           "failed"},
     running          |-> {"cancel_requested", "completed", "failed"},
     cancel_requested |-> {"cancelling", "cancelled", "completed", "failed"},
     cancelling       |-> {"cancelled", "completed", "failed"},
     failed           |-> {"queued"},
     completed        |-> {},
     cancelled        |-> {}]

\* Every statement of the repository, in whatever order agents, operators,
\* workers and the janitor call them, keeps to the transition table of
\* lifecycle.py; in particular a command that completed or was cancelled never
\* changes again and a result "cancelled" never reaches a command nobody
\* asked to cancel.
LifecycleKept ==
    [][\A c \in Commands :
          LET old == cmd[c].status  new == cmd'[c].status
          IN  \/ new = old
              \/ old = "absent" /\ new = "queued"
              \/ old # "absent" /\ new \in AllowedTransitions[old]]_vars

\* The browser's operation stream and the command row never disagree: a closed
\* stream carries the status the command ended with, for good, and the only
\* ended command whose stream is still open is a failed one that the manual
\* retry will accept.
StreamAgrees ==
    \A c \in Commands :
        LET r == cmd[c]
        IN  r.stream = IF \/ r.status \notin Terminal
                          \/ r.status = "failed" /\ RetryLeft(c, r, r.retryable)
                       THEN "open" ELSE r.status

\* The two rows that describe one execution agree: an active command has the
\* attempt its next statement looks for, so no statement finds half of it, and
\* the attempt of an ended command is not left leased or running.
AttemptAgrees ==
    \A c \in Commands :
        LET r == cmd[c]
        IN  /\ r.status = "absent" => r.attempt = "none"
            /\ r.status = "queued" => r.attempt = IF r.count = 0 THEN "none" ELSE "queued"
            /\ r.status = "leased" => r.attempt = "leased"
            /\ r.status \in Working => r.attempt = "running"
            /\ r.status \in Terminal => r.attempt \notin {"leased", "running"}

\* The three records of one command, its row, its active attempt and its
\* operation stream, never contradict each other, although six parties update
\* them.
RecordsAgree == StreamAgrees /\ AttemptAgrees

\* An agent that runs command c and has not yet reported.
Executing(a, c) ==
    job[a] # NoJob /\ job[a].cmd = c /\ job[a].phase = "executing"

\* A command has side effects in a cluster, so it is never run by two agents at
\* the same time and never more often than it has attempts, whatever leases
\* expire, calls get lost, agents crash or operators retry.
ExecutedOnce ==
    \A c \in Commands :
        /\ runs[c] <= cmd[c].count
        /\ \A a, b \in Agents : Executing(a, c) /\ Executing(b, c) => a = b

\* A command that was started and is over has staged a CommandCompleted event,
\* so the workflow waiting for it goes on.
EndAnnounced ==
    \A c \in Commands :
        cmd[c].started /\ cmd[c].status \in Terminal => cmd[c].announced > 0

\* Every command that was accepted is over one day, even if no agent polls or
\* the agent working on it dies (fail_expired_agent_commands), provided that it
\* is not leased for ever without being started: MaxLeases bounds that.
EventuallyOver ==
    \A c \in Commands : cmd[c].status \in Active ~> cmd[c].status \in Terminal

=============================================================================
