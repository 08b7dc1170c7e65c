---------------------------- MODULE EvidenceJobs ----------------------------
(***************************************************************************)
(* The join of one evidence window: a job per provider is queued, leased   *)
(* by the provider loops of the agents, completed or failed, and whoever   *)
(* makes the last job final publishes the window                           *)
(* (domains/target/repository.py, evidence_jobs.py and router.py, the      *)
(* agent's evidence/jobs.py and the sweep of the command janitor).         *)
(*                                                                         *)
(* Every database call is a transaction of its own, so the publication is  *)
(* three steps: look for the window, read the jobs, record.  A lease id is *)
(* the attempt it was given for, and a collected result is named by it.    *)
(***************************************************************************)
EXTENDS Naturals, FiniteSets

CONSTANTS
    Providers,     \* the provider keys of the policy
    Agents,        \* agent processes, each with a loop per provider
    Janitor,       \* the command janitor
    MaxAttempts,   \* policy.evidence.max_attempts
    LeaseSeconds,  \* DEFAULT_EVIDENCE_JOB_LEASE_SECONDS
    NoPayload      \* "no payload": window not recorded, nothing read

Loops == Providers \X Agents
Emitters == Loops \cup {Janitor}
ProviderOf(l) == l[1]

ASSUME EvidenceAssumption ==
    /\ Janitor \notin Loops
    /\ NoPayload \notin [Providers -> Nat]
    /\ MaxAttempts \in Nat \ {0}
    /\ LeaseSeconds \in Nat

VARIABLES
    status,    \* evidence_jobs.status, "absent" when there is no row
    attempts,  \* evidence_jobs.attempt_count, and the lease id
    left,      \* time left until the leased_until of a leased row, or 0
    strict,    \* the row's failure_policy is "strict"
    result,    \* attempt whose result the row holds, 0 for NULL
    window,    \* evidence_windows.payload
    staged,    \* ClusterEvidenceReceived events in the outbox
    phase,     \* where each loop, its request or the janitor is
    lease,     \* the lease a loop collects under, 0 for none
    snap,      \* the payload an emitter has aggregated
    dropped,   \* an emitter has failed between a completion and the record
    late       \* the row was inserted when a payload had already been read

jobVars == <<status, attempts, left, strict, result>>
vars == <<jobVars, window, staged, phase, lease, snap, dropped, late>>

Final == {"completed", "failed"}
Statuses == {"absent", "queued", "leased"} \cup Final
Emitting == {"checking", "reading", "recording"}

\* What a payload says of a provider: the attempt its data come from, or
\* that it has none (an empty payload with status "unavailable", or no entry).
Unavailable == MaxAttempts + 1
NoEntry == 0
Pending == MaxAttempts + 2
Payloads == [Providers -> 0..MaxAttempts + 1]

TypeOK ==
    /\ status \in [Providers -> Statuses]
    /\ attempts \in [Providers -> 0..MaxAttempts]
    /\ left \in [Providers -> 0..LeaseSeconds]
    /\ strict \in [Providers -> BOOLEAN]
    /\ result \in [Providers -> 0..MaxAttempts]
    /\ window \in Payloads \cup {NoPayload}
    /\ staged \in Nat
    /\ phase \in [Emitters -> {"idle", "collecting"} \cup Emitting]
    /\ lease \in [Loops -> 0..MaxAttempts]
    /\ snap \in [Emitters -> Payloads \cup {NoPayload}]
    /\ dropped \in BOOLEAN
    /\ late \in [Providers -> BOOLEAN]
    /\ \A p \in Providers : result[p] # 0 => status[p] = "completed"

Init ==
    /\ status = [p \in Providers |-> "absent"]
    /\ attempts = [p \in Providers |-> 0]
    /\ left = [p \in Providers |-> 0]
    /\ strict = [p \in Providers |-> FALSE]
    /\ result = [p \in Providers |-> 0]
    /\ window = NoPayload
    /\ staged = 0
    /\ phase = [m \in Emitters |-> "idle"]
    /\ lease = [l \in Loops |-> 0]
    /\ snap = [m \in Emitters |-> NoPayload]
    /\ dropped = FALSE
    /\ late = [p \in Providers |-> FALSE]

-----------------------------------------------------------------------------
(* Building blocks *)

Goto(m, s) ==
    /\ phase' = [phase EXCEPT ![m] = s]
    /\ snap' = [snap EXCEPT ![m] = NoPayload]

\* leased_until < now().
Expired(p) == status[p] = "leased" /\ left[p] = 0

\* Loop l stops collecting.
Done(l) == lease' = [lease EXCEPT ![l] = 0]

\* lease_evidence_job: the WHERE of the candidate.
Available(p) ==
    /\ status[p] = "queued" \/ Expired(p)
    /\ attempts[p] < MaxAttempts

\* fail_exhausted_evidence_jobs: the WHERE.
Exhausted(p) == Expired(p) /\ attempts[p] >= MaxAttempts

Ready_AnyFinal ==
    /\ \E p \in Providers : status[p] # "absent"
    /\ \E p \in Providers : status[p] \in Final
    /\ \A p \in Providers : ~(strict[p] /\ status[p] = "failed")

\* aggregate_evidence_payload: when it returns a payload.
Ready ==
    /\ \E p \in Providers : status[p] # "absent"
    /\ \A p \in Providers : status[p] \in Final \cup {"absent"}
    /\ \A p \in Providers : ~(strict[p] /\ status[p] = "failed")

\* aggregate_evidence_payload: what it returns.
Aggregate ==
    [p \in Providers |->
        CASE status[p] = "completed" -> result[p]
          [] status[p] = "failed"    -> Unavailable
          [] OTHER                   -> NoEntry]

-----------------------------------------------------------------------------
(* Scheduling, leasing and time *)

\* An emitter has read the jobs and not yet recorded the window.
Reading == \E m \in Emitters : phase[m] = "recording"

\* queue_evidence_jobs for the providers S that are due, with the failure
\* policy of the moment; a row that exists is left alone.  Providers have
\* intervals of their own, so a window can be scheduled again for others.
Schedule(S, isStrict) ==
    LET new == {p \in S : status[p] = "absent"} IN
    /\ new # {}
    /\ status' = [p \in Providers |-> IF p \in new THEN "queued" ELSE status[p]]
    /\ strict' = [p \in Providers |-> IF p \in new THEN isStrict ELSE strict[p]]
    /\ late' = [p \in Providers |->
                   late[p] \/ (p \in new /\ (window # NoPayload \/ Reading))]
    /\ UNCHANGED <<attempts, left, result, window, staged, phase, lease, snap,
                   dropped>>

\* poll_evidence_job: the loop of one provider gets a lease.
Lease(l) ==
    LET p == ProviderOf(l) IN
    /\ phase[l] = "idle"
    /\ Available(p)
    /\ status' = [status EXCEPT ![p] = "leased"]
    /\ attempts' = [attempts EXCEPT ![p] = @ + 1]
    /\ left' = [left EXCEPT ![p] = LeaseSeconds]
    /\ lease' = [lease EXCEPT ![l] = attempts[p] + 1]
    /\ Goto(l, "collecting")
    /\ UNCHANGED <<strict, result, window, staged, dropped, late>>

Tick ==
    /\ \E p \in Providers : left[p] > 0
    /\ left' = [p \in Providers |-> IF left[p] > 0 THEN left[p] - 1 ELSE 0]
    /\ UNCHANGED <<status, attempts, strict, result, window, staged, phase,
                   lease, snap, dropped, late>>

\* The agent dies, or its poll or result call fails before it reaches the
\* gateway: work_once does not try again.
AgentFails(l) ==
    /\ phase[l] = "collecting"
    /\ Goto(l, "idle")
    /\ Done(l)
    /\ UNCHANGED <<jobVars, window, staged, dropped, late>>

-----------------------------------------------------------------------------
(* evidence_job_result *)

Complete_AnyLease(l, ok) ==
    LET p == ProviderOf(l) IN
    /\ phase[l] = "collecting"
    /\ status[p] = "leased"
    /\ status' = [status EXCEPT ![p] =
                    IF ok THEN "completed"
                    ELSE IF attempts[p] >= MaxAttempts THEN "failed" ELSE "queued"]
    /\ result' = [result EXCEPT ![p] = IF ok THEN lease[l] ELSE 0]
    /\ left' = [left EXCEPT ![p] = 0]
    /\ Goto(l, "checking")
    /\ Done(l)
    /\ UNCHANGED <<attempts, strict, window, staged, dropped, late>>

\* complete_evidence_job: the row is LEASED under this lease, expired or not.
Complete(l, ok) ==
    LET p == ProviderOf(l) IN
    /\ phase[l] = "collecting"
    /\ status[p] = "leased"
    /\ attempts[p] = lease[l]
    /\ status' = [status EXCEPT ![p] =
                    IF ok THEN "completed"
                    ELSE IF attempts[p] >= MaxAttempts THEN "failed" ELSE "queued"]
    /\ result' = [result EXCEPT ![p] = IF ok THEN lease[l] ELSE 0]
    /\ left' = [left EXCEPT ![p] = 0]
    /\ Goto(l, "checking")
    /\ Done(l)
    /\ UNCHANGED <<attempts, strict, window, staged, dropped, late>>

\* complete_evidence_job: the lease was the last one, but the row is no
\* longer LEASED (the janitor closed it); the request goes on without a write.
CompleteAgain(l) ==
    LET p == ProviderOf(l) IN
    /\ phase[l] = "collecting"
    /\ status[p] # "leased"
    /\ attempts[p] = lease[l]
    /\ Goto(l, "checking")
    /\ Done(l)
    /\ UNCHANGED <<jobVars, window, staged, dropped, late>>

\* complete_evidence_job found no row of this lease: 404, the loop polls on.
CompleteRefused(l) ==
    /\ phase[l] = "collecting"
    /\ attempts[ProviderOf(l)] # lease[l]
    /\ Goto(l, "idle")
    /\ Done(l)
    /\ UNCHANGED <<jobVars, window, staged, dropped, late>>

-----------------------------------------------------------------------------
(* emit_evidence_if_ready, for a request or for the janitor *)

\* get_evidence_window: a recorded window ends it.
CheckWindow(m) ==
    /\ phase[m] = "checking"
    /\ Goto(m, IF window = NoPayload THEN "reading" ELSE "idle")
    /\ UNCHANGED <<jobVars, window, staged, lease, dropped, late>>

\* evidence_payload_if_ready.
ReadPayload(m) ==
    /\ phase[m] = "reading"
    /\ phase' = [phase EXCEPT ![m] = IF Ready THEN "recording" ELSE "idle"]
    /\ snap' = [snap EXCEPT ![m] = IF Ready THEN Aggregate ELSE NoPayload]
    /\ UNCHANGED <<jobVars, window, staged, lease, dropped, late>>

\* record_evidence_event_once: INSERT ... ON CONFLICT DO NOTHING, the event
\* in the outbox and the jobs' results set to NULL in one transaction.
Record(m) ==
    /\ phase[m] = "recording"
    /\ IF window = NoPayload
       THEN /\ window' = snap[m]
            /\ staged' = staged + 1
            /\ result' = [p \in Providers |-> 0]
       ELSE UNCHANGED <<window, staged, result>>
    /\ Goto(m, "idle")
    /\ UNCHANGED <<status, attempts, left, strict, lease, dropped, late>>

\* The gateway or the janitor dies, or a call between the completion and the
\* record raises (touch_agent_seen, the update event, the inventory ingest,
\* the three steps above): the request answers 500, the sweep logs it.
EmitFails(m) ==
    /\ phase[m] \in Emitting
    /\ dropped' = TRUE
    /\ Goto(m, "idle")
    /\ UNCHANGED <<jobVars, window, staged, lease, late>>

Sweep_NoEmit ==
    /\ phase[Janitor] = "idle"
    /\ \E p \in Providers : Exhausted(p)
    /\ status' = [p \in Providers |-> IF Exhausted(p) THEN "failed" ELSE status[p]]
    /\ UNCHANGED <<attempts, left, strict, result, window, staged, phase, lease,
                   snap, dropped, late>>

\* sweep_exhausted_evidence_jobs: the jobs are closed in one transaction,
\* then the janitor tries to publish their window.
Sweep ==
    /\ phase[Janitor] = "idle"
    /\ \E p \in Providers : Exhausted(p)
    /\ status' = [p \in Providers |-> IF Exhausted(p) THEN "failed" ELSE status[p]]
    /\ result' = [p \in Providers |-> IF Exhausted(p) THEN 0 ELSE result[p]]
    /\ Goto(Janitor, "checking")
    /\ UNCHANGED <<attempts, left, strict, window, staged, lease, dropped, late>>

Report(l) ==
    \/ \E ok \in BOOLEAN : Complete(l, ok)
    \/ CompleteAgain(l) \/ CompleteRefused(l)

Emit(m) == CheckWindow(m) \/ ReadPayload(m) \/ Record(m)

Next ==
    \/ \E S \in SUBSET Providers, b \in BOOLEAN : Schedule(S, b)
    \/ \E l \in Loops : Lease(l) \/ Report(l) \/ AgentFails(l)
    \/ \E m \in Emitters : Emit(m) \/ EmitFails(m)
    \/ Sweep
    \/ Tick

\* The agent's loops poll and report for ever (work_forever; every collector
\* call has a client timeout), requests run to their end, the janitor sweeps
\* periodically and time passes.
Fairness ==
    /\ \A l \in Loops : WF_vars(Lease(l)) /\ WF_vars(Report(l))
    /\ \A m \in Emitters : WF_vars(Emit(m))
    /\ WF_vars(Sweep)
    /\ WF_vars(Tick)

Spec == Init /\ [][Next]_vars
FairSpec == Spec /\ Fairness

-----------------------------------------------------------------------------
(* Properties *)

\* What the window may say of provider p: nothing, the data of the attempt
\* that completed its job, or, unless its policy is strict, that it failed.
TrueEntry(p, entry) ==
    \/ entry = NoEntry
    \/ status[p] = "completed" /\ entry = attempts[p]
    \/ status[p] = "failed" /\ ~strict[p] /\ entry = Unavailable

\* A window is published exactly once, by one of the emitters that race for
\* it, and with what the jobs really ended with: no data of a lease that was
\* taken over, none of the rows another emitter had already set to NULL
\* (emit_evidence_if_ready reads, and record_evidence_event_once writes and
\* clears, in different transactions).
WindowTrue ==
    IF window = NoPayload THEN staged = 0
    ELSE /\ staged = 1
         /\ \E p \in Providers : window[p] # NoEntry
         /\ \A p \in Providers : TrueEntry(p, window[p])

\* Every provider scheduled for the window before its data were read is in
\* it: nobody publishes while a job is open (aggregate_evidence_payload).
CoversScheduled ==
    window # NoPayload =>
        \A p \in Providers : status[p] # "absent" /\ ~late[p] => window[p] # NoEntry

\* What is published is published once, true and complete, whoever publishes it.
WindowSound == WindowTrue /\ CoversScheduled

Scheduled == \E p \in Providers : status[p] = "queued"

\* A strict provider failed: the window is withheld on purpose.
Withheld == \E p \in Providers : strict[p] /\ status[p] = "failed"

\* Somebody publishes: the emitter of the last job to end sees all the others
\* ended, whichever of them that is, unless a failure stopped it.
EventuallyPublished ==
    Scheduled ~> (window # NoPayload \/ Withheld \/ dropped)

\* The same without the excuse: a sweep or a result leads to the publication
\* or to the withholding of the window.
EventuallyDecided == Scheduled ~> (window # NoPayload \/ Withheld)

\* What the consumers are promised (EvidenceContract): a job's outcome is
\* the attempt that completed it, and neither it nor the announcement of the
\* window ever changes.
Outcome(p) ==
    CASE status[p] = "absent"    -> NoEntry
      [] status[p] = "completed" -> attempts[p]
      [] status[p] = "failed"    -> Unavailable
      [] OTHER                   -> Pending

Contract == INSTANCE EvidenceContract WITH
    Outcomes <- 1..Unavailable, Open <- Pending, Unasked <- NoEntry,
    Silent <- NoPayload, outcome <- [p \in Providers |-> Outcome(p)],
    announcement <- window

\* Every behaviour of the jobs, requests and sweeps is one of the contract.
ImplementsContract == Contract!Promise
=============================================================================
