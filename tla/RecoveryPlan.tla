---------------------------- MODULE RecoveryPlan ----------------------------
(***************************************************************************)
(* One recovery plan from its selection to the verified recovery: the row  *)
(* of recovery_plans with its lifecycle (domains/rca/repository.py), the   *)
(* operators who select and retry (domains/rca/router.py), the workers     *)
(* that dispatch the selection and open the pull request, the pull request *)
(* webhooks (domains/gitops/router.py), the handlers of the                *)
(* rca-feedback-worker and the sweep of the rca-timeline-janitor.          *)
(*                                                                         *)
(* A handler reads the row, thinks, and writes the whole lifecycle back if *)
(* the status is the one it expects: a read and a commit.  The             *)
(* rca-feedback-worker has one replica that handles the events of a        *)
(* subject one after the other and those of different subjects together.   *)
(* An event reaches its handler in any order; the ledger of EventWorker    *)
(* makes its effect happen once.                                           *)
(***************************************************************************)
EXTENDS Integers

CONSTANTS
    PrActions,      \* candidate actions with the Safe PR route
    AutoActions,    \* candidate actions with the command route
    None,           \* no action
    MinSeconds,     \* verification.minimum_seconds, in evidence windows
    MaxSeconds,     \* verification.maximum_seconds
    MaxSelections,  \* bound on selections, retries of the Safe PR included
    MaxRetries,     \* bound on retries of a deployment, of a verification
    MaxRequests,    \* bound on the retry requests that are served together
    MaxTime         \* bound on the clock

ASSUME RecoveryPlanAssumption ==
    /\ PrActions \cap AutoActions = {} /\ None \notin PrActions \cup AutoActions
    /\ MinSeconds \in Nat /\ MaxSeconds \in Nat
    /\ MaxSelections \in Nat \ {0} /\ MaxRetries \in Nat
    /\ MaxRequests \in Nat /\ MaxTime \in Nat \ {0}

VARIABLES
    row,       \* the plan's row: status, selected_action_id, payload.lifecycle
    sels,      \* the action of each selection made
    prs,       \* the pull request of each selection
    runs,      \* the workflow runs that deploy a merged pull request
    msgs,      \* events and webhooks on their way
    reads,     \* handlers between their read and their commit
    now,       \* the database clock, in evidence windows
    seen,      \* history: what the last saved judgement said of each window
    resolved,  \* history: IncidentResolved events staged
    overtaken  \* history: a retry took effect on a plan that was no longer
               \* as the request had read it

vars == <<row, sels, prs, runs, msgs, reads, now, seen, resolved, overtaken>>

Actions == PrActions \cup AutoActions
Sel == 1..MaxSelections
Runs == Sel \X (0..MaxRetries)
NoRun == <<0, 0>>
Times == 0..MaxTime
Statuses == {"none", "selection_requested", "selected", "pr_open",
             "deploy_pending", "verification_pending", "completed", "failed"}

\* RECOVERY_PLAN_MONOTONIC_STATUSES.
Monotonic == Statuses \ {"none", "selection_requested"}

\* payload.lifecycle: the selection it belongs to, the tracked pull request
\* and its missing prerequisites, the run that deploys it, the failure, and
\* the verification.
Lives == [att : Sel \cup {0}, pr : Sel \cup {0}, blocked : BOOLEAN,
          run : Runs \cup {NoRun}, why : {"none", "safe_pr", "deploy", "expired"},
          retry : 0..MaxRetries, start : Times, since : Times, last : Times,
          count : Nat, key : Times]
NoLife == [att |-> 0, pr |-> 0, blocked |-> FALSE, run |-> NoRun, why |-> "none",
           retry |-> 0, start |-> 0, since |-> 0, last |-> 0, count |-> 0, key |-> 0]
Rows == [status : Statuses, action : Actions \cup {None}, life : Lives]

Msg(kind, id) == [kind |-> kind, id |-> id]
Webhooks == {"pr_merged", "pr_rejected"}
Requests == 1..MaxRequests
Msgs == [kind : {"planned", "requested", "evidence"}, id : Times]
        \cup [kind : {"retry"}, id : Requests]
        \cup [kind : {"selected", "pr_requested", "created", "failed", "rejected"}
                     \cup Webhooks, id : Sel]
        \cup [kind : {"merged", "completed", "run_failed"}, id : Runs]

Init ==
    /\ row = [status |-> "none", action |-> None, life |-> NoLife]
    /\ sels = [i \in Sel |-> None]
    /\ prs = [i \in Sel |-> "none"]
    /\ runs = [n \in Runs |-> "none"]
    /\ msgs = {Msg("planned", 0)}
    /\ reads = {}
    /\ now = 1
    /\ seen = [t \in Times |-> "none"]
    /\ resolved = 0
    /\ overtaken = FALSE

-----------------------------------------------------------------------------
(* The row *)

\* Mutant: a plan that is stored again starts again.
Upsert_Always(status, action) ==
    row' = [status |-> status, action |-> action, life |-> NoLife]

\* upsert_recovery_plan.
Upsert(status, action) ==
    row' = IF row.status \in Monotonic THEN row
           ELSE [status |-> status, action |-> action, life |-> NoLife]

\* Mutant: the status is not part of the condition.
Reopen_AnyStatus(action) ==
    row' = IF row.action = action
           THEN [row EXCEPT !.status = "selection_requested", !.action = None]
           ELSE row

\* reopen_recovery_plan_action; the lifecycle stays.
Reopen(action) ==
    row' = IF row.status = "selected" /\ row.action = action
           THEN [row EXCEPT !.status = "selection_requested", !.action = None]
           ELSE row

\* The handler of r is done; S are the events it staged.
Ends(r, S) ==
    /\ reads' = reads \ {r}
    /\ msgs' = (msgs \ {r.msg}) \cup S

\* Mutant: a commit does not look at the status again.
Saves_AnyStatus(r, expected, status, action, life, S) ==
    /\ row' = [status |-> status, action |-> action, life |-> life]
    /\ Ends(r, S)

\* update_recovery_plan_lifecycle_if_status, and the events of the handler.
Saves(r, expected, status, action, life, S) ==
    IF row.status = expected
    THEN /\ row' = [status |-> status, action |-> action, life |-> life]
         /\ Ends(r, S)
    ELSE UNCHANGED row /\ Ends(r, {})

\* A handler takes m and reads the row; a row it has no business with ends it.
\* Of the handlers of one kind only those of retry requests run together.
Reads(m, relevant) ==
    /\ \A r \in reads : r.msg.kind = m.kind => m.kind = "retry" /\ r.msg # m
    /\ IF relevant
       THEN /\ reads' = reads \cup {[msg |-> m, row |-> row, at |-> now]}
            /\ UNCHANGED msgs
       ELSE msgs' = msgs \ {m} /\ UNCHANGED reads

-----------------------------------------------------------------------------
(* Selection *)

\* select-worker: the operator is asked, or a harmless command is selected.
OnRecoveryPlanned ==
    /\ Msg("planned", 0) \in msgs
    /\ \/ /\ Upsert("selection_requested", None)
          /\ msgs' = (msgs \ {Msg("planned", 0)}) \cup {Msg("requested", 0)}
          /\ UNCHANGED sels
       \/ /\ sels[1] = None
          /\ \E a \in AutoActions :
                /\ Upsert("selected", a)
                /\ sels' = [sels EXCEPT ![1] = a]
          /\ msgs' = (msgs \ {Msg("planned", 0)}) \cup {Msg("selected", 1)}
    /\ UNCHANGED <<prs, runs, reads, now, seen, resolved, overtaken>>

\* approval-worker stores the request once more.
OnSelectionRequested ==
    /\ Msg("requested", 0) \in msgs
    /\ Upsert("selection_requested", None)
    /\ msgs' = msgs \ {Msg("requested", 0)}
    /\ UNCHANGED <<sels, prs, runs, reads, now, seen, resolved, overtaken>>

\* The next selection.
Unused(i) == sels[i] = None /\ \A j \in 1..(i - 1) : sels[j] # None

\* _select_recovery_action_from_record, preflight passed: row, approval and
\* event in one transaction.
Select(a, i) ==
    /\ row.status = "selection_requested"
    /\ Unused(i)
    /\ row' = [status |-> "selected", action |-> a, life |-> [NoLife EXCEPT !.att = i]]
    /\ sels' = [sels EXCEPT ![i] = a]
    /\ msgs' = msgs \cup {Msg("selected", i)}
    /\ UNCHANGED <<prs, runs, reads, now, seen, resolved, overtaken>>

\* dispatch-worker: a Safe PR is requested or refused, a command is accepted
\* or rejected.
Dispatch(i) ==
    LET a == sels[i]
    IN  /\ Msg("selected", i) \in msgs
        /\ \E S \in {{}, {Msg(IF a \in PrActions THEN "pr_requested" ELSE "rejected", i)}} :
               msgs' = (msgs \ {Msg("selected", i)}) \cup S
        /\ UNCHANGED <<row, sels, prs, runs, reads, now, seen, resolved, overtaken>>

\* on_rca_action_required: a Safe PR that the dispatch-worker refuses is
\* reported, and so is one that the preflight of an operator's request
\* refuses, whatever the status of the plan: the report may come at any time.
OnActionRequired(a) ==
    /\ row.status # "none"
    /\ Reopen(a)
    /\ UNCHANGED <<sels, prs, runs, msgs, reads, now, seen, resolved, overtaken>>

\* on_recovery_command_rejected.
RejectedRead(i) ==
    /\ Msg("rejected", i) \in msgs
    /\ Reads(Msg("rejected", i), row.status = "selected")
    /\ UNCHANGED <<row, sels, prs, runs, now, seen, resolved, overtaken>>

RejectedCommit(r) ==
    /\ r.msg.kind = "rejected"
    /\ Reopen(r.row.action)
    /\ Ends(r, {})
    /\ UNCHANGED <<sels, prs, runs, now, seen, resolved, overtaken>>

-----------------------------------------------------------------------------
(* The pull request *)

\* safe-pr-worker and scm-worker; a call that failed may have had its effect.
CreatePr(i) ==
    /\ Msg("pr_requested", i) \in msgs
    /\ \E made \in BOOLEAN, kind \in {"created", "failed"} :
           /\ kind = "created" => made
           /\ prs' = IF made THEN [prs EXCEPT ![i] = "open"] ELSE prs
           /\ msgs' = (msgs \ {Msg("pr_requested", i)}) \cup {Msg(kind, i)}
    /\ UNCHANGED <<row, sels, runs, reads, now, seen, resolved, overtaken>>

\* on_recovery_safe_pr_created.
CreatedRead(i) ==
    /\ Msg("created", i) \in msgs
    /\ Reads(Msg("created", i), row.status = "selected" /\ row.action \in PrActions)
    /\ UNCHANGED <<row, sels, prs, runs, now, seen, resolved, overtaken>>

\* The pull request is bound to the plan if its identity is the approved one;
\* the base branch may have moved since the approval.
CreatedCommit(r) ==
    /\ r.msg.kind = "created"
    /\ \/ \E missing \in BOOLEAN :
               Saves(r, "selected", "pr_open", row.action,
                     [NoLife EXCEPT !.att = r.row.life.att, !.pr = r.msg.id,
                                    !.blocked = missing], {})
       \/ Reopen(r.row.action) /\ Ends(r, {})
    /\ UNCHANGED <<sels, prs, runs, now, seen, resolved, overtaken>>

\* on_recovery_safe_pr_failed: the approval names plan and action; when it does
\* not, the failure is taken for that of the current selection.
FailedRead(i) ==
    /\ Msg("failed", i) \in msgs
    /\ \E named \in BOOLEAN :
           Reads(Msg("failed", i),
                 row.status = "selected" /\ (named => row.action = sels[i]))
    /\ UNCHANGED <<row, sels, prs, runs, now, seen, resolved, overtaken>>

FailedCommit(r) ==
    /\ r.msg.kind = "failed"
    /\ Saves(r, "selected", "failed", row.action,
             [r.row.life EXCEPT !.why = "safe_pr"], {})
    /\ UNCHANGED <<sels, prs, runs, now, seen, resolved, overtaken>>

\* GitHub: the pull request is merged, or closed or pushed to.
EndPr(i) ==
    /\ prs[i] = "open"
    /\ \E to \in {"merged", "other"} :
           /\ prs' = [prs EXCEPT ![i] = to]
           /\ msgs' = msgs \cup
                  {Msg(IF to = "merged" THEN "pr_merged" ELSE "pr_rejected", i)}
    /\ UNCHANGED <<row, sels, runs, reads, now, seen, resolved, overtaken>>

\* handle_tracked_recovery_pull_request: a pull request no plan has open is
\* not a recovery's.
WebhookRead(kind, i) ==
    /\ Msg(kind, i) \in msgs
    /\ Reads(Msg(kind, i), row.status = "pr_open" /\ row.life.pr = i)
    /\ UNCHANGED <<row, sels, prs, runs, now, seen, resolved, overtaken>>

\* The plan waits for the run that deploys the merge.
MergeCommit(r) ==
    LET n == <<r.msg.id, 0>>
    IN  /\ r.msg.kind = "pr_merged" /\ ~r.row.life.blocked
        /\ Saves(r, "pr_open", "deploy_pending", row.action,
                 [r.row.life EXCEPT !.run = n], {Msg("merged", n)})
        /\ runs' = IF row.status = "pr_open" /\ runs[n] = "none"
                   THEN [runs EXCEPT ![n] = "running"] ELSE runs
        /\ UNCHANGED <<sels, prs, now, seen, resolved, overtaken>>

\* A merge without the prerequisites is answered with 409 and changes nothing.
RefuseMerge(r) ==
    /\ r.msg.kind = "pr_merged" /\ r.row.life.blocked
    /\ Ends(r, {})
    /\ UNCHANGED <<row, sels, prs, runs, now, seen, resolved, overtaken>>

\* reject_tracked_recovery_pull_request, for a merge of another head, without a
\* binding or without a deployment context too, its prerequisites met or not.
RejectCommit(r) ==
    /\ r.msg.kind \in Webhooks
    /\ Saves(r, "pr_open", "selection_requested", None, r.row.life, {})
    /\ UNCHANGED <<sels, prs, runs, now, seen, resolved, overtaken>>

\* A webhook that is not answered is not delivered again.
LoseWebhook(m) ==
    /\ m.kind \in Webhooks
    /\ msgs' = msgs \ {m}
    /\ reads' = {r \in reads : r.msg # m}
    /\ UNCHANGED <<row, sels, prs, runs, now, seen, resolved, overtaken>>

-----------------------------------------------------------------------------
(* Deployment *)

\* The workflow controller ends the run (WorkflowRun).
RunEnds(n) ==
    /\ runs[n] = "running"
    /\ \E to \in {"succeeded", "failed"} :
           /\ runs' = [runs EXCEPT ![n] = to]
           /\ msgs' = msgs \cup
                  {Msg(IF to = "failed" THEN "run_failed" ELSE "completed", n)}
    /\ UNCHANGED <<row, sels, prs, reads, now, seen, resolved, overtaken>>

\* Mutant: the run that the merge asked for first is looked up.
Deploys_FirstRun(n) ==
    row.status = "deploy_pending" /\ <<row.life.pr, 0>> = n

\* get_recovery_plan_for_workflow: the row waits for run n.
Deploys(n) == row.status = "deploy_pending" /\ row.life.run = n

\* Mutant: the merge counts as the deployment.
StartRead_NotDeployed(kind, n) ==
    /\ Msg(kind, n) \in msgs
    /\ Reads(Msg(kind, n), Deploys(n))
    /\ UNCHANGED <<row, sels, prs, runs, now, seen, resolved, overtaken>>

\* start_recovery_verification, after the run's completion or, as the two
\* come in any order, after the merge.
StartRead(kind, n) ==
    /\ Msg(kind, n) \in msgs
    /\ Reads(Msg(kind, n), Deploys(n) /\ runs[n] = "succeeded")
    /\ UNCHANGED <<row, sels, prs, runs, now, seen, resolved, overtaken>>

StartCommit(r) ==
    /\ r.msg.kind \in {"merged", "completed"}
    /\ Saves(r, "deploy_pending", "verification_pending", row.action,
             [r.row.life EXCEPT !.start = r.at, !.since = 0], {})
    /\ UNCHANGED <<sels, prs, runs, now, seen, resolved, overtaken>>

\* on_recovery_deploy_failed.
RunFailedRead(n) ==
    /\ Msg("run_failed", n) \in msgs
    /\ Reads(Msg("run_failed", n), Deploys(n))
    /\ UNCHANGED <<row, sels, prs, runs, now, seen, resolved, overtaken>>

RunFailedCommit(r) ==
    /\ r.msg.kind = "run_failed"
    /\ Saves(r, "deploy_pending", "failed", row.action,
             [r.row.life EXCEPT !.why = "deploy"], {})
    /\ UNCHANGED <<sels, prs, runs, now, seen, resolved, overtaken>>

-----------------------------------------------------------------------------
(* Verification *)

\* Mutant: a gap between healthy windows does not start the count again.
Evaluate_NoGap(v, t, healthy, at) ==
    LET since == IF v.since = 0 THEN t ELSE v.since
        count == v.count + 1
        late == at >= v.start + MaxSeconds
    IN  IF t = v.key \/ t < v.start THEN [status |-> "verification_pending", life |-> v]
        ELSE IF ~healthy
        THEN [status |-> IF late THEN "failed" ELSE "verification_pending",
              life |-> [v EXCEPT !.since = 0, !.last = 0, !.count = 0, !.key = t]]
        ELSE [status |-> IF t - since >= MinSeconds /\ count >= 2 /\ count > MinSeconds
                         THEN "completed"
                         ELSE IF late THEN "failed" ELSE "verification_pending",
              life |-> [v EXCEPT !.since = since, !.last = t, !.count = count, !.key = t]]

\* evaluate_recovery_evidence: a window that was judged last or that is older
\* than the verification changes nothing; an unhealthy one starts over, and
\* so does one that does not follow the last healthy one within one and a
\* half times the cadence.
Evaluate(v, t, healthy, at) ==
    LET broken == v.last # 0 /\ (t <= v.last \/ 2 * (t - v.last) > 3)
        since == IF broken \/ v.since = 0 THEN t ELSE v.since
        count == IF broken THEN 1 ELSE v.count + 1
        late == at >= v.start + MaxSeconds
    IN  IF t = v.key \/ t < v.start THEN [status |-> "verification_pending", life |-> v]
        ELSE IF ~healthy
        THEN [status |-> IF late THEN "failed" ELSE "verification_pending",
              life |-> [v EXCEPT !.since = 0, !.last = 0, !.count = 0, !.key = t]]
        ELSE [status |-> IF t - since >= MinSeconds /\ count >= 2 /\ count > MinSeconds
                         THEN "completed"
                         ELSE IF late THEN "failed" ELSE "verification_pending",
              life |-> [v EXCEPT !.since = since, !.last = t, !.count = count, !.key = t]]

\* Time matters from the first verification on.
Tick ==
    /\ row.life.start # 0 /\ now < MaxTime
    /\ now' = now + 1
    /\ UNCHANGED <<row, sels, prs, runs, msgs, reads, seen, resolved, overtaken>>

\* on_recovery_verification_evidence: the evidence of a window is published
\* late, twice or never.
EvidenceRead(t) ==
    /\ row.status = "verification_pending"
    /\ Reads(Msg("evidence", t), TRUE)
    /\ UNCHANGED <<row, sels, prs, runs, now, seen, resolved, overtaken>>

EvidenceCommit(r) ==
    /\ r.msg.kind = "evidence"
    /\ \E healthy \in BOOLEAN :
           LET t == r.msg.id
               v == r.row.life
               d == Evaluate(v, t, healthy, r.at)
               saved == row.status = "verification_pending"
           IN  /\ Saves(r, "verification_pending", d.status, row.action,
                        [d.life EXCEPT !.why = IF d.status = "failed" THEN "expired"
                                               ELSE "none"], {})
               /\ seen' = IF saved /\ t # v.key /\ t >= v.start
                          THEN [seen EXCEPT ![t] = IF healthy THEN "healthy" ELSE "bad"]
                          ELSE seen
               /\ resolved' = IF saved /\ d.status = "completed" THEN resolved + 1
                              ELSE resolved
    /\ UNCHANGED <<sels, prs, runs, now, overtaken>>

\* Mutant: a verification with evidence is left to the evidence.
Expire_OnlySilent ==
    /\ row.status = "verification_pending" /\ row.life.start + MaxSeconds <= now
    /\ row.life.count = 0
    /\ row' = [row EXCEPT !.status = "failed", !.life.why = "expired"]
    /\ UNCHANGED <<sels, prs, runs, msgs, reads, now, seen, resolved, overtaken>>

\* expire_recovery_verifications.
Expire ==
    /\ row.status = "verification_pending" /\ row.life.start + MaxSeconds <= now
    /\ row' = [row EXCEPT !.status = "failed", !.life.why = "expired"]
    /\ UNCHANGED <<sels, prs, runs, msgs, reads, now, seen, resolved, overtaken>>

-----------------------------------------------------------------------------
(* Retries *)

\* The retry r is about to take effect, and the plan is not the one it read.
Overtakes(r) == overtaken' = (overtaken \/ (row.status = "failed" /\ row # r.row))

\* retry_recovery_by_correlation reads a failed plan.
RetryRead(i) ==
    /\ row.status = "failed"
    /\ Reads(Msg("retry", i), TRUE)
    /\ UNCHANGED <<row, sels, prs, runs, now, seen, resolved, overtaken>>

\* The Safe PR: the stored action is selected again.
RetrySafePr(r, i) ==
    /\ r.msg.kind = "retry" /\ r.row.life.why = "safe_pr"
    /\ Unused(i)
    /\ Saves(r, "failed", "selected", row.action, [NoLife EXCEPT !.att = i],
             {Msg("selected", i)})
    /\ sels' = IF row.status = "failed" THEN [sels EXCEPT ![i] = r.row.action]
               ELSE sels
    /\ Overtakes(r)
    /\ UNCHANGED <<prs, runs, now, seen, resolved>>

\* The deployment: the same commit in a new run.
RetryDeploy(r) ==
    LET v == r.row.life
        n == <<v.run[1], v.run[2] + 1>>
    IN  /\ r.msg.kind = "retry" /\ v.why = "deploy"
        /\ n \in Runs /\ runs[v.run] = "failed"
        /\ Saves(r, "failed", "deploy_pending", row.action,
                 [v EXCEPT !.run = n, !.why = "none", !.start = 0, !.since = 0,
                           !.last = 0, !.count = 0, !.key = 0], {})
        /\ runs' = IF row.status = "failed" /\ runs[n] = "none"
                   THEN [runs EXCEPT ![n] = "running"] ELSE runs
        /\ Overtakes(r)
        /\ UNCHANGED <<sels, prs, now, seen, resolved>>

\* The verification: the same deployment, the clock and the count from zero.
RetryVerification(r) ==
    LET v == r.row.life
    IN  /\ r.msg.kind = "retry" /\ v.why = "expired"
        /\ v.retry < MaxRetries /\ r.at + MaxSeconds <= MaxTime
        /\ runs[v.run] = "succeeded"
        /\ Saves(r, "failed", "verification_pending", row.action,
                 [v EXCEPT !.why = "none", !.retry = @ + 1, !.start = r.at, !.since = 0,
                           !.last = 0, !.count = 0, !.key = 0], {})
        /\ Overtakes(r)
        /\ UNCHANGED <<sels, prs, runs, now, seen, resolved>>

\* A handler fails or times out: its transaction is rolled back and the event
\* is delivered again.
Abort(r) ==
    /\ reads' = reads \ {r}
    /\ UNCHANGED <<row, sels, prs, runs, msgs, now, seen, resolved, overtaken>>

-----------------------------------------------------------------------------
Selection ==
    \/ OnRecoveryPlanned \/ OnSelectionRequested
    \/ \E a \in Actions, i \in Sel : Select(a, i)
    \/ \E a \in PrActions : OnActionRequired(a)
    \/ \E i \in Sel : Dispatch(i) \/ RejectedRead(i)

PullRequest ==
    \/ \E i \in Sel : CreatePr(i) \/ CreatedRead(i) \/ FailedRead(i) \/ EndPr(i)
    \/ \E kind \in Webhooks, i \in Sel : WebhookRead(kind, i)
    \/ \E m \in msgs : LoseWebhook(m)

DeployRead(n) ==
    \/ \E kind \in {"merged", "completed"} : StartRead(kind, n)
    \/ RunFailedRead(n)

Deployment == \E n \in Runs : RunEnds(n) \/ DeployRead(n)

Verification ==
    \/ Tick \/ Expire
    \/ \E i \in Requests : RetryRead(i)
    \/ \E t \in 1..now : EvidenceRead(t)

Commit(r) ==
    \/ RejectedCommit(r) \/ CreatedCommit(r) \/ FailedCommit(r)
    \/ MergeCommit(r) \/ RefuseMerge(r) \/ RejectCommit(r)
    \/ StartCommit(r) \/ RunFailedCommit(r) \/ EvidenceCommit(r)
    \/ \E i \in Sel : RetrySafePr(r, i)
    \/ RetryDeploy(r) \/ RetryVerification(r)

Next ==
    \/ Selection \/ PullRequest \/ Deployment \/ Verification
    \/ \E r \in reads : Commit(r) \/ Abort(r)

Spec == Init /\ [][Next]_vars

DeployCommit == \E r \in reads : StartCommit(r) \/ RunFailedCommit(r)

\* The clock runs and the janitor sweeps; an event of a run is delivered until
\* its handler commits.
FairSpec ==
    /\ Spec /\ WF_vars(Tick) /\ WF_vars(Expire)
    /\ \A n \in Runs : WF_vars(DeployRead(n))
    /\ SF_vars(DeployCommit)

-----------------------------------------------------------------------------
(* Properties *)

\* Every variable has its type, and the incident is resolved at most once,
\* however many handlers finish late.
TypeOK ==
    /\ row \in Rows
    /\ sels \in [Sel -> Actions \cup {None}]
    /\ prs \in [Sel -> {"none", "open", "merged", "other"}]
    /\ runs \in [Runs -> {"none", "running", "succeeded", "failed"}]
    /\ msgs \subseteq Msgs
    /\ reads \subseteq [msg : Msgs, row : Rows, at : Times]
    /\ now \in Times
    /\ seen \in [Times -> {"none", "healthy", "bad"}]
    /\ resolved \in 0..1
    /\ overtaken \in BOOLEAN

\* The outcome is told once and never taken back: the incident is resolved if
\* and only if the plan is completed, although a late request, a late webhook
\* or a late handler of an earlier stage may still write the row.
OutcomeTold == (row.status = "completed") = (resolved = 1)

\* A recovery counts as verified only if every window of an unbroken stretch
\* of at least minimum_seconds was judged healthy when it was judged last;
\* windows that came late, twice or never do not stand in for them.
CompletedStable ==
    row.status = "completed" =>
        LET v == row.life
        IN  /\ v.since # 0 /\ v.last - v.since >= MinSeconds
            /\ \A t \in v.since..v.last : seen[t] = "healthy"

\* What is verified is what was merged and deployed: the run of the lifecycle
\* has succeeded, and it deploys the tracked pull request, merged with the
\* head that was approved.
VerifiesDeployed ==
    row.status \in {"verification_pending", "completed"} =>
        LET v == row.life
        IN  v.run \in Runs /\ runs[v.run] = "succeeded"
            /\ v.run[1] = v.pr /\ prs[v.pr] = "merged"

\* A run that is under way deploys a merged pull request and is the only one of
\* its change that has not failed, and it is the one the plan waits for: no
\* deployment goes on behind the plan's back, however often it is retried and
\* however late the handlers of an earlier run commit.  The plan may wait for
\* something else only after retry requests overlapped: the endpoint compares
\* the status alone, so the second of two may commit when the retry of the first
\* has failed in its turn (overtaken).
RunAwaited ==
    \A n \in Runs : runs[n] = "running" =>
        /\ prs[n[1]] = "merged"
        /\ \A m \in Runs \ {n} : m[1] = n[1] => runs[m] \in {"none", "failed"}
        /\ overtaken \/ Deploys(n)

\* While a merged change is deployed or verified, and once the plan is
\* completed, no step opens the selection again, so no second change is selected
\* beside the first one.  (From "failed" a retry of the Safe PR may.)
MergedStays ==
    [][row.status \in {"deploy_pending", "verification_pending", "completed"} =>
           row'.status \notin {"selection_requested", "selected", "pr_open"}]_vars

\* A verification ends, also when no evidence arrives and although evidence
\* handlers write the whole lifecycle back.
VerificationEnds ==
    (row.status = "verification_pending") ~> (row.status # "verification_pending")

\* Merge event and end of the run converge in either order, for the first run
\* and for a retried one: the plan does not wait for a run that has ended, if no
\* retry took effect on a plan that had changed since the request read it
\* (overtaken), as one of two overlapping requests may.
DeployFollowed ==
    (row.status = "deploy_pending" /\ runs[row.life.run] \in {"succeeded", "failed"})
        ~> (row.status # "deploy_pending" \/ overtaken)

\* update_recovery_plan_lifecycle_if_status promises that its status
\* predicate keeps a stale handler from moving a later attempt backwards.
LaterAttemptKept ==
    [][row.status = "verification_pending" /\ row'.life.run = row.life.run =>
           row'.life.retry >= row.life.retry]_vars

=============================================================================
