----------------------------- MODULE WorkflowRun -----------------------------
(***************************************************************************)
(* The GitOps workflow of one commit.  The workflow controller keeps ONE   *)
(* WorkflowRun row per commit, while manifests, approvals and commands     *)
(* are kept per resource.  Its handlers consume events of the render,      *)
(* diff, policy, safe-PR, approval and command services.  Those services   *)
(* publish on different subjects, so the controller meets their events in  *)
(* any order; the event ledger (module EventWorker) makes each of them     *)
(* take effect once.  Each handler is one transaction and one action, but  *)
(* the join over all commands: it reads the approvals and commands first   *)
(* and decides later under the lock of the run's row, and the other        *)
(* services commit in between.                                             *)
(*                                                                         *)
(* One webhook per commit is modelled: git-pull-worker drops a commit it   *)
(* has already seen.  The image-only no-op branch of on_diff_analyzed is   *)
(* left out: the render worker never publishes an empty manifest.          *)
(***************************************************************************)
EXTENDS Naturals, Sequences, FiniteSets

CONSTANTS
    Resources,  \* the resources the commit's manifest renders to
    Target,     \* the resource an approved recovery PR changes
    Commit,     \* stands for the resource in a commit-scoped event
    MaxPending  \* bound: events the controller may be behind

ASSUME CommitAssumption == Commit \notin Resources

VARIABLES
    run,        \* workflow_runs.status, "absent" before the row exists
    approval,   \* approvals.status of a resource, "none" without a row
    cmd,        \* the CommandRequested of a resource and its agent_commands row
    asked,      \* how many CommandRequested a resource was given
    work,       \* the pipeline's progress with a resource
    route,      \* what the policy decided about a resource
    merged,     \* a recovery plan names this run as its merge deployment
    inbox,      \* the events the controller has not handled
    join,       \* the verdict a handler of CommandCompleted has read
    snapshots,  \* resources with an approved snapshot of this run
    announced,  \* resources an ApprovalRequested was published for
    outcome,    \* the WorkflowRunCompleted and WorkflowRunFailed published
    orphaned    \* some event was handled while the run's row did not exist

flow == <<work, route, merged>>
vars == <<run, approval, cmd, asked, flow, inbox, join, snapshots, announced,
          outcome, orphaned>>

-----------------------------------------------------------------------------
(* Statuses and their order. *)

WorkflowStatusRank ==
    [absent |-> 0, started |-> 1, rendering |-> 2, diffing |-> 3,
     policy_checking |-> 4, waiting_for_approval |-> 5, applying |-> 6,
     rollout_waiting |-> 7, succeeded |-> 8, failed |-> 8]
Statuses == DOMAIN WorkflowStatusRank
Terminal == {"succeeded", "failed"}
BeforeApplying == {"started", "rendering", "diffing", "policy_checking",
                   "waiting_for_approval"}

CommitEvents == {"git_webhook", "git_changed", "manifest_invalid"}
ResourceEvents == {"manifest_rendered", "diff_detected", "diff_analyzed",
                   "safe_pr_failed", "approval_granted", "approval_rejected",
                   "command_queued", "command_rejected", "command_completed"}
Events == (CommitEvents \X {Commit}) \cup (ResourceEvents \X Resources)

Finished == {"succeeded", "unhealthy", "failed"}
CommandStates == {"none", "requested", "refused", "queued", "cancelled"} \cup Finished

-----------------------------------------------------------------------------
(* The guarded writes of the repository. *)

\* mutant: the guard compares ranks only
Forward_ReopensEnded(new) ==
    /\ WorkflowStatusRank[run] <= WorkflowStatusRank[new]
    /\ run # new

\* workflow_transition_guard and the refusal of a repeated status
Forward(new) ==
    /\ run \notin Terminal
    /\ WorkflowStatusRank[run] <= WorkflowStatusRank[new]
    /\ run # new

\* update_workflow_run writes only an existing row
Updates(new) == run # "absent" /\ Forward(new)

\* start_workflow_run inserts the row or moves it forward
Starts(new) == Forward(new)

\* transition_run or ensure_run
Advance(applied, new) == run' = IF applied THEN new ELSE run

\* a transition that ends the run publishes its outcome
Conclude(applied, new) ==
    /\ Advance(applied, new)
    /\ outcome' = IF applied THEN Append(outcome, new) ELSE outcome

\* the handler's event leaves the inbox with its transaction
Handle(event) ==
    /\ event \in inbox
    /\ inbox' = inbox \ {event}
    /\ orphaned' = (orphaned \/ run' = "absent")

Publish(events) ==
    /\ inbox' = inbox \cup events
    /\ Cardinality(inbox') <= MaxPending
    /\ UNCHANGED orphaned

\* a CommandRequested for the command worker
Ask(r) ==
    /\ asked' = [asked EXCEPT ![r] = @ + 1]
    /\ cmd' = [cmd EXCEPT ![r] = IF @ = "none" THEN "requested" ELSE @]

-----------------------------------------------------------------------------
(* The services around the controller. *)

Init ==
    /\ run = "absent"
    /\ approval = [r \in Resources |-> "none"]
    /\ cmd = [r \in Resources |-> "none"]
    /\ asked = [r \in Resources |-> 0]
    /\ work = [r \in Resources |-> "received"]
    /\ route = [r \in Resources |-> "unknown"]
    /\ merged = FALSE
    /\ inbox = {<<"git_webhook", Commit>>}
    /\ join = [r \in Resources |-> "idle"]
    /\ snapshots = {}
    /\ announced = {}
    /\ outcome = <<>>
    /\ orphaned = FALSE

controller == <<run, join, snapshots, announced, outcome>>

\* git-pull-worker turns the webhook into git.changed
PullGit ==
    /\ \A r \in Resources : work[r] = "received"
    /\ work' = [r \in Resources |-> "changed"]
    /\ Publish({<<"git_changed", Commit>>})
    /\ UNCHANGED <<controller, approval, cmd, asked, route, merged>>

\* manifest-render-worker publishes one event per resource of the commit
Render ==
    /\ \A r \in Resources : work[r] = "changed"
    /\ work' = [r \in Resources |-> "rendered"]
    /\ Publish({"manifest_rendered"} \X Resources)
    /\ UNCHANGED <<controller, approval, cmd, asked, route, merged>>

RenderFails ==
    /\ \A r \in Resources : work[r] = "changed"
    /\ work' = [r \in Resources |-> "invalid"]
    /\ Publish({<<"manifest_invalid", Commit>>})
    /\ UNCHANGED <<controller, approval, cmd, asked, route, merged>>

\* diff-worker
DetectDiff(r) ==
    /\ work[r] = "rendered"
    /\ work' = [work EXCEPT ![r] = "diffed"]
    /\ Publish({<<"diff_detected", r>>})
    /\ UNCHANGED <<controller, approval, cmd, asked, route, merged>>

\* recovery_merge_authorization: the run is tracked once the merge handler
\* has stored it, and authorised for the exact resource before it is applied
Authorised(r) == merged /\ r = Target /\ run \in BeforeApplying

\* diff-analyze-worker stores the approval with its decision.  A safe route is
\* stored as not required and granted in the same transaction
PersistDecision(r, chosen) ==
    approval' = CASE chosen = "safe" -> [approval EXCEPT ![r] = "granted"]
                  [] chosen \in {"review", "recovery"} ->
                         [approval EXCEPT ![r] = "requested"]
                  [] OTHER -> approval

AnalyzeDiff(r) ==
    /\ work[r] = "diffed"
    /\ \E chosen \in IF ~merged THEN {"unchanged", "review", "safe"}
                     ELSE IF Authorised(r) THEN {"recovery"} ELSE {"held"} :
          /\ route' = [route EXCEPT ![r] = chosen]
          /\ work' = [work EXCEPT ![r] = IF chosen = "safe" THEN "pr" ELSE "analyzed"]
          /\ PersistDecision(r, chosen)
    /\ Publish({<<"diff_analyzed", r>>})
    /\ UNCHANGED <<controller, cmd, asked, merged>>

\* the merge of the recovery PR is recorded by its webhook at any time
MergeRecovery ==
    /\ ~merged /\ Target \in Resources
    /\ merged' = TRUE
    /\ UNCHANGED <<controller, approval, cmd, asked, work, route, inbox, orphaned>>

\* safe-pr-worker and scm-worker: the PR is created with its alert, or fails
CreateSafePr(r) ==
    /\ work[r] = "pr"
    /\ \/ /\ work' = [work EXCEPT ![r] = "alert"]
          /\ UNCHANGED <<inbox, orphaned>>
       \/ /\ work' = [work EXCEPT ![r] = "analyzed"]
          /\ Publish({<<"safe_pr_failed", r>>})
    /\ UNCHANGED <<controller, approval, cmd, asked, route, merged>>

\* alert-worker passes the command on only when an alert was delivered
DispatchAlert(r) ==
    /\ work[r] = "alert"
    /\ work' = [work EXCEPT ![r] = "analyzed"]
    /\ Ask(r) \/ UNCHANGED <<asked, cmd>>
    /\ UNCHANGED <<controller, approval, route, merged, inbox, orphaned>>

\* grant_approval and reject_approval: the first decision of an open row wins
\* and is committed with its event
ResolveIfOpen(r, status) ==
    /\ approval[r] = "requested"
    /\ approval' = [approval EXCEPT ![r] = status]

GrantApproval(r) ==
    /\ ResolveIfOpen(r, "granted")
    /\ Publish({<<"approval_granted", r>>})
    /\ UNCHANGED <<controller, flow, cmd, asked>>

RejectApproval(r) ==
    /\ ResolveIfOpen(r, "rejected")
    /\ Publish({<<"approval_rejected", r>>})
    /\ UNCHANGED <<controller, flow, cmd, asked>>

\* command-worker: a policy may refuse the command; a stored approval is needed
HandleCommandRequested(r) ==
    /\ cmd[r] = "requested"
    /\ \/ /\ approval[r] = "granted"
          /\ cmd' = [cmd EXCEPT ![r] = "queued"]
          /\ Publish({<<"command_queued", r>>})
       \/ /\ cmd' = [cmd EXCEPT ![r] = "refused"]
          /\ Publish({<<"command_rejected", r>>})
    /\ UNCHANGED <<controller, flow, approval, asked>>

\* the agent's report; a completed command may still fail the health gate
Finish(r) ==
    /\ cmd[r] = "queued"
    /\ \E result \in Finished : cmd' = [cmd EXCEPT ![r] = result]
    /\ Publish({<<"command_completed", r>>})
    /\ UNCHANGED <<controller, flow, approval, asked>>

\* a command cancelled before it started publishes no CommandCompleted
Cancel(r) ==
    /\ cmd[r] = "queued"
    /\ cmd' = [cmd EXCEPT ![r] = "cancelled"]
    /\ UNCHANGED <<controller, flow, approval, asked, inbox, orphaned>>

-----------------------------------------------------------------------------
(* The handlers of the workflow controller.  The step rows they record and    *)
(* the pipelines of other bindings they open do not come back to the run.     *)

OnGitWebhook ==
    /\ Advance(Starts("started"), "started")
    /\ Handle(<<"git_webhook", Commit>>)
    /\ UNCHANGED <<approval, cmd, asked, flow, join, snapshots, announced, outcome>>

\* a binding that is not registered and active drops the event
OnGitChanged ==
    /\ \E bound \in BOOLEAN : Advance(bound /\ Starts("rendering"), "rendering")
    /\ Handle(<<"git_changed", Commit>>)
    /\ UNCHANGED <<approval, cmd, asked, flow, join, snapshots, announced, outcome>>

OnManifestRendered(r) ==
    /\ Advance(Updates("diffing"), "diffing")
    /\ Handle(<<"manifest_rendered", r>>)
    /\ UNCHANGED <<approval, cmd, asked, flow, join, snapshots, announced, outcome>>

OnManifestInvalid ==
    /\ Conclude(Starts("failed"), "failed")
    /\ Handle(<<"manifest_invalid", Commit>>)
    /\ UNCHANGED <<approval, cmd, asked, flow, join, snapshots, announced>>

OnDiffDetected(r) ==
    /\ Advance(Updates("policy_checking"), "policy_checking")
    /\ Handle(<<"diff_detected", r>>)
    /\ UNCHANGED <<approval, cmd, asked, flow, join, snapshots, announced, outcome>>

\* mutant: the command goes out although the row was decided by someone else
OnDiffAnalyzedRecovery_IgnoresResolved(r) ==
    /\ merged
    /\ IF Authorised(r) /\ approval[r] # "rejected"
       THEN /\ approval' = [approval EXCEPT ![r] = "granted"]
            /\ run' = "applying"
            /\ Ask(r)
       ELSE UNCHANGED <<run, approval, asked, cmd>>
    /\ Handle(<<"diff_analyzed", r>>)
    /\ UNCHANGED <<flow, join, snapshots, announced, outcome>>

\* on_diff_analyzed for a run a merged recovery PR deploys: the exact resource
\* reuses the human review, every other resource is left alone.  A run that was
\* moved on between the two reads fails the handler, which is then retried
OnDiffAnalyzedRecovery(r) ==
    /\ merged
    /\ IF Authorised(r) /\ approval[r] = "requested"
       THEN ResolveIfOpen(r, "granted") /\ run' = "applying" /\ Ask(r)
       ELSE UNCHANGED <<run, approval, asked, cmd>>
    /\ Handle(<<"diff_analyzed", r>>)
    /\ UNCHANGED <<flow, join, snapshots, announced, outcome>>

OnDiffAnalyzedSafe(r) ==
    /\ ~merged /\ route[r] = "safe"
    /\ Advance(Updates("applying"), "applying")
    /\ Handle(<<"diff_analyzed", r>>)
    /\ UNCHANGED <<approval, cmd, asked, flow, join, snapshots, announced, outcome>>

\* the request is announced by the handler that moves the run to waiting
OnDiffAnalyzedReview(r) ==
    /\ ~merged /\ route[r] # "safe"
    /\ Advance(Updates("waiting_for_approval"), "waiting_for_approval")
    /\ announced' = IF Updates("waiting_for_approval") THEN announced \cup {r}
                    ELSE announced
    /\ Handle(<<"diff_analyzed", r>>)
    /\ UNCHANGED <<approval, cmd, asked, flow, join, snapshots, outcome>>

OnSafePrFailed(r) ==
    /\ Conclude(Updates("failed"), "failed")
    /\ Handle(<<"safe_pr_failed", r>>)
    /\ UNCHANGED <<approval, cmd, asked, flow, join, snapshots, announced>>

\* mutant: only the grant that moves the run dispatches its command
OnApprovalGranted_FirstOnly(r) ==
    /\ approval' = [approval EXCEPT ![r] = "granted"]
    /\ Advance(Updates("applying"), "applying")
    /\ IF Updates("applying") THEN Ask(r) ELSE UNCHANGED <<asked, cmd>>
    /\ Handle(<<"approval_granted", r>>)
    /\ UNCHANGED <<flow, join, snapshots, announced, outcome>>

\* the row is resolved whatever it holds, and the command is dispatched also
\* when another resource has already moved the run on
OnApprovalGranted(r) ==
    /\ approval' = [approval EXCEPT ![r] = "granted"]
    /\ Advance(Updates("applying"), "applying")
    /\ Ask(r)
    /\ Handle(<<"approval_granted", r>>)
    /\ UNCHANGED <<flow, join, snapshots, announced, outcome>>

OnApprovalRejected(r) ==
    /\ approval' = [approval EXCEPT ![r] = "rejected"]
    /\ Conclude(Updates("failed"), "failed")
    /\ Handle(<<"approval_rejected", r>>)
    /\ UNCHANGED <<cmd, asked, flow, join, snapshots, announced>>

OnCommandQueued(r) ==
    /\ Advance(Updates("rollout_waiting"), "rollout_waiting")
    /\ Handle(<<"command_queued", r>>)
    /\ UNCHANGED <<approval, cmd, asked, flow, join, snapshots, announced, outcome>>

OnCommandRejected(r) ==
    /\ Conclude(Updates("failed"), "failed")
    /\ Handle(<<"command_rejected", r>>)
    /\ UNCHANGED <<approval, cmd, asked, flow, join, snapshots, announced>>

-----------------------------------------------------------------------------
(* The join over the commands of the run. *)

ApprovalRows == {r \in Resources : approval[r] # "none"}
CommandRows == {r \in Resources : cmd[r] \in Finished \cup {"queued", "cancelled"}}

\* mutant: a completed command that failed the health gate is waited for
Progress_UnhealthyWaits ==
    CASE \E r \in ApprovalRows : approval[r] = "rejected" -> "failed"
      [] \E r \in ApprovalRows : approval[r] = "requested" -> "waiting"
      [] ~(ApprovalRows \subseteq CommandRows) -> "waiting"
      [] CommandRows = {} -> "waiting"
      [] \E r \in CommandRows : cmd[r] \in {"failed", "cancelled"} -> "failed"
      [] \E r \in CommandRows : cmd[r] # "succeeded" -> "waiting"
      [] OTHER -> "succeeded"

\* workflow_command_progress_status
Progress ==
    CASE \E r \in ApprovalRows : approval[r] = "rejected" -> "failed"
      [] \E r \in ApprovalRows : approval[r] = "requested" -> "waiting"
      [] ~(ApprovalRows \subseteq CommandRows) -> "waiting"
      [] CommandRows = {} -> "waiting"
      [] \E r \in CommandRows : cmd[r] \in {"failed", "cancelled"} -> "failed"
      [] \E r \in CommandRows : cmd[r] = "queued" -> "waiting"
      [] \E r \in CommandRows : cmd[r] = "unhealthy" -> "failed"
      [] OTHER -> "succeeded"

\* mutant: the approvals are not read again
AllApplied_OldApprovals ==
    /\ run # "absent"
    /\ CommandRows # {}
    /\ \A r \in CommandRows : cmd[r] = "succeeded"

\* record_approved_workflow_snapshots reads everything again under the lock of
\* the run's row and records nothing unless all of it is approved and applied
AllApplied ==
    /\ run # "absent"
    /\ \A r \in ApprovalRows : approval[r] = "granted" /\ r \in CommandRows
    /\ CommandRows # {}
    /\ \A r \in CommandRows : cmd[r] = "succeeded"

\* the first half of on_command_completed.  A handler that fails after it has
\* left no trace: its retry is a later read
ReadProgress(r) ==
    /\ <<"command_completed", r>> \in inbox
    /\ join[r] = "idle"
    /\ IF Progress = "waiting"
       THEN UNCHANGED run /\ Handle(<<"command_completed", r>>) /\ UNCHANGED join
       ELSE join' = [join EXCEPT ![r] = Progress] /\ UNCHANGED <<run, inbox, orphaned>>
    /\ UNCHANGED <<approval, cmd, asked, flow, snapshots, announced, outcome>>

\* the second half: the snapshots are kept even if the run has ended otherwise
CommitProgress(r) ==
    /\ join[r] # "idle"
    /\ LET ok == join[r] = "succeeded" /\ AllApplied
           status == IF ok THEN "succeeded" ELSE "failed"
       IN  /\ Conclude(Updates(status), status)
           /\ snapshots' = IF ok THEN snapshots \cup CommandRows ELSE snapshots
           /\ Handle(<<"command_completed", r>>)
    /\ join' = [join EXCEPT ![r] = "idle"]
    /\ UNCHANGED <<approval, cmd, asked, flow, announced>>

-----------------------------------------------------------------------------
Services ==
    \/ PullGit \/ Render \/ RenderFails \/ MergeRecovery
    \/ \E r \in Resources :
          \/ DetectDiff(r) \/ AnalyzeDiff(r) \/ CreateSafePr(r) \/ DispatchAlert(r)
          \/ GrantApproval(r) \/ RejectApproval(r)
          \/ HandleCommandRequested(r) \/ Finish(r) \/ Cancel(r)

Controller ==
    \/ OnGitWebhook \/ OnGitChanged \/ OnManifestInvalid
    \/ \E r \in Resources :
          \/ OnManifestRendered(r) \/ OnDiffDetected(r)
          \/ OnDiffAnalyzedRecovery(r) \/ OnDiffAnalyzedSafe(r)
          \/ OnDiffAnalyzedReview(r)
          \/ OnSafePrFailed(r)
          \/ OnApprovalGranted(r) \/ OnApprovalRejected(r)
          \/ OnCommandQueued(r) \/ OnCommandRejected(r)
          \/ ReadProgress(r) \/ CommitProgress(r)

Next == Services \/ Controller

Spec == Init /\ [][Next]_vars

\* the controller's worker keeps consuming; nothing is assumed of the others
FairSpec == Spec /\ WF_vars(Controller)

-----------------------------------------------------------------------------
(* Properties. *)

\* The rows, events and announcements of a run have their declared shapes.
TypeOK ==
    /\ run \in Statuses
    /\ approval \in [Resources -> {"none", "requested", "granted", "rejected"}]
    /\ cmd \in [Resources -> CommandStates]
    /\ asked \in [Resources -> Nat]
    /\ work \in [Resources -> {"received", "changed", "invalid", "rendered", "diffed",
                               "pr", "alert", "analyzed"}]
    /\ route \in [Resources -> {"unknown", "unchanged", "review", "safe", "recovery",
                                "held"}]
    /\ merged \in BOOLEAN
    /\ inbox \subseteq Events
    /\ join \in [Resources -> {"idle", "succeeded", "failed"}]
    /\ snapshots \subseteq Resources
    /\ announced \subseteq Resources
    /\ outcome \in Seq(Terminal)
    /\ orphaned \in BOOLEAN

\* A run that has ended has published exactly one outcome, the one its row
\* holds, and a run that has not ended has published none: rejected approvals,
\* refused commands, failed PRs and the join race to end it.
OneOutcome ==
    IF run \in Terminal THEN outcome = <<run>> ELSE outcome = <<>>

\* A resource is given one command at most, and only under a granted approval:
\* the human grant, the merged recovery PR and the safe PR's alert are three
\* ways to dispatch it, decided in different transactions.
OneCommandPerGrant ==
    \A r \in Resources :
        /\ asked[r] <= 1
        /\ asked[r] = 1 => approval[r] = "granted"

\* A decided approval keeps its decision: the API resolves open rows only, and
\* the handlers that write the row again without asking write what it holds.
DecisionFinal ==
    [][\A r \in Resources :
          approval[r] \in {"granted", "rejected"} => approval'[r] = approval[r]]_vars

\* A resource has an approved snapshot only when its command succeeded under a
\* granted approval, although the handler read its verdict before it took the
\* lock under which it records them.
SnapshotsApplied ==
    \A r \in snapshots : approval[r] = "granted" /\ cmd[r] = "succeeded"

\* When a run becomes succeeded, every resource that has an approval row at that
\* moment is recorded as applied: a row added between the handler's read and its
\* commit stops the success.
SuccessIsJoined ==
    [][(run # "succeeded" /\ run' = "succeeded")
         => /\ snapshots' # {}
            /\ \A r \in Resources : approval[r] # "none" => r \in snapshots']_vars

\* nothing is left for people, the pipeline or agents to do
Settled ==
    /\ run # "absent" /\ ~orphaned
    /\ ApprovalRows # {}
    /\ \A r \in Resources :
          /\ work[r] = "analyzed"
          /\ approval[r] # "requested"
          /\ approval[r] = "granted" => cmd[r] \in Finished \cup {"refused"}

\* A run whose resources are all analysed, decided and reported ends: whichever
\* report the controller handles last finds the whole set.
SettledRunEnds == Settled ~> run \in Terminal

\* Every approval granted outside the safe route gets its command, whatever has
\* become of the run (app.py: later grants "must still dispatch their own
\* command").
GrantIsDispatched ==
    \A r \in Resources :
        (approval[r] = "granted" /\ route[r] # "safe") ~> asked[r] = 1

\* Every open approval of a run that waits for approval was announced by an
\* ApprovalRequested once its analysis was handled
\* (test_diff_analysis_creates_resource_scoped_approvals_and_commands).
EveryApprovalAnnounced ==
    run = "waiting_for_approval" =>
        \A r \in Resources :
            (/\ approval[r] = "requested" /\ ~merged
             /\ <<"diff_analyzed", r>> \notin inbox /\ ~orphaned)
            => r \in announced

=============================================================================
