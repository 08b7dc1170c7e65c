-------------------------- MODULE WorkflowRunProofs --------------------------
(***************************************************************************)
(* Proofs about WorkflowRun, for every set of resources and every bound.   *)
(***************************************************************************)
EXTENDS WorkflowRun, TLAPS

\* How a resource comes to its command: an event tells what the row holds, a
\* command needs a decision, and a safe PR holds the grant until it is used.
Dispatched(r) ==
    /\ <<"approval_granted", r>> \in inbox => approval[r] = "granted" /\ asked[r] = 0
    /\ <<"approval_rejected", r>> \in inbox => approval[r] = "rejected"
    /\ approval[r] # "granted" => asked[r] = 0
    /\ work[r] \in {"pr", "alert"} =>
           /\ approval[r] = "granted" /\ asked[r] = 0
           /\ <<"approval_granted", r>> \notin inbox
    /\ work[r] \in {"received", "changed", "invalid", "rendered", "diffed"} =>
           approval[r] = "none"
    /\ asked[r] <= 1
    /\ cmd[r] # "none" => asked[r] = 1

Dispatching == \A r \in Resources : Dispatched(r)

\* The steps DecisionFinal and SuccessIsJoined allow.
Decided ==
    \A r \in Resources :
        approval[r] \in {"granted", "rejected"} => approval'[r] = approval[r]
Joined ==
    (run # "succeeded" /\ run' = "succeeded")
        => /\ snapshots' # {}
           /\ \A r \in Resources : approval[r] # "none" => r \in snapshots'

IInv == TypeOK /\ OneOutcome /\ Dispatching /\ SnapshotsApplied

-----------------------------------------------------------------------------
\* A dispatched command is counted and waits for the command worker.
LEMMA AskType ==
    ASSUME NEW r \in Resources, asked \in [Resources -> Nat],
           cmd \in [Resources -> CommandStates], Ask(r)
    PROVE  asked' \in [Resources -> Nat] /\ cmd' \in [Resources -> CommandStates]
<1>1. asked' \in [Resources -> Nat]
    BY DEF Ask
<1>2. "requested" \in CommandStates
    BY DEF CommandStates
<1>3. cmd' \in [Resources -> CommandStates]
    BY <1>2 DEF Ask
<1>4. QED
    BY <1>1, <1>3

\* It leaves the other resources alone, and a command that exists as it is.
LEMMA AskEffect ==
    ASSUME NEW r \in Resources, NEW q \in Resources, asked \in [Resources -> Nat],
           cmd \in [Resources -> CommandStates], Ask(r)
    PROVE  /\ asked'[q] = IF q = r THEN asked[q] + 1 ELSE asked[q]
           /\ q # r => cmd'[q] = cmd[q]
           /\ cmd[q] # "none" => cmd'[q] = cmd[q]
    BY DEF Ask

\* The join answers with one of three verdicts.
LEMMA ProgressType == Progress \in {"waiting", "succeeded", "failed"}
<1> HIDE DEF ApprovalRows, CommandRows
<1>1. QED
    BY Zenon DEF Progress

\* The one outcome of a run that had none is the sequence of that outcome.
LEMMA FirstOutcome ==
    ASSUME NEW status PROVE Append(<<>>, status) = <<status>>
    OBVIOUS

\* Every step keeps the shapes of the rows and events.
LEMMA TypeStep ==
    ASSUME TypeOK, [Next]_vars
    PROVE  TypeOK'
<1> USE DEF TypeOK, Statuses, Terminal, WorkflowStatusRank
<1>1. CASE PullGit
    BY <1>1 DEF PullGit, Publish, controller, Events, CommitEvents
<1>2. CASE Render
    BY <1>2 DEF Render, Publish, controller, Events, ResourceEvents
<1>3. CASE RenderFails
    BY <1>3 DEF RenderFails, Publish, controller, Events, CommitEvents
<1>4. CASE MergeRecovery
    BY <1>4 DEF MergeRecovery, controller
<1>5. ASSUME NEW r \in Resources, DetectDiff(r) PROVE TypeOK'
    BY <1>5 DEF DetectDiff, Publish, controller, Events, ResourceEvents
<1>6. ASSUME NEW r \in Resources, AnalyzeDiff(r) PROVE TypeOK'
    BY <1>6 DEF AnalyzeDiff, Publish, controller, PersistDecision, Events,
        ResourceEvents
<1>7. ASSUME NEW r \in Resources, CreateSafePr(r) PROVE TypeOK'
    <2>1. work' \in [Resources -> {"received", "changed", "invalid", "rendered", "diffed",
                                   "pr", "alert", "analyzed"}]
        BY <1>7 DEF CreateSafePr
    <2>2. inbox' \subseteq Events
        <3>1. inbox \subseteq Events /\ <<"safe_pr_failed", r>> \in Events
            BY DEF Events, ResourceEvents
        <3>2. inbox' = inbox \/ inbox' = inbox \cup {<<"safe_pr_failed", r>>}
            BY <1>7 DEF CreateSafePr, Publish
        <3>3. QED
            BY <3>1, <3>2
    <2>3. orphaned' = orphaned
        BY <1>7 DEF CreateSafePr, Publish
    <2>4. QED
        BY <1>7, <2>1, <2>2, <2>3 DEF CreateSafePr, controller
<1>8. ASSUME NEW r \in Resources, DispatchAlert(r) PROVE TypeOK'
    <2>1. asked' \in [Resources -> Nat] /\ cmd' \in [Resources -> CommandStates]
        <3>1. CASE Ask(r)
            BY <3>1, AskType
        <3>2. CASE UNCHANGED <<asked, cmd>>
            BY <3>2
        <3>3. QED
            BY <1>8, <3>1, <3>2 DEF DispatchAlert
    <2>2. QED
        BY <1>8, <2>1 DEF DispatchAlert, controller
<1>9. ASSUME NEW r \in Resources, GrantApproval(r) PROVE TypeOK'
    BY <1>9 DEF GrantApproval, ResolveIfOpen, Publish, controller, flow, Events,
        ResourceEvents
<1>10. ASSUME NEW r \in Resources, RejectApproval(r) PROVE TypeOK'
    <2>1. approval' \in [Resources -> {"none", "requested", "granted", "rejected"}]
        BY <1>10 DEF RejectApproval, ResolveIfOpen
    <2>2. inbox' \subseteq Events /\ orphaned' = orphaned
        <3>1. inbox \subseteq Events /\ <<"approval_rejected", r>> \in Events
            BY DEF Events, ResourceEvents
        <3>2. inbox' = inbox \cup {<<"approval_rejected", r>>} /\ orphaned' = orphaned
            BY <1>10 DEF RejectApproval, Publish
        <3>3. QED
            BY <3>1, <3>2
    <2>3. QED
        BY <1>10, <2>1, <2>2 DEF RejectApproval, controller, flow
<1>11. ASSUME NEW r \in Resources, HandleCommandRequested(r) PROVE TypeOK'
    <2>1. cmd' \in [Resources -> CommandStates]
        <3>1. cmd' = [cmd EXCEPT ![r] = "queued"] \/ cmd' = [cmd EXCEPT ![r] = "refused"]
            BY <1>11 DEF HandleCommandRequested
        <3>2. "queued" \in CommandStates /\ "refused" \in CommandStates
            BY DEF CommandStates
        <3>3. QED
            BY <3>1, <3>2
    <2>2. inbox' \subseteq Events
        <3>1. /\ inbox \subseteq Events
              /\ <<"command_queued", r>> \in Events /\ <<"command_rejected", r>> \in Events
            BY DEF Events, ResourceEvents
        <3>2. \/ inbox' = inbox \cup {<<"command_queued", r>>}
              \/ inbox' = inbox \cup {<<"command_rejected", r>>}
            BY <1>11 DEF HandleCommandRequested, Publish
        <3>3. QED
            BY <3>1, <3>2
    <2>3. orphaned' = orphaned
        BY <1>11 DEF HandleCommandRequested, Publish
    <2>4. QED
        BY <1>11, <2>1, <2>2, <2>3 DEF HandleCommandRequested, controller, flow
<1>12. ASSUME NEW r \in Resources, Finish(r) PROVE TypeOK'
    BY <1>12 DEF Finish, Publish, controller, flow, Finished, Events,
        ResourceEvents, CommandStates
<1>13. ASSUME NEW r \in Resources, Cancel(r) PROVE TypeOK'
    BY <1>13 DEF Cancel, controller, flow, CommandStates
<1>14. CASE OnGitWebhook
    BY <1>14 DEF OnGitWebhook, Advance, Handle, flow
<1>15. CASE OnGitChanged
    BY <1>15 DEF OnGitChanged, Advance, Handle, flow
<1>16. CASE OnManifestInvalid
    BY <1>16 DEF OnManifestInvalid, Conclude, Advance, Handle, flow
<1>17. ASSUME NEW r \in Resources, OnManifestRendered(r) PROVE TypeOK'
    BY <1>17 DEF OnManifestRendered, Advance, Handle, flow
<1>18. ASSUME NEW r \in Resources, OnDiffDetected(r) PROVE TypeOK'
    BY <1>18 DEF OnDiffDetected, Advance, Handle, flow
<1>19. ASSUME NEW r \in Resources, OnDiffAnalyzedRecovery(r) PROVE TypeOK'
    <2>1. CASE Authorised(r) /\ approval[r] = "requested"
        <3>1. Ask(r)
            BY <1>19, <2>1 DEF OnDiffAnalyzedRecovery
        <3>2. asked' \in [Resources -> Nat] /\ cmd' \in [Resources -> CommandStates]
            BY <3>1, AskType
        <3>3. QED
            BY <1>19, <2>1, <3>2 DEF OnDiffAnalyzedRecovery, ResolveIfOpen, Handle, flow
    <2>2. CASE ~(Authorised(r) /\ approval[r] = "requested")
        BY <1>19, <2>2 DEF OnDiffAnalyzedRecovery, Handle, flow
    <2>3. QED
        BY <2>1, <2>2
<1>20. ASSUME NEW r \in Resources, OnDiffAnalyzedSafe(r) PROVE TypeOK'
    BY <1>20 DEF OnDiffAnalyzedSafe, Advance, Handle, flow
<1>21. ASSUME NEW r \in Resources, OnDiffAnalyzedReview(r) PROVE TypeOK'
    BY <1>21 DEF OnDiffAnalyzedReview, Advance, Handle, flow
<1>22. ASSUME NEW r \in Resources, OnSafePrFailed(r) PROVE TypeOK'
    BY <1>22 DEF OnSafePrFailed, Conclude, Advance, Handle, flow
<1>23. ASSUME NEW r \in Resources, OnApprovalGranted(r) PROVE TypeOK'
    BY <1>23 DEF OnApprovalGranted, Advance, Ask, Handle, flow, CommandStates
<1>24. ASSUME NEW r \in Resources, OnApprovalRejected(r) PROVE TypeOK'
    BY <1>24 DEF OnApprovalRejected, Conclude, Advance, Handle, flow
<1>25. ASSUME NEW r \in Resources, OnCommandQueued(r) PROVE TypeOK'
    BY <1>25 DEF OnCommandQueued, Advance, Handle, flow
<1>26. ASSUME NEW r \in Resources, OnCommandRejected(r) PROVE TypeOK'
    BY <1>26 DEF OnCommandRejected, Conclude, Advance, Handle, flow
<1>27. ASSUME NEW r \in Resources, ReadProgress(r) PROVE TypeOK'
    <2>1. CASE Progress = "waiting"
        BY <1>27, <2>1 DEF ReadProgress, Handle, flow
    <2>2. CASE Progress # "waiting"
        <3>1. Progress \in {"idle", "succeeded", "failed"}
            BY <2>2, ProgressType
        <3>2. join' \in [Resources -> {"idle", "succeeded", "failed"}]
            <4>1. join' = [join EXCEPT ![r] = Progress]
                BY <1>27, <2>2 DEF ReadProgress
            <4>2. QED
                BY <3>1, <4>1
        <3>3. QED
            BY <1>27, <2>2, <3>2 DEF ReadProgress, flow
    <2>3. QED
        BY <2>1, <2>2
<1>28. ASSUME NEW r \in Resources, CommitProgress(r) PROVE TypeOK'
    BY <1>28 DEF CommitProgress, Conclude, Advance, Handle, flow, CommandRows
<1>29. CASE UNCHANGED vars
    BY <1>29 DEF vars, flow
<1>30. QED
    BY <1>1, <1>2, <1>3, <1>4, <1>5, <1>6, <1>7, <1>8, <1>9, <1>10, <1>11, <1>12,
        <1>13, <1>14, <1>15, <1>16, <1>17, <1>18, <1>19, <1>20, <1>21, <1>22, <1>23,
        <1>24, <1>25, <1>26, <1>27, <1>28, <1>29 DEF Next, Services, Controller

\* Every step keeps the outcome published in line with the row.
LEMMA OutcomeStep ==
    ASSUME TypeOK, OneOutcome, [Next]_vars
    PROVE  OneOutcome'
<1> USE DEF OneOutcome, Terminal, Forward, Starts, Updates
<1>1. CASE PullGit
    BY <1>1, FirstOutcome DEF PullGit, Publish, controller
<1>2. CASE Render
    BY <1>2, FirstOutcome DEF Render, Publish, controller
<1>3. CASE RenderFails
    BY <1>3, FirstOutcome DEF RenderFails, Publish, controller
<1>4. CASE MergeRecovery
    BY <1>4, FirstOutcome DEF MergeRecovery, controller
<1>5. ASSUME NEW r \in Resources, DetectDiff(r) PROVE OneOutcome'
    BY <1>5, FirstOutcome DEF DetectDiff, Publish, controller
<1>6. ASSUME NEW r \in Resources, AnalyzeDiff(r) PROVE OneOutcome'
    BY <1>6, FirstOutcome DEF AnalyzeDiff, Publish, controller, PersistDecision
<1>7. ASSUME NEW r \in Resources, CreateSafePr(r) PROVE OneOutcome'
    BY <1>7, FirstOutcome DEF CreateSafePr, Publish, controller
<1>8. ASSUME NEW r \in Resources, DispatchAlert(r) PROVE OneOutcome'
    BY <1>8, FirstOutcome DEF DispatchAlert, Ask, controller
<1>9. ASSUME NEW r \in Resources, GrantApproval(r) PROVE OneOutcome'
    BY <1>9, FirstOutcome DEF GrantApproval, ResolveIfOpen, Publish, controller,
        flow
<1>10. ASSUME NEW r \in Resources, RejectApproval(r) PROVE OneOutcome'
    BY <1>10, FirstOutcome DEF RejectApproval, ResolveIfOpen, Publish, controller,
        flow
<1>11. ASSUME NEW r \in Resources, HandleCommandRequested(r) PROVE OneOutcome'
    BY <1>11, FirstOutcome DEF HandleCommandRequested, Publish, controller, flow
<1>12. ASSUME NEW r \in Resources, Finish(r) PROVE OneOutcome'
    BY <1>12, FirstOutcome DEF Finish, Publish, controller, flow, Finished
<1>13. ASSUME NEW r \in Resources, Cancel(r) PROVE OneOutcome'
    BY <1>13, FirstOutcome DEF Cancel, controller, flow
<1>14. CASE OnGitWebhook
    BY <1>14, FirstOutcome DEF OnGitWebhook, Advance, Handle, flow
<1>15. CASE OnGitChanged
    BY <1>15, FirstOutcome DEF OnGitChanged, Advance, Handle, flow
<1>16. CASE OnManifestInvalid
    BY <1>16, FirstOutcome DEF OnManifestInvalid, Conclude, Advance, Handle, flow
<1>17. ASSUME NEW r \in Resources, OnManifestRendered(r) PROVE OneOutcome'
    BY <1>17, FirstOutcome DEF OnManifestRendered, Advance, Handle, flow
<1>18. ASSUME NEW r \in Resources, OnDiffDetected(r) PROVE OneOutcome'
    BY <1>18, FirstOutcome DEF OnDiffDetected, Advance, Handle, flow
<1>19. ASSUME NEW r \in Resources, OnDiffAnalyzedRecovery(r) PROVE OneOutcome'
    BY <1>19, FirstOutcome DEF OnDiffAnalyzedRecovery, ResolveIfOpen, Ask, Handle,
        flow, Authorised, BeforeApplying
<1>20. ASSUME NEW r \in Resources, OnDiffAnalyzedSafe(r) PROVE OneOutcome'
    BY <1>20, FirstOutcome DEF OnDiffAnalyzedSafe, Advance, Handle, flow
<1>21. ASSUME NEW r \in Resources, OnDiffAnalyzedReview(r) PROVE OneOutcome'
    BY <1>21, FirstOutcome DEF OnDiffAnalyzedReview, Advance, Handle, flow
<1>22. ASSUME NEW r \in Resources, OnSafePrFailed(r) PROVE OneOutcome'
    BY <1>22, FirstOutcome DEF OnSafePrFailed, Conclude, Advance, Handle, flow
<1>23. ASSUME NEW r \in Resources, OnApprovalGranted(r) PROVE OneOutcome'
    BY <1>23, FirstOutcome DEF OnApprovalGranted, Advance, Ask, Handle, flow
<1>24. ASSUME NEW r \in Resources, OnApprovalRejected(r) PROVE OneOutcome'
    BY <1>24, FirstOutcome DEF OnApprovalRejected, Conclude, Advance, Handle, flow
<1>25. ASSUME NEW r \in Resources, OnCommandQueued(r) PROVE OneOutcome'
    BY <1>25, FirstOutcome DEF OnCommandQueued, Advance, Handle, flow
<1>26. ASSUME NEW r \in Resources, OnCommandRejected(r) PROVE OneOutcome'
    BY <1>26, FirstOutcome DEF OnCommandRejected, Conclude, Advance, Handle, flow
<1>27. ASSUME NEW r \in Resources, ReadProgress(r) PROVE OneOutcome'
    BY <1>27, FirstOutcome DEF ReadProgress, Handle, flow
<1>28. ASSUME NEW r \in Resources, CommitProgress(r) PROVE OneOutcome'
    BY <1>28, FirstOutcome DEF CommitProgress, Conclude, Advance, Handle, flow
<1>29. CASE UNCHANGED vars
    BY <1>29 DEF vars, flow
<1>30. QED
    BY <1>1, <1>2, <1>3, <1>4, <1>5, <1>6, <1>7, <1>8, <1>9, <1>10, <1>11, <1>12,
        <1>13, <1>14, <1>15, <1>16, <1>17, <1>18, <1>19, <1>20, <1>21, <1>22, <1>23,
        <1>24, <1>25, <1>26, <1>27, <1>28, <1>29 DEF Next, Services, Controller

\* Every step keeps commands, approvals and their events in line.
LEMMA DispatchStep ==
    ASSUME TypeOK, Dispatching, [Next]_vars
    PROVE  Dispatching'
<1>0. ASSUME NEW r \in Resources, NEW q \in Resources, Ask(r)
      PROVE  /\ asked'[q] = IF q = r THEN asked[q] + 1 ELSE asked[q]
             /\ q # r => cmd'[q] = cmd[q]
    <2>1. asked \in [Resources -> Nat] /\ cmd \in [Resources -> CommandStates]
        BY DEF TypeOK
    <2>2. QED
        BY <1>0, <2>1, AskEffect
<1> USE DEF TypeOK, Dispatching, Dispatched
<1>1. CASE PullGit
    BY <1>1 DEF PullGit, Publish, controller
<1>2. CASE Render
    BY <1>2 DEF Render, Publish, controller
<1>3. CASE RenderFails
    BY <1>3 DEF RenderFails, Publish, controller
<1>4. CASE MergeRecovery
    BY <1>4 DEF MergeRecovery, controller
<1>5. ASSUME NEW r \in Resources, DetectDiff(r) PROVE Dispatching'
    BY <1>5 DEF DetectDiff, Publish, controller
<1>6. ASSUME NEW r \in Resources, AnalyzeDiff(r) PROVE Dispatching'
    <2> SUFFICES ASSUME NEW q \in Resources PROVE Dispatched(q)'
        OBVIOUS
    <2>1. PICK chosen \in {"unchanged", "review", "safe", "recovery", "held"} :
              /\ work' = [work EXCEPT ![r] = IF chosen = "safe" THEN "pr" ELSE "analyzed"]
              /\ PersistDecision(r, chosen)
        BY <1>6, ZenonT(30) DEF AnalyzeDiff
    <2>2. inbox' = inbox \cup {<<"diff_analyzed", r>>} /\ UNCHANGED <<cmd, asked>>
        BY <1>6 DEF AnalyzeDiff, Publish
    <2>3. approval[r] = "none" /\ asked[r] = 0 /\ <<"approval_granted", r>> \notin inbox
        BY <1>6 DEF AnalyzeDiff
    <2>4. CASE q # r
        <3>1. approval'[q] = approval[q] /\ work'[q] = work[q]
            BY <2>1, <2>4 DEF PersistDecision
        <3>2. QED
            BY <2>2, <3>1
    <2>5. CASE q = r
        <3>1. CASE chosen = "safe"
            <4>1. approval'[r] = "granted" /\ work'[r] = "pr"
                BY <2>1, <3>1 DEF PersistDecision
            <4>2. QED
                BY <2>2, <2>3, <2>5, <4>1
        <3>2. CASE chosen # "safe"
            <4>1. approval'[r] \in {"none", "requested"} /\ work'[r] = "analyzed"
                BY <2>1, <2>3, <3>2 DEF PersistDecision
            <4>2. QED
                BY <2>2, <2>3, <2>5, <4>1
        <3>3. QED
            BY <3>1, <3>2
    <2>6. QED
        BY <2>4, <2>5
<1>7. ASSUME NEW r \in Resources, CreateSafePr(r) PROVE Dispatching'
    <2> SUFFICES ASSUME NEW q \in Resources PROVE Dispatched(q)'
        OBVIOUS
    <2>1. inbox \subseteq inbox' /\ inbox' \subseteq inbox \cup {<<"safe_pr_failed", r>>}
        BY <1>7 DEF CreateSafePr, Publish
    <2>2. UNCHANGED <<approval, asked, cmd>>
        BY <1>7 DEF CreateSafePr
    <2>3. CASE q = r
        <3>1. work[r] = "pr" /\ work'[r] \in {"alert", "analyzed"}
            BY <1>7 DEF CreateSafePr
        <3>2. QED
            BY <2>1, <2>2, <2>3, <3>1
    <2>4. CASE q # r
        <3>1. work'[q] = work[q]
            BY <1>7, <2>4 DEF CreateSafePr
        <3>2. QED
            BY <2>1, <2>2, <3>1
    <2>5. QED
        BY <2>3, <2>4
<1>8. ASSUME NEW r \in Resources, DispatchAlert(r) PROVE Dispatching'
    <2> SUFFICES ASSUME NEW q \in Resources PROVE Dispatched(q)'
        OBVIOUS
    <2>1. /\ UNCHANGED <<approval, inbox>>
          /\ work[r] = "alert" /\ work' = [work EXCEPT ![r] = "analyzed"]
        BY <1>8 DEF DispatchAlert
    <2>2. CASE Ask(r)
        <3>1. /\ asked'[q] = IF q = r THEN asked[q] + 1 ELSE asked[q]
              /\ q # r => cmd'[q] = cmd[q]
            BY <1>0, <2>2
        <3>2. QED
            BY <2>1, <3>1
    <2>3. CASE UNCHANGED <<asked, cmd>>
        BY <2>1, <2>3
    <2>4. QED
        BY <1>8, <2>2, <2>3 DEF DispatchAlert
<1>9. ASSUME NEW r \in Resources, GrantApproval(r) PROVE Dispatching'
    BY <1>9 DEF GrantApproval, ResolveIfOpen, Publish, controller, flow
<1>10. ASSUME NEW r \in Resources, RejectApproval(r) PROVE Dispatching'
    BY <1>10 DEF RejectApproval, ResolveIfOpen, Publish, controller, flow
<1>11. ASSUME NEW r \in Resources, HandleCommandRequested(r) PROVE Dispatching'
    <2> SUFFICES ASSUME NEW q \in Resources PROVE Dispatched(q)'
        OBVIOUS
    <2>1. /\ inbox \subseteq inbox'
          /\ inbox' \subseteq inbox \cup {<<"command_queued", r>>, <<"command_rejected", r>>}
        BY <1>11 DEF HandleCommandRequested, Publish
    <2>2. UNCHANGED <<approval, asked, work>>
        BY <1>11 DEF HandleCommandRequested, flow
    <2>3. cmd'[q] # "none" => cmd[q] # "none"
        BY <1>11 DEF HandleCommandRequested
    <2>4. QED
        BY <2>1, <2>2, <2>3
<1>12. ASSUME NEW r \in Resources, Finish(r) PROVE Dispatching'
    BY <1>12, ZenonT(30) DEF Finish, Publish, controller, flow, Finished
<1>13. ASSUME NEW r \in Resources, Cancel(r) PROVE Dispatching'
    BY <1>13 DEF Cancel, controller, flow
<1>14. CASE OnGitWebhook
    BY <1>14 DEF OnGitWebhook, Advance, Handle, flow
<1>15. CASE OnGitChanged
    BY <1>15 DEF OnGitChanged, Advance, Handle, flow
<1>16. CASE OnManifestInvalid
    BY <1>16 DEF OnManifestInvalid, Conclude, Advance, Handle, flow
<1>17. ASSUME NEW r \in Resources, OnManifestRendered(r) PROVE Dispatching'
    BY <1>17 DEF OnManifestRendered, Advance, Handle, flow
<1>18. ASSUME NEW r \in Resources, OnDiffDetected(r) PROVE Dispatching'
    BY <1>18 DEF OnDiffDetected, Advance, Handle, flow
<1>19. ASSUME NEW r \in Resources, OnDiffAnalyzedRecovery(r) PROVE Dispatching'
    <2> SUFFICES ASSUME NEW q \in Resources PROVE Dispatched(q)'
        OBVIOUS
    <2>1. inbox' \subseteq inbox /\ UNCHANGED work
          /\ inbox' = inbox \ {<<"diff_analyzed", r>>}
        BY <1>19 DEF OnDiffAnalyzedRecovery, Handle, flow
    <2>2. CASE Authorised(r) /\ approval[r] = "requested"
        <3>1. Ask(r) /\ approval' = [approval EXCEPT ![r] = "granted"]
            BY <1>19, <2>2 DEF OnDiffAnalyzedRecovery, ResolveIfOpen
        <3>2. /\ asked'[q] = IF q = r THEN asked[q] + 1 ELSE asked[q]
              /\ q # r => cmd'[q] = cmd[q]
            BY <1>0, <3>1
        <3>3. QED
            BY <2>1, <2>2, <3>1, <3>2
    <2>3. CASE ~(Authorised(r) /\ approval[r] = "requested")
        BY <1>19, <2>1, <2>3 DEF OnDiffAnalyzedRecovery
    <2>4. QED
        BY <2>2, <2>3
<1>20. ASSUME NEW r \in Resources, OnDiffAnalyzedSafe(r) PROVE Dispatching'
    BY <1>20 DEF OnDiffAnalyzedSafe, Advance, Handle, flow
<1>21. ASSUME NEW r \in Resources, OnDiffAnalyzedReview(r) PROVE Dispatching'
    BY <1>21 DEF OnDiffAnalyzedReview, Advance, Handle, flow
<1>22. ASSUME NEW r \in Resources, OnSafePrFailed(r) PROVE Dispatching'
    BY <1>22 DEF OnSafePrFailed, Conclude, Advance, Handle, flow
<1>23. ASSUME NEW r \in Resources, OnApprovalGranted(r) PROVE Dispatching'
    <2> SUFFICES ASSUME NEW q \in Resources PROVE Dispatched(q)'
        OBVIOUS
    <2>1. /\ <<"approval_granted", r>> \in inbox
          /\ inbox' = inbox \ {<<"approval_granted", r>>}
          /\ approval' = [approval EXCEPT ![r] = "granted"]
          /\ UNCHANGED work
        BY <1>23 DEF OnApprovalGranted, Handle, flow
    <2>2. /\ asked'[q] = IF q = r THEN asked[q] + 1 ELSE asked[q]
          /\ q # r => cmd'[q] = cmd[q]
        BY <1>0, <1>23 DEF OnApprovalGranted
    <2>3. QED
        BY <2>1, <2>2
<1>24. ASSUME NEW r \in Resources, OnApprovalRejected(r) PROVE Dispatching'
    BY <1>24 DEF OnApprovalRejected, Conclude, Advance, Handle, flow
<1>25. ASSUME NEW r \in Resources, OnCommandQueued(r) PROVE Dispatching'
    BY <1>25 DEF OnCommandQueued, Advance, Handle, flow
<1>26. ASSUME NEW r \in Resources, OnCommandRejected(r) PROVE Dispatching'
    BY <1>26 DEF OnCommandRejected, Conclude, Advance, Handle, flow
<1>27. ASSUME NEW r \in Resources, ReadProgress(r) PROVE Dispatching'
    BY <1>27, ZenonT(30) DEF ReadProgress, Handle, flow
<1>28. ASSUME NEW r \in Resources, CommitProgress(r) PROVE Dispatching'
    BY <1>28 DEF CommitProgress, Conclude, Advance, Handle, flow
<1>29. CASE UNCHANGED vars
    BY <1>29 DEF vars, flow
<1>30. QED
    BY <1>1, <1>2, <1>3, <1>4, <1>5, <1>6, <1>7, <1>8, <1>9, <1>10, <1>11, <1>12,
        <1>13, <1>14, <1>15, <1>16, <1>17, <1>18, <1>19, <1>20, <1>21, <1>22, <1>23,
        <1>24, <1>25, <1>26, <1>27, <1>28, <1>29 DEF Next, Services, Controller

\* Every step keeps what the snapshots claim.
LEMMA SnapshotStep ==
    ASSUME TypeOK, Dispatching, SnapshotsApplied, [Next]_vars
    PROVE  SnapshotsApplied'
<1> USE DEF TypeOK, Dispatching, Dispatched, SnapshotsApplied
<1>1. CASE PullGit
    BY <1>1 DEF PullGit, Publish, controller
<1>2. CASE Render
    BY <1>2 DEF Render, Publish, controller
<1>3. CASE RenderFails
    BY <1>3 DEF RenderFails, Publish, controller
<1>4. CASE MergeRecovery
    BY <1>4 DEF MergeRecovery, controller
<1>5. ASSUME NEW r \in Resources, DetectDiff(r) PROVE SnapshotsApplied'
    BY <1>5 DEF DetectDiff, Publish, controller
<1>6. ASSUME NEW r \in Resources, AnalyzeDiff(r) PROVE SnapshotsApplied'
    <2> SUFFICES ASSUME NEW q \in snapshots PROVE approval'[q] = "granted"
        BY <1>6 DEF AnalyzeDiff, controller
    <2>1. approval[r] = "none" /\ q # r
        BY <1>6 DEF AnalyzeDiff
    <2>2. PICK chosen \in {"unchanged", "review", "safe", "recovery", "held"} :
              PersistDecision(r, chosen)
        BY <1>6 DEF AnalyzeDiff
    <2>3. QED
        BY <2>1, <2>2 DEF PersistDecision
<1>7. ASSUME NEW r \in Resources, CreateSafePr(r) PROVE SnapshotsApplied'
    BY <1>7 DEF CreateSafePr, Publish, controller
<1>8. ASSUME NEW r \in Resources, DispatchAlert(r) PROVE SnapshotsApplied'
    <2> SUFFICES ASSUME NEW q \in snapshots PROVE cmd'[q] = "succeeded"
        BY <1>8 DEF DispatchAlert, controller
    <2>1. CASE Ask(r)
        BY <2>1, AskEffect
    <2>2. QED
        BY <1>8, <2>1 DEF DispatchAlert
<1>9. ASSUME NEW r \in Resources, GrantApproval(r) PROVE SnapshotsApplied'
    BY <1>9 DEF GrantApproval, ResolveIfOpen, Publish, controller, flow
<1>10. ASSUME NEW r \in Resources, RejectApproval(r) PROVE SnapshotsApplied'
    BY <1>10 DEF RejectApproval, ResolveIfOpen, Publish, controller, flow
<1>11. ASSUME NEW r \in Resources, HandleCommandRequested(r) PROVE SnapshotsApplied'
    BY <1>11 DEF HandleCommandRequested, Publish, controller, flow
<1>12. ASSUME NEW r \in Resources, Finish(r) PROVE SnapshotsApplied'
    BY <1>12 DEF Finish, Publish, controller, flow, Finished
<1>13. ASSUME NEW r \in Resources, Cancel(r) PROVE SnapshotsApplied'
    BY <1>13 DEF Cancel, controller, flow
<1>14. CASE OnGitWebhook
    BY <1>14 DEF OnGitWebhook, Advance, Handle, flow
<1>15. CASE OnGitChanged
    BY <1>15 DEF OnGitChanged, Advance, Handle, flow
<1>16. CASE OnManifestInvalid
    BY <1>16 DEF OnManifestInvalid, Conclude, Advance, Handle, flow
<1>17. ASSUME NEW r \in Resources, OnManifestRendered(r) PROVE SnapshotsApplied'
    BY <1>17 DEF OnManifestRendered, Advance, Handle, flow
<1>18. ASSUME NEW r \in Resources, OnDiffDetected(r) PROVE SnapshotsApplied'
    BY <1>18 DEF OnDiffDetected, Advance, Handle, flow
<1>19. ASSUME NEW r \in Resources, OnDiffAnalyzedRecovery(r) PROVE SnapshotsApplied'
    BY <1>19 DEF OnDiffAnalyzedRecovery, ResolveIfOpen, Ask, Handle, flow
<1>20. ASSUME NEW r \in Resources, OnDiffAnalyzedSafe(r) PROVE SnapshotsApplied'
    BY <1>20 DEF OnDiffAnalyzedSafe, Advance, Handle, flow
<1>21. ASSUME NEW r \in Resources, OnDiffAnalyzedReview(r) PROVE SnapshotsApplied'
    BY <1>21 DEF OnDiffAnalyzedReview, Advance, Handle, flow
<1>22. ASSUME NEW r \in Resources, OnSafePrFailed(r) PROVE SnapshotsApplied'
    BY <1>22 DEF OnSafePrFailed, Conclude, Advance, Handle, flow
<1>23. ASSUME NEW r \in Resources, OnApprovalGranted(r) PROVE SnapshotsApplied'
    BY <1>23 DEF OnApprovalGranted, Advance, Ask, Handle, flow
<1>24. ASSUME NEW r \in Resources, OnApprovalRejected(r) PROVE SnapshotsApplied'
    BY <1>24 DEF OnApprovalRejected, Conclude, Advance, Handle, flow
<1>25. ASSUME NEW r \in Resources, OnCommandQueued(r) PROVE SnapshotsApplied'
    BY <1>25 DEF OnCommandQueued, Advance, Handle, flow
<1>26. ASSUME NEW r \in Resources, OnCommandRejected(r) PROVE SnapshotsApplied'
    BY <1>26 DEF OnCommandRejected, Conclude, Advance, Handle, flow
<1>27. ASSUME NEW r \in Resources, ReadProgress(r) PROVE SnapshotsApplied'
    BY <1>27 DEF ReadProgress, Handle, flow
<1>28. ASSUME NEW r \in Resources, CommitProgress(r) PROVE SnapshotsApplied'
    <2>1. UNCHANGED <<approval, cmd>>
        BY <1>28 DEF CommitProgress
    <2>2. snapshots' = snapshots \/ (AllApplied /\ snapshots' = snapshots \cup CommandRows)
        BY <1>28 DEF CommitProgress
    <2>3. ASSUME AllApplied, NEW q \in CommandRows
          PROVE  q \in Resources /\ cmd[q] = "succeeded" /\ approval[q] = "granted"
        <3>1. q \in Resources /\ cmd[q] = "succeeded"
            BY <2>3 DEF AllApplied, CommandRows
        <3>2. (cmd[q] # "none" => asked[q] = 1) /\ (approval[q] # "granted" => asked[q] = 0)
            BY <3>1
        <3>3. QED
            BY <3>1, <3>2
    <2>4. QED
        BY <2>1, <2>2, <2>3
<1>29. CASE UNCHANGED vars
    BY <1>29 DEF vars, flow
<1>30. QED
    BY <1>1, <1>2, <1>3, <1>4, <1>5, <1>6, <1>7, <1>8, <1>9, <1>10, <1>11, <1>12,
        <1>13, <1>14, <1>15, <1>16, <1>17, <1>18, <1>19, <1>20, <1>21, <1>22, <1>23,
        <1>24, <1>25, <1>26, <1>27, <1>28, <1>29 DEF Next, Services, Controller

-----------------------------------------------------------------------------
LEMMA TypeInit == Init => TypeOK
<1> SUFFICES ASSUME Init PROVE TypeOK
    OBVIOUS
<1> USE DEF Init
<1>1. run \in Statuses
    BY DEF Statuses, WorkflowStatusRank
<1>2. approval \in [Resources -> {"none", "requested", "granted", "rejected"}]
    OBVIOUS
<1>3. cmd \in [Resources -> CommandStates] /\ asked \in [Resources -> Nat]
    BY DEF CommandStates
<1>4. /\ work \in [Resources -> {"received", "changed", "invalid", "rendered", "diffed",
                                 "pr", "alert", "analyzed"}]
      /\ route \in [Resources -> {"unknown", "unchanged", "review", "safe", "recovery",
                                  "held"}]
      /\ join \in [Resources -> {"idle", "succeeded", "failed"}]
    OBVIOUS
<1>5. inbox \subseteq Events
    BY DEF Events, CommitEvents
<1>6. merged \in BOOLEAN /\ orphaned \in BOOLEAN
    OBVIOUS
<1>7. snapshots \subseteq Resources /\ announced \subseteq Resources
    OBVIOUS
<1>8. outcome \in Seq(Terminal)
    OBVIOUS
<1>9. QED
    BY <1>1, <1>2, <1>3, <1>4, <1>5, <1>6, <1>7, <1>8 DEF TypeOK

LEMMA IInvInit == Init => IInv
<1> SUFFICES ASSUME Init PROVE IInv
    OBVIOUS
<1>1. OneOutcome
    BY DEF Init, OneOutcome, Terminal
<1>2. Dispatching
    BY DEF Init, Dispatching, Dispatched
<1>3. SnapshotsApplied
    BY DEF Init, SnapshotsApplied
<1>4. QED
    BY <1>1, <1>2, <1>3, TypeInit DEF IInv

LEMMA IInvStep == IInv /\ [Next]_vars => IInv'
<1> SUFFICES ASSUME IInv, [Next]_vars PROVE IInv'
    OBVIOUS
<1>1. TypeOK'
    BY TypeStep DEF IInv
<1>2. OneOutcome'
    BY OutcomeStep DEF IInv
<1>3. Dispatching'
    BY DispatchStep DEF IInv
<1>4. SnapshotsApplied'
    BY SnapshotStep DEF IInv
<1>5. QED
    BY <1>1, <1>2, <1>3, <1>4 DEF IInv

LEMMA IInvHolds == Spec => []IInv
    BY IInvInit, IInvStep, PTL DEF Spec

\* The rows, events and announcements of a run keep their declared shapes.
THEOREM TypeCorrect == Spec => []TypeOK
<1>1. IInv => TypeOK
    BY DEF IInv
<1>2. QED
    BY <1>1, IInvHolds, PTL

\* However the handlers race to end a run, it publishes one outcome, the one its
\* row holds, and none before (workflow_transition_guard).
THEOREM OutcomeIsOne == Spec => []OneOutcome
<1>1. IInv => OneOutcome
    BY DEF IInv
<1>2. QED
    BY <1>1, IInvHolds, PTL

\* Whether a human, a merged recovery PR or a safe PR's alert dispatches it, a
\* resource gets one command at most and only under a granted approval.
THEOREM CommandIsOne == Spec => []OneCommandPerGrant
<1>1. IInv => OneCommandPerGrant
    <2> SUFFICES ASSUME IInv, NEW r \in Resources
                 PROVE  asked[r] <= 1 /\ (asked[r] = 1 => approval[r] = "granted")
        BY DEF OneCommandPerGrant
    <2>1. asked[r] <= 1 /\ (approval[r] # "granted" => asked[r] = 0)
        BY DEF IInv, Dispatching, Dispatched
    <2>2. QED
        BY <2>1
<1>2. QED
    BY <1>1, IInvHolds, PTL

\* An approved snapshot is of a resource that was granted and applied, although
\* the verdict was read before the lock was taken.
THEOREM SnapshotsAreApplied == Spec => []SnapshotsApplied
<1>1. IInv => SnapshotsApplied
    BY DEF IInv
<1>2. QED
    BY <1>1, IInvHolds, PTL

\* No step changes the decision of a decided approval.
LEMMA DecisionStep ==
    ASSUME IInv, [Next]_vars
    PROVE  Decided
<1> USE DEF IInv, TypeOK, Dispatching, Dispatched, Decided
<1>1. CASE PullGit
    BY <1>1 DEF PullGit, Publish, controller
<1>2. CASE Render
    BY <1>2 DEF Render, Publish, controller
<1>3. CASE RenderFails
    BY <1>3 DEF RenderFails, Publish, controller
<1>4. CASE MergeRecovery
    BY <1>4 DEF MergeRecovery, controller
<1>5. ASSUME NEW r \in Resources, DetectDiff(r) PROVE Decided
    BY <1>5 DEF DetectDiff, Publish, controller
<1>6. ASSUME NEW r \in Resources, AnalyzeDiff(r) PROVE Decided
    <2>1. approval[r] = "none"
        BY <1>6 DEF AnalyzeDiff
    <2>2. PICK chosen \in {"unchanged", "review", "safe", "recovery", "held"} :
              PersistDecision(r, chosen)
        BY <1>6 DEF AnalyzeDiff
    <2>3. QED
        BY <2>1, <2>2 DEF PersistDecision
<1>7. ASSUME NEW r \in Resources, CreateSafePr(r) PROVE Decided
    BY <1>7 DEF CreateSafePr, Publish, controller
<1>8. ASSUME NEW r \in Resources, DispatchAlert(r) PROVE Decided
    BY <1>8 DEF DispatchAlert, Ask, controller
<1>9. ASSUME NEW r \in Resources, GrantApproval(r) PROVE Decided
    BY <1>9 DEF GrantApproval, ResolveIfOpen, Publish, controller, flow
<1>10. ASSUME NEW r \in Resources, RejectApproval(r) PROVE Decided
    BY <1>10 DEF RejectApproval, ResolveIfOpen, Publish, controller, flow
<1>11. ASSUME NEW r \in Resources, HandleCommandRequested(r) PROVE Decided
    BY <1>11 DEF HandleCommandRequested, Publish, controller, flow
<1>12. ASSUME NEW r \in Resources, Finish(r) PROVE Decided
    BY <1>12 DEF Finish, Publish, controller, flow, Finished
<1>13. ASSUME NEW r \in Resources, Cancel(r) PROVE Decided
    BY <1>13 DEF Cancel, controller, flow
<1>14. CASE OnGitWebhook
    BY <1>14 DEF OnGitWebhook, Advance, Handle, flow
<1>15. CASE OnGitChanged
    BY <1>15 DEF OnGitChanged, Advance, Handle, flow
<1>16. CASE OnManifestInvalid
    BY <1>16 DEF OnManifestInvalid, Conclude, Advance, Handle, flow
<1>17. ASSUME NEW r \in Resources, OnManifestRendered(r) PROVE Decided
    BY <1>17 DEF OnManifestRendered, Advance, Handle, flow
<1>18. ASSUME NEW r \in Resources, OnDiffDetected(r) PROVE Decided
    BY <1>18 DEF OnDiffDetected, Advance, Handle, flow
<1>19. ASSUME NEW r \in Resources, OnDiffAnalyzedRecovery(r) PROVE Decided
    BY <1>19 DEF OnDiffAnalyzedRecovery, ResolveIfOpen, Ask, Handle, flow
<1>20. ASSUME NEW r \in Resources, OnDiffAnalyzedSafe(r) PROVE Decided
    BY <1>20 DEF OnDiffAnalyzedSafe, Advance, Handle, flow
<1>21. ASSUME NEW r \in Resources, OnDiffAnalyzedReview(r) PROVE Decided
    BY <1>21 DEF OnDiffAnalyzedReview, Advance, Handle, flow
<1>22. ASSUME NEW r \in Resources, OnSafePrFailed(r) PROVE Decided
    BY <1>22 DEF OnSafePrFailed, Conclude, Advance, Handle, flow
<1>23. ASSUME NEW r \in Resources, OnApprovalGranted(r) PROVE Decided
    BY <1>23 DEF OnApprovalGranted, Advance, Ask, Handle, flow
<1>24. ASSUME NEW r \in Resources, OnApprovalRejected(r) PROVE Decided
    BY <1>24 DEF OnApprovalRejected, Conclude, Advance, Handle, flow
<1>25. ASSUME NEW r \in Resources, OnCommandQueued(r) PROVE Decided
    BY <1>25 DEF OnCommandQueued, Advance, Handle, flow
<1>26. ASSUME NEW r \in Resources, OnCommandRejected(r) PROVE Decided
    BY <1>26 DEF OnCommandRejected, Conclude, Advance, Handle, flow
<1>27. ASSUME NEW r \in Resources, ReadProgress(r) PROVE Decided
    BY <1>27 DEF ReadProgress, Handle, flow
<1>28. ASSUME NEW r \in Resources, CommitProgress(r) PROVE Decided
    BY <1>28 DEF CommitProgress, Conclude, Advance, Handle, flow
<1>29. CASE UNCHANGED vars
    BY <1>29 DEF vars, flow
<1>30. QED
    BY <1>1, <1>2, <1>3, <1>4, <1>5, <1>6, <1>7, <1>8, <1>9, <1>10, <1>11, <1>12,
        <1>13, <1>14, <1>15, <1>16, <1>17, <1>18, <1>19, <1>20, <1>21, <1>22, <1>23,
        <1>24, <1>25, <1>26, <1>27, <1>28, <1>29 DEF Next, Services, Controller

\* The first decision of an approval stands: the API asks whether the row is
\* open, and the handlers that do not ask write the decision it already holds.
THEOREM DecisionIsFinal == Spec => DecisionFinal
<1>1. IInv /\ [Next]_vars => [Decided]_vars
    BY DecisionStep
<1>2. QED
    BY <1>1, IInvHolds, PTL DEF Spec, DecisionFinal, Decided

\* Only the join makes a run succeed, and only when all rows are applied.
LEMMA JoinStep ==
    ASSUME IInv, [Next]_vars
    PROVE  Joined
<1> USE DEF Joined
<1>1. CASE PullGit
    BY <1>1 DEF PullGit, Publish, controller
<1>2. CASE Render
    BY <1>2 DEF Render, Publish, controller
<1>3. CASE RenderFails
    BY <1>3 DEF RenderFails, Publish, controller
<1>4. CASE MergeRecovery
    BY <1>4 DEF MergeRecovery, controller
<1>5. ASSUME NEW r \in Resources, DetectDiff(r) PROVE Joined
    BY <1>5 DEF DetectDiff, Publish, controller
<1>6. ASSUME NEW r \in Resources, AnalyzeDiff(r) PROVE Joined
    BY <1>6 DEF AnalyzeDiff, Publish, controller, PersistDecision
<1>7. ASSUME NEW r \in Resources, CreateSafePr(r) PROVE Joined
    BY <1>7 DEF CreateSafePr, Publish, controller
<1>8. ASSUME NEW r \in Resources, DispatchAlert(r) PROVE Joined
    BY <1>8 DEF DispatchAlert, Ask, controller
<1>9. ASSUME NEW r \in Resources, GrantApproval(r) PROVE Joined
    BY <1>9 DEF GrantApproval, ResolveIfOpen, Publish, controller, flow
<1>10. ASSUME NEW r \in Resources, RejectApproval(r) PROVE Joined
    BY <1>10 DEF RejectApproval, ResolveIfOpen, Publish, controller, flow
<1>11. ASSUME NEW r \in Resources, HandleCommandRequested(r) PROVE Joined
    BY <1>11 DEF HandleCommandRequested, Publish, controller, flow
<1>12. ASSUME NEW r \in Resources, Finish(r) PROVE Joined
    BY <1>12 DEF Finish, Publish, controller, flow, Finished
<1>13. ASSUME NEW r \in Resources, Cancel(r) PROVE Joined
    BY <1>13 DEF Cancel, controller, flow
<1>14. CASE OnGitWebhook
    BY <1>14 DEF OnGitWebhook, Advance, Handle, flow
<1>15. CASE OnGitChanged
    BY <1>15 DEF OnGitChanged, Advance, Handle, flow
<1>16. CASE OnManifestInvalid
    BY <1>16 DEF OnManifestInvalid, Conclude, Advance, Handle, flow
<1>17. ASSUME NEW r \in Resources, OnManifestRendered(r) PROVE Joined
    BY <1>17 DEF OnManifestRendered, Advance, Handle, flow
<1>18. ASSUME NEW r \in Resources, OnDiffDetected(r) PROVE Joined
    BY <1>18 DEF OnDiffDetected, Advance, Handle, flow
<1>19. ASSUME NEW r \in Resources, OnDiffAnalyzedRecovery(r) PROVE Joined
    BY <1>19 DEF OnDiffAnalyzedRecovery, ResolveIfOpen, Ask, Handle, flow
<1>20. ASSUME NEW r \in Resources, OnDiffAnalyzedSafe(r) PROVE Joined
    BY <1>20 DEF OnDiffAnalyzedSafe, Advance, Handle, flow
<1>21. ASSUME NEW r \in Resources, OnDiffAnalyzedReview(r) PROVE Joined
    BY <1>21 DEF OnDiffAnalyzedReview, Advance, Handle, flow
<1>22. ASSUME NEW r \in Resources, OnSafePrFailed(r) PROVE Joined
    BY <1>22 DEF OnSafePrFailed, Conclude, Advance, Handle, flow
<1>23. ASSUME NEW r \in Resources, OnApprovalGranted(r) PROVE Joined
    BY <1>23 DEF OnApprovalGranted, Advance, Ask, Handle, flow
<1>24. ASSUME NEW r \in Resources, OnApprovalRejected(r) PROVE Joined
    BY <1>24 DEF OnApprovalRejected, Conclude, Advance, Handle, flow
<1>25. ASSUME NEW r \in Resources, OnCommandQueued(r) PROVE Joined
    BY <1>25 DEF OnCommandQueued, Advance, Handle, flow
<1>26. ASSUME NEW r \in Resources, OnCommandRejected(r) PROVE Joined
    BY <1>26 DEF OnCommandRejected, Conclude, Advance, Handle, flow
<1>27. ASSUME NEW r \in Resources, ReadProgress(r) PROVE Joined
    BY <1>27 DEF ReadProgress, Handle, flow
<1>28. ASSUME NEW r \in Resources, CommitProgress(r) PROVE Joined
    <2> SUFFICES ASSUME run # "succeeded", run' = "succeeded" PROVE Joined
        BY DEF Joined
    <2>1. AllApplied /\ snapshots' = snapshots \cup CommandRows
        BY <1>28 DEF CommitProgress, Conclude, Advance
    <2>2. QED
        BY <2>1 DEF Joined, AllApplied, ApprovalRows
<1>29. CASE UNCHANGED vars
    BY <1>29 DEF vars, flow
<1>30. QED
    BY <1>1, <1>2, <1>3, <1>4, <1>5, <1>6, <1>7, <1>8, <1>9, <1>10, <1>11, <1>12,
        <1>13, <1>14, <1>15, <1>16, <1>17, <1>18, <1>19, <1>20, <1>21, <1>22, <1>23,
        <1>24, <1>25, <1>26, <1>27, <1>28, <1>29 DEF Next, Services, Controller

\* A run succeeds only by the join, with every resource that has an approval row
\* recorded as applied in the same transaction.
THEOREM SuccessIsOfAll == Spec => SuccessIsJoined
<1>1. IInv /\ [Next]_vars => [Joined]_vars
    BY JoinStep
<1>2. QED
    BY <1>1, IInvHolds, PTL DEF Spec, SuccessIsJoined, Joined
=============================================================================
