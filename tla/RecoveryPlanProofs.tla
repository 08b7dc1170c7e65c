------------------------- MODULE RecoveryPlanProofs -------------------------
(***************************************************************************)
(* Proofs about RecoveryPlan for any actions, any durations and any number *)
(* of selections, retries and retry requests: a run that is under way is   *)
(* the only one of its merged change that has not failed, and the plan     *)
(* waits for it; the outcome is told once; what is verified is what was    *)
(* merged and deployed; and a recovery that counts as verified was healthy *)
(* in every window of an unbroken stretch.                                 *)
(***************************************************************************)
EXTENDS RecoveryPlan, TLAPS

-----------------------------------------------------------------------------
(* The inductive invariant *)

\* A row whose pull request was merged, and one whose run has succeeded.
Tracking(w) ==
    \/ w.status \in {"deploy_pending", "verification_pending", "completed"}
    \/ w.status = "failed" /\ w.life.why \in {"deploy", "expired"}
Deployed(w) ==
    \/ w.status \in {"verification_pending", "completed"}
    \/ w.status = "failed" /\ w.life.why = "expired"

\* What a row says of pull request and run is true, of the row as it is and
\* of every copy that a handler has read.
RowGood(w) ==
    /\ w.status \in Monotonic => w.action \in Actions
    /\ Tracking(w) => /\ w.life.run \in Runs /\ w.life.run[1] = w.life.pr
                      /\ prs[w.life.pr] = "merged"
    /\ Deployed(w) => runs[w.life.run] = "succeeded"

\* What the handler of a message has found when it read the row; it stays
\* true whatever happens before the commit.
Relevant(m, w) ==
    /\ m.kind \in {"merged", "completed"} =>
           /\ w.status = "deploy_pending" /\ w.life.run = m.id
           /\ runs[m.id] = "succeeded"
    /\ m.kind = "run_failed" => w.status = "deploy_pending" /\ w.life.run = m.id
    /\ m.kind = "evidence" => w.status = "verification_pending" /\ m.id # 0
    /\ m.kind = "retry" => w.status = "failed"
    /\ m.kind = "pr_merged" => w.life.pr = m.id /\ prs[m.id] = "merged"

RowsGood ==
    /\ RowGood(row)
    /\ \A r \in reads : RowGood(r.row) /\ Relevant(r.msg, r.row)

\* A selection makes at most one pull request, and that one is merged at most
\* once: its events come one after the other.
Chained(i) ==
    /\ sels[i] = None => /\ Msg("selected", i) \notin msgs
                         /\ Msg("pr_requested", i) \notin msgs
                         /\ prs[i] = "none"
    /\ Msg("selected", i) \in msgs =>
           Msg("pr_requested", i) \notin msgs /\ prs[i] = "none"
    /\ Msg("pr_requested", i) \in msgs => prs[i] = "none"
    /\ Msg("pr_merged", i) \in msgs => prs[i] = "merged"
Chain == \A i \in Sel : Chained(i)

\* The subjects of the rca-feedback-worker are served one event at a time;
\* retry requests may overlap.
OnePerKind ==
    \A r, q \in reads :
        r.msg.kind = q.msg.kind /\ (r.msg.kind # "retry" \/ r.msg = q.msg) => r = q

\* The count of healthy windows is true, of the row and of the copy that the
\* evidence handler has read.
Stretch(v, s) ==
    v.since # 0 => /\ v.since <= v.last
                   /\ \A t \in v.since..v.last : s[t] = "healthy"
Judged ==
    /\ row.status = "verification_pending" => Stretch(row.life, seen)
    /\ \A r \in reads : r.msg.kind = "evidence" => Stretch(r.row.life, seen)

\* The types of the plan, its requests and its handlers.
PlanTypes ==
    /\ row \in Rows
    /\ sels \in [Sel -> Actions \cup {None}]
    /\ prs \in [Sel -> {"none", "open", "merged", "other"}]
    /\ runs \in [Runs -> {"none", "running", "succeeded", "failed"}]
    /\ msgs \subseteq Msgs
    /\ reads \subseteq [msg : Msgs, row : Rows, at : Times]
    /\ now \in Times
    /\ seen \in [Times -> {"none", "healthy", "bad"}]
    /\ resolved \in 0..1
TypeInv == PlanTypes /\ OutcomeTold
DeployInv == TypeInv /\ Chain /\ RowsGood
StableInv == DeployInv /\ OnePerKind /\ Judged /\ CompletedStable

-----------------------------------------------------------------------------
(* Types *)

Reading == [msg : Msgs, row : Rows, at : Times]

LEMMA NoLifeType == NoLife \in Lives
  BY RecoveryPlanAssumption DEF NoLife, Lives, Times

\* What the kind of a message says of its identity.
LEMMA MsgId ==
    ASSUME NEW m \in Msgs
    PROVE  /\ m.kind \in {"selected", "pr_requested", "created", "failed", "rejected"}
                           \cup Webhooks => m.id \in Sel
           /\ m.kind \in {"merged", "completed", "run_failed"} => m.id \in Runs
           /\ m.kind \in {"planned", "requested", "evidence"} => m.id \in Times
           /\ m.kind = "retry" => m.id \in Requests
  BY DEF Msgs, Webhooks

LEMMA MsgType ==
    /\ \A i \in Sel : \A k \in {"selected", "pr_requested", "created", "failed",
                                "rejected", "pr_merged", "pr_rejected"} : Msg(k, i) \in Msgs
    /\ \A n \in Runs : \A k \in {"merged", "completed", "run_failed"} : Msg(k, n) \in Msgs
    /\ \A t \in Times : \A k \in {"planned", "requested", "evidence"} : Msg(k, t) \in Msgs
    /\ \A i \in Requests : Msg("retry", i) \in Msgs
  BY DEF Msgs, Msg, Webhooks

\* A message is its kind and its identity.
LEMMA MsgFields ==
    ASSUME NEW k, NEW i PROVE Msg(k, i).kind = k /\ Msg(k, i).id = i
  BY DEF Msg

LEMMA MsgEqual ==
    ASSUME NEW k, NEW i, NEW l, NEW j, Msg(k, i) = Msg(l, j) PROVE k = l /\ i = j
  BY DEF Msg

\* The commit of a handler writes a row of the right shape or none.
LEMMA SavesRow ==
    ASSUME NEW r, NEW expected, NEW status \in Statuses, NEW action \in Actions \cup {None},
           NEW life \in Lives, NEW S, row \in Rows,
           Saves(r, expected, status, action, life, S)
    PROVE  /\ row' \in Rows
           /\ row'.status # row.status => row.status = expected /\ row'.status = status
           /\ reads' = reads \ {r}
           /\ msgs' \subseteq msgs \cup S
  BY DEF Saves, Ends, Rows

LEMMA ReopenRow ==
    ASSUME NEW action, row \in Rows, Reopen(action)
    PROVE  /\ row' \in Rows
           /\ row' # row => row.status = "selected" /\ row'.status = "selection_requested"
           /\ row'.status = row.status => row' = row
  BY DEF Reopen, Rows, Statuses

LEMMA UpsertRow ==
    ASSUME NEW status \in {"selection_requested", "selected"},
           NEW action \in Actions \cup {None}, row \in Rows, Upsert(status, action)
    PROVE  /\ row' \in Rows
           /\ row' # row => /\ row.status \in {"none", "selection_requested"}
                            /\ row'.status = status
  BY NoLifeType DEF Upsert, Rows, Statuses, Monotonic

\* Lifecycles that the handlers write.
LEMMA LifeType ==
    ASSUME NEW v \in Lives
    PROVE  /\ \A i \in Sel : [NoLife EXCEPT !.att = i] \in Lives
           /\ \A i \in Sel, b \in BOOLEAN :
                 [NoLife EXCEPT !.att = v.att, !.pr = i, !.blocked = b] \in Lives
           /\ \A n \in Runs : [v EXCEPT !.run = n] \in Lives
           /\ \A w \in {"none", "safe_pr", "deploy", "expired"} : [v EXCEPT !.why = w] \in Lives
           /\ \A t \in Times : [v EXCEPT !.start = t, !.since = 0] \in Lives
<1> USE RecoveryPlanAssumption, NoLifeType
<1>1. \A i \in Sel : [NoLife EXCEPT !.att = i] \in Lives
  BY DEF Lives
<1>2. \A i \in Sel, b \in BOOLEAN :
          [NoLife EXCEPT !.att = v.att, !.pr = i, !.blocked = b] \in Lives
  BY DEF Lives
<1>3. \A n \in Runs : [v EXCEPT !.run = n] \in Lives
  BY DEF Lives
<1>4. \A w \in {"none", "safe_pr", "deploy", "expired"} : [v EXCEPT !.why = w] \in Lives
  BY DEF Lives
<1>5. \A t \in Times : [v EXCEPT !.start = t, !.since = 0] \in Lives
  <2>1. 0 \in Times
    BY DEF Times
  <2> QED BY <2>1 DEF Lives
<1> QED BY <1>1, <1>2, <1>3, <1>4, <1>5

LEMMA RetryLifeType ==
    ASSUME NEW v \in Lives
    PROVE  /\ \A n \in Runs :
                 [v EXCEPT !.run = n, !.why = "none", !.start = 0, !.since = 0,
                           !.last = 0, !.count = 0, !.key = 0] \in Lives
           /\ \A t \in Times : v.retry < MaxRetries =>
                 [v EXCEPT !.why = "none", !.retry = @ + 1, !.start = t, !.since = 0,
                           !.last = 0, !.count = 0, !.key = 0] \in Lives
<1> USE RecoveryPlanAssumption
<1>1. 0 \in Times
  BY DEF Times
<1>2. \A n \in Runs :
         [v EXCEPT !.run = n, !.why = "none", !.start = 0, !.since = 0,
                   !.last = 0, !.count = 0, !.key = 0] \in Lives
  BY <1>1 DEF Lives
<1>3. ASSUME NEW t \in Times, v.retry < MaxRetries
      PROVE  [v EXCEPT !.why = "none", !.retry = @ + 1, !.start = t, !.since = 0,
                       !.last = 0, !.count = 0, !.key = 0] \in Lives
  <2>1. v.retry + 1 \in 0..MaxRetries
    BY <1>3 DEF Lives
  <2> QED BY <1>1, <1>3, <2>1 DEF Lives
<1> QED BY <1>2, <1>3

\* A window that is judged leaves the verification pending, completes it or
\* fails it.
LEMMA EvaluateType ==
    ASSUME NEW v \in Lives, NEW t \in Times, NEW healthy \in BOOLEAN, NEW at \in Times
    PROVE  LET d == Evaluate(v, t, healthy, at)
           IN  /\ d.status \in {"verification_pending", "completed", "failed"}
               /\ d.life \in Lives
<1> USE RecoveryPlanAssumption
<1>1. 0 \in Times /\ v.since \in Times /\ v.count \in Nat
  BY DEF Times, Lives
<1> DEFINE broken == v.last # 0 /\ (t <= v.last \/ 2 * (t - v.last) > 3)
           since == IF broken \/ v.since = 0 THEN t ELSE v.since
           count == IF broken THEN 1 ELSE v.count + 1
<1>2. since \in Times /\ count \in Nat
  BY <1>1
<1>3. [v EXCEPT !.since = 0, !.last = 0, !.count = 0, !.key = t] \in Lives
  BY <1>1 DEF Lives
<1>4. [v EXCEPT !.since = since, !.last = t, !.count = count, !.key = t] \in Lives
  <2> HIDE DEF since, count
  <2> QED BY <1>2 DEF Lives
<1> QED BY <1>3, <1>4 DEF Evaluate

\* The first step of a handler: it keeps a copy of a row that concerns it, or
\* drops the message.
ReadStep(m) ==
    /\ UNCHANGED <<row, sels, prs, runs, now, seen, resolved, overtaken>>
    /\ \A r \in reads : r.msg.kind = m.kind => m.kind = "retry" /\ r.msg # m
    /\ \/ /\ reads' = reads \cup {[msg |-> m, row |-> row, at |-> now]}
          /\ UNCHANGED msgs
          /\ Relevant(m, row)
          /\ m.kind = "run_failed" => m \in msgs
       \/ msgs' = msgs \ {m} /\ UNCHANGED reads

AnyRead ==
    \/ \E i \in Sel : RejectedRead(i) \/ CreatedRead(i) \/ FailedRead(i)
    \/ \E kind \in Webhooks, i \in Sel : WebhookRead(kind, i)
    \/ \E n \in Runs : DeployRead(n)
    \/ \E i \in Requests : RetryRead(i)
    \/ \E t \in 1..now : EvidenceRead(t)

LEMMA ReadSteps ==
    ASSUME PlanTypes, Chain, AnyRead
    PROVE  \E m \in Msgs : ReadStep(m)
<1> USE DEF ReadStep, Reads
<1>1. ASSUME NEW i \in Sel, RejectedRead(i) PROVE \E m \in Msgs : ReadStep(m)
  <2>1. Msg("rejected", i) \in Msgs /\ Relevant(Msg("rejected", i), row)
    BY MsgType, MsgFields DEF Relevant
  <2> QED BY <1>1, <2>1 DEF RejectedRead
<1>2. ASSUME NEW i \in Sel, CreatedRead(i) PROVE \E m \in Msgs : ReadStep(m)
  <2>1. Msg("created", i) \in Msgs /\ Relevant(Msg("created", i), row)
    BY MsgType, MsgFields DEF Relevant
  <2> QED BY <1>2, <2>1 DEF CreatedRead
<1>3. ASSUME NEW i \in Sel, FailedRead(i) PROVE \E m \in Msgs : ReadStep(m)
  <2>1. Msg("failed", i) \in Msgs /\ Relevant(Msg("failed", i), row)
    BY MsgType, MsgFields DEF Relevant
  <2>2. PICK named \in BOOLEAN :
            Reads(Msg("failed", i),
                  row.status = "selected" /\ (named => row.action = sels[i]))
    BY <1>3 DEF FailedRead
  <2>3. Msg("failed", i).kind # "run_failed"
    BY MsgFields
  <2> QED BY <1>3, <2>1, <2>2, <2>3 DEF FailedRead
<1>4. ASSUME NEW kind \in Webhooks, NEW i \in Sel, WebhookRead(kind, i)
      PROVE  \E m \in Msgs : ReadStep(m)
  <2>1. Msg(kind, i) \in Msgs
    BY MsgType DEF Webhooks
  <2>2. row.life.pr = i => Relevant(Msg(kind, i), row)
    <3>1. kind = "pr_merged" => prs[i] = "merged"
      BY <1>4 DEF WebhookRead, Chain, Chained
    <3>2. Msg(kind, i).kind = kind /\ Msg(kind, i).id = i
      BY MsgFields
    <3> QED BY <3>1, <3>2 DEF Relevant, Webhooks
  <2> QED BY <1>4, <2>1, <2>2 DEF WebhookRead
<1>5. ASSUME NEW n \in Runs, NEW kind \in {"merged", "completed"}, StartRead(kind, n)
      PROVE  \E m \in Msgs : ReadStep(m)
  <2>1. Msg(kind, n) \in Msgs
    BY MsgType
  <2>2. Deploys(n) /\ runs[n] = "succeeded" => Relevant(Msg(kind, n), row)
    BY MsgFields DEF Relevant, Deploys
  <2> QED BY <1>5, <2>1, <2>2 DEF StartRead
<1>6. ASSUME NEW n \in Runs, RunFailedRead(n) PROVE \E m \in Msgs : ReadStep(m)
  <2>1. Msg("run_failed", n) \in Msgs
    BY MsgType
  <2>2. Deploys(n) => Relevant(Msg("run_failed", n), row)
    BY MsgFields DEF Relevant, Deploys
  <2> QED BY <1>6, <2>1, <2>2 DEF RunFailedRead
<1>7. ASSUME NEW i \in Requests, RetryRead(i) PROVE \E m \in Msgs : ReadStep(m)
  <2>1. Msg("retry", i) \in Msgs
    BY MsgType
  <2>2. Relevant(Msg("retry", i), row) /\ Msg("retry", i).kind # "run_failed"
    BY <1>7, MsgFields DEF Relevant, RetryRead
  <2> QED BY <1>7, <2>1, <2>2 DEF RetryRead
<1>8. ASSUME NEW t \in 1..now, EvidenceRead(t) PROVE \E m \in Msgs : ReadStep(m)
  <2>1. Msg("evidence", t) \in Msgs /\ t # 0
    <3>1. t \in Times /\ t # 0
      BY RecoveryPlanAssumption DEF Times, PlanTypes
    <3> QED BY <3>1, MsgType
  <2>2. Relevant(Msg("evidence", t), row) /\ Msg("evidence", t).kind # "run_failed"
    BY <1>8, <2>1, MsgFields DEF Relevant, EvidenceRead
  <2> QED BY <1>8, <2>1, <2>2 DEF EvidenceRead
<1> QED BY <1>1, <1>2, <1>3, <1>4, <1>5, <1>6, <1>7, <1>8 DEF AnyRead, DeployRead

\* The step of a handler's commit, for the types: row, events and copies.
LEMMA CommitTypes ==
    ASSUME TypeInv, NEW r \in reads, NEW expected \in Statuses \ {"completed"},
           NEW status \in Statuses \ {"completed"}, NEW action \in Actions \cup {None},
           NEW life \in Lives, NEW S \in SUBSET Msgs,
           Saves(r, expected, status, action, life, S)
    PROVE  /\ row' \in Rows
           /\ row'.status = "completed" <=> row.status = "completed"
           /\ reads' \subseteq Reading
           /\ msgs' \subseteq Msgs
<1>1. row \in Rows /\ msgs \subseteq Msgs /\ reads \subseteq Reading
  BY DEF TypeInv, PlanTypes, Reading
<1>2. /\ row' \in Rows
      /\ row'.status # row.status => row.status = expected /\ row'.status = status
      /\ reads' = reads \ {r}
      /\ msgs' \subseteq msgs \cup S
  <2>1. expected \in Statuses /\ status \in Statuses
    OBVIOUS
  <2> QED BY <1>1, <2>1, SavesRow
<1> QED BY <1>1, <1>2

\* A step whose parts keep their types keeps the invariant.
LEMMA TypeParts ==
    ASSUME TypeInv, row' \in Rows, row'.status = "completed" <=> row.status = "completed",
           msgs' \subseteq Msgs, reads' \subseteq Reading,
           sels' \in [Sel -> Actions \cup {None}],
           prs' \in [Sel -> {"none", "open", "merged", "other"}],
           runs' \in [Runs -> {"none", "running", "succeeded", "failed"}],
           now' \in Times, UNCHANGED <<seen, resolved>>
    PROVE  TypeInv'
<1>1. PlanTypes'
  BY DEF TypeInv, PlanTypes, Reading
<1>2. OutcomeTold'
  BY DEF TypeInv, OutcomeTold
<1> QED BY <1>1, <1>2 DEF TypeInv

\* What a handler has read and where it may go.
LEMMA ReadFacts ==
    ASSUME PlanTypes, NEW r \in reads
    PROVE  /\ r.msg \in Msgs /\ r.row \in Rows /\ r.at \in Times
           /\ r.row.life \in Lives /\ r.row.action \in Actions \cup {None}
           /\ row \in Rows /\ row.action \in Actions \cup {None} /\ row.life \in Lives
<1>1. r \in Reading /\ row \in Rows
  BY DEF PlanTypes, Reading
<1> QED BY <1>1 DEF Reading, Rows

\* The steps of operators, workers and GitHub.
Service ==
    \/ OnRecoveryPlanned \/ OnSelectionRequested \/ Tick \/ Expire
    \/ \E a \in Actions, i \in Sel : Select(a, i)
    \/ \E a \in PrActions : OnActionRequired(a)
    \/ \E i \in Sel : Dispatch(i) \/ CreatePr(i) \/ EndPr(i)
    \/ \E m \in msgs : LoseWebhook(m)
    \/ \E n \in Runs : RunEnds(n)

LEMMA TypeServices ==
    ASSUME TypeInv, Service
    PROVE  TypeInv'
<1> USE RecoveryPlanAssumption
<1>a. /\ row \in Rows /\ msgs \subseteq Msgs /\ reads \subseteq Reading
      /\ sels \in [Sel -> Actions \cup {None}]
      /\ prs \in [Sel -> {"none", "open", "merged", "other"}]
      /\ runs \in [Runs -> {"none", "running", "succeeded", "failed"}]
      /\ now \in Times
  BY DEF TypeInv, PlanTypes, Reading
<1>b. 0 \in Times /\ 1 \in Sel
  BY DEF Times, Sel
<1>c. Msg("requested", 0) \in Msgs
  BY <1>b, MsgType
<1>1. CASE OnRecoveryPlanned
  <2>1. CASE Upsert("selection_requested", None) /\ UNCHANGED sels
                /\ msgs' = (msgs \ {Msg("planned", 0)}) \cup {Msg("requested", 0)}
    <3>1. row' \in Rows /\ (row'.status = "completed" <=> row.status = "completed")
      BY <1>a, <2>1, UpsertRow
    <3> QED BY <1>a, <1>c, <1>1, <2>1, <3>1, TypeParts DEF OnRecoveryPlanned
  <2>2. ASSUME NEW a \in AutoActions, Upsert("selected", a), sels' = [sels EXCEPT ![1] = a],
               msgs' = (msgs \ {Msg("planned", 0)}) \cup {Msg("selected", 1)}
        PROVE  TypeInv'
    <3>1. a \in Actions
      BY DEF Actions
    <3>2. row' \in Rows /\ (row'.status = "completed" <=> row.status = "completed")
      BY <1>a, <2>2, <3>1, UpsertRow
    <3>3. Msg("selected", 1) \in Msgs
      BY <1>b, MsgType
    <3>4. sels' \in [Sel -> Actions \cup {None}]
      BY <1>a, <2>2, <3>1
    <3> QED BY <1>a, <1>1, <2>2, <3>2, <3>3, <3>4, TypeParts DEF OnRecoveryPlanned
  <2> QED BY <1>1, <2>1, <2>2 DEF OnRecoveryPlanned
<1>2. CASE OnSelectionRequested
  <2>1. row' \in Rows /\ (row'.status = "completed" <=> row.status = "completed")
    BY <1>2, <1>a, UpsertRow DEF OnSelectionRequested
  <2> QED BY <1>a, <1>2, <2>1, TypeParts DEF OnSelectionRequested
<1>3. CASE Tick
  <2>1. now' \in Times
    BY <1>a, <1>3 DEF Tick, Times
  <2> QED BY <1>a, <1>3, <2>1, TypeParts DEF Tick
<1>4. CASE Expire
  <2>1. /\ row.status = "verification_pending"
        /\ row' = [row EXCEPT !.status = "failed", !.life.why = "expired"]
    BY <1>4 DEF Expire
  <2>2. row.life \in Lives
    BY <1>a DEF Rows
  <2>3. [row.life EXCEPT !.why = "expired"] \in Lives
    BY <2>2, LifeType
  <2>4. row' = [status |-> "failed", action |-> row.action,
                life |-> [row.life EXCEPT !.why = "expired"]]
    BY <1>a, <2>1 DEF Rows
  <2>5. row' \in Rows /\ (row'.status = "completed" <=> row.status = "completed")
    BY <1>a, <2>1, <2>3, <2>4 DEF Rows, Statuses
  <2> QED BY <1>a, <1>4, <2>5, TypeParts DEF Expire
<1>5. ASSUME NEW a \in Actions, NEW i \in Sel, Select(a, i) PROVE TypeInv'
  <2>1. [NoLife EXCEPT !.att = i] \in Lives
    BY NoLifeType, LifeType
  <2>2. row' \in Rows /\ (row'.status = "completed" <=> row.status = "completed")
    BY <1>5, <2>1 DEF Select, Rows, Statuses
  <2>3. sels' \in [Sel -> Actions \cup {None}]
    BY <1>a, <1>5 DEF Select
  <2>4. Msg("selected", i) \in Msgs
    BY MsgType
  <2> QED BY <1>a, <1>5, <2>2, <2>3, <2>4, TypeParts DEF Select
<1>6. ASSUME NEW a \in PrActions, OnActionRequired(a) PROVE TypeInv'
  <2>1. row' \in Rows /\ (row'.status = "completed" <=> row.status = "completed")
    BY <1>a, <1>6, ReopenRow DEF OnActionRequired
  <2> QED BY <1>a, <1>6, <2>1, TypeParts DEF OnActionRequired
<1>7. ASSUME NEW i \in Sel, Dispatch(i) PROVE TypeInv'
  <2>1. Msg("pr_requested", i) \in Msgs /\ Msg("rejected", i) \in Msgs
    BY MsgType
  <2>2. msgs' \subseteq Msgs
    BY <1>a, <1>7, <2>1 DEF Dispatch
  <2> QED BY <1>a, <1>7, <2>2, TypeParts DEF Dispatch
<1>8. ASSUME NEW i \in Sel, CreatePr(i) PROVE TypeInv'
  <2>1. Msg("created", i) \in Msgs /\ Msg("failed", i) \in Msgs
    BY MsgType
  <2>2. msgs' \subseteq Msgs
    BY <1>a, <1>8, <2>1 DEF CreatePr
  <2>3. prs' \in [Sel -> {"none", "open", "merged", "other"}]
    BY <1>a, <1>8 DEF CreatePr
  <2> QED BY <1>a, <1>8, <2>2, <2>3, TypeParts DEF CreatePr
<1>9. ASSUME NEW i \in Sel, EndPr(i) PROVE TypeInv'
  <2>1. Msg("pr_merged", i) \in Msgs /\ Msg("pr_rejected", i) \in Msgs
    BY MsgType
  <2>2. msgs' \subseteq Msgs
    BY <1>a, <1>9, <2>1 DEF EndPr
  <2>3. prs' \in [Sel -> {"none", "open", "merged", "other"}]
    BY <1>a, <1>9 DEF EndPr
  <2> QED BY <1>a, <1>9, <2>2, <2>3, TypeParts DEF EndPr
<1>10. ASSUME NEW m \in msgs, LoseWebhook(m) PROVE TypeInv'
  BY <1>a, <1>10, TypeParts DEF LoseWebhook
<1>11. ASSUME NEW n \in Runs, RunEnds(n) PROVE TypeInv'
  <2>1. Msg("run_failed", n) \in Msgs /\ Msg("completed", n) \in Msgs
    BY MsgType
  <2>2. msgs' \subseteq Msgs
    BY <1>a, <1>11, <2>1 DEF RunEnds
  <2>3. runs' \in [Runs -> {"none", "running", "succeeded", "failed"}]
    BY <1>a, <1>11 DEF RunEnds
  <2> QED BY <1>a, <1>11, <2>2, <2>3, TypeParts DEF RunEnds
<1> QED BY <1>1, <1>2, <1>3, <1>4, <1>5, <1>6, <1>7, <1>8, <1>9, <1>10, <1>11
        DEF Service

\* The step of a handler that judges a window.
LEMMA TypeEvidence ==
    ASSUME TypeInv, NEW r \in reads, EvidenceCommit(r)
    PROVE  TypeInv'
<1>a. /\ row \in Rows /\ msgs \subseteq Msgs /\ reads \subseteq Reading
      /\ seen \in [Times -> {"none", "healthy", "bad"}] /\ resolved \in 0..1
      /\ (row.status = "completed") = (resolved = 1)
  BY DEF TypeInv, PlanTypes, Reading, OutcomeTold
<1>b. /\ r.msg \in Msgs /\ r.at \in Times /\ r.row.life \in Lives
      /\ row.action \in Actions \cup {None}
  BY ReadFacts DEF TypeInv
<1>c. r.msg.id \in Times
  BY <1>b, MsgId DEF EvidenceCommit
<1> DEFINE t == r.msg.id
           v == r.row.life
           d(h) == Evaluate(v, t, h, r.at)
           life(h) == [d(h).life EXCEPT !.why = IF d(h).status = "failed" THEN "expired"
                                                ELSE "none"]
           saved == row.status = "verification_pending"
<1>1. PICK h \in BOOLEAN :
         /\ Saves(r, "verification_pending", d(h).status, row.action, life(h), {})
         /\ seen' = IF saved /\ t # v.key /\ t >= v.start
                    THEN [seen EXCEPT ![t] = IF h THEN "healthy" ELSE "bad"]
                    ELSE seen
         /\ resolved' = IF saved /\ d(h).status = "completed" THEN resolved + 1
                        ELSE resolved
  BY DEF EvidenceCommit
<1>2. d(h).status \in {"verification_pending", "completed", "failed"} /\ d(h).life \in Lives
  BY <1>b, <1>c, EvaluateType
<1>3. life(h) \in Lives
  <2> HIDE DEF d
  <2>1. \A w \in {"none", "safe_pr", "deploy", "expired"} :
            [d(h).life EXCEPT !.why = w] \in Lives
    BY <1>2, LifeType
  <2> QED BY <2>1
<1> HIDE DEF d, life
<1>4. /\ row' \in Rows
      /\ reads' = reads \ {r}
      /\ msgs' \subseteq msgs \cup {}
  <2>1. d(h).status \in Statuses
    BY <1>2 DEF Statuses
  <2> QED BY <1>a, <1>b, <1>1, <1>3, <2>1, SavesRow
<1>5. IF saved THEN row'.status = d(h).status ELSE row' = row
  BY <1>1 DEF Saves
<1>6. (row'.status = "completed") = (resolved' = 1) /\ resolved' \in 0..1
  <2>1. CASE saved
    <3>1. resolved = 0
      BY <1>a, <2>1
    <3>2. resolved' = IF d(h).status = "completed" THEN 1 ELSE 0
      BY <1>1, <2>1, <3>1
    <3> QED BY <1>5, <2>1, <3>2
  <2>2. CASE ~saved
    BY <1>a, <1>1, <1>5, <2>2
  <2> QED BY <2>1, <2>2
<1>7. seen' \in [Times -> {"none", "healthy", "bad"}]
  BY <1>a, <1>c, <1>1
<1>8. PlanTypes'
  <2>1. msgs' \subseteq Msgs /\ reads' \subseteq Reading
    BY <1>a, <1>4
  <2>2. UNCHANGED <<sels, prs, runs, now>>
    BY DEF EvidenceCommit
  <2> QED BY <1>4, <1>6, <1>7, <2>1, <2>2 DEF TypeInv, PlanTypes, Reading
<1> QED BY <1>6, <1>8 DEF TypeInv, OutcomeTold

\* The other commits.
LEMMA TypeCommits ==
    ASSUME TypeInv, NEW r \in reads, Commit(r) \/ Abort(r)
    PROVE  TypeInv'
<1> USE RecoveryPlanAssumption
<1>a. /\ row \in Rows /\ msgs \subseteq Msgs /\ reads \subseteq Reading
      /\ sels \in [Sel -> Actions \cup {None}]
      /\ prs \in [Sel -> {"none", "open", "merged", "other"}]
      /\ runs \in [Runs -> {"none", "running", "succeeded", "failed"}]
      /\ now \in Times
  BY DEF TypeInv, PlanTypes, Reading
<1>b. /\ r.msg \in Msgs /\ r.at \in Times /\ r.row.life \in Lives
      /\ r.row.action \in Actions \cup {None} /\ row.action \in Actions \cup {None}
      /\ r.row.life.att \in Sel \cup {0}
  BY ReadFacts DEF TypeInv, Lives
<1>c. /\ {} \in SUBSET Msgs
      /\ \A k \in {"selected", "pr_open", "deploy_pending", "verification_pending", "failed",
                   "selection_requested"} : k \in Statuses \ {"completed"}
  BY DEF Statuses
<1>d. ASSUME Reopen(r.row.action), Ends(r, {})
      PROVE  /\ row' \in Rows /\ (row'.status = "completed" <=> row.status = "completed")
             /\ reads' \subseteq Reading /\ msgs' \subseteq Msgs
  BY <1>a, <1>d, ReopenRow DEF Ends
<1>1. CASE RejectedCommit(r)
  BY <1>a, <1>d, <1>1, TypeParts DEF RejectedCommit
<1>2. CASE CreatedCommit(r)
  <2>1. ASSUME NEW b \in BOOLEAN,
               Saves(r, "selected", "pr_open", row.action,
                     [NoLife EXCEPT !.att = r.row.life.att, !.pr = r.msg.id, !.blocked = b],
                     {})
        PROVE  TypeInv'
    <3>1. r.msg.id \in Sel
      BY <1>b, <1>2, MsgId DEF CreatedCommit
    <3>2. [NoLife EXCEPT !.att = r.row.life.att, !.pr = r.msg.id, !.blocked = b] \in Lives
      BY <1>b, <3>1, LifeType
    <3>3. /\ row' \in Rows /\ (row'.status = "completed" <=> row.status = "completed")
          /\ reads' \subseteq Reading /\ msgs' \subseteq Msgs
      BY <1>b, <1>c, <2>1, <3>2, CommitTypes
    <3> QED BY <1>a, <1>2, <3>3, TypeParts DEF CreatedCommit
  <2>2. CASE Reopen(r.row.action) /\ Ends(r, {})
    BY <1>a, <1>d, <1>2, <2>2, TypeParts DEF CreatedCommit
  <2> QED BY <1>2, <2>1, <2>2 DEF CreatedCommit
<1>3. CASE FailedCommit(r)
  <2>1. [r.row.life EXCEPT !.why = "safe_pr"] \in Lives
    BY <1>b, LifeType
  <2>2. /\ row' \in Rows /\ (row'.status = "completed" <=> row.status = "completed")
        /\ reads' \subseteq Reading /\ msgs' \subseteq Msgs
    BY <1>b, <1>c, <1>3, <2>1, CommitTypes DEF FailedCommit
  <2> QED BY <1>a, <1>3, <2>2, TypeParts DEF FailedCommit
<1>4. CASE MergeCommit(r)
  <2> DEFINE n == <<r.msg.id, 0>>
  <2>1. n \in Runs
    <3>1. r.msg.id \in Sel
      BY <1>b, <1>4, MsgId DEF MergeCommit, Webhooks
    <3> QED BY <3>1 DEF Runs
  <2>2. [r.row.life EXCEPT !.run = n] \in Lives /\ {Msg("merged", n)} \in SUBSET Msgs
    BY <1>b, <2>1, LifeType, MsgType
  <2>3. Saves(r, "pr_open", "deploy_pending", row.action,
              [r.row.life EXCEPT !.run = n], {Msg("merged", n)})
    BY <1>4 DEF MergeCommit
  <2>4. runs' \in [Runs -> {"none", "running", "succeeded", "failed"}]
    BY <1>a, <1>4 DEF MergeCommit
  <2>5. UNCHANGED <<sels, prs, now, seen, resolved>>
    BY <1>4 DEF MergeCommit
  <2> HIDE DEF n
  <2>6. /\ row' \in Rows /\ (row'.status = "completed" <=> row.status = "completed")
        /\ reads' \subseteq Reading /\ msgs' \subseteq Msgs
    BY <1>b, <1>c, <2>2, <2>3, CommitTypes
  <2> QED BY <1>a, <2>4, <2>5, <2>6, TypeParts
<1>5. CASE RejectCommit(r)
  <2>1. /\ row' \in Rows /\ (row'.status = "completed" <=> row.status = "completed")
        /\ reads' \subseteq Reading /\ msgs' \subseteq Msgs
    BY <1>b, <1>c, <1>5, CommitTypes DEF RejectCommit
  <2> QED BY <1>a, <1>5, <2>1, TypeParts DEF RejectCommit
<1>6. CASE StartCommit(r)
  <2>1. [r.row.life EXCEPT !.start = r.at, !.since = 0] \in Lives
    BY <1>b, LifeType
  <2>2. /\ row' \in Rows /\ (row'.status = "completed" <=> row.status = "completed")
        /\ reads' \subseteq Reading /\ msgs' \subseteq Msgs
    BY <1>b, <1>c, <1>6, <2>1, CommitTypes DEF StartCommit
  <2> QED BY <1>a, <1>6, <2>2, TypeParts DEF StartCommit
<1>7. CASE RunFailedCommit(r)
  <2>1. [r.row.life EXCEPT !.why = "deploy"] \in Lives
    BY <1>b, LifeType
  <2>2. /\ row' \in Rows /\ (row'.status = "completed" <=> row.status = "completed")
        /\ reads' \subseteq Reading /\ msgs' \subseteq Msgs
    BY <1>b, <1>c, <1>7, <2>1, CommitTypes DEF RunFailedCommit
  <2> QED BY <1>a, <1>7, <2>2, TypeParts DEF RunFailedCommit
<1>8. CASE EvidenceCommit(r)
  BY <1>8, TypeEvidence
<1>9. ASSUME NEW i \in Sel, RetrySafePr(r, i) PROVE TypeInv'
  <2>1. [NoLife EXCEPT !.att = i] \in Lives /\ {Msg("selected", i)} \in SUBSET Msgs
    BY NoLifeType, LifeType, MsgType
  <2>2. /\ row' \in Rows /\ (row'.status = "completed" <=> row.status = "completed")
        /\ reads' \subseteq Reading /\ msgs' \subseteq Msgs
    BY <1>b, <1>c, <1>9, <2>1, CommitTypes DEF RetrySafePr
  <2>3. sels' \in [Sel -> Actions \cup {None}]
    BY <1>a, <1>b, <1>9 DEF RetrySafePr
  <2> QED BY <1>a, <1>9, <2>2, <2>3, TypeParts DEF RetrySafePr
<1>10. CASE RetryDeploy(r)
  <2> DEFINE v == r.row.life
             n == <<v.run[1], v.run[2] + 1>>
             life == [v EXCEPT !.run = n, !.why = "none", !.start = 0, !.since = 0,
                               !.last = 0, !.count = 0, !.key = 0]
  <2>1. n \in Runs /\ Saves(r, "failed", "deploy_pending", row.action, life, {})
    BY <1>10 DEF RetryDeploy
  <2>2. life \in Lives
    <3> HIDE DEF n
    <3> QED BY <1>b, <2>1, RetryLifeType
  <2>3. runs' \in [Runs -> {"none", "running", "succeeded", "failed"}]
    <3>1. runs' = runs \/ runs' = [runs EXCEPT ![n] = "running"]
      BY <1>10 DEF RetryDeploy
    <3> HIDE DEF n
    <3> QED BY <1>a, <3>1
  <2>4. UNCHANGED <<sels, prs, now, seen, resolved>>
    BY <1>10 DEF RetryDeploy
  <2> HIDE DEF life
  <2>5. /\ row' \in Rows /\ (row'.status = "completed" <=> row.status = "completed")
        /\ reads' \subseteq Reading /\ msgs' \subseteq Msgs
    BY <1>b, <1>c, <2>1, <2>2, CommitTypes
  <2> QED BY <1>a, <2>3, <2>4, <2>5, TypeParts
<1>11. CASE RetryVerification(r)
  <2> DEFINE v == r.row.life
             life == [v EXCEPT !.why = "none", !.retry = @ + 1, !.start = r.at, !.since = 0,
                               !.last = 0, !.count = 0, !.key = 0]
  <2>1. /\ v.retry < MaxRetries
        /\ Saves(r, "failed", "verification_pending", row.action, life, {})
        /\ UNCHANGED <<sels, prs, runs, now, seen, resolved>>
    BY <1>11 DEF RetryVerification
  <2>2. life \in Lives
    BY <1>b, <2>1, RetryLifeType
  <2> HIDE DEF life
  <2>3. /\ row' \in Rows /\ (row'.status = "completed" <=> row.status = "completed")
        /\ reads' \subseteq Reading /\ msgs' \subseteq Msgs
    BY <1>b, <1>c, <2>1, <2>2, CommitTypes
  <2> QED BY <1>a, <2>1, <2>3, TypeParts
<1>12. CASE RefuseMerge(r) \/ Abort(r)
  BY <1>a, <1>12, TypeParts DEF RefuseMerge, Ends, Abort
<1> QED BY <1>1, <1>2, <1>3, <1>4, <1>5, <1>6, <1>7, <1>8, <1>9, <1>10, <1>11, <1>12
        DEF Commit

LEMMA NextCases ==
    ASSUME [Next]_vars
    PROVE  \/ AnyRead \/ Service \/ UNCHANGED vars
           \/ \E r \in reads : Commit(r) \/ Abort(r)
  BY DEF Next, Selection, PullRequest, Deployment, Verification, AnyRead, Service

LEMMA TypeStep ==
    ASSUME TypeInv, Chain, [Next]_vars
    PROVE  TypeInv'
<1>1. CASE AnyRead
  <2>1. PICK m \in Msgs : ReadStep(m)
    BY <1>1, ReadSteps DEF TypeInv
  <2>a. /\ row \in Rows /\ msgs \subseteq Msgs /\ reads \subseteq Reading /\ now \in Times
        /\ sels \in [Sel -> Actions \cup {None}]
        /\ prs \in [Sel -> {"none", "open", "merged", "other"}]
        /\ runs \in [Runs -> {"none", "running", "succeeded", "failed"}]
    BY DEF TypeInv, PlanTypes, Reading
  <2>2. reads' \subseteq Reading /\ msgs' \subseteq Msgs
    BY <2>1, <2>a DEF ReadStep, Reading
  <2> QED BY <2>1, <2>a, <2>2, TypeParts DEF ReadStep
<1>2. CASE Service
  BY <1>2, TypeServices
<1>3. ASSUME NEW r \in reads, Commit(r) \/ Abort(r) PROVE TypeInv'
  BY <1>3, TypeCommits
<1>4. CASE UNCHANGED vars
  BY <1>4 DEF TypeInv, PlanTypes, OutcomeTold, vars
<1> QED BY <1>1, <1>2, <1>3, <1>4, NextCases

-----------------------------------------------------------------------------
(* Selections and their pull requests *)

\* A commit brings no event of a selection.
LEMMA SavesEvents ==
    ASSUME NEW r, NEW expected, NEW status, NEW action, NEW life, NEW S,
           Saves(r, expected, status, action, life, S)
    PROVE  msgs' \subseteq msgs \cup S
  BY DEF Saves, Ends

\* A step that brings no event of a selection keeps the chain.
LEMMA ChainQuiet ==
    ASSUME Chain, UNCHANGED <<sels, prs>>,
           \A i \in Sel : \A k \in {"selected", "pr_requested", "pr_merged"} :
               Msg(k, i) \in msgs' => Msg(k, i) \in msgs
    PROVE  Chain'
  BY DEF Chain, Chained

LEMMA ChainSelect ==
    ASSUME Chain, NEW i \in Sel, NEW a \in Actions, sels[i] = None,
           sels \in [Sel -> Actions \cup {None}],
           sels' = [sels EXCEPT ![i] = a], prs' = prs,
           msgs' \subseteq msgs \cup {Msg("selected", i)}
    PROVE  Chain'
<1> SUFFICES ASSUME NEW j \in Sel PROVE Chained(j)'
  BY DEF Chain
<1>1. a # None
  BY RecoveryPlanAssumption DEF Actions
<1>2. \A k \in {"selected", "pr_requested", "pr_merged"} :
          Msg(k, j) \in msgs' => Msg(k, j) \in msgs \/ (k = "selected" /\ i = j)
  BY MsgEqual
<1>3. Chained(i) /\ Chained(j)
  BY DEF Chain
<1> QED BY <1>1, <1>2, <1>3 DEF Chained

LEMMA ChainStep ==
    ASSUME TypeInv, Chain, RowsGood, [Next]_vars
    PROVE  Chain'
<1> USE RecoveryPlanAssumption
<1>a. /\ sels \in [Sel -> Actions \cup {None}] /\ msgs \subseteq Msgs
      /\ prs \in [Sel -> {"none", "open", "merged", "other"}]
  BY DEF TypeInv, PlanTypes
<1>1. CASE AnyRead
  <2>1. PICK m \in Msgs : ReadStep(m)
    BY <1>1, ReadSteps DEF TypeInv
  <2> QED BY <2>1, ChainQuiet DEF ReadStep
<1>2. CASE OnRecoveryPlanned
  <2>1. CASE UNCHANGED sels /\ msgs' = (msgs \ {Msg("planned", 0)}) \cup {Msg("requested", 0)}
    <3>1. \A i \in Sel : \A k \in {"selected", "pr_requested", "pr_merged"} :
              Msg(k, i) \in msgs' => Msg(k, i) \in msgs
      BY <2>1, MsgEqual
    <3> QED BY <1>2, <2>1, <3>1, ChainQuiet DEF OnRecoveryPlanned
  <2>2. ASSUME NEW a \in AutoActions, sels[1] = None, sels' = [sels EXCEPT ![1] = a],
               msgs' = (msgs \ {Msg("planned", 0)}) \cup {Msg("selected", 1)}
        PROVE  Chain'
    <3>1. 1 \in Sel /\ a \in Actions
      BY DEF Sel, Actions
    <3> QED BY <1>a, <1>2, <2>2, <3>1, ChainSelect DEF OnRecoveryPlanned
  <2> QED BY <1>2, <2>1, <2>2 DEF OnRecoveryPlanned
<1>3. CASE OnSelectionRequested
  BY <1>3, ChainQuiet DEF OnSelectionRequested
<1>4. CASE Tick \/ Expire
  BY <1>4, ChainQuiet DEF Tick, Expire
<1>5. ASSUME NEW a \in Actions, NEW i \in Sel, Select(a, i) PROVE Chain'
  BY <1>a, <1>5, ChainSelect DEF Select, Unused
<1>6. ASSUME NEW a \in PrActions, OnActionRequired(a) PROVE Chain'
  BY <1>6, ChainQuiet DEF OnActionRequired
<1>7. ASSUME NEW i \in Sel, Dispatch(i) PROVE Chain'
  <2> SUFFICES ASSUME NEW j \in Sel PROVE Chained(j)'
    BY DEF Chain
  <2>1. Chained(j) /\ UNCHANGED <<sels, prs>> /\ Msg("selected", i) \in msgs
    BY <1>7 DEF Chain, Dispatch
  <2>2. msgs' \subseteq (msgs \ {Msg("selected", i)})
                           \cup {Msg("pr_requested", i), Msg("rejected", i)}
    BY <1>7 DEF Dispatch
  <2>3. \A k \in {"selected", "pr_requested", "pr_merged"} :
            Msg(k, j) \in msgs' =>
                \/ Msg(k, j) \in msgs /\ ~(k = "selected" /\ j = i)
                \/ k = "pr_requested" /\ j = i
    BY <2>2, MsgEqual
  <2> QED BY <2>1, <2>3 DEF Chained
<1>8. ASSUME NEW i \in Sel, CreatePr(i) PROVE Chain'
  <2> SUFFICES ASSUME NEW j \in Sel PROVE Chained(j)'
    BY DEF Chain
  <2>1. Chained(j) /\ UNCHANGED sels /\ Msg("pr_requested", i) \in msgs /\ prs[i] = "none"
    BY <1>8 DEF Chain, Chained, CreatePr
  <2>2. /\ msgs' \subseteq (msgs \ {Msg("pr_requested", i)})
                              \cup {Msg("created", i), Msg("failed", i)}
        /\ prs' = prs \/ prs' = [prs EXCEPT ![i] = "open"]
    BY <1>8 DEF CreatePr
  <2>3. \A k \in {"selected", "pr_requested", "pr_merged"} :
            Msg(k, j) \in msgs' => Msg(k, j) \in msgs /\ ~(k = "pr_requested" /\ j = i)
    BY <2>2, MsgEqual
  <2>4. j # i => prs'[j] = prs[j]
    BY <1>a, <2>2
  <2> QED BY <2>1, <2>3, <2>4 DEF Chained
<1>9. ASSUME NEW i \in Sel, EndPr(i) PROVE Chain'
  <2> SUFFICES ASSUME NEW j \in Sel PROVE Chained(j)'
    BY DEF Chain
  <2>1. Chained(j) /\ UNCHANGED sels /\ prs[i] = "open"
    BY <1>9 DEF Chain, EndPr
  <2>2. PICK to \in {"merged", "other"} :
            /\ prs' = [prs EXCEPT ![i] = to]
            /\ msgs' = msgs \cup {Msg(IF to = "merged" THEN "pr_merged" ELSE "pr_rejected", i)}
    BY <1>9 DEF EndPr
  <2>3. \A k \in {"selected", "pr_requested", "pr_merged"} :
            Msg(k, j) \in msgs' =>
                Msg(k, j) \in msgs \/ (k = "pr_merged" /\ j = i /\ to = "merged")
    BY <2>2, MsgEqual
  <2>4. prs'[j] = IF j = i THEN to ELSE prs[j]
    BY <1>a, <2>2
  <2> QED BY <2>1, <2>3, <2>4 DEF Chained
<1>10. ASSUME NEW m \in msgs, LoseWebhook(m) PROVE Chain'
  BY <1>10, ChainQuiet DEF LoseWebhook
<1>11. ASSUME NEW n \in Runs, RunEnds(n) PROVE Chain'
  <2>1. msgs' \subseteq msgs \cup {Msg("run_failed", n), Msg("completed", n)}
    BY <1>11 DEF RunEnds
  <2>2. \A i \in Sel : \A k \in {"selected", "pr_requested", "pr_merged"} :
            Msg(k, i) \in msgs' => Msg(k, i) \in msgs
    BY <2>1, MsgEqual
  <2> QED BY <1>11, <2>2, ChainQuiet DEF RunEnds
<1>12. ASSUME NEW r \in reads, RejectedCommit(r) \/ CreatedCommit(r) \/ FailedCommit(r)
                                 \/ RejectCommit(r) \/ RefuseMerge(r)
       PROVE  Chain'
  <2>1. msgs' \subseteq msgs /\ UNCHANGED <<sels, prs>>
    BY <1>12 DEF RejectedCommit, CreatedCommit, FailedCommit, RejectCommit, RefuseMerge,
       Saves, Ends
  <2> QED BY <2>1, ChainQuiet
<1>13. ASSUME NEW r \in reads, StartCommit(r) \/ RunFailedCommit(r) \/ EvidenceCommit(r)
       PROVE  Chain'
  <2>1. msgs' \subseteq msgs /\ UNCHANGED <<sels, prs>>
    BY <1>13, SavesEvents DEF StartCommit, RunFailedCommit, EvidenceCommit
  <2> QED BY <2>1, ChainQuiet
<1>14. ASSUME NEW r \in reads, RetryDeploy(r) \/ RetryVerification(r) \/ Abort(r)
       PROVE  Chain'
  <2>1. msgs' \subseteq msgs /\ UNCHANGED <<sels, prs>>
    BY <1>14, SavesEvents DEF RetryDeploy, RetryVerification, Abort
  <2> QED BY <2>1, ChainQuiet
<1>15. ASSUME NEW r \in reads, MergeCommit(r) PROVE Chain'
  <2>1. msgs' \subseteq msgs \cup {Msg("merged", <<r.msg.id, 0>>)} /\ UNCHANGED <<sels, prs>>
    BY <1>15, SavesEvents DEF MergeCommit
  <2>2. \A i \in Sel : \A k \in {"selected", "pr_requested", "pr_merged"} :
            Msg(k, i) \in msgs' => Msg(k, i) \in msgs
    BY <2>1, MsgEqual
  <2> QED BY <2>1, <2>2, ChainQuiet
<1>16. ASSUME NEW r \in reads, NEW i \in Sel, RetrySafePr(r, i) PROVE Chain'
  <2>1. prs' = prs /\ sels[i] = None
    BY <1>16 DEF RetrySafePr, Unused
  <2>2. CASE row.status = "failed"
    <3>1. r.row.action \in Actions
      BY <1>16 DEF RetrySafePr, RowsGood, RowGood, Relevant, Monotonic, Statuses
    <3>2. sels' = [sels EXCEPT ![i] = r.row.action]
      BY <1>16, <2>2 DEF RetrySafePr
    <3>3. msgs' \subseteq msgs \cup {Msg("selected", i)}
      BY <1>16, SavesEvents DEF RetrySafePr
    <3> QED BY <1>a, <2>1, <3>1, <3>2, <3>3, ChainSelect
  <2>3. CASE row.status # "failed"
    <3>1. msgs' \subseteq msgs /\ sels' = sels
      BY <1>16, <2>3 DEF RetrySafePr, Saves, Ends
    <3> QED BY <2>1, <3>1, ChainQuiet
  <2> QED BY <2>2, <2>3
<1>17. CASE UNCHANGED vars
  BY <1>17, ChainQuiet DEF vars
<1> QED BY <1>1, <1>2, <1>3, <1>4, <1>5, <1>6, <1>7, <1>8, <1>9, <1>10, <1>11, <1>12,
           <1>13, <1>14, <1>15, <1>16, <1>17, NextCases DEF Service, Commit

-----------------------------------------------------------------------------
(* Rows and copies of rows *)

\* What was merged stays merged, what was deployed stays deployed.
Stable ==
    /\ \A i \in Sel : prs[i] = "merged" => prs'[i] = "merged"
    /\ \A n \in Runs : runs[n] = "succeeded" => runs'[n] = "succeeded"

LEMMA StableStep ==
    ASSUME TypeInv, Chain, [Next]_vars
    PROVE  Stable
<1>a. /\ prs \in [Sel -> {"none", "open", "merged", "other"}]
      /\ runs \in [Runs -> {"none", "running", "succeeded", "failed"}]
  BY DEF TypeInv, PlanTypes
<1>1. CASE AnyRead
  BY <1>1, ReadSteps DEF TypeInv, ReadStep, Stable
<1>2. CASE OnRecoveryPlanned \/ OnSelectionRequested \/ Tick \/ Expire
  BY <1>2 DEF OnRecoveryPlanned, OnSelectionRequested, Tick, Expire, Stable
<1>3. ASSUME NEW a \in Actions, NEW i \in Sel, Select(a, i) PROVE Stable
  BY <1>3 DEF Select, Stable
<1>4. ASSUME NEW a \in PrActions, OnActionRequired(a) PROVE Stable
  BY <1>4 DEF OnActionRequired, Stable
<1>5. ASSUME NEW i \in Sel, Dispatch(i) PROVE Stable
  BY <1>5 DEF Dispatch, Stable
<1>6. ASSUME NEW i \in Sel, CreatePr(i) PROVE Stable
  <2>1. prs[i] = "none"
    BY <1>6 DEF CreatePr, Chain, Chained
  <2>2. UNCHANGED runs /\ (prs' = prs \/ prs' = [prs EXCEPT ![i] = "open"])
    BY <1>6 DEF CreatePr
  <2> QED BY <1>a, <2>1, <2>2 DEF Stable
<1>7. ASSUME NEW i \in Sel, EndPr(i) PROVE Stable
  <2>1. prs[i] = "open" /\ UNCHANGED runs /\ \E to : prs' = [prs EXCEPT ![i] = to]
    BY <1>7 DEF EndPr
  <2> QED BY <1>a, <2>1 DEF Stable
<1>8. ASSUME NEW m \in msgs, LoseWebhook(m) PROVE Stable
  BY <1>8 DEF LoseWebhook, Stable
<1>9. ASSUME NEW n \in Runs, RunEnds(n) PROVE Stable
  <2>1. runs[n] = "running" /\ UNCHANGED prs /\ \E to : runs' = [runs EXCEPT ![n] = to]
    BY <1>9 DEF RunEnds
  <2> QED BY <1>a, <2>1 DEF Stable
<1>10. ASSUME NEW r \in reads,
              RejectedCommit(r) \/ CreatedCommit(r) \/ FailedCommit(r) \/ RejectCommit(r)
              \/ RefuseMerge(r) \/ StartCommit(r) \/ RunFailedCommit(r)
              \/ RetryVerification(r) \/ Abort(r)
       PROVE  Stable
  BY <1>10 DEF RejectedCommit, CreatedCommit, FailedCommit, RejectCommit, RefuseMerge,
     StartCommit, RunFailedCommit, RetryVerification, Abort, Stable
<1>11. ASSUME NEW r \in reads, EvidenceCommit(r) PROVE Stable
  BY <1>11 DEF EvidenceCommit, Stable
<1>12. ASSUME NEW r \in reads, NEW i \in Sel, RetrySafePr(r, i) PROVE Stable
  BY <1>12 DEF RetrySafePr, Stable
<1>13. ASSUME NEW r \in reads, MergeCommit(r) PROVE Stable
  <2>1. /\ UNCHANGED prs
        /\ \/ UNCHANGED runs
           \/ \E n : runs[n] = "none" /\ runs' = [runs EXCEPT ![n] = "running"]
    BY <1>13 DEF MergeCommit
  <2> QED BY <1>a, <2>1 DEF Stable
<1>14. ASSUME NEW r \in reads, RetryDeploy(r) PROVE Stable
  <2>1. /\ UNCHANGED prs
        /\ \/ UNCHANGED runs
           \/ \E n : runs[n] = "none" /\ runs' = [runs EXCEPT ![n] = "running"]
    BY <1>14 DEF RetryDeploy
  <2> QED BY <1>a, <2>1 DEF Stable
<1>15. CASE UNCHANGED vars
  BY <1>15 DEF vars, Stable
<1> QED BY <1>1, <1>2, <1>3, <1>4, <1>5, <1>6, <1>7, <1>8, <1>9, <1>10, <1>11, <1>12,
           <1>13, <1>14, <1>15, NextCases DEF Service, Commit

\* A run is named after the pull request it deploys.
LEMMA RunOfPr ==
    ASSUME NEW n \in Runs PROVE n[1] \in Sel
  BY DEF Runs

\* What a row says stays true.
LEMMA GoodStays ==
    ASSUME Stable, NEW w \in Rows, RowGood(w)
    PROVE  RowGood(w)'
<1>1. w.life.run \in Runs => w.life.run[1] \in Sel
  BY RunOfPr
<1> QED BY <1>1 DEF Stable, RowGood, Tracking, Deployed

LEMMA RelevantStays ==
    ASSUME Stable, NEW m \in Msgs, NEW w, Relevant(m, w)
    PROVE  Relevant(m, w)'
<1>1. /\ m.kind \in {"merged", "completed"} => m.id \in Runs
      /\ m.kind = "pr_merged" => m.id \in Sel
  BY MsgId DEF Webhooks
<1> QED BY <1>1 DEF Stable, Relevant

\* It is enough to look at what is written and at what is read.
LEMMA GoodRow ==
    ASSUME TypeInv, RowsGood, Stable, UNCHANGED row
    PROVE  RowGood(row)'
<1>1. row \in Rows /\ RowGood(row)
  BY DEF TypeInv, PlanTypes, RowsGood
<1>2. PICK w \in Rows : w = row
  BY <1>1
<1>3. RowGood(w)'
  BY <1>1, <1>2, GoodStays
<1> QED BY <1>2, <1>3

LEMMA GoodReads ==
    ASSUME TypeInv, RowsGood, Stable, reads' \subseteq reads
    PROVE  \A r \in reads' : RowGood(r.row)' /\ Relevant(r.msg, r.row)'
<1> SUFFICES ASSUME NEW r \in reads' PROVE RowGood(r.row)' /\ Relevant(r.msg, r.row)'
  OBVIOUS
<1>1. r.row \in Rows /\ r.msg \in Msgs
  BY ReadFacts DEF TypeInv
<1>2. RowGood(r.row) /\ Relevant(r.msg, r.row)
  BY DEF RowsGood
<1> QED BY <1>1, <1>2, GoodStays, RelevantStays

\* A row before the merge tells nothing of a run.
LEMMA PlainRow ==
    ASSUME \/ row'.status \in {"none", "selection_requested", "selected", "pr_open"}
           \/ row'.status = "failed" /\ row'.life.why = "safe_pr",
           row'.status \in Monotonic => row'.action \in Actions
    PROVE  RowGood(row)'
  BY DEF RowGood, Tracking, Deployed

\* A row after the merge names the pull request and its run.
LEMMA TrackedRow ==
    ASSUME row'.action \in Actions, row'.life.run \in Runs,
           row'.life.run[1] = row'.life.pr, prs'[row'.life.pr] = "merged",
           \/ row'.status = "deploy_pending" \/ runs'[row'.life.run] = "succeeded"
           \/ row'.status = "failed" /\ row'.life.why # "expired"
    PROVE  RowGood(row)'
  BY DEF RowGood, Tracking, Deployed

LEMMA UpsertGood ==
    ASSUME TypeInv, RowsGood, Stable, NEW status \in {"selection_requested", "selected"},
           NEW action, status = "selected" => action \in Actions, Upsert(status, action)
    PROVE  RowGood(row)'
<1>1. CASE UNCHANGED row
  BY <1>1, GoodRow
<1>2. CASE row' = [status |-> status, action |-> action, life |-> NoLife]
  <2>1. row'.status = status /\ row'.action = action
    BY <1>2
  <2> QED BY <2>1, PlainRow DEF Monotonic
<1> QED BY <1>1, <1>2 DEF Upsert

LEMMA ReopenGood ==
    ASSUME TypeInv, RowsGood, Stable, NEW action, Reopen(action)
    PROVE  RowGood(row)'
<1>0. row \in Rows
  BY DEF TypeInv, PlanTypes
<1>1. CASE UNCHANGED row
  BY <1>1, GoodRow
<1>2. CASE row' = [row EXCEPT !.status = "selection_requested", !.action = None]
  <2>1. row'.status = "selection_requested"
    BY <1>0, <1>2 DEF Rows
  <2> QED BY <2>1, PlainRow DEF Monotonic
<1> QED BY <1>1, <1>2 DEF Reopen

\* The row of an accepted selection names its action.
LEMMA ActionKnown ==
    ASSUME RowsGood, row.status \in {"selected", "pr_open", "deploy_pending",
                                     "verification_pending", "completed", "failed"}
    PROVE  row.action \in Actions
  BY DEF RowsGood, RowGood, Monotonic, Statuses

\* What a handler that read a merged plan knows.
LEMMA ReadTracked ==
    ASSUME TypeInv, RowsGood, Stable, NEW r \in reads, Tracking(r.row)
    PROVE  LET v == r.row.life
           IN  /\ v.run \in Runs /\ v.run[1] = v.pr /\ v.pr \in Sel
               /\ prs'[v.pr] = "merged"
               /\ Deployed(r.row) => runs'[v.run] = "succeeded"
<1>1. RowGood(r.row)
  BY DEF RowsGood
<1>2. r.row.life.run \in Runs /\ r.row.life.run[1] = r.row.life.pr
  BY <1>1 DEF RowGood
<1>3. r.row.life.pr \in Sel
  BY <1>2, RunOfPr
<1> QED BY <1>1, <1>2, <1>3 DEF RowGood, Stable

\* A judgement leaves run and pull request alone.
LEMMA EvaluateKeeps ==
    ASSUME NEW v \in Lives, NEW t, NEW healthy \in BOOLEAN, NEW at
    PROVE  /\ Evaluate(v, t, healthy, at).life.run = v.run
           /\ Evaluate(v, t, healthy, at).life.pr = v.pr
  BY DEF Evaluate, Lives

\* A commit leaves the row or writes what it was asked to.
LEMMA SavesCases ==
    ASSUME NEW r, NEW expected, NEW status, NEW action, NEW life, NEW S,
           Saves(r, expected, status, action, life, S)
    PROVE  /\ reads' = reads \ {r}
           /\ \/ row.status # expected /\ UNCHANGED row
              \/ /\ row.status = expected
                 /\ row'.status = status /\ row'.action = action /\ row'.life = life
  BY DEF Saves, Ends

\* A commit ends the handler it belongs to, and no other.
LEMMA CommitEnds ==
    ASSUME NEW r \in reads, Commit(r)
    PROVE  reads' = reads \ {r}
<1>1. CASE RejectedCommit(r) \/ CreatedCommit(r) \/ RefuseMerge(r)
  BY <1>1, SavesCases DEF RejectedCommit, CreatedCommit, RefuseMerge, Ends
<1>2. CASE FailedCommit(r) \/ MergeCommit(r) \/ RejectCommit(r)
  BY <1>2, SavesCases DEF FailedCommit, MergeCommit, RejectCommit
<1>3. CASE StartCommit(r) \/ RunFailedCommit(r)
  BY <1>3, SavesCases DEF StartCommit, RunFailedCommit
<1>4. CASE EvidenceCommit(r)
  BY <1>4, SavesCases DEF EvidenceCommit
<1>5. CASE RetryDeploy(r) \/ RetryVerification(r)
  BY <1>5, SavesCases DEF RetryDeploy, RetryVerification
<1>6. ASSUME NEW i \in Sel, RetrySafePr(r, i) PROVE reads' = reads \ {r}
  BY <1>6, SavesCases DEF RetrySafePr
<1> QED BY <1>1, <1>2, <1>3, <1>4, <1>5, <1>6 DEF Commit

LEMMA GoodCommits ==
    ASSUME TypeInv, Chain, RowsGood, Stable, NEW r \in reads, Commit(r)
    PROVE  RowGood(row)'
<1> USE GoodRow, ActionKnown
<1>a. /\ r.msg \in Msgs /\ r.row.life \in Lives /\ row \in Rows /\ r.at \in Times
  BY ReadFacts DEF TypeInv
<1>b. RowGood(r.row) /\ Relevant(r.msg, r.row)
  BY DEF RowsGood
<1>1. CASE RejectedCommit(r)
  BY <1>1, ReopenGood DEF RejectedCommit
<1>2. CASE CreatedCommit(r)
  <2>1. ASSUME NEW life, Saves(r, "selected", "pr_open", row.action, life, {})
        PROVE  RowGood(row)'
    BY <2>1, SavesCases, PlainRow
  <2> QED BY <1>2, <2>1, ReopenGood DEF CreatedCommit
<1>3. CASE FailedCommit(r)
  <2> DEFINE life == [r.row.life EXCEPT !.why = "safe_pr"]
  <2>1. Saves(r, "selected", "failed", row.action, life, {}) /\ life.why = "safe_pr"
    BY <1>3, <1>a DEF FailedCommit, Lives
  <2> HIDE DEF life
  <2> QED BY <2>1, SavesCases, PlainRow
<1>4. CASE MergeCommit(r)
  <2> DEFINE n == <<r.msg.id, 0>>
             life == [r.row.life EXCEPT !.run = n]
  <2>1. r.msg.kind = "pr_merged"
        /\ Saves(r, "pr_open", "deploy_pending", row.action, life, {Msg("merged", n)})
    BY <1>4 DEF MergeCommit
  <2>2. r.msg.id \in Sel
    BY <1>a, <2>1, MsgId DEF Webhooks
  <2>3. n \in Runs /\ n[1] = r.msg.id
    BY <2>2, RecoveryPlanAssumption DEF Runs
  <2>4. r.row.life.pr = r.msg.id /\ prs'[r.msg.id] = "merged"
    BY <1>b, <2>1, <2>2 DEF Relevant, Stable
  <2>5. life.run = n /\ life.pr = r.row.life.pr
    BY <1>a DEF Lives
  <2> HIDE DEF life, n
  <2> QED BY <2>1, <2>3, <2>4, <2>5, SavesCases, TrackedRow
<1>5. CASE RejectCommit(r)
  <2>1. Saves(r, "pr_open", "selection_requested", None, r.row.life, {})
    BY <1>5 DEF RejectCommit
  <2> QED BY <2>1, SavesCases, PlainRow DEF Monotonic
<1>6. CASE StartCommit(r)
  <2> DEFINE life == [r.row.life EXCEPT !.start = r.at, !.since = 0]
  <2>1. Saves(r, "deploy_pending", "verification_pending", row.action, life, {})
    BY <1>6 DEF StartCommit
  <2>2. /\ r.row.status = "deploy_pending" /\ r.row.life.run = r.msg.id
        /\ runs[r.msg.id] = "succeeded" /\ r.msg.id \in Runs
    BY <1>6, <1>a, <1>b, MsgId DEF StartCommit, Relevant
  <2>3. /\ r.row.life.run \in Runs /\ r.row.life.run[1] = r.row.life.pr
        /\ prs'[r.row.life.pr] = "merged" /\ runs'[r.row.life.run] = "succeeded"
    BY <2>2, ReadTracked DEF Tracking, Stable
  <2>4. life.run = r.row.life.run /\ life.pr = r.row.life.pr
    BY <1>a DEF Lives
  <2> HIDE DEF life
  <2> QED BY <2>1, <2>3, <2>4, SavesCases, TrackedRow
<1>7. CASE RunFailedCommit(r)
  <2> DEFINE life == [r.row.life EXCEPT !.why = "deploy"]
  <2>1. Saves(r, "deploy_pending", "failed", row.action, life, {})
    BY <1>7 DEF RunFailedCommit
  <2>2. r.row.status = "deploy_pending"
    BY <1>7, <1>b DEF RunFailedCommit, Relevant
  <2>3. /\ r.row.life.run \in Runs /\ r.row.life.run[1] = r.row.life.pr
        /\ prs'[r.row.life.pr] = "merged"
    BY <2>2, ReadTracked DEF Tracking
  <2>4. life.run = r.row.life.run /\ life.pr = r.row.life.pr /\ life.why = "deploy"
    BY <1>a DEF Lives
  <2> HIDE DEF life
  <2> QED BY <2>1, <2>3, <2>4, SavesCases, TrackedRow
<1>8. CASE EvidenceCommit(r)
  <2> DEFINE d(h) == Evaluate(r.row.life, r.msg.id, h, r.at)
             life(h) == [d(h).life EXCEPT !.why = IF d(h).status = "failed" THEN "expired"
                                                  ELSE "none"]
  <2>1. PICK h \in BOOLEAN :
            Saves(r, "verification_pending", d(h).status, row.action, life(h), {})
    BY <1>8 DEF EvidenceCommit
  <2>2. r.row.status = "verification_pending" /\ r.msg.id \in Times
    BY <1>8, <1>a, <1>b, MsgId DEF EvidenceCommit, Relevant
  <2>3. /\ r.row.life.run \in Runs /\ r.row.life.run[1] = r.row.life.pr
        /\ prs'[r.row.life.pr] = "merged" /\ runs'[r.row.life.run] = "succeeded"
    BY <2>2, ReadTracked DEF Tracking, Deployed
  <2>4. d(h).life.run = r.row.life.run /\ d(h).life.pr = r.row.life.pr /\ d(h).life \in Lives
    BY <1>a, <2>2, EvaluateKeeps, EvaluateType
  <2> HIDE DEF d
  <2>5. life(h).run = r.row.life.run /\ life(h).pr = r.row.life.pr
    BY <2>4 DEF Lives
  <2> HIDE DEF life
  <2> QED BY <2>1, <2>3, <2>5, SavesCases, TrackedRow
<1>9. ASSUME NEW i \in Sel, RetrySafePr(r, i) PROVE RowGood(row)'
  <2>1. Saves(r, "failed", "selected", row.action, [NoLife EXCEPT !.att = i],
              {Msg("selected", i)})
    BY <1>9 DEF RetrySafePr
  <2> QED BY <2>1, SavesCases, PlainRow
<1>10. CASE RetryDeploy(r)
  <2> DEFINE v == r.row.life
             n == <<v.run[1], v.run[2] + 1>>
             life == [v EXCEPT !.run = n, !.why = "none", !.start = 0, !.since = 0,
                               !.last = 0, !.count = 0, !.key = 0]
  <2>1. /\ r.msg.kind = "retry" /\ v.why = "deploy" /\ n \in Runs
        /\ Saves(r, "failed", "deploy_pending", row.action, life, {})
    BY <1>10 DEF RetryDeploy
  <2>2. Tracking(r.row)
    BY <1>b, <2>1 DEF Relevant, Tracking
  <2>3. v.run[1] = v.pr /\ prs'[v.pr] = "merged"
    BY <2>2, ReadTracked
  <2>4. n[1] = v.pr
    BY <2>3
  <2> HIDE DEF n
  <2>5. life.run = n /\ life.pr = v.pr
    BY <1>a DEF Lives
  <2> HIDE DEF life
  <2> QED BY <2>1, <2>3, <2>4, <2>5, SavesCases, TrackedRow
<1>11. CASE RetryVerification(r)
  <2> DEFINE v == r.row.life
             life == [v EXCEPT !.why = "none", !.retry = @ + 1, !.start = r.at, !.since = 0,
                               !.last = 0, !.count = 0, !.key = 0]
  <2>1. /\ r.msg.kind = "retry" /\ v.why = "expired"
        /\ Saves(r, "failed", "verification_pending", row.action, life, {})
    BY <1>11 DEF RetryVerification
  <2>2. Tracking(r.row) /\ Deployed(r.row)
    BY <1>b, <2>1 DEF Relevant, Tracking, Deployed
  <2>3. /\ v.run \in Runs /\ v.run[1] = v.pr /\ prs'[v.pr] = "merged"
        /\ runs'[v.run] = "succeeded"
    BY <2>2, ReadTracked
  <2>4. life.run = v.run /\ life.pr = v.pr
    BY <1>a DEF Lives
  <2> HIDE DEF life
  <2> QED BY <2>1, <2>3, <2>4, SavesCases, TrackedRow
<1>12. CASE RefuseMerge(r)
  BY <1>12 DEF RefuseMerge
<1> QED BY <1>1, <1>2, <1>3, <1>4, <1>5, <1>6, <1>7, <1>8, <1>9, <1>10, <1>11, <1>12
        DEF Commit

LEMMA RowsStep ==
    ASSUME TypeInv, Chain, RowsGood, [Next]_vars
    PROVE  RowsGood'
<1>s. Stable
  BY StableStep
<1>a. row \in Rows
  BY DEF TypeInv, PlanTypes
<1>q. ASSUME RowGood(row)', reads' \subseteq reads PROVE RowsGood'
  BY <1>s, <1>q, GoodReads DEF RowsGood
<1>1. CASE AnyRead
  <2>1. PICK m \in Msgs : ReadStep(m)
    BY <1>1, ReadSteps DEF TypeInv
  <2>2. RowGood(row)' /\ UNCHANGED row
    BY <1>s, <2>1, GoodRow DEF ReadStep
  <2>3. CASE reads' = reads \cup {[msg |-> m, row |-> row, at |-> now]} /\ Relevant(m, row)
    <3> DEFINE new == [msg |-> m, row |-> row, at |-> now]
    <3>1. PICK w \in Rows : w = row
      BY <1>a
    <3>2. RowGood(w)' /\ Relevant(m, w)'
      BY <1>s, <2>3, <3>1, GoodStays, RelevantStays DEF RowsGood
    <3> SUFFICES ASSUME NEW r \in reads' PROVE RowGood(r.row)' /\ Relevant(r.msg, r.row)'
      BY <2>2 DEF RowsGood
    <3>3. CASE r = new
      <4>1. r.row = w /\ r.msg = m
        BY <3>1, <3>3
      <4> QED BY <3>2, <4>1
    <3>4. CASE r \in reads
      <4>1. r.row \in Rows /\ r.msg \in Msgs
        BY <3>4, ReadFacts DEF TypeInv
      <4> QED BY <1>s, <3>4, <4>1, GoodStays, RelevantStays DEF RowsGood
    <3> QED BY <2>3, <3>3, <3>4
  <2>4. CASE UNCHANGED reads
    BY <1>q, <2>2, <2>4
  <2> QED BY <2>1, <2>3, <2>4 DEF ReadStep
<1>2. CASE OnRecoveryPlanned
  <2>1. AutoActions \subseteq Actions
    BY DEF Actions
  <2>2. RowGood(row)'
    BY <1>s, <1>2, <2>1, UpsertGood DEF OnRecoveryPlanned
  <2> QED BY <1>q, <1>2, <2>2 DEF OnRecoveryPlanned
<1>3. CASE OnSelectionRequested
  <2>1. RowGood(row)'
    BY <1>s, <1>3, UpsertGood DEF OnSelectionRequested
  <2> QED BY <1>q, <1>3, <2>1 DEF OnSelectionRequested
<1>4. CASE Tick
  BY <1>q, <1>s, <1>4, GoodRow DEF Tick
<1>5. CASE Expire
  <2>1. /\ row.status = "verification_pending"
        /\ row' = [row EXCEPT !.status = "failed", !.life.why = "expired"]
        /\ UNCHANGED <<prs, runs, reads>>
    BY <1>5 DEF Expire
  <2>2. row.life \in Lives
    BY <1>a DEF Rows
  <2>3. /\ row'.status = "failed" /\ row'.action = row.action
        /\ row'.life = [row.life EXCEPT !.why = "expired"]
    BY <1>a, <2>1 DEF Rows
  <2>4. row'.life.run = row.life.run /\ row'.life.pr = row.life.pr
    BY <2>2, <2>3 DEF Lives
  <2>5. /\ row.action \in Actions /\ row.life.run \in Runs /\ row.life.run[1] = row.life.pr
        /\ prs[row.life.pr] = "merged" /\ runs[row.life.run] = "succeeded"
    BY <2>1 DEF RowsGood, RowGood, Tracking, Deployed, Monotonic, Statuses
  <2>6. RowGood(row)'
    BY <2>1, <2>3, <2>4, <2>5, TrackedRow
  <2> QED BY <1>q, <2>1, <2>6
<1>6. ASSUME NEW a \in Actions, NEW i \in Sel, Select(a, i) PROVE RowsGood'
  <2>1. row'.status = "selected" /\ row'.action = a /\ UNCHANGED reads
    BY <1>6 DEF Select
  <2> QED BY <1>q, <2>1, PlainRow
<1>7. ASSUME NEW a \in PrActions, OnActionRequired(a) PROVE RowsGood'
  <2>1. RowGood(row)'
    BY <1>s, <1>7, ReopenGood DEF OnActionRequired
  <2> QED BY <1>q, <1>7, <2>1 DEF OnActionRequired
<1>8. ASSUME NEW i \in Sel, Dispatch(i) \/ CreatePr(i) \/ EndPr(i) PROVE RowsGood'
  <2>1. UNCHANGED <<row, reads>>
    BY <1>8 DEF Dispatch, CreatePr, EndPr
  <2> QED BY <1>q, <1>s, <2>1, GoodRow
<1>9. ASSUME NEW m \in msgs, LoseWebhook(m) PROVE RowsGood'
  <2>1. UNCHANGED row /\ reads' \subseteq reads
    BY <1>9 DEF LoseWebhook
  <2> QED BY <1>q, <1>s, <2>1, GoodRow
<1>10. ASSUME NEW n \in Runs, RunEnds(n) PROVE RowsGood'
  <2>1. UNCHANGED <<row, reads>>
    BY <1>10 DEF RunEnds
  <2> QED BY <1>q, <1>s, <2>1, GoodRow
<1>11. ASSUME NEW r \in reads, Commit(r) PROVE RowsGood'
  <2>1. RowGood(row)'
    BY <1>s, <1>11, GoodCommits
  <2>2. reads' \subseteq reads
    BY <1>11, CommitEnds
  <2> QED BY <1>q, <2>1, <2>2
<1>12. ASSUME NEW r \in reads, Abort(r) PROVE RowsGood'
  <2>1. UNCHANGED row /\ reads' \subseteq reads
    BY <1>12 DEF Abort
  <2> QED BY <1>q, <1>s, <2>1, GoodRow
<1>13. CASE UNCHANGED vars
  BY <1>q, <1>s, <1>13, GoodRow DEF vars
<1> QED BY <1>1, <1>2, <1>3, <1>4, <1>5, <1>6, <1>7, <1>8, <1>9, <1>10, <1>11, <1>12,
           <1>13, NextCases DEF Service

-----------------------------------------------------------------------------
LEMMA DeployInit == Init => DeployInv
<1> SUFFICES ASSUME Init PROVE DeployInv
  OBVIOUS
<1> USE RecoveryPlanAssumption
<1>1. row = [status |-> "none", action |-> None, life |-> NoLife]
  BY DEF Init
<1>2. row \in Rows
  BY <1>1, NoLifeType DEF Rows, Statuses
<1>3. msgs \subseteq Msgs
  <2>1. 0 \in Times
    BY DEF Times
  <2> QED BY <2>1, MsgType DEF Init
<1>4. now \in Times /\ resolved \in 0..1
  BY DEF Init, Times
<1>5. TypeInv
  BY <1>2, <1>3, <1>4 DEF Init, TypeInv, PlanTypes, OutcomeTold
<1>6. Chain
  <2> SUFFICES ASSUME NEW i \in Sel PROVE Chained(i)
    BY DEF Chain
  <2>1. \A k \in {"selected", "pr_requested", "pr_merged"} : Msg(k, i) \notin msgs
    BY MsgEqual DEF Init
  <2>2. prs[i] = "none"
    BY DEF Init
  <2> QED BY <2>1, <2>2 DEF Chained
<1>7. RowsGood
  BY <1>1 DEF Init, RowsGood, RowGood, Tracking, Deployed, Monotonic
<1> QED BY <1>5, <1>6, <1>7 DEF DeployInv

LEMMA DeployStep == DeployInv /\ [Next]_vars => DeployInv'
  BY TypeStep, ChainStep, RowsStep DEF DeployInv

\* Only the commit of a retry can overtake.
LEMMA OvertakenStep ==
    ASSUME TypeInv, Chain, [Next]_vars
    PROVE  UNCHANGED overtaken \/ \E r \in reads : r.msg.kind = "retry" /\ Overtakes(r)
<1>1. CASE AnyRead
  BY <1>1, ReadSteps DEF TypeInv, ReadStep
<1>2. CASE Service
  BY <1>2 DEF Service, OnRecoveryPlanned, OnSelectionRequested, Tick, Expire, Select,
     OnActionRequired, Dispatch, CreatePr, EndPr, LoseWebhook, RunEnds
<1>3. ASSUME NEW r \in reads,
             RejectedCommit(r) \/ CreatedCommit(r) \/ FailedCommit(r) \/ RejectCommit(r)
             \/ MergeCommit(r) \/ RefuseMerge(r) \/ Abort(r)
      PROVE  UNCHANGED overtaken
  BY <1>3 DEF RejectedCommit, CreatedCommit, FailedCommit, RejectCommit, MergeCommit,
     RefuseMerge, Abort
<1>4. ASSUME NEW r \in reads, StartCommit(r) \/ RunFailedCommit(r) \/ EvidenceCommit(r)
      PROVE  UNCHANGED overtaken
  BY <1>4 DEF StartCommit, RunFailedCommit, EvidenceCommit
<1>5. ASSUME NEW r \in reads,
             RetryDeploy(r) \/ RetryVerification(r) \/ \E i \in Sel : RetrySafePr(r, i)
      PROVE  r.msg.kind = "retry" /\ Overtakes(r)
  BY <1>5 DEF RetryDeploy, RetryVerification, RetrySafePr
<1>6. CASE UNCHANGED vars
  BY <1>6 DEF vars
<1> QED BY <1>1, <1>2, <1>3, <1>4, <1>5, <1>6, NextCases DEF Commit

\* Every variable keeps its type, and the incident is resolved at most once,
\* however late and in whatever order the handlers commit.
THEOREM TypeCorrect == Spec => []TypeOK
<1>1. Init => overtaken \in BOOLEAN
  BY DEF Init
<1>2. DeployInv /\ overtaken \in BOOLEAN /\ [Next]_vars => (overtaken \in BOOLEAN)'
  <2> SUFFICES ASSUME DeployInv, overtaken \in BOOLEAN, [Next]_vars
               PROVE  overtaken' \in BOOLEAN
    OBVIOUS
  <2>1. UNCHANGED overtaken \/ \E r \in reads : Overtakes(r)
    BY OvertakenStep DEF DeployInv
  <2> QED BY <2>1 DEF Overtakes
<1>3. DeployInv /\ overtaken \in BOOLEAN => TypeOK
  BY DEF DeployInv, TypeInv, PlanTypes, TypeOK
<1> QED BY <1>1, <1>2, <1>3, DeployInit, DeployStep, PTL DEF Spec

\* The incident is resolved if and only if the plan is completed: no late
\* commit, webhook or retry takes a completed plan back or resolves it again.
THEOREM OutcomeIsTold == Spec => []OutcomeTold
<1>1. DeployInv => OutcomeTold
  BY DEF DeployInv, TypeInv
<1> QED BY <1>1, DeployInit, DeployStep, PTL DEF Spec

\* What is verified was merged and its run has succeeded, although every
\* handler writes back a whole lifecycle it read before.
THEOREM DeployedIsVerified == Spec => []VerifiesDeployed
<1>1. DeployInv => VerifiesDeployed
  BY DEF DeployInv, RowsGood, RowGood, Tracking, Deployed, VerifiesDeployed
<1> QED BY <1>1, DeployInit, DeployStep, PTL DEF Spec

-----------------------------------------------------------------------------
(* The verification *)

\* A step that judges no window leaves what was judged, and writes a pending
\* row only with a count that starts again.
Unjudged ==
    /\ UNCHANGED seen
    /\ row'.status = "verification_pending" => row' = row \/ row'.life.since = 0
    /\ row'.status = "completed" => row' = row
    /\ row.status = "completed" => row' = row

\* Of a commit that judges no window.
LEMMA UnjudgedSaves ==
    ASSUME NEW r, NEW expected, NEW status, NEW action, NEW life, NEW S,
           Saves(r, expected, status, action, life, S), UNCHANGED seen,
           expected # "completed", status # "completed",
           status = "verification_pending" => life.since = 0
    PROVE  Unjudged
  BY SavesCases DEF Unjudged

LEMMA UnjudgedReopen ==
    ASSUME row \in Rows, NEW action, Reopen(action), UNCHANGED seen
    PROVE  Unjudged
  BY ReopenRow DEF Unjudged

LEMMA UnjudgedStep ==
    ASSUME TypeInv, Chain, [Next]_vars, ~ \E r \in reads : EvidenceCommit(r)
    PROVE  Unjudged
<1>a. row \in Rows
  BY DEF TypeInv, PlanTypes
<1>1. CASE AnyRead
  BY <1>1, ReadSteps DEF TypeInv, ReadStep, Unjudged
<1>2. CASE OnRecoveryPlanned
  <2>1. AutoActions \subseteq Actions
    BY DEF Actions
  <2> QED BY <1>a, <1>2, <2>1, UpsertRow DEF OnRecoveryPlanned, Unjudged
<1>3. CASE OnSelectionRequested
  BY <1>a, <1>3, UpsertRow DEF OnSelectionRequested, Unjudged
<1>4. CASE Tick
  BY <1>4 DEF Tick, Unjudged
<1>5. CASE Expire
  <2>1. row.status = "verification_pending" /\ row'.status = "failed" /\ UNCHANGED seen
    BY <1>a, <1>5 DEF Expire, Rows
  <2> QED BY <2>1 DEF Unjudged
<1>6. ASSUME NEW a \in Actions, NEW i \in Sel, Select(a, i) PROVE Unjudged
  BY <1>6 DEF Select, Unjudged
<1>7. ASSUME NEW a \in PrActions, OnActionRequired(a) PROVE Unjudged
  BY <1>a, <1>7, UnjudgedReopen DEF OnActionRequired
<1>8. ASSUME NEW i \in Sel, Dispatch(i) \/ CreatePr(i) \/ EndPr(i) PROVE Unjudged
  BY <1>8 DEF Dispatch, CreatePr, EndPr, Unjudged
<1>9. ASSUME NEW m \in msgs, LoseWebhook(m) PROVE Unjudged
  BY <1>9 DEF LoseWebhook, Unjudged
<1>10. ASSUME NEW n \in Runs, RunEnds(n) PROVE Unjudged
  BY <1>10 DEF RunEnds, Unjudged
<1>11. ASSUME NEW r \in reads, RejectedCommit(r) \/ CreatedCommit(r) PROVE Unjudged
  BY <1>a, <1>11, UnjudgedReopen, UnjudgedSaves DEF RejectedCommit, CreatedCommit
<1>12. ASSUME NEW r \in reads,
              FailedCommit(r) \/ MergeCommit(r) \/ RejectCommit(r) \/ RunFailedCommit(r)
       PROVE  Unjudged
  BY <1>12, UnjudgedSaves DEF FailedCommit, MergeCommit, RejectCommit, RunFailedCommit
<1>13. ASSUME NEW r \in reads, StartCommit(r) PROVE Unjudged
  <2> DEFINE life == [r.row.life EXCEPT !.start = r.at, !.since = 0]
  <2>1. r.row.life \in Lives
    BY ReadFacts DEF TypeInv
  <2>2. life.since = 0
    BY <2>1 DEF Lives
  <2>3. /\ Saves(r, "deploy_pending", "verification_pending", row.action, life, {})
        /\ UNCHANGED seen
    BY <1>13 DEF StartCommit
  <2> HIDE DEF life
  <2> QED BY <2>2, <2>3, UnjudgedSaves
<1>14. ASSUME NEW r \in reads, NEW i \in Sel, RetrySafePr(r, i) PROVE Unjudged
  BY <1>14, UnjudgedSaves DEF RetrySafePr
<1>15. ASSUME NEW r \in reads, RetryDeploy(r) PROVE Unjudged
  BY <1>15, UnjudgedSaves DEF RetryDeploy
<1>16. ASSUME NEW r \in reads, RetryVerification(r) PROVE Unjudged
  <2> DEFINE v == r.row.life
             life == [v EXCEPT !.why = "none", !.retry = @ + 1, !.start = r.at, !.since = 0,
                               !.last = 0, !.count = 0, !.key = 0]
  <2>1. v \in Lives
    BY ReadFacts DEF TypeInv
  <2>2. life.since = 0
    BY <2>1 DEF Lives
  <2>3. /\ Saves(r, "failed", "verification_pending", row.action, life, {})
        /\ UNCHANGED seen
    BY <1>16 DEF RetryVerification
  <2> HIDE DEF life
  <2> QED BY <2>2, <2>3, UnjudgedSaves
<1>17. ASSUME NEW r \in reads, RefuseMerge(r) \/ Abort(r) PROVE Unjudged
  BY <1>17 DEF RefuseMerge, Abort, Unjudged
<1>18. CASE UNCHANGED vars
  BY <1>18 DEF vars, Unjudged
<1> QED BY <1>1, <1>2, <1>3, <1>4, <1>5, <1>6, <1>7, <1>8, <1>9, <1>10, <1>11, <1>12,
           <1>13, <1>14, <1>15, <1>16, <1>17, <1>18, NextCases DEF Service, Commit

\* Only the first half of a handler adds a copy, of a kind that no other
\* handler is busy with.
LEMMA ReadsShrink ==
    ASSUME [Next]_vars, ~AnyRead
    PROVE  reads' \subseteq reads
<1>1. CASE OnRecoveryPlanned \/ OnSelectionRequested \/ Tick \/ Expire
  BY <1>1 DEF OnRecoveryPlanned, OnSelectionRequested, Tick, Expire
<1>2. ASSUME NEW a \in Actions, NEW i \in Sel, Select(a, i) PROVE reads' \subseteq reads
  BY <1>2 DEF Select
<1>3. ASSUME NEW a \in PrActions, OnActionRequired(a) PROVE reads' \subseteq reads
  BY <1>3 DEF OnActionRequired
<1>4. ASSUME NEW i \in Sel, Dispatch(i) \/ CreatePr(i) \/ EndPr(i) PROVE reads' \subseteq reads
  BY <1>4 DEF Dispatch, CreatePr, EndPr
<1>5. ASSUME NEW m \in msgs, LoseWebhook(m) PROVE reads' \subseteq reads
  BY <1>5 DEF LoseWebhook
<1>6. ASSUME NEW n \in Runs, RunEnds(n) PROVE reads' \subseteq reads
  BY <1>6 DEF RunEnds
<1>7. ASSUME NEW r \in reads, Commit(r) PROVE reads' \subseteq reads
  BY <1>7, CommitEnds
<1>8. ASSUME NEW r \in reads, Abort(r) PROVE reads' \subseteq reads
  BY <1>8 DEF Abort
<1>9. CASE UNCHANGED vars
  BY <1>9 DEF vars
<1> QED BY <1>1, <1>2, <1>3, <1>4, <1>5, <1>6, <1>7, <1>8, <1>9, NextCases DEF Service

LEMMA OneStep ==
    ASSUME TypeInv, Chain, OnePerKind, [Next]_vars
    PROVE  OnePerKind'
<1>1. CASE AnyRead
  <2>1. PICK m \in Msgs : ReadStep(m)
    BY <1>1, ReadSteps DEF TypeInv
  <2> DEFINE new == [msg |-> m, row |-> row, at |-> now]
  <2>2. /\ new.msg = m
        /\ \A r \in reads : r.msg.kind = m.kind => m.kind = "retry" /\ r.msg # m
    BY <2>1 DEF ReadStep
  <2>3. reads' \subseteq reads \cup {new}
    BY <2>1 DEF ReadStep
  <2> HIDE DEF new
  <2> QED BY <2>2, <2>3 DEF OnePerKind
<1>2. CASE ~AnyRead
  BY <1>2, ReadsShrink DEF OnePerKind
<1> QED BY <1>1, <1>2

\* What is known of the windows after window t was judged.
Noted(s, v, t, h) ==
    IF t # v.key /\ t >= v.start THEN [s EXCEPT ![t] = IF h THEN "healthy" ELSE "bad"] ELSE s

\* A judgement keeps the count true: a healthy window is counted on only if
\* it follows the last one, and a verdict needs the full stretch.
LEMMA EvaluateStretch ==
    ASSUME NEW s \in [Times -> {"none", "healthy", "bad"}], NEW v \in Lives, NEW t \in Times,
           t # 0, NEW h \in BOOLEAN, NEW at \in Times, Stretch(v, s)
    PROVE  /\ Stretch(Evaluate(v, t, h, at).life, Noted(s, v, t, h))
           /\ Evaluate(v, t, h, at).status = "completed" =>
                  /\ Evaluate(v, t, h, at).life.since # 0
                  /\ Evaluate(v, t, h, at).life.last - Evaluate(v, t, h, at).life.since
                         >= MinSeconds
<1> DEFINE d == Evaluate(v, t, h, at)
           u == Noted(s, v, t, h)
           broken == v.last # 0 /\ (t <= v.last \/ 2 * (t - v.last) > 3)
           since == IF broken \/ v.since = 0 THEN t ELSE v.since
<1>b. v.since \in Times /\ v.last \in Times /\ v.key \in Times /\ v.start \in Times
  BY DEF Lives
<1>a. /\ t \in Nat /\ v.since \in Nat /\ v.last \in Nat /\ v.key \in Nat /\ v.start \in Nat
      /\ MinSeconds \in Nat
  BY <1>b, RecoveryPlanAssumption DEF Times
<1> SUFFICES /\ Stretch(d.life, u)
             /\ d.status = "completed" =>
                    d.life.since # 0 /\ d.life.last - d.life.since >= MinSeconds
  OBVIOUS
<1>1. CASE t = v.key \/ t < v.start
  <2>1. d = [status |-> "verification_pending", life |-> v]
    BY <1>1 DEF Evaluate
  <2>2. u = s
    BY <1>1, <1>a, <1>b DEF Noted
  <2> HIDE DEF d, u
  <2> QED BY <2>1, <2>2
<1>2. CASE ~(t = v.key \/ t < v.start) /\ ~h
  <2>1. /\ d.life = [v EXCEPT !.since = 0, !.last = 0, !.count = 0, !.key = t]
        /\ d.status # "completed"
    BY <1>2 DEF Evaluate
  <2>2. d.life.since = 0
    <3> HIDE DEF d
    <3> QED BY <2>1 DEF Lives
  <2> HIDE DEF d, u
  <2> QED BY <2>1, <2>2 DEF Stretch
<1>3. CASE ~(t = v.key \/ t < v.start) /\ h
  <2>1. PICK c : d.life = [v EXCEPT !.since = since, !.last = t, !.count = c, !.key = t]
    BY <1>3 DEF Evaluate
  <2>2. d.status = "completed" => t - since >= MinSeconds
    BY <1>3 DEF Evaluate
  <2>3. u = [s EXCEPT ![t] = "healthy"]
    BY <1>3, <1>a, <1>b DEF Noted
  <2>4. \/ since = t
        \/ since = v.since /\ since # 0 /\ t = v.last + 1
    <3>1. CASE broken \/ v.since = 0
      BY <3>1
    <3>2. CASE ~broken /\ v.since # 0
      <4>1. v.since <= v.last
        BY <3>2 DEF Stretch
      <4>2. v.last # 0
        BY <1>a, <1>b, <3>2, <4>1
      <4>3. t = v.last + 1
        BY <1>a, <1>b, <3>2, <4>2
      <4> QED BY <3>2, <4>3
    <3> QED BY <3>1, <3>2
  <2>5. d.life.since = since /\ d.life.last = t
    <3> HIDE DEF d, since
    <3> QED BY <2>1 DEF Lives
  <2> HIDE DEF d, u, since, broken
  <2>6. since # 0 /\ since \in Nat /\ since <= t
    <3>1. CASE since = t
      BY <1>a, <3>1
    <3>2. CASE since = v.since /\ since # 0 /\ t = v.last + 1
      BY <1>a, <1>b, <3>2 DEF Stretch
    <3> QED BY <2>4, <3>1, <3>2
  <2>7. ASSUME NEW w \in since..t PROVE u[w] = "healthy"
    <3>1. CASE w = t
      BY <2>3, <3>1
    <3>2. CASE w # t
      <4>1. w \in v.since..v.last
        BY <1>a, <1>b, <2>4, <2>6, <3>2
      <4>2. s[w] = "healthy" /\ w \in Times
        <5>1. v.since # 0
          BY <2>4, <2>6, <1>a, <3>2
        <5>2. s[w] = "healthy"
          BY <4>1, <5>1 DEF Stretch
        <5>3. w \in Times
          BY <1>b, <4>1, RecoveryPlanAssumption DEF Times
        <5> QED BY <5>2, <5>3
      <4> QED BY <2>3, <3>2, <4>2
    <3> QED BY <3>1, <3>2
  <2> QED BY <2>2, <2>5, <2>6, <2>7 DEF Stretch
<1> QED BY <1>1, <1>2, <1>3

LEMMA JudgedStep ==
    ASSUME DeployInv, OnePerKind, Judged, CompletedStable, [Next]_vars
    PROVE  Judged' /\ CompletedStable'
<1>a. TypeInv /\ Chain /\ RowsGood /\ row \in Rows
      /\ seen \in [Times -> {"none", "healthy", "bad"}]
  BY DEF DeployInv, TypeInv, PlanTypes
<1>1. ASSUME NEW r \in reads, EvidenceCommit(r) PROVE Judged' /\ CompletedStable'
  <2> DEFINE t == r.msg.id
             v == r.row.life
             d(h) == Evaluate(v, t, h, r.at)
             life(h) == [d(h).life EXCEPT !.why = IF d(h).status = "failed" THEN "expired"
                                                  ELSE "none"]
             saved == row.status = "verification_pending"
             judged(h) == Noted(seen, v, t, h)
  <2>1. PICK h \in BOOLEAN :
           /\ Saves(r, "verification_pending", d(h).status, row.action, life(h), {})
           /\ seen' = IF saved /\ t # v.key /\ t >= v.start
                      THEN [seen EXCEPT ![t] = IF h THEN "healthy" ELSE "bad"]
                      ELSE seen
    BY <1>1 DEF EvidenceCommit
  <2>2. /\ r.msg \in Msgs /\ r.row.life \in Lives /\ r.at \in Times
    BY <1>a, ReadFacts DEF TypeInv
  <2>3. r.msg.kind = "evidence" /\ Relevant(r.msg, r.row)
    BY <1>a, <1>1 DEF EvidenceCommit, RowsGood
  <2>4. t \in Times /\ t # 0
    BY <2>2, <2>3, MsgId DEF Relevant
  <2>5. Stretch(v, seen)
    BY <2>3 DEF Judged
  <2>6. /\ Stretch(d(h).life, judged(h)) /\ d(h).life \in Lives
        /\ d(h).status = "completed" =>
               d(h).life.since # 0 /\ d(h).life.last - d(h).life.since >= MinSeconds
    <3>1. d(h).life \in Lives
      BY <2>2, <2>4, EvaluateType
    <3>2. /\ Stretch(d(h).life, judged(h))
          /\ d(h).status = "completed" =>
                 d(h).life.since # 0 /\ d(h).life.last - d(h).life.since >= MinSeconds
      <4>1. seen \in [Times -> {"none", "healthy", "bad"}]
        BY <1>a
      <4>2. v \in Lives
        BY <2>2
      <4>3. r.at \in Times
        BY <2>2
      <4>4. t \in Times
        BY <2>4
      <4>5. t # 0
        BY <2>4
      <4> HIDE DEF t, v
      <4> QED BY <2>5, <4>1, <4>2, <4>3, <4>4, <4>5, EvaluateStretch, ZenonT(30)
    <3> QED BY <3>1, <3>2
  <2>7. reads' = reads \ {r}
    BY <2>1, SavesCases
  <2>8. \A q \in reads' : q.msg.kind # "evidence"
    BY <2>3, <2>7 DEF OnePerKind
  <2>9. CASE saved
    <3>1. seen' = judged(h)
      BY <2>1, <2>9 DEF Noted
    <3> HIDE DEF d, judged
    <3>2. life(h).since = d(h).life.since /\ life(h).last = d(h).life.last
      BY <2>6 DEF Lives
    <3>3. row'.status = d(h).status /\ row'.life = life(h)
      BY <2>1, <2>9, SavesCases
    <3> HIDE DEF life
    <3>4. Stretch(row'.life, seen')
      BY <2>6, <3>1, <3>2, <3>3 DEF Stretch
    <3>5. Judged'
      BY <2>8, <3>4 DEF Judged
    <3>6. CompletedStable'
      BY <2>6, <3>2, <3>3, <3>4 DEF CompletedStable, Stretch
    <3> QED BY <3>5, <3>6
  <2>10. CASE ~saved
    <3>1. UNCHANGED <<row, seen>>
      BY <2>1, <2>10, SavesCases
    <3> QED BY <2>8, <3>1 DEF Judged, CompletedStable
  <2> QED BY <2>9, <2>10
<1>2. CASE ~ \E r \in reads : EvidenceCommit(r)
  <2>1. Unjudged
    BY <1>2, <1>a, UnjudgedStep
  <2>2. CompletedStable'
    BY <2>1 DEF Unjudged, CompletedStable
  <2>3. row'.status = "verification_pending" => Stretch(row'.life, seen')
    BY <2>1 DEF Unjudged, Judged, Stretch
  <2>4. ASSUME NEW r \in reads', r.msg.kind = "evidence" PROVE Stretch(r.row.life, seen')
    <3>1. CASE r \in reads
      BY <2>1, <2>4, <3>1 DEF Unjudged, Judged
    <3>2. CASE r \notin reads
      <4>1. AnyRead
        BY <3>2, ReadsShrink
      <4>2. PICK m \in Msgs : ReadStep(m)
        BY <1>a, <4>1, ReadSteps DEF TypeInv
      <4>3. r = [msg |-> m, row |-> row, at |-> now] /\ Relevant(m, row)
        BY <3>2, <4>2 DEF ReadStep
      <4>4. r.row = row /\ row.status = "verification_pending"
        BY <2>4, <4>3 DEF Relevant
      <4> QED BY <2>1, <4>4 DEF Judged, Unjudged
    <3> QED BY <3>1, <3>2
  <2> QED BY <2>2, <2>3, <2>4 DEF Judged
<1> QED BY <1>1, <1>2

LEMMA StableInvInit == Init => StableInv
<1> SUFFICES ASSUME Init PROVE StableInv
  OBVIOUS
<1>1. DeployInv
  BY DeployInit
<1>2. OnePerKind /\ Judged /\ CompletedStable
  BY DEF Init, OnePerKind, Judged, CompletedStable
<1> QED BY <1>1, <1>2 DEF StableInv

LEMMA StableInvStep == StableInv /\ [Next]_vars => StableInv'
<1> SUFFICES ASSUME StableInv, [Next]_vars PROVE StableInv'
  OBVIOUS
<1>1. DeployInv'
  BY DeployStep DEF StableInv
<1>2. OnePerKind'
  BY OneStep DEF StableInv, DeployInv
<1>3. Judged' /\ CompletedStable'
  BY JudgedStep DEF StableInv
<1> QED BY <1>1, <1>2, <1>3 DEF StableInv

\* A recovery that counts as verified was healthy in every window of an
\* unbroken stretch of minimum_seconds, as each window was judged last; late,
\* doubled and missing windows and stale copies of the count do not matter.
THEOREM CompletedIsStable == Spec => []CompletedStable
<1>1. StableInv => CompletedStable
  BY DEF StableInv
<1> QED BY <1>1, StableInvInit, StableInvStep, PTL DEF Spec

-----------------------------------------------------------------------------
(* What a step may never do *)

\* The step MergedStays allows.
Merged(s) == s \in {"deploy_pending", "verification_pending", "completed"}
Onward == Merged(row.status) =>
              row'.status \notin {"selection_requested", "selected", "pr_open"}

LEMMA OnwardSaves ==
    ASSUME NEW r, NEW expected, NEW status, NEW action, NEW life, NEW S,
           Saves(r, expected, status, action, life, S),
           Merged(expected) => status \notin {"selection_requested", "selected", "pr_open"}
    PROVE  Onward
  BY SavesCases DEF Onward, Merged

LEMMA OnwardStep ==
    ASSUME TypeInv, Chain, [Next]_vars
    PROVE  Onward
<1>a. row \in Rows
  BY DEF TypeInv, PlanTypes
<1>1. CASE AnyRead
  BY <1>1, ReadSteps DEF TypeInv, ReadStep, Onward, Merged
<1>2. CASE OnRecoveryPlanned
  <2>1. AutoActions \subseteq Actions
    BY DEF Actions
  <2> QED BY <1>a, <1>2, <2>1, UpsertRow DEF OnRecoveryPlanned, Onward, Merged
<1>3. CASE OnSelectionRequested
  BY <1>a, <1>3, UpsertRow DEF OnSelectionRequested, Onward, Merged
<1>4. CASE Tick
  BY <1>4 DEF Tick, Onward, Merged
<1>5. CASE Expire
  <2>1. row'.status = "failed"
    BY <1>a, <1>5 DEF Expire, Rows
  <2> QED BY <2>1 DEF Onward
<1>6. ASSUME NEW a \in Actions, NEW i \in Sel, Select(a, i) PROVE Onward
  BY <1>6 DEF Select, Onward, Merged
<1>7. ASSUME NEW a \in PrActions, OnActionRequired(a) PROVE Onward
  BY <1>a, <1>7, ReopenRow DEF OnActionRequired, Onward, Merged
<1>8. ASSUME NEW i \in Sel, Dispatch(i) \/ CreatePr(i) \/ EndPr(i) PROVE Onward
  BY <1>8 DEF Dispatch, CreatePr, EndPr, Onward, Merged
<1>9. ASSUME NEW m \in msgs, LoseWebhook(m) PROVE Onward
  BY <1>9 DEF LoseWebhook, Onward, Merged
<1>10. ASSUME NEW n \in Runs, RunEnds(n) PROVE Onward
  BY <1>10 DEF RunEnds, Onward, Merged
<1>11. ASSUME NEW r \in reads, RejectedCommit(r) PROVE Onward
  BY <1>a, <1>11, ReopenRow DEF RejectedCommit, Onward, Merged
<1>12. ASSUME NEW r \in reads, CreatedCommit(r) PROVE Onward
  <2>1. CASE Reopen(r.row.action)
    BY <1>a, <2>1, ReopenRow DEF Onward, Merged
  <2>2. ASSUME NEW life, Saves(r, "selected", "pr_open", row.action, life, {}) PROVE Onward
    BY <2>2, OnwardSaves DEF Merged
  <2> QED BY <1>12, <2>1, <2>2 DEF CreatedCommit
<1>13. ASSUME NEW r \in reads, FailedCommit(r) \/ MergeCommit(r) \/ RejectCommit(r)
       PROVE  Onward
  BY <1>13, OnwardSaves DEF FailedCommit, MergeCommit, RejectCommit, Merged
<1>14. ASSUME NEW r \in reads, StartCommit(r) \/ RunFailedCommit(r) PROVE Onward
  BY <1>14, OnwardSaves DEF StartCommit, RunFailedCommit, Merged
<1>15. ASSUME NEW r \in reads, EvidenceCommit(r) PROVE Onward
  <2> DEFINE d(h) == Evaluate(r.row.life, r.msg.id, h, r.at)
             life(h) == [d(h).life EXCEPT !.why = IF d(h).status = "failed" THEN "expired"
                                                  ELSE "none"]
  <2>1. PICK h \in BOOLEAN :
            Saves(r, "verification_pending", d(h).status, row.action, life(h), {})
    BY <1>15 DEF EvidenceCommit
  <2>2. r.msg \in Msgs /\ r.row.life \in Lives /\ r.at \in Times
    BY ReadFacts DEF TypeInv
  <2>3. r.msg.id \in Times
    BY <1>15, <2>2, MsgId DEF EvidenceCommit
  <2>4. d(h).status \in {"verification_pending", "completed", "failed"}
    BY <2>2, <2>3, EvaluateType
  <2> HIDE DEF d, life
  <2> QED BY <2>1, <2>4, OnwardSaves
<1>16. ASSUME NEW r \in reads, NEW i \in Sel, RetrySafePr(r, i) PROVE Onward
  BY <1>16, OnwardSaves DEF RetrySafePr, Merged
<1>17. ASSUME NEW r \in reads, RetryDeploy(r) \/ RetryVerification(r) PROVE Onward
  BY <1>17, OnwardSaves DEF RetryDeploy, RetryVerification
<1>18. ASSUME NEW r \in reads, RefuseMerge(r) \/ Abort(r) PROVE Onward
  BY <1>18 DEF RefuseMerge, Abort, Onward, Merged
<1>19. CASE UNCHANGED vars
  BY <1>19 DEF vars, Onward, Merged
<1> QED BY <1>1, <1>2, <1>3, <1>4, <1>5, <1>6, <1>7, <1>8, <1>9, <1>10, <1>11, <1>12,
           <1>13, <1>14, <1>15, <1>16, <1>17, <1>18, <1>19, NextCases
        DEF Service, Commit

\* While a merged change is deployed or verified, and once the plan is completed,
\* no late rejection, refusal or webhook opens the selection again.
THEOREM MergedIsFinal == Spec => MergedStays
<1>1. DeployInv /\ [Next]_vars =>
          [row.status \in {"deploy_pending", "verification_pending", "completed"} =>
               row'.status \notin {"selection_requested", "selected", "pr_open"}]_vars
  BY OnwardStep DEF DeployInv, Onward, Merged
<1> QED BY <1>1, DeployInit, DeployStep, PTL DEF Spec, MergedStays

\* A completed plan is never written again, and neither is what was judged.
THEOREM CompletedIsFinal ==
    Spec => [][row.status = "completed" => UNCHANGED <<row, seen>>]_<<row, seen>>
<1>1. DeployInv /\ [Next]_vars =>
          [row.status = "completed" => UNCHANGED <<row, seen>>]_<<row, seen>>
  <2> SUFFICES ASSUME DeployInv, [Next]_vars, row.status = "completed"
               PROVE  UNCHANGED <<row, seen>>
    OBVIOUS
  <2>1. ASSUME NEW r \in reads, EvidenceCommit(r) PROVE UNCHANGED <<row, seen>>
    BY <2>1 DEF EvidenceCommit, Saves
  <2>2. CASE ~ \E r \in reads : EvidenceCommit(r)
    BY <2>2, UnjudgedStep DEF DeployInv, Unjudged
  <2> QED BY <2>1, <2>2
<1> QED BY <1>1, DeployInit, DeployStep, PTL DEF Spec

-----------------------------------------------------------------------------
(* The runs that deploy *)

\* A run that is under way, or whose failure the plan has not heard of, is
\* the one the plan waits for; a run that succeeded is the last one, and a
\* plan that was not merged has none.
Awaited(n) ==
    /\ runs[n] = "running" \/ Msg("run_failed", n) \in msgs => Deploys(n)
    /\ Msg("run_failed", n) \in msgs => runs[n] = "failed"
    /\ runs[n] = "succeeded" =>
           row.life.run = n /\ (Deployed(row) \/ row.status = "deploy_pending")
    /\ runs[n] # "none" => Tracking(row)

\* The report of a failed run waits for its handler.
Held(r) == r.msg.kind = "run_failed" => r.msg \in msgs

\* The runs of a change start one after the other: the change is merged, and
\* every run before the last one has failed.
InTurn ==
    \A n \in Runs : runs[n] # "none" =>
        /\ prs[n[1]] = "merged"
        /\ \A m \in Runs : m[1] = n[1] /\ m[2] < n[2] => runs[m] = "failed"

AllAwaited == \A n \in Runs : Awaited(n)
AllHeld == \A r \in reads : Held(r)
AwaitInv == DeployInv /\ OnePerKind /\ AllHeld /\ InTurn /\ (overtaken \/ AllAwaited)

LEMMA MsgSelf ==
    ASSUME NEW m \in Msgs PROVE m = Msg(m.kind, m.id)
  BY DEF Msgs, Msg

\* The events of the runs that a step which ends no run leaves: none is new,
\* and one that a handler holds stays until that handler commits.
Unreported ==
    /\ \A n \in Runs : Msg("run_failed", n) \in msgs' => Msg("run_failed", n) \in msgs
    /\ \A r \in reads \cap reads' :
           r.msg.kind = "run_failed" /\ r.msg \in msgs => r.msg \in msgs'

\* The events of a handler that commits.
LEMMA EndsUnreported ==
    ASSUME OnePerKind, NEW r \in reads, NEW S, Ends(r, S), \A q \in S : q.kind # "run_failed"
    PROVE  Unreported
<1>1. \A q \in reads \cap reads' : q.msg.kind = "run_failed" => q.msg # r.msg
  BY DEF Ends, OnePerKind
<1>2. \A n \in Runs : Msg("run_failed", n) \notin S
  BY MsgFields
<1> QED BY <1>1, <1>2 DEF Ends, Unreported

LEMMA SavesUnreported ==
    ASSUME OnePerKind, NEW r \in reads, NEW expected, NEW status, NEW action, NEW life,
           NEW S, Saves(r, expected, status, action, life, S), \A q \in S : q.kind # "run_failed"
    PROVE  Unreported
<1>1. Ends(r, S) \/ Ends(r, {})
  BY DEF Saves
<1> QED BY <1>1, EndsUnreported

LEMMA CommitUnreported ==
    ASSUME OnePerKind, NEW r \in reads, Commit(r)
    PROVE  Unreported
<1>1. CASE RejectedCommit(r) \/ RefuseMerge(r)
  BY <1>1, EndsUnreported DEF RejectedCommit, RefuseMerge
<1>2. CASE CreatedCommit(r)
  <2>1. ASSUME NEW life, Saves(r, "selected", "pr_open", row.action, life, {}) PROVE Unreported
    BY <2>1, SavesUnreported
  <2>2. CASE Ends(r, {})
    BY <2>2, EndsUnreported
  <2> QED BY <1>2, <2>1, <2>2 DEF CreatedCommit
<1>3. CASE FailedCommit(r) \/ RejectCommit(r)
  BY <1>3, SavesUnreported DEF FailedCommit, RejectCommit
<1>4. CASE MergeCommit(r)
  BY <1>4, SavesUnreported, MsgFields DEF MergeCommit
<1>5. CASE StartCommit(r) \/ RunFailedCommit(r)
  BY <1>5, SavesUnreported DEF StartCommit, RunFailedCommit
<1>6. CASE EvidenceCommit(r)
  BY <1>6, SavesUnreported DEF EvidenceCommit
<1>7. CASE RetryDeploy(r) \/ RetryVerification(r)
  BY <1>7, SavesUnreported DEF RetryDeploy, RetryVerification
<1>8. ASSUME NEW i \in Sel, RetrySafePr(r, i) PROVE Unreported
  BY <1>8, SavesUnreported, MsgFields DEF RetrySafePr
<1> QED BY <1>1, <1>2, <1>3, <1>4, <1>5, <1>6, <1>7, <1>8 DEF Commit

LEMMA UnreportedStep ==
    ASSUME TypeInv, Chain, OnePerKind, [Next]_vars, ~ \E n \in Runs : RunEnds(n)
    PROVE  Unreported
<1>1. CASE AnyRead
  <2>1. PICK m \in Msgs : ReadStep(m)
    BY <1>1, ReadSteps DEF TypeInv
  <2> QED BY <2>1 DEF ReadStep, Unreported
<1>a. ASSUME \A q \in msgs' : q \in msgs \/ q.kind # "run_failed",
             \A q \in msgs : q \in msgs' \/ q.kind # "run_failed"
      PROVE  Unreported
  BY <1>a, MsgFields DEF Unreported
<1>2. CASE OnRecoveryPlanned
  <2>1. PICK m \in {Msg("requested", 0), Msg("selected", 1)} :
            msgs' = (msgs \ {Msg("planned", 0)}) \cup {m}
    BY <1>2 DEF OnRecoveryPlanned
  <2>2. m.kind # "run_failed" /\ Msg("planned", 0).kind # "run_failed"
    BY MsgFields
  <2> QED BY <1>a, <2>1, <2>2
<1>3. CASE OnSelectionRequested
  <2>1. msgs' = (msgs \ {Msg("requested", 0)}) \cup {}
    BY <1>3 DEF OnSelectionRequested
  <2>2. Msg("requested", 0).kind # "run_failed"
    BY MsgFields
  <2> QED BY <1>a, <2>1, <2>2
<1>4. CASE Tick \/ Expire
  BY <1>4 DEF Tick, Expire, Unreported
<1>5. ASSUME NEW a \in Actions, NEW i \in Sel, Select(a, i) PROVE Unreported
  BY <1>5, MsgFields DEF Select, Unreported
<1>6. ASSUME NEW a \in PrActions, OnActionRequired(a) PROVE Unreported
  BY <1>6 DEF OnActionRequired, Unreported
<1>7. ASSUME NEW i \in Sel, Dispatch(i) PROVE Unreported
  <2>1. PICK S \in {{}, {Msg(IF sels[i] \in PrActions THEN "pr_requested" ELSE "rejected", i)}} :
            msgs' = (msgs \ {Msg("selected", i)}) \cup S
    BY <1>7 DEF Dispatch
  <2>2. Msg("selected", i).kind # "run_failed" /\ \A q \in S : q.kind # "run_failed"
    BY MsgFields
  <2> QED BY <1>a, <2>1, <2>2
<1>8. ASSUME NEW i \in Sel, CreatePr(i) PROVE Unreported
  <2>1. PICK k \in {"created", "failed"} :
            msgs' = (msgs \ {Msg("pr_requested", i)}) \cup {Msg(k, i)}
    BY <1>8 DEF CreatePr
  <2>2. Msg("pr_requested", i).kind # "run_failed" /\ Msg(k, i).kind # "run_failed"
    BY MsgFields
  <2> QED BY <1>a, <2>1, <2>2
<1>9. ASSUME NEW i \in Sel, EndPr(i) PROVE Unreported
  <2>1. PICK k \in {"pr_merged", "pr_rejected"} : msgs' = msgs \cup {Msg(k, i)}
    BY <1>9 DEF EndPr
  <2> QED BY <2>1, MsgFields DEF Unreported
<1>10. ASSUME NEW m \in msgs, LoseWebhook(m) PROVE Unreported
  <2>1. m.kind # "run_failed" /\ msgs' = (msgs \ {m}) \cup {}
    BY <1>10 DEF LoseWebhook, Webhooks
  <2> QED BY <1>a, <2>1
<1>11. ASSUME NEW r \in reads, Commit(r) PROVE Unreported
  BY <1>11, CommitUnreported
<1>12. ASSUME NEW r \in reads, Abort(r) PROVE Unreported
  BY <1>12 DEF Abort, Unreported
<1>13. CASE UNCHANGED vars
  BY <1>13 DEF vars, Unreported
<1> QED BY <1>1, <1>2, <1>3, <1>4, <1>5, <1>6, <1>7, <1>8, <1>9, <1>10, <1>11, <1>12,
           <1>13, NextCases DEF Service

\* The steps that start, end or judge a deployment.
Deploying ==
    \/ Expire \/ \E n \in Runs : RunEnds(n)
    \/ \E r \in reads :
           \/ MergeCommit(r) \/ StartCommit(r) \/ RunFailedCommit(r) \/ EvidenceCommit(r)
           \/ RetryDeploy(r) \/ RetryVerification(r) \/ \E i \in Sel : RetrySafePr(r, i)

\* The others leave the runs, and a row that is merged or has failed.
Calm ==
    /\ UNCHANGED runs
    /\ row' = row \/ row.status \in {"none", "selection_requested", "selected", "pr_open"}

LEMMA CalmStep ==
    ASSUME TypeInv, Chain, [Next]_vars, ~Deploying
    PROVE  Calm
<1>a. row \in Rows
  BY DEF TypeInv, PlanTypes
<1>1. CASE AnyRead
  BY <1>1, ReadSteps DEF TypeInv, ReadStep, Calm
<1>2. CASE OnRecoveryPlanned
  <2>1. AutoActions \subseteq Actions
    BY DEF Actions
  <2> QED BY <1>a, <1>2, <2>1, UpsertRow DEF OnRecoveryPlanned, Calm
<1>3. CASE OnSelectionRequested
  BY <1>a, <1>3, UpsertRow DEF OnSelectionRequested, Calm
<1>4. CASE Tick
  BY <1>4 DEF Tick, Calm
<1>5. ASSUME NEW a \in Actions, NEW i \in Sel, Select(a, i) PROVE Calm
  BY <1>5 DEF Select, Calm
<1>6. ASSUME NEW a \in PrActions, OnActionRequired(a) PROVE Calm
  BY <1>a, <1>6, ReopenRow DEF OnActionRequired, Calm
<1>7. ASSUME NEW i \in Sel, Dispatch(i) \/ CreatePr(i) \/ EndPr(i) PROVE Calm
  BY <1>7 DEF Dispatch, CreatePr, EndPr, Calm
<1>8. ASSUME NEW m \in msgs, LoseWebhook(m) PROVE Calm
  BY <1>8 DEF LoseWebhook, Calm
<1>9. ASSUME NEW r \in reads, RejectedCommit(r) PROVE Calm
  BY <1>a, <1>9, ReopenRow DEF RejectedCommit, Calm
<1>10. ASSUME NEW r \in reads, CreatedCommit(r) PROVE Calm
  <2>1. UNCHANGED runs
    BY <1>10 DEF CreatedCommit
  <2>2. CASE Reopen(r.row.action)
    BY <1>a, <2>1, <2>2, ReopenRow DEF Calm
  <2>3. ASSUME NEW life, Saves(r, "selected", "pr_open", row.action, life, {}) PROVE Calm
    BY <2>1, <2>3, SavesCases DEF Calm
  <2> QED BY <1>10, <2>2, <2>3 DEF CreatedCommit
<1>11. ASSUME NEW r \in reads, FailedCommit(r) \/ RejectCommit(r) PROVE Calm
  BY <1>11, SavesCases DEF FailedCommit, RejectCommit, Calm
<1>12. ASSUME NEW r \in reads, RefuseMerge(r) \/ Abort(r) PROVE Calm
  BY <1>12 DEF RefuseMerge, Abort, Calm
<1>13. CASE UNCHANGED vars
  BY <1>13 DEF vars, Calm
<1> QED BY <1>1, <1>2, <1>3, <1>4, <1>5, <1>6, <1>7, <1>8, <1>9, <1>10, <1>11, <1>12,
           <1>13, NextCases DEF Service, Commit, Deploying

\* A plan that is not merged has no run, and a plan without a run is told of
\* none.
LEMMA NoRuns ==
    ASSUME AllAwaited, ~Tracking(row), NEW n \in Runs
    PROVE  runs[n] = "none" /\ Msg("run_failed", n) \notin msgs
  BY DEF AllAwaited, Awaited

\* A plan with a run that succeeded has no other that matters.
LEMMA OneSuccess ==
    ASSUME AllAwaited, NEW k \in Runs, runs[k] = "succeeded"
    PROVE  /\ row.life.run = k
           /\ \A n \in Runs : /\ runs[n] # "running" /\ Msg("run_failed", n) \notin msgs
                              /\ runs[n] = "succeeded" => n = k
  BY DEF AllAwaited, Awaited, Deploys

\* A step after which the plan knows of the run that succeeded.
LEMMA SettledRuns ==
    ASSUME AllAwaited, NEW k \in Runs, runs[k] = "succeeded", UNCHANGED runs, Unreported,
           Deployed(row'), row'.life.run = k
    PROVE  AllAwaited'
<1> SUFFICES ASSUME NEW n \in Runs PROVE Awaited(n)'
  BY DEF AllAwaited
<1>1. /\ runs'[n] # "running" /\ Msg("run_failed", n) \notin msgs'
      /\ runs'[n] = "succeeded" => n = k
  BY OneSuccess DEF Unreported
<1>2. Tracking(row')
  BY DEF Tracking, Deployed
<1> QED BY <1>1, <1>2 DEF Awaited

\* A step that leaves the runs of a merged plan alone.
LEMMA CalmRuns ==
    ASSUME AllAwaited, Calm, Unreported
    PROVE  AllAwaited'
<1> SUFFICES ASSUME NEW n \in Runs PROVE Awaited(n)'
  BY DEF AllAwaited
<1>1. CASE row' = row
  <2>1. Awaited(n)
    BY DEF AllAwaited
  <2>2. Msg("run_failed", n) \in msgs' => Msg("run_failed", n) \in msgs
    BY DEF Unreported
  <2>3. runs' = runs
    BY DEF Calm
  <2> QED BY <1>1, <2>1, <2>2, <2>3 DEF Awaited, Deploys, Tracking, Deployed
<1>2. CASE row.status \in {"none", "selection_requested", "selected", "pr_open"}
  <2>1. ~Tracking(row)
    BY <1>2 DEF Tracking
  <2>2. runs'[n] = "none" /\ Msg("run_failed", n) \notin msgs'
    BY <2>1, NoRuns DEF Unreported, Calm
  <2> QED BY <2>2 DEF Awaited
<1> QED BY <1>1, <1>2 DEF Calm

LEMMA HeldStep ==
    ASSUME AwaitInv, [Next]_vars
    PROVE  AllHeld'
<1>a. TypeInv /\ Chain /\ RowsGood /\ OnePerKind
  BY DEF AwaitInv, DeployInv
<1> SUFFICES ASSUME NEW r \in reads' PROVE Held(r)'
  BY DEF AllHeld
<1>1. CASE r \notin reads
  <2>1. AnyRead
    BY <1>1, ReadsShrink
  <2>2. PICK m \in Msgs : ReadStep(m)
    BY <1>a, <2>1, ReadSteps DEF TypeInv
  <2>3. /\ r = [msg |-> m, row |-> row, at |-> now]
        /\ UNCHANGED <<row, msgs>> /\ (m.kind = "run_failed" => m \in msgs)
    BY <1>1, <2>2 DEF ReadStep
  <2>4. r.msg = m /\ r.row = row
    BY <2>3
  <2> QED BY <2>3, <2>4 DEF Held
<1>2. CASE r \in reads
  <2>1. Held(r)
    BY <1>2 DEF AwaitInv, AllHeld
  <2>3. ASSUME r.msg.kind = "run_failed" PROVE r.msg \in msgs'
    <3>1. r.msg \in msgs
      BY <2>1, <2>3 DEF Held
    <3>2. ASSUME NEW n \in Runs, RunEnds(n) PROVE r.msg \in msgs'
      BY <3>1, <3>2 DEF RunEnds
    <3>3. CASE ~ \E n \in Runs : RunEnds(n)
      BY <1>a, <1>2, <2>3, <3>1, <3>3, UnreportedStep DEF Unreported
    <3> QED BY <3>2, <3>3
  <2> QED BY <2>3 DEF Held
<1> QED BY <1>1, <1>2

\* A step that starts no run.
LEMMA TurnStays ==
    ASSUME InTurn, Stable, UNCHANGED runs
    PROVE  InTurn'
  BY RunOfPr DEF InTurn, Stable

\* A step that starts run k of a merged change whose runs before k have failed.
LEMMA TurnStarts ==
    ASSUME TypeInv, InTurn, Stable, NEW k \in Runs, prs[k[1]] = "merged", runs[k] = "none",
           \A m \in Runs : m[1] = k[1] /\ m[2] < k[2] => runs[m] = "failed",
           runs' = [runs EXCEPT ![k] = "running"]
    PROVE  InTurn'
<1>a. runs \in [Runs -> {"none", "running", "succeeded", "failed"}]
  BY DEF TypeInv, PlanTypes
<1> SUFFICES ASSUME NEW n \in Runs, runs'[n] # "none"
             PROVE  /\ prs'[n[1]] = "merged"
                    /\ \A m \in Runs : m[1] = n[1] /\ m[2] < n[2] => runs'[m] = "failed"
  BY DEF InTurn
<1>1. /\ prs[n[1]] = "merged"
      /\ \A m \in Runs : m[1] = n[1] /\ m[2] < n[2] => runs[m] = "failed"
  BY <1>a DEF InTurn
<1>2. prs'[n[1]] = "merged"
  BY <1>1, RunOfPr DEF Stable
<1>3. \A m \in Runs : runs[m] = "failed" => runs'[m] = "failed"
  BY <1>a
<1> QED BY <1>1, <1>2, <1>3

\* A run of a merged change is started by the merge or by the retry of a run
\* that failed, whether or not the plan is the one the retry has read.
LEMMA TurnMerge ==
    ASSUME TypeInv, Chain, RowsGood, InTurn, Stable, NEW r \in reads, MergeCommit(r)
    PROVE  InTurn'
<1> DEFINE n == <<r.msg.id, 0>>
<1>1. /\ r.msg.kind = "pr_merged"
      /\ \/ UNCHANGED runs
         \/ runs[n] = "none" /\ runs' = [runs EXCEPT ![n] = "running"]
  BY DEF MergeCommit
<1>2. r.msg.id \in Sel /\ prs[r.msg.id] = "merged"
  <2>1. r.msg \in Msgs /\ Relevant(r.msg, r.row)
    BY ReadFacts DEF TypeInv, RowsGood
  <2> QED BY <1>1, <2>1, MsgId DEF Relevant, Webhooks
<1>3. n \in Runs /\ n[1] = r.msg.id /\ n[2] = 0
  BY <1>2, RecoveryPlanAssumption DEF Runs
<1>4. \A m \in Runs : ~(m[2] < 0)
  BY RecoveryPlanAssumption DEF Runs
<1> HIDE DEF n
<1> QED BY <1>1, <1>2, <1>3, <1>4, TurnStays, TurnStarts

LEMMA TurnRetry ==
    ASSUME TypeInv, Chain, RowsGood, InTurn, Stable, NEW r \in reads, RetryDeploy(r)
    PROVE  InTurn'
<1> DEFINE k == r.row.life.run
           n == <<k[1], k[2] + 1>>
<1>1. /\ r.msg.kind = "retry" /\ r.row.life.why = "deploy" /\ n \in Runs
      /\ runs[k] = "failed"
      /\ \/ UNCHANGED runs
         \/ runs[n] = "none" /\ runs' = [runs EXCEPT ![n] = "running"]
  BY DEF RetryDeploy
<1>2. k \in Runs
  <2>1. Relevant(r.msg, r.row) /\ RowGood(r.row)
    BY DEF RowsGood
  <2> QED BY <1>1, <2>1 DEF Relevant, RowGood, Tracking
<1>3. /\ prs[k[1]] = "merged"
      /\ \A m \in Runs : m[1] = k[1] /\ m[2] < k[2] => runs[m] = "failed"
  BY <1>1, <1>2 DEF InTurn
<1>4. n[1] = k[1] /\ n[2] = k[2] + 1
  OBVIOUS
<1> HIDE DEF n, k
<1>5. \A m \in Runs : m[1] = n[1] /\ m[2] < n[2] => runs[m] = "failed"
  <2> SUFFICES ASSUME NEW m \in Runs, m[1] = k[1], m[2] < k[2] + 1 PROVE runs[m] = "failed"
    BY <1>4
  <2>1. m[2] \in Nat /\ k[2] \in Nat /\ m = <<m[1], m[2]>> /\ k = <<k[1], k[2]>>
    BY <1>2, RecoveryPlanAssumption DEF Runs
  <2>2. m[2] < k[2] \/ m = k
    BY <2>1
  <2> QED BY <1>1, <1>3, <2>2
<1> QED BY <1>1, <1>3, <1>4, <1>5, TurnStays, TurnStarts

\* A run that ends is the last one of its change.
LEMMA TurnEnd ==
    ASSUME TypeInv, InTurn, NEW k \in Runs, RunEnds(k)
    PROVE  InTurn'
<1>a. runs \in [Runs -> {"none", "running", "succeeded", "failed"}]
  BY DEF TypeInv, PlanTypes
<1>1. runs[k] = "running" /\ UNCHANGED prs /\ \E to : runs' = [runs EXCEPT ![k] = to]
  BY DEF RunEnds
<1> SUFFICES ASSUME NEW n \in Runs, runs'[n] # "none"
             PROVE  /\ prs'[n[1]] = "merged"
                    /\ \A m \in Runs : m[1] = n[1] /\ m[2] < n[2] => runs'[m] = "failed"
  BY DEF InTurn
<1>2. runs[n] # "none"
  BY <1>a, <1>1
<1>3. /\ prs[n[1]] = "merged"
      /\ \A m \in Runs : m[1] = n[1] /\ m[2] < n[2] => runs[m] = "failed"
  BY <1>2 DEF InTurn
<1>4. \A m \in Runs : runs[m] = "failed" => runs'[m] = "failed"
  BY <1>a, <1>1
<1> QED BY <1>1, <1>3, <1>4

LEMMA TurnStep ==
    ASSUME TypeInv, Chain, RowsGood, InTurn, [Next]_vars
    PROVE  InTurn'
<1>a. Stable
  BY StableStep
<1>1. CASE ~Deploying
  BY <1>a, <1>1, CalmStep, TurnStays DEF Calm
<1>2. CASE Expire
  BY <1>a, <1>2, TurnStays DEF Expire
<1>3. ASSUME NEW n \in Runs, RunEnds(n) PROVE InTurn'
  BY <1>3, TurnEnd
<1>4. ASSUME NEW r \in reads, MergeCommit(r) PROVE InTurn'
  BY <1>a, <1>4, TurnMerge
<1>5. ASSUME NEW r \in reads, RetryDeploy(r) PROVE InTurn'
  BY <1>a, <1>5, TurnRetry
<1>6. ASSUME NEW r \in reads, StartCommit(r) \/ RunFailedCommit(r) \/ RetryVerification(r)
      PROVE  InTurn'
  BY <1>a, <1>6, TurnStays DEF StartCommit, RunFailedCommit, RetryVerification
<1>7. ASSUME NEW r \in reads, EvidenceCommit(r) PROVE InTurn'
  BY <1>a, <1>7, TurnStays DEF EvidenceCommit
<1>8. ASSUME NEW r \in reads, NEW i \in Sel, RetrySafePr(r, i) PROVE InTurn'
  BY <1>a, <1>8, TurnStays DEF RetrySafePr
<1> QED BY <1>1, <1>2, <1>3, <1>4, <1>5, <1>6, <1>7, <1>8 DEF Deploying

\* A commit that does not find the status it expects changes no run.
LEMMA MissedRuns ==
    ASSUME AllAwaited, Unreported, UNCHANGED <<row, runs>>
    PROVE  AllAwaited'
  BY CalmRuns DEF Calm

\* The pull request is merged: its run is the first.
LEMMA AwaitMerge ==
    ASSUME AwaitInv, AllAwaited, [Next]_vars, NEW r \in reads, MergeCommit(r)
    PROVE  AllAwaited'
<1> DEFINE n == <<r.msg.id, 0>>
           life == [r.row.life EXCEPT !.run = n]
<1>a. TypeInv /\ Chain /\ RowsGood /\ OnePerKind /\ AllAwaited
      /\ runs \in [Runs -> {"none", "running", "succeeded", "failed"}]
  BY DEF AwaitInv, DeployInv, TypeInv, PlanTypes
<1>b. r.row.life \in Lives
  BY <1>a, ReadFacts DEF TypeInv
<1>1. /\ Saves(r, "pr_open", "deploy_pending", row.action, life, {Msg("merged", n)})
      /\ runs' = IF row.status = "pr_open" /\ runs[n] = "none"
                 THEN [runs EXCEPT ![n] = "running"] ELSE runs
  BY DEF MergeCommit
<1>2. life.run = n
  BY <1>b DEF Lives
<1>3. Unreported
  BY <1>a, CommitUnreported DEF Commit
<1> HIDE DEF life, n
<1>4. CASE row.status # "pr_open"
  BY <1>a, <1>1, <1>3, <1>4, SavesCases, MissedRuns
<1>5. CASE row.status = "pr_open"
  <2>1. row'.status = "deploy_pending" /\ row'.life.run = n
    BY <1>1, <1>2, <1>5, SavesCases
  <2> SUFFICES ASSUME NEW m \in Runs PROVE Awaited(m)'
    BY DEF AllAwaited
  <2>2. runs[m] = "none" /\ Msg("run_failed", m) \notin msgs'
    BY <1>a, <1>3, <1>5, NoRuns DEF Tracking, Unreported
  <2>3. IF m = n THEN runs'[m] = "running" ELSE runs'[m] = "none"
    BY <1>a, <1>1, <1>5, <2>2
  <2> QED BY <2>1, <2>2, <2>3 DEF Awaited, Deploys, Tracking
<1> QED BY <1>4, <1>5

\* A run ends: the plan still waits for it.
LEMMA AwaitEnd ==
    ASSUME AwaitInv, AllAwaited, NEW n \in Runs, RunEnds(n)
    PROVE  AllAwaited'
<1>a. AllAwaited /\ runs \in [Runs -> {"none", "running", "succeeded", "failed"}]
  BY DEF AwaitInv, DeployInv, TypeInv, PlanTypes
<1>1. /\ runs[n] = "running" /\ UNCHANGED row
      /\ \E to \in {"succeeded", "failed"} :
            /\ runs' = [runs EXCEPT ![n] = to]
            /\ msgs' = msgs \cup {Msg(IF to = "failed" THEN "run_failed" ELSE "completed", n)}
  BY DEF RunEnds
<1>2. Deploys(n)
  BY <1>a, <1>1 DEF AllAwaited, Awaited
<1> SUFFICES ASSUME NEW m \in Runs PROVE Awaited(m)'
  BY DEF AllAwaited
<1>3. Awaited(m)
  BY <1>a DEF AllAwaited
<1>4. CASE m = n
  <2>1. PICK to \in {"succeeded", "failed"} :
            /\ runs' = [runs EXCEPT ![n] = to]
            /\ msgs' = msgs \cup {Msg(IF to = "failed" THEN "run_failed" ELSE "completed", n)}
    BY <1>1
  <2>2. runs'[m] = to
    BY <1>a, <1>4, <2>1
  <2>3. Msg("run_failed", m) \notin msgs
    BY <1>1, <1>3, <1>4 DEF Awaited
  <2>4. Msg("run_failed", m) \in msgs' => to = "failed"
    BY <2>1, <2>3, MsgEqual
  <2> QED BY <1>1, <1>2, <1>4, <2>2, <2>4 DEF Awaited, Deploys, Tracking
<1>5. CASE m # n
  <2>1. runs'[m] = runs[m]
    BY <1>a, <1>1, <1>5
  <2>2. Msg("run_failed", m) \in msgs' => Msg("run_failed", m) \in msgs
    BY <1>1, <1>5, MsgEqual
  <2> QED BY <1>1, <1>3, <2>1, <2>2 DEF Awaited, Deploys, Tracking, Deployed
<1> QED BY <1>4, <1>5

\* The verification starts: the run it starts on is the one that succeeded.
LEMMA AwaitStart ==
    ASSUME AwaitInv, AllAwaited, NEW r \in reads, StartCommit(r)
    PROVE  AllAwaited'
<1> DEFINE life == [r.row.life EXCEPT !.start = r.at, !.since = 0]
<1>a. TypeInv /\ RowsGood /\ OnePerKind /\ AllAwaited
  BY DEF AwaitInv, DeployInv
<1>b. r.row.life \in Lives /\ r.msg \in Msgs
  BY <1>a, ReadFacts DEF TypeInv
<1>1. /\ Saves(r, "deploy_pending", "verification_pending", row.action, life, {})
      /\ UNCHANGED runs
  BY DEF StartCommit
<1>2. r.row.life.run = r.msg.id /\ runs[r.msg.id] = "succeeded" /\ r.msg.id \in Runs
  BY <1>a, <1>b, MsgId DEF StartCommit, RowsGood, Relevant
<1>3. life.run = r.msg.id
  BY <1>b, <1>2 DEF Lives
<1>4. Unreported
  BY <1>a, CommitUnreported DEF Commit
<1> HIDE DEF life
<1>5. CASE row.status # "deploy_pending"
  BY <1>a, <1>1, <1>4, <1>5, SavesCases, MissedRuns
<1>6. CASE row.status = "deploy_pending"
  <2>1. row'.status = "verification_pending" /\ row'.life.run = r.msg.id
    BY <1>1, <1>3, <1>6, SavesCases
  <2>2. Deployed(row')
    BY <2>1 DEF Deployed
  <2> QED BY <1>a, <1>1, <1>2, <1>4, <2>1, <2>2, SettledRuns
<1> QED BY <1>5, <1>6

\* The run failed: it is the one the plan waits for, and its report is gone
\* once the plan has failed with it.
LEMMA AwaitFailure ==
    ASSUME AwaitInv, AllAwaited, NEW r \in reads, RunFailedCommit(r)
    PROVE  AllAwaited'
<1> DEFINE life == [r.row.life EXCEPT !.why = "deploy"]
           k == r.msg.id
<1>a. TypeInv /\ RowsGood /\ OnePerKind /\ AllAwaited /\ Held(r)
  BY DEF AwaitInv, DeployInv, AllHeld
<1>b. r.row.life \in Lives /\ r.msg \in Msgs /\ r.msg.kind = "run_failed"
  BY <1>a, ReadFacts DEF TypeInv, RunFailedCommit
<1>1. /\ Saves(r, "deploy_pending", "failed", row.action, life, {})
      /\ UNCHANGED runs
  BY DEF RunFailedCommit
<1>2. k \in Runs /\ r.msg = Msg("run_failed", k) /\ r.msg \in msgs
  BY <1>a, <1>b, MsgId, MsgSelf DEF Held
<1>3. Deploys(k) /\ runs[k] = "failed"
  BY <1>a, <1>2 DEF AllAwaited, Awaited
<1>4. life.why = "deploy"
  BY <1>b DEF Lives
<1>5. Ends(r, {})
  BY <1>1 DEF Saves
<1> HIDE DEF life, k
<1>6. row'.status = "failed" /\ row'.life.why = "deploy"
  BY <1>1, <1>3, <1>4, SavesCases DEF Deploys
<1> SUFFICES ASSUME NEW n \in Runs PROVE Awaited(n)'
  BY DEF AllAwaited
<1>7. Awaited(n)
  BY <1>a DEF AllAwaited
<1>8. runs'[n] # "running" /\ runs'[n] # "succeeded"
  BY <1>1, <1>3, <1>7 DEF Awaited, Deploys
<1>9. Msg("run_failed", n) \notin msgs'
  <2>1. CASE n = k
    BY <1>2, <1>5, <2>1 DEF Ends
  <2>2. CASE n # k
    BY <1>3, <1>5, <1>7, <2>2 DEF Ends, Awaited, Deploys
  <2> QED BY <2>1, <2>2
<1> QED BY <1>6, <1>8, <1>9 DEF Awaited, Tracking

\* A window is judged: the copy that the handler read is of the run that
\* succeeded.
LEMMA AwaitEvidence ==
    ASSUME AwaitInv, AllAwaited, NEW r \in reads, EvidenceCommit(r)
    PROVE  AllAwaited'
<1> DEFINE d(h) == Evaluate(r.row.life, r.msg.id, h, r.at)
           life(h) == [d(h).life EXCEPT !.why = IF d(h).status = "failed" THEN "expired"
                                                ELSE "none"]
           k == r.row.life.run
<1>a. TypeInv /\ RowsGood /\ OnePerKind /\ AllAwaited
  BY DEF AwaitInv, DeployInv
<1>b. r.row.life \in Lives /\ r.msg \in Msgs /\ r.at \in Times
  BY <1>a, ReadFacts DEF TypeInv
<1>1. PICK h \in BOOLEAN :
          Saves(r, "verification_pending", d(h).status, row.action, life(h), {})
  BY DEF EvidenceCommit
<1>2. UNCHANGED runs
  BY DEF EvidenceCommit
<1>3. r.row.status = "verification_pending" /\ r.msg.id \in Times
  BY <1>a, <1>b, MsgId DEF EvidenceCommit, RowsGood, Relevant
<1>4. k \in Runs /\ runs[k] = "succeeded"
  BY <1>a, <1>3 DEF RowsGood, RowGood, Tracking, Deployed
<1>5. /\ d(h).life.run = k /\ d(h).life \in Lives
      /\ d(h).status \in {"verification_pending", "completed", "failed"}
  BY <1>b, <1>3, EvaluateKeeps, EvaluateType
<1> HIDE DEF d, k
<1>6. life(h).run = k /\ (d(h).status = "failed" => life(h).why = "expired")
  BY <1>5 DEF Lives
<1>7. Unreported
  BY <1>a, CommitUnreported DEF Commit
<1> HIDE DEF life
<1>8. CASE row.status # "verification_pending"
  BY <1>a, <1>1, <1>2, <1>7, <1>8, SavesCases, MissedRuns
<1>9. CASE row.status = "verification_pending"
  <2>1. row'.status = d(h).status /\ row'.life = life(h)
    BY <1>1, <1>9, SavesCases
  <2>2. Deployed(row') /\ row'.life.run = k
    BY <1>5, <1>6, <2>1 DEF Deployed
  <2> QED BY <1>a, <1>2, <1>4, <1>7, <2>2, SettledRuns
<1> QED BY <1>8, <1>9

LEMMA AwaitExpire ==
    ASSUME AwaitInv, AllAwaited, Expire
    PROVE  AllAwaited'
<1>a. RowsGood /\ AllAwaited /\ row \in Rows
  BY DEF AwaitInv, DeployInv, TypeInv, PlanTypes
<1>1. /\ row.status = "verification_pending"
      /\ row' = [row EXCEPT !.status = "failed", !.life.why = "expired"]
      /\ UNCHANGED <<runs, msgs, reads>>
  BY DEF Expire
<1>2. row.life \in Lives
  BY <1>a DEF Rows
<1>3. row'.status = "failed" /\ row'.life = [row.life EXCEPT !.why = "expired"]
  BY <1>a, <1>1 DEF Rows
<1>4. row'.life.run = row.life.run /\ row'.life.why = "expired"
  BY <1>2, <1>3 DEF Lives
<1>5. row.life.run \in Runs /\ runs[row.life.run] = "succeeded"
  BY <1>a, <1>1 DEF RowsGood, RowGood, Tracking, Deployed
<1>6. Unreported
  BY <1>1 DEF Unreported
<1>7. Deployed(row')
  BY <1>3, <1>4 DEF Deployed
<1> QED BY <1>a, <1>1, <1>4, <1>5, <1>6, <1>7, SettledRuns

\* A retry that does not overtake finds the row it read: one of the Safe PR has
\* no run, one of the deployment only runs that failed, one of the verification
\* the run that succeeded.
LEMMA AwaitRetry ==
    ASSUME AwaitInv, AllAwaited, ~overtaken', NEW r \in reads,
           RetryDeploy(r) \/ RetryVerification(r) \/ \E i \in Sel : RetrySafePr(r, i)
    PROVE  AllAwaited'
<1>a. /\ TypeInv /\ RowsGood /\ OnePerKind /\ AllAwaited /\ row \in Rows
      /\ runs \in [Runs -> {"none", "running", "succeeded", "failed"}]
  BY DEF AwaitInv, DeployInv, TypeInv, PlanTypes
<1>c. Unreported
  BY <1>a, CommitUnreported DEF Commit
<1>0. CASE row.status # "failed"
  <2>1. UNCHANGED <<row, runs>>
    BY <1>0, SavesCases DEF RetryDeploy, RetryVerification, RetrySafePr
  <2> QED BY <1>a, <1>c, <2>1, MissedRuns
<1>9. CASE row.status = "failed"
  <2>b. r.row = row /\ row.life \in Lives
    <3>1. Overtakes(r)
      BY DEF RetryDeploy, RetryVerification, RetrySafePr
    <3>2. r.row = row
      BY <1>9, <3>1 DEF Overtakes
    <3> QED BY <1>a, <3>2 DEF Rows
  <2>1. CASE RetryDeploy(r)
    <3> DEFINE v == row.life
               n == <<v.run[1], v.run[2] + 1>>
               life == [v EXCEPT !.run = n, !.why = "none", !.start = 0, !.since = 0,
                                 !.last = 0, !.count = 0, !.key = 0]
    <3>1. /\ v.why = "deploy" /\ n \in Runs
          /\ Saves(r, "failed", "deploy_pending", row.action, life, {})
          /\ runs' = IF row.status = "failed" /\ runs[n] = "none"
                     THEN [runs EXCEPT ![n] = "running"] ELSE runs
      BY <1>9, <2>b, <2>1 DEF RetryDeploy
    <3> HIDE DEF n
    <3>2. life.run = n
      BY <2>b DEF Lives
    <3> HIDE DEF life
    <3>3. row'.status = "deploy_pending" /\ row'.life.run = n
      BY <1>9, <3>1, <3>2, SavesCases
    <3> SUFFICES ASSUME NEW m \in Runs PROVE Awaited(m)'
      BY DEF AllAwaited
    <3>4. /\ runs[m] # "running" /\ runs[m] # "succeeded"
          /\ Msg("run_failed", m) \notin msgs'
      BY <1>a, <1>c, <1>9, <3>1 DEF AllAwaited, Awaited, Deploys, Deployed, Unreported
    <3>5. runs'[m] = runs[m] \/ (m = n /\ runs'[m] = "running")
      BY <1>a, <3>1
    <3> QED BY <3>3, <3>4, <3>5 DEF Awaited, Deploys, Tracking
  <2>2. CASE RetryVerification(r)
    <3> DEFINE v == row.life
               life == [v EXCEPT !.why = "none", !.retry = @ + 1, !.start = r.at, !.since = 0,
                                 !.last = 0, !.count = 0, !.key = 0]
    <3>1. /\ v.why = "expired" /\ runs[v.run] = "succeeded" /\ UNCHANGED runs
          /\ Saves(r, "failed", "verification_pending", row.action, life, {})
      BY <1>9, <2>b, <2>2 DEF RetryVerification
    <3>2. life.run = v.run
      BY <2>b DEF Lives
    <3> HIDE DEF life
    <3>3. row'.status = "verification_pending" /\ row'.life.run = v.run
      BY <1>9, <3>1, <3>2, SavesCases
    <3>4. v.run \in Runs /\ Deployed(row')
      BY <1>a, <1>9, <3>1, <3>3 DEF RowsGood, RowGood, Tracking, Deployed
    <3> QED BY <1>a, <1>c, <3>1, <3>3, <3>4, SettledRuns
  <2>3. ASSUME NEW i \in Sel, RetrySafePr(r, i) PROVE AllAwaited'
    <3>1. row.life.why = "safe_pr" /\ UNCHANGED runs
      BY <1>9, <2>b, <2>3 DEF RetrySafePr
    <3>2. ~Tracking(row)
      BY <1>9, <3>1 DEF Tracking
    <3> SUFFICES ASSUME NEW m \in Runs PROVE Awaited(m)'
      BY DEF AllAwaited
    <3>3. runs'[m] = "none" /\ Msg("run_failed", m) \notin msgs'
      BY <1>a, <1>c, <3>1, <3>2, NoRuns DEF Unreported
    <3> QED BY <3>3 DEF Awaited
  <2> QED BY <2>1, <2>2, <2>3
<1> QED BY <1>0, <1>9

LEMMA AwaitInvInit == Init => AwaitInv
<1> SUFFICES ASSUME Init PROVE AwaitInv
  OBVIOUS
<1>1. DeployInv
  BY DeployInit
<1>2. OnePerKind /\ AllHeld /\ InTurn
  BY DEF Init, OnePerKind, AllHeld, InTurn
<1>3. AllAwaited
  <2> SUFFICES ASSUME NEW n \in Runs PROVE Awaited(n)
    BY DEF AllAwaited
  <2>1. runs[n] = "none" /\ Msg("run_failed", n) \notin msgs
    BY MsgEqual DEF Init
  <2> QED BY <2>1 DEF Awaited
<1> QED BY <1>1, <1>2, <1>3 DEF AwaitInv

LEMMA AwaitInvStep == AwaitInv /\ [Next]_vars => AwaitInv'
<1> SUFFICES ASSUME AwaitInv, [Next]_vars PROVE AwaitInv'
  OBVIOUS
<1>a. TypeInv /\ Chain /\ RowsGood /\ OnePerKind /\ InTurn
  BY DEF AwaitInv, DeployInv
<1>1. DeployInv' /\ OnePerKind' /\ AllHeld' /\ InTurn'
  BY <1>a, DeployStep, OneStep, HeldStep, TurnStep DEF AwaitInv
<1>2. ASSUME ~overtaken' PROVE AllAwaited'
  <2>1. ~overtaken
    BY <1>a, <1>2, OvertakenStep DEF Overtakes
  <2>2. AllAwaited
    BY <2>1 DEF AwaitInv
  <2>3. CASE ~Deploying
    <3>1. Calm
      BY <1>a, <2>3, CalmStep
    <3>2. Unreported
      BY <1>a, <2>3, UnreportedStep DEF Deploying
    <3> QED BY <2>2, <3>1, <3>2, CalmRuns
  <2>4. CASE Deploying
    BY <1>2, <2>2, <2>4, AwaitMerge, AwaitEnd, AwaitStart, AwaitFailure, AwaitEvidence,
       AwaitExpire, AwaitRetry DEF Deploying
  <2> QED BY <2>3, <2>4
<1> QED BY <1>1, <1>2 DEF AwaitInv

\* A run that is under way deploys a merged change and is the only one of that
\* change that has not failed, for any number of selections, of retries and of
\* retry requests served together; and no retry, late report or late verification
\* leaves it behind the plan's back, unless a retry took effect on a plan that was
\* not the one its request had read.
THEOREM RunIsAwaited == Spec => []RunAwaited
<1>1. AwaitInv => RunAwaited
  <2> SUFFICES ASSUME AwaitInv, NEW n \in Runs, runs[n] = "running"
               PROVE  /\ prs[n[1]] = "merged"
                      /\ \A m \in Runs \ {n} : m[1] = n[1] => runs[m] \in {"none", "failed"}
                      /\ overtaken \/ Deploys(n)
    BY DEF RunAwaited
  <2>1. prs[n[1]] = "merged"
    BY DEF AwaitInv, InTurn
  <2>2. ASSUME NEW m \in Runs \ {n}, m[1] = n[1] PROVE runs[m] \in {"none", "failed"}
    <3>1. m[2] \in Nat /\ n[2] \in Nat /\ m = <<m[1], m[2]>> /\ n = <<n[1], n[2]>>
      BY RecoveryPlanAssumption DEF Runs
    <3>2. m[2] < n[2] \/ n[2] < m[2]
      BY <2>2, <3>1
    <3>3. m[2] < n[2] => runs[m] = "failed"
      BY <2>2 DEF AwaitInv, InTurn
    <3>4. n[2] < m[2] => runs[m] = "none"
      BY <2>2 DEF AwaitInv, InTurn
    <3> QED BY <3>2, <3>3, <3>4
  <2>3. overtaken \/ Deploys(n)
    BY DEF AwaitInv, AllAwaited, Awaited
  <2> QED BY <2>1, <2>2, <2>3
<1> QED BY <1>1, AwaitInvInit, AwaitInvStep, PTL DEF Spec

\* A plan that failed waits for its retry.
LEMMA FailedWaits ==
    ASSUME TypeInv, Chain, [Next]_vars, row.status = "failed"
    PROVE  \/ row' = row
           \/ \E r \in reads : r.msg.kind = "retry" /\ r \notin reads'
<1>1. CASE ~Deploying
  BY <1>1, CalmStep DEF Calm
<1>2. CASE Expire
  BY <1>2 DEF Expire
<1>3. ASSUME NEW n \in Runs, RunEnds(n) PROVE row' = row
  BY <1>3 DEF RunEnds
<1>4. ASSUME NEW r \in reads, MergeCommit(r) \/ StartCommit(r) \/ RunFailedCommit(r)
      PROVE  row' = row
  BY <1>4, SavesCases DEF MergeCommit, StartCommit, RunFailedCommit
<1>5. ASSUME NEW r \in reads, EvidenceCommit(r) PROVE row' = row
  BY <1>5 DEF EvidenceCommit, Saves
<1>6. ASSUME NEW r \in reads, RetryDeploy(r) \/ RetryVerification(r)
      PROVE  r.msg.kind = "retry" /\ r \notin reads'
  BY <1>6, SavesCases DEF RetryDeploy, RetryVerification
<1>7. ASSUME NEW r \in reads, NEW i \in Sel, RetrySafePr(r, i)
      PROVE  r.msg.kind = "retry" /\ r \notin reads'
  BY <1>7, SavesCases DEF RetrySafePr
<1> QED BY <1>1, <1>2, <1>3, <1>4, <1>5, <1>6, <1>7 DEF Deploying

\* Of requests that are served one at a time there is one retry.
LEMMA OneRetry ==
    ASSUME MaxRequests <= 1, TypeInv, OnePerKind, NEW r \in reads, NEW q \in reads,
           r.msg.kind = "retry", q.msg.kind = "retry"
    PROVE  r = q
<1>1. r.msg \in Msgs /\ q.msg \in Msgs
  BY DEF TypeInv, PlanTypes
<1>2. r.msg.id = 1 /\ q.msg.id = 1
  BY <1>1, MsgId, RecoveryPlanAssumption DEF Requests
<1>3. r.msg = q.msg
  BY <1>1, <1>2, MsgSelf
<1> QED BY <1>3 DEF OnePerKind

\* The copy of a retry is the row as it is.
Fresh == \A r \in reads : r.msg.kind = "retry" => r.row = row

LEMMA FreshStep ==
    ASSUME MaxRequests <= 1, DeployInv, OnePerKind, Fresh, [Next]_vars
    PROVE  Fresh' /\ (~overtaken => ~overtaken')
<1>a. TypeInv /\ Chain /\ RowsGood
  BY DEF DeployInv
<1>1. ~overtaken => ~overtaken'
  <2>1. ASSUME NEW r \in reads, r.msg.kind = "retry", Overtakes(r)
        PROVE  ~overtaken => ~overtaken'
    BY <2>1 DEF Overtakes, Fresh
  <2> QED BY <1>a, <2>1, OvertakenStep
<1>2. ASSUME NEW r \in reads', r.msg.kind = "retry" PROVE r.row = row'
  <2>1. CASE r \notin reads
    <3>1. AnyRead
      BY <2>1, ReadsShrink
    <3>2. PICK m \in Msgs : ReadStep(m)
      BY <1>a, <3>1, ReadSteps DEF TypeInv
    <3>3. r = [msg |-> m, row |-> row, at |-> now] /\ UNCHANGED row
      BY <2>1, <3>2 DEF ReadStep
    <3> QED BY <3>3
  <2>2. CASE r \in reads
    <3>1. r.row = row /\ row.status = "failed"
      BY <1>a, <1>2, <2>2 DEF Fresh, RowsGood, Relevant
    <3>2. CASE \E q \in reads : q.msg.kind = "retry" /\ q \notin reads'
      BY <1>a, <1>2, <2>2, <3>2, OneRetry
    <3> QED BY <1>a, <3>1, <3>2, FailedWaits
  <2> QED BY <2>1, <2>2
<1> QED BY <1>1, <1>2 DEF Fresh

\* The exception of RunIsAwaited needs two retry requests that are served
\* together: one at a time they never overtake.
THEOREM OneAtATime ==
    ASSUME MaxRequests <= 1
    PROVE  Spec => []~overtaken
<1> DEFINE Inv == DeployInv /\ OnePerKind /\ Fresh /\ ~overtaken
<1>1. Init => Inv
  BY DeployInit DEF Init, OnePerKind, Fresh
<1>2. Inv /\ [Next]_vars => Inv'
  BY DeployStep, OneStep, FreshStep DEF DeployInv
<1> QED BY <1>1, <1>2, PTL DEF Spec

=============================================================================
