----------------------------- MODULE AlertRule -----------------------------
(***************************************************************************)
(* One alert rule and one subject: the AlertEvaluationEngine of the        *)
(* alert-worker (domains/alert/evaluation.py) reads the latest usage       *)
(* sample and the rule's state row, and writes the state row, the ledger   *)
(* of alert events and the outbox (domains/alert/repository.py).           *)
(* Meanwhile operators acknowledge and promote events, edit and delete the *)
(* rule, and incidents end, each in a transaction of its own.              *)
(*                                                                         *)
(* There is one evaluator: the deployment has one replica and the strategy *)
(* Recreate.  A sample is one that the comparator matches ("hot") or not;  *)
(* time is counted in samples.  The rule selects a channel, so that every  *)
(* transition is staged for delivery.                                      *)
(***************************************************************************)
EXTENDS Integers

CONSTANTS
    EventIds,     \* ids a new event may get
    ForSeconds,   \* for_seconds of the rule
    MaxTime       \* bound on the samples taken

ASSUME AlertRuleAssumption ==
    /\ ForSeconds \in Nat /\ MaxTime \in Nat
    /\ "none" \notin EventIds

VARIABLES
    sample,   \* the latest usage sample: its time and whether it matches
    rule,     \* "enabled", "disabled" or "deleted"
    state,    \* the AlertRuleTargetState row; seen = 0 when there is none
    events,   \* the AlertEvent ledger, with the samples that made each event
    sent,     \* alert.requested staged for each event and transition
    inc,      \* the incident an event was promoted to: "none", "open",
              \* "event" or "sweep" (ended, its alerts not closed yet), "done"
    pc,       \* the evaluator: "idle", "loaded", "read"
    mine,     \* the sample and the state row it has read
    cold      \* history: times of the samples evaluated as not matching

vars == <<sample, rule, state, events, sent, inc, pc, mine, cold>>

Times == 0..MaxTime
None == "none"
Statuses == {"none", "firing", "acked", "resolved"}
Transitions == {"firing", "resolved"}
ActiveStatuses == {"firing", "acked"}

Samples == [at : Times, hot : BOOLEAN]
States == [since : Times, active : EventIds \cup {None}, seen : Times]
NoState == [since |-> 0, active |-> None, seen |-> 0]

Active == {e \in EventIds : events[e].status \in ActiveStatuses}

Init ==
    /\ sample = [at |-> 0, hot |-> FALSE]
    /\ rule = "enabled"
    /\ state = NoState
    /\ events = [e \in EventIds |-> [status |-> "none", since |-> 0, at |-> 0]]
    /\ sent = [e \in EventIds |-> [t \in Transitions |-> 0]]
    /\ inc = [e \in EventIds |-> "none"]
    /\ pc = "idle"
    /\ mine = [sample |-> sample, state |-> state]
    /\ cold = {}

-----------------------------------------------------------------------------
(* The evaluator *)

\* The agents' usage samples.
TakeSample(hot) ==
    /\ sample.at < MaxTime
    /\ sample' = [at |-> sample.at + 1, hot |-> hot]
    /\ UNCHANGED <<rule, state, events, sent, inc, pc, mine, cold>>

\* list_enabled_alert_rules and the latest sample of the subject.
Load ==
    /\ pc = "idle"
    /\ rule = "enabled"
    /\ sample.at > 0
    /\ pc' = "loaded"
    /\ mine' = [mine EXCEPT !.sample = sample]
    /\ UNCHANGED <<sample, rule, state, events, sent, inc, cold>>

\* get_alert_rule_target_state; a sample that was evaluated counts only once.
Read ==
    /\ pc = "loaded"
    /\ IF mine.sample.at > state.seen
       THEN pc' = "read" /\ mine' = [mine EXCEPT !.state = state]
       ELSE pc' = "idle" /\ UNCHANGED mine
    /\ UNCHANGED <<sample, rule, state, events, sent, inc, cold>>

\* The state row has a foreign key to the rule: without the rule nothing can
\* be written and the cycle fails.
Upsert(since, active) ==
    /\ rule # "deleted"
    /\ state' = [since |-> since, active |-> active, seen |-> mine.sample.at]

Writes ==
    /\ pc = "read"
    /\ pc' = "idle"
    /\ UNCHANGED <<sample, rule, inc, mine>>

\* The condition does not hold and no event is active.
StayCold ==
    /\ Writes
    /\ ~mine.sample.hot /\ mine.state.active = None
    /\ Upsert(0, None)
    /\ cold' = cold \cup {mine.sample.at}
    /\ UNCHANGED <<events, sent>>

\* Mutant: the row keeps the time since when the condition held.
ClearedRow_KeepsSince(row) == [row EXCEPT !.active = None, !.seen = mine.sample.at]

\* The row of a resolved event: no condition, no event.
ClearedRow(row) == [since |-> 0, active |-> None, seen |-> mine.sample.at]

\* Mutant: the event is resolved in silence.
Recover_Silent ==
    /\ Writes
    /\ ~mine.sample.hot /\ mine.state.active # None
    /\ cold' = cold \cup {mine.sample.at}
    /\ UNCHANGED sent
    /\ LET e == mine.state.active
       IN  IF e \in Active
           THEN /\ events' = [events EXCEPT ![e].status = "resolved"]
                /\ state' = IF rule = "deleted" THEN state ELSE ClearedRow(state)
           ELSE UNCHANGED <<events, state>>

\* Mutant: only an event that nobody has acknowledged is resolved.
Recover_FiringOnly ==
    /\ Writes
    /\ ~mine.sample.hot /\ mine.state.active # None
    /\ cold' = cold \cup {mine.sample.at}
    /\ LET e == mine.state.active
       IN  IF events[e].status = "firing"
           THEN /\ events' = [events EXCEPT ![e].status = "resolved"]
                /\ sent' = [sent EXCEPT ![e]["resolved"] = @ + 1]
                /\ state' = IF rule = "deleted" THEN state ELSE ClearedRow(state)
           ELSE UNCHANGED <<events, sent, state>>

\* resolve_alert_rule_event: event, row and notification in one transaction;
\* an event that is not active any more leaves everything as it is.
Recover ==
    /\ Writes
    /\ ~mine.sample.hot /\ mine.state.active # None
    /\ cold' = cold \cup {mine.sample.at}
    /\ LET e == mine.state.active
       IN  IF e \in Active
           THEN /\ events' = [events EXCEPT ![e].status = "resolved"]
                /\ sent' = [sent EXCEPT ![e]["resolved"] = @ + 1]
                /\ state' = IF rule = "deleted" THEN state ELSE ClearedRow(state)
           ELSE UNCHANGED <<events, sent, state>>

\* Mutant: the row forgets the event it refreshes.
Refresh_ForgetsEvent ==
    /\ Writes
    /\ mine.sample.hot /\ mine.state.active # None
    /\ Upsert(mine.state.since, None)
    /\ UNCHANGED <<events, sent, cold>>

\* refresh_alert_rule_event renews the event's evidence.
Refresh ==
    /\ Writes
    /\ mine.sample.hot /\ mine.state.active # None
    /\ Upsert(mine.state.since, mine.state.active)
    /\ UNCHANGED <<events, sent, cold>>

\* The condition begins to hold, or has not held for long enough.
Wait ==
    /\ Writes
    /\ mine.sample.hot /\ mine.state.active = None
    /\ IF mine.state.since = 0
       THEN Upsert(mine.sample.at, None)
       ELSE /\ mine.sample.at - mine.state.since < ForSeconds
            /\ Upsert(mine.state.since, None)
    /\ UNCHANGED <<events, sent, cold>>

\* activate_alert_rule_event: the ledger has one active event of a rule and a
\* subject; a second one is the first.
Fire ==
    /\ Writes
    /\ mine.sample.hot /\ mine.state.active = None
    /\ mine.state.since # 0
    /\ mine.sample.at - mine.state.since >= ForSeconds
    /\ LET created == Active = {}
           new == {e \in EventIds : events[e].status = "none"}
       IN  \E e \in IF created THEN new ELSE Active :
               /\ events' = IF created
                            THEN [events EXCEPT ![e] =
                                    [status |-> "firing", since |-> mine.state.since,
                                     at |-> mine.sample.at]]
                            ELSE events
               /\ sent' = IF created THEN [sent EXCEPT ![e]["firing"] = @ + 1]
                          ELSE sent
               /\ Upsert(mine.state.since, e)
    /\ UNCHANGED cold

\* The transaction fails, staging included, or the worker dies: the next
\* cycle tries again.
CycleFails ==
    /\ pc # "idle"
    /\ pc' = "idle"
    /\ UNCHANGED <<sample, rule, state, events, sent, inc, mine, cold>>

-----------------------------------------------------------------------------
(* Operators *)

\* acknowledge_alert_event.
Acknowledge(e) ==
    /\ events[e].status = "firing"
    /\ events' = [events EXCEPT ![e].status = "acked"]
    /\ UNCHANGED <<sample, rule, state, sent, inc, pc, mine, cold>>

\* promote_alert_event: an event of any status becomes an incident, once.
Promote(e) ==
    /\ events[e].status # "none"
    /\ inc[e] = "none"
    /\ inc' = [inc EXCEPT ![e] = "open"]
    /\ UNCHANGED <<sample, rule, state, events, sent, pc, mine, cold>>

\* update_alert_rule.
SetEnabled(to) ==
    /\ rule # "deleted" /\ rule # to
    /\ rule' = to
    /\ UNCHANGED <<sample, state, events, sent, inc, pc, mine, cold>>

\* delete_alert_rule: the state row goes with it, the events stay.
DeleteRule ==
    /\ rule # "deleted"
    /\ rule' = "deleted"
    /\ state' = NoState
    /\ UNCHANGED <<sample, events, sent, inc, pc, mine, cold>>

-----------------------------------------------------------------------------
(* Incidents *)

\* A verified recovery ends the incident with an event for the alert-worker,
\* or the rca-timeline-janitor ends it in a sweep.
IncidentEnds(e) ==
    /\ inc[e] = "open"
    /\ \E how \in {"event", "sweep"} : inc' = [inc EXCEPT ![e] = how]
    /\ UNCHANGED <<sample, rule, state, events, sent, pc, mine, cold>>

\* resolve_incident_alert_events: the events of the incident are resolved, and
\* nothing else.
CloseAlerts(e) ==
    /\ inc[e] \in {"event", "sweep"}
    /\ inc' = [inc EXCEPT ![e] = "done"]
    /\ events' = IF e \in Active THEN [events EXCEPT ![e].status = "resolved"]
                 ELSE events
    /\ UNCHANGED <<sample, rule, state, sent, pc, mine, cold>>

\* The janitor dies between the two; the incident is not swept again.
SweepDies(e) ==
    /\ inc[e] = "sweep"
    /\ inc' = [inc EXCEPT ![e] = "done"]
    /\ UNCHANGED <<sample, rule, state, events, sent, pc, mine, cold>>

-----------------------------------------------------------------------------
Evaluator == Load \/ Read \/ StayCold \/ Recover \/ Refresh \/ Wait \/ Fire

Operators ==
    \/ \E e \in EventIds : Acknowledge(e) \/ Promote(e)
    \/ \E to \in {"enabled", "disabled"} : SetEnabled(to)
    \/ DeleteRule

Incidents == \E e \in EventIds : IncidentEnds(e) \/ CloseAlerts(e) \/ SweepDies(e)

Next ==
    \/ \E hot \in BOOLEAN : TakeSample(hot)
    \/ Evaluator \/ CycleFails \/ Operators \/ Incidents

Spec == Init /\ [][Next]_vars

\* The evaluation loop comes back every interval, and a cycle does not fail
\* for ever: writes get through.
FairSpec == Spec /\ WF_vars(Load) /\ SF_vars(Read)
                 /\ SF_vars(StayCold \/ Recover \/ Refresh \/ Wait \/ Fire)

-----------------------------------------------------------------------------
(* Properties *)

\* Every counter and time is in range, and each transition is staged at most
\* once for an event.
TypeOK ==
    /\ sample \in Samples
    /\ rule \in {"enabled", "disabled", "deleted"}
    /\ state \in States
    /\ events \in [EventIds -> [status : Statuses, since : Times, at : Times]]
    /\ sent \in [EventIds -> [Transitions -> 0..1]]
    /\ inc \in [EventIds -> {"none", "open", "event", "sweep", "done"}]
    /\ pc \in {"idle", "loaded", "read"}
    /\ mine \in [sample : Samples, state : States]
    /\ cold \in SUBSET Times

\* An event stands for a sustained condition: between the sample since when
\* the condition held and the one that fired the event lie for_seconds, and no
\* sample that was evaluated in between failed to match, whatever cycles
\* failed and whatever became of earlier events.
Sustained ==
    \A e \in EventIds : events[e].status # "none" =>
        /\ events[e].at - events[e].since >= ForSeconds
        /\ \A t \in cold : ~(events[e].since <= t /\ t <= events[e].at)

\* An active event is the one its rule's row points to, as long as there is
\* the rule: no event is left firing that no evaluation would ever resolve.
Watched ==
    rule # "deleted" => \A e \in Active : state.active = e

\* Delivery tells the truth: an event is announced when it is made and never
\* again; its resolution is announced if the evaluator resolved it, and an
\* event resolved in silence is one whose incident ended.
ToldTruth ==
    \A e \in EventIds :
        /\ sent[e]["firing"] = (IF events[e].status = "none" THEN 0 ELSE 1)
        /\ sent[e]["resolved"] > 0 => events[e].status = "resolved"
        /\ events[e].status = "resolved" /\ sent[e]["resolved"] = 0 =>
               inc[e] = "done"

\* The ledger only moves forward: evaluator, operators and incidents, in
\* whatever order, never bring a resolved event back or undo an
\* acknowledgement, and never rewrite what made the event.
LedgerForward ==
    [][\A e \in EventIds :
          /\ events[e].status = "resolved" => events'[e] = events[e]
          /\ events[e].status = "acked" => events'[e].status \in {"acked", "resolved"}
          /\ events[e].status # "none" =>
                 events'[e].since = events[e].since /\ events'[e].at = events[e].at]_vars

\* If the rule stays enabled and the condition stays away, no event stays
\* active, although cycles fail and the ledger changes under the evaluator.
EventuallyResolved ==
    <>[](rule = "enabled" /\ sample.at > 0 /\ ~sample.hot) => <>[](Active = {})

=============================================================================
