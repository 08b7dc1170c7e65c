------------------------- MODULE AlertRuleProofs -------------------------
(***************************************************************************)
(* Safety of AlertRule for any set of event ids, any for_seconds and any   *)
(* number of samples.  The invariant adds to the properties what the       *)
(* evaluator may rely on between its read and its write: nobody else       *)
(* writes the row, the sample is newer than the row, and every event and   *)
(* every sample that failed to match is older.                             *)
(***************************************************************************)
EXTENDS AlertRule, TLAPS

\* The row the evaluator has read is still there, and what it has read is
\* older than the sample it is about to write.
Snapshot ==
    /\ rule = "deleted" => state = NoState
    /\ pc = "read" /\ rule # "deleted" => mine.state = state
    /\ pc = "read" => mine.sample.at > mine.state.seen
    /\ pc = "loaded" => mine.sample.at > 0

\* Every event was fired by a sample the row has seen.
EventsSeen ==
    /\ rule # "deleted" =>
           \A e \in EventIds : events[e].status # "none" => events[e].at <= state.seen
    /\ pc = "read" /\ mine.state.active # None =>
           \A e \in EventIds : events[e].status # "none" =>
               events[e].at <= mine.state.seen

\* Every sample that failed to match is older than the row, unless the row
\* points to an event that was closed behind its back; and older than the
\* beginning of the condition the row waits for.
ColdSeen ==
    /\ rule # "deleted" /\ (state.active = None \/ state.active \in Active) =>
           \A t \in cold : t <= state.seen
    /\ rule # "deleted" /\ state.active = None /\ state.since # 0 =>
           \A t \in cold : t < state.since
    /\ rule # "deleted" => state.since <= state.seen

IInv ==
    /\ TypeOK /\ Snapshot /\ EventsSeen /\ ColdSeen
    /\ Sustained /\ Watched /\ ToldTruth

LEMMA InitIInv == Init => IInv
<1> SUFFICES ASSUME Init PROVE IInv
  OBVIOUS
<1> USE AlertRuleAssumption DEF Init
<1>1. TypeOK
  BY DEF TypeOK, Samples, States, NoState, Times, Statuses, Transitions, NoState, None, Active, ActiveStatuses, Times, Transitions
<1>2. Snapshot
  BY DEF Snapshot, NoState, NoState, None, Active, ActiveStatuses, Times, Transitions
<1>3. EventsSeen
  BY DEF EventsSeen, NoState, None, Active, ActiveStatuses, Times, Transitions
<1>4. ColdSeen
  BY DEF ColdSeen, NoState, None, Active, ActiveStatuses, Times, Transitions
<1>5. Sustained
  BY DEF Sustained, NoState, None, Active, ActiveStatuses, Times, Transitions
<1>6. Watched
  BY DEF Watched, NoState, None, Active, ActiveStatuses, Times, Transitions
<1>7. ToldTruth
  <2>1. \A e \in EventIds : sent[e] = [t \in Transitions |-> 0]
    OBVIOUS
  <2>2. "firing" \in Transitions /\ "resolved" \in Transitions
    BY DEF Transitions
  <2>3. \A e \in EventIds : sent[e]["firing"] = 0 /\ sent[e]["resolved"] = 0
    BY <2>1, <2>2
  <2>4. \A e \in EventIds : events[e].status = "none"
    OBVIOUS
  <2>5. ~(0 > 0)
    OBVIOUS
  <2>6. "none" # "resolved"
    OBVIOUS
  <2>7. \A e \in EventIds :
          /\ sent[e]["firing"] = (IF events[e].status = "none" THEN 0 ELSE 1)
          /\ ~(sent[e]["resolved"] > 0)
          /\ events[e].status # "resolved"
    BY ONLY <2>3, <2>4, <2>5, <2>6, Zenon
  <2> QED  BY ONLY <2>7, Zenon DEF ToldTruth
<1> QED  BY <1>1, <1>2, <1>3, <1>4, <1>5, <1>6, <1>7 DEF IInv

LEMMA TakeSampleStep ==
  ASSUME IInv, NEW hot \in BOOLEAN, TakeSample(hot)
  PROVE  IInv'
<1> USE AlertRuleAssumption DEF IInv, TakeSample
<1>1. TypeOK'
  BY DEF TypeOK, ToldTruth, Snapshot, Samples, States, NoState, None,
     Times, Statuses, Transitions, Active, ActiveStatuses
<1>2. Snapshot'
  BY DEF TypeOK, Snapshot, Samples, States, NoState, None,
     Times, Statuses, Transitions, Active, ActiveStatuses
<1>3. EventsSeen'
  BY DEF TypeOK, Snapshot, EventsSeen, Samples, States, NoState, None,
     Times, Statuses, Transitions, Active, ActiveStatuses
<1>4. ColdSeen'
  BY DEF TypeOK, Snapshot, ColdSeen, Watched, Samples, States, NoState, None,
     Times, Statuses, Transitions, Active, ActiveStatuses
<1>5. Sustained'
  BY DEF TypeOK, Snapshot, EventsSeen, ColdSeen, Sustained, Samples, States, NoState, None,
     Times, Statuses, Transitions, Active, ActiveStatuses
<1>6. Watched'
  BY DEF TypeOK, Snapshot, Watched, Samples, States, NoState, None,
     Times, Statuses, Transitions, Active, ActiveStatuses
<1>7. ToldTruth'
  BY DEF TypeOK, ToldTruth, Samples, States, NoState, None,
     Times, Statuses, Transitions, Active, ActiveStatuses
<1> QED  BY <1>1, <1>2, <1>3, <1>4, <1>5, <1>6, <1>7

LEMMA LoadStep ==
  ASSUME IInv, Load
  PROVE  IInv'
<1> USE AlertRuleAssumption DEF IInv, Load
<1>1. TypeOK'
  BY DEF TypeOK, ToldTruth, Snapshot, Samples, States, NoState, None,
     Times, Statuses, Transitions, Active, ActiveStatuses
<1>2. Snapshot'
  BY DEF TypeOK, Snapshot, Samples, States, NoState, None,
     Times, Statuses, Transitions, Active, ActiveStatuses
<1>3. EventsSeen'
  BY DEF TypeOK, Snapshot, EventsSeen, Samples, States, NoState, None,
     Times, Statuses, Transitions, Active, ActiveStatuses
<1>4. ColdSeen'
  BY DEF TypeOK, Snapshot, ColdSeen, Watched, Samples, States, NoState, None,
     Times, Statuses, Transitions, Active, ActiveStatuses
<1>5. Sustained'
  BY DEF TypeOK, Snapshot, EventsSeen, ColdSeen, Sustained, Samples, States, NoState, None,
     Times, Statuses, Transitions, Active, ActiveStatuses
<1>6. Watched'
  BY DEF TypeOK, Snapshot, Watched, Samples, States, NoState, None,
     Times, Statuses, Transitions, Active, ActiveStatuses
<1>7. ToldTruth'
  BY DEF TypeOK, ToldTruth, Samples, States, NoState, None,
     Times, Statuses, Transitions, Active, ActiveStatuses
<1> QED  BY <1>1, <1>2, <1>3, <1>4, <1>5, <1>6, <1>7

LEMMA ReadStep ==
  ASSUME IInv, Read
  PROVE  IInv'
<1> USE AlertRuleAssumption DEF IInv, Read
<1>1. TypeOK'
  BY DEF TypeOK, ToldTruth, Snapshot, Samples, States, NoState, None,
     Times, Statuses, Transitions, Active, ActiveStatuses
<1>2. Snapshot'
  BY DEF TypeOK, Snapshot, Samples, States, NoState, None,
     Times, Statuses, Transitions, Active, ActiveStatuses
<1>3. EventsSeen'
  BY DEF TypeOK, Snapshot, EventsSeen, Samples, States, NoState, None,
     Times, Statuses, Transitions, Active, ActiveStatuses
<1>4. ColdSeen'
  BY DEF TypeOK, Snapshot, ColdSeen, Watched, Samples, States, NoState, None,
     Times, Statuses, Transitions, Active, ActiveStatuses
<1>5. Sustained'
  BY DEF TypeOK, Snapshot, EventsSeen, ColdSeen, Sustained, Samples, States, NoState, None,
     Times, Statuses, Transitions, Active, ActiveStatuses
<1>6. Watched'
  BY DEF TypeOK, Snapshot, Watched, Samples, States, NoState, None,
     Times, Statuses, Transitions, Active, ActiveStatuses
<1>7. ToldTruth'
  BY DEF TypeOK, ToldTruth, Samples, States, NoState, None,
     Times, Statuses, Transitions, Active, ActiveStatuses
<1> QED  BY <1>1, <1>2, <1>3, <1>4, <1>5, <1>6, <1>7

LEMMA StayColdStep ==
  ASSUME IInv, StayCold
  PROVE  IInv'
<1> USE AlertRuleAssumption DEF IInv, StayCold
<1>1. TypeOK'
  <2>1. mine.sample.at \in Times /\ state' \in States /\ cold' = cold \cup {mine.sample.at}
    BY DEF TypeOK, Samples, States, Times, Writes, Upsert, None
  <2> QED  BY <2>1 DEF TypeOK, Writes
<1>2. Snapshot'
  BY DEF Writes, Upsert, TypeOK, Snapshot, Samples, States, NoState, None,
     Times, Statuses, Transitions, Active, ActiveStatuses
<1>3. EventsSeen'
  BY DEF Writes, Upsert, TypeOK, Snapshot, EventsSeen, Samples, States, NoState, None,
     Times, Statuses, Transitions, Active, ActiveStatuses
<1>4. ColdSeen'
  BY DEF Writes, Upsert, TypeOK, Snapshot, ColdSeen, Watched, Samples, States, NoState, None,
     Times, Statuses, Transitions, Active, ActiveStatuses
<1>5. Sustained'
  BY DEF Writes, Upsert, TypeOK, Snapshot, EventsSeen, ColdSeen, Sustained, Samples, States, NoState, None,
     Times, Statuses, Transitions, Active, ActiveStatuses
<1>6. Watched'
  BY DEF Writes, Upsert, TypeOK, Snapshot, Watched, Samples, States, NoState, None,
     Times, Statuses, Transitions, Active, ActiveStatuses
<1>7. ToldTruth'
  BY DEF Writes, Upsert, TypeOK, ToldTruth, Samples, States, NoState, None,
     Times, Statuses, Transitions, Active, ActiveStatuses
<1> QED  BY <1>1, <1>2, <1>3, <1>4, <1>5, <1>6, <1>7

LEMMA RecoverStep ==
  ASSUME IInv, Recover
  PROVE  IInv'
<1> DEFINE e == mine.state.active
<1> USE AlertRuleAssumption DEF IInv
<1>1. /\ e \in EventIds /\ mine.sample.at \in Times /\ pc = "read" /\ pc' = "idle"
      /\ mine.sample.at > mine.state.seen
      /\ cold' = cold \cup {mine.sample.at}
      /\ UNCHANGED <<sample, rule, inc, mine>>
  BY DEF Recover, Writes, TypeOK, Samples, States, Snapshot, None
<1>2. \A x \in EventIds : events[x].status # "none" => events[x].at < mine.sample.at
  BY <1>1 DEF Recover, EventsSeen, TypeOK, Samples, States, Times
<1> HIDE DEF e
<1>3. CASE e \notin Active
  <2>1. UNCHANGED <<events, sent, state>>
    BY <1>3 DEF Recover, e
  <2>2. TypeOK'
    BY <1>1, <2>1 DEF TypeOK
  <2>3. Snapshot' /\ EventsSeen' /\ Watched' /\ ToldTruth'
    BY <1>1, <2>1 DEF Snapshot, EventsSeen, Watched, ToldTruth, Active
  <2>4. ColdSeen'
    BY <1>1, <1>3, <2>1 DEF ColdSeen, Snapshot, Active, e, Recover
  <2>5. Sustained'
    BY <1>1, <1>2, <2>1 DEF Sustained, TypeOK, Times
  <2> QED  BY <2>2, <2>3, <2>4, <2>5
<1>4. CASE e \in Active
  <2>1. /\ events' = [events EXCEPT ![e].status = "resolved"]
        /\ sent' = [sent EXCEPT ![e]["resolved"] = @ + 1]
        /\ state' = IF rule = "deleted" THEN state ELSE ClearedRow(state)
    BY <1>4 DEF Recover, e
  <2>2. ClearedRow(state) = [since |-> 0, active |-> None, seen |-> mine.sample.at]
    BY DEF ClearedRow
  <2>3. /\ sent[e] \in [Transitions -> 0..1] /\ sent[e]["resolved"] = 0
        /\ sent' = [sent EXCEPT ![e] = [sent[e] EXCEPT !["resolved"] = 1]]
    <3>1. sent[e] \in [Transitions -> 0..1]
      BY <1>1 DEF TypeOK
    <3>2. sent[e]["resolved"] \in 0..1
      BY <3>1 DEF Transitions
    <3>3. events[e].status # "resolved"
      BY <1>4 DEF Active, ActiveStatuses
    <3>4. ~(sent[e]["resolved"] > 0)
      BY <1>1, <3>3 DEF ToldTruth
    <3>5. sent[e]["resolved"] = 0
      BY <3>2, <3>4
    <3> QED  BY <2>1, <3>1, <3>5
  <2>4. /\ sent' \in [EventIds -> [Transitions -> 0..1]]
        /\ \A x \in EventIds : sent'[x]["firing"] = sent[x]["firing"]
        /\ \A x \in EventIds : x # e => sent'[x] = sent[x]
        /\ sent'[e]["resolved"] = 1
    BY <1>1, <2>3 DEF TypeOK, Transitions
  <2>5. /\ events' \in [EventIds -> [status : Statuses, since : Times, at : Times]]
        /\ \A x \in EventIds : x # e => events'[x] = events[x]
        /\ events'[e].status = "resolved" /\ events[e].status # "none"
        /\ events'[e].since = events[e].since /\ events'[e].at = events[e].at
    BY <1>1, <1>4, <2>1 DEF TypeOK, Statuses, Active, ActiveStatuses
  <2>6. state' \in States
    BY <1>1, <2>1, <2>2 DEF TypeOK, States, Times, None
  <2>7. TypeOK'
    BY <1>1, <2>4, <2>5, <2>6 DEF TypeOK
  <2>8. Snapshot'
    BY <1>1, <2>1 DEF Snapshot
  <2>9. EventsSeen'
    BY <1>1, <1>2, <2>1, <2>2, <2>5 DEF EventsSeen, TypeOK, Times
  <2>10. ColdSeen'
    BY <1>1, <1>4, <2>1, <2>2 DEF ColdSeen, Snapshot, TypeOK, Times, States, None, e
  <2>11. Sustained'
    BY <1>1, <1>2, <2>5 DEF Sustained, TypeOK, Times
  <2>12. Watched'
    BY <1>1, <1>4, <2>5 DEF Watched, Snapshot, Active, ActiveStatuses, e
  <2>13. ToldTruth'
    BY <1>1, <2>4, <2>5 DEF ToldTruth
  <2> QED  BY <2>7, <2>8, <2>9, <2>10, <2>11, <2>12, <2>13
<1> QED  BY <1>3, <1>4

LEMMA RefreshStep ==
  ASSUME IInv, Refresh
  PROVE  IInv'
<1> USE AlertRuleAssumption DEF IInv, Refresh
<1>1. TypeOK'
  BY DEF Writes, Upsert, TypeOK, ToldTruth, Snapshot, Samples, States, NoState, None,
     Times, Statuses, Transitions, Active, ActiveStatuses
<1>2. Snapshot'
  BY DEF Writes, Upsert, TypeOK, Snapshot, Samples, States, NoState, None,
     Times, Statuses, Transitions, Active, ActiveStatuses
<1>3. EventsSeen'
  BY DEF Writes, Upsert, TypeOK, Snapshot, EventsSeen, Samples, States, NoState, None,
     Times, Statuses, Transitions, Active, ActiveStatuses
<1>4. ColdSeen'
  BY DEF Writes, Upsert, TypeOK, Snapshot, ColdSeen, Watched, Samples, States, NoState, None,
     Times, Statuses, Transitions, Active, ActiveStatuses
<1>5. Sustained'
  BY DEF Writes, Upsert, TypeOK, Snapshot, EventsSeen, ColdSeen, Sustained, Samples, States, NoState, None,
     Times, Statuses, Transitions, Active, ActiveStatuses
<1>6. Watched'
  BY DEF Writes, Upsert, TypeOK, Snapshot, Watched, Samples, States, NoState, None,
     Times, Statuses, Transitions, Active, ActiveStatuses
<1>7. ToldTruth'
  BY DEF Writes, Upsert, TypeOK, ToldTruth, Samples, States, NoState, None,
     Times, Statuses, Transitions, Active, ActiveStatuses
<1> QED  BY <1>1, <1>2, <1>3, <1>4, <1>5, <1>6, <1>7

LEMMA WaitStep ==
  ASSUME IInv, Wait
  PROVE  IInv'
<1> USE AlertRuleAssumption DEF IInv, Wait
<1>1. TypeOK'
  BY DEF Writes, Upsert, TypeOK, ToldTruth, Snapshot, Samples, States, NoState, None,
     Times, Statuses, Transitions, Active, ActiveStatuses
<1>2. Snapshot'
  BY DEF Writes, Upsert, TypeOK, Snapshot, Samples, States, NoState, None,
     Times, Statuses, Transitions, Active, ActiveStatuses
<1>3. EventsSeen'
  BY DEF Writes, Upsert, TypeOK, Snapshot, EventsSeen, Samples, States, NoState, None,
     Times, Statuses, Transitions, Active, ActiveStatuses
<1>4. ColdSeen'
  BY DEF Writes, Upsert, TypeOK, Snapshot, ColdSeen, Watched, Samples, States, NoState, None,
     Times, Statuses, Transitions, Active, ActiveStatuses
<1>5. Sustained'
  BY DEF Writes, Upsert, TypeOK, Snapshot, EventsSeen, ColdSeen, Sustained, Samples, States, NoState, None,
     Times, Statuses, Transitions, Active, ActiveStatuses
<1>6. Watched'
  BY DEF Writes, Upsert, TypeOK, Snapshot, Watched, Samples, States, NoState, None,
     Times, Statuses, Transitions, Active, ActiveStatuses
<1>7. ToldTruth'
  BY DEF Writes, Upsert, TypeOK, ToldTruth, Samples, States, NoState, None,
     Times, Statuses, Transitions, Active, ActiveStatuses
<1> QED  BY <1>1, <1>2, <1>3, <1>4, <1>5, <1>6, <1>7

LEMMA FireStep ==
  ASSUME IInv, Fire
  PROVE  IInv'
<1> USE AlertRuleAssumption DEF IInv, Fire
<1>1. TypeOK'
  BY DEF Writes, Upsert, TypeOK, ToldTruth, Snapshot, Samples, States, NoState, None,
     Times, Statuses, Transitions, Active, ActiveStatuses
<1>2. Snapshot'
  BY DEF Writes, Upsert, TypeOK, Snapshot, Samples, States, NoState, None,
     Times, Statuses, Transitions, Active, ActiveStatuses
<1>3. EventsSeen'
  BY DEF Writes, Upsert, TypeOK, Snapshot, EventsSeen, Samples, States, NoState, None,
     Times, Statuses, Transitions, Active, ActiveStatuses
<1>4. ColdSeen'
  BY DEF Writes, Upsert, TypeOK, Snapshot, ColdSeen, Watched, Samples, States, NoState, None,
     Times, Statuses, Transitions, Active, ActiveStatuses
<1>5. Sustained'
  BY DEF Writes, Upsert, TypeOK, Snapshot, EventsSeen, ColdSeen, Sustained, Samples, States, NoState, None,
     Times, Statuses, Transitions, Active, ActiveStatuses
<1>6. Watched'
  BY DEF Writes, Upsert, TypeOK, Snapshot, Watched, Samples, States, NoState, None,
     Times, Statuses, Transitions, Active, ActiveStatuses
<1>7. ToldTruth'
  BY DEF Writes, Upsert, TypeOK, ToldTruth, Samples, States, NoState, None,
     Times, Statuses, Transitions, Active, ActiveStatuses
<1> QED  BY <1>1, <1>2, <1>3, <1>4, <1>5, <1>6, <1>7

LEMMA CycleFailsStep ==
  ASSUME IInv, CycleFails
  PROVE  IInv'
<1> USE AlertRuleAssumption DEF IInv, CycleFails
<1>1. TypeOK'
  BY DEF TypeOK, ToldTruth, Snapshot, Samples, States, NoState, None,
     Times, Statuses, Transitions, Active, ActiveStatuses
<1>2. Snapshot'
  BY DEF TypeOK, Snapshot, Samples, States, NoState, None,
     Times, Statuses, Transitions, Active, ActiveStatuses
<1>3. EventsSeen'
  BY DEF TypeOK, Snapshot, EventsSeen, Samples, States, NoState, None,
     Times, Statuses, Transitions, Active, ActiveStatuses
<1>4. ColdSeen'
  BY DEF TypeOK, Snapshot, ColdSeen, Watched, Samples, States, NoState, None,
     Times, Statuses, Transitions, Active, ActiveStatuses
<1>5. Sustained'
  BY DEF TypeOK, Snapshot, EventsSeen, ColdSeen, Sustained, Samples, States, NoState, None,
     Times, Statuses, Transitions, Active, ActiveStatuses
<1>6. Watched'
  BY DEF TypeOK, Snapshot, Watched, Samples, States, NoState, None,
     Times, Statuses, Transitions, Active, ActiveStatuses
<1>7. ToldTruth'
  BY DEF TypeOK, ToldTruth, Samples, States, NoState, None,
     Times, Statuses, Transitions, Active, ActiveStatuses
<1> QED  BY <1>1, <1>2, <1>3, <1>4, <1>5, <1>6, <1>7

LEMMA AcknowledgeStep ==
  ASSUME IInv, NEW e \in EventIds, Acknowledge(e)
  PROVE  IInv'
<1> USE AlertRuleAssumption DEF IInv, Acknowledge
<1>1. TypeOK'
  <2>1. "acked" \in Statuses
    BY DEF Statuses, Transitions, ActiveStatuses
  <2>2. [events EXCEPT ![e].status = "acked"]
            \in [EventIds -> [status : Statuses, since : Times, at : Times]]
    BY <2>1 DEF TypeOK
  <2> QED  BY <2>2 DEF TypeOK
<1>2. Snapshot'
  BY DEF TypeOK, Snapshot, Samples, States, NoState, None,
     Times, Statuses, Transitions, Active, ActiveStatuses
<1>3. EventsSeen'
  BY DEF TypeOK, Snapshot, EventsSeen, Samples, States, NoState, None,
     Times, Statuses, Transitions, Active, ActiveStatuses
<1>4. ColdSeen'
  BY DEF TypeOK, Snapshot, ColdSeen, Watched, Samples, States, NoState, None,
     Times, Statuses, Transitions, Active, ActiveStatuses
<1>5. Sustained'
  BY DEF TypeOK, Snapshot, EventsSeen, ColdSeen, Sustained, Samples, States, NoState, None,
     Times, Statuses, Transitions, Active, ActiveStatuses
<1>6. Watched'
  BY DEF TypeOK, Snapshot, Watched, Samples, States, NoState, None,
     Times, Statuses, Transitions, Active, ActiveStatuses
<1>7. ToldTruth'
  BY DEF TypeOK, ToldTruth, Samples, States, NoState, None,
     Times, Statuses, Transitions, Active, ActiveStatuses
<1> QED  BY <1>1, <1>2, <1>3, <1>4, <1>5, <1>6, <1>7

LEMMA PromoteStep ==
  ASSUME IInv, NEW e \in EventIds, Promote(e)
  PROVE  IInv'
<1> USE AlertRuleAssumption DEF IInv, Promote
<1>1. TypeOK'
  BY DEF TypeOK, ToldTruth, Snapshot, Samples, States, NoState, None,
     Times, Statuses, Transitions, Active, ActiveStatuses
<1>2. Snapshot'
  BY DEF TypeOK, Snapshot, Samples, States, NoState, None,
     Times, Statuses, Transitions, Active, ActiveStatuses
<1>3. EventsSeen'
  BY DEF TypeOK, Snapshot, EventsSeen, Samples, States, NoState, None,
     Times, Statuses, Transitions, Active, ActiveStatuses
<1>4. ColdSeen'
  BY DEF TypeOK, Snapshot, ColdSeen, Watched, Samples, States, NoState, None,
     Times, Statuses, Transitions, Active, ActiveStatuses
<1>5. Sustained'
  BY DEF TypeOK, Snapshot, EventsSeen, ColdSeen, Sustained, Samples, States, NoState, None,
     Times, Statuses, Transitions, Active, ActiveStatuses
<1>6. Watched'
  BY DEF TypeOK, Snapshot, Watched, Samples, States, NoState, None,
     Times, Statuses, Transitions, Active, ActiveStatuses
<1>7. ToldTruth'
  BY DEF TypeOK, ToldTruth, Samples, States, NoState, None,
     Times, Statuses, Transitions, Active, ActiveStatuses
<1> QED  BY <1>1, <1>2, <1>3, <1>4, <1>5, <1>6, <1>7

LEMMA SetEnabledStep ==
  ASSUME IInv, NEW to \in {"enabled", "disabled"}, SetEnabled(to)
  PROVE  IInv'
<1> USE AlertRuleAssumption DEF IInv, SetEnabled
<1>1. TypeOK'
  BY DEF TypeOK, ToldTruth, Snapshot, Samples, States, NoState, None,
     Times, Statuses, Transitions, Active, ActiveStatuses
<1>2. Snapshot'
  BY DEF TypeOK, Snapshot, Samples, States, NoState, None,
     Times, Statuses, Transitions, Active, ActiveStatuses
<1>3. EventsSeen'
  BY DEF TypeOK, Snapshot, EventsSeen, Samples, States, NoState, None,
     Times, Statuses, Transitions, Active, ActiveStatuses
<1>4. ColdSeen'
  BY DEF TypeOK, Snapshot, ColdSeen, Watched, Samples, States, NoState, None,
     Times, Statuses, Transitions, Active, ActiveStatuses
<1>5. Sustained'
  BY DEF TypeOK, Snapshot, EventsSeen, ColdSeen, Sustained, Samples, States, NoState, None,
     Times, Statuses, Transitions, Active, ActiveStatuses
<1>6. Watched'
  BY DEF TypeOK, Snapshot, Watched, Samples, States, NoState, None,
     Times, Statuses, Transitions, Active, ActiveStatuses
<1>7. ToldTruth'
  BY DEF TypeOK, ToldTruth, Samples, States, NoState, None,
     Times, Statuses, Transitions, Active, ActiveStatuses
<1> QED  BY <1>1, <1>2, <1>3, <1>4, <1>5, <1>6, <1>7

LEMMA DeleteRuleStep ==
  ASSUME IInv, DeleteRule
  PROVE  IInv'
<1> USE AlertRuleAssumption DEF IInv, DeleteRule
<1>1. TypeOK'
  BY DEF TypeOK, ToldTruth, Snapshot, Samples, States, NoState, None,
     Times, Statuses, Transitions, Active, ActiveStatuses
<1>2. Snapshot'
  BY DEF TypeOK, Snapshot, Samples, States, NoState, None,
     Times, Statuses, Transitions, Active, ActiveStatuses
<1>3. EventsSeen'
  BY DEF TypeOK, Snapshot, EventsSeen, Samples, States, NoState, None,
     Times, Statuses, Transitions, Active, ActiveStatuses
<1>4. ColdSeen'
  BY DEF TypeOK, Snapshot, ColdSeen, Watched, Samples, States, NoState, None,
     Times, Statuses, Transitions, Active, ActiveStatuses
<1>5. Sustained'
  BY DEF TypeOK, Snapshot, EventsSeen, ColdSeen, Sustained, Samples, States, NoState, None,
     Times, Statuses, Transitions, Active, ActiveStatuses
<1>6. Watched'
  BY DEF TypeOK, Snapshot, Watched, Samples, States, NoState, None,
     Times, Statuses, Transitions, Active, ActiveStatuses
<1>7. ToldTruth'
  BY DEF TypeOK, ToldTruth, Samples, States, NoState, None,
     Times, Statuses, Transitions, Active, ActiveStatuses
<1> QED  BY <1>1, <1>2, <1>3, <1>4, <1>5, <1>6, <1>7

LEMMA IncidentEndsStep ==
  ASSUME IInv, NEW e \in EventIds, IncidentEnds(e)
  PROVE  IInv'
<1> USE AlertRuleAssumption DEF IInv, IncidentEnds
<1>1. TypeOK'
  BY DEF TypeOK, ToldTruth, Snapshot, Samples, States, NoState, None,
     Times, Statuses, Transitions, Active, ActiveStatuses
<1>2. Snapshot'
  BY DEF TypeOK, Snapshot, Samples, States, NoState, None,
     Times, Statuses, Transitions, Active, ActiveStatuses
<1>3. EventsSeen'
  BY DEF TypeOK, Snapshot, EventsSeen, Samples, States, NoState, None,
     Times, Statuses, Transitions, Active, ActiveStatuses
<1>4. ColdSeen'
  BY DEF TypeOK, Snapshot, ColdSeen, Watched, Samples, States, NoState, None,
     Times, Statuses, Transitions, Active, ActiveStatuses
<1>5. Sustained'
  BY DEF TypeOK, Snapshot, EventsSeen, ColdSeen, Sustained, Samples, States, NoState, None,
     Times, Statuses, Transitions, Active, ActiveStatuses
<1>6. Watched'
  BY DEF TypeOK, Snapshot, Watched, Samples, States, NoState, None,
     Times, Statuses, Transitions, Active, ActiveStatuses
<1>7. ToldTruth'
  BY DEF TypeOK, ToldTruth, Samples, States, NoState, None,
     Times, Statuses, Transitions, Active, ActiveStatuses
<1> QED  BY <1>1, <1>2, <1>3, <1>4, <1>5, <1>6, <1>7

LEMMA CloseAlertsStep ==
  ASSUME IInv, NEW e \in EventIds, CloseAlerts(e)
  PROVE  IInv'
<1> USE AlertRuleAssumption DEF IInv, CloseAlerts
<1>1. TypeOK'
  BY DEF TypeOK, ToldTruth, Snapshot, Samples, States, NoState, None,
     Times, Statuses, Transitions, Active, ActiveStatuses
<1>2. Snapshot'
  BY DEF TypeOK, Snapshot, Samples, States, NoState, None,
     Times, Statuses, Transitions, Active, ActiveStatuses
<1>3. EventsSeen'
  BY DEF TypeOK, Snapshot, EventsSeen, Samples, States, NoState, None,
     Times, Statuses, Transitions, Active, ActiveStatuses
<1>4. ColdSeen'
  BY DEF TypeOK, Snapshot, ColdSeen, Watched, Samples, States, NoState, None,
     Times, Statuses, Transitions, Active, ActiveStatuses
<1>5. Sustained'
  BY DEF TypeOK, Snapshot, EventsSeen, ColdSeen, Sustained, Samples, States, NoState, None,
     Times, Statuses, Transitions, Active, ActiveStatuses
<1>6. Watched'
  BY DEF TypeOK, Snapshot, Watched, Samples, States, NoState, None,
     Times, Statuses, Transitions, Active, ActiveStatuses
<1>7. ToldTruth'
  BY DEF TypeOK, ToldTruth, Samples, States, NoState, None,
     Times, Statuses, Transitions, Active, ActiveStatuses
<1> QED  BY <1>1, <1>2, <1>3, <1>4, <1>5, <1>6, <1>7

LEMMA SweepDiesStep ==
  ASSUME IInv, NEW e \in EventIds, SweepDies(e)
  PROVE  IInv'
<1> USE AlertRuleAssumption DEF IInv, SweepDies
<1>1. TypeOK'
  BY DEF TypeOK, ToldTruth, Snapshot, Samples, States, NoState, None,
     Times, Statuses, Transitions, Active, ActiveStatuses
<1>2. Snapshot'
  BY DEF TypeOK, Snapshot, Samples, States, NoState, None,
     Times, Statuses, Transitions, Active, ActiveStatuses
<1>3. EventsSeen'
  BY DEF TypeOK, Snapshot, EventsSeen, Samples, States, NoState, None,
     Times, Statuses, Transitions, Active, ActiveStatuses
<1>4. ColdSeen'
  BY DEF TypeOK, Snapshot, ColdSeen, Watched, Samples, States, NoState, None,
     Times, Statuses, Transitions, Active, ActiveStatuses
<1>5. Sustained'
  BY DEF TypeOK, Snapshot, EventsSeen, ColdSeen, Sustained, Samples, States, NoState, None,
     Times, Statuses, Transitions, Active, ActiveStatuses
<1>6. Watched'
  BY DEF TypeOK, Snapshot, Watched, Samples, States, NoState, None,
     Times, Statuses, Transitions, Active, ActiveStatuses
<1>7. ToldTruth'
  BY DEF TypeOK, ToldTruth, Samples, States, NoState, None,
     Times, Statuses, Transitions, Active, ActiveStatuses
<1> QED  BY <1>1, <1>2, <1>3, <1>4, <1>5, <1>6, <1>7

LEMMA NextIInv == IInv /\ [Next]_vars => IInv'
<1> SUFFICES ASSUME IInv, [Next]_vars PROVE IInv'
  OBVIOUS
<1>1. CASE UNCHANGED vars
  BY <1>1 DEF vars, IInv, TypeOK, Snapshot, EventsSeen, ColdSeen, Sustained,
              Watched, ToldTruth, Active
<1>2. ASSUME NEW hot \in BOOLEAN, TakeSample(hot) PROVE IInv'
  BY <1>2, TakeSampleStep
<1>3. CASE Evaluator
  BY <1>3, LoadStep, ReadStep, StayColdStep, RecoverStep, RefreshStep, WaitStep,
     FireStep DEF Evaluator
<1>4. CASE CycleFails
  BY <1>4, CycleFailsStep
<1>5. CASE Operators
  BY <1>5, AcknowledgeStep, PromoteStep, SetEnabledStep, DeleteRuleStep DEF Operators
<1>6. CASE Incidents
  BY <1>6, IncidentEndsStep, CloseAlertsStep, SweepDiesStep DEF Incidents
<1> QED  BY <1>1, <1>2, <1>3, <1>4, <1>5, <1>6 DEF Next

LEMMA Invariance == Spec => []IInv
  BY InitIInv, NextIInv, PTL DEF Spec

\* Type correctness: in particular no transition of an event is staged twice,
\* however often cycles fail and are repeated.
THEOREM TypeCorrect == Spec => []TypeOK
  BY Invariance, PTL DEF IInv

\* Every event stands for a condition that held for for_seconds.
THEOREM EventsAreSustained == Spec => []Sustained
  BY Invariance, PTL DEF IInv

\* No event is left active that its rule does not watch.
THEOREM EventsAreWatched == Spec => []Watched
  BY Invariance, PTL DEF IInv

\* What is staged for delivery agrees with the ledger.
THEOREM DeliveryIsTrue == Spec => []ToldTruth
  BY Invariance, PTL DEF IInv

\* The ledger only moves forward.
THEOREM LedgerMovesForward == Spec => LedgerForward
<1>1. IInv /\ [Next]_vars =>
        [\A e \in EventIds :
           /\ events[e].status = "resolved" => events'[e] = events[e]
           /\ events[e].status = "acked" => events'[e].status \in {"acked", "resolved"}
           /\ events[e].status # "none" =>
                  events'[e].since = events[e].since /\ events'[e].at = events[e].at]_vars
  <2> SUFFICES ASSUME IInv, Next, NEW e \in EventIds
               PROVE  /\ events[e].status = "resolved" => events'[e] = events[e]
                      /\ events[e].status = "acked" =>
                             events'[e].status \in {"acked", "resolved"}
                      /\ events[e].status # "none" =>
                             events'[e].since = events[e].since /\ events'[e].at = events[e].at
    OBVIOUS
  <2> USE DEF IInv, TypeOK, Active, ActiveStatuses, Statuses
  <2>1. CASE Recover
    BY <2>1 DEF Recover, Writes
  <2>2. CASE Fire
    BY <2>2 DEF Fire, Writes
  <2>3. CASE \E x \in EventIds : Acknowledge(x) \/ CloseAlerts(x)
    BY <2>3 DEF Acknowledge, CloseAlerts
  <2>4. CASE UNCHANGED events
    BY <2>4
  <2> QED
    BY <2>1, <2>2, <2>3, <2>4
    DEF Next, Evaluator, Operators, Incidents, TakeSample, Load, Read, StayCold, Refresh,
        Wait, Writes, CycleFails, Promote, SetEnabled, DeleteRule, IncidentEnds, SweepDies
<1> QED  BY <1>1, Invariance, PTL DEF Spec, LedgerForward

=============================================================================
