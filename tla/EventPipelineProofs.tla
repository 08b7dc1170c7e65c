------------------------ MODULE EventPipelineProofs ------------------------
(***************************************************************************)
(* Proofs about the two halves of the event pipeline and their             *)
(* composition.                                                            *)
(*                                                                         *)
(* EventWorker, for every set of events and workers, every fault bound and *)
(* every choice of the timeouts: the type invariant needs nothing but the  *)
(* assumptions on the constants; the others also need TimingContract, that *)
(* a claim outlives the time its owner may hold it.  OutboxRelay follows,  *)
(* and last what the two promise together.                                 *)
(***************************************************************************)
EXTENDS EventWorker, OutboxRelay, TLAPS

LEMMA MaxHoldType ==
    /\ MaxHold \in Nat
    /\ HandlerTimeout + Block \in Nat
    /\ HandlerTimeout + Block <= MaxHold
  BY WorkerAssumption DEF MaxHold

LEMMA TypeInit == Init => TypeOK
  BY WorkerAssumption, MaxHoldType
  DEF Init, TypeOK, MsgStates, Statuses, TerminalStatuses, Phases

\* A worker in any phase but "idle" has a message in hand.
LEMMA CurType ==
    ASSUME TypeOK, NEW w \in Workers, phase[w] # "idle"
    PROVE  cur[w] \in Events
  BY DEF TypeOK

\* The type invariant is inductive by itself.
LEMMA TypeNext == TypeOK /\ [Next]_vars => TypeOK'
<1> SUFFICES ASSUME TypeOK, [Next]_vars PROVE TypeOK'
  OBVIOUS
<1> USE WorkerAssumption, MaxHoldType
<1> USE DEF TypeOK, MsgStates, Statuses, TerminalStatuses, Phases, Holding,
        ledgerVars, workerVars, Disrupt, Goto, Release, SetStatus,
        RecordDeadLetter
<1>1. ASSUME NEW e \in Events, Publish(e) PROVE TypeOK'
  BY <1>1 DEF Publish
<1>2. ASSUME NEW e \in Events, Republish(e) PROVE TypeOK'
  BY <1>2 DEF Republish
<1>3. ASSUME NEW e \in Events, AckTimeout(e) PROVE TypeOK'
  BY <1>3 DEF AckTimeout
<1>4. ASSUME NEW w \in Workers, NEW e \in Events, Fetch(w, e) PROVE TypeOK'
  BY <1>4 DEF Fetch
<1>5. ASSUME NEW w \in Workers, Step(w) PROVE TypeOK'
  <2>1. CASE DeadLetterRaw(w) BY <2>1 DEF DeadLetterRaw
  <2>2. CASE Claim(w) BY <2>2 DEF Claim
  <2>3. CASE Refuse(w) BY <2>3 DEF Refuse
  <2>4. CASE Commit(w) BY <2>4 DEF Commit
  <2>5. CASE HandlerFails(w) BY <2>5 DEF HandlerFails
  <2>6. CASE Retry(w) BY <2>6 DEF Retry
  <2>7. CASE Capture(w) BY <2>7 DEF Capture
  <2>8. CASE MarkDeadLettered(w) BY <2>8 DEF MarkDeadLettered
  <2>9. CASE Ack(w) BY <2>9 DEF Ack
  <2>10. CASE Nak(w) BY <2>10 DEF Nak
  <2> QED BY <1>5, <2>1, <2>2, <2>3, <2>4, <2>5, <2>6, <2>7, <2>8, <2>9, <2>10
          DEF Step
<1>6. ASSUME NEW w \in Workers, Fault(w) PROVE TypeOK'
  <2>1. CASE StopBeforeProcess(w) BY <2>1 DEF StopBeforeProcess
  <2>2. CASE DeadLetterRawFails(w) BY <2>2 DEF DeadLetterRawFails
  <2>3. CASE CaptureFails(w) BY <2>3 DEF CaptureFails
  <2>4. CASE ProcessorError(w) BY <2>4 DEF ProcessorError
  <2>5. CASE Crash(w) BY <2>5 DEF Crash
  <2> QED BY <1>6, <2>1, <2>2, <2>3, <2>4, <2>5 DEF Fault
<1>7. CASE Tick
  <2>1. held' \in [Workers -> 0..MaxHold]
    BY <1>7 DEF Tick
  <2>2. age' \in [Events -> 0..StaleSeconds + 1]
    BY <1>7 DEF Tick
  <2>3. ackAge' \in [Events -> 0..AckWait]
    BY <1>7 DEF Tick
  <2>4. msg' \in [Events -> MsgStates]
    BY <1>7 DEF Tick
  <2> QED BY <1>7, <2>1, <2>2, <2>3, <2>4 DEF Tick
<1>8. CASE UNCHANGED vars
  BY <1>8 DEF vars
<1> QED BY <1>1, <1>2, <1>3, <1>4, <1>5, <1>6, <1>7, <1>8 DEF Next

\* TypeOK holds in every reachable state, for all constants.
THEOREM TypeCorrect == Spec => []TypeOK
  BY TypeInit, TypeNext, PTL DEF Spec

-----------------------------------------------------------------------------
(* The inductive invariant.  EffectOnce and NoLoss say nothing about a     *)
(* worker that is still between its claim and its last ledger write; the   *)
(* parts below tie what such a worker remembers to the row it will update. *)

\* The owner of a claim and the ledger row agree, and the row is no older
\* than the owner's claim.
OwnerInv ==
    \A w \in Workers : phase[w] \in Holding =>
        /\ cur[w] \notin Poison
        /\ status[cur[w]] = "PROCESSING"
        /\ age[cur[w]] <= held[w]
        /\ tries[w] = attempts[cur[w]]

\* What the worker has done before the phase it is in.
PhaseInv ==
    \A w \in Workers :
        /\ phase[w] = "acking" => Settled(cur[w])
        /\ phase[w] = "captured" =>
              dlq[cur[w]] > 0 /\ tries[w] >= MaxAttempts

\* The ledger's DEAD_LETTERED is backed by a row.
LedgerInv == \A e \in Events : status[e] = "DEAD_LETTERED" => dlq[e] > 0

\* Every dead-letter row but the last one was paid for by a fault.
CountInv ==
    \A e \in Events \ Poison :
        \/ dlq[e] <= disruptions
        \/ /\ dlq[e] <= disruptions + 1
           /\ \/ status[e] = "DEAD_LETTERED"
              \/ \E w \in Workers : phase[w] = "captured" /\ cur[w] = e

\* A dead-letter row means that the attempts were used up.
ExhaustedInv ==
    \A e \in Events \ Poison : dlq[e] > 0 => attempts[e] >= MaxAttempts

Parts ==
    /\ OwnerInv /\ SingleClaim /\ EffectOnce /\ PhaseInv
    /\ LedgerInv /\ NoLoss /\ CountInv /\ ExhaustedInv

IInv == TypeOK /\ Parts

LEMMA IInvInit == Init => IInv
  BY TypeInit
  DEF Init, IInv, Parts, OwnerInv, SingleClaim, EffectOnce, PhaseInv,
      LedgerInv, NoLoss, CountInv, ExhaustedInv, Holding, Settled

\* While a worker holds a claim nobody else can take the event over: the
\* row is younger than the freshness window.
LEMMA OwnerBlocksClaim ==
    ASSUME TimingContract, TypeOK, OwnerInv,
           NEW w \in Workers, phase[w] \in Holding
    PROVE  ~Claimable(cur[w])
  BY CurType, WorkerAssumption, MaxHoldType
  DEF TimingContract, TypeOK, OwnerInv, Claimable, Holding

LEMMA IInvNext == TimingContract /\ IInv /\ [Next]_vars => IInv'
<1> SUFFICES ASSUME TimingContract, IInv, [Next]_vars PROVE Parts'
  BY TypeNext DEF IInv
<1> USE WorkerAssumption, MaxHoldType
<1> USE DEF IInv, Parts, TypeOK, TerminalStatuses, Holding, Settled,
        ledgerVars, workerVars, Disrupt, Goto, Release, SetStatus,
        RecordDeadLetter
<1>1. ASSUME NEW e \in Events, Publish(e) PROVE Parts'
  BY <1>1 DEF Publish, OwnerInv, SingleClaim, EffectOnce, PhaseInv,
      LedgerInv, NoLoss, CountInv, ExhaustedInv
<1>2. ASSUME NEW e \in Events, Republish(e) PROVE Parts'
  BY <1>2 DEF Republish, OwnerInv, SingleClaim, EffectOnce, PhaseInv,
      LedgerInv, NoLoss, CountInv, ExhaustedInv
<1>3. ASSUME NEW e \in Events, AckTimeout(e) PROVE Parts'
  BY <1>3 DEF AckTimeout, OwnerInv, SingleClaim, EffectOnce, PhaseInv,
      LedgerInv, NoLoss, CountInv, ExhaustedInv
<1>4. ASSUME NEW w \in Workers, NEW e \in Events, Fetch(w, e) PROVE Parts'
  BY <1>4 DEF Fetch, OwnerInv, SingleClaim, EffectOnce, PhaseInv,
      LedgerInv, NoLoss, CountInv, ExhaustedInv
<1>5. ASSUME NEW w \in Workers, DeadLetterRaw(w) PROVE Parts'
  <2>1. OwnerInv' BY <1>5 DEF DeadLetterRaw, OwnerInv
  <2>2. SingleClaim' BY <1>5 DEF DeadLetterRaw, SingleClaim
  <2>3. EffectOnce' BY <1>5 DEF DeadLetterRaw, EffectOnce
  <2>4. PhaseInv' BY <1>5 DEF DeadLetterRaw, PhaseInv
  <2>5. LedgerInv' BY <1>5 DEF DeadLetterRaw, LedgerInv
  <2>6. NoLoss' BY <1>5 DEF DeadLetterRaw, NoLoss
  <2>7. CountInv' BY <1>5 DEF DeadLetterRaw, CountInv
  <2>8. ExhaustedInv' BY <1>5 DEF DeadLetterRaw, ExhaustedInv
  <2> QED BY <2>1, <2>2, <2>3, <2>4, <2>5, <2>6, <2>7, <2>8
<1>6. ASSUME NEW w \in Workers, Claim(w) PROVE Parts'
  <2>e. cur[w] \in Events /\ cur[w] \notin Poison
    BY <1>6, CurType DEF Claim
  <2>o. \A v \in Workers : phase[v] \in Holding => cur[v] # cur[w]
    BY <1>6, OwnerBlocksClaim DEF Claim
  <2>s. status[cur[w]] \notin TerminalStatuses
    BY <1>6 DEF Claim, Claimable
  <2>1. OwnerInv'
    BY <1>6, <2>e, <2>o, <2>s DEF Claim, OwnerInv, EffectOnce, LedgerInv
  <2>2. SingleClaim'
    BY <1>6, <2>e, <2>o, <2>s DEF Claim, SingleClaim, EffectOnce, LedgerInv
  <2>3. EffectOnce'
    BY <1>6, <2>e, <2>o, <2>s DEF Claim, EffectOnce, LedgerInv
  <2>4. PhaseInv'
    BY <1>6, <2>e, <2>o, <2>s DEF Claim, PhaseInv, EffectOnce, LedgerInv
  <2>5. LedgerInv'
    BY <1>6, <2>e, <2>o, <2>s DEF Claim, EffectOnce, LedgerInv
  <2>6. NoLoss'
    BY <1>6, <2>e, <2>o, <2>s DEF Claim, NoLoss, EffectOnce, LedgerInv
  <2>7. CountInv'
    BY <1>6, <2>e, <2>o, <2>s DEF Claim, CountInv, EffectOnce, LedgerInv
  <2>8. ExhaustedInv'
    BY <1>6, <2>e, <2>o, <2>s DEF Claim, ExhaustedInv, EffectOnce, LedgerInv
  <2> QED BY <2>1, <2>2, <2>3, <2>4, <2>5, <2>6, <2>7, <2>8
<1>7. ASSUME NEW w \in Workers, Refuse(w) PROVE Parts'
  <2>1. OwnerInv' BY <1>7 DEF Refuse, OwnerInv
  <2>2. SingleClaim' BY <1>7 DEF Refuse, SingleClaim
  <2>3. EffectOnce' BY <1>7 DEF Refuse, EffectOnce
  <2>4. PhaseInv'
    BY <1>7, CurType DEF Refuse, Claimable, PhaseInv, EffectOnce, LedgerInv
  <2>5. LedgerInv' BY <1>7 DEF Refuse, LedgerInv
  <2>6. NoLoss' BY <1>7 DEF Refuse, NoLoss
  <2>7. CountInv' BY <1>7 DEF Refuse, CountInv
  <2>8. ExhaustedInv' BY <1>7 DEF Refuse, ExhaustedInv
  <2> QED BY <2>1, <2>2, <2>3, <2>4, <2>5, <2>6, <2>7, <2>8
<1>8. ASSUME NEW w \in Workers, Commit(w) PROVE Parts'
  <2>e. cur[w] \in Events /\ cur[w] \notin Poison
    BY <1>8, CurType DEF Commit, OwnerInv
  <2>o. \A v \in Workers \ {w} : phase[v] \in Holding => cur[v] # cur[w]
    BY <1>8 DEF Commit, SingleClaim
  <2>s. status[cur[w]] = "PROCESSING" /\ tries[w] = attempts[cur[w]]
    BY <1>8 DEF Commit, OwnerInv
  <2>1. OwnerInv'
    BY <1>8, <2>e, <2>o, <2>s DEF Commit, OwnerInv, EffectOnce, LedgerInv
  <2>2. SingleClaim'
    BY <1>8, <2>e, <2>o, <2>s DEF Commit, SingleClaim, EffectOnce, LedgerInv
  <2>3. EffectOnce'
    BY <1>8, <2>e, <2>o, <2>s DEF Commit, EffectOnce, LedgerInv
  <2>4. PhaseInv'
    BY <1>8, <2>e, <2>o, <2>s DEF Commit, PhaseInv, EffectOnce, LedgerInv
  <2>5. LedgerInv'
    BY <1>8, <2>e, <2>o, <2>s DEF Commit, EffectOnce, LedgerInv
  <2>6. NoLoss'
    BY <1>8, <2>e, <2>o, <2>s DEF Commit, NoLoss, EffectOnce, LedgerInv
  <2>7. CountInv'
    BY <1>8, <2>e, <2>o, <2>s DEF Commit, CountInv, EffectOnce, LedgerInv
  <2>8. ExhaustedInv'
    BY <1>8, <2>e, <2>o, <2>s DEF Commit, ExhaustedInv, EffectOnce, LedgerInv
  <2> QED BY <2>1, <2>2, <2>3, <2>4, <2>5, <2>6, <2>7, <2>8
<1>9. ASSUME NEW w \in Workers, HandlerFails(w) PROVE Parts'
  BY <1>9 DEF HandlerFails, OwnerInv, SingleClaim, EffectOnce, PhaseInv,
      LedgerInv, NoLoss, CountInv, ExhaustedInv
<1>10. ASSUME NEW w \in Workers, Retry(w) PROVE Parts'
  <2>e. cur[w] \in Events /\ cur[w] \notin Poison
    BY <1>10, CurType DEF Retry, OwnerInv
  <2>o. \A v \in Workers \ {w} : phase[v] \in Holding => cur[v] # cur[w]
    BY <1>10 DEF Retry, SingleClaim
  <2>s. status[cur[w]] = "PROCESSING" /\ tries[w] = attempts[cur[w]]
    BY <1>10 DEF Retry, OwnerInv
  <2>1. OwnerInv'
    BY <1>10, <2>e, <2>o, <2>s DEF Retry, OwnerInv, EffectOnce, LedgerInv
  <2>2. SingleClaim'
    BY <1>10, <2>e, <2>o, <2>s DEF Retry, SingleClaim, EffectOnce, LedgerInv
  <2>3. EffectOnce'
    BY <1>10, <2>e, <2>o, <2>s DEF Retry, EffectOnce, LedgerInv
  <2>4. PhaseInv'
    BY <1>10, <2>e, <2>o, <2>s DEF Retry, PhaseInv, EffectOnce, LedgerInv
  <2>5. LedgerInv'
    BY <1>10, <2>e, <2>o, <2>s DEF Retry, EffectOnce, LedgerInv
  <2>6. NoLoss'
    BY <1>10, <2>e, <2>o, <2>s DEF Retry, NoLoss, EffectOnce, LedgerInv
  <2>7. CountInv'
    BY <1>10, <2>e, <2>o, <2>s DEF Retry, CountInv, EffectOnce, LedgerInv
  <2>8. ExhaustedInv'
    BY <1>10, <2>e, <2>o, <2>s DEF Retry, ExhaustedInv, EffectOnce, LedgerInv
  <2> QED BY <2>1, <2>2, <2>3, <2>4, <2>5, <2>6, <2>7, <2>8
<1>11. ASSUME NEW w \in Workers, Capture(w) PROVE Parts'
  <2>e. cur[w] \in Events /\ cur[w] \notin Poison
    BY <1>11, CurType DEF Capture, OwnerInv
  <2>o. \A v \in Workers \ {w} : phase[v] \in Holding => cur[v] # cur[w]
    BY <1>11 DEF Capture, SingleClaim
  <2>s. status[cur[w]] = "PROCESSING" /\ tries[w] = attempts[cur[w]]
    BY <1>11 DEF Capture, OwnerInv
  <2>1. OwnerInv'
    BY <1>11, <2>e, <2>o, <2>s DEF Capture, OwnerInv, EffectOnce, LedgerInv
  <2>2. SingleClaim'
    BY <1>11, <2>e, <2>o, <2>s DEF Capture, SingleClaim, EffectOnce, LedgerInv
  <2>3. EffectOnce'
    BY <1>11, <2>e, <2>o, <2>s DEF Capture, EffectOnce, LedgerInv
  <2>4. PhaseInv'
    BY <1>11, <2>e, <2>o, <2>s DEF Capture, PhaseInv, EffectOnce, LedgerInv
  <2>5. LedgerInv'
    BY <1>11, <2>e, <2>o, <2>s DEF Capture, EffectOnce, LedgerInv
  <2>6. NoLoss'
    BY <1>11, <2>e, <2>o, <2>s DEF Capture, NoLoss, EffectOnce, LedgerInv
  <2>7. CountInv'
    BY <1>11, <2>e, <2>o, <2>s DEF Capture, CountInv, EffectOnce, LedgerInv
  <2>8. ExhaustedInv'
    BY <1>11, <2>e, <2>o, <2>s DEF Capture, ExhaustedInv, EffectOnce, LedgerInv
  <2> QED BY <2>1, <2>2, <2>3, <2>4, <2>5, <2>6, <2>7, <2>8
<1>12. ASSUME NEW w \in Workers, MarkDeadLettered(w) PROVE Parts'
  <2>e. cur[w] \in Events /\ cur[w] \notin Poison
    BY <1>12, CurType DEF MarkDeadLettered, OwnerInv
  <2>o. \A v \in Workers \ {w} : phase[v] \in Holding => cur[v] # cur[w]
    BY <1>12 DEF MarkDeadLettered, SingleClaim
  <2>s. status[cur[w]] = "PROCESSING" /\ tries[w] = attempts[cur[w]]
    BY <1>12 DEF MarkDeadLettered, OwnerInv
  <2>1. OwnerInv'
    BY <1>12, <2>e, <2>o, <2>s DEF MarkDeadLettered, OwnerInv, EffectOnce, LedgerInv
  <2>2. SingleClaim'
    BY <1>12, <2>e, <2>o, <2>s DEF MarkDeadLettered, SingleClaim, EffectOnce, LedgerInv
  <2>3. EffectOnce'
    BY <1>12, <2>e, <2>o, <2>s DEF MarkDeadLettered, EffectOnce, LedgerInv
  <2>4. PhaseInv'
    BY <1>12, <2>e, <2>o, <2>s DEF MarkDeadLettered, PhaseInv, EffectOnce, LedgerInv
  <2>5. LedgerInv'
    BY <1>12, <2>e, <2>o, <2>s DEF MarkDeadLettered, LedgerInv, PhaseInv
  <2>6. NoLoss'
    BY <1>12, <2>e, <2>o, <2>s DEF MarkDeadLettered, NoLoss, EffectOnce, LedgerInv
  <2>7. CountInv'
    BY <1>12, <2>e, <2>o, <2>s DEF MarkDeadLettered, CountInv, EffectOnce, LedgerInv
  <2>8. ExhaustedInv'
    BY <1>12, <2>e, <2>o, <2>s DEF MarkDeadLettered, ExhaustedInv, EffectOnce, LedgerInv
  <2> QED BY <2>1, <2>2, <2>3, <2>4, <2>5, <2>6, <2>7, <2>8
<1>13. ASSUME NEW w \in Workers, Ack(w) PROVE Parts'
  <2>1. OwnerInv' BY <1>13 DEF Ack, OwnerInv
  <2>2. SingleClaim' BY <1>13 DEF Ack, SingleClaim
  <2>3. EffectOnce' BY <1>13 DEF Ack, EffectOnce
  <2>4. PhaseInv' BY <1>13 DEF Ack, PhaseInv
  <2>5. LedgerInv' BY <1>13 DEF Ack, LedgerInv
  <2>6. NoLoss' BY <1>13 DEF Ack, NoLoss, PhaseInv
  <2>7. CountInv' BY <1>13 DEF Ack, CountInv
  <2>8. ExhaustedInv' BY <1>13 DEF Ack, ExhaustedInv
  <2> QED BY <2>1, <2>2, <2>3, <2>4, <2>5, <2>6, <2>7, <2>8
<1>14. ASSUME NEW w \in Workers, Nak(w) PROVE Parts'
  BY <1>14 DEF Nak, OwnerInv, SingleClaim, EffectOnce, PhaseInv,
      LedgerInv, NoLoss, CountInv, ExhaustedInv
<1>15. ASSUME NEW w \in Workers, StopBeforeProcess(w) PROVE Parts'
  BY <1>15 DEF StopBeforeProcess, OwnerInv, SingleClaim, EffectOnce, PhaseInv,
      LedgerInv, NoLoss, CountInv, ExhaustedInv
<1>16. ASSUME NEW w \in Workers, DeadLetterRawFails(w) PROVE Parts'
  <2>1. OwnerInv' BY <1>16 DEF DeadLetterRawFails, OwnerInv
  <2>2. SingleClaim' BY <1>16 DEF DeadLetterRawFails, SingleClaim
  <2>3. EffectOnce' BY <1>16 DEF DeadLetterRawFails, EffectOnce
  <2>4. PhaseInv' BY <1>16 DEF DeadLetterRawFails, PhaseInv
  <2>5. LedgerInv' BY <1>16 DEF DeadLetterRawFails, LedgerInv
  <2>6. NoLoss' BY <1>16 DEF DeadLetterRawFails, NoLoss
  <2>7. CountInv' BY <1>16 DEF DeadLetterRawFails, CountInv
  <2>8. ExhaustedInv' BY <1>16 DEF DeadLetterRawFails, ExhaustedInv
  <2> QED BY <2>1, <2>2, <2>3, <2>4, <2>5, <2>6, <2>7, <2>8
<1>17. ASSUME NEW w \in Workers, CaptureFails(w) PROVE Parts'
  <2>e. cur[w] \in Events /\ cur[w] \notin Poison
    BY <1>17, CurType DEF CaptureFails, OwnerInv
  <2>o. \A v \in Workers \ {w} : phase[v] \in Holding => cur[v] # cur[w]
    BY <1>17 DEF CaptureFails, SingleClaim
  <2>s. status[cur[w]] = "PROCESSING" /\ tries[w] = attempts[cur[w]]
    BY <1>17 DEF CaptureFails, OwnerInv
  <2>1. OwnerInv'
    BY <1>17, <2>e, <2>o, <2>s DEF CaptureFails, OwnerInv, EffectOnce, LedgerInv
  <2>2. SingleClaim'
    BY <1>17, <2>e, <2>o, <2>s DEF CaptureFails, SingleClaim, EffectOnce, LedgerInv
  <2>3. EffectOnce'
    BY <1>17, <2>e, <2>o, <2>s DEF CaptureFails, EffectOnce, LedgerInv
  <2>4. PhaseInv'
    BY <1>17, <2>e, <2>o, <2>s DEF CaptureFails, PhaseInv, EffectOnce, LedgerInv
  <2>5. LedgerInv'
    BY <1>17, <2>e, <2>o, <2>s DEF CaptureFails, EffectOnce, LedgerInv
  <2>6. NoLoss'
    BY <1>17, <2>e, <2>o, <2>s DEF CaptureFails, NoLoss, EffectOnce, LedgerInv
  <2>7. CountInv'
    BY <1>17, <2>e, <2>o, <2>s DEF CaptureFails, CountInv, EffectOnce, LedgerInv
  <2>8. ExhaustedInv'
    BY <1>17, <2>e, <2>o, <2>s DEF CaptureFails, ExhaustedInv, EffectOnce, LedgerInv
  <2> QED BY <2>1, <2>2, <2>3, <2>4, <2>5, <2>6, <2>7, <2>8
<1>18. ASSUME NEW w \in Workers, ProcessorError(w) PROVE Parts'
  BY <1>18 DEF ProcessorError, OwnerInv, SingleClaim, EffectOnce, PhaseInv,
      LedgerInv, NoLoss, CountInv, ExhaustedInv
<1>19. ASSUME NEW w \in Workers, Crash(w) PROVE Parts'
  BY <1>19 DEF Crash, OwnerInv, SingleClaim, EffectOnce, PhaseInv,
      LedgerInv, NoLoss, CountInv, ExhaustedInv
<1>20. CASE Tick
  <2>1. OwnerInv' BY <1>20 DEF Tick, OwnerInv
  <2>2. SingleClaim' BY <1>20 DEF Tick, SingleClaim
  <2>3. EffectOnce' BY <1>20 DEF Tick, EffectOnce
  <2>4. PhaseInv' BY <1>20 DEF Tick, PhaseInv
  <2>5. LedgerInv' BY <1>20 DEF Tick, LedgerInv
  <2>6. NoLoss' BY <1>20 DEF Tick, NoLoss
  <2>7. CountInv' BY <1>20 DEF Tick, CountInv
  <2>8. ExhaustedInv' BY <1>20 DEF Tick, ExhaustedInv
  <2> QED BY <2>1, <2>2, <2>3, <2>4, <2>5, <2>6, <2>7, <2>8
<1>21. CASE UNCHANGED vars
  BY <1>21 DEF vars, OwnerInv, SingleClaim, EffectOnce, PhaseInv,
      LedgerInv, NoLoss, CountInv, ExhaustedInv
<1> QED BY <1>1, <1>2, <1>3, <1>4, <1>5, <1>6, <1>7, <1>8, <1>9, <1>10, <1>11, <1>12, <1>13, <1>14, <1>15, <1>16, <1>17, <1>18, <1>19, <1>20, <1>21
      DEF Next, Step, Fault

LEMMA IInvCorrect == ASSUME TimingContract PROVE Spec => []IInv
<1>1. IInv /\ [Next]_vars => IInv'
  BY IInvNext
<1> QED BY <1>1, IInvInit, PTL DEF Spec

\* No two workers hold the claim of one event at once.
THEOREM ClaimIsExclusive ==
    ASSUME TimingContract PROVE Spec => []SingleClaim
<1>1. IInv => SingleClaim
  BY DEF IInv, Parts
<1> QED BY <1>1, IInvCorrect, PTL

\* The business effect of an event is committed once exactly when the
\* ledger says PROCESSED, and never otherwise.
THEOREM EffectIsOnce ==
    ASSUME TimingContract PROVE Spec => []EffectOnce
<1>1. IInv => EffectOnce
  BY DEF IInv, Parts
<1> QED BY <1>1, IInvCorrect, PTL

\* An acknowledged message belongs to a settled event.
THEOREM NothingIsLost ==
    ASSUME TimingContract PROVE Spec => []NoLoss
<1>1. IInv => NoLoss
  BY DEF IInv, Parts
<1> QED BY <1>1, IInvCorrect, PTL

\* Dead-letter rows appear only after the last attempt, and duplicates of a
\* row are paid for by faults.
THEOREM DeadLettersAreJustified ==
    ASSUME TimingContract PROVE Spec => []DeadLettersJustified
<1>1. IInv => DeadLettersJustified
  BY DEF IInv, Parts, TypeOK, CountInv, ExhaustedInv, DeadLettersJustified
<1> QED BY <1>1, IInvCorrect, PTL

\* Although finish and fail update the row unconditionally, PROCESSED and
\* DEAD_LETTERED are never overwritten.
THEOREM TerminalStaysFinal ==
    ASSUME TimingContract PROVE Spec => TerminalIsFinal
<1> DEFINE Final ==
      \A e \in Events : status[e] \in TerminalStatuses => status'[e] = status[e]
<1>1. IInv /\ [Next]_vars => [Final]_vars
  <2> SUFFICES ASSUME IInv, Next PROVE Final
    OBVIOUS
  <2> USE DEF IInv, Parts, TypeOK, TerminalStatuses, Holding, OwnerInv,
          ledgerVars, SetStatus
  <2>1. ASSUME NEW w \in Workers, Step(w) PROVE Final
    BY <2>1, CurType
    DEF Step, DeadLetterRaw, Claim, Claimable, Refuse, Commit, HandlerFails,
        Retry, Capture, MarkDeadLettered, Ack, Nak
  <2>2. ASSUME NEW w \in Workers, Fault(w) PROVE Final
    BY <2>2, CurType
    DEF Fault, StopBeforeProcess, DeadLetterRawFails, CaptureFails,
        ProcessorError, Crash
  <2>3. CASE Tick
    BY <2>3 DEF Tick
  <2> QED BY <2>1, <2>2, <2>3
          DEF Next, Publish, Republish, AckTimeout, Fetch
<1> QED BY <1>1, IInvCorrect, PTL DEF Spec, TerminalIsFinal

-----------------------------------------------------------------------------
(* The promise to the handlers *)

verdicts == [e \in Events |-> Verdict(e)]
acked == {e \in Events : msg[e] = "acked"}

\* A step decides nothing, acknowledges nothing and stores no event again.
LEMMA DeliveryQuiet ==
    ASSUME UNCHANGED <<status, effect>>,
           \A e \in Events : e \in Poison /\ dlq'[e] # dlq[e] => dlq[e] > 0 /\ dlq'[e] > 0,
           \A e \in Events : msg'[e] = "acked" <=> msg[e] = "acked"
    PROVE  UNCHANGED Contract!cvars
<1>1. \A e \in Events : Verdict(e)' = Verdict(e)
  BY DEF Verdict
<1>2. verdicts' = verdicts
  BY <1>1 DEF verdicts
<1>3. acked' = acked
  BY DEF acked
<1> QED BY <1>2, <1>3 DEF Contract!cvars, verdicts, acked

\* A step that decides event e and no other.
LEMMA DeliveryDecides ==
    ASSUME NEW e \in Events, NEW to, Verdict(e)' = to,
           \A f \in Events : f # e => Verdict(f)' = Verdict(f)
    PROVE  verdicts' = [verdicts EXCEPT ![e] = to]
  BY DEF verdicts

\* The three steps in which a worker decides an event, and the one in which
\* it acknowledges it, are steps of the contract.
LEMMA DeliveryCommit ==
    ASSUME IInv, NEW w \in Workers, Commit(w)
    PROVE  Contract!Handle(cur[w])
<1>1. PICK e \in Events : e = cur[w] /\ e \notin Poison /\ status[e] = "PROCESSING"
  BY CurType DEF IInv, Parts, OwnerInv, Commit, Holding
<1>2. /\ status' = [status EXCEPT ![e] = "PROCESSED"]
      /\ effect' = [effect EXCEPT ![e] = @ + 1] /\ UNCHANGED <<dlq, msg>>
  BY <1>1 DEF Commit, SetStatus
<1>3. Verdict(e) = "open"
  BY <1>1 DEF Verdict
<1>4. Verdict(e)' = "handled" /\ \A f \in Events : f # e => Verdict(f)' = Verdict(f)
  BY <1>1, <1>2 DEF Verdict, IInv, TypeOK
<1>5. verdicts' = [verdicts EXCEPT ![e] = "handled"]
  BY <1>1, <1>4, DeliveryDecides
<1>6. verdicts[e] = "open" /\ acked' = acked
  BY <1>1, <1>2, <1>3 DEF verdicts, acked
<1> QED BY <1>1, <1>2, <1>5, <1>6 DEF Contract!Handle, verdicts, acked

LEMMA DeliveryDead ==
    ASSUME IInv, NEW w \in Workers, MarkDeadLettered(w)
    PROVE  Contract!GiveUp(cur[w])
<1>1. PICK e \in Events : e = cur[w] /\ e \notin Poison /\ status[e] = "PROCESSING"
  BY CurType DEF IInv, Parts, OwnerInv, MarkDeadLettered, Holding
<1>2. status' = [status EXCEPT ![e] = "DEAD_LETTERED"] /\ UNCHANGED <<effect, dlq, msg>>
  BY <1>1 DEF MarkDeadLettered, SetStatus
<1>3. Verdict(e) = "open"
  BY <1>1 DEF Verdict
<1>4. Verdict(e)' = "given up" /\ \A f \in Events : f # e => Verdict(f)' = Verdict(f)
  BY <1>1, <1>2 DEF Verdict, IInv, TypeOK
<1>5. verdicts' = [verdicts EXCEPT ![e] = "given up"]
  BY <1>1, <1>4, DeliveryDecides
<1>6. verdicts[e] = "open" /\ acked' = acked
  BY <1>1, <1>2, <1>3 DEF verdicts, acked
<1> QED BY <1>1, <1>2, <1>5, <1>6 DEF Contract!GiveUp, verdicts, acked

\* The first raw dead letter decides an event that cannot be decoded; those
\* of later deliveries change nothing.
LEMMA DeliveryRaw ==
    ASSUME IInv, NEW w \in Workers, phase[w] = "fetched", cur[w] \in Poison,
           RecordDeadLetter(cur[w]) \/ UNCHANGED dlq, UNCHANGED <<status, effect, msg>>
    PROVE  Contract!GiveUp(cur[w]) \/ UNCHANGED Contract!cvars
<1>1. PICK e \in Events : e = cur[w] /\ e \in Poison /\ dlq[e] \in Nat
                          /\ dlq \in [Events -> Nat]
  BY CurType DEF IInv, TypeOK
<1>2. CASE UNCHANGED dlq \/ dlq[e] > 0
  <2>1. \A f \in Events : f \in Poison /\ dlq'[f] # dlq[f] => dlq[f] > 0 /\ dlq'[f] > 0
    BY <1>1, <1>2 DEF RecordDeadLetter
  <2> QED BY <2>1, DeliveryQuiet
<1>3. CASE dlq' = [dlq EXCEPT ![e] = @ + 1] /\ ~(dlq[e] > 0)
  <2>1. Verdict(e) = "open" /\ Verdict(e)' = "given up"
    BY <1>1, <1>3 DEF Verdict
  <2>2. \A f \in Events : f # e => Verdict(f)' = Verdict(f)
    BY <1>1, <1>3 DEF Verdict
  <2>3. verdicts' = [verdicts EXCEPT ![e] = "given up"]
    BY <1>1, <2>1, <2>2, DeliveryDecides
  <2>4. verdicts[e] = "open" /\ acked' = acked
    BY <1>1, <2>1 DEF verdicts, acked
  <2> QED BY <1>1, <2>3, <2>4 DEF Contract!GiveUp, verdicts, acked
<1> QED BY <1>1, <1>2, <1>3 DEF RecordDeadLetter

LEMMA DeliveryAck ==
    ASSUME IInv, NEW w \in Workers, Ack(w)
    PROVE  \E e \in Events : Contract!LetGo(e)
<1>1. PICK e \in Events : e = cur[w] /\ Settled(e) /\ msg \in [Events -> MsgStates]
  BY CurType DEF IInv, Parts, PhaseInv, Ack, TypeOK
<1>2. msg' = [msg EXCEPT ![e] = "acked"] /\ UNCHANGED <<status, effect, dlq>>
  BY <1>1 DEF Ack, ledgerVars
<1>3. Verdict(e) # "open"
  BY <1>1 DEF Verdict, Settled
<1>4. verdicts' = verdicts /\ verdicts[e] # "open"
  BY <1>1, <1>2, <1>3 DEF verdicts, Verdict
<1>5. acked' = acked \cup {e}
  BY <1>1, <1>2 DEF acked
<1>6. Contract!LetGo(e)
  BY <1>2, <1>4, <1>5 DEF Contract!LetGo, verdicts, acked
<1> QED BY <1>6

LEMMA DeliveryAgain ==
    ASSUME IInv, NEW e \in Events, Republish(e)
    PROVE  Contract!Again(e)
<1>1. /\ msg' = [msg EXCEPT ![e] = "ready"] /\ UNCHANGED <<status, effect, dlq>>
      /\ msg \in [Events -> MsgStates]
  BY DEF Republish, ledgerVars, IInv, TypeOK
<1>2. verdicts' = verdicts
  BY <1>1 DEF verdicts, Verdict
<1>3. acked' = acked \ {e}
  BY <1>1 DEF acked
<1> QED BY <1>1, <1>2, <1>3 DEF Contract!Again, verdicts, acked

LEMMA DeliveryStep ==
    ASSUME IInv, [Next]_vars
    PROVE  [Contract!Step]_(Contract!cvars)
<1>a. /\ msg \in [Events -> MsgStates] /\ status \in [Events -> Statuses]
      /\ \A w \in Workers : phase[w] # "idle" => cur[w] \in Events
  BY CurType DEF IInv, TypeOK
<1>q. ASSUME UNCHANGED <<status, effect, dlq>>,
             \A e \in Events : msg'[e] = "acked" <=> msg[e] = "acked"
      PROVE  UNCHANGED Contract!cvars
  BY <1>q, DeliveryQuiet
<1>v. ASSUME NEW w \in Workers, phase[w] # "idle", cur[w] \notin Poison,
             NEW s \in {"PROCESSING", "RETRYING"},
             status[cur[w]] \notin TerminalStatuses,
             status' = [status EXCEPT ![cur[w]] = s],
             UNCHANGED <<effect, msg>>, \A e \in Poison : dlq'[e] = dlq[e]
      PROVE  UNCHANGED Contract!cvars
  <2>1. \A e \in Events : Verdict(e)' = Verdict(e)
    BY <1>a, <1>v DEF Verdict, TerminalStatuses
  <2>2. verdicts' = verdicts /\ acked' = acked
    BY <1>v, <2>1 DEF verdicts, acked
  <2> QED BY <1>v, <2>2 DEF Contract!cvars, verdicts, acked
<1>d. ASSUME NEW w \in Workers, phase[w] \in Holding
      PROVE  /\ cur[w] \in Events /\ cur[w] \notin Poison
             /\ status[cur[w]] \notin TerminalStatuses
  BY <1>a, <1>d DEF IInv, Parts, OwnerInv, TerminalStatuses, Holding
<1>1. ASSUME NEW e \in Events, Publish(e) \/ AckTimeout(e) PROVE UNCHANGED Contract!cvars
  <2>1. /\ UNCHANGED <<status, effect, dlq>>
        /\ msg[e] # "acked" /\ msg' = [msg EXCEPT ![e] = "ready"]
    BY <1>1 DEF Publish, AckTimeout, ledgerVars
  <2> QED BY <1>a, <1>q, <2>1
<1>2. ASSUME NEW w \in Workers, NEW e \in Events, Fetch(w, e) PROVE UNCHANGED Contract!cvars
  <2>1. /\ UNCHANGED <<status, effect, dlq>>
        /\ msg[e] # "acked" /\ msg' = [msg EXCEPT ![e] = "out"]
    BY <1>2 DEF Fetch, ledgerVars
  <2> QED BY <1>a, <1>q, <2>1
<1>3. CASE Tick
  <2>1. /\ UNCHANGED <<status, effect, dlq>>
        /\ msg' = [e \in Events |-> IF msg[e] = "delayed" THEN "ready" ELSE msg[e]]
    BY <1>3 DEF Tick
  <2> QED BY <1>a, <1>q, <2>1
<1>4. ASSUME NEW w \in Workers, DeadLetterRaw(w) \/ DeadLetterRawFails(w)
      PROVE  Contract!GiveUp(cur[w]) \/ UNCHANGED Contract!cvars
  BY <1>4, DeliveryRaw DEF DeadLetterRaw, DeadLetterRawFails, ledgerVars
<1>5. ASSUME NEW w \in Workers, Claim(w) PROVE UNCHANGED Contract!cvars
  BY <1>5, <1>v DEF Claim, Claimable
<1>6. ASSUME NEW w \in Workers,
             Refuse(w) \/ HandlerFails(w) \/ StopBeforeProcess(w) \/ ProcessorError(w)
             \/ Crash(w)
      PROVE  UNCHANGED Contract!cvars
  BY <1>6, <1>q DEF Refuse, HandlerFails, StopBeforeProcess, ProcessorError, Crash,
                    ledgerVars
<1>7. ASSUME NEW w \in Workers, Retry(w) PROVE UNCHANGED Contract!cvars
  BY <1>7, <1>d, <1>v DEF Retry, SetStatus, Holding
<1>8. ASSUME NEW w \in Workers, Capture(w) PROVE UNCHANGED Contract!cvars
  <2>1. phase[w] \in Holding /\ RecordDeadLetter(cur[w]) /\ UNCHANGED <<status, effect, msg>>
    BY <1>8 DEF Capture, Holding, ledgerVars
  <2>2. \A e \in Events : e \in Poison => dlq'[e] = dlq[e]
    BY <1>d, <2>1 DEF RecordDeadLetter, IInv, TypeOK
  <2> QED BY <2>1, <2>2, DeliveryQuiet
<1>9. ASSUME NEW w \in Workers, CaptureFails(w) PROVE UNCHANGED Contract!cvars
  <2>1. /\ phase[w] \in Holding /\ phase[w] # "idle"
        /\ RecordDeadLetter(cur[w]) \/ UNCHANGED dlq
        /\ UNCHANGED <<effect, msg>> /\ status' = [status EXCEPT ![cur[w]] = "RETRYING"]
    BY <1>9 DEF CaptureFails, Holding, SetStatus
  <2>2. \A e \in Poison : dlq'[e] = dlq[e]
    BY <1>d, <2>1, WorkerAssumption DEF RecordDeadLetter, IInv, TypeOK
  <2> QED BY <1>d, <1>v, <2>1, <2>2
<1>10. ASSUME NEW w \in Workers, Nak(w) PROVE UNCHANGED Contract!cvars
  <2>1. /\ UNCHANGED <<status, effect, dlq>> /\ cur[w] \in Events
        /\ msg' = [msg EXCEPT ![cur[w]] = IF @ = "acked" THEN @ ELSE "delayed"]
    BY <1>a, <1>10 DEF Nak, ledgerVars
  <2> QED BY <1>a, <1>q, <2>1
<1>11. ASSUME NEW w \in Workers, Commit(w) \/ MarkDeadLettered(w) \/ Ack(w)
       PROVE  Contract!Step
  <2>1. cur[w] \in Events
    BY <1>a, <1>11 DEF Commit, MarkDeadLettered, Ack
  <2>2. CASE Commit(w)
    BY <2>1, <2>2, DeliveryCommit DEF Contract!Step
  <2>3. CASE MarkDeadLettered(w)
    BY <2>1, <2>3, DeliveryDead DEF Contract!Step
  <2>4. CASE Ack(w)
    BY <2>4, DeliveryAck DEF Contract!Step
  <2> QED BY <1>11, <2>2, <2>3, <2>4
<1>12. ASSUME NEW e \in Events, Republish(e) PROVE Contract!Step
  BY <1>12, DeliveryAgain DEF Contract!Step
<1>13. CASE UNCHANGED vars
  BY <1>13, <1>q DEF vars, ledgerVars
<1>14. ASSUME NEW w \in Workers, Contract!GiveUp(cur[w]), phase[w] # "idle" PROVE Contract!Step
  BY <1>a, <1>14 DEF Contract!Step
<1>15. ASSUME NEW w \in Workers, Step(w) \/ Fault(w)
       PROVE  [Contract!Step]_(Contract!cvars)
  <2>1. CASE DeadLetterRaw(w) \/ DeadLetterRawFails(w)
    BY <1>4, <1>14, <2>1 DEF DeadLetterRaw, DeadLetterRawFails
  <2> QED BY <1>5, <1>6, <1>7, <1>8, <1>9, <1>10, <1>11, <1>15, <2>1 DEF Step, Fault
<1> QED BY <1>1, <1>2, <1>3, <1>12, <1>13, <1>15 DEF Next

\* Under the timing contract the replicas, with their redeliveries, retries,
\* timeouts and crashes, do what EventContract promises: one decision for each
\* event, with one effect or a dead letter, and no acknowledgement before it.
THEOREM DeliveryRefinement ==
    ASSUME TimingContract PROVE Spec => ImplementsDelivery
<1>1. Init => Contract!Start
  <2> SUFFICES ASSUME Init PROVE Contract!Start
    OBVIOUS
  <2>1. \A e \in Events : Verdict(e) = "open" /\ msg[e] # "acked"
    BY DEF Init, Verdict
  <2> QED BY <2>1 DEF Init, Contract!Start
<1>2. IInv /\ [Next]_vars => [Contract!Step]_(Contract!cvars)
  BY DeliveryStep
<1> QED BY <1>1, <1>2, IInvCorrect, PTL DEF Spec, ImplementsDelivery,
        Contract!Promise

-----------------------------------------------------------------------------
(***************************************************************************)
(* The publishing half, OutboxRelay, for any rows and any number of        *)
(* relays, batch size, lease and fault bound.  NoSilentDrop holds however  *)
(* long a batch takes; SingleOwner speaks of relays that have not          *)
(* outlasted their lease.  The dead letters of the relay (captured) are    *)
(* rows of the same table as those of the workers (dlq).                   *)
(***************************************************************************)
LEMMA RelayTypeInit == RelayInit => RelayTypeOK
  BY RelayAssumption DEF RelayInit, RelayTypeOK

LEMMA RelayTypeNext ==
    RelayTypeOK /\ [RelayNext]_outboxVars => RelayTypeOK'
<1> SUFFICES ASSUME RelayTypeOK, [RelayNext]_outboxVars PROVE RelayTypeOK'
  OBVIOUS
<1> USE DEF RelayTypeOK, rowVars, relayVars, RelayFault,
        Available, SentRows, Store, Idle
<1>1. ASSUME NEW e \in Rows, Stage(e) PROVE RelayTypeOK'
  BY <1>1 DEF Stage
<1>2. ASSUME NEW e \in Rows, GrowOld(e) PROVE RelayTypeOK'
  BY <1>2 DEF GrowOld
<1>3. ASSUME NEW e \in Rows, WindowCloses(e) PROVE RelayTypeOK'
  BY <1>3 DEF WindowCloses
<1>4. ASSUME NEW e \in Rows, DeleteSent(e) PROVE RelayTypeOK'
  BY RelayAssumption, <1>4 DEF DeleteSent
<1>5. ASSUME NEW r \in Relays, Lease(r) PROVE RelayTypeOK'
  BY RelayAssumption, <1>5 DEF Lease
<1>6. ASSUME NEW r \in Relays, NEW e \in Rows, PublishOk(r, e)
      PROVE  RelayTypeOK'
  BY <1>6 DEF PublishOk
<1>7. ASSUME NEW r \in Relays, NEW e \in Rows, PublishTooLarge(r, e)
      PROVE  RelayTypeOK'
  BY RelayAssumption, <1>7 DEF PublishTooLarge
<1>8. ASSUME NEW r \in Relays, NEW e \in Rows, PublishRaises(r, e)
      PROVE  RelayTypeOK'
  <2>1. stored' \in [Rows -> Nat] /\ window' \in [Rows -> BOOLEAN]
    <3>1. CASE Store(e) BY <3>1
    <3>2. CASE UNCHANGED <<stored, window>> BY <3>2
    <3> QED BY <1>8, <3>1, <3>2 DEF PublishRaises
  <2>2. /\ relay' = [relay EXCEPT ![r] = "marking"]
        /\ todo' = [todo EXCEPT ![r] = {}]
        /\ faults < MaxFaults /\ faults' = faults + 1
        /\ UNCHANGED <<rowVars, captured, published, busy, swept>>
    BY <1>8 DEF PublishRaises
  <2> QED BY RelayAssumption, <2>1, <2>2
<1>9. ASSUME NEW r \in Relays, EndOfBatch(r) PROVE RelayTypeOK'
  BY <1>9 DEF EndOfBatch
<1>10. ASSUME NEW r \in Relays, MarkSent(r) PROVE RelayTypeOK'
  BY RelayAssumption, <1>10 DEF MarkSent
<1>11. ASSUME NEW r \in Relays, CrashOrMarkFails(r) PROVE RelayTypeOK'
  BY RelayAssumption, <1>11 DEF CrashOrMarkFails
<1>12. CASE SweepSelect
  BY <1>12 DEF SweepSelect
<1>13. CASE SweepCommit
  BY RelayAssumption, <1>13 DEF SweepCommit
<1>14. CASE SweepFails
  BY RelayAssumption, <1>14 DEF SweepFails
<1>15. CASE RelayTick
  BY RelayAssumption, <1>15 DEF RelayTick
<1>16. CASE UNCHANGED outboxVars
  BY <1>16 DEF outboxVars
<1> QED BY <1>1, <1>2, <1>3, <1>4, <1>5, <1>6, <1>7, <1>8, <1>9, <1>10,
           <1>11, <1>12, <1>13, <1>14, <1>15, <1>16 DEF RelayNext,
        RelayStep

\* TypeOK holds in every reachable state.
THEOREM RelayTypeCorrect == RelaySpec => []RelayTypeOK
  BY RelayTypeInit, RelayTypeNext, PTL DEF RelaySpec

-----------------------------------------------------------------------------
\* What a relay is about to mark sent is in the stream, and the stream
\* remembers the id of nothing that it never stored.
PublishedInv ==
    /\ \A r \in Relays : \A e \in published[r] : stored[e] > 0
    /\ \A e \in Rows : window[e] => stored[e] > 0

DropInv == RelayTypeOK /\ PublishedInv /\ NoSilentDrop

LEMMA DropInit == RelayInit => DropInv
  BY RelayTypeInit DEF RelayInit, DropInv, PublishedInv, NoSilentDrop

LEMMA DropNext ==
    DropInv /\ [RelayNext]_outboxVars => DropInv'
<1> SUFFICES ASSUME DropInv, [RelayNext]_outboxVars
             PROVE  (PublishedInv /\ NoSilentDrop)'
  BY RelayTypeNext DEF DropInv
<1> USE DEF DropInv, RelayTypeOK, rowVars, relayVars,
        SentRows, Store, Idle,
        PublishedInv, NoSilentDrop
<1>1. ASSUME NEW e \in Rows,
             Stage(e) \/ GrowOld(e) \/ WindowCloses(e) \/ DeleteSent(e)
      PROVE  (PublishedInv /\ NoSilentDrop)'
  BY <1>1 DEF Stage, GrowOld, WindowCloses, DeleteSent
<1>2. ASSUME NEW r \in Relays, Lease(r)
      PROVE  (PublishedInv /\ NoSilentDrop)'
  BY <1>2 DEF Lease
<1>3. ASSUME NEW r \in Relays, NEW e \in Rows, PublishOk(r, e)
      PROVE  (PublishedInv /\ NoSilentDrop)'
  <2>1. /\ stored'[e] > 0
        /\ \A d \in Rows : stored[d] > 0 => stored'[d] > 0
    BY <1>3 DEF PublishOk
  <2>2. PublishedInv'
    BY <1>3, <2>1 DEF PublishOk
  <2> QED BY <1>3, <2>1, <2>2 DEF PublishOk
<1>4. ASSUME NEW r \in Relays, NEW e \in Rows, PublishTooLarge(r, e)
      PROVE  (PublishedInv /\ NoSilentDrop)'
  BY <1>4 DEF PublishTooLarge
<1>5. ASSUME NEW r \in Relays, NEW e \in Rows, PublishRaises(r, e)
      PROVE  (PublishedInv /\ NoSilentDrop)'
  BY <1>5, SMTT(30) DEF PublishRaises
<1>6. ASSUME NEW r \in Relays,
             EndOfBatch(r) \/ MarkSent(r) \/ CrashOrMarkFails(r)
      PROVE  (PublishedInv /\ NoSilentDrop)'
  <2>1. CASE EndOfBatch(r)       BY <2>1 DEF EndOfBatch
  <2>2. CASE MarkSent(r)         BY <2>2 DEF MarkSent
  <2>3. CASE CrashOrMarkFails(r) BY <2>3 DEF CrashOrMarkFails
  <2> QED BY <1>6, <2>1, <2>2, <2>3
<1>7. CASE SweepSelect \/ SweepCommit \/ SweepFails
  <2>1. CASE SweepSelect BY <2>1 DEF SweepSelect
  <2>2. CASE SweepCommit BY <2>2 DEF SweepCommit
  <2>3. CASE SweepFails  BY <2>3 DEF SweepFails
  <2> QED BY <1>7, <2>1, <2>2, <2>3
<1>8. CASE RelayTick \/ UNCHANGED outboxVars
  BY <1>8 DEF RelayTick, outboxVars
<1> QED BY <1>1, <1>2, <1>3, <1>4, <1>5, <1>6, <1>7, <1>8 DEF RelayNext,
        RelayStep

\* Whatever crashes and however long a batch takes, a row leaves the outbox
\* only for the stream or for the dead-letter table.
THEOREM NothingDropped == RelaySpec => []NoSilentDrop
<1>1. DropInv => NoSilentDrop
  BY DEF DropInv
<1> QED BY <1>1, DropInit, DropNext, PTL DEF RelaySpec

\* A sent row never becomes unsent again.
THEOREM SentStaysSent == RelaySpec => SentIsFinal
<1> DEFINE Final == \A e \in Rows : row[e] \in {"sent", "deleted"} =>
                        row'[e] \in {"sent", "deleted"}
<1>1. RelayTypeOK /\ [RelayNext]_outboxVars => [Final]_outboxVars
  BY DEF RelayTypeOK, RelayNext, RelayStep, rowVars,
        SentRows, Stage, GrowOld,
         WindowCloses, DeleteSent, Lease, PublishOk,
        PublishTooLarge,
         PublishRaises, EndOfBatch, MarkSent,
        CrashOrMarkFails, SweepSelect,
         SweepCommit, SweepFails, RelayTick
<1> QED BY <1>1, RelayTypeCorrect, PTL DEF RelaySpec, SentIsFinal

-----------------------------------------------------------------------------
(* SingleOwner, together with why nobody else can lease a row in hand: it  *)
(* is sent, or what is left of its lease and the time its relay has been   *)
(* busy make up at least LeaseSeconds.                                     *)
LeaseInv ==
    \A r \in Relays : \A e \in InHand(r) :
        /\ row[e] # "absent"
        /\ row[e] = "unsent" => lease[e] + busy[r] >= LeaseSeconds

RelayOwnerInv == RelayTypeOK /\ LeaseInv /\ SingleOwner

LEMMA RelayOwnerInit == RelayInit => RelayOwnerInv
  BY RelayTypeInit DEF RelayInit, RelayOwnerInv, LeaseInv, SingleOwner,
        InHand

\* A row that a relay has in hand cannot be leased by another one.
LEMMA InHandNotAvailable ==
    ASSUME RelayOwnerInv, NEW r \in Relays, busy[r] < LeaseSeconds,
           NEW e \in InHand(r)
    PROVE  e \notin Available
  BY RelayAssumption DEF RelayOwnerInv, RelayTypeOK, LeaseInv, InHand, Available

LEMMA RelayOwnerNext ==
    RelayOwnerInv /\ [RelayNext]_outboxVars => RelayOwnerInv'
<1> SUFFICES ASSUME RelayOwnerInv, [RelayNext]_outboxVars
             PROVE  (LeaseInv /\ SingleOwner)'
  BY RelayTypeNext DEF RelayOwnerInv
<1>n. \A r \in Relays : busy[r] < LeaseSeconds => InHand(r) \cap Available = {}
  BY InHandNotAvailable
<1> USE DEF RelayOwnerInv, RelayTypeOK, rowVars, relayVars,
        SentRows, Store, Idle,
        LeaseInv, SingleOwner, InHand
<1>1. ASSUME NEW e \in Rows,
             Stage(e) \/ GrowOld(e) \/ WindowCloses(e) \/ DeleteSent(e)
      PROVE  (LeaseInv /\ SingleOwner)'
  <2>1. CASE Stage(e)         BY <2>1 DEF Stage
  <2>2. CASE GrowOld(e)       BY <2>2 DEF GrowOld
  <2>3. CASE WindowCloses(e)  BY <2>3 DEF WindowCloses
  <2>4. CASE DeleteSent(e)    BY <2>4 DEF DeleteSent
  <2> QED BY <1>1, <2>1, <2>2, <2>3, <2>4
<1>2. ASSUME NEW r \in Relays, Lease(r)
      PROVE  (LeaseInv /\ SingleOwner)'
  <2>1. PICK B \in SUBSET Available :
          /\ lease' = [e \in Rows |-> IF e \in B THEN LeaseSeconds ELSE lease[e]]
          /\ todo' = [todo EXCEPT ![r] = B]
    BY <1>2 DEF Lease
  <2>2. \A q \in Relays : busy[q] < LeaseSeconds => InHand(q) \cap B = {}
    BY <1>n, <2>1
  <2>3. LeaseInv'
    BY RelayAssumption, <1>2, <2>1, <2>2 DEF Lease, Available
  <2>4. SingleOwner'
    BY RelayAssumption, <1>2, <2>1, <2>2 DEF Lease
  <2> QED BY <2>3, <2>4
<1>3. ASSUME NEW r \in Relays, NEW e \in Rows, PublishOk(r, e)
      PROVE  (LeaseInv /\ SingleOwner)'
  <2>1. /\ \A q \in Relays : InHand(q)' = InHand(q)
        /\ UNCHANGED <<row, lease, busy>>
    BY <1>3 DEF PublishOk
  <2> QED BY <2>1
<1>4. ASSUME NEW r \in Relays, NEW e \in Rows, PublishTooLarge(r, e)
      PROVE  (LeaseInv /\ SingleOwner)'
  BY <1>4 DEF PublishTooLarge
<1>5. ASSUME NEW r \in Relays, NEW e \in Rows, PublishRaises(r, e)
      PROVE  (LeaseInv /\ SingleOwner)'
  BY <1>5 DEF PublishRaises
<1>6. ASSUME NEW r \in Relays,
             EndOfBatch(r) \/ MarkSent(r) \/ CrashOrMarkFails(r)
      PROVE  (LeaseInv /\ SingleOwner)'
  <2>1. CASE EndOfBatch(r) BY <2>1 DEF EndOfBatch
  <2>2. CASE MarkSent(r)
    <3>1. /\ \A q \in Relays : InHand(q)' \subseteq InHand(q)
          /\ \A q \in Relays : InHand(q)' # {} => busy'[q] = busy[q]
      BY <2>2 DEF MarkSent
    <3>2. \A e \in Rows : row'[e] # "absent" \/ row[e] = "absent"
      BY <2>2 DEF MarkSent
    <3>3. \A e \in Rows : row'[e] = "unsent" =>
              row[e] = "unsent" /\ lease'[e] = lease[e]
      BY <2>2 DEF MarkSent
    <3>4. LeaseInv'
      BY <3>1, <3>2, <3>3
    <3>5. SingleOwner'
      BY <3>1
    <3> QED BY <3>4, <3>5
  <2>3. CASE CrashOrMarkFails(r) BY <2>3 DEF CrashOrMarkFails
  <2> QED BY <1>6, <2>1, <2>2, <2>3
<1>7. CASE SweepSelect \/ SweepCommit \/ SweepFails
  <2>1. CASE SweepSelect  BY <2>1 DEF SweepSelect
  <2>2. CASE SweepCommit  BY <2>2 DEF SweepCommit
  <2>3. CASE SweepFails   BY <2>3 DEF SweepFails
  <2> QED BY <1>7, <2>1, <2>2, <2>3
<1>8. CASE RelayTick
  BY RelayAssumption, <1>8 DEF RelayTick
<1>9. CASE UNCHANGED outboxVars
  BY <1>9 DEF outboxVars
<1> QED BY <1>1, <1>2, <1>3, <1>4, <1>5, <1>6, <1>7, <1>8, <1>9
        DEF RelayNext, RelayStep

\* A row is in the hands of two relays only while one of them has outlasted
\* its lease.
THEOREM OwnerIsUnique == RelaySpec => []SingleOwner
<1>1. RelayOwnerInv /\ [RelayNext]_outboxVars => RelayOwnerInv'
  BY RelayOwnerNext
<1>2. RelayOwnerInv => SingleOwner
  BY DEF RelayOwnerInv
<1> QED BY <1>1, <1>2, RelayOwnerInit, PTL DEF RelaySpec

-----------------------------------------------------------------------------
(* The two halves together.  The stream is where they meet: a message of   *)
(* the consumers exists exactly for the events that a relay has stored.    *)
(* Nothing else is shared, so a step of the pipeline is a step of one half *)
(* or, when a relay stores an event, of both.                              *)
Handoff == \A e \in Events : stored[e] > 0 <=> msg[e] # "none"

\* Where an event can be once its outbox row is marked sent: in the
\* dead-letter table, with the consumers, or decided by them.
Accounted(e) ==
    \/ captured[e] > 0
    \/ msg[e] \in {"ready", "delayed", "out"}
    \/ Settled(e)

EndToEnd == \A e \in Events : row[e] \in {"sent", "deleted"} => Accounted(e)

\* From the business transaction to the handler's effect nothing is lost: an
\* event whose row has left the outbox has a dead letter, is still to be
\* delivered, or has had its effect or a dead letter of a worker, through any
\* crashes, timeouts and redeliveries of both halves.
THEOREM PipelineKeepsEvents ==
    ASSUME TimingContract, Rows = Events
    PROVE  Spec /\ RelaySpec /\ []Handoff => []EndToEnd
<1>1. TypeOK /\ NoLoss /\ NoSilentDrop /\ Handoff => EndToEnd
  BY DEF TypeOK, MsgStates, NoLoss, NoSilentDrop, Handoff, EndToEnd,
        Accounted
<1>2. Spec => []NoLoss
  BY NothingIsLost
<1>3. RelaySpec => []NoSilentDrop
  BY NothingDropped
<1> QED BY <1>1, <1>2, <1>3, TypeCorrect, PTL

=============================================================================
