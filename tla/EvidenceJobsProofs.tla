------------------------- MODULE EvidenceJobsProofs -------------------------
(***************************************************************************)
(* Proofs about EvidenceJobs for any providers, agents, attempt limit and  *)
(* lease: the published window is true and covers what was scheduled, and  *)
(* the jobs implement EvidenceContract.                                    *)
(***************************************************************************)
EXTENDS EvidenceJobs, TLAPS

LEMMA LoopFacts ==
    ASSUME NEW l \in Loops
    PROVE  ProviderOf(l) \in Providers /\ l \in Emitters
  BY DEF Loops, ProviderOf, Emitters

LEMMA AggregateType ==
    ASSUME TypeOK PROVE Aggregate \in Payloads
  BY EvidenceAssumption DEF TypeOK, Aggregate, Payloads, Unavailable, NoEntry

LEMMA TypeInit == Init => TypeOK
<1> SUFFICES ASSUME Init PROVE TypeOK
  OBVIOUS
<1> USE EvidenceAssumption DEF Init
<1>1. status \in [Providers -> Statuses]
  BY DEF Statuses
<1>2. phase \in [Emitters -> {"idle", "collecting"} \cup Emitting]
  OBVIOUS
<1>3. snap \in [Emitters -> Payloads \cup {NoPayload}] /\ window \in Payloads \cup {NoPayload}
  OBVIOUS
<1>4. /\ attempts \in [Providers -> 0..MaxAttempts]
      /\ left \in [Providers -> 0..LeaseSeconds]
      /\ result \in [Providers -> 0..MaxAttempts]
      /\ lease \in [Loops -> 0..MaxAttempts]
  OBVIOUS
<1>5. strict \in [Providers -> BOOLEAN] /\ late \in [Providers -> BOOLEAN]
  OBVIOUS
<1> QED BY <1>1, <1>2, <1>3, <1>4, <1>5 DEF TypeOK

LEMMA TypeNext == TypeOK /\ [Next]_vars => TypeOK'
<1> SUFFICES ASSUME TypeOK, [Next]_vars PROVE TypeOK'
  OBVIOUS
<1> USE EvidenceAssumption
<1> USE DEF TypeOK, jobVars, Goto, Done, Statuses, Final, Emitting
<1>1. ASSUME NEW S \in SUBSET Providers, NEW b \in BOOLEAN, Schedule(S, b)
      PROVE  TypeOK'
  BY <1>1 DEF Schedule
<1>2. ASSUME NEW l \in Loops, Lease(l) PROVE TypeOK'
  BY <1>2, LoopFacts DEF Lease, Available, Expired
<1>3. ASSUME NEW l \in Loops, NEW ok \in BOOLEAN, Complete(l, ok) PROVE TypeOK'
  BY <1>3, LoopFacts DEF Complete
<1>4. ASSUME NEW l \in Loops, CompleteAgain(l) PROVE TypeOK'
  BY <1>4, LoopFacts DEF CompleteAgain
<1>5. ASSUME NEW l \in Loops, CompleteRefused(l) PROVE TypeOK'
  BY <1>5, LoopFacts DEF CompleteRefused
<1>6. ASSUME NEW l \in Loops, AgentFails(l) PROVE TypeOK'
  BY <1>6, LoopFacts DEF AgentFails
<1>7. ASSUME NEW m \in Emitters, CheckWindow(m) PROVE TypeOK'
  BY <1>7 DEF CheckWindow
<1>8. ASSUME NEW m \in Emitters, ReadPayload(m) PROVE TypeOK'
  BY <1>8, AggregateType DEF ReadPayload
<1>9. ASSUME NEW m \in Emitters, Record(m) PROVE TypeOK'
  BY <1>9 DEF Record
<1>10. ASSUME NEW m \in Emitters, EmitFails(m) PROVE TypeOK'
  BY <1>10 DEF EmitFails
<1>11. CASE Sweep
  BY <1>11 DEF Sweep, Exhausted, Expired, Emitters
<1>12. CASE Tick
  BY <1>12 DEF Tick
<1>13. CASE UNCHANGED vars
  BY <1>13 DEF vars
<1> QED BY <1>1, <1>2, <1>3, <1>4, <1>5, <1>6, <1>7, <1>8, <1>9, <1>10, <1>11,
           <1>12, <1>13 DEF Next, Report, Emit

\* The state of every job, lease, request and window keeps its type, and a
\* stored result belongs to a completed job.
THEOREM TypeCorrect == Spec => []TypeOK
  BY TypeInit, TypeNext, PTL DEF Spec

-----------------------------------------------------------------------------
(* The inductive invariant *)

\* A job that was ever leased has used an attempt.
Attempted ==
    \A p \in Providers :
        status[p] \in {"leased", "completed", "failed"} => attempts[p] # 0

\* Until the window is recorded, a completed job's row holds its result.
ResultsKept ==
    window = NoPayload =>
        \A p \in Providers : status[p] = "completed" => result[p] = attempts[p]

\* A payload that could still be recorded.
Truthful(payload) ==
    /\ \E p \in Providers : payload[p] # NoEntry
    /\ \A p \in Providers : TrueEntry(p, payload[p])
    /\ \A p \in Providers :
          status[p] # "absent" /\ ~late[p] => payload[p] # NoEntry

\* What an emitter has read is still true when it comes to record it, unless
\* another one was first: then it may have read emptied rows.
SnapTrue ==
    \A m \in Emitters :
        phase[m] = "recording" =>
            /\ snap[m] \in Payloads
            /\ window = NoPayload => Truthful(snap[m])

WindowInv ==
    /\ window = NoPayload => staged = 0
    /\ window # NoPayload => staged = 1 /\ window \in Payloads /\ Truthful(window)

IInv == TypeOK /\ Attempted /\ ResultsKept /\ SnapTrue /\ WindowInv

LEMMA IInvInit == Init => IInv
<1> SUFFICES ASSUME Init PROVE IInv
  OBVIOUS
<1>1. TypeOK
  BY TypeInit
<1>2. Attempted /\ ResultsKept
  BY DEF Init, Attempted, ResultsKept
<1>3. SnapTrue /\ WindowInv
  BY DEF Init, SnapTrue, WindowInv
<1> QED BY <1>1, <1>2, <1>3 DEF IInv

\* What a step may do to a job: its row is inserted once and an ended job
\* keeps status, attempts and policy.
JobSteps ==
    \A p \in Providers :
        /\ status[p] \in Final => /\ status'[p] = status[p]
                                  /\ attempts'[p] = attempts[p]
                                  /\ strict'[p] = strict[p]
        /\ status[p] # "absent" => status'[p] # "absent"
        /\ late[p] => late'[p]
        /\ (status[p] = "absent" /\ status'[p] # "absent"
              /\ (window # NoPayload \/ Reading)) => late'[p]

LEMMA Jobs ==
    ASSUME TypeOK, [Next]_vars PROVE JobSteps
<1> USE EvidenceAssumption
<1> USE DEF TypeOK, JobSteps, jobVars, Statuses, Final
<1>1. ASSUME NEW S \in SUBSET Providers, NEW b \in BOOLEAN, Schedule(S, b)
      PROVE  JobSteps
  BY <1>1 DEF Schedule
<1>2. ASSUME NEW l \in Loops, Lease(l) PROVE JobSteps
  BY <1>2, LoopFacts DEF Lease, Available, Expired
<1>3. ASSUME NEW l \in Loops, NEW ok \in BOOLEAN, Complete(l, ok) PROVE JobSteps
  BY <1>3, LoopFacts DEF Complete
<1>4. ASSUME NEW l \in Loops, CompleteAgain(l) \/ CompleteRefused(l) \/ AgentFails(l)
      PROVE  JobSteps
  BY <1>4 DEF CompleteAgain, CompleteRefused, AgentFails
<1>5. ASSUME NEW m \in Emitters, Emit(m) \/ EmitFails(m) PROVE JobSteps
  BY <1>5 DEF Emit, CheckWindow, ReadPayload, Record, EmitFails
<1>6. CASE Sweep
  BY <1>6 DEF Sweep, Exhausted, Expired
<1>7. CASE Tick
  BY <1>7 DEF Tick
<1>8. CASE UNCHANGED vars
  BY <1>8 DEF vars
<1> QED BY <1>1, <1>2, <1>3, <1>4, <1>5, <1>6, <1>7, <1>8 DEF Next, Report

\* A payload stays true while jobs are scheduled, leased and ended.
LEMMA TruthStays ==
    ASSUME TypeOK, JobSteps, NEW payload \in Payloads, Truthful(payload),
           window # NoPayload \/ Reading
    PROVE  Truthful(payload)'
<1>1. \E p \in Providers : payload[p] # NoEntry
  BY DEF Truthful
<1>2. ASSUME NEW p \in Providers PROVE TrueEntry(p, payload[p])'
  BY <1>2 DEF Truthful, TrueEntry, JobSteps, Final, NoEntry, Unavailable
<1>3. ASSUME NEW p \in Providers, status'[p] # "absent", ~late'[p]
      PROVE  payload[p] # NoEntry
  BY <1>3 DEF Truthful, JobSteps
<1> QED BY <1>1, <1>2, <1>3 DEF Truthful, NoEntry

LEMMA AttemptedNext ==
    ASSUME TypeOK, Attempted, [Next]_vars PROVE Attempted'
<1> USE EvidenceAssumption
<1> USE DEF TypeOK, Attempted, jobVars, Statuses, Final
<1>1. ASSUME NEW S \in SUBSET Providers, NEW b \in BOOLEAN, Schedule(S, b)
      PROVE  Attempted'
  BY <1>1 DEF Schedule
<1>2. ASSUME NEW l \in Loops, Lease(l) PROVE Attempted'
  BY <1>2, LoopFacts DEF Lease, Available, Expired
<1>3. ASSUME NEW l \in Loops, NEW ok \in BOOLEAN, Complete(l, ok) PROVE Attempted'
  BY <1>3, LoopFacts DEF Complete
<1>4. ASSUME NEW l \in Loops, CompleteAgain(l) \/ CompleteRefused(l) \/ AgentFails(l)
      PROVE  Attempted'
  BY <1>4 DEF CompleteAgain, CompleteRefused, AgentFails
<1>5. ASSUME NEW m \in Emitters, Emit(m) \/ EmitFails(m) PROVE Attempted'
  BY <1>5 DEF Emit, CheckWindow, ReadPayload, Record, EmitFails
<1>6. CASE Sweep
  BY <1>6 DEF Sweep, Exhausted, Expired
<1>7. CASE Tick
  BY <1>7 DEF Tick
<1>8. CASE UNCHANGED vars
  BY <1>8 DEF vars
<1> QED BY <1>1, <1>2, <1>3, <1>4, <1>5, <1>6, <1>7, <1>8 DEF Next, Report

LEMMA ResultsKeptNext ==
    ASSUME TypeOK, SnapTrue, ResultsKept, [Next]_vars PROVE ResultsKept'
<1> USE EvidenceAssumption
<1> USE DEF TypeOK, ResultsKept, jobVars, Statuses, Final
<1>1. ASSUME NEW S \in SUBSET Providers, NEW b \in BOOLEAN, Schedule(S, b)
      PROVE  ResultsKept'
  BY <1>1 DEF Schedule
<1>2. ASSUME NEW l \in Loops, Lease(l) PROVE ResultsKept'
  BY <1>2, LoopFacts DEF Lease, Available, Expired
<1>3. ASSUME NEW l \in Loops, NEW ok \in BOOLEAN, Complete(l, ok) PROVE ResultsKept'
  BY <1>3, LoopFacts DEF Complete
<1>4. ASSUME NEW l \in Loops, CompleteAgain(l) \/ CompleteRefused(l) \/ AgentFails(l)
      PROVE  ResultsKept'
  BY <1>4 DEF CompleteAgain, CompleteRefused, AgentFails
<1>5. ASSUME NEW m \in Emitters, CheckWindow(m) \/ ReadPayload(m) \/ EmitFails(m)
      PROVE  ResultsKept'
  BY <1>5 DEF CheckWindow, ReadPayload, EmitFails
<1>6. ASSUME NEW m \in Emitters, Record(m) PROVE ResultsKept'
  <2>1. snap[m] \in Payloads /\ Payloads = [Providers -> 0..MaxAttempts + 1]
    BY <1>6 DEF Record, SnapTrue, Payloads
  <2>2. snap[m] # NoPayload
    BY <2>1
  <2>3. window' # NoPayload
    BY <1>6, <2>2 DEF Record
  <2> QED BY <2>3
<1>7. CASE Sweep
  BY <1>7 DEF Sweep, Exhausted, Expired
<1>8. CASE Tick
  BY <1>8 DEF Tick
<1>9. CASE UNCHANGED vars
  BY <1>9 DEF vars
<1> QED BY <1>1, <1>2, <1>3, <1>4, <1>5, <1>6, <1>7, <1>8, <1>9
        DEF Next, Report, Emit

\* ReadPayload sees every scheduled job ended and, before the publication,
\* with its result.
LEMMA AggregateTrue ==
    ASSUME TypeOK, Attempted, ResultsKept, Ready, window = NoPayload
    PROVE  Truthful(Aggregate)
<1> USE EvidenceAssumption DEF TypeOK, NoEntry, Unavailable
<1>1. ASSUME NEW p \in Providers PROVE TrueEntry(p, Aggregate[p])
  BY DEF Aggregate, TrueEntry, Ready, ResultsKept, Final
<1>2. ASSUME NEW p \in Providers, status[p] # "absent"
      PROVE  Aggregate[p] # NoEntry
  BY <1>2 DEF Aggregate, Ready, ResultsKept, Attempted, Final
<1>3. \E p \in Providers : Aggregate[p] # NoEntry
  BY <1>2 DEF Ready
<1> QED BY <1>1, <1>2, <1>3 DEF Truthful

\* Steps that neither read nor record.
LEMMA SnapStays ==
    ASSUME TypeOK, JobSteps, SnapTrue, UNCHANGED window,
           \A m \in Emitters : phase'[m] = "recording" =>
                                  phase[m] = "recording" /\ snap'[m] = snap[m]
    PROVE  SnapTrue'
<1> SUFFICES ASSUME NEW m \in Emitters, phase'[m] = "recording"
             PROVE  /\ snap'[m] \in Payloads
                    /\ window' = NoPayload => Truthful(snap[m])'
  BY DEF SnapTrue
<1>1. phase[m] = "recording" /\ snap'[m] = snap[m] /\ snap[m] \in Payloads
  BY DEF SnapTrue
<1>2. Reading
  BY <1>1 DEF Reading
<1>3. ASSUME window' = NoPayload PROVE Truthful(snap[m])'
  <2> DEFINE payload == snap[m]
  <2>1. Truthful(payload) /\ payload \in Payloads /\ snap'[m] = payload
    BY <1>1, <1>3 DEF SnapTrue
  <2> HIDE DEF payload
  <2>2. ASSUME NEW q \in Payloads, Truthful(q), q = snap'[m]
        PROVE  Truthful(snap[m])'
    <3>1. Truthful(q)'
      BY <1>2, <2>2, TruthStays
    <3> QED BY <3>1, <2>2 DEF Truthful, TrueEntry
  <2> QED BY <2>1, <2>2
<1> QED BY <1>1, <1>3

LEMMA SnapTrueNext ==
    ASSUME IInv, [Next]_vars PROVE SnapTrue'
<1> USE EvidenceAssumption
<1> USE DEF IInv, Goto, jobVars
<1>0. JobSteps
  BY Jobs
<1> DEFINE Kept == \A m \in Emitters :
        phase'[m] = "recording" => phase[m] = "recording" /\ snap'[m] = snap[m]
<1>1. ASSUME NEW S \in SUBSET Providers, NEW b \in BOOLEAN, Schedule(S, b)
      PROVE  SnapTrue'
  BY <1>0, <1>1, SnapStays DEF Schedule
<1>2. ASSUME NEW l \in Loops, Lease(l) \/ Report(l) \/ AgentFails(l)
      PROVE  SnapTrue'
  <2>1. Kept
    BY <1>2, LoopFacts DEF Lease, Report, Complete, CompleteAgain, CompleteRefused,
                           AgentFails, TypeOK
  <2>2. UNCHANGED window
    BY <1>2 DEF Lease, Report, Complete, CompleteAgain, CompleteRefused, AgentFails
  <2> QED BY <1>0, <2>1, <2>2, SnapStays
<1>3. ASSUME NEW m \in Emitters, CheckWindow(m) \/ EmitFails(m)
      PROVE  SnapTrue'
  <2>1. Kept /\ UNCHANGED window
    BY <1>3 DEF CheckWindow, EmitFails, TypeOK
  <2> QED BY <1>0, <2>1, SnapStays
<1>4. ASSUME NEW m \in Emitters, ReadPayload(m) PROVE SnapTrue'
  <2> SUFFICES ASSUME NEW n \in Emitters, phase'[n] = "recording"
               PROVE  /\ snap'[n] \in Payloads
                      /\ window' = NoPayload => Truthful(snap[n])'
    BY DEF SnapTrue
  <2>1. /\ UNCHANGED <<status, attempts, strict, late, window>>
        /\ phase' = [phase EXCEPT ![m] = IF Ready THEN "recording" ELSE "idle"]
        /\ snap' = [snap EXCEPT ![m] = IF Ready THEN Aggregate ELSE NoPayload]
    BY <1>4 DEF ReadPayload
  <2>2. CASE n = m
    <3>1. Ready /\ snap'[n] = Aggregate /\ Aggregate \in Payloads
      BY <2>1, <2>2, AggregateType DEF TypeOK
    <3>2. window' = NoPayload => Truthful(Aggregate)
      BY <2>1, <3>1, AggregateTrue
    <3>3. ASSUME window' = NoPayload PROVE Truthful(snap[n])'
      <4>1. ASSUME NEW q \in Payloads, Truthful(q), q = snap'[n]
            PROVE  Truthful(snap[n])'
        BY <2>1, <4>1 DEF Truthful, TrueEntry
      <4> QED BY <3>1, <3>2, <3>3, <4>1
    <3> QED BY <3>1, <3>3
  <2>3. CASE n # m
    <3>1. phase[n] = "recording" /\ snap'[n] = snap[n]
      BY <2>1, <2>3 DEF TypeOK
    <3> QED BY <2>1, <3>1 DEF SnapTrue, Truthful, TrueEntry
  <2> QED BY <2>2, <2>3
<1>5. ASSUME NEW m \in Emitters, Record(m) PROVE SnapTrue'
  <2>1. Kept
    BY <1>5 DEF Record, TypeOK
  <2>2. window' # NoPayload
    <3>1. snap[m] \in [Providers -> 0..MaxAttempts + 1]
      BY <1>5 DEF Record, SnapTrue, Payloads
    <3>2. snap[m] # NoPayload
      BY <3>1
    <3> QED BY <1>5, <3>2 DEF Record
  <2> QED BY <2>1, <2>2 DEF SnapTrue
<1>6. CASE Sweep
  <2>1. Kept /\ UNCHANGED window
    BY <1>6 DEF Sweep, TypeOK, Emitters
  <2> QED BY <1>0, <2>1, SnapStays
<1>7. CASE Tick \/ UNCHANGED vars
  BY <1>0, <1>7, SnapStays DEF Tick, vars
<1> QED BY <1>1, <1>2, <1>3, <1>4, <1>5, <1>6, <1>7 DEF Next, Emit

LEMMA WindowInvNext ==
    ASSUME IInv, [Next]_vars PROVE WindowInv'
<1> USE EvidenceAssumption
<1>0. JobSteps
  BY Jobs DEF IInv
<1>1. ASSUME UNCHANGED <<window, staged>> PROVE WindowInv'
  <2>1. CASE window = NoPayload
    BY <1>1, <2>1 DEF IInv, WindowInv
  <2>2. CASE window # NoPayload
    <3>1. staged = 1 /\ window \in Payloads /\ Truthful(window)
      BY <2>2 DEF IInv, WindowInv
    <3>2. ASSUME NEW q \in Payloads, Truthful(q), q = window'
          PROVE  Truthful(window)'
      <4>1. Truthful(q)'
        BY <1>0, <2>2, <3>2, TruthStays DEF IInv
      <4> QED BY <3>2, <4>1 DEF Truthful, TrueEntry
    <3> QED BY <1>1, <2>2, <3>1, <3>2 DEF WindowInv
  <2> QED BY <2>1, <2>2
<1>2. ASSUME NEW m \in Emitters, Record(m) PROVE WindowInv'
  <2>1. CASE window # NoPayload
    BY <1>1, <1>2, <2>1 DEF Record
  <2>2. CASE window = NoPayload
    <3>1. snap[m] \in Payloads /\ Truthful(snap[m]) /\ staged = 0
      BY <1>2, <2>2 DEF IInv, SnapTrue, WindowInv, Record
    <3>2. /\ window' = snap[m] /\ staged' = staged + 1
          /\ UNCHANGED <<status, attempts, strict, late>>
      BY <1>2, <2>2 DEF Record
    <3>3. window' # NoPayload
      BY <3>1, <3>2 DEF Payloads
    <3>4. Truthful(window)'
      BY <3>1, <3>2 DEF Truthful, TrueEntry
    <3> QED BY <3>1, <3>2, <3>3, <3>4 DEF WindowInv
  <2> QED BY <2>1, <2>2
<1>3. ASSUME NEW S \in SUBSET Providers, NEW b \in BOOLEAN, Schedule(S, b)
      PROVE  WindowInv'
  BY <1>1, <1>3 DEF Schedule
<1>4. ASSUME NEW l \in Loops, Lease(l) \/ Report(l) \/ AgentFails(l)
      PROVE  WindowInv'
  BY <1>1, <1>4 DEF Lease, Report, Complete, CompleteAgain, CompleteRefused, AgentFails
<1>5. ASSUME NEW m \in Emitters, CheckWindow(m) \/ ReadPayload(m) \/ EmitFails(m)
      PROVE  WindowInv'
  BY <1>1, <1>5 DEF CheckWindow, ReadPayload, EmitFails
<1>6. CASE Sweep \/ Tick \/ UNCHANGED vars
  BY <1>1, <1>6 DEF Sweep, Tick, vars
<1> QED BY <1>2, <1>3, <1>4, <1>5, <1>6 DEF Next, Emit

LEMMA IInvNext == IInv /\ [Next]_vars => IInv'
<1> SUFFICES ASSUME IInv, [Next]_vars PROVE IInv'
  OBVIOUS
<1>1. TypeOK'
  BY TypeNext DEF IInv
<1>2. Attempted' /\ ResultsKept'
  BY AttemptedNext, ResultsKeptNext DEF IInv
<1>3. SnapTrue' /\ WindowInv'
  BY SnapTrueNext, WindowInvNext
<1> QED BY <1>1, <1>2, <1>3 DEF IInv

LEMMA Invariance == Spec => []IInv
  BY IInvInit, IInvNext, PTL DEF Spec

\* Whatever emitters race, and whatever leases were taken over or results
\* cleared meanwhile, a window is published once and tells the truth.
THEOREM WindowIsTrue == Spec => []WindowTrue
<1>1. IInv => WindowTrue
  BY DEF IInv, WindowInv, Truthful, WindowTrue
<1> QED BY <1>1, Invariance, PTL

\* No provider that was scheduled before the payload was read is left out.
THEOREM WindowCovers == Spec => []CoversScheduled
<1>1. IInv => CoversScheduled
  BY DEF IInv, WindowInv, Truthful, CoversScheduled
<1> QED BY <1>1, Invariance, PTL

\* A window is published once, true and complete.
THEOREM WindowIsSound == Spec => []WindowSound
  BY WindowIsTrue, WindowCovers, PTL DEF WindowSound

-----------------------------------------------------------------------------
(* Refinement *)

LEMMA ContractStart == Init => Contract!Start
  BY DEF Init, Contract!Start, Outcome

\* Rows that are inserted are asked, jobs that end conclude.
LEMMA ContractCollect ==
    ASSUME TypeOK, Attempted, UNCHANGED window,
           \A p \in Providers :
              \/ status'[p] = status[p] /\ attempts'[p] = attempts[p]
              \/ status[p] = "absent" /\ status'[p] = "queued"
              \/ status[p] \in {"queued", "leased"} /\ status'[p] = "leased"
              \/ /\ status[p] = "leased" /\ status'[p] \in {"queued", "completed", "failed"}
                 /\ attempts'[p] = attempts[p]
    PROVE  Contract!Collect
<1> USE EvidenceAssumption
<1>1. ASSUME NEW p \in Providers
      PROVE  \/ Outcome(p)' = Outcome(p)
             \/ Outcome(p) = NoEntry /\ Outcome(p)' = Pending
             \/ Outcome(p) = Pending /\ Outcome(p)' \in 1..Unavailable
  <2>1. status[p] \in Statuses /\ attempts[p] \in 0..MaxAttempts
    BY DEF TypeOK
  <2>2. CASE status'[p] = status[p] /\ attempts'[p] = attempts[p]
    BY <2>2 DEF Outcome
  <2>3. CASE status[p] = "absent" /\ status'[p] = "queued"
    BY <2>3 DEF Outcome
  <2>4. CASE status[p] \in {"queued", "leased"} /\ status'[p] = "leased"
    BY <2>4 DEF Outcome
  <2>5. CASE /\ status[p] = "leased" /\ status'[p] \in {"queued", "completed", "failed"}
             /\ attempts'[p] = attempts[p]
    <3>1. Outcome(p) = Pending
      BY <2>5 DEF Outcome
    <3>2. attempts[p] # 0
      BY <2>5 DEF Attempted
    <3>3. Outcome(p)' \in {Pending, attempts[p], Unavailable}
      BY <2>5 DEF Outcome
    <3>4. {attempts[p], Unavailable} \subseteq 1..Unavailable
      BY <2>1, <3>2 DEF Unavailable
    <3> QED BY <3>1, <3>3, <3>4
  <2> QED BY <2>2, <2>3, <2>4, <2>5
<1> QED BY <1>1 DEF Contract!Collect, Contract!Asked, Contract!Concludes

LEMMA ContractAnnounce ==
    ASSUME IInv, NEW m \in Emitters, Record(m)
    PROVE  Contract!Step \/ UNCHANGED Contract!cvars
<1> USE EvidenceAssumption
<1>1. UNCHANGED <<status, attempts>>
  BY DEF Record
<1>2. \A p \in Providers : Outcome(p)' = Outcome(p)
  BY <1>1 DEF Outcome
<1>3. CASE window # NoPayload
  BY <1>2, <1>3 DEF Record, Contract!cvars
<1>4. CASE window = NoPayload
  <2>1. window' = snap[m] /\ snap[m] \in Payloads /\ Truthful(snap[m])
    BY <1>4 DEF Record, IInv, SnapTrue
  <2>2. ASSUME NEW p \in Providers, window'[p] # NoEntry
        PROVE  Outcome(p) \in 1..Unavailable /\ window'[p] = Outcome(p)
    <3>1. TrueEntry(p, window'[p])
      BY <2>1 DEF Truthful
    <3>2. attempts[p] \in 0..MaxAttempts /\ (status[p] = "completed" => attempts[p] # 0)
      BY DEF IInv, TypeOK, Attempted
    <3>3. CASE status[p] = "completed" /\ window'[p] = attempts[p]
      BY <3>2, <3>3 DEF Outcome, Unavailable
    <3>4. CASE status[p] = "failed" /\ window'[p] = Unavailable
      BY <3>4 DEF Outcome, Unavailable
    <3> QED BY <2>2, <3>1, <3>3, <3>4 DEF TrueEntry
  <2>3. \E p \in Providers : window'[p] # NoEntry
    BY <2>1 DEF Truthful
  <2>4. window' = [p \in Providers |-> window'[p]]
    BY <2>1 DEF Payloads
  <2>5. Contract!Announce
    BY <1>2, <1>4, <2>2, <2>3, <2>4 DEF Contract!Announce
  <2> QED BY <2>5 DEF Contract!Step
<1> QED BY <1>3, <1>4

LEMMA ContractStep ==
    ASSUME IInv, [Next]_vars
    PROVE  [Contract!Step]_(Contract!cvars)
<1> USE EvidenceAssumption
<1> USE DEF IInv, TypeOK, jobVars, Statuses, Final
<1> DEFINE Moves ==
      \A p \in Providers :
          \/ status'[p] = status[p] /\ attempts'[p] = attempts[p]
          \/ status[p] = "absent" /\ status'[p] = "queued"
          \/ status[p] \in {"queued", "leased"} /\ status'[p] = "leased"
          \/ /\ status[p] = "leased" /\ status'[p] \in {"queued", "completed", "failed"}
             /\ attempts'[p] = attempts[p]
<1>0. Moves /\ UNCHANGED window => Contract!Step
  BY ContractCollect DEF Contract!Step
<1>1. ASSUME NEW S \in SUBSET Providers, NEW b \in BOOLEAN, Schedule(S, b)
      PROVE  Moves /\ UNCHANGED window
  BY <1>1 DEF Schedule
<1>2. ASSUME NEW l \in Loops, Lease(l) PROVE Moves /\ UNCHANGED window
  BY <1>2, LoopFacts DEF Lease, Available, Expired
<1>3. ASSUME NEW l \in Loops, NEW ok \in BOOLEAN, Complete(l, ok)
      PROVE  Moves /\ UNCHANGED window
  BY <1>3, LoopFacts DEF Complete
<1>4. ASSUME NEW l \in Loops, CompleteAgain(l) \/ CompleteRefused(l) \/ AgentFails(l)
      PROVE  Moves /\ UNCHANGED window
  BY <1>4 DEF CompleteAgain, CompleteRefused, AgentFails
<1>5. ASSUME NEW m \in Emitters, CheckWindow(m) \/ ReadPayload(m) \/ EmitFails(m)
      PROVE  Moves /\ UNCHANGED window
  BY <1>5 DEF CheckWindow, ReadPayload, EmitFails
<1>6. CASE Sweep
  <2>1. Moves /\ UNCHANGED window
    BY <1>6 DEF Sweep, Exhausted, Expired
  <2> QED BY <1>0, <2>1
<1>7. CASE Tick \/ UNCHANGED vars
  <2>1. Moves /\ UNCHANGED window
    BY <1>7 DEF Tick, vars
  <2> QED BY <1>0, <2>1
<1> HIDE DEF Moves
<1> QED BY <1>0, <1>1, <1>2, <1>3, <1>4, <1>5, <1>6, <1>7, ContractAnnounce
        DEF Next, Report, Emit

\* Leases, retries, sweeps, racing publications and failures included, the
\* evidence jobs do what EvidenceContract promises.
THEOREM Refinement == Spec => ImplementsContract
<1>1. Init => Contract!Start
  BY ContractStart
<1>2. IInv /\ [Next]_vars => [Contract!Step]_(Contract!cvars)
  BY ContractStep
<1> QED BY <1>1, <1>2, Invariance, PTL DEF Spec, ImplementsContract, Contract!Promise

=============================================================================
