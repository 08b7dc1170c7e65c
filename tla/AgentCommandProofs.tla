------------------------- MODULE AgentCommandProofs -------------------------
(***************************************************************************)
(* Proofs about AgentCommand, for every set of commands and agents, every  *)
(* limit and every retry policy.                                           *)
(*                                                                         *)
(* What concerns one row is an invariant of the row alone (RowOK), kept by *)
(* each of the statements that write it.  What concerns agents relates the *)
(* leases they hold, and the leases of the results they still have to send, *)
(* to the row (AgentOK).                                                   *)
(***************************************************************************)
EXTENDS AgentCommand, TLAPS

\* The row, its attempt, its stream and its announcements fit together.
RowOK(c, r) ==
    /\ r \in Row
    /\ r.lease <= r.issued
    /\ r.status = "absent" =>
          r.age = 0 /\ r.attempt = "none" /\ r.count = 0 /\ ~r.started
    /\ r.count = 0 => r.status \notin {"leased"} \cup Working
    /\ r.stream = IF \/ r.status \notin Terminal
                     \/ r.status = "failed" /\ RetryLeft(c, r, r.retryable)
                  THEN "open" ELSE r.status
    /\ r.status = "queued" => r.attempt = IF r.count = 0 THEN "none" ELSE "queued"
    /\ r.status = "leased" => r.attempt = "leased"
    /\ r.status \in Working => r.attempt = "running"
    /\ r.status \in Terminal => r.attempt \notin {"leased", "running"}
    /\ r.status \in {"queued", "leased"} => ~r.started
    /\ r.started /\ r.status \in Terminal => r.announced > 0

\* At most one execution has begun per attempt, and none before it started.
RunsOK(c) ==
    /\ runs[c] <= cmd[c].count
    /\ ~cmd[c].started /\ cmd[c].count > 0 => runs[c] < cmd[c].count

\* A job holds a lease that nobody else holds and that no result carries; while
\* it executes the row still has that lease and cannot be leased or retried;
\* an observed cancellation was requested.
JobOK(a) ==
    job[a] # NoJob =>
        LET c == job[a].cmd  l == job[a].lease
        IN  /\ l <= cmd[c].issued
            /\ \A b \in Agents \ {a} :
                  job[b] # NoJob => job[b].cmd # c \/ job[b].lease # l
            /\ \A b \in Agents : \A x \in outbox[b] : x.cmd # c \/ x.lease # l
            /\ job[a].phase = "leased" => job[a].seen = 0
            /\ job[a].phase = "executing" =>
                  /\ cmd[c].lease = l
                  /\ \/ cmd[c].status \in Working
                     \/ /\ cmd[c].status \in Terminal
                        /\ ~(cmd[c].status = "failed" /\ cmd[c].retryable)
                  /\ job[a].seen > 0 => cmd[c].status # "running"

\* A result carries a lease that was given, and reports a cancellation only to
\* a command that was asked to cancel.
ResultOK(x) ==
    /\ x.lease <= cmd[x.cmd].issued
    /\ x.status = "cancelled" /\ cmd[x.cmd].lease = x.lease
          => cmd[x.cmd].status # "running"

\* A blocked handler still has its event.
RequestOK(c) ==
    /\ pending[c] <= asked[c]
    /\ locked[c] => pending[c] > 0

IInv ==
    /\ TypeOK
    /\ \A c \in Commands : RowOK(c, cmd[c]) /\ RunsOK(c) /\ RequestOK(c)
    /\ \A a \in Agents : JobOK(a)
    /\ \A a \in Agents : \A x \in outbox[a] : ResultOK(x)

\* What a statement other than lease, start and completion may do to a row
\* without disturbing the agents.
Quiet(r, s) ==
    /\ s.issued = r.issued
    /\ s.lease = r.lease \/ (s.lease = 0 /\ r.status = "failed" /\ r.retryable)
    /\ r.status \in Working =>
          s.status \in Working \/ (s.status \in Terminal /\ ~s.retryable)
    /\ r.status \in Terminal /\ ~(r.status = "failed" /\ r.retryable) =>
          s.status = r.status /\ s.retryable = r.retryable
    /\ s.status = "failed" /\ s.retryable => r.status = "failed" /\ r.retryable
    /\ s.status = "running" => r.status = "running"
    /\ \/ s.count = r.count /\ s.started = r.started
       \/ s.count > r.count /\ ~s.started

-----------------------------------------------------------------------------
(* Statements keep the row invariant *)

\* Writing status keeps the row well typed.
LEMMA StatusType ==
    \A r \in Row : \A v \in {"absent"} \cup Active \cup Terminal : [r EXCEPT !.status = v] \in Row
  BY DEF Row

\* Writing attempt keeps the row well typed.
LEMMA AttemptType ==
    \A r \in Row : \A v \in {"none", "queued", "leased", "running", "expired"} \cup Terminal : [r EXCEPT !.attempt = v] \in Row
  BY DEF Row

\* Writing count keeps the row well typed.
LEMMA CountType ==
    \A r \in Row : \A v \in 0..MaxAttempts : [r EXCEPT !.count = v] \in Row
  BY DEF Row

\* Writing lease keeps the row well typed.
LEMMA LeaseType ==
    \A r \in Row : \A v \in 0..MaxLeases : [r EXCEPT !.lease = v] \in Row
  BY DEF Row

\* Writing issued keeps the row well typed.
LEMMA IssuedType ==
    \A r \in Row : \A v \in 0..MaxLeases : [r EXCEPT !.issued = v] \in Row
  BY DEF Row

\* Writing idle keeps the row well typed.
LEMMA IdleType ==
    \A r \in Row : \A v \in 0..(LeaseSeconds + GraceSeconds + 1) : [r EXCEPT !.idle = v] \in Row
  BY DEF Row

\* Writing age keeps the row well typed.
LEMMA AgeType ==
    \A r \in Row : \A v \in 0..(QueueTTL + 1) : [r EXCEPT !.age = v] \in Row
  BY DEF Row

\* Writing gen keeps the row well typed.
LEMMA GenType ==
    \A r \in Row : \A v \in Nat : [r EXCEPT !.gen = v] \in Row
  BY DEF Row

\* Writing started keeps the row well typed.
LEMMA StartedType ==
    \A r \in Row : \A v \in BOOLEAN : [r EXCEPT !.started = v] \in Row
  BY DEF Row

\* Writing retryable keeps the row well typed.
LEMMA RetryableType ==
    \A r \in Row : \A v \in BOOLEAN : [r EXCEPT !.retryable = v] \in Row
  BY DEF Row

\* Writing stream keeps the row well typed.
LEMMA StreamType ==
    \A r \in Row : \A v \in {"open"} \cup Terminal : [r EXCEPT !.stream = v] \in Row
  BY DEF Row

\* Writing announced keeps the row well typed.
LEMMA AnnouncedType ==
    \A r \in Row : \A v \in Nat : [r EXCEPT !.announced = v] \in Row
  BY DEF Row

\* Projecting a row keeps it consistent (agent_command_queue_upsert).
LEMMA ProjectedOK ==
    ASSUME NEW c \in Commands, NEW r, RowOK(c, r), Projectable(r)
    PROVE  RowOK(c, Projected(r)) /\ Quiet(r, Projected(r))
<1> DEFINE s == Projected(r)
<1>1. r \in Row
  BY DEF RowOK
<1>2. s \in Row
  <2>1. /\ "queued" \in {"absent"} \cup Active \cup Terminal
        /\ "queued" \in {"none", "queued", "leased", "running", "expired"} \cup Terminal
        /\ 1 \in 0..MaxAttempts
    BY CommandAssumption DEF Active
  <2> QED BY <1>1, <2>1, StatusType, AttemptType, CountType, Zenon DEF Projected
<1>3. /\ s.status = "queued" /\ s.attempt = "queued" /\ s.count = 1
      /\ s.lease = r.lease /\ s.issued = r.issued /\ s.started = r.started
      /\ s.stream = r.stream
  BY <1>1 DEF Projected, Row
<1>4. /\ r.stream = "open" /\ ~r.started /\ r.lease <= r.issued
      /\ r.count = 0 /\ r.status \in {"absent", "queued"}
  BY DEF RowOK, Projectable, Terminal
<1> HIDE DEF s
<1>5. RowOK(c, s) /\ Quiet(r, s)
  BY <1>2, <1>3, <1>4 DEF RowOK, Quiet, Working, Stopping, Terminal
<1> QED BY <1>5 DEF s

\* Closing a queued row keeps it consistent (fail_logical_command_and_stage_event).
LEMMA FailedLogicalOK ==
    ASSUME NEW c \in Commands, NEW r, RowOK(c, r)
    PROVE  RowOK(c, FailedLogical(r)) /\ Quiet(r, FailedLogical(r))
<1>1. r \in Row
  BY DEF RowOK
<1>2. CASE r.status # "queued"
  BY <1>2 DEF Quiet, FailedLogical
<1>3. CASE r.status = "queued"
  <2> DEFINE s == [r EXCEPT !.status = "failed", !.retryable = FALSE,
                            !.stream = Close(r, "failed")]
  <2>1. Close(r, "failed") = "failed"
    BY <1>3 DEF RowOK, Close, Terminal
  <2>2. s \in Row
    <3>1. /\ "failed" \in {"absent"} \cup Active \cup Terminal
          /\ FALSE \in BOOLEAN
          /\ "failed" \in {"open"} \cup Terminal
      BY DEF Terminal
    <3> QED BY <1>1, <2>1, <3>1, StatusType, RetryableType, StreamType, Zenon
  <2>3. /\ s.status = "failed" /\ s.retryable = FALSE /\ s.stream = "failed"
        /\ s.lease = r.lease /\ s.issued = r.issued /\ s.started = r.started
        /\ s.attempt = r.attempt /\ s.count = r.count
    BY <1>1, <2>1 DEF Row
  <2>4. /\ ~r.started /\ r.lease <= r.issued /\ r.attempt \in {"none", "queued"}
    BY <1>3 DEF RowOK
  <2> HIDE DEF s
  <2>5. RowOK(c, s) /\ Quiet(r, s)
    BY <1>3, <2>2, <2>3, <2>4 DEF RowOK, Quiet, RetryLeft, Working, Stopping, Terminal
  <2> QED BY <1>3, <2>5 DEF s, FailedLogical
<1> QED BY <1>2, <1>3

\* Leasing keeps the row consistent (lease_agent_command).
LEMMA LeasedOK ==
    ASSUME NEW c \in Commands, NEW r, RowOK(c, r), Available(r), r.issued < MaxLeases
    PROVE  RowOK(c, Leased(r))
<1> DEFINE s == Leased(r)
<1>1. r \in Row
  BY DEF RowOK
<1>2. s \in Row
  <2>1. /\ "leased" \in {"absent"} \cup Active \cup Terminal
        /\ "leased" \in {"none", "queued", "leased", "running", "expired"} \cup Terminal
    BY DEF Active
  <2>2. /\ r.issued + 1 \in 0..MaxLeases
        /\ 0 \in 0..(LeaseSeconds + GraceSeconds + 1)
    BY <1>1, CommandAssumption DEF Row
  <2> QED BY <1>1, <2>1, <2>2, StatusType, AttemptType, LeaseType, IssuedType,
             IdleType, Zenon DEF Leased
<1>3. /\ s.status = "leased" /\ s.attempt = "leased" /\ s.count = r.count
      /\ s.lease = s.issued /\ s.started = r.started /\ s.stream = r.stream
  BY <1>1 DEF Leased, Row
<1>4. r.stream = "open" /\ ~r.started /\ r.count # 0
  BY DEF RowOK, Available, Terminal
<1>5. s.issued \in Nat
  BY <1>2, CommandAssumption DEF Row
<1> HIDE DEF s
<1>6. RowOK(c, s)
  BY <1>2, <1>3, <1>4, <1>5 DEF RowOK, Working, Stopping, Terminal
<1> QED BY <1>6 DEF s

\* Starting keeps the row consistent (start_agent_command).
LEMMA StartedOK ==
    ASSUME NEW c \in Commands, NEW r, RowOK(c, r), r.status = "leased"
    PROVE  RowOK(c, Started(r))
<1> DEFINE s == Started(r)
<1>1. r \in Row
  BY DEF RowOK
<1>2. s \in Row
  <2>1. /\ "running" \in {"absent"} \cup Active \cup Terminal
        /\ "running" \in {"none", "queued", "leased", "running", "expired"} \cup Terminal
        /\ TRUE \in BOOLEAN
    BY DEF Active, Working
  <2>2. 0 \in 0..(LeaseSeconds + GraceSeconds + 1)
    BY CommandAssumption
  <2> QED BY <1>1, <2>1, <2>2, StatusType, AttemptType, StartedType, IdleType, Zenon
             DEF Started
<1>3. /\ s.status = "running" /\ s.attempt = "running" /\ s.count = r.count
      /\ s.lease = r.lease /\ s.issued = r.issued /\ s.stream = r.stream
  BY <1>1 DEF Started, Row
<1>4. r.stream = "open" /\ r.count # 0 /\ r.lease <= r.issued
  BY DEF RowOK, Terminal
<1> HIDE DEF s
<1>5. RowOK(c, s)
  BY <1>2, <1>3, <1>4 DEF RowOK, Working, Stopping, Terminal
<1> QED BY <1>5 DEF s

\* A heartbeat keeps the row consistent (heartbeat_agent_command).
LEMMA BeatenOK ==
    ASSUME NEW c \in Commands, NEW r, RowOK(c, r), NEW g,
           r.status \in {"leased"} \cup Working
    PROVE  RowOK(c, Beaten(r, g)) /\ Quiet(r, Beaten(r, g))
<1> DEFINE v == IF r.status = "cancel_requested" /\ g # 0 /\ g >= r.gen
                THEN "cancelling" ELSE r.status
           s == [r EXCEPT !.idle = 0, !.status = v]
<1>1. r \in Row
  BY DEF RowOK
<1>2. /\ v \in {"leased"} \cup Working
      /\ v = "leased" <=> r.status = "leased"
      /\ v = "running" <=> r.status = "running"
  BY DEF Working, Stopping
<1>3. s = Beaten(r, g)
  BY DEF Beaten
<1> HIDE DEF v
<1>4. s \in Row
  <2>1. v \in {"absent"} \cup Active \cup Terminal
    BY <1>2 DEF Active
  <2>2. 0 \in 0..(LeaseSeconds + GraceSeconds + 1)
    BY CommandAssumption
  <2> QED BY <1>1, <2>1, <2>2, StatusType, IdleType, Zenon
<1>5. /\ s.status = v /\ s.attempt = r.attempt /\ s.count = r.count
      /\ s.lease = r.lease /\ s.issued = r.issued /\ s.stream = r.stream
      /\ s.started = r.started
  BY <1>1 DEF Row
<1> HIDE DEF s
<1>6. RowOK(c, s) /\ Quiet(r, s)
  BY <1>2, <1>4, <1>5 DEF RowOK, Quiet, Working, Stopping, Terminal
<1> QED BY <1>3, <1>6

\* A completion keeps the row consistent (complete_agent_command_and_stage_event).
LEMMA CompletedOK ==
    ASSUME NEW c \in Commands, NEW r, RowOK(c, r), NEW x \in Result,
           r.status \in Working
    PROVE  RowOK(c, Completed(c, r, x))
<1> DEFINE v == IF x.status = "failed" /\ RetryLeft(c, r, x.retryable)
                THEN r.stream ELSE Close(r, x.status)
           s == [r EXCEPT !.status = x.status, !.attempt = x.status,
                          !.retryable = x.retryable, !.stream = v,
                          !.announced = r.announced + 1]
<1>1. r \in Row /\ x.status \in Terminal /\ x.retryable \in BOOLEAN
  BY DEF RowOK, Result
<1>2. r.stream = "open" /\ r.lease <= r.issued
  BY DEF RowOK, Working, Stopping, Terminal
<1>3. v = IF x.status = "failed" /\ RetryLeft(c, r, x.retryable)
          THEN "open" ELSE x.status
  BY <1>2 DEF Close
<1>4. s = Completed(c, r, x)
  BY DEF Completed
<1> HIDE DEF v
<1>5. s \in Row
  <2>1. /\ x.status \in {"absent"} \cup Active \cup Terminal
        /\ x.status \in {"none", "queued", "leased", "running", "expired"} \cup Terminal
        /\ v \in {"open"} \cup Terminal
    BY <1>1, <1>3
  <2>2. r.announced + 1 \in Nat
    BY <1>1 DEF Row
  <2> QED BY <1>1, <2>1, <2>2, StatusType, AttemptType, RetryableType, StreamType,
             AnnouncedType, Zenon
<1>6. /\ s.status = x.status /\ s.attempt = x.status /\ s.count = r.count
      /\ s.lease = r.lease /\ s.issued = r.issued /\ s.stream = v
      /\ s.retryable = x.retryable /\ s.announced = r.announced + 1
  BY <1>1 DEF Row
<1>7. s.announced > 0
  BY <1>1, <1>6 DEF Row
<1> HIDE DEF s
<1>8. RowOK(c, s)
  BY <1>1, <1>2, <1>3, <1>5, <1>6, <1>7
     DEF RowOK, RetryLeft, Working, Stopping, Terminal
<1> QED BY <1>4, <1>8

\* A cancellation keeps the row consistent (stage_command_control_in_transaction).
LEMMA CancelledOK ==
    ASSUME NEW c \in Commands, NEW r, RowOK(c, r),
           r.status \in {"queued", "leased", "running"}
    PROVE  RowOK(c, Cancelled(r)) /\ Quiet(r, Cancelled(r))
<1>1. r \in Row
  BY DEF RowOK
<1>2. CASE r.status = "running"
  <2> DEFINE s == [r EXCEPT !.status = "cancel_requested", !.gen = r.gen + 1]
  <2>1. s \in Row
    <3>1. "cancel_requested" \in {"absent"} \cup Active \cup Terminal
      BY DEF Active, Working, Stopping
    <3>2. r.gen + 1 \in Nat
      BY <1>1 DEF Row
    <3> QED BY <1>1, <3>1, <3>2, StatusType, GenType, Zenon
  <2>2. /\ s.status = "cancel_requested" /\ s.attempt = r.attempt
        /\ s.count = r.count /\ s.lease = r.lease /\ s.issued = r.issued
        /\ s.stream = r.stream /\ s.started = r.started
    BY <1>1 DEF Row
  <2> HIDE DEF s
  <2>3. RowOK(c, s) /\ Quiet(r, s)
    BY <1>2, <2>1, <2>2 DEF RowOK, Quiet, Working, Stopping, Terminal
  <2> QED BY <1>2, <2>3 DEF s, Cancelled
<1>3. CASE r.status # "running"
  <2> DEFINE v == IF r.attempt = "none" THEN r.attempt ELSE "cancelled"
             s == [r EXCEPT !.status = "cancelled", !.retryable = FALSE,
                            !.attempt = v, !.stream = Close(r, "cancelled")]
  <2>1. /\ v \in {"none", "cancelled"}
        /\ Close(r, "cancelled") = "cancelled"
        /\ ~r.started /\ r.lease <= r.issued
    BY <1>3 DEF RowOK, Close, Terminal
  <2>2. s = Cancelled(r)
    BY <1>3 DEF Cancelled
  <2> HIDE DEF v
  <2>3. s \in Row
    <3>1. /\ "cancelled" \in {"absent"} \cup Active \cup Terminal
          /\ v \in {"none", "queued", "leased", "running", "expired"} \cup Terminal
          /\ FALSE \in BOOLEAN
          /\ Close(r, "cancelled") \in {"open"} \cup Terminal
      BY <2>1 DEF Terminal
    <3> QED BY <1>1, <3>1, StatusType, AttemptType, RetryableType, StreamType, Zenon
  <2>4. /\ s.status = "cancelled" /\ s.attempt = v /\ s.stream = Close(r, "cancelled")
        /\ s.lease = r.lease /\ s.issued = r.issued /\ s.started = r.started
        /\ s.count = r.count
    BY <1>1 DEF Row
  <2> HIDE DEF s
  <2>5. RowOK(c, s) /\ Quiet(r, s)
    BY <1>3, <2>1, <2>3, <2>4 DEF RowOK, Quiet, Working, Stopping, Terminal
  <2> QED BY <2>2, <2>5
<1> QED BY <1>2, <1>3

\* A manual retry keeps the row consistent (stage_command_control_in_transaction).
LEMMA RetriedOK ==
    ASSUME NEW c \in Commands, NEW r, RowOK(c, r), r.status = "failed",
           RetryLeft(c, r, r.retryable)
    PROVE  RowOK(c, Retried(r)) /\ Quiet(r, Retried(r))
<1> DEFINE s == Retried(r)
<1>1. r \in Row
  BY DEF RowOK
<1>2. s \in Row
  <2>1. /\ "queued" \in {"absent"} \cup Active \cup Terminal
        /\ "queued" \in {"none", "queued", "leased", "running", "expired"} \cup Terminal
        /\ FALSE \in BOOLEAN
    BY DEF Active
  <2>2. /\ r.count + 1 \in 0..MaxAttempts
        /\ 0 \in 0..MaxLeases /\ 0 \in 0..(LeaseSeconds + GraceSeconds + 1) /\ 0 \in Nat
    BY <1>1, CommandAssumption DEF Row, RetryLeft
  <2> QED BY <1>1, <2>1, <2>2, StatusType, AttemptType, CountType, LeaseType,
             IdleType, StartedType, RetryableType, AnnouncedType, Zenon DEF Retried
<1>3. /\ s.status = "queued" /\ s.attempt = "queued" /\ s.count = r.count + 1
      /\ s.lease = 0 /\ s.issued = r.issued /\ s.started = FALSE
      /\ s.stream = r.stream
  BY <1>1 DEF Retried, Row
<1>4. /\ r.stream = "open" /\ r.count + 1 # 0 /\ 0 <= r.issued
      /\ r.count + 1 > r.count /\ r.retryable
  BY <1>1, CommandAssumption DEF RowOK, RetryLeft, Row
<1> HIDE DEF s
<1>5. RowOK(c, s) /\ Quiet(r, s)
  BY <1>2, <1>3, <1>4 DEF RowOK, Quiet, Working, Stopping, Terminal
<1> QED BY <1>5 DEF s

\* Sweeping keeps the row consistent (fail_expired_agent_commands).
LEMMA ExpiredOK ==
    ASSUME NEW c \in Commands, NEW r, RowOK(c, r), NEW n \in Nat \ {0}
    PROVE  RowOK(c, Expired(r, n)) /\ Quiet(r, Expired(r, n))
<1>1. r \in Row
  BY DEF RowOK
<1>2. CASE ~Expirable(r)
  BY <1>2 DEF Quiet, Expired
<1>3. CASE Expirable(r)
  <2> DEFINE end == IF r.status \in Stopping THEN "cancelled" ELSE "failed"
             v == IF r.attempt = "none" THEN r.attempt ELSE "expired"
             s == [r EXCEPT !.status = end, !.retryable = FALSE, !.attempt = v,
                            !.stream = Close(r, end), !.announced = r.announced + n]
  <2>1. /\ v \in {"none", "expired"}
        /\ end \in {"cancelled", "failed"}
        /\ Close(r, end) = end
        /\ r.lease <= r.issued
    BY <1>3 DEF RowOK, Expirable, Close, Working, Stopping, Terminal
  <2>2. s = Expired(r, n)
    BY <1>3 DEF Expired
  <2> HIDE DEF v, end
  <2>3. s \in Row
    <3>1. /\ end \in {"absent"} \cup Active \cup Terminal
          /\ v \in {"none", "queued", "leased", "running", "expired"} \cup Terminal
          /\ FALSE \in BOOLEAN
          /\ Close(r, end) \in {"open"} \cup Terminal
      BY <2>1 DEF Terminal
    <3>2. r.announced + n \in Nat
      BY <1>1 DEF Row
    <3> QED BY <1>1, <3>1, <3>2, StatusType, AttemptType, RetryableType, StreamType,
               AnnouncedType, Zenon
  <2>4. /\ s.status = end /\ s.attempt = v /\ s.stream = Close(r, end)
        /\ s.lease = r.lease /\ s.issued = r.issued /\ s.retryable = FALSE
        /\ s.announced = r.announced + n
        /\ s.count = r.count /\ s.started = r.started
    BY <1>1 DEF Row
  <2>5. s.announced > 0
    BY <1>1, <2>4 DEF Row
  <2> HIDE DEF s
  <2>6. RowOK(c, s) /\ Quiet(r, s)
    BY <1>3, <2>1, <2>3, <2>4, <2>5
       DEF RowOK, Quiet, RetryLeft, Expirable, Working, Stopping, Terminal
  <2> QED BY <2>2, <2>6
<1> QED BY <1>2, <1>3

\* The passage of time keeps the row consistent.
LEMMA AgedOK ==
    ASSUME NEW c \in Commands, NEW r, RowOK(c, r)
    PROVE  RowOK(c, Aged(r)) /\ Quiet(r, Aged(r))
<1> DEFINE i == IF r.status \in {"leased"} \cup Working
                THEN Next1(r.idle, LeaseSeconds + GraceSeconds) ELSE r.idle
           n == IF r.status \in Active \cup {"failed"}
                THEN Next1(r.age, QueueTTL) ELSE r.age
           s == [r EXCEPT !.idle = i, !.age = n]
<1>1. r \in Row
  BY DEF RowOK
<1>2. /\ i \in 0..(LeaseSeconds + GraceSeconds + 1)
      /\ n \in 0..(QueueTTL + 1)
      /\ r.status = "absent" => n = r.age
  BY <1>1, CommandAssumption DEF Row, Next1, Active, Working, Stopping
<1>3. s = Aged(r)
  BY DEF Aged
<1> HIDE DEF i, n
<1>4. s \in Row
  BY <1>1, <1>2, IdleType, AgeType, Zenon
<1>5. /\ s.status = r.status /\ s.attempt = r.attempt /\ s.count = r.count
      /\ s.lease = r.lease /\ s.issued = r.issued /\ s.stream = r.stream
      /\ s.started = r.started /\ s.retryable = r.retryable
      /\ s.announced = r.announced /\ s.age = n
  BY <1>1 DEF Row
<1> HIDE DEF s
<1>6. RowOK(c, s) /\ Quiet(r, s)
  BY <1>2, <1>4, <1>5 DEF RowOK, Quiet, RetryLeft, Working, Stopping, Terminal
<1> QED BY <1>3, <1>6

\* Accepting a command keeps the row consistent
\* (stage_logical_command_acceptance_in_transaction).
LEMMA AcceptedOK ==
    ASSUME NEW c \in Commands, NEW r, RowOK(c, r), r.status = "absent"
    PROVE  LET s == [r EXCEPT !.status = "queued"] IN RowOK(c, s) /\ Quiet(r, s)
<1> DEFINE s == [r EXCEPT !.status = "queued"]
<1>1. r \in Row
  BY DEF RowOK
<1>2. s \in Row
  BY <1>1, StatusType DEF Active
<1>3. /\ s.status = "queued" /\ s.attempt = r.attempt /\ s.count = r.count
      /\ s.lease = r.lease /\ s.issued = r.issued /\ s.started = r.started
      /\ s.stream = r.stream
  BY <1>1 DEF Row
<1> HIDE DEF s
<1>4. RowOK(c, s) /\ Quiet(r, s)
  BY <1>2, <1>3 DEF RowOK, Quiet, Working, Stopping, Terminal
<1> QED BY <1>4 DEF s

\* Two quiet changes make one.
LEMMA QuietTwice ==
    ASSUME NEW r \in Row, NEW s \in Row, NEW t \in Row, Quiet(r, s), Quiet(s, t)
    PROVE  Quiet(r, t)
  BY CommandAssumption DEF Quiet, Row, Working, Stopping, Terminal

-----------------------------------------------------------------------------
(* Steps that leave the agents alone *)

\* A step of the gateway, a worker, an operator, the janitor or the clock
\* keeps the invariant when every row changes consistently and quietly.
LEMMA QuietStep ==
    ASSUME IInv,
           cmd' \in [Commands -> Row],
           \A c \in Commands : RowOK(c, cmd'[c]) /\ Quiet(cmd[c], cmd'[c]),
           pending' \in [Commands -> 0..MaxRequests],
           asked' \in [Commands -> 0..MaxRequests],
           locked' \in [Commands -> BOOLEAN],
           \A c \in Commands : RequestOK(c)',
           faults' \in 0..MaxFaults,
           UNCHANGED agentVars
    PROVE  IInv'
<1>1. TypeOK'
  BY DEF IInv, TypeOK, agentVars
<1>2. \A c \in Commands : RowOK(c, cmd'[c])
  OBVIOUS
<1>3. ASSUME NEW c \in Commands PROVE RunsOK(c)'
  <2>1. /\ cmd[c] \in Row /\ cmd'[c] \in Row /\ runs'[c] = runs[c] /\ runs[c] \in Nat
        /\ Quiet(cmd[c], cmd'[c]) /\ RunsOK(c)
    BY <1>3, SMTT(30) DEF IInv, TypeOK, agentVars
  <2> QED BY <2>1 DEF RunsOK, Quiet, Row
<1>4. ASSUME NEW a \in Agents PROVE JobOK(a)'
  <2> SUFFICES ASSUME job[a] # NoJob PROVE JobOK(a)'
    BY DEF JobOK, agentVars
  <2>1. /\ job' = job /\ outbox' = outbox /\ JobOK(a)
        /\ job[a] \in Job /\ job[a].cmd \in Commands /\ job[a].lease # 0
    BY <1>4 DEF IInv, TypeOK, agentVars, Job
  <2>2. Quiet(cmd[job[a].cmd], cmd'[job[a].cmd])
    BY <2>1
  <2> QED BY <2>1, <2>2 DEF JobOK, Quiet, Working, Stopping, Terminal
<1>5. ASSUME NEW a \in Agents, NEW x \in outbox'[a] PROVE ResultOK(x)'
  <2>1. /\ x \in outbox[a] /\ x \in Result /\ ResultOK(x) /\ x.cmd \in Commands
        /\ x.lease # 0
    BY <1>5 DEF IInv, TypeOK, agentVars, Result
  <2>2. Quiet(cmd[x.cmd], cmd'[x.cmd])
    BY <2>1
  <2> QED BY <2>1, <2>2 DEF ResultOK, Quiet
<1> QED BY <1>1, <1>2, <1>3, <1>4, <1>5 DEF IInv

\* Writing one row quietly.
LEMMA QuietRow ==
    ASSUME IInv, NEW c \in Commands, NEW r, SetRow(c, r),
           RowOK(c, r), Quiet(cmd[c], r)
    PROVE  /\ cmd' \in [Commands -> Row]
           /\ \A d \in Commands : RowOK(d, cmd'[d]) /\ Quiet(cmd[d], cmd'[d])
<1>1. r \in Row /\ cmd \in [Commands -> Row]
  BY DEF RowOK, IInv, TypeOK
<1>2. cmd' = [cmd EXCEPT ![c] = r]
  BY DEF SetRow
<1>3. cmd' \in [Commands -> Row]
  BY <1>1, <1>2
<1>4. ASSUME NEW d \in Commands PROVE RowOK(d, cmd'[d]) /\ Quiet(cmd[d], cmd'[d])
  <2>1. CASE d = c
    BY <1>1, <1>2, <2>1
  <2>2. CASE d # c
    <3>1. cmd'[d] = cmd[d] /\ RowOK(d, cmd[d])
      BY <1>1, <1>2, <2>2 DEF IInv
    <3>2. Quiet(cmd[d], cmd[d])
      BY DEF Quiet
    <3> QED BY <3>1, <3>2
  <2> QED BY <2>1, <2>2
<1> QED BY <1>3, <1>4

\* A whole handler run of the command worker, the sweep at its end included.
LEMMA HandledStep ==
    ASSUME IInv, NEW c \in Commands, NEW row, Handled(c, row),
           RowOK(c, row), Quiet(cmd[c], row)
    PROVE  IInv'
<1> DEFINE mid == [cmd EXCEPT ![c] = row]
<1>1. cmd \in [Commands -> Row] /\ row \in Row
  BY DEF RowOK, IInv, TypeOK
<1>2. ASSUME NEW d \in Commands PROVE mid[d] \in Row /\ RowOK(d, mid[d]) /\ Quiet(cmd[d], mid[d])
  <2>1. CASE d = c
    BY <1>1, <2>1
  <2>2. CASE d # c
    BY <1>1, <2>2 DEF IInv, Quiet
  <2> QED BY <2>1, <2>2
<1>3. cmd' = [d \in Commands |-> Expired(mid[d], 2)]
  BY DEF Handled, SweptByWorker
<1> HIDE DEF mid
<1>4. ASSUME NEW d \in Commands
      PROVE  cmd'[d] \in Row /\ RowOK(d, cmd'[d]) /\ Quiet(cmd[d], cmd'[d])
  <2>1. RowOK(d, Expired(mid[d], 2)) /\ Quiet(mid[d], Expired(mid[d], 2))
    BY <1>2, ExpiredOK
  <2>2. Expired(mid[d], 2) \in Row
    BY <2>1 DEF RowOK
  <2>3. Quiet(cmd[d], Expired(mid[d], 2))
    BY <1>1, <1>2, <2>1, <2>2, QuietTwice
  <2> QED BY <1>3, <2>1, <2>2, <2>3
<1>5. cmd' \in [Commands -> Row]
  BY <1>3, <1>4
<1>6. /\ pending' \in [Commands -> 0..MaxRequests]
      /\ asked' \in [Commands -> 0..MaxRequests]
      /\ locked' \in [Commands -> BOOLEAN]
      /\ faults' \in 0..MaxFaults
      /\ UNCHANGED agentVars
  BY CommandAssumption DEF Handled, IInv, TypeOK
<1>7. \A d \in Commands : RequestOK(d)'
  BY DEF RequestOK, Handled, IInv, TypeOK
<1> QED BY <1>4, <1>5, <1>6, <1>7, QuietStep

\* Gateway, worker, operator, janitor and clock keep the invariant.
LEMMA ServerStep ==
    ASSUME IInv, NEW c \in Commands,
           \/ Accept(c) \/ Request(c) \/ Handle(c) \/ RejectRolledBack(c)
           \/ Cancel(c) \/ Retry(c)
    PROVE  IInv'
<1> USE CommandAssumption
<1>1. RowOK(c, cmd[c]) /\ TypeOK /\ cmd[c] \in Row
  BY DEF IInv, RowOK
<1>2. /\ cmd \in [Commands -> Row]
      /\ \A d \in Commands : RowOK(d, cmd[d]) /\ Quiet(cmd[d], cmd[d])
  BY DEF IInv, TypeOK, Quiet
<1> DEFINE Requests == /\ pending' \in [Commands -> 0..MaxRequests]
                       /\ asked' \in [Commands -> 0..MaxRequests]
                       /\ locked' \in [Commands -> BOOLEAN]
                       /\ \A d \in Commands : RequestOK(d)'
<1>req. ASSUME UNCHANGED requestVars PROVE Requests
  BY <1>req DEF requestVars, IInv, TypeOK, RequestOK
<1>3. CASE Accept(c)
  <2>1. LET s == [cmd[c] EXCEPT !.status = "queued"] IN RowOK(c, s) /\ Quiet(cmd[c], s)
    BY <1>1, <1>3, AcceptedOK DEF Accept
  <2>2. /\ cmd' \in [Commands -> Row]
        /\ \A d \in Commands : RowOK(d, cmd'[d]) /\ Quiet(cmd[d], cmd'[d])
    BY <1>3, <2>1, QuietRow DEF Accept
  <2>3. Requests
    <3>1. \A d \in Commands : pending[d] \in 0..MaxRequests /\ asked[d] \in 0..MaxRequests
                              /\ RequestOK(d)
      BY DEF IInv, TypeOK
    <3> QED BY <1>1, <1>3, <3>1 DEF Accept, TypeOK, RequestOK
  <2> QED BY <1>1, <1>3, <2>2, <2>3, QuietStep DEF Accept, TypeOK
<1>4. CASE Request(c)
  <2>1. Requests
    <3>1. \A d \in Commands : pending[d] \in 0..MaxRequests /\ asked[d] \in 0..MaxRequests
                              /\ RequestOK(d)
      BY DEF IInv, TypeOK
    <3> QED BY <1>1, <1>4, <3>1 DEF Request, TypeOK, RequestOK
  <2> QED BY <1>1, <1>2, <1>4, <2>1, QuietStep DEF Request, TypeOK
<1>5. CASE ProjectRequest(c)
  BY <1>1, <1>5, ProjectedOK, HandledStep DEF ProjectRequest
<1>6. CASE RejectRequest(c)
  BY <1>1, <1>6, FailedLogicalOK, HandledStep DEF RejectRequest
<1>7. CASE DuplicateRequest(c)
  BY <1>1, <1>2, <1>7, HandledStep DEF DuplicateRequest
<1>8. CASE DuplicateBlocks(c)
  <2>1. Requests
    BY <1>1, <1>8 DEF DuplicateBlocks, IInv, TypeOK, RequestOK
  <2> QED BY <1>1, <1>2, <1>8, <2>1, QuietStep DEF DuplicateBlocks, TypeOK
<1>9. CASE DuplicateTimesOut(c)
  <2>1. faults' \in 0..MaxFaults
    BY <1>1, <1>9 DEF DuplicateTimesOut, Fault, TypeOK
  <2>2. Requests
    BY <1>1, <1>9 DEF DuplicateTimesOut, IInv, TypeOK, RequestOK
  <2> QED BY <1>1, <1>2, <1>9, <2>1, <2>2, QuietStep DEF DuplicateTimesOut, TypeOK
<1>10. CASE RejectRolledBack(c)
  <2>1. /\ cmd' \in [Commands -> Row]
        /\ \A d \in Commands : RowOK(d, cmd'[d]) /\ Quiet(cmd[d], cmd'[d])
    BY <1>1, <1>10, FailedLogicalOK, QuietRow DEF RejectRolledBack
  <2>2. faults' \in 0..MaxFaults
    BY <1>1, <1>10 DEF RejectRolledBack, Fault, TypeOK
  <2> QED BY <1>1, <1>10, <1>req, <2>1, <2>2, QuietStep DEF RejectRolledBack
<1>11. CASE Cancel(c)
  <2>1. /\ cmd' \in [Commands -> Row]
        /\ \A d \in Commands : RowOK(d, cmd'[d]) /\ Quiet(cmd[d], cmd'[d])
    BY <1>1, <1>11, CancelledOK, QuietRow DEF Cancel
  <2> QED BY <1>1, <1>11, <1>req, <2>1, QuietStep DEF Cancel, TypeOK
<1>12. CASE Retry(c)
  <2>1. /\ cmd' \in [Commands -> Row]
        /\ \A d \in Commands : RowOK(d, cmd'[d]) /\ Quiet(cmd[d], cmd'[d])
    BY <1>1, <1>12, RetriedOK, QuietRow DEF Retry
  <2> QED BY <1>1, <1>12, <1>req, <2>1, QuietStep DEF Retry, TypeOK
<1> QED BY <1>3, <1>4, <1>5, <1>6, <1>7, <1>8, <1>9, <1>10, <1>11, <1>12 DEF Handle

\* The janitor and the clock keep the invariant.
LEMMA SweepTickStep ==
    ASSUME IInv, Sweep \/ Tick
    PROVE  IInv'
<1>1. TypeOK /\ \A c \in Commands : RowOK(c, cmd[c])
  BY DEF IInv
<1>2. CASE Sweep
  <2>1. ASSUME NEW c \in Commands
        PROVE  RowOK(c, cmd'[c]) /\ Quiet(cmd[c], cmd'[c]) /\ cmd'[c] \in Row
    <3>1. RowOK(c, Expired(cmd[c], 1)) /\ Quiet(cmd[c], Expired(cmd[c], 1))
      BY <1>1, ExpiredOK
    <3> QED BY <1>2, <3>1 DEF Sweep, RowOK
  <2>2. cmd' \in [Commands -> Row]
    BY <1>2, <2>1 DEF Sweep
  <2> QED BY <1>1, <1>2, <2>1, <2>2, QuietStep DEF Sweep, TypeOK, RequestOK, IInv, requestVars
<1>3. CASE Tick
  <2>1. ASSUME NEW c \in Commands
        PROVE  RowOK(c, cmd'[c]) /\ Quiet(cmd[c], cmd'[c]) /\ cmd'[c] \in Row
    <3>1. RowOK(c, Aged(cmd[c])) /\ Quiet(cmd[c], Aged(cmd[c]))
      BY <1>1, AgedOK
    <3> QED BY <1>3, <3>1 DEF Tick, RowOK
  <2>2. cmd' \in [Commands -> Row]
    BY <1>3, <2>1 DEF Tick
  <2> QED BY <1>1, <1>3, <2>1, <2>2, QuietStep DEF Tick, TypeOK, RequestOK, IInv, requestVars
<1> QED BY <1>2, <1>3

-----------------------------------------------------------------------------
(* Steps of an agent *)

\* A lease nobody had before goes to an idle agent, or is lost on the way.
LEMMA LeaseStep ==
    ASSUME IInv, NEW a \in Agents, NEW c \in Commands, Lease(a, c)
    PROVE  IInv'
<1> DEFINE r == Leased(cmd[c])
<1>1. /\ TypeOK /\ RowOK(c, cmd[c]) /\ cmd[c] \in Row
      /\ job[a] = NoJob /\ Available(cmd[c]) /\ cmd[c].issued < MaxLeases
  BY DEF IInv, RowOK, Lease
<1>2. RowOK(c, r) /\ r \in Row
  BY <1>1, LeasedOK DEF RowOK
<1>3. /\ r.issued = cmd[c].issued + 1 /\ r.lease = cmd[c].issued + 1
      /\ r.status = "leased" /\ r.count = cmd[c].count /\ r.started = cmd[c].started
  BY <1>1 DEF Leased, Row
<1>4. /\ cmd' = [cmd EXCEPT ![c] = r] /\ UNCHANGED <<requestVars, outbox, runs>>
      /\ faults' \in 0..MaxFaults
      /\ \/ job' = [job EXCEPT ![a] = [cmd |-> c, lease |-> cmd[c].issued + 1,
                                       phase |-> "leased", seen |-> 0]]
         \/ job' = job
  BY <1>1, CommandAssumption DEF Lease, SetRow, Fault, TypeOK
<1> HIDE DEF r
<1>5. TypeOK'
  <2>1. [cmd |-> c, lease |-> cmd[c].issued + 1, phase |-> "leased", seen |-> 0] \in Job
    BY <1>1, CommandAssumption DEF Job, Row
  <2>2. job' \in [Agents -> Job \cup {NoJob}]
    BY <1>1, <1>4, <2>1 DEF TypeOK
  <2> QED BY <1>1, <1>2, <1>4, <2>2 DEF TypeOK, requestVars
<1>6. ASSUME NEW d \in Commands PROVE RowOK(d, cmd'[d]) /\ RunsOK(d)' /\ RequestOK(d)'
  <2>1. RowOK(d, cmd'[d])
    BY <1>1, <1>2, <1>4 DEF IInv, TypeOK
  <2>2. RunsOK(d)'
    BY <1>1, <1>3, <1>4 DEF IInv, TypeOK, RunsOK
  <2> QED BY <1>4, <2>1, <2>2 DEF IInv, RequestOK, requestVars
<1>7. ASSUME NEW b \in Agents, NEW x \in outbox[b]
      PROVE  x \in Result /\ x.cmd \in Commands /\ x.lease <= cmd[x.cmd].issued
             /\ x.lease \in Nat /\ cmd[x.cmd].issued \in Nat
  <2>1. x \in Result /\ x.cmd \in Commands /\ x.lease <= cmd[x.cmd].issued
    BY <1>1 DEF IInv, TypeOK, Result, ResultOK
  <2>2. cmd[x.cmd] \in Row
    BY <1>1, <2>1 DEF TypeOK
  <2> QED BY <2>1, <2>2, CommandAssumption DEF Result, Row
<1>8. ASSUME NEW b \in Agents, job[b] # NoJob
      PROVE  /\ job[b].cmd \in Commands /\ job[b].lease <= cmd[job[b].cmd].issued
             /\ job[b].lease \in Nat /\ cmd[job[b].cmd].issued \in Nat
             /\ JobOK(b)
             /\ job[b].cmd = c => job[b].phase # "executing"
  <2>1. job[b] \in Job /\ JobOK(b) /\ job[b].cmd \in Commands
    BY <1>1, <1>8 DEF IInv, TypeOK, Job
  <2>2. cmd[job[b].cmd] \in Row
    BY <1>1, <2>1 DEF TypeOK
  <2>3. job[b].lease \in Nat /\ cmd[job[b].cmd].issued \in Nat
    BY <2>1, <2>2, CommandAssumption DEF Job, Row
  <2>4. cmd[c].status \in {"queued", "leased"}
    BY <1>1 DEF Available
  <2> QED BY <1>8, <2>1, <2>3, <2>4 DEF JobOK, Working, Stopping, Terminal
<1>9. ASSUME NEW b \in Agents PROVE JobOK(b)'
  <2>1. /\ cmd'[c].issued = cmd[c].issued + 1
        /\ \A d \in Commands : d # c => cmd'[d] = cmd[d]
        /\ outbox' = outbox /\ cmd[c].issued \in Nat
    BY <1>1, <1>3, <1>4, CommandAssumption DEF TypeOK, Row
  <2>2. CASE job' = job
    BY <1>8, <2>1, <2>2 DEF JobOK
  <2>3. CASE job' # job
    <3>1. /\ job' = [job EXCEPT ![a] = [cmd |-> c, lease |-> cmd[c].issued + 1,
                                       phase |-> "leased", seen |-> 0]]
          /\ job \in [Agents -> Job \cup {NoJob}]
      BY <1>1, <1>4, <2>3 DEF TypeOK
    <3>2. /\ job'[a].cmd = c /\ job'[a].lease = cmd[c].issued + 1
          /\ job'[a].phase = "leased" /\ job'[a].seen = 0
          /\ \A e \in Agents : e # a => job'[e] = job[e]
      BY <3>1
    <3>3. CASE b = a
      BY <1>7, <1>8, <2>1, <3>2, <3>3 DEF JobOK
    <3>4. CASE b # a
      BY <1>8, <2>1, <3>2, <3>4 DEF JobOK
    <3> QED BY <3>3, <3>4
  <2> QED BY <2>2, <2>3
<1>10. ASSUME NEW b \in Agents, NEW x \in outbox'[b] PROVE ResultOK(x)'
  <2>1. x \in outbox[b] /\ ResultOK(x)
    BY <1>4, <1>10 DEF IInv
  <2>2. CASE x.cmd = c
    <3>1. cmd'[c] = r
      BY <1>1, <1>4 DEF TypeOK
    <3> QED BY <1>3, <1>7, <2>1, <2>2, <3>1 DEF ResultOK
  <2>3. CASE x.cmd # c
    BY <1>1, <1>4, <1>7, <2>1, <2>3 DEF ResultOK, TypeOK
  <2> QED BY <2>2, <2>3
<1> QED BY <1>5, <1>6, <1>9, <1>10 DEF IInv

\* What the invariant says of a job.
LEMMA JobFacts ==
    ASSUME IInv, NEW b \in Agents, job[b] # NoJob
    PROVE  /\ job[b] \in Job /\ job[b].cmd \in Commands /\ JobOK(b)
           /\ job[b].lease \in Nat \ {0} /\ job[b].seen \in Nat
           /\ cmd[job[b].cmd] \in Row /\ cmd[job[b].cmd].issued \in Nat
<1>1. job[b] \in Job /\ JobOK(b) /\ job[b].cmd \in Commands /\ cmd \in [Commands -> Row]
  BY DEF IInv, TypeOK, Job
<1>2. cmd[job[b].cmd] \in Row
  BY <1>1
<1> QED BY <1>1, <1>2, CommandAssumption DEF Job, Row

\* What the invariant says of a result.
LEMMA ResultFacts ==
    ASSUME IInv, NEW b \in Agents, NEW x \in outbox[b]
    PROVE  x \in Result /\ x.cmd \in Commands /\ ResultOK(x) /\ x.lease \in Nat \ {0}
<1>1. x \in Result /\ ResultOK(x)
  BY DEF IInv, TypeOK
<1> QED BY <1>1, CommandAssumption DEF Result

\* An agent gives up its job: a refused start or a crash.
LEMMA DropStep ==
    ASSUME IInv, NEW a \in Agents, job' = [job EXCEPT ![a] = NoJob],
           faults' \in 0..MaxFaults, UNCHANGED <<cmd, requestVars, outbox, runs>>
    PROVE  IInv'
<1>1. TypeOK'
  BY DEF IInv, TypeOK, requestVars
<1>2. \A c \in Commands : RowOK(c, cmd'[c]) /\ RunsOK(c)' /\ RequestOK(c)'
  BY DEF IInv, RunsOK, RequestOK, requestVars
<1>3. job \in [Agents -> Job \cup {NoJob}]
  BY DEF IInv, TypeOK
<1>4. ASSUME NEW b \in Agents PROVE JobOK(b)'
  <2>1. /\ \A e \in Agents : job'[e] = IF e = a THEN NoJob ELSE job[e]
        /\ JobOK(b)
    BY <1>3 DEF IInv
  <2> QED BY <2>1 DEF JobOK
<1>5. \A b \in Agents : \A x \in outbox'[b] : ResultOK(x)'
  BY DEF IInv, ResultOK
<1> QED BY <1>1, <1>2, <1>4, <1>5 DEF IInv

\* A started command runs on the agent that holds its lease, or on none when
\* the answer was lost.
LEMMA StartStep ==
    ASSUME IInv, NEW a \in Agents, Start(a)
    PROVE  IInv'
<1> DEFINE c == job[a].cmd
           r == Started(cmd[c])
<1>1. /\ job[a] # NoJob /\ job[a].phase = "leased" /\ TypeOK
      /\ cmd[c].status = "leased" /\ cmd[c].lease = job[a].lease
  BY DEF Start, Startable, LiveLease, IInv
<1>2. /\ c \in Commands /\ JobOK(a) /\ job[a] \in Job /\ RowOK(c, cmd[c])
      /\ cmd[c] \in Row
  BY <1>1, JobFacts DEF IInv
<1>3. RowOK(c, r) /\ r \in Row
  BY <1>1, <1>2, StartedOK DEF RowOK
<1>4. /\ r.issued = cmd[c].issued /\ r.lease = cmd[c].lease /\ r.started = TRUE
      /\ r.status = "running" /\ r.count = cmd[c].count
  BY <1>2 DEF Started, Row
<1>5. /\ cmd' = [cmd EXCEPT ![c] = r] /\ UNCHANGED <<requestVars, outbox>>
      /\ faults' \in 0..MaxFaults
      /\ \/ /\ job' = [job EXCEPT ![a].phase = "executing"]
            /\ runs' = [runs EXCEPT ![c] = runs[c] + 1]
         \/ /\ job' = [job EXCEPT ![a] = NoJob]
            /\ runs' = runs
  BY <1>1, CommandAssumption DEF Start, SetRow, Fault, TypeOK
<1>6. /\ \A d \in Commands : d # c => cmd'[d] = cmd[d]
      /\ cmd'[c] = r
      /\ \A e \in Agents : e # a => job'[e] = job[e]
  BY <1>1, <1>2, <1>5 DEF TypeOK
<1>7. job'[a] = NoJob \/ (/\ job'[a] \in Job /\ job'[a].cmd = c
                          /\ job'[a].lease = job[a].lease
                          /\ job'[a].phase = "executing" /\ job'[a].seen = job[a].seen)
  BY <1>1, <1>2, <1>5 DEF TypeOK, Job
<1> HIDE DEF r
<1>8. TypeOK'
  <2>1. job' \in [Agents -> Job \cup {NoJob}]
    BY <1>1, <1>5, <1>7 DEF TypeOK
  <2>2. runs' \in [Commands -> Nat]
    BY <1>1, <1>2, <1>5 DEF TypeOK
  <2> QED BY <1>1, <1>2, <1>3, <1>5, <2>1, <2>2 DEF TypeOK, requestVars
<1>9. ASSUME NEW d \in Commands PROVE RowOK(d, cmd'[d]) /\ RunsOK(d)' /\ RequestOK(d)'
  <2>1. RowOK(d, cmd'[d]) /\ RequestOK(d)'
    BY <1>3, <1>5, <1>6 DEF IInv, RequestOK, requestVars
  <2>2. CASE d = c
    <3>1. /\ runs[c] < cmd[c].count /\ runs[c] \in Nat /\ cmd[c].count \in Nat
          /\ runs'[c] \in {runs[c], runs[c] + 1}
      <4>1. ~cmd[c].started /\ cmd[c].count # 0 /\ cmd[c].count \in Nat
        BY <1>1, <1>2, CommandAssumption DEF RowOK, Row
      <4>2. RunsOK(c) /\ runs \in [Commands -> Nat]
        BY <1>1, <1>2 DEF IInv, TypeOK
      <4> QED BY <1>2, <1>5, <4>1, <4>2 DEF RunsOK
    <3> QED BY <1>4, <1>6, <2>1, <2>2, <3>1 DEF RunsOK
  <2>3. CASE d # c
    <3>1. runs'[d] = runs[d] /\ cmd'[d] = cmd[d] /\ RunsOK(d)
      BY <1>1, <1>5, <1>6, <2>3 DEF IInv, TypeOK
    <3> QED BY <2>1, <3>1 DEF RunsOK
  <2> QED BY <2>2, <2>3
<1>10. ASSUME NEW b \in Agents PROVE JobOK(b)'
  <2>1. CASE b = a
    BY <1>1, <1>2, <1>4, <1>5, <1>6, <1>7, <2>1 DEF JobOK, Working
  <2>2. CASE b # a /\ job[b] # NoJob
    <3>1. JobOK(b) /\ job[b].cmd \in Commands
      BY <2>2, JobFacts
    <3>2. job[b].cmd # c \/ job[b].lease # job[a].lease
      BY <1>1, <1>2, <2>2, <3>1 DEF JobOK
    <3>3. job[b].cmd = c => job[b].phase # "executing"
      BY <1>1, <2>2, <3>1, <3>2 DEF JobOK
    <3> QED BY <1>1, <1>4, <1>5, <1>6, <1>7, <2>2, <3>1, <3>3 DEF JobOK
  <2>3. CASE b # a /\ job[b] = NoJob
    BY <1>6, <2>3 DEF JobOK
  <2> QED BY <2>1, <2>2, <2>3
<1>11. ASSUME NEW b \in Agents, NEW x \in outbox'[b] PROVE ResultOK(x)'
  <2>1. x \in outbox[b] /\ ResultOK(x) /\ x.cmd \in Commands
    BY <1>5, ResultFacts
  <2>2. CASE x.cmd = c
    <3>1. x.lease # job[a].lease
      BY <1>1, <1>2, <2>1, <2>2 DEF JobOK
    <3> QED BY <1>1, <1>4, <1>6, <2>1, <2>2, <3>1 DEF ResultOK
  <2>3. CASE x.cmd # c
    BY <1>6, <2>1, <2>3 DEF ResultOK
  <2> QED BY <2>2, <2>3
<1> QED BY <1>8, <1>9, <1>10, <1>11 DEF IInv

\* A heartbeat extends the lease and may tell the agent of a cancellation.
LEMMA HeartbeatStep ==
    ASSUME IInv, NEW a \in Agents, Heartbeat(a)
    PROVE  IInv'
<1> DEFINE c == job[a].cmd
           r == Beaten(cmd[c], job[a].seen)
<1>1. /\ job[a] # NoJob /\ job[a].phase = "executing" /\ TypeOK
      /\ cmd[c].status \in {"leased"} \cup Working
  BY DEF Heartbeat, Beatable, IInv
<1>2. /\ c \in Commands /\ JobOK(a) /\ job[a] \in Job /\ RowOK(c, cmd[c])
      /\ cmd[c] \in Row
  BY <1>1, JobFacts DEF IInv
<1>3. RowOK(c, r) /\ Quiet(cmd[c], r) /\ r \in Row
  BY <1>1, <1>2, BeatenOK DEF RowOK
<1>4. /\ cmd' = [cmd EXCEPT ![c] = r] /\ UNCHANGED <<requestVars, outbox, runs>>
      /\ faults' \in 0..MaxFaults
      /\ \/ job' = [job EXCEPT ![a].seen = IF r.status \in Stopping THEN r.gen
                                           ELSE job[a].seen]
         \/ job' = job
  BY <1>1, CommandAssumption DEF Heartbeat, SetRow, Fault, TypeOK
<1> HIDE DEF r
<1>5. /\ \A d \in Commands : d # c => cmd'[d] = cmd[d]
      /\ cmd'[c] = r
      /\ \A e \in Agents : e # a => job'[e] = job[e]
  BY <1>1, <1>2, <1>4 DEF TypeOK
<1>6. /\ job'[a] \in Job /\ job'[a].cmd = c /\ job'[a].lease = job[a].lease
      /\ job'[a].phase = "executing"
      /\ job'[a].seen = job[a].seen \/ r.status \in Stopping
  <2>1. r.gen \in Nat
    BY <1>3 DEF Row
  <2> QED BY <1>1, <1>2, <1>4, <2>1 DEF TypeOK, Job
<1>7. TypeOK'
  <2>1. job' \in [Agents -> Job \cup {NoJob}]
    BY <1>1, <1>4, <1>6 DEF TypeOK
  <2> QED BY <1>1, <1>2, <1>3, <1>4, <2>1 DEF TypeOK, requestVars
<1>8. ASSUME NEW d \in Commands PROVE RowOK(d, cmd'[d]) /\ RunsOK(d)' /\ RequestOK(d)'
  <2>1. RowOK(d, cmd'[d]) /\ RequestOK(d)' /\ RunsOK(d)
    BY <1>3, <1>4, <1>5 DEF IInv, RequestOK, requestVars
  <2>2. RunsOK(d)'
    <3>1. /\ runs'[d] = runs[d] /\ runs[d] \in Nat /\ cmd[d] \in Row
          /\ Quiet(cmd[d], cmd'[d]) /\ cmd'[d] \in Row
      BY <1>1, <1>3, <1>4, <1>5 DEF TypeOK, Quiet
    <3> QED BY <2>1, <3>1 DEF RunsOK, Quiet, Row
  <2> QED BY <2>1, <2>2
<1>9. ASSUME NEW b \in Agents PROVE JobOK(b)'
  <2>1. CASE b = a
    <3>1. job[a].lease # 0 /\ cmd[c].lease = job[a].lease
      BY <1>1, <1>2, JobFacts DEF JobOK
    <3>2. /\ r.lease = job[a].lease /\ r.issued = cmd[c].issued
          /\ \/ r.status \in Working
             \/ r.status \in Terminal /\ ~(r.status = "failed" /\ r.retryable)
          /\ job'[a].seen > 0 => r.status # "running"
      BY <1>1, <1>2, <1>3, <1>6, <3>1 DEF JobOK, Quiet, Working, Stopping, Terminal
    <3> QED BY <1>1, <1>2, <1>4, <1>5, <1>6, <2>1, <3>2 DEF JobOK
  <2>2. CASE b # a /\ job[b] # NoJob
    <3>1. JobOK(b) /\ job[b].cmd \in Commands /\ job[b].lease # 0 /\ job'[b] = job[b]
      BY <1>5, <2>2, JobFacts
    <3>2. Quiet(cmd[job[b].cmd], cmd'[job[b].cmd])
      BY <1>3, <1>5, <3>1 DEF Quiet
    <3>3. \A e \in Agents \ {b} :
             job'[e] # NoJob => job'[e].cmd # job[b].cmd \/ job'[e].lease # job[b].lease
      BY <1>1, <1>5, <1>6, <2>2, <3>1 DEF JobOK
    <3> QED BY <1>4, <2>2, <3>1, <3>2, <3>3 DEF JobOK, Quiet, Working, Stopping, Terminal
  <2>3. CASE b # a /\ job[b] = NoJob
    BY <1>5, <2>3 DEF JobOK
  <2> QED BY <2>1, <2>2, <2>3
<1>10. ASSUME NEW b \in Agents, NEW x \in outbox'[b] PROVE ResultOK(x)'
  <2>1. x \in outbox[b] /\ ResultOK(x) /\ x.cmd \in Commands /\ x.lease # 0
    BY <1>4, ResultFacts
  <2>2. Quiet(cmd[x.cmd], cmd'[x.cmd])
    BY <1>3, <1>5, <2>1 DEF Quiet
  <2> QED BY <2>1, <2>2 DEF ResultOK, Quiet
<1> QED BY <1>7, <1>8, <1>9, <1>10 DEF IInv

\* The lease of an execution that ended moves from the job to its result.
LEMMA FinishStep ==
    ASSUME IInv, NEW a \in Agents, Finish(a)
    PROVE  IInv'
<1>1. PICK end \in Terminal, retryable \in BOOLEAN :
          /\ end = "cancelled" => job[a].seen > 0
          /\ outbox' = [outbox EXCEPT ![a] = outbox[a] \cup
                {[cmd |-> job[a].cmd, lease |-> job[a].lease, status |-> end,
                  retryable |-> retryable, tries |-> 0]}]
  BY DEF Finish
<1> DEFINE c == job[a].cmd
           y == [cmd |-> c, lease |-> job[a].lease, status |-> end,
                 retryable |-> retryable, tries |-> 0]
<1>2. /\ job[a] # NoJob /\ job[a].phase = "executing" /\ TypeOK
      /\ job' = [job EXCEPT ![a] = NoJob]
      /\ UNCHANGED <<cmd, requestVars, runs, faults>>
  BY DEF Finish, IInv
<1>3. c \in Commands /\ JobOK(a) /\ job[a] \in Job
  BY <1>2, JobFacts
<1>4. y \in Result /\ y.cmd = c /\ y.lease = job[a].lease /\ y.status = end
  BY <1>3, CommandAssumption DEF Result, Job
<1>5. \A b \in Agents : outbox'[b] = IF b = a THEN outbox[a] \cup {y} ELSE outbox[b]
  BY <1>1, <1>2 DEF TypeOK
<1>6. \A b \in Agents : job'[b] = IF b = a THEN NoJob ELSE job[b]
  BY <1>2 DEF TypeOK
<1>7. TypeOK'
  <2>1. outbox' \in [Agents -> SUBSET Result]
    BY <1>1, <1>2, <1>4 DEF TypeOK
  <2>2. job' \in [Agents -> Job \cup {NoJob}]
    BY <1>2 DEF TypeOK
  <2> QED BY <1>2, <2>1, <2>2 DEF TypeOK, requestVars
<1>8. \A d \in Commands : RowOK(d, cmd'[d]) /\ RunsOK(d)' /\ RequestOK(d)'
  BY <1>2 DEF IInv, RunsOK, RequestOK, requestVars
<1> HIDE DEF y
<1>9. ASSUME NEW b \in Agents PROVE JobOK(b)'
  <2>1. CASE b = a \/ job[b] = NoJob
    BY <1>6, <2>1 DEF JobOK
  <2>2. CASE b # a /\ job[b] # NoJob
    <3>1. JobOK(b) /\ (job[b].cmd # c \/ job[b].lease # job[a].lease)
      BY <1>2, <1>3, <2>2, JobFacts DEF JobOK
    <3>2. \A e \in Agents : \A x \in outbox'[e] :
              x.cmd # job[b].cmd \/ x.lease # job[b].lease
      BY <1>4, <1>5, <2>2, <3>1 DEF JobOK
    <3> QED BY <1>2, <1>6, <2>2, <3>1, <3>2 DEF JobOK
  <2> QED BY <2>1, <2>2
<1>10. ASSUME NEW b \in Agents, NEW x \in outbox'[b] PROVE ResultOK(x)'
  <2>1. CASE x \in outbox[b]
    BY <1>2, <2>1, ResultFacts DEF ResultOK
  <2>2. CASE x = y
    BY <1>1, <1>2, <1>3, <1>4, <2>2 DEF JobOK, ResultOK
  <2> QED BY <1>5, <1>10, <2>1, <2>2
<1> QED BY <1>7, <1>8, <1>9, <1>10 DEF IInv

\* After a call with result x, the outboxes hold only results they held before,
\* x perhaps with one more try.
LEMMA OutboxFacts ==
    ASSUME IInv, NEW a \in Agents, NEW x \in outbox[a], Sent(a, x) \/ NotSent(a, x)
    PROVE  /\ outbox' \in [Agents -> SUBSET Result]
           /\ \A b \in Agents : \A y \in outbox'[b] :
                 \E z \in outbox[b] : /\ y.cmd = z.cmd /\ y.lease = z.lease
                                      /\ y.status = z.status
<1> DEFINE z == [x EXCEPT !.tries = x.tries + 1]
<1>1. x \in Result /\ outbox \in [Agents -> SUBSET Result]
  BY ResultFacts DEF IInv, TypeOK
<1>2. /\ z.cmd = x.cmd /\ z.lease = x.lease /\ z.status = x.status
  BY <1>1 DEF Result
<1>3. x.tries + 1 < FlushAttempts => z \in Result
  <2>1. x.tries \in Nat
    BY <1>1, CommandAssumption DEF Result
  <2>2. ASSUME x.tries + 1 < FlushAttempts PROVE x.tries + 1 \in 0..FlushAttempts
    BY <2>1, <2>2, CommandAssumption
  <2> QED BY <1>1, <2>2 DEF Result
<1>4. CASE Sent(a, x)
  BY <1>1, <1>4 DEF Sent
<1>5. CASE NotSent(a, x)
  <2> DEFINE Z == IF x.tries + 1 < FlushAttempts THEN {z} ELSE {}
  <2>1. outbox' = [outbox EXCEPT ![a] = (outbox[a] \ {x}) \cup Z]
    BY <1>5 DEF NotSent
  <2>2. Z \subseteq Result /\ \A y \in Z : y.cmd = x.cmd /\ y.lease = x.lease /\ y.status = x.status
    BY <1>2, <1>3
  <2> HIDE DEF Z
  <2>3. outbox' \in [Agents -> SUBSET Result]
    BY <1>1, <2>1, <2>2
  <2>4. \A b \in Agents : outbox'[b] = IF b = a THEN (outbox[a] \ {x}) \cup Z ELSE outbox[b]
    BY <1>1, <2>1
  <2> QED BY <2>2, <2>3, <2>4
<1> QED BY <1>4, <1>5

\* A result that did not get through or was refused.
LEMMA FlushFailsStep ==
    ASSUME IInv, NEW a \in Agents, NEW x \in outbox[a], FlushFails(a, x)
    PROVE  IInv'
<1>1. /\ outbox' \in [Agents -> SUBSET Result]
      /\ \A b \in Agents : \A y \in outbox'[b] :
            \E z \in outbox[b] : y.cmd = z.cmd /\ y.lease = z.lease /\ y.status = z.status
      /\ UNCHANGED <<cmd, requestVars, job, runs>> /\ faults' \in 0..MaxFaults /\ TypeOK
  BY OutboxFacts, CommandAssumption DEF FlushFails, Fault, IInv, TypeOK
<1>2. TypeOK'
  BY <1>1 DEF TypeOK, requestVars
<1>3. \A d \in Commands : RowOK(d, cmd'[d]) /\ RunsOK(d)' /\ RequestOK(d)'
  BY <1>1 DEF IInv, RunsOK, RequestOK, requestVars
<1>4. ASSUME NEW b \in Agents PROVE JobOK(b)'
  <2>1. JobOK(b)
    BY DEF IInv
  <2> QED BY <1>1, <2>1 DEF JobOK
<1>5. ASSUME NEW b \in Agents, NEW y \in outbox'[b] PROVE ResultOK(y)'
  <2>1. PICK z \in outbox[b] : y.cmd = z.cmd /\ y.lease = z.lease /\ y.status = z.status
    BY <1>1
  <2> QED BY <1>1, <2>1, ResultFacts DEF ResultOK
<1> QED BY <1>2, <1>3, <1>4, <1>5 DEF IInv

\* A completion ends a command that no agent executes any more.
LEMMA FlushStep ==
    ASSUME IInv, NEW a \in Agents, NEW x \in outbox[a], Flush(a, x)
    PROVE  IInv'
<1> DEFINE c == x.cmd
           r == Completed(c, cmd[c], x)
<1>1. /\ x \in Result /\ c \in Commands /\ x.status \in Terminal /\ TypeOK
      /\ RowOK(c, cmd[c]) /\ cmd[c] \in Row
      /\ cmd[c].status \in Working /\ cmd[c].lease = x.lease
  BY ResultFacts DEF Flush, Completable, LiveLease, IInv, RowOK, Result
<1>2. RowOK(c, r) /\ r \in Row
  BY <1>1, CompletedOK DEF RowOK
<1>3. /\ r.issued = cmd[c].issued /\ r.lease = cmd[c].lease
      /\ r.started = cmd[c].started /\ r.count = cmd[c].count /\ r.status = x.status
  BY <1>1 DEF Completed, Row
<1>4. /\ cmd' = [cmd EXCEPT ![c] = r]
      /\ outbox' \in [Agents -> SUBSET Result]
      /\ \A b \in Agents : \A y \in outbox'[b] :
            \E z \in outbox[b] : y.cmd = z.cmd /\ y.lease = z.lease /\ y.status = z.status
      /\ UNCHANGED <<requestVars, job, runs>> /\ faults' \in 0..MaxFaults
  BY <1>1, OutboxFacts, CommandAssumption DEF Flush, SetRow, Fault, TypeOK
<1> HIDE DEF r
<1>5. /\ \A d \in Commands : d # c => cmd'[d] = cmd[d]
      /\ cmd'[c] = r
  BY <1>1, <1>4 DEF TypeOK
<1>6. TypeOK'
  BY <1>1, <1>2, <1>4 DEF TypeOK, requestVars
<1>7. ASSUME NEW d \in Commands PROVE RowOK(d, cmd'[d]) /\ RunsOK(d)' /\ RequestOK(d)'
  <2>1. RowOK(d, cmd'[d]) /\ RequestOK(d)' /\ RunsOK(d)
    BY <1>2, <1>4, <1>5 DEF IInv, RequestOK, requestVars
  <2> QED BY <1>3, <1>4, <1>5, <2>1 DEF RunsOK
<1>8. ASSUME NEW b \in Agents PROVE JobOK(b)'
  <2>1. CASE job[b] = NoJob
    BY <1>4, <2>1 DEF JobOK
  <2>2. CASE job[b] # NoJob
    <3>1. JobOK(b) /\ job[b].cmd \in Commands
      BY <2>2, JobFacts
    <3>2. job[b].cmd = c => job[b].phase # "executing"
      BY <1>1, <2>2, <3>1 DEF JobOK
    <3>3. \A e \in Agents : \A y \in outbox'[e] :
              y.cmd # job[b].cmd \/ y.lease # job[b].lease
      BY <1>4, <2>2, <3>1 DEF JobOK
    <3> QED BY <1>3, <1>4, <1>5, <2>2, <3>1, <3>2, <3>3 DEF JobOK
  <2> QED BY <2>1, <2>2
<1>9. ASSUME NEW b \in Agents, NEW y \in outbox'[b] PROVE ResultOK(y)'
  <2>1. PICK z \in outbox[b] : y.cmd = z.cmd /\ y.lease = z.lease /\ y.status = z.status
    BY <1>4
  <2>2. ResultOK(z) /\ z.cmd \in Commands
    BY ResultFacts
  <2>3. r.status # "running"
    BY <1>1, <1>3 DEF Terminal
  <2> QED BY <1>3, <1>5, <2>1, <2>2, <2>3 DEF ResultOK
<1> QED BY <1>6, <1>7, <1>8, <1>9 DEF IInv

-----------------------------------------------------------------------------
(* The theorems *)

\* The initial states satisfy the invariant.
LEMMA InitIInv == Init => IInv
<1> SUFFICES ASSUME Init PROVE IInv
  OBVIOUS
<1>1. NewRow \in Row
  BY CommandAssumption DEF NewRow, Row, Active, Terminal
<1>2. TypeOK
  BY <1>1, CommandAssumption DEF Init, TypeOK
<1>3. \A c \in Commands : RowOK(c, NewRow)
  BY <1>1 DEF RowOK, NewRow, Working, Stopping, Terminal
<1>4. \A c \in Commands : RowOK(c, cmd[c]) /\ RunsOK(c) /\ RequestOK(c)
  <2> SUFFICES ASSUME NEW c \in Commands PROVE RowOK(c, cmd[c]) /\ RunsOK(c) /\ RequestOK(c)
    OBVIOUS
  <2>1. cmd[c] = NewRow /\ runs[c] = 0 /\ pending[c] = 0 /\ asked[c] = 0 /\ locked[c] = FALSE
    BY DEF Init
  <2>2. NewRow.count = 0
    BY DEF NewRow
  <2> QED BY <1>3, <2>1, <2>2 DEF RunsOK, RequestOK
<1>5. /\ \A a \in Agents : JobOK(a)
      /\ \A a \in Agents : \A x \in outbox[a] : ResultOK(x)
  BY DEF Init, JobOK
<1> QED BY <1>2, <1>4, <1>5 DEF IInv

\* Every step keeps the invariant.
LEMMA NextIInv == IInv /\ [Next]_vars => IInv'
<1> SUFFICES ASSUME IInv, [Next]_vars PROVE IInv'
  OBVIOUS
<1>1. CASE \E c \in Commands : \/ Accept(c) \/ Request(c) \/ Handle(c)
                               \/ RejectRolledBack(c) \/ Cancel(c) \/ Retry(c)
  BY <1>1, ServerStep
<1>2. CASE Sweep \/ Tick
  BY <1>2, SweepTickStep
<1>3. CASE \E a \in Agents : \E c \in Commands : Lease(a, c)
  BY <1>3, LeaseStep
<1>4. ASSUME NEW a \in Agents, StartRefused(a) \/ Crash(a) PROVE IInv'
  <2>1. /\ job' = [job EXCEPT ![a] = NoJob] /\ faults' \in 0..MaxFaults
        /\ UNCHANGED <<cmd, requestVars, outbox, runs>>
    BY <1>4, CommandAssumption DEF StartRefused, Crash, Fault, IInv, TypeOK
  <2> QED BY <2>1, DropStep
<1>5. CASE \E a \in Agents : Work(a)
  BY <1>4, <1>5, StartStep, HeartbeatStep, FinishStep, FlushStep, FlushFailsStep DEF Work
<1>6. CASE UNCHANGED vars
  <2>1. /\ cmd' \in [Commands -> Row]
        /\ \A c \in Commands : RowOK(c, cmd'[c]) /\ Quiet(cmd[c], cmd'[c])
    BY <1>6 DEF vars, IInv, TypeOK, Quiet
  <2> QED BY <1>6, <2>1, QuietStep DEF vars, requestVars, agentVars, IInv, TypeOK, RequestOK
<1> QED BY <1>1, <1>2, <1>3, <1>4, <1>5, <1>6 DEF Next

\* The invariant holds throughout.
LEMMA Invariance == Spec => []IInv
  BY InitIInv, NextIInv, PTL DEF Spec

\* Every variable keeps its type: in particular attempts stay within the retry
\* budget and leases are never reused.
THEOREM TypeCorrect == Spec => []TypeOK
<1>1. IInv => TypeOK
  BY DEF IInv
<1> QED BY <1>1, Invariance, PTL

\* The operation stream and the command row agree, for any retry policy.
THEOREM StreamAlwaysAgrees == Spec => []StreamAgrees
<1>1. IInv => StreamAgrees
  BY DEF IInv, RowOK, StreamAgrees
<1> QED BY <1>1, Invariance, PTL

\* The command row and its active attempt agree.
THEOREM AttemptAlwaysAgrees == Spec => []AttemptAgrees
<1>1. IInv => AttemptAgrees
  BY DEF IInv, RowOK, AttemptAgrees
<1> QED BY <1>1, Invariance, PTL

\* Row, attempt and stream of a command agree, whoever updates them.
THEOREM RecordsAlwaysAgree == Spec => []RecordsAgree
  BY StreamAlwaysAgrees, AttemptAlwaysAgrees, PTL DEF RecordsAgree

\* No command runs on two agents at once, nor more often than it has attempts.
THEOREM RunsAtMostOnce == Spec => []ExecutedOnce
<1>1. IInv => ExecutedOnce
  <2> SUFFICES ASSUME IInv, NEW c \in Commands
               PROVE  /\ runs[c] <= cmd[c].count
                      /\ \A a, b \in Agents : Executing(a, c) /\ Executing(b, c) => a = b
    BY DEF ExecutedOnce
  <2>1. runs[c] <= cmd[c].count
    BY DEF IInv, RunsOK
  <2>2. \A a, b \in Agents : Executing(a, c) /\ Executing(b, c) => a = b
    BY DEF IInv, JobOK, Executing
  <2> QED BY <2>1, <2>2
<1> QED BY <1>1, Invariance, PTL

\* A command that was started and is over has been announced.
THEOREM EndIsAnnounced == Spec => []EndAnnounced
<1>1. IInv => EndAnnounced
  BY DEF IInv, RowOK, EndAnnounced
<1> QED BY <1>1, Invariance, PTL

\* The transition of one row is in the table of lifecycle.py.
Moves(r, s) ==
    \/ s.status = r.status
    \/ r.status = "absent" /\ s.status = "queued"
    \/ r.status # "absent" /\ s.status \in AllowedTransitions[r.status]

\* The sweep moves a row as the table allows.
LEMMA ExpiredMoves ==
    ASSUME NEW r \in Row, NEW n
    PROVE  Moves(r, Expired(r, n))
<1>1. CASE ~Expirable(r)
  BY <1>1 DEF Expired, Moves
<1>2. CASE Expirable(r)
  <2>1. Expired(r, n).status = IF r.status \in Stopping THEN "cancelled" ELSE "failed"
    BY <1>2 DEF Expired, Row
  <2>2. r.status \in {"queued", "leased"} \cup Working
    BY <1>2 DEF Expirable
  <2> QED BY <2>1, <2>2 DEF Moves, AllowedTransitions, Working, Stopping
<1> QED BY <1>1, <1>2

\* The handler's own write and the sweep that follows it together move a row as
\* the table allows.
LEMMA HandledMoves ==
    ASSUME IInv, NEW c \in Commands, NEW row, Handled(c, row), row \in Row,
           \/ row = cmd[c]
           \/ cmd[c].status = "queued" /\ row.status \in {"queued", "failed"}
           \/ cmd[c].status = "absent" /\ row.status = "queued" /\ row.age = 0,
           NEW d \in Commands
    PROVE  Moves(cmd[d], cmd'[d])
<1>1. cmd \in [Commands -> Row]
  BY DEF IInv, TypeOK
<1>2. cmd'[d] = Expired(IF d = c THEN row ELSE cmd[d], 2)
  BY <1>1 DEF Handled, SweptByWorker
<1>3. CASE d # c \/ row = cmd[c]
  BY <1>1, <1>2, <1>3, ExpiredMoves
<1>4. CASE d = c /\ row # cmd[c]
  <2>1. cmd'[d] = Expired(row, 2) /\ Moves(row, Expired(row, 2))
    BY <1>2, <1>4, ExpiredMoves
  <2>2. CASE cmd[c].status = "absent" /\ row.status = "queued" /\ row.age = 0
    <3>1. ~Expirable(row)
      BY <2>2, CommandAssumption DEF Expirable, Working, Stopping
    <3> QED BY <1>4, <2>1, <2>2, <3>1 DEF Expired, Moves
  <2>3. CASE cmd[c].status = "queued" /\ row.status = "queued"
    BY <1>4, <2>1, <2>3 DEF Moves
  <2>4. CASE cmd[c].status = "queued" /\ row.status = "failed"
    <3>1. ~Expirable(row)
      BY <2>4 DEF Expirable, Working, Stopping
    <3> QED BY <1>4, <2>1, <2>4, <3>1 DEF Expired, Moves, AllowedTransitions
  <2> QED BY <1>4, <2>2, <2>3, <2>4
<1> QED BY <1>3, <1>4

\* Writing one row moves only that row.
LEMMA RowMoves ==
    ASSUME IInv, NEW c \in Commands, NEW r, SetRow(c, r), Moves(cmd[c], r),
           NEW d \in Commands
    PROVE  Moves(cmd[d], cmd'[d])
<1>1. cmd \in [Commands -> Row]
  BY DEF IInv, TypeOK
<1>2. cmd'[d] = IF d = c THEN r ELSE cmd[d]
  BY <1>1 DEF SetRow
<1> QED BY <1>2 DEF Moves

\* Every step of the server side moves rows as the table allows.
LEMMA ServerMoves ==
    ASSUME IInv, NEW c \in Commands,
           \/ Accept(c) \/ Request(c) \/ Handle(c) \/ RejectRolledBack(c)
           \/ Cancel(c) \/ Retry(c),
           NEW d \in Commands
    PROVE  Moves(cmd[d], cmd'[d])
<1>1. RowOK(c, cmd[c]) /\ cmd[c] \in Row
  BY DEF IInv, RowOK
<1>2. CASE UNCHANGED cmd
  BY <1>2 DEF Moves
<1>3. CASE Accept(c)
  <2>1. Moves(cmd[c], [cmd[c] EXCEPT !.status = "queued"])
    BY <1>1, <1>3 DEF Accept, Moves, Row
  <2> QED BY <1>3, <2>1, RowMoves DEF Accept
<1>4. CASE ProjectRequest(c)
  <2>1. /\ Projected(cmd[c]) \in Row
        /\ Projected(cmd[c]).status = "queued"
        /\ Projected(cmd[c]).age = cmd[c].age
    BY <1>1, <1>4, ProjectedOK DEF ProjectRequest, Projected, Row, RowOK
  <2>2. \/ cmd[c].status = "queued"
        \/ cmd[c].status = "absent" /\ cmd[c].age = 0
    BY <1>1, <1>4 DEF ProjectRequest, Projectable, RowOK
  <2> QED BY <1>4, <2>1, <2>2, HandledMoves DEF ProjectRequest
<1>5. cmd[c].status = "queued" => FailedLogical(cmd[c]).status = "failed"
  BY <1>1 DEF FailedLogical, Row
<1>6. CASE RejectRequest(c)
  <2>1. FailedLogical(cmd[c]) \in Row
    BY <1>1, FailedLogicalOK DEF RowOK
  <2>2. FailedLogical(cmd[c]) = cmd[c] \/ cmd[c].status = "queued"
    BY DEF FailedLogical
  <2> QED BY <1>5, <1>6, <2>1, <2>2, HandledMoves DEF RejectRequest
<1>7. CASE DuplicateRequest(c)
  BY <1>1, <1>7, HandledMoves DEF DuplicateRequest
<1>8. CASE RejectRolledBack(c)
  <2>1. Moves(cmd[c], FailedLogical(cmd[c]))
    BY <1>5, <1>8 DEF RejectRolledBack, Moves, AllowedTransitions
  <2> QED BY <1>8, <2>1, RowMoves DEF RejectRolledBack
<1>9. CASE Cancel(c)
  <2>1. cmd[c].status \in {"queued", "leased", "running"}
    BY <1>9 DEF Cancel
  <2>2. Cancelled(cmd[c]).status =
            IF cmd[c].status = "running" THEN "cancel_requested" ELSE "cancelled"
    BY <1>1 DEF Cancelled, Row
  <2>3. Moves(cmd[c], Cancelled(cmd[c]))
    BY <2>1, <2>2 DEF Moves, AllowedTransitions
  <2> QED BY <1>9, <2>3, RowMoves DEF Cancel
<1>10. CASE Retry(c)
  <2>1. Retried(cmd[c]).status = "queued"
    BY <1>1 DEF Retried, Row
  <2>2. Moves(cmd[c], Retried(cmd[c]))
    BY <1>10, <2>1 DEF Retry, Moves, AllowedTransitions
  <2> QED BY <1>10, <2>2, RowMoves DEF Retry
<1> QED BY <1>2, <1>3, <1>4, <1>6, <1>7, <1>8, <1>9, <1>10
        DEF Handle, Request, DuplicateBlocks, DuplicateTimesOut

\* Every step of an agent moves rows as the table allows: a result "cancelled"
\* finds the command asked to cancel.
LEMMA AgentMoves ==
    ASSUME IInv, NEW a \in Agents,
           (\E c \in Commands : Lease(a, c)) \/ Work(a) \/ Crash(a),
           NEW d \in Commands
    PROVE  Moves(cmd[d], cmd'[d])
<1>1. CASE UNCHANGED cmd
  BY <1>1 DEF Moves
<1>2. ASSUME NEW c \in Commands, Lease(a, c) PROVE Moves(cmd[d], cmd'[d])
  <2>1. cmd[c] \in Row /\ cmd[c].status \in {"queued", "leased"}
    BY <1>2 DEF IInv, TypeOK, Lease, Available
  <2>2. Leased(cmd[c]).status = "leased"
    BY <2>1 DEF Leased, Row
  <2>3. Moves(cmd[c], Leased(cmd[c]))
    BY <2>1, <2>2 DEF Moves, AllowedTransitions
  <2> QED BY <1>2, <2>3, RowMoves DEF Lease
<1>3. CASE Start(a)
  <2> DEFINE c == job[a].cmd
  <2>1. c \in Commands /\ cmd[c] \in Row /\ cmd[c].status = "leased"
    BY <1>3, JobFacts DEF Start, Startable
  <2>2. Started(cmd[c]).status = "running"
    BY <2>1 DEF Started, Row
  <2>3. Moves(cmd[c], Started(cmd[c]))
    BY <2>1, <2>2 DEF Moves, AllowedTransitions
  <2> QED BY <1>3, <2>1, <2>3, RowMoves DEF Start
<1>4. CASE Heartbeat(a)
  <2> DEFINE c == job[a].cmd
  <2>1. c \in Commands /\ cmd[c] \in Row
    BY <1>4, JobFacts DEF Heartbeat
  <2>2. Beaten(cmd[c], job[a].seen).status =
            IF cmd[c].status = "cancel_requested" /\ job[a].seen # 0
               /\ job[a].seen >= cmd[c].gen
            THEN "cancelling" ELSE cmd[c].status
    BY <2>1 DEF Beaten, Row
  <2>3. Moves(cmd[c], Beaten(cmd[c], job[a].seen))
    BY <2>1, <2>2 DEF Moves, AllowedTransitions
  <2> QED BY <1>4, <2>1, <2>3, RowMoves DEF Heartbeat
<1>5. ASSUME NEW x \in outbox[a], Flush(a, x) PROVE Moves(cmd[d], cmd'[d])
  <2> DEFINE c == x.cmd
  <2>1. /\ c \in Commands /\ cmd[c] \in Row /\ x.status \in Terminal /\ ResultOK(x)
        /\ cmd[c].status \in Working /\ cmd[c].lease = x.lease
    BY <1>5, ResultFacts DEF Flush, Completable, LiveLease, IInv, TypeOK, Result
  <2>2. Completed(c, cmd[c], x).status = x.status
    BY <2>1 DEF Completed, Row
  <2>3. x.status = "cancelled" => cmd[c].status # "running"
    BY <2>1 DEF ResultOK
  <2>4. Moves(cmd[c], Completed(c, cmd[c], x))
    BY <2>1, <2>2, <2>3 DEF Moves, AllowedTransitions, Working, Stopping, Terminal
  <2> QED BY <1>5, <2>1, <2>4, RowMoves DEF Flush
<1> QED BY <1>1, <1>2, <1>3, <1>4, <1>5 DEF Work, StartRefused, Finish, FlushFails, Crash

\* The life cycle of lifecycle.py is kept by every step, although no statement
\* consults its table.
THEOREM LifecycleIsKept == Spec => LifecycleKept
<1> DEFINE Kept == \A d \in Commands : Moves(cmd[d], cmd'[d])
<1>1. IInv /\ [Next]_vars => [Kept]_vars
  <2> SUFFICES ASSUME IInv, Next, NEW d \in Commands PROVE Moves(cmd[d], cmd'[d])
    OBVIOUS
  <2>1. CASE Sweep
    BY <2>1, ExpiredMoves DEF Sweep, IInv, TypeOK
  <2>2. CASE Tick
    <3>1. cmd[d] \in Row /\ cmd'[d] = Aged(cmd[d])
      BY <2>2 DEF Tick, IInv, TypeOK
    <3>2. Aged(cmd[d]).status = cmd[d].status
      BY <3>1 DEF Aged, Row
    <3> QED BY <3>1, <3>2 DEF Moves
  <2> QED BY <2>1, <2>2, ServerMoves, AgentMoves DEF Next
<1>2. Kept => \A c \in Commands :
          LET old == cmd[c].status  new == cmd'[c].status
          IN  \/ new = old
              \/ old = "absent" /\ new = "queued"
              \/ old # "absent" /\ new \in AllowedTransitions[old]
  BY DEF Moves
<1> QED BY <1>1, <1>2, Invariance, PTL DEF Spec, LifecycleKept

=============================================================================
