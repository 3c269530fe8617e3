--------------------------- MODULE JobStoreProofs ---------------------------
(***************************************************************************)
(* Proofs about JobStore, for any jobs, workers, sessions, attempt limits, *)
(* batch size and number of manual retries.  At the end, the same next to  *)
(* the reaper process: its loop decides when scans happen, never what they *)
(* write.                                                                  *)
(***************************************************************************)
EXTENDS ReaperProcess, SequenceTheorems, FiniteSetTheorems, TLAPS

-----------------------------------------------------------------------------
\* Settling a claim keeps the sequence of claims well formed, also for a token
\* that was never handed out.
LEMMA SettledType ==
    ASSUME NEW j \in Jobs, claims \in [Jobs -> Seq(Claim)],
           NEW t \in Nat, NEW e \in Endings
    PROVE  Settled(j, t, e) \in Seq(Claim)
<1> DEFINE q == claims[j]
<1>1. q \in Seq(Claim) /\ Len(q) \in Nat /\ DOMAIN q = 1 .. Len(q)
  BY LenProperties
<1>2. CASE t \in 1 .. Len(q)
  <2>1. q[t] \in Claim
    BY <1>1, <1>2, ElementOfSeq
  <2>2. [by |-> q[t].by, ending |-> e] \in Claim
    BY <2>1 DEF Claim
  <2> QED BY <1>1, <1>2, <2>2, ExceptSeq DEF Settled
<1>3. CASE t \notin 1 .. Len(q)
  <2>1. Settled(j, t, e) = q
    BY <1>1, <1>3 DEF Settled
  <2> QED BY <1>1, <2>1
<1> QED BY <1>2, <1>3

\* Settling a claim ends the one with that token and leaves the others alone.
LEMMA SettledClaims ==
    ASSUME NEW j \in Jobs, claims \in [Jobs -> Seq(Claim)],
           NEW t \in 1 .. Len(claims[j]), NEW e \in Endings
    PROVE  /\ Len(Settled(j, t, e)) = Len(claims[j])
           /\ DOMAIN Settled(j, t, e) = DOMAIN claims[j]
           /\ Settled(j, t, e)[t].by = claims[j][t].by
           /\ Settled(j, t, e)[t].ending = e
           /\ \A i \in DOMAIN claims[j] : i # t => Settled(j, t, e)[i] = claims[j][i]
<1> DEFINE q == claims[j]
<1>1. q \in Seq(Claim) /\ Len(q) \in Nat /\ DOMAIN q = 1 .. Len(q)
  BY LenProperties
<1>2. [by |-> q[t].by, ending |-> e] \in Claim
  BY <1>1, ElementOfSeq DEF Claim
<1> QED BY <1>1, <1>2, ExceptSeq DEF Settled

-----------------------------------------------------------------------------
\* The rows every operation writes are rows of the table.
LEMMA RowTypes ==
    ASSUME TypeOK, NEW j \in Jobs
    PROVE  /\ CreatedRow \in Row
           /\ Claimable(j) => \A w \in Workers : ClaimedRow(j, w) \in Row
           /\ AfterFailure(j) \in Row
           /\ RenewedRow(j) \in Row
           /\ CompletedRow(j) \in Row
           /\ RequeuedRow(j) \in Row
<1>1. jobs[j] \in Row /\ Len(claims[j]) \in Nat
  BY LenProperties DEF TypeOK
<1>2. CreatedRow \in Row
  BY DEF CreatedRow, AbsentRow, NoToken, Row, Statuses
<1>3. ASSUME NEW w \in Workers
      PROVE  ClaimedRow(j, w) \in Row
  <2>1. ASSUME NEW r \in Row, NEW n \in Nat, NEW m \in Nat
        PROVE  [r EXCEPT !.status = "running", !.attempts = m, !.completedAt = "null",
                         !.error = "null", !.lockedBy = w, !.leaseToken = n, !.lease = "live"]
                   \in Row
    BY DEF Row, Statuses
  <2>2. Len(claims[j]) + 1 \in Nat /\ jobs[j].attempts + 1 \in Nat
    BY <1>1 DEF Row
  <2> QED BY ONLY <1>1, <2>1, <2>2 DEF ClaimedRow
<1>4. AfterFailure(j) \in Row
  <2>1. CASE WillRetry(j)
    BY <1>1, <2>1 DEF AfterFailure, AttemptsAfterFailure, NoToken, Row, Statuses
  <2>2. CASE ~WillRetry(j)
    BY <1>1, <2>2 DEF AfterFailure, AttemptsAfterFailure, NoToken, Row, Statuses
  <2> QED BY <2>1, <2>2
<1>5. RenewedRow(j) \in Row
  BY <1>1 DEF RenewedRow, Row
<1>6. CompletedRow(j) \in Row
  BY <1>1 DEF CompletedRow, NoToken, Row, Statuses
<1>7. RequeuedRow(j) \in Row
  BY <1>1 DEF RequeuedRow, NoToken, Row, Statuses
<1> QED BY <1>2, <1>3, <1>4, <1>5, <1>6, <1>7

-----------------------------------------------------------------------------
\* The columns of a row, and what each operation leaves in them.
Columns == {"status", "attempts", "lockedBy", "leaseToken", "lease", "runAfter", "result", "error",
            "completedAt"}

LEMMA RowColumns ==
    ASSUME TypeOK, NEW j \in Jobs
    PROVE  DOMAIN jobs[j] = Columns
BY DEF TypeOK, Row, Columns

LEMMA ClaimedValues ==
    ASSUME TypeOK, NEW j \in Jobs, NEW w \in Workers
    PROVE  LET r == ClaimedRow(j, w) IN
           /\ r.status = "running" /\ r.attempts = jobs[j].attempts + 1
           /\ r.lockedBy = w /\ r.leaseToken = Len(claims[j]) + 1 /\ r.lease = "live"
           /\ r.error = "null" /\ r.completedAt = "null"
           /\ r.result = jobs[j].result /\ r.runAfter = jobs[j].runAfter
<1>1. DOMAIN jobs[j] = Columns
  BY RowColumns
<1> QED BY ONLY <1>1 DEF Columns, ClaimedRow

LEMMA FailureValues ==
    ASSUME TypeOK, NEW j \in Jobs
    PROVE  LET r == AfterFailure(j) IN
           /\ r.status = IF WillRetry(j) THEN "queued" ELSE "dead_letter"
           /\ r.attempts = jobs[j].attempts
           /\ r.lockedBy = NoWorker /\ r.leaseToken = NoToken /\ r.lease = "null"
           /\ r.error = "set" /\ r.completedAt = IF WillRetry(j) THEN "null" ELSE "set"
           /\ r.result = jobs[j].result
           /\ r.runAfter = IF WillRetry(j) THEN "delayed" ELSE "due"
<1>1. DOMAIN jobs[j] = Columns
  BY RowColumns
<1> QED BY ONLY <1>1 DEF Columns, AfterFailure, AttemptsAfterFailure

LEMMA RenewedValues ==
    ASSUME TypeOK, NEW j \in Jobs
    PROVE  LET r == RenewedRow(j) IN
           /\ r.status = jobs[j].status /\ r.attempts = jobs[j].attempts
           /\ r.lockedBy = jobs[j].lockedBy /\ r.leaseToken = jobs[j].leaseToken
           /\ r.lease = "live"
           /\ r.error = jobs[j].error /\ r.completedAt = jobs[j].completedAt
           /\ r.result = jobs[j].result /\ r.runAfter = jobs[j].runAfter
<1>1. DOMAIN jobs[j] = Columns
  BY RowColumns
<1> QED BY ONLY <1>1 DEF Columns, RenewedRow

LEMMA CompletedValues ==
    ASSUME TypeOK, NEW j \in Jobs
    PROVE  LET r == CompletedRow(j) IN
           /\ r.status = "completed" /\ r.attempts = jobs[j].attempts
           /\ r.lockedBy = NoWorker /\ r.leaseToken = NoToken /\ r.lease = "null"
           /\ r.error = jobs[j].error /\ r.completedAt = "set"
           /\ r.result = "set" /\ r.runAfter = jobs[j].runAfter
<1>1. DOMAIN jobs[j] = Columns
  BY RowColumns
<1> QED BY ONLY <1>1 DEF Columns, CompletedRow

LEMMA RequeuedValues ==
    ASSUME TypeOK, NEW j \in Jobs
    PROVE  LET r == RequeuedRow(j) IN
           /\ r.status = "queued" /\ r.attempts = 0
           /\ r.lockedBy = NoWorker /\ r.leaseToken = NoToken /\ r.lease = "null"
           /\ r.error = "null" /\ r.completedAt = "null"
           /\ r.result = "null" /\ r.runAfter = "due"
<1>1. DOMAIN jobs[j] = Columns
  BY RowColumns
<1> QED BY ONLY <1>1 DEF Columns, RequeuedRow

\* A session outside its idle state runs a well-formed transaction.
LEMMA BusySession ==
    ASSUME TypeOK, NEW s \in Sessions, tx[s].stage # "idle"
    PROVE  /\ tx[s] \in Transaction
           /\ tx[s].job \in Jobs /\ tx[s].token \in Nat
<1>1. tx[s] # Idle
  BY DEF Idle
<1> QED BY <1>1 DEF TypeOK, Transaction

\* Ending a transaction leaves every session idle or in a transaction.
LEMMA CommitType ==
    ASSUME TypeOK, NEW s \in Sessions, Commit(s)
    PROVE  tx' \in [Sessions -> {Idle} \cup Transaction]
BY DEF TypeOK, Commit

\* No operation leaves the shape of the tables, nor charges a job more
\* attempts than it is allowed.
LEMMA TypeStep == TypeOK /\ [Next]_vars => TypeOK'
<1> SUFFICES ASSUME TypeOK, [Next]_vars
             PROVE  TypeOK'
  OBVIOUS
<1>t. /\ jobs \in [Jobs -> Row] /\ \A j \in Jobs : jobs[j].attempts <= MaxAttempts[j]
      /\ evals \in [Jobs -> Nat] /\ claims \in [Jobs -> Seq(Claim)] /\ requeues \in [Jobs -> Nat]
      /\ tx \in [Sessions -> {Idle} \cup Transaction]
  BY DEF TypeOK
<1>m. \A j \in Jobs : MaxAttempts[j] \in Nat
  BY MaxAttemptsAssumption
<1>a. \A j \in Jobs : jobs[j].attempts \in Nat
  BY <1>t DEF Row
<1>1. ASSUME NEW S \in SUBSET Jobs, CreateJobs(S)
      PROVE  TypeOK'
  <2>1. CreatedRow \in Row /\ CreatedRow.attempts = 0
    BY RowTypes, <1>1 DEF CreatedRow, AbsentRow, CreateJobs
  <2> QED BY <1>1, <1>t, <1>m, <2>1 DEF CreateJobs, TypeOK
<1>2. ASSUME NEW S \in SUBSET Jobs, ReapExpiredJobs(S)
      PROVE  TypeOK'
  <2>1. \A j \in Jobs : AfterFailure(j) \in Row /\ AfterFailure(j).attempts = jobs[j].attempts
    BY RowTypes, FailureValues
  <2>2. \A j \in Jobs : Settled(j, jobs[j].leaseToken, "reaped") \in Seq(Claim)
    BY SettledType, <1>t DEF Row, Endings
  <2> QED BY <1>2, <1>t, <2>1, <2>2 DEF ReapExpiredJobs, TypeOK
<1>3. ASSUME NEW w \in Workers, NEW j \in Jobs, ClaimNextJob(w, j)
      PROVE  TypeOK'
  <2>1. ClaimedRow(j, w) \in Row /\ ClaimedRow(j, w).attempts = jobs[j].attempts + 1
    BY RowTypes, ClaimedValues, <1>3 DEF ClaimNextJob
  <2>2. jobs[j].attempts + 1 <= MaxAttempts[j]
    BY <1>3, <1>m, <1>a DEF ClaimNextJob, Claimable
  <2>3. Append(claims[j], [by |-> w, ending |-> "open"]) \in Seq(Claim)
    BY <1>t, AppendProperties DEF Claim, Endings
  <2> QED BY <1>3, <1>t, <2>1, <2>2, <2>3 DEF ClaimNextJob, TypeOK
<1>4. ASSUME NEW j \in Jobs, LeaseExpires(j) \/ RunAfterPasses(j)
      PROVE  TypeOK'
  <2>1. /\ [jobs[j] EXCEPT !.lease = "expired"] \in Row
        /\ [jobs[j] EXCEPT !.runAfter = "due"] \in Row
    BY <1>t DEF Row
  <2>2. /\ [jobs[j] EXCEPT !.lease = "expired"].attempts = jobs[j].attempts
        /\ [jobs[j] EXCEPT !.runAfter = "due"].attempts = jobs[j].attempts
    BY <1>t DEF Row
  <2>3. /\ jobs' \in [Jobs -> Row]
        /\ \A i \in Jobs : jobs'[i].attempts = jobs[i].attempts
    BY <1>4, <1>t, <2>1, <2>2 DEF LeaseExpires, RunAfterPasses
  <2> QED BY <1>4, <1>t, <2>3 DEF LeaseExpires, RunAfterPasses, TypeOK
<1>5. ASSUME NEW s \in Sessions, NEW j \in Jobs, NEW op \in LeaseOps,
             NEW t \in DOMAIN claims[j], Begin(s, op, j, t)
      PROVE  TypeOK'
  <2>1. t \in Nat
    BY <1>t, LenProperties
  <2>2. [op |-> op, job |-> j, token |-> t, stage |-> "lock"] \in Transaction
    BY <2>1 DEF Transaction
  <2> QED BY <1>5, <1>t, <2>2 DEF Begin, TypeOK
<1>6. ASSUME NEW s \in Sessions, NEW j \in Jobs, BeginRetry(s, j)
      PROVE  TypeOK'
  BY <1>6, <1>t DEF BeginRetry, TypeOK, Transaction, NoToken
<1>7. ASSUME NEW s \in Sessions, Lock(s) \/ Check(s)
      PROVE  TypeOK'
  <2>1. tx[s] \in Transaction
    BY <1>7, BusySession DEF Lock, Check
  <2>2. /\ [tx[s] EXCEPT !.stage = "check"] \in Transaction
        /\ [tx[s] EXCEPT !.stage = "write"] \in Transaction
    BY <2>1 DEF Transaction
  <2> QED BY <1>7, <1>t, <2>2 DEF Lock, Check, TypeOK
<1>8. ASSUME NEW s \in Sessions, Abort(s)
      PROVE  TypeOK'
  BY <1>8, <1>t, CommitType DEF Abort, TypeOK
<1>9. ASSUME NEW s \in Sessions,
             RenewJobLease(s) \/ CompleteJob(s) \/ FailOrRetryJob(s) \/ RetryJob(s)
      PROVE  TypeOK'
  <2> DEFINE j == tx[s].job
  <2>1. j \in Jobs /\ tx[s].token \in Nat
    BY <1>9, BusySession DEF RenewJobLease, CompleteJob, FailOrRetryJob, RetryJob
  <2>2. tx' \in [Sessions -> {Idle} \cup Transaction]
    BY <1>9, CommitType DEF RenewJobLease, CompleteJob, FailOrRetryJob, RetryJob
  <2>3. /\ RenewedRow(j) \in Row /\ RenewedRow(j).attempts = jobs[j].attempts
        /\ CompletedRow(j) \in Row /\ CompletedRow(j).attempts = jobs[j].attempts
        /\ AfterFailure(j) \in Row /\ AfterFailure(j).attempts = jobs[j].attempts
        /\ RequeuedRow(j) \in Row /\ RequeuedRow(j).attempts = 0
    BY <2>1, RowTypes, RenewedValues, CompletedValues, FailureValues, RequeuedValues
  <2>4. \A e \in Endings : Settled(j, tx[s].token, e) \in Seq(Claim)
    BY <2>1, <1>t, SettledType
  <2>5. CASE RenewJobLease(s)
    BY <2>5, <2>1, <2>2, <2>3, <1>t DEF RenewJobLease, TypeOK
  <2>6. CASE CompleteJob(s)
    BY <2>6, <2>1, <2>2, <2>3, <2>4, <1>t DEF CompleteJob, TypeOK, Endings
  <2>7. CASE FailOrRetryJob(s)
    BY <2>7, <2>1, <2>2, <2>3, <2>4, <1>t DEF FailOrRetryJob, TypeOK, Endings
  <2>8. CASE RetryJob(s)
    BY <2>8, <2>1, <2>2, <2>3, <1>t, <1>m DEF RetryJob, TypeOK
  <2> QED BY <1>9, <2>5, <2>6, <2>7, <2>8
<1>10. CASE UNCHANGED vars
  BY <1>10 DEF vars, TypeOK
<1> QED BY <1>1, <1>2, <1>3, <1>4, <1>5, <1>6, <1>7, <1>8, <1>9, <1>10 DEF Next, SessionNext

\* Every reachable state has the types of the schema, and no job is ever
\* charged more attempts than max_attempts.
THEOREM TypeCorrect == Spec => []TypeOK
<1>1. Init => TypeOK
  <2>1. AbsentRow \in Row /\ AbsentRow.attempts = 0
    BY DEF AbsentRow, Row, Statuses, NoToken
  <2> QED BY <2>1, EmptySeq, MaxAttemptsAssumption DEF Init, TypeOK
<1> QED BY <1>1, TypeStep, PTL DEF Spec

-----------------------------------------------------------------------------
\* A row is locked by at most one transaction.
LockIsExclusive ==
    \A s1, s2 \in Sessions : \A j \in Jobs : Holds(s1, j) /\ Holds(s2, j) => s1 = s2

\* What each job satisfies by itself.
JobInv ==
    /\ AttemptBudget /\ OwnershipMatchesStatus /\ OutcomeMatchesStatus
    /\ OneAcceptedCompletion /\ ClaimsSettledInOrder /\ AttemptAccounting

\* The inductive invariant.  A write is justified by what was checked some
\* steps before, so the invariant has to say that the check still holds, and
\* for that, that the lock keeps everyone else from the row.
IInv == TypeOK /\ JobInv /\ LockIsExclusive /\ CheckedTransactionStillOwns

LEMMA UsedBudgetsType ==
    ASSUME TypeOK, NEW j \in Jobs
    PROVE  MaxAttempts[j] * requeues[j] \in Nat
<1>1. MaxAttempts[j] \in Nat /\ requeues[j] \in Nat
  BY MaxAttemptsAssumption DEF TypeOK
<1> QED BY <1>1

LEMMA InitIInv == Init => IInv
<1> SUFFICES ASSUME Init
             PROVE  IInv
  OBVIOUS
<1>1. TypeOK
  <2>1. AbsentRow \in Row /\ AbsentRow.attempts = 0
    BY DEF AbsentRow, Row, Statuses, NoToken
  <2> QED BY <2>1, EmptySeq, MaxAttemptsAssumption DEF Init, TypeOK
<1>2. \A j \in Jobs : MaxAttempts[j] \in Nat
  BY MaxAttemptsAssumption
<1>3. JobInv
  BY <1>2 DEF Init, AbsentRow, NoToken, JobInv, AttemptBudget, OwnershipMatchesStatus,
     OutcomeMatchesStatus, OneAcceptedCompletion, ClaimsSettledInOrder, AttemptAccounting
<1>4. LockIsExclusive /\ CheckedTransactionStillOwns
  BY DEF Init, Idle, LockIsExclusive, Holds, CheckedTransactionStillOwns
<1> QED BY <1>1, <1>3, <1>4 DEF IInv

-----------------------------------------------------------------------------
\* Creation.
LEMMA CreateKeepsJobs ==
    ASSUME IInv, NEW S \in SUBSET Jobs, CreateJobs(S)
    PROVE  JobInv'
<1>1. /\ CreatedRow.status = "queued" /\ CreatedRow.attempts = 0
      /\ CreatedRow.lockedBy = NoWorker /\ CreatedRow.leaseToken = NoToken
      /\ CreatedRow.lease = "null" /\ CreatedRow.runAfter = "due"
      /\ CreatedRow.result = "null" /\ CreatedRow.error = "null"
      /\ CreatedRow.completedAt = "null"
  BY DEF CreatedRow, AbsentRow
<1>2. /\ jobs' = [j \in Jobs |-> IF j \in S THEN CreatedRow ELSE jobs[j]]
      /\ \A j \in S : jobs[j].status = "absent" /\ jobs[j].attempts = 0
      /\ evals' = evals /\ claims' = claims /\ requeues' = requeues
  BY DEF CreateJobs, IInv, JobInv, AttemptBudget
<1>3. AttemptBudget' /\ AttemptAccounting'
  BY <1>1, <1>2, MaxAttemptsAssumption DEF IInv, JobInv, AttemptBudget, AttemptAccounting
<1>4. OwnershipMatchesStatus'
  BY <1>1, <1>2 DEF IInv, JobInv, OwnershipMatchesStatus
<1>5. OutcomeMatchesStatus'
  BY <1>1, <1>2 DEF IInv, JobInv, OutcomeMatchesStatus
<1>6. OneAcceptedCompletion' /\ ClaimsSettledInOrder'
  BY <1>1, <1>2 DEF IInv, JobInv, OneAcceptedCompletion, ClaimsSettledInOrder
<1> QED BY <1>3, <1>4, <1>5, <1>6 DEF JobInv

\* A claim hands out a fresh token; every earlier claim was settled before.
LEMMA ClaimKeepsJobs ==
    ASSUME IInv, NEW w \in Workers, NEW j \in Jobs, ClaimNextJob(w, j)
    PROVE  JobInv'
<1> DEFINE q == claims[j]
           c == [by |-> w, ending |-> "open"]
<1>0. TypeOK
  BY DEF IInv
<1>1. q \in Seq(Claim) /\ Len(q) \in Nat /\ DOMAIN q = 1 .. Len(q) /\ c \in Claim
  BY <1>0, LenProperties DEF TypeOK, Claim, Endings
<1>2. /\ Append(q, c) # << >> /\ Len(Append(q, c)) = Len(q) + 1
      /\ DOMAIN Append(q, c) = 1 .. Len(q) + 1
      /\ \A t \in 1 .. Len(q) : Append(q, c)[t] = q[t]
      /\ Append(q, c)[Len(q) + 1] = c
  BY <1>1, AppendProperties, LenProperties
<1>3. /\ jobs[j].status = "queued" /\ jobs[j].runAfter = "due"
      /\ jobs[j].attempts \in Nat /\ jobs[j].attempts < MaxAttempts[j]
  BY <1>0 DEF ClaimNextJob, Claimable, TypeOK, Row
<1>4. /\ jobs' = [jobs EXCEPT ![j] = ClaimedRow(j, w)]
      /\ claims' = [claims EXCEPT ![j] = Append(q, c)]
      /\ evals' = evals /\ requeues' = requeues
  BY DEF ClaimNextJob
<1>5. \A k \in Jobs : k # j => jobs'[k] = jobs[k] /\ claims'[k] = claims[k]
  BY <1>0, <1>4 DEF TypeOK
<1>6. jobs'[j] = ClaimedRow(j, w) /\ claims'[j] = Append(q, c)
  BY <1>0, <1>4 DEF TypeOK
<1>7. /\ jobs'[j].status = "running" /\ jobs'[j].attempts = jobs[j].attempts + 1
      /\ jobs'[j].lockedBy = w /\ jobs'[j].leaseToken = Len(q) + 1 /\ jobs'[j].lease = "live"
      /\ jobs'[j].error = "null" /\ jobs'[j].completedAt = "null"
      /\ jobs'[j].result = jobs[j].result /\ jobs'[j].runAfter = jobs[j].runAfter
  BY <1>0, <1>6, ClaimedValues
<1>8. AttemptBudget'
  BY <1>3, <1>5, <1>7 DEF IInv, JobInv, AttemptBudget
<1>9. AttemptAccounting'
  <2>1. Len(q) = MaxAttempts[j] * requeues[j] + jobs[j].attempts
    BY DEF IInv, JobInv, AttemptAccounting
  <2>2. MaxAttempts[j] * requeues[j] \in Nat
    BY <1>0, UsedBudgetsType
  <2>3. Len(q) + 1 = MaxAttempts[j] * requeues[j] + (jobs[j].attempts + 1)
    BY <1>1, <1>3, <2>1, <2>2
  <2>4. \A k \in Jobs : k # j =>
            Len(claims'[k]) = MaxAttempts[k] * requeues'[k] + jobs'[k].attempts
    BY <1>4, <1>5 DEF IInv, JobInv, AttemptAccounting
  <2> QED BY <1>2, <1>4, <1>6, <1>7, <2>3, <2>4 DEF AttemptAccounting
<1>10. OwnershipMatchesStatus'
  BY <1>2, <1>5, <1>6, <1>7 DEF IInv, JobInv, OwnershipMatchesStatus
<1>11. OutcomeMatchesStatus'
  BY <1>3, <1>5, <1>7 DEF IInv, JobInv, OutcomeMatchesStatus
<1>12. OneAcceptedCompletion'
  BY <1>1, <1>2, <1>3, <1>4, <1>5, <1>6, <1>7 DEF IInv, JobInv, OneAcceptedCompletion
<1>13. ClaimsSettledInOrder'
  <2>1. \A t \in 1 .. Len(q) : q[t].ending # "open"
    BY <1>1, <1>3 DEF IInv, JobInv, ClaimsSettledInOrder
  <2>2. \A t \in DOMAIN claims'[j] : claims'[j][t].ending = "open"
            <=> jobs'[j].status = "running" /\ t = Len(claims'[j])
    BY <1>1, <1>2, <1>6, <1>7, <2>1
  <2>3. \A k \in Jobs : k # j => \A t \in DOMAIN claims'[k] : claims'[k][t].ending = "open"
            <=> jobs'[k].status = "running" /\ t = Len(claims'[k])
    BY <1>5 DEF IInv, JobInv, ClaimsSettledInOrder
  <2> QED BY <2>2, <2>3 DEF ClaimsSettledInOrder
<1> QED BY <1>8, <1>9, <1>10, <1>11, <1>12, <1>13 DEF JobInv
\* The newest attempts of the running jobs in S end without a result: what the
\* reaper does to a batch and failOrRetryJob to one job.
LEMMA FailureKeepsJobs ==
    ASSUME IInv, NEW S \in SUBSET Jobs, NEW e \in {"released", "reaped"},
           \A j \in S : jobs[j].status = "running",
           jobs' = [j \in Jobs |-> IF j \in S THEN AfterFailure(j) ELSE jobs[j]],
           claims' = [j \in Jobs |-> IF j \in S THEN Settled(j, jobs[j].leaseToken, e)
                                                ELSE claims[j]],
           evals' = evals, requeues' = requeues
    PROVE  JobInv'
<1>i. /\ AttemptBudget /\ OwnershipMatchesStatus /\ OutcomeMatchesStatus
      /\ OneAcceptedCompletion /\ ClaimsSettledInOrder /\ AttemptAccounting
      /\ \A j \in S : j \in Jobs /\ jobs[j].status = "running"
      /\ evals' = evals /\ requeues' = requeues /\ e \in {"released", "reaped"}
  BY DEF IInv, JobInv
<1>0. TypeOK /\ e \in Endings /\ claims \in [Jobs -> Seq(Claim)]
  BY DEF IInv, Endings, TypeOK
<1>1. \A j \in Jobs : j \notin S => jobs'[j] = jobs[j] /\ claims'[j] = claims[j]
  OBVIOUS
<1>2. ASSUME NEW j \in S
      PROVE  /\ jobs'[j].status = IF WillRetry(j) THEN "queued" ELSE "dead_letter"
             /\ jobs'[j].attempts = jobs[j].attempts
             /\ jobs'[j].lockedBy = NoWorker /\ jobs'[j].leaseToken = NoToken
             /\ jobs'[j].lease = "null" /\ jobs'[j].error = "set"
             /\ jobs'[j].completedAt = IF WillRetry(j) THEN "null" ELSE "set"
             /\ jobs'[j].result = jobs[j].result
             /\ jobs'[j].runAfter = IF WillRetry(j) THEN "delayed" ELSE "due"
  BY <1>0, FailureValues
<1>3. ASSUME NEW j \in S
      PROVE  /\ Len(claims'[j]) = Len(claims[j]) /\ DOMAIN claims'[j] = DOMAIN claims[j]
             /\ claims'[j][Len(claims[j])].ending = e
             /\ \A t \in DOMAIN claims[j] : t # Len(claims[j]) => claims'[j][t] = claims[j][t]
  <2>1. /\ jobs[j].leaseToken = Len(claims[j])
        /\ claims'[j] = Settled(j, Len(claims[j]), e)
        /\ claims[j] # << >>
    BY DEF IInv, JobInv, OwnershipMatchesStatus
  <2>2. Len(claims[j]) \in 1 .. Len(claims[j])
    BY <1>0, <2>1, LenProperties, EmptySeq
  <2>3. LET q == Settled(j, Len(claims[j]), e) IN
        /\ Len(q) = Len(claims[j]) /\ DOMAIN q = DOMAIN claims[j]
        /\ q[Len(claims[j])].ending = e
        /\ \A t \in DOMAIN claims[j] : t # Len(claims[j]) => q[t] = claims[j][t]
    BY ONLY <1>0, <2>2, j \in Jobs, SettledClaims
  <2> QED BY ONLY <2>1, <2>3
<1>4. AttemptBudget'
  <2>1. ASSUME NEW j \in S
        PROVE  jobs[j].attempts \in Nat /\ jobs[j].attempts <= MaxAttempts[j]
               /\ MaxAttempts[j] \in Nat
    BY ONLY <1>0, <1>i, MaxAttemptsAssumption DEF TypeOK, Row
  <2> QED BY ONLY <1>i, <1>1, <1>2, <2>1 DEF AttemptBudget, WillRetry
<1>5. OwnershipMatchesStatus'
  BY ONLY <1>i, <1>1, <1>2 DEF OwnershipMatchesStatus
<1>6. OutcomeMatchesStatus'
  BY ONLY <1>i, <1>1, <1>2 DEF OutcomeMatchesStatus
<1>7. OneAcceptedCompletion'
  BY ONLY <1>i, <1>1, <1>2, <1>3 DEF OneAcceptedCompletion
<1>8. ClaimsSettledInOrder'
  BY ONLY <1>i, <1>1, <1>2, <1>3 DEF ClaimsSettledInOrder
<1>9. AttemptAccounting'
  BY ONLY <1>i, <1>1, <1>2, <1>3 DEF AttemptAccounting
<1> QED BY <1>4, <1>5, <1>6, <1>7, <1>8, <1>9 DEF JobInv

\* A renewal, the passing of a lease and the passing of a retry time change
\* one column each, and keep a lease a lease.
LEMMA ClockKeepsJobs ==
    ASSUME IInv, NEW j \in Jobs, NEW row,
           row.status = jobs[j].status, row.attempts = jobs[j].attempts,
           row.lockedBy = jobs[j].lockedBy, row.leaseToken = jobs[j].leaseToken,
           row.result = jobs[j].result, row.error = jobs[j].error,
           row.completedAt = jobs[j].completedAt,
           row.runAfter \in {jobs[j].runAfter, "due"},
           row.lease = "null" <=> jobs[j].lease = "null",
           jobs' = [jobs EXCEPT ![j] = row],
           evals' = evals, claims' = claims, requeues' = requeues
    PROVE  JobInv'
<1>1. /\ \A k \in Jobs : k # j => jobs'[k] = jobs[k]
      /\ jobs'[j] = row
  BY DEF IInv, TypeOK
<1>2. AttemptBudget' /\ AttemptAccounting'
  BY <1>1 DEF IInv, JobInv, AttemptBudget, AttemptAccounting
<1>3. OwnershipMatchesStatus'
  BY <1>1 DEF IInv, JobInv, OwnershipMatchesStatus
<1>4. OutcomeMatchesStatus'
  BY <1>1 DEF IInv, JobInv, OutcomeMatchesStatus
<1>5. OneAcceptedCompletion' /\ ClaimsSettledInOrder'
  BY <1>1 DEF IInv, JobInv, OneAcceptedCompletion, ClaimsSettledInOrder
<1> QED BY <1>2, <1>3, <1>4, <1>5 DEF JobInv

\* A completion settles the newest claim: the transaction still owns the job.
LEMMA CompleteKeepsJobs ==
    ASSUME IInv, NEW s \in Sessions, CompleteJob(s)
    PROVE  JobInv'
<1> DEFINE j == tx[s].job
           n == Len(claims[j])
<1>0. TypeOK /\ "completed" \in Endings /\ claims \in [Jobs -> Seq(Claim)]
  BY DEF IInv, Endings, TypeOK
<1>1. j \in Jobs /\ evals[j] \in Nat
  BY <1>0, BusySession DEF CompleteJob, TypeOK
<1>2. jobs[j].status = "running" /\ tx[s].token = n /\ claims[j] # << >>
  BY <1>1 DEF IInv, CompleteJob, CheckedTransactionStillOwns, JobInv, OwnershipMatchesStatus
<1>3. n \in 1 .. n
  BY <1>0, <1>1, <1>2, LenProperties, EmptySeq
<1>4. /\ \A k \in Jobs : k # j => /\ jobs'[k] = jobs[k] /\ claims'[k] = claims[k]
                                  /\ evals'[k] = evals[k]
      /\ jobs'[j] = CompletedRow(j) /\ evals'[j] = evals[j] + 1
      /\ claims'[j] = Settled(j, n, "completed")
      /\ requeues' = requeues
  BY <1>0, <1>1, <1>2 DEF CompleteJob, TypeOK
<1>5. /\ jobs'[j].status = "completed" /\ jobs'[j].attempts = jobs[j].attempts
      /\ jobs'[j].lockedBy = NoWorker /\ jobs'[j].leaseToken = NoToken
      /\ jobs'[j].lease = "null" /\ jobs'[j].error = jobs[j].error
      /\ jobs'[j].completedAt = "set" /\ jobs'[j].result = "set"
      /\ jobs'[j].runAfter = jobs[j].runAfter
  BY <1>0, <1>1, <1>4, CompletedValues
<1>6. /\ Len(claims'[j]) = n /\ DOMAIN claims'[j] = DOMAIN claims[j]
      /\ claims'[j][n].ending = "completed"
      /\ \A t \in DOMAIN claims[j] : t # n => claims'[j][t] = claims[j][t]
  <2>1. LET q == Settled(j, n, "completed") IN
        /\ Len(q) = n /\ DOMAIN q = DOMAIN claims[j] /\ q[n].ending = "completed"
        /\ \A t \in DOMAIN claims[j] : t # n => q[t] = claims[j][t]
    BY ONLY <1>0, <1>1, <1>3, SettledClaims
  <2> QED BY <1>4, <2>1
<1>7. AttemptBudget' /\ AttemptAccounting'
  BY <1>2, <1>4, <1>5, <1>6 DEF IInv, JobInv, AttemptBudget, AttemptAccounting
<1>8. OwnershipMatchesStatus'
  BY <1>4, <1>5 DEF IInv, JobInv, OwnershipMatchesStatus
<1>9. OutcomeMatchesStatus'
  BY <1>2, <1>4, <1>5 DEF IInv, JobInv, OutcomeMatchesStatus
<1>10. OneAcceptedCompletion'
  BY <1>1, <1>2, <1>4, <1>5, <1>6 DEF IInv, JobInv, OneAcceptedCompletion
<1>11. ClaimsSettledInOrder'
  BY <1>2, <1>4, <1>5, <1>6 DEF IInv, JobInv, ClaimsSettledInOrder
<1> QED BY <1>7, <1>8, <1>9, <1>10, <1>11 DEF JobInv

\* A manual retry turns a used-up budget into one more budget.
LEMMA RetryKeepsJobs ==
    ASSUME IInv, NEW s \in Sessions, RetryJob(s)
    PROVE  JobInv'
<1> DEFINE j == tx[s].job
<1>0. TypeOK
  BY DEF IInv
<1>1. j \in Jobs /\ requeues[j] \in Nat /\ MaxAttempts[j] \in Nat \ {0}
  BY <1>0, BusySession, MaxAttemptsAssumption DEF RetryJob, TypeOK
<1>2. jobs[j].status = "dead_letter" /\ jobs[j].attempts = MaxAttempts[j]
  BY <1>1 DEF IInv, RetryJob, CheckedTransactionStillOwns, JobInv, AttemptBudget
<1>3. /\ \A k \in Jobs : k # j => jobs'[k] = jobs[k] /\ requeues'[k] = requeues[k]
      /\ jobs'[j] = RequeuedRow(j) /\ requeues'[j] = requeues[j] + 1
      /\ evals' = evals /\ claims' = claims
  BY <1>0, <1>1 DEF RetryJob, TypeOK
<1>4. /\ jobs'[j].status = "queued" /\ jobs'[j].attempts = 0
      /\ jobs'[j].lockedBy = NoWorker /\ jobs'[j].leaseToken = NoToken
      /\ jobs'[j].lease = "null" /\ jobs'[j].error = "null" /\ jobs'[j].completedAt = "null"
      /\ jobs'[j].result = "null" /\ jobs'[j].runAfter = "due"
  BY <1>0, <1>1, <1>3, RequeuedValues
<1>5. AttemptBudget'
  BY <1>1, <1>3, <1>4 DEF IInv, JobInv, AttemptBudget
<1>6. AttemptAccounting'
  <2>1. Len(claims[j]) = MaxAttempts[j] * requeues[j] + MaxAttempts[j]
    BY <1>1, <1>2 DEF IInv, JobInv, AttemptAccounting
  <2>2. \A m, r \in Nat : m * r + m = m * (r + 1) + 0
    OBVIOUS
  <2>3. Len(claims[j]) = MaxAttempts[j] * (requeues[j] + 1) + 0
    BY <1>1, <2>1, <2>2
  <2> QED BY <1>3, <1>4, <2>3 DEF IInv, JobInv, AttemptAccounting
<1>7. OwnershipMatchesStatus'
  BY <1>3, <1>4 DEF IInv, JobInv, OwnershipMatchesStatus
<1>8. OutcomeMatchesStatus'
  BY <1>3, <1>4 DEF IInv, JobInv, OutcomeMatchesStatus
<1>9. OneAcceptedCompletion' /\ ClaimsSettledInOrder'
  BY <1>2, <1>3, <1>4 DEF IInv, JobInv, OneAcceptedCompletion, ClaimsSettledInOrder
<1> QED BY <1>5, <1>6, <1>7, <1>8, <1>9 DEF JobInv
-----------------------------------------------------------------------------
\* Steps outside transactions never move a locked row to another status or
\* owner, so what a transaction checked stays true.
LEMMA LockedRowsKept ==
    ASSUME IInv, tx' = tx,
           \A s \in Sessions : tx[s].stage = "write" =>
               /\ jobs'[tx[s].job].status = jobs[tx[s].job].status
               /\ jobs'[tx[s].job].leaseToken = jobs[tx[s].job].leaseToken
    PROVE  LockIsExclusive' /\ CheckedTransactionStillOwns'
BY DEF IInv, LockIsExclusive, Holds, CheckedTransactionStillOwns

\* The end of a transaction leaves the rows of the other transactions alone.
LEMMA CommitKeepsLocks ==
    ASSUME IInv, NEW s \in Sessions, Commit(s),
           \A j \in Jobs : j # tx[s].job \/ tx[s].stage # "write" => jobs'[j] = jobs[j]
    PROVE  LockIsExclusive' /\ CheckedTransactionStillOwns'
<1>1. tx'[s] = Idle /\ \A i \in Sessions : i # s => tx'[i] = tx[i]
  BY DEF IInv, TypeOK, Commit
<1>2. LockIsExclusive'
  BY <1>1 DEF IInv, LockIsExclusive, Holds, Idle
<1>3. CheckedTransactionStillOwns'
  <2> SUFFICES ASSUME NEW i \in Sessions, tx'[i].stage = "write"
               PROVE  jobs'[tx[i].job] = jobs[tx[i].job] /\ tx'[i] = tx[i]
    BY DEF IInv, CheckedTransactionStillOwns
  <2>1. i # s /\ tx'[i] = tx[i]
    BY <1>1 DEF Idle
  <2>2. tx[i].job \in Jobs
    BY <2>1, BusySession DEF IInv
  <2>3. tx[s].stage = "write" => tx[s].job # tx[i].job
    BY <2>1, <2>2 DEF IInv, LockIsExclusive, Holds
  <2> QED BY <2>1, <2>2, <2>3
<1> QED BY <1>2, <1>3

\* Whatever step is taken, the invariant holds afterwards.
LEMMA StepKeepsIInv == IInv /\ [Next]_vars => IInv'
<1> SUFFICES ASSUME IInv, [Next]_vars
             PROVE  IInv'
  OBVIOUS
<1>t. TypeOK /\ TypeOK'
  BY TypeStep DEF IInv
<1>j. \A s \in Sessions : tx[s].stage = "write" => tx[s].job \in Jobs
  BY <1>t, BusySession
<1>1. ASSUME NEW S \in SUBSET Jobs, CreateJobs(S)
      PROVE  IInv'
  <2>1. \A s \in Sessions : tx[s].stage = "write" => tx[s].job \notin S
    BY <1>1, <1>j DEF IInv, CheckedTransactionStillOwns, CreateJobs
  <2>2. LockIsExclusive' /\ CheckedTransactionStillOwns'
    BY <1>1, <1>j, <2>1, LockedRowsKept DEF CreateJobs
  <2> QED BY <1>1, <1>t, <2>2, CreateKeepsJobs DEF IInv
<1>2. ASSUME NEW S \in SUBSET Jobs, ReapExpiredJobs(S)
      PROVE  IInv'
  <2>1. \A s \in Sessions : tx[s].stage = "write" => tx[s].job \notin S
    BY <1>2, <1>j DEF ReapExpiredJobs, Reapable, Unlocked, Holds
  <2>2. LockIsExclusive' /\ CheckedTransactionStillOwns'
    BY <1>2, <1>j, <2>1, LockedRowsKept DEF ReapExpiredJobs
  <2>3. JobInv'
    BY <1>2, FailureKeepsJobs DEF ReapExpiredJobs, Reapable
  <2> QED BY <1>t, <2>2, <2>3 DEF IInv
<1>3. ASSUME NEW w \in Workers, NEW j \in Jobs, ClaimNextJob(w, j)
      PROVE  IInv'
  <2>1. \A s \in Sessions : tx[s].stage = "write" => tx[s].job # j
    BY <1>3 DEF ClaimNextJob, Unlocked, Holds
  <2>2. LockIsExclusive' /\ CheckedTransactionStillOwns'
    BY <1>3, <1>t, <1>j, <2>1, LockedRowsKept DEF ClaimNextJob, TypeOK
  <2> QED BY <1>3, <1>t, <2>2, ClaimKeepsJobs DEF IInv
<1>4. ASSUME NEW j \in Jobs, LeaseExpires(j) \/ RunAfterPasses(j)
      PROVE  IInv'
  <2>1. PICK row : /\ \/ row = [jobs[j] EXCEPT !.lease = "expired"] /\ jobs[j].lease = "live"
                      \/ row = [jobs[j] EXCEPT !.runAfter = "due"]
                   /\ jobs' = [jobs EXCEPT ![j] = row]
    BY <1>4 DEF LeaseExpires, RunAfterPasses
  <2>2. DOMAIN jobs[j] = Columns
    BY <1>t, RowColumns
  <2>3. /\ row.status = jobs[j].status /\ row.attempts = jobs[j].attempts
        /\ row.lockedBy = jobs[j].lockedBy /\ row.leaseToken = jobs[j].leaseToken
        /\ row.result = jobs[j].result /\ row.error = jobs[j].error
        /\ row.completedAt = jobs[j].completedAt
        /\ row.runAfter \in {jobs[j].runAfter, "due"}
        /\ row.lease = "null" <=> jobs[j].lease = "null"
    BY ONLY <2>1, <2>2 DEF Columns
  <2>4. tx' = tx /\ evals' = evals /\ claims' = claims /\ requeues' = requeues
    BY <1>4 DEF LeaseExpires, RunAfterPasses
  <2>5. JobInv'
    BY <2>1, <2>3, <2>4, ClockKeepsJobs
  <2>6. \A k \in Jobs : /\ jobs'[k].status = jobs[k].status
                        /\ jobs'[k].leaseToken = jobs[k].leaseToken
    BY <1>t, <2>1, <2>3 DEF TypeOK
  <2>7. LockIsExclusive' /\ CheckedTransactionStillOwns'
    BY <1>j, <2>4, <2>6, LockedRowsKept
  <2> QED BY <1>t, <2>5, <2>7 DEF IInv
<1>5. ASSUME UNCHANGED <<jobs, evals, claims, requeues>>
      PROVE  JobInv'
  BY <1>5 DEF IInv, JobInv, AttemptBudget, OwnershipMatchesStatus, OutcomeMatchesStatus,
     OneAcceptedCompletion, ClaimsSettledInOrder, AttemptAccounting
<1>6. ASSUME NEW s \in Sessions, NEW j \in Jobs, NEW op \in LeaseOps \cup {"retry"}, NEW t \in Nat,
             tx' = [tx EXCEPT ![s] = [op |-> op, job |-> j, token |-> t, stage |-> "lock"]],
             UNCHANGED <<jobs, evals, claims, requeues>>
      PROVE  IInv'
  <2>1. tx'[s].stage = "lock" /\ \A i \in Sessions : i # s => tx'[i] = tx[i]
    BY <1>6, <1>t DEF TypeOK
  <2>2. LockIsExclusive' /\ CheckedTransactionStillOwns'
    BY <1>6, <2>1 DEF IInv, LockIsExclusive, Holds, CheckedTransactionStillOwns
  <2> QED BY <1>t, <1>5, <1>6, <2>2 DEF IInv
<1>7. ASSUME NEW s \in Sessions, Lock(s)
      PROVE  IInv'
  <2>1. tx[s] \in Transaction
    BY <1>7, <1>t, BusySession DEF Lock
  <2>2. /\ tx'[s].stage = "check" /\ tx'[s].job = tx[s].job
        /\ \A i \in Sessions : i # s => tx'[i] = tx[i]
    BY <1>7, <1>t, <2>1 DEF Lock, TypeOK, Transaction
  <2>3. LockIsExclusive'
    BY <1>7, <2>2 DEF IInv, LockIsExclusive, Lock, Unlocked, Holds
  <2>4. CheckedTransactionStillOwns'
    BY <1>7, <2>2 DEF IInv, CheckedTransactionStillOwns, Lock
  <2> QED BY <1>t, <1>5, <1>7, <2>3, <2>4 DEF IInv, Lock
<1>8. ASSUME NEW s \in Sessions, Check(s)
      PROVE  IInv'
  <2>1. tx[s] \in Transaction
    BY <1>8, <1>t, BusySession DEF Check
  <2>2. \A i \in Sessions : i # s => tx'[i] = tx[i]
    BY <1>8, <1>t DEF Check, TypeOK
  <2>3. CASE MayWrite(s)
    <3>1. /\ tx'[s].stage = "write" /\ tx'[s].job = tx[s].job /\ tx'[s].op = tx[s].op
          /\ tx'[s].token = tx[s].token
      BY <1>8, <1>t, <2>1, <2>3 DEF Check, TypeOK, Transaction
    <3>2. LockIsExclusive'
      BY <1>8, <2>2, <3>1 DEF IInv, LockIsExclusive, Check, Holds
    <3>3. /\ jobs' = jobs
          /\ IF tx[s].op = "retry"
             THEN jobs[tx[s].job].status = "dead_letter"
             ELSE jobs[tx[s].job].status = "running" /\ jobs[tx[s].job].leaseToken = tx[s].token
      BY <1>8, <2>3 DEF Check, MayWrite, OwnsLease
    <3>4. ASSUME NEW i \in Sessions, tx'[i].stage = "write"
          PROVE  IF tx'[i].op = "retry"
                 THEN jobs'[tx'[i].job].status = "dead_letter"
                 ELSE /\ jobs'[tx'[i].job].status = "running"
                      /\ jobs'[tx'[i].job].leaseToken = tx'[i].token
      <4>1. CASE i = s
        BY <3>1, <3>3, <4>1
      <4>2. CASE i # s
        BY <2>2, <3>3, <3>4, <4>2 DEF IInv, CheckedTransactionStillOwns
      <4> QED BY <4>1, <4>2
    <3>5. CheckedTransactionStillOwns'
      BY <3>4 DEF CheckedTransactionStillOwns
    <3> QED BY <1>t, <1>5, <1>8, <3>2, <3>5 DEF IInv, Check
  <2>4. CASE ~MayWrite(s)
    <3>1. Commit(s) /\ jobs' = jobs
      BY <1>8, <2>4 DEF Check, Commit
    <3> QED BY <1>t, <1>5, <1>8, <3>1, CommitKeepsLocks DEF IInv, Check
  <2> QED BY <2>3, <2>4
<1>9. ASSUME NEW s \in Sessions, Abort(s)
      PROVE  IInv'
  BY <1>t, <1>5, <1>9, CommitKeepsLocks DEF IInv, Abort
<1>10. ASSUME NEW s \in Sessions, RenewJobLease(s)
       PROVE  IInv'
  <2> DEFINE j == tx[s].job
  <2>1. /\ j \in Jobs /\ jobs' = [jobs EXCEPT ![j] = RenewedRow(j)]
        /\ evals' = evals /\ claims' = claims /\ requeues' = requeues /\ Commit(s)
    BY <1>10, <1>j DEF RenewJobLease
  <2>2. jobs[j].lease # "null"
    BY <1>10, <2>1 DEF RenewJobLease, IInv, CheckedTransactionStillOwns, JobInv,
       OwnershipMatchesStatus
  <2>3. JobInv'
    <3> DEFINE row == RenewedRow(j)
    <3>1. /\ row.status = jobs[j].status /\ row.attempts = jobs[j].attempts
          /\ row.lockedBy = jobs[j].lockedBy /\ row.leaseToken = jobs[j].leaseToken
          /\ row.result = jobs[j].result /\ row.error = jobs[j].error
          /\ row.completedAt = jobs[j].completedAt
          /\ row.runAfter \in {jobs[j].runAfter, "due"}
          /\ row.lease = "null" <=> jobs[j].lease = "null"
      BY <1>t, <2>1, <2>2, RenewedValues
    <3> HIDE DEF row
    <3> QED BY <2>1, <3>1, ClockKeepsJobs DEF row
  <2>4. LockIsExclusive' /\ CheckedTransactionStillOwns'
    BY <1>10, <1>t, <2>1, CommitKeepsLocks DEF RenewJobLease, TypeOK
  <2> QED BY <1>t, <2>3, <2>4 DEF IInv
<1>11. ASSUME NEW s \in Sessions, CompleteJob(s)
       PROVE  IInv'
  <2>1. LockIsExclusive' /\ CheckedTransactionStillOwns'
    BY <1>11, <1>t, <1>j, CommitKeepsLocks DEF CompleteJob, TypeOK
  <2> QED BY <1>11, <1>t, <2>1, CompleteKeepsJobs DEF IInv
<1>12. ASSUME NEW s \in Sessions, FailOrRetryJob(s)
       PROVE  IInv'
  <2> DEFINE j == tx[s].job
  <2>1. j \in Jobs /\ jobs[j].status = "running" /\ jobs[j].leaseToken = tx[s].token
    BY <1>12, <1>j DEF FailOrRetryJob, IInv, CheckedTransactionStillOwns
  <2>2. /\ jobs' = [k \in Jobs |-> IF k \in {j} THEN AfterFailure(k) ELSE jobs[k]]
        /\ claims' = [k \in Jobs |-> IF k \in {j} THEN Settled(k, jobs[k].leaseToken, "released")
                                                  ELSE claims[k]]
        /\ evals' = evals /\ requeues' = requeues /\ Commit(s)
    BY <1>12, <1>t, <2>1 DEF FailOrRetryJob, TypeOK
  <2>3. JobInv'
    <3>1. {j} \in SUBSET Jobs /\ \A k \in {j} : jobs[k].status = "running"
      BY <2>1
    <3> HIDE DEF j
    <3> QED BY <2>2, <3>1, FailureKeepsJobs
  <2>4. LockIsExclusive' /\ CheckedTransactionStillOwns'
    <3>1. \A k \in Jobs : k # tx[s].job => jobs'[k] = jobs[k]
      BY <2>2
    <3>2. Commit(s) /\ tx[s].stage = "write"
      BY <1>12, <2>2 DEF FailOrRetryJob
    <3> QED BY <3>1, <3>2, CommitKeepsLocks
  <2> QED BY <1>t, <2>3, <2>4 DEF IInv
<1>13. ASSUME NEW s \in Sessions, RetryJob(s)
       PROVE  IInv'
  <2>1. LockIsExclusive' /\ CheckedTransactionStillOwns'
    BY <1>13, <1>t, <1>j, CommitKeepsLocks DEF RetryJob, TypeOK
  <2> QED BY <1>13, <1>t, <2>1, RetryKeepsJobs DEF IInv
<1>14. CASE UNCHANGED vars
  BY <1>14, <1>t, <1>5 DEF vars, IInv, LockIsExclusive, Holds, CheckedTransactionStillOwns
<1>15. ASSUME NEW s \in Sessions, SessionNext(s)
       PROVE  IInv'
  <2>1. ASSUME NEW j \in Jobs, NEW op \in LeaseOps, NEW t \in DOMAIN claims[j], Begin(s, op, j, t)
        PROVE  IInv'
    <3>1. t \in Nat
      BY <1>t, LenProperties DEF TypeOK
    <3> QED BY <1>6, <2>1, <3>1 DEF Begin
  <2>2. ASSUME NEW j \in Jobs, BeginRetry(s, j)
        PROVE  IInv'
    BY <1>6, <2>2 DEF BeginRetry, NoToken
  <2> QED BY <1>15, <1>7, <1>8, <1>9, <1>10, <1>11, <1>12, <1>13, <2>1, <2>2 DEF SessionNext
<1> QED BY <1>1, <1>2, <1>3, <1>4, <1>14, <1>15 DEF Next
\* The invariant holds in every reachable state.
THEOREM InvariantHolds == Spec => []IInv
BY InitIInv, StepKeepsIInv, PTL DEF Spec

\* Queued jobs have an attempt left and dead letters none, exactly the running
\* jobs are owned, by their newest claim, and the outcome columns agree.
THEOREM RowsStayConsistent == Spec => []RowsAreConsistent
<1>1. IInv => RowsAreConsistent
  BY DEF IInv, JobInv, RowsAreConsistent
<1> QED BY <1>1, InvariantHolds, PTL

\* However many workers hold leases they lost, at most one attempt is
\* accepted, the newest, with exactly one evaluation.
THEOREM OneAcceptedCompletionHolds == Spec => []OneAcceptedCompletion
<1>1. IInv => OneAcceptedCompletion
  BY DEF IInv, JobInv
<1> QED BY <1>1, InvariantHolds, PTL

\* No job is handed out before the claim before it was settled.
THEOREM ClaimsSettledInOrderHolds == Spec => []ClaimsSettledInOrder
<1>1. IInv => ClaimsSettledInOrder
  BY DEF IInv, JobInv
<1> QED BY <1>1, InvariantHolds, PTL

\* Attempts are neither lost nor counted twice.
THEOREM AttemptAccountingHolds == Spec => []AttemptAccounting
<1>1. IInv => AttemptAccounting
  BY DEF IInv, JobInv
<1> QED BY <1>1, InvariantHolds, PTL

\* What a transaction checked under its row lock still holds when it writes.
THEOREM CheckedTransactionHolds == Spec => []CheckedTransactionStillOwns
<1>1. IInv => CheckedTransactionStillOwns
  BY DEF IInv
<1> QED BY <1>1, InvariantHolds, PTL
-----------------------------------------------------------------------------
\* How a step may change the claims of a job: not at all, by one new claim, or
\* by an end of the newest one, open until then.
LEMMA ClaimsStep ==
    ASSUME IInv, [Next]_vars, NEW j \in Jobs
    PROVE  \/ claims'[j] = claims[j]
           \/ \E w \in Workers :
                  claims'[j] = Append(claims[j], [by |-> w, ending |-> "open"])
           \/ /\ jobs[j].status = "running" /\ claims[j] # << >>
              /\ \E e \in Endings : claims'[j] = Settled(j, Len(claims[j]), e)
<1>t. TypeOK
  BY DEF IInv
<1>o. \A k \in Jobs : jobs[k].status = "running" =>
          jobs[k].leaseToken = Len(claims[k]) /\ claims[k] # << >>
  BY DEF IInv, JobInv, OwnershipMatchesStatus
<1>1. ASSUME NEW S \in SUBSET Jobs, ReapExpiredJobs(S)
      PROVE  \/ claims'[j] = claims[j]
             \/ /\ jobs[j].status = "running"
                /\ claims'[j] = Settled(j, Len(claims[j]), "reaped")
  BY <1>1, <1>o DEF ReapExpiredJobs, Reapable
<1>2. ASSUME NEW w \in Workers, NEW k \in Jobs, ClaimNextJob(w, k)
      PROVE  \/ claims'[j] = claims[j]
             \/ claims'[j] = Append(claims[j], [by |-> w, ending |-> "open"])
  BY <1>2, <1>t DEF ClaimNextJob, TypeOK
<1>3. ASSUME NEW s \in Sessions, CompleteJob(s) \/ FailOrRetryJob(s)
      PROVE  \/ claims'[j] = claims[j]
             \/ /\ jobs[j].status = "running"
                /\ \E e \in {"completed", "released"} :
                       claims'[j] = Settled(j, Len(claims[j]), e)
  <2> DEFINE k == tx[s].job
  <2>1. /\ tx[s].stage = "write" /\ tx[s].op # "retry"
        /\ \E e \in {"completed", "released"} :
               claims' = [claims EXCEPT ![k] = Settled(k, tx[s].token, e)]
    BY <1>3 DEF CompleteJob, FailOrRetryJob
  <2>2. k \in Jobs /\ jobs[k].status = "running" /\ tx[s].token = Len(claims[k])
    BY <1>t, <1>o, <2>1, BusySession DEF IInv, CheckedTransactionStillOwns
  <2> QED BY <1>t, <2>1, <2>2 DEF TypeOK
<1>4. \/ claims' = claims
      \/ \E S \in SUBSET Jobs : ReapExpiredJobs(S)
      \/ \E w \in Workers, k \in Jobs : ClaimNextJob(w, k)
      \/ \E s \in Sessions : CompleteJob(s) \/ FailOrRetryJob(s)
  BY DEF Next, SessionNext, vars, CreateJobs, Begin, BeginRetry, Lock, Check, Abort,
     RenewJobLease, RetryJob, LeaseExpires, RunAfterPasses
<1> QED BY <1>1, <1>2, <1>3, <1>4, <1>o DEF Endings

\* Whatever a worker does with a lease it no longer holds, the record of how
\* a claim ended stays as it is.
THEOREM SettledClaimsHold == Spec => SettledClaimsNeverChange
<1>1. ASSUME IInv, [Next]_vars, NEW j \in Jobs, NEW t \in DOMAIN claims[j]
      PROVE  /\ t \in DOMAIN claims'[j]
             /\ claims[j][t].ending # "open" => claims'[j][t] = claims[j][t]
  <2> DEFINE q == claims[j]
  <2>1. q \in Seq(Claim) /\ Len(q) \in Nat /\ DOMAIN q = 1 .. Len(q)
    BY <1>1, LenProperties DEF IInv, TypeOK
  <2>2. ASSUME NEW w \in Workers, claims'[j] = Append(q, [by |-> w, ending |-> "open"])
        PROVE  t \in DOMAIN claims'[j] /\ claims'[j][t] = q[t]
    <3>1. [by |-> w, ending |-> "open"] \in Claim
      BY DEF Claim, Endings
    <3> QED BY <2>1, <2>2, <3>1, AppendProperties, LenProperties
  <2>3. ASSUME jobs[j].status = "running", q # << >>, NEW e \in Endings,
               claims'[j] = Settled(j, Len(q), e)
        PROVE  /\ t \in DOMAIN claims'[j]
               /\ q[t].ending # "open" => claims'[j][t] = q[t]
    <3>1. Len(q) \in 1 .. Len(q)
      BY <2>1, <2>3, EmptySeq
    <3>2. t = Len(q) => q[t].ending = "open"
      BY <1>1, <2>3 DEF IInv, JobInv, ClaimsSettledInOrder
    <3>3. claims \in [Jobs -> Seq(Claim)]
      BY <1>1 DEF IInv, TypeOK
    <3> HIDE DEF q
    <3>4. Len(claims[j]) \in 1 .. Len(claims[j]) /\ j \in Jobs /\ e \in Endings
      BY <1>1, <2>3, <3>1 DEF q
    <3>5. /\ DOMAIN Settled(j, Len(claims[j]), e) = DOMAIN claims[j]
          /\ \A i \in DOMAIN claims[j] :
                 i # Len(claims[j]) => Settled(j, Len(claims[j]), e)[i] = claims[j][i]
      BY ONLY <3>3, <3>4, SettledClaims
    <3> QED BY <1>1, <2>3, <3>2, <3>5 DEF q
  <2> QED BY <1>1, <2>2, <2>3, ClaimsStep
<1>2. IInv /\ [Next]_vars =>
          [\A j \in Jobs : \A t \in DOMAIN claims[j] :
              /\ t \in DOMAIN claims'[j]
              /\ claims[j][t].ending # "open" => claims'[j][t] = claims[j][t]]_vars
  BY <1>1
<1> QED BY <1>2, InvariantHolds, PTL DEF Spec, SettledClaimsNeverChange

\* Nothing touches a completed job again.
THEOREM CompletedStaysFinal == Spec => CompletedIsFinal
<1>1. ASSUME IInv, [Next]_vars, NEW j \in Jobs, jobs[j].status = "completed"
      PROVE  jobs'[j] = jobs[j] /\ evals'[j] = evals[j] /\ claims'[j] = claims[j]
  <2>t. TypeOK
    BY <1>1 DEF IInv
  <2>r. jobs[j].lease = "null" /\ jobs[j].runAfter \in {"due", "delayed"} /\ jobs[j].runAfter # "delayed"
    BY <1>1, <2>t DEF IInv, JobInv, OwnershipMatchesStatus, OutcomeMatchesStatus, TypeOK, Row
  <2>1. \A s \in Sessions : tx[s].stage = "write" => tx[s].job # j
    BY <1>1 DEF IInv, CheckedTransactionStillOwns
  <2>2. ASSUME NEW s \in Sessions, SessionNext(s)
        PROVE  jobs'[j] = jobs[j] /\ evals'[j] = evals[j] /\ claims'[j] = claims[j]
    BY <2>t, <2>1, <2>2 DEF SessionNext, Begin, BeginRetry, Lock, Check, Abort, RenewJobLease,
       CompleteJob, FailOrRetryJob, RetryJob, TypeOK
  <2>3. ASSUME NEW S \in SUBSET Jobs, CreateJobs(S) \/ ReapExpiredJobs(S)
        PROVE  jobs'[j] = jobs[j] /\ evals'[j] = evals[j] /\ claims'[j] = claims[j]
    BY <1>1, <2>3 DEF CreateJobs, ReapExpiredJobs, Reapable
  <2>4. ASSUME NEW w \in Workers, NEW k \in Jobs, ClaimNextJob(w, k)
        PROVE  jobs'[j] = jobs[j] /\ evals'[j] = evals[j] /\ claims'[j] = claims[j]
    BY <1>1, <2>t, <2>4 DEF ClaimNextJob, Claimable, TypeOK
  <2>5. ASSUME NEW k \in Jobs, LeaseExpires(k) \/ RunAfterPasses(k)
        PROVE  jobs'[j] = jobs[j] /\ evals'[j] = evals[j] /\ claims'[j] = claims[j]
    BY <2>t, <2>r, <2>5 DEF LeaseExpires, RunAfterPasses, TypeOK
  <2> QED BY <1>1, <2>2, <2>3, <2>4, <2>5 DEF Next, vars
<1>2. IInv /\ [Next]_vars =>
          [\A j \in Jobs : jobs[j].status = "completed" =>
              jobs'[j] = jobs[j] /\ evals'[j] = evals[j] /\ claims'[j] = claims[j]]_vars
  BY <1>1
<1> QED BY <1>2, InvariantHolds, PTL DEF Spec, CompletedIsFinal
-----------------------------------------------------------------------------
\* The history the life cycle sees of a sequence of claims.
Hist(q) == [t \in DOMAIN q |-> q[t].ending]

LEMMA HistType ==
    ASSUME NEW q \in Seq(Claim)
    PROVE  Hist(q) \in Seq(Endings) /\ Len(Hist(q)) = Len(q) /\ DOMAIN Hist(q) = 1 .. Len(q)
<1>1. Len(q) \in Nat /\ DOMAIN q = 1 .. Len(q) /\ \A t \in 1 .. Len(q) : q[t] \in Claim
  BY LenProperties, ElementOfSeq
<1>2. Hist(q) \in [1 .. Len(q) -> Endings]
  BY <1>1 DEF Hist, Claim
<1>3. Hist(q) \in Seq(Endings)
  BY <1>1, <1>2, SeqDef
<1> QED BY <1>1, <1>2, <1>3, LenProperties

\* A new claim appends to the history, the end of the newest rewrites its last
\* entry.
LEMMA HistOfClaim ==
    ASSUME NEW q \in Seq(Claim), NEW w \in Workers
    PROVE  Hist(Append(q, [by |-> w, ending |-> "open"])) = Append(Hist(q), "open")
<1> DEFINE c == [by |-> w, ending |-> "open"]
<1>1. c \in Claim /\ c.ending \in Endings
  BY DEF Claim, Endings
<1>2. /\ Len(q) \in Nat /\ Append(q, c) \in Seq(Claim) /\ Len(Append(q, c)) = Len(q) + 1
      /\ \A i \in 1 .. Len(q) : Append(q, c)[i] = q[i]
      /\ Append(q, c)[Len(q) + 1] = c
      /\ DOMAIN q = 1 .. Len(q)
  BY <1>1, AppendProperties, LenProperties
<1>3. /\ Hist(q) \in Seq(Endings) /\ Len(Hist(q)) = Len(q)
      /\ Hist(Append(q, c)) \in Seq(Endings) /\ Len(Hist(Append(q, c))) = Len(q) + 1
      /\ DOMAIN Append(q, c) = 1 .. Len(q) + 1
  BY <1>2, HistType, LenProperties
<1>4. /\ Append(Hist(q), "open") \in Seq(Endings) /\ Len(Append(Hist(q), "open")) = Len(q) + 1
      /\ \A i \in 1 .. Len(q) : Append(Hist(q), "open")[i] = Hist(q)[i]
      /\ Append(Hist(q), "open")[Len(q) + 1] = "open"
  BY <1>1, <1>3, AppendProperties
<1>5. \A i \in 1 .. Len(q) + 1 : Hist(Append(q, c))[i] = Append(Hist(q), "open")[i]
  BY <1>2, <1>3, <1>4 DEF Hist
<1> QED BY ONLY <1>3, <1>4, <1>5, SeqEqual

LEMMA HistOfSettled ==
    ASSUME NEW j \in Jobs, claims \in [Jobs -> Seq(Claim)], claims[j] # << >>, NEW e \in Endings
    PROVE  Hist(Settled(j, Len(claims[j]), e)) =
               [Hist(claims[j]) EXCEPT ![Len(Hist(claims[j]))] = e]
<1> DEFINE q == claims[j]
           n == Len(claims[j])
<1>1. q \in Seq(Claim) /\ n \in 1 .. n /\ DOMAIN q = 1 .. n
  BY LenProperties, EmptySeq
<1>2. /\ DOMAIN Settled(j, n, e) = DOMAIN q /\ Settled(j, n, e)[n].ending = e
      /\ \A i \in DOMAIN q : i # n => Settled(j, n, e)[i] = q[i]
  BY <1>1, SettledClaims
<1>3. Len(Hist(q)) = n /\ DOMAIN Hist(q) = 1 .. n
  BY <1>1, HistType
<1> QED BY <1>1, <1>2, <1>3 DEF Hist

-----------------------------------------------------------------------------
\* Every step of the table is a step of the life cycle or invisible to it.
LEMMA StepRefines == IInv /\ [Next]_vars => [Lifecycle!Next]_(Lifecycle!vars)
<1> SUFFICES ASSUME IInv, [Next]_vars
             PROVE  Lifecycle!Next \/ UNCHANGED Lifecycle!vars
  OBVIOUS
<1> DEFINE phase == [j \in Jobs |-> jobs[j].status]
           attempts == [j \in Jobs |-> jobs[j].attempts]
           history == [j \in Jobs |-> Hist(claims[j])]
<1>t. /\ TypeOK /\ claims \in [Jobs -> Seq(Claim)]
      /\ \A j \in Jobs : jobs[j].status = "running" => claims[j] # << >>
                                                     /\ jobs[j].leaseToken = Len(claims[j])
  BY DEF IInv, TypeOK, JobInv, OwnershipMatchesStatus
<1>u. ASSUME phase' = phase, attempts' = attempts, claims' = claims, evals' = evals
      PROVE  UNCHANGED Lifecycle!vars
  BY <1>u DEF Lifecycle!vars, Hist
<1>1. ASSUME NEW S \in SUBSET Jobs, CreateJobs(S)
      PROVE  Lifecycle!Submit(S)
  <2>1. \A j \in S : jobs[j].attempts = 0
    BY <1>1 DEF IInv, JobInv, AttemptBudget, CreateJobs
  <2>2. CreatedRow.status = "queued" /\ CreatedRow.attempts = 0
    BY DEF CreatedRow, AbsentRow
  <2> QED BY <1>1, <2>1, <2>2 DEF CreateJobs, Lifecycle!Submit
<1>2. ASSUME NEW w \in Workers, NEW j \in Jobs, ClaimNextJob(w, j)
      PROVE  Lifecycle!Start(j)
  <2>1. /\ jobs' = [jobs EXCEPT ![j] = ClaimedRow(j, w)]
        /\ ClaimedRow(j, w).status = "running"
        /\ ClaimedRow(j, w).attempts = jobs[j].attempts + 1
    BY <1>2, <1>t, ClaimedValues DEF ClaimNextJob
  <2>2. /\ phase' = [phase EXCEPT ![j] = "running"]
        /\ attempts' = [attempts EXCEPT ![j] = attempts[j] + 1]
    BY <2>1, <1>t DEF TypeOK
  <2>3. history' = [history EXCEPT ![j] = Append(history[j], "open")]
    <3>1. Hist(claims'[j]) = Append(Hist(claims[j]), "open")
      BY <1>2, <1>t, HistOfClaim DEF ClaimNextJob
    <3>2. \A k \in Jobs : k # j => claims'[k] = claims[k]
      BY <1>2, <1>t DEF ClaimNextJob
    <3> QED BY <3>1, <3>2
  <2> QED BY <1>2, <2>2, <2>3 DEF ClaimNextJob, Claimable, Lifecycle!Start, Hist
<1>3. ASSUME NEW S \in SUBSET Jobs, ReapExpiredJobs(S)
      PROVE  Lifecycle!EndWithoutResult(S, "reaped")
  <2>1. \A j \in Jobs : /\ AfterFailure(j).attempts = jobs[j].attempts
                        /\ AfterFailure(j).status =
                               IF jobs[j].attempts < MaxAttempts[j] THEN "queued" ELSE "dead_letter"
    BY <1>t, FailureValues DEF WillRetry
  <2>2. phase' = [j \in Jobs |-> IF j \notin S THEN phase[j]
                                 ELSE IF attempts[j] < MaxAttempts[j] THEN "queued" ELSE "dead_letter"]
        /\ attempts' = attempts
    BY <1>3, <2>1 DEF ReapExpiredJobs
  <2>3. ASSUME NEW j \in S
        PROVE  Hist(claims'[j]) = [Hist(claims[j]) EXCEPT ![Len(Hist(claims[j]))] = "reaped"]
    <3>1. claims'[j] = Settled(j, Len(claims[j]), "reaped") /\ claims[j] # << >>
      BY <1>3, <1>t DEF ReapExpiredJobs, Reapable
    <3> QED BY <3>1, <1>t, HistOfSettled DEF Endings
  <2>4. \A j \in Jobs : j \notin S => claims'[j] = claims[j]
    BY <1>3 DEF ReapExpiredJobs
  <2>5. history' = [j \in Jobs |-> IF j \in S THEN [history[j] EXCEPT ![Len(history[j])] = "reaped"]
                                               ELSE history[j]]
    BY <2>3, <2>4
  <2> QED BY <1>3, <2>2, <2>5
      DEF ReapExpiredJobs, Reapable, Lifecycle!EndWithoutResult, Lifecycle!EndedAs, Hist
<1>4. ASSUME NEW s \in Sessions, CompleteJob(s)
      PROVE  \E j \in Jobs : Lifecycle!Accept(j)
  <2>0. PICK j \in Jobs : j = tx[s].job
    BY <1>4, <1>t, BusySession DEF CompleteJob
  <2>1. jobs[j].status = "running" /\ tx[s].token = Len(claims[j])
    BY <1>4, <1>t, <2>0 DEF CompleteJob, IInv, CheckedTransactionStillOwns
  <2>2. CompletedRow(j).status = "completed" /\ CompletedRow(j).attempts = jobs[j].attempts
    BY <1>t, <2>1, CompletedValues
  <2>3. phase' = [phase EXCEPT ![j] = "completed"] /\ attempts' = attempts
    BY <1>4, <1>t, <2>0, <2>1, <2>2 DEF CompleteJob, TypeOK
  <2>4. history' = [history EXCEPT ![j] = [history[j] EXCEPT ![Len(history[j])] = "completed"]]
    <3>1. /\ claims'[j] = Settled(j, Len(claims[j]), "completed")
          /\ \A k \in Jobs : k # j => claims'[k] = claims[k]
      BY <1>4, <1>t, <2>0, <2>1 DEF CompleteJob
    <3>2. Hist(claims'[j]) = [Hist(claims[j]) EXCEPT ![Len(Hist(claims[j]))] = "completed"]
      BY <3>1, <1>t, <2>1, HistOfSettled DEF Endings
    <3> QED BY <2>1, <3>1, <3>2
  <2> QED BY <1>4, <2>0, <2>1, <2>3, <2>4 DEF CompleteJob, Lifecycle!Accept, Lifecycle!EndedAs, Hist
<1>5. ASSUME NEW s \in Sessions, FailOrRetryJob(s)
      PROVE  \E j \in Jobs : Lifecycle!EndWithoutResult({j}, "released")
  <2>0. PICK j \in Jobs : j = tx[s].job
    BY <1>5, <1>t, BusySession DEF FailOrRetryJob
  <2>1. jobs[j].status = "running" /\ tx[s].token = Len(claims[j])
    BY <1>5, <1>t, <2>0 DEF FailOrRetryJob, IInv, CheckedTransactionStillOwns
  <2>2. /\ AfterFailure(j).attempts = jobs[j].attempts
        /\ AfterFailure(j).status =
               IF jobs[j].attempts < MaxAttempts[j] THEN "queued" ELSE "dead_letter"
    BY <1>t, <2>1, FailureValues DEF WillRetry
  <2>3. phase' = [k \in Jobs |-> IF k \notin {j} THEN phase[k]
                                 ELSE IF attempts[k] < MaxAttempts[k] THEN "queued" ELSE "dead_letter"]
        /\ attempts' = attempts
    BY <1>5, <1>t, <2>0, <2>1, <2>2 DEF FailOrRetryJob, TypeOK
  <2>4. history' = [k \in Jobs |-> IF k \in {j} THEN [history[k] EXCEPT ![Len(history[k])] = "released"]
                                                 ELSE history[k]]
    <3>1. /\ claims'[j] = Settled(j, Len(claims[j]), "released")
          /\ \A k \in Jobs : k # j => claims'[k] = claims[k]
      BY <1>5, <1>t, <2>0, <2>1 DEF FailOrRetryJob
    <3>2. Hist(claims'[j]) = [Hist(claims[j]) EXCEPT ![Len(Hist(claims[j]))] = "released"]
      BY <3>1, <1>t, <2>1, HistOfSettled DEF Endings
    <3> QED BY <2>1, <3>1, <3>2
  <2> QED BY <1>5, <2>0, <2>1, <2>3, <2>4
      DEF FailOrRetryJob, Lifecycle!EndWithoutResult, Lifecycle!EndedAs, Hist
<1>6. ASSUME NEW s \in Sessions, RetryJob(s)
      PROVE  \E j \in Jobs : Lifecycle!Redrive(j)
  <2>0. PICK j \in Jobs : j = tx[s].job
    BY <1>6, <1>t, BusySession DEF RetryJob
  <2>1. jobs[j].status = "dead_letter"
    BY <1>6, <2>0 DEF RetryJob, IInv, CheckedTransactionStillOwns
  <2>2. RequeuedRow(j).status = "queued" /\ RequeuedRow(j).attempts = 0
    BY <1>t, <2>1, RequeuedValues
  <2>3. /\ phase' = [phase EXCEPT ![j] = "queued"]
        /\ attempts' = [attempts EXCEPT ![j] = 0]
    BY <1>6, <1>t, <2>0, <2>1, <2>2 DEF RetryJob, TypeOK
  <2>4. UNCHANGED <<history, evals>>
    BY <1>6 DEF RetryJob
  <2> QED BY <2>1, <2>3, <2>4 DEF Lifecycle!Redrive, Hist
<1>7. ASSUME NEW s \in Sessions, RenewJobLease(s)
      PROVE  UNCHANGED Lifecycle!vars
  <2> DEFINE j == tx[s].job
  <2>1. j \in Jobs
    BY <1>7, <1>t, BusySession DEF RenewJobLease
  <2>2. RenewedRow(j).status = jobs[j].status /\ RenewedRow(j).attempts = jobs[j].attempts
    BY <1>t, <2>1, RenewedValues
  <2>3. phase' = phase /\ attempts' = attempts
    BY <1>7, <1>t, <2>1, <2>2 DEF RenewJobLease, TypeOK
  <2> QED BY <1>7, <1>u, <2>3 DEF RenewJobLease
<1>8. ASSUME NEW j \in Jobs, LeaseExpires(j) \/ RunAfterPasses(j)
      PROVE  UNCHANGED Lifecycle!vars
  <2>1. DOMAIN jobs[j] = Columns
    BY <1>t, RowColumns
  <2>2. \A row : \/ row = [jobs[j] EXCEPT !.lease = "expired"]
                \/ row = [jobs[j] EXCEPT !.runAfter = "due"]
                => row.status = jobs[j].status /\ row.attempts = jobs[j].attempts
    BY ONLY <2>1 DEF Columns
  <2>3. \A k \in Jobs : jobs'[k].status = jobs[k].status /\ jobs'[k].attempts = jobs[k].attempts
    BY <1>8, <1>t, <2>2 DEF LeaseExpires, RunAfterPasses, TypeOK
  <2> QED BY <1>8, <1>u, <2>3 DEF LeaseExpires, RunAfterPasses
<1>9. ASSUME jobs' = jobs, claims' = claims, evals' = evals
      PROVE  UNCHANGED Lifecycle!vars
  BY <1>9, <1>u
<1>10. ASSUME NEW s \in Sessions, SessionNext(s)
       PROVE  Lifecycle!Next \/ UNCHANGED Lifecycle!vars
  <2>1. \/ jobs' = jobs /\ claims' = claims /\ evals' = evals
        \/ RenewJobLease(s) \/ CompleteJob(s) \/ FailOrRetryJob(s) \/ RetryJob(s)
    BY <1>10 DEF SessionNext, Begin, BeginRetry, Lock, Check, Abort
  <2>3. CASE CompleteJob(s)
    BY <1>4, <2>3 DEF Lifecycle!Next
  <2>4. CASE FailOrRetryJob(s)
    BY <1>5, <2>4 DEF Lifecycle!Next
  <2>5. CASE RetryJob(s)
    BY <1>6, <2>5 DEF Lifecycle!Next
  <2> QED BY <1>7, <1>9, <2>1, <2>3, <2>4, <2>5
<1> QED BY <1>1, <1>2, <1>3, <1>8, <1>9, <1>10 DEF Next, vars, Lifecycle!Next

\* jobs.ts keeps the promise of JobLifecycle.
THEOREM ImplementsLifecycleHolds == Spec => ImplementsLifecycle
<1>1. Init => Lifecycle!Init
  BY DEF Init, AbsentRow, Lifecycle!Init
<1> QED BY <1>1, StepRefines, InvariantHolds, PTL DEF Spec, ImplementsLifecycle, Lifecycle!Spec

-----------------------------------------------------------------------------
\* Next to the reaper process, the job table behaves as JobStore says, so all
\* of the above holds here too.
LEMMA ReaperSteps == [ReaperNext]_allVars => [Next]_vars
<1> SUFFICES ASSUME [ReaperNext]_allVars PROVE [Next]_vars OBVIOUS
<1>1. CASE LoopGoesOn
    <2>1. CASE ScanRecovers BY <2>1 DEF ScanRecovers, Next
    <2>2. CASE ScanInVain \/ SleepEnds \/ Close
        BY <2>2 DEF ScanInVain, SleepEnds, Close, store, vars
    <2> QED BY <1>1, <2>1, <2>2 DEF LoopGoesOn
<1>2. CASE Signal BY <1>2 DEF Signal, store, vars
<1>3. CASE OthersGoOn BY <1>3 DEF OthersGoOn, Next
<1>4. CASE UNCHANGED allVars BY <1>4 DEF allVars, vars
<1> QED BY <1>1, <1>2, <1>3, <1>4 DEF ReaperNext

\* reaper.ts writes to the jobs table nothing that jobs.ts does not, whenever its
\* scans happen, fail or are cut short: the process implements JobStore.
THEOREM ReaperImplementsStore == ReaperSpec => Spec
<1>1. ReaperInit => Init BY DEF ReaperInit
<1> QED BY <1>1, ReaperSteps, PTL DEF ReaperSpec, Spec

\* The table stays well typed next to the process, and no job is charged more
\* attempts than allowed.
THEOREM TypeCorrectWithReaper == ReaperSpec => []TypeOK
BY ReaperImplementsStore, TypeCorrect

\* Rows stay consistent with their status, owner and outcome however the scans
\* of the process fall among the transactions of workers.
THEOREM RowsStayConsistentWithReaper == ReaperSpec => []RowsAreConsistent
BY ReaperImplementsStore, RowsStayConsistent
=============================================================================
