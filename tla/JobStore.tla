------------------------------ MODULE JobStore ------------------------------
(***************************************************************************)
(* The jobs table and the transactions of src/server/src/jobs.ts on it.    *)
(*                                                                         *)
(* One SQL statement that decides and writes by itself (claimNextJob,      *)
(* reapExpiredJobs, the inserts) is one action.  The operations that run   *)
(* inside prisma.$transaction are a session that takes the row lock,       *)
(* checks under it, and writes and commits, with everything else free to   *)
(* happen in between.  A session may be rolled back at any stage: a        *)
(* database error, a rejected eval insert, the death of the process.       *)
(*                                                                         *)
(* The database clock is not a number here.  A lease is in the future      *)
(* ("live") or not ("expired"), a run_after is reached ("due") or not      *)
(* ("delayed"), and time may pass at any moment, also in the middle of a   *)
(* transaction and while a session waits for a lock.                       *)
(*                                                                         *)
(* Holders of a lease are not trusted: any lease that was ever handed out  *)
(* may be used again, by its worker, at any time and any number of times.  *)
(* That covers the heartbeat, the pipeline and the shutdown path of one    *)
(* worker using a lease concurrently, a worker that lost its lease without *)
(* knowing, and one that retries a transaction whose commit it never saw.  *)
(***************************************************************************)
EXTENDS Naturals, Sequences, FiniteSets

CONSTANTS Jobs,         \* jobs, numbered in (created_at, id) order
          Workers,      \* worker processes (workerId, a UUID per process)
          NoWorker,     \* locked_by IS NULL
          Sessions,     \* database connections that run transactions
          MaxAttempts,  \* jobs.max_attempts
          ReaperBatch,  \* REAPER_BATCH_SIZE
          MaxRequeues   \* model bound: manual retries of one job

ASSUME JobsAssumption == Jobs \subseteq Nat /\ IsFiniteSet(Jobs)
ASSUME WorkersAssumption == NoWorker \notin Workers
ASSUME MaxAttemptsAssumption == MaxAttempts \in [Jobs -> Nat \ {0}]
ASSUME BoundsAssumption == ReaperBatch \in Nat \ {0} /\ MaxRequeues \in Nat

VARIABLES
    jobs,      \* jobs[j]: the row of job j
    evals,     \* evals[j]: rows of the evals table for job j
    claims,    \* claims[j][t]: who claimed j with the t-th lease token, and how that ended
    requeues,  \* requeues[j]: manual retries of job j so far
    tx         \* tx[s]: the transaction session s is in

vars == <<jobs, evals, claims, requeues, tx>>

Statuses == {"absent", "queued", "running", "completed", "dead_letter"}
Endings == {"open", "completed", "released", "reaped"}
LeaseOps == {"renew", "complete", "fail"}
NoToken == 0

\* A row.  Columns the properties do not tell apart are left out; result,
\* error and completed_at only say whether they are NULL.
Row == [status: Statuses, attempts: Nat, lockedBy: Workers \cup {NoWorker}, leaseToken: Nat,
        lease: {"null", "live", "expired"}, runAfter: {"due", "delayed"},
        result: {"null", "set"}, error: {"null", "set"}, completedAt: {"null", "set"}]

AbsentRow ==
    [status |-> "absent", attempts |-> 0, lockedBy |-> NoWorker, leaseToken |-> NoToken,
     lease |-> "null", runAfter |-> "due", result |-> "null", error |-> "null",
     completedAt |-> "null"]

\* A session that runs no transaction.
Idle == [op |-> "none", job |-> 0, token |-> NoToken, stage |-> "idle"]

Transaction == [op: LeaseOps \cup {"retry"}, job: Jobs, token: Nat,
                stage: {"lock", "check", "write"}]

\* What is remembered of a lease handed out by claimNextJob.
Claim == [by: Workers, ending: Endings]

Init ==
    /\ jobs = [j \in Jobs |-> AbsentRow]
    /\ evals = [j \in Jobs |-> 0]
    /\ claims = [j \in Jobs |-> << >>]
    /\ requeues = [j \in Jobs |-> 0]
    /\ tx = [s \in Sessions |-> Idle]

-----------------------------------------------------------------------------
\* Row locks.  FOR UPDATE holds the row until its transaction ends.

Holds(s, j) == tx[s].job = j /\ tx[s].stage \in {"check", "write"}
Unlocked(j) == \A s \in Sessions : ~Holds(s, j)

-----------------------------------------------------------------------------
\* Creating jobs: createJob inserts one, createRun a whole run, atomically.

CreatedRow == [AbsentRow EXCEPT !.status = "queued"]

CreateJobs(S) ==
    /\ S # {}
    /\ \A j \in S : jobs[j].status = "absent"
    /\ jobs' = [j \in Jobs |-> IF j \in S THEN CreatedRow ELSE jobs[j]]
    /\ UNCHANGED <<evals, claims, requeues, tx>>

-----------------------------------------------------------------------------
\* claimNextJob: the oldest due queued job nobody has locked.

\* Mutant: also takes over running jobs whose lease has run out.
ClaimableOrLapsed(j) ==
    \/ jobs[j].status = "queued" /\ jobs[j].runAfter = "due" /\ jobs[j].attempts < MaxAttempts[j]
    \/ jobs[j].status = "running" /\ jobs[j].lease = "expired" /\ jobs[j].attempts < MaxAttempts[j]

Claimable(j) ==
    /\ jobs[j].status = "queued"
    /\ jobs[j].runAfter = "due"
    /\ jobs[j].attempts < MaxAttempts[j]

ClaimedRow(j, w) ==
    [jobs[j] EXCEPT !.status = "running", !.attempts = @ + 1, !.completedAt = "null",
                    !.error = "null", !.lockedBy = w, !.leaseToken = Len(claims[j]) + 1,
                    !.lease = "live"]

ClaimNextJob(w, j) ==
    /\ Claimable(j) /\ Unlocked(j)
    /\ \A i \in Jobs : Claimable(i) /\ Unlocked(i) => j <= i
    /\ jobs' = [jobs EXCEPT ![j] = ClaimedRow(j, w)]
    /\ claims' = [claims EXCEPT ![j] = Append(claims[j], [by |-> w, ending |-> "open"])]
    /\ UNCHANGED <<evals, requeues, tx>>

\* The history of j with the claim of token t ended as e.
Settled(j, t, e) == [claims[j] EXCEPT ![t] = [by |-> claims[j][t].by, ending |-> e]]

-----------------------------------------------------------------------------
\* What a failed attempt leaves behind, whether its worker reports it
\* (failOrRetryJob) or the reaper finds it (reapExpiredJobs).

\* Mutant: one attempt too many.
RetriesAtLimit(j) == jobs[j].attempts <= MaxAttempts[j]

WillRetry(j) == jobs[j].attempts < MaxAttempts[j]

\* Mutants of the charge: recovery counts the attempt again, or refunds it.
ChargedTwice(j) == jobs[j].attempts + 1
Refunded(j) == jobs[j].attempts - 1

AttemptsAfterFailure(j) == jobs[j].attempts

AfterFailure(j) ==
    LET again == WillRetry(j)
    IN [jobs[j] EXCEPT !.status = IF again THEN "queued" ELSE "dead_letter",
                       !.attempts = AttemptsAfterFailure(j),
                       !.error = "set",
                       !.completedAt = IF again THEN "null" ELSE "set",
                       !.runAfter = IF again THEN "delayed" ELSE "due",
                       !.lockedBy = NoWorker, !.leaseToken = NoToken, !.lease = "null"]

\* Mutant: no SKIP LOCKED, and no recheck under the lock.
ReapableEvenLocked(j) == jobs[j].status = "running" /\ jobs[j].lease = "expired"

\* Mutant: jobs on their last attempt are not recovered.
ReapableUnlessLast(j) ==
    jobs[j].status = "running" /\ jobs[j].lease = "expired" /\ Unlocked(j) /\ WillRetry(j)

\* Running jobs whose lease is over and that no transaction holds.
Reapable(j) ==
    /\ jobs[j].status = "running"
    /\ jobs[j].lease = "expired"
    /\ Unlocked(j)

\* reapExpiredJobs takes a full batch, or all there are.
ReapExpiredJobs(S) ==
    /\ S # {}
    /\ \A j \in S : Reapable(j)
    /\ Cardinality(S) <= ReaperBatch
    /\ Cardinality(S) = ReaperBatch \/ \A j \in Jobs : Reapable(j) => j \in S
    /\ jobs' = [j \in Jobs |-> IF j \in S THEN AfterFailure(j) ELSE jobs[j]]
    /\ claims' = [j \in Jobs |->
                    IF j \in S THEN Settled(j, jobs[j].leaseToken, "reaped") ELSE claims[j]]
    /\ UNCHANGED <<evals, requeues, tx>>

-----------------------------------------------------------------------------
\* Transactions.  A session begins one for a lease that was handed out once,
\* or for a manual retry of a job.

Begin(s, op, j, t) ==
    /\ tx[s] = Idle
    /\ op \in LeaseOps
    /\ t \in DOMAIN claims[j]
    /\ tx' = [tx EXCEPT ![s] = [op |-> op, job |-> j, token |-> t, stage |-> "lock"]]
    /\ UNCHANGED <<jobs, evals, claims, requeues>>

BeginRetry(s, j) ==
    /\ tx[s] = Idle
    /\ jobs[j].status # "absent"
    /\ tx' = [tx EXCEPT ![s] = [op |-> "retry", job |-> j, token |-> NoToken, stage |-> "lock"]]
    /\ UNCHANGED <<jobs, evals, claims, requeues>>

\* Mutant: a plain SELECT that does not wait for other transactions.
LockWithoutWaiting(s) ==
    /\ tx[s].stage = "lock"
    /\ tx' = [tx EXCEPT ![s].stage = "check"]
    /\ UNCHANGED <<jobs, evals, claims, requeues>>

\* SELECT ... FOR UPDATE returns once nobody else holds the row.
Lock(s) ==
    /\ tx[s].stage = "lock"
    /\ Unlocked(tx[s].job)
    /\ tx' = [tx EXCEPT ![s].stage = "check"]
    /\ UNCHANGED <<jobs, evals, claims, requeues>>

\* Mutant: the lease token is not compared.
OwnsAnyLease(j, t) ==
    /\ jobs[j].status = "running"
    /\ jobs[j].lockedBy = claims[j][t].by
    /\ jobs[j].lease = "live"

\* ownsLease: the row is still running under exactly this lease, which has
\* not run out by the database clock.
OwnsLease(j, t) ==
    /\ jobs[j].status = "running"
    /\ jobs[j].lockedBy = claims[j][t].by
    /\ jobs[j].leaseToken = t
    /\ jobs[j].lease = "live"

MayWrite(s) ==
    IF tx[s].op = "retry" THEN jobs[tx[s].job].status = "dead_letter"
                          ELSE OwnsLease(tx[s].job, tx[s].token)

\* Under the lock: go on to write, or return false / null / not_dead_letter.
Check(s) ==
    /\ tx[s].stage = "check"
    /\ tx' = [tx EXCEPT ![s] = IF MayWrite(s) THEN [@ EXCEPT !.stage = "write"] ELSE Idle]
    /\ UNCHANGED <<jobs, evals, claims, requeues>>

Commit(s) == tx' = [tx EXCEPT ![s] = Idle]

RenewedRow(j) == [jobs[j] EXCEPT !.lease = "live"]

RenewJobLease(s) ==
    LET j == tx[s].job IN
    /\ tx[s].stage = "write" /\ tx[s].op = "renew"
    /\ jobs' = [jobs EXCEPT ![j] = RenewedRow(j)]
    /\ Commit(s)
    /\ UNCHANGED <<evals, claims, requeues>>

\* Mutant: the ownership columns are not cleared.
CompletedRowKeepsLease(j) ==
    [jobs[j] EXCEPT !.status = "completed", !.result = "set", !.completedAt = "set"]

CompletedRow(j) ==
    [jobs[j] EXCEPT !.status = "completed", !.result = "set", !.completedAt = "set",
                    !.lockedBy = NoWorker, !.leaseToken = NoToken, !.lease = "null"]

CompleteJob(s) ==
    LET j == tx[s].job IN
    /\ tx[s].stage = "write" /\ tx[s].op = "complete"
    /\ jobs' = [jobs EXCEPT ![j] = CompletedRow(j)]
    /\ evals' = [evals EXCEPT ![j] = @ + 1]
    /\ claims' = [claims EXCEPT ![j] = Settled(j, tx[s].token, "completed")]
    /\ Commit(s)
    /\ UNCHANGED requeues

FailOrRetryJob(s) ==
    LET j == tx[s].job IN
    /\ tx[s].stage = "write" /\ tx[s].op = "fail"
    /\ jobs' = [jobs EXCEPT ![j] = AfterFailure(j)]
    /\ claims' = [claims EXCEPT ![j] = Settled(j, tx[s].token, "released")]
    /\ Commit(s)
    /\ UNCHANGED <<evals, requeues>>

RequeuedRow(j) ==
    [jobs[j] EXCEPT !.status = "queued", !.attempts = 0, !.runAfter = "due",
                    !.error = "null", !.result = "null", !.completedAt = "null",
                    !.lockedBy = NoWorker, !.leaseToken = NoToken, !.lease = "null"]

RetryJob(s) ==
    LET j == tx[s].job IN
    /\ tx[s].stage = "write" /\ tx[s].op = "retry"
    /\ requeues[j] < MaxRequeues
    /\ jobs' = [jobs EXCEPT ![j] = RequeuedRow(j)]
    /\ requeues' = [requeues EXCEPT ![j] = @ + 1]
    /\ Commit(s)
    /\ UNCHANGED <<evals, claims>>

\* Rollback: nothing the transaction wrote remains.
Abort(s) ==
    /\ tx[s] # Idle
    /\ Commit(s)
    /\ UNCHANGED <<jobs, evals, claims, requeues>>

-----------------------------------------------------------------------------
\* The database clock.

LeaseExpires(j) ==
    /\ jobs[j].lease = "live"
    /\ jobs' = [jobs EXCEPT ![j].lease = "expired"]
    /\ UNCHANGED <<evals, claims, requeues, tx>>

RunAfterPasses(j) ==
    /\ jobs[j].runAfter = "delayed"
    /\ jobs' = [jobs EXCEPT ![j].runAfter = "due"]
    /\ UNCHANGED <<evals, claims, requeues, tx>>

-----------------------------------------------------------------------------
SessionNext(s) ==
    \/ \E j \in Jobs, op \in LeaseOps : \E t \in DOMAIN claims[j] : Begin(s, op, j, t)
    \/ \E j \in Jobs : BeginRetry(s, j)
    \/ Lock(s) \/ Check(s) \/ Abort(s)
    \/ RenewJobLease(s) \/ CompleteJob(s) \/ FailOrRetryJob(s) \/ RetryJob(s)

Next ==
    \/ \E S \in SUBSET Jobs : CreateJobs(S) \/ ReapExpiredJobs(S)
    \/ \E w \in Workers, j \in Jobs : ClaimNextJob(w, j)
    \/ \E s \in Sessions : SessionNext(s)
    \/ \E j \in Jobs : LeaseExpires(j) \/ RunAfterPasses(j)

Spec == Init /\ [][Next]_vars

-----------------------------------------------------------------------------
\* Properties

\* Every variable has the shape of its table, and a job is never charged
\* more attempts than it is allowed (claimNextJob, attempts < max_attempts).
TypeOK ==
    /\ jobs \in [Jobs -> Row]
    /\ \A j \in Jobs : jobs[j].attempts <= MaxAttempts[j]
    /\ evals \in [Jobs -> Nat]
    /\ claims \in [Jobs -> Seq(Claim)]
    /\ requeues \in [Jobs -> Nat]
    /\ tx \in [Sessions -> {Idle} \cup Transaction]

\* A queued job always has an attempt left, or no worker would ever claim it
\* again; a dead letter has none left.  The reaper and failOrRetryJob decide
\* with the same comparison as the claim.
AttemptBudget ==
    \A j \in Jobs :
        /\ jobs[j].status = "absent" => jobs[j].attempts = 0
        /\ jobs[j].status = "queued" => jobs[j].attempts < MaxAttempts[j]
        /\ jobs[j].status \in {"running", "completed"} => jobs[j].attempts > 0
        /\ jobs[j].status = "dead_letter" => jobs[j].attempts = MaxAttempts[j]

\* Exactly the running jobs are owned: by the holder of the newest claim.
OwnershipMatchesStatus ==
    \A j \in Jobs :
        IF jobs[j].status = "running"
        THEN /\ jobs[j].leaseToken = Len(claims[j]) /\ claims[j] # << >>
             /\ jobs[j].lockedBy = claims[j][Len(claims[j])].by
             /\ jobs[j].lease # "null"
        ELSE jobs[j].leaseToken = NoToken /\ jobs[j].lockedBy = NoWorker /\ jobs[j].lease = "null"

\* The outcome columns of a row agree with its status, whatever path led
\* there: no result without completion, no stale error on a completed or a
\* running job, no dead letter without its error and end time.
OutcomeMatchesStatus ==
    \A j \in Jobs :
        /\ jobs[j].result = "set" <=> jobs[j].status = "completed"
        /\ jobs[j].completedAt = "set" <=> jobs[j].status \in {"completed", "dead_letter"}
        /\ jobs[j].status \in {"running", "completed"} => jobs[j].error = "null"
        /\ jobs[j].status = "dead_letter" => jobs[j].error = "set"
        /\ jobs[j].runAfter = "delayed" => jobs[j].status = "queued"

\* Whatever path led there, the columns of a row tell one story.
RowsAreConsistent == AttemptBudget /\ OwnershipMatchesStatus /\ OutcomeMatchesStatus

\* Of all attempts on a job, over all retries, at most one is accepted; it is
\* the newest one, and it has exactly one evaluation.
OneAcceptedCompletion ==
    \A j \in Jobs :
        /\ evals[j] = IF jobs[j].status = "completed" THEN 1 ELSE 0
        /\ \A t \in DOMAIN claims[j] :
               claims[j][t].ending = "completed" <=>
                   jobs[j].status = "completed" /\ t = Len(claims[j])

\* A job is never handed out again before the claim before it was settled:
\* only the newest claim can be open, and it is while the job runs.
ClaimsSettledInOrder ==
    \A j \in Jobs : \A t \in DOMAIN claims[j] :
        claims[j][t].ending = "open" <=> jobs[j].status = "running" /\ t = Len(claims[j])

\* Attempts are neither lost nor counted twice: the claims ever handed out
\* are the attempts of the current budget plus the budgets used up before.
\* Recovery by the reaper does not charge the job once more.
AttemptAccounting ==
    \A j \in Jobs :
        Len(claims[j]) = MaxAttempts[j] * requeues[j] + jobs[j].attempts

\* What a transaction found under the row lock is still so when it writes,
\* except that the lease may have run out meanwhile.
CheckedTransactionStillOwns ==
    \A s \in Sessions : tx[s].stage = "write" =>
        LET j == tx[s].job IN
        IF tx[s].op = "retry"
        THEN jobs[j].status = "dead_letter"
        ELSE jobs[j].status = "running" /\ jobs[j].leaseToken = tx[s].token

\* Once a claim was completed, released or reaped, nothing a late worker does
\* changes that, and no claim is forgotten.
SettledClaimsNeverChange ==
    [][\A j \in Jobs : \A t \in DOMAIN claims[j] :
           /\ t \in DOMAIN claims'[j]
           /\ claims[j][t].ending # "open" => claims'[j][t] = claims[j][t]]_vars

\* A completed job is never touched again: not by a late failure, a reaper, a
\* second completion or a manual retry.
CompletedIsFinal ==
    [][\A j \in Jobs : jobs[j].status = "completed" =>
           jobs'[j] = jobs[j] /\ evals'[j] = evals[j] /\ claims'[j] = claims[j]]_vars

\* The table implements the promise of JobLifecycle.
Lifecycle == INSTANCE JobLifecycle WITH
    phase <- [j \in Jobs |-> jobs[j].status],
    attempts <- [j \in Jobs |-> jobs[j].attempts],
    history <- [j \in Jobs |-> [t \in DOMAIN claims[j] |-> claims[j][t].ending]]

\* Every step of every transaction is a step of the abstract life cycle or
\* invisible to it.
ImplementsLifecycle == Lifecycle!Spec
=============================================================================
