----------------------------- MODULE JobTiming -----------------------------
(***************************************************************************)
(* The times of a job: when it entered the queue, when it may be claimed,  *)
(* when it was claimed (src/server/src/jobs.ts), and what the trace of an  *)
(* attempt makes of them (src/server/src/jobTracing.ts).                   *)
(*                                                                         *)
(* The clock of the database counts half milliseconds; the columns are     *)
(* TIMESTAMP(3), so a time is truncated where the SQL says so and rounded  *)
(* to the nearest millisecond where it does not.  clock_timestamp() goes   *)
(* on inside of a statement, and the clock may be set back.  Leases are    *)
(* left out: an attempt may fail or be recovered at any time.              *)
(***************************************************************************)
EXTENDS Integers

CONSTANTS BaseWait,     \* 2000 milliseconds
          MaxWait,      \* 30000 milliseconds
          MaxAttempts,  \* jobs.max_attempts
          Null,         \* SQL NULL
          MaxTime       \* model bound: the clock stops here

Waits == [totalMs: Nat, scheduledDelayMs: Nat, readyWaitMs: Nat]

ASSUME TimingAssumption ==
    /\ BaseWait \in Nat \ {0} /\ MaxWait \in Nat /\ MaxWait >= BaseWait
    /\ MaxAttempts \in Nat \ {0} /\ MaxTime \in Nat
    /\ Null \notin Int /\ Null \notin Waits

VARIABLES now,   \* the clock of the database, in half milliseconds
          row,   \* the row
          wait,  \* queueWaitTiming of the last claim
          last   \* history: why the job was queued last, when and after how many
                 \* attempts, and whether the clock was set back since

timing == <<now, row, wait, last>>

\* Mutant: what is stored is the nearest millisecond.
Nearest(t) == (t + 1) \div 2

Trunc(t) == t \div 2
Round(t) == (t + 1) \div 2
Due(ms, t) == 2 * ms <= t

\* The clock at the end of a statement that began now.
Later == now .. (IF now < MaxTime THEN now + 1 ELSE now)

NewJob(q) ==
    [status |-> "queued", attempts |-> 0, queuedAt |-> q, runAfter |-> 0, startedAt |-> Null]

\* A job was just inserted, run_after taken before queued_at, or is older than
\* the column queued_at.
TimingInit ==
    /\ now \in {0, 1, 2} \cap 0 .. MaxTime
    /\ \E q \in {Null, Trunc(now)} : row = NewJob(q)
    /\ wait = Null
    /\ last = [why |-> "new", steady |-> TRUE, at |-> Trunc(now), attempts |-> 0]

-----------------------------------------------------------------------------
Min2(a, b) == IF a <= b THEN a ELSE b
Max2(a, b) == IF a <= b THEN b ELSE a

PowersOfTwo == <<1, 2, 4, 8, 16>>

\* The ceiling of the wait after this many attempts; the exponent is clamped
\* before it is used.
Ceiling(attempts) ==
    Min2(MaxWait, BaseWait * PowersOfTwo[Min2(4, Max2(attempts - 1, 0)) + 1])

\* Equal jitter, random() being less than one.
Jitter(attempts) == Ceiling(attempts) \div 2 .. Ceiling(attempts) - 1

\* queueWaitTiming.
QueueWait(start, due, end) ==
    IF start = Null \/ end < start THEN Null
    ELSE LET eligible == Min2(end, Max2(start, due)) IN
         [totalMs |-> end - start, scheduledDelayMs |-> eligible - start,
          readyWaitMs |-> end - eligible]

-----------------------------------------------------------------------------
\* claimNextJob takes the job and its trace begins.
ClaimNextJob ==
    /\ row.status = "queued" /\ row.attempts < MaxAttempts /\ Due(row.runAfter, now)
    /\ now' \in Later
    /\ row' = [row EXCEPT !.status = "running", !.attempts = @ + 1, !.startedAt = Round(now')]
    /\ wait' = QueueWait(row.queuedAt, row.runAfter, row'.startedAt)
    /\ UNCHANGED last

\* Mutant: a retry keeps its first queue entry.
FailKeepingQueueEntry ==
    /\ row.status = "running" /\ row.attempts < MaxAttempts
    /\ now' \in Later
    /\ \E w \in Jitter(row.attempts) :
            row' = [row EXCEPT !.status = "queued", !.runAfter = Trunc(now) + w]
    /\ last' = [why |-> "failed", steady |-> TRUE, at |-> Trunc(now), attempts |-> row.attempts]
    /\ UNCHANGED wait

\* failOrRetryJob and reapExpiredJobs: run_after is computed before queued_at.
FailOrReap ==
    /\ row.status = "running"
    /\ now' \in Later
    /\ \/ /\ row.attempts < MaxAttempts
          /\ \E w \in Jitter(row.attempts) :
                row' = [row EXCEPT !.status = "queued", !.runAfter = Trunc(now) + w,
                                   !.queuedAt = Trunc(now')]
          /\ last' = [why |-> "failed", steady |-> TRUE, at |-> Trunc(now),
                      attempts |-> row.attempts]
       \/ /\ row.attempts >= MaxAttempts
          /\ row' = [row EXCEPT !.status = "dead_letter", !.runAfter = Trunc(now)]
          /\ UNCHANGED last
    /\ UNCHANGED wait

CompleteJob ==
    /\ row.status = "running"
    /\ row' = [row EXCEPT !.status = "completed"]
    /\ UNCHANGED <<now, wait, last>>

\* retryJob.
RetryJob ==
    /\ row.status = "dead_letter"
    /\ now' \in Later
    /\ row' = [NewJob(Trunc(now')) EXCEPT !.runAfter = Trunc(now)]
    /\ last' = [why |-> "retried", steady |-> TRUE, at |-> Trunc(now), attempts |-> 0]
    /\ UNCHANGED wait

Tick == now < MaxTime /\ now' = now + 1 /\ UNCHANGED <<row, wait, last>>

\* Time synchronisation, or a failover to a database with another clock.
SetBack ==
    /\ now' \in 0 .. now - 1
    /\ last' = [last EXCEPT !.steady = FALSE]
    /\ UNCHANGED <<row, wait>>

TimingNext == ClaimNextJob \/ FailOrReap \/ CompleteJob \/ RetryJob \/ Tick \/ SetBack

TimingSpec == TimingInit /\ [][TimingNext]_timing

-----------------------------------------------------------------------------
\* Properties

Times == 0 .. (MaxTime + 1) \div 2

\* Everything has its shape; no part of a wait is negative.
TimingTypeOK ==
    /\ now \in 0 .. MaxTime
    /\ row \in [status: {"queued", "running", "completed", "dead_letter"},
                attempts: 0 .. MaxAttempts, queuedAt: Times \cup {Null},
                runAfter: Nat, startedAt: Times \cup {Null}]
    /\ wait \in Waits \cup {Null}
    /\ last \in [why: {"new", "failed", "retried"}, steady: BOOLEAN, at: Times,
                 attempts: 0 .. MaxAttempts]

\* The recorded wait is the time from the last queue entry, be it the first or
\* a retry, to the claim, split in two; it is off by less than the duration of
\* the statement, and missing only for old rows and when the clock was set back.
WaitAddsUp ==
    row.status = "running" =>
        /\ wait # Null => /\ row.startedAt - wait.totalMs \in {last.at, last.at + 1}
                          /\ wait.scheduledDelayMs + wait.readyWaitMs = wait.totalMs
        /\ wait = Null => row.queuedAt = Null \/ ~last.steady

\* An automatic retry starts no earlier than half of the ceiling after the
\* failure, and was held back for less than the ceiling.
RetriesBackOff ==
    row.status = "running" /\ last.why = "failed" /\ last.steady =>
        /\ row.startedAt >= last.at + Ceiling(last.attempts) \div 2
        /\ wait # Null /\ wait.scheduledDelayMs < Ceiling(last.attempts)

\* A new job and a dead letter that was retried may be claimed at once: the
\* claim that their notification wakes finds them, and no delay is reported.
FreshJobsAreDue ==
    last.why # "failed" /\ last.steady =>
        /\ row.status = "queued" => Due(row.runAfter, now)
        /\ row.status = "running" /\ wait # Null => wait.scheduledDelayMs = 0

\* run_after holds back what failed, for as long as it should, and nothing else.
RunAfterIsRight == RetriesBackOff /\ FreshJobsAreDue
=============================================================================
