--------------------------- MODULE ProviderPermit ---------------------------
(***************************************************************************)
(* Admission to one LLM provider: the token bucket shared by all workers   *)
(* (src/server/src/providerRateLimit.ts) and the way from a permit to the  *)
(* call in processJob (src/server/src/worker.ts).  Buckets of different    *)
(* providers share nothing, so one is enough.                              *)
(*                                                                         *)
(* Balance and time have one unit, the tick: a bucket earns one unit per   *)
(* tick and a permit costs Period of them.  That keeps the fractions of    *)
(* tokens + elapsed * refill_per_second exact.  The database clock may be  *)
(* set back.                                                               *)
(*                                                                         *)
(* The transaction of tryAcquireProviderPermit takes the bucket, then the  *)
(* job, checks the lease, reads and writes; each is a step, and others run *)
(* in between.  Its UPDATE reads the bucket in a materialized CTE and      *)
(* writes what it computed from that, so reading and writing are two.      *)
(***************************************************************************)
EXTENDS Integers, FiniteSets

CONSTANTS Attempts,   \* attempts that ask for a permit, each with its own job and lease
          Period,     \* ticks in which one permit is earned, 1 / refill_per_second
          Capacity,   \* capacity of the bucket, in ticks
          MaxTime,    \* model bound: the last reading of the clock
          MaxJumps    \* model bound: times the clock is set back

ASSUME PermitAssumption ==
    /\ IsFiniteSet(Attempts)
    /\ Period \in Nat \ {0} /\ Capacity \in Nat /\ Capacity >= Period
    /\ MaxTime \in Nat /\ MaxJumps \in Nat

VARIABLES
    exists,      \* whether the bucket's row is committed ("yes"), "pending" or absent ("no")
    tokens,      \* its balance
    refilledAt,  \* the latest clock reading up to which it was refilled
    opened,      \* history: refilledAt when it was created
    spent,       \* history: what all granted permits cost
    now, jumps,  \* the database clock, and how often it was set back
    lease,       \* lease[a]: of the attempt, in the jobs table
    busy,        \* busy[a]: another transaction holds the row of a's job
    told,        \* told[a]: a's process is stopping, or its heartbeat lost the lease
    pc,          \* pc[a]: where the attempt is
    seen         \* seen[a]: the balance and time its UPDATE works with

bucket == <<exists, tokens, refilledAt, opened, spent>>
outside == <<now, jumps, lease, busy, told>>
vars == <<exists, tokens, refilledAt, opened, spent, now, jumps, lease, busy, told, pc, seen>>

InTransaction == {"bucket", "locked", "checked", "read"}
HoldsJob == {"locked", "checked", "read"}
Waiting == {"loop", "acquire", "refused", "sleeping"} \cup InTransaction
Ended == {"calling", "stopped"}

Least(x, y) == IF x <= y THEN x ELSE y
Greatest(x, y) == IF x <= y THEN y ELSE x

Nothing == [available |-> 0, moment |-> 0]

\* The row may have been used for long: any balance within its limits.
Init ==
    /\ exists \in {"no", "yes"}
    /\ tokens \in IF exists = "yes" THEN 0 .. Capacity ELSE {0}
    /\ refilledAt = 0 /\ opened = 0 /\ spent = 0
    /\ now = 0 /\ jumps = 0
    /\ lease = [a \in Attempts |-> "live"]
    /\ busy = [a \in Attempts |-> FALSE]
    /\ told = [a \in Attempts |-> FALSE]
    /\ pc = [a \in Attempts |-> "loop"]
    /\ seen = [a \in Attempts |-> Nothing]

Goto(a, to) == pc' = [pc EXCEPT ![a] = to]

-----------------------------------------------------------------------------
\* waitForProviderPermit.

\* The loop: stop if told to, or ask.
Ask(a) ==
    /\ pc[a] = "loop"
    /\ Goto(a, IF told[a] THEN "stopped" ELSE "acquire")
    /\ UNCHANGED <<bucket, outside, seen>>

\* tryAcquireProviderPermit has returned; a permit is not used once told.
Answered(a) ==
    /\ pc[a] \in {"allowed", "refused"}
    /\ Goto(a, IF told[a] THEN "stopped"
               ELSE IF pc[a] = "allowed" THEN "granted" ELSE "sleeping")
    /\ UNCHANGED <<bucket, outside, seen>>

\* At most 250 ms later, or at the signal.
SleepEnds(a) ==
    /\ pc[a] = "sleeping"
    /\ Goto(a, "loop")
    /\ UNCHANGED <<bucket, outside, seen>>

\* processJob records the wait, asks once more, and calls the provider.
CallLlm(a) ==
    /\ pc[a] = "granted"
    /\ Goto(a, IF told[a] THEN "stopped" ELSE "calling")
    /\ UNCHANGED <<bucket, outside, seen>>

-----------------------------------------------------------------------------
\* tryAcquireProviderPermit.

\* Mutant: no FOR UPDATE.
NobodyMatters == exists # "pending"

BucketFree == \A a \in Attempts : pc[a] \notin InTransaction

\* INSERT ... ON CONFLICT DO NOTHING, then FOR UPDATE: both wait for whoever
\* created the row and has not committed, and the second for whoever holds it.
LockBucket(a) ==
    /\ pc[a] = "acquire" /\ BucketFree
    /\ Goto(a, "bucket")
    /\ IF exists = "yes"
       THEN UNCHANGED bucket
       ELSE /\ exists' = "pending" /\ tokens' = Capacity
            /\ refilledAt' = now /\ opened' = now
            /\ UNCHANGED spent
    /\ UNCHANGED <<outside, seen>>

\* ownsLease: the job's row, then, under both locks, the lease.
LockJob(a) ==
    /\ pc[a] = "bucket" /\ ~busy[a]
    /\ Goto(a, "locked")
    /\ UNCHANGED <<bucket, outside, seen>>

\* Mutant: a running job with a lease is enough, whoever's it is.
OwnsSomeLease(a) == lease[a] # "expired"

OwnsLease(a) == lease[a] = "live"

\* A transaction that does not commit leaves no row behind.
Rollback ==
    IF exists = "pending"
    THEN exists' = "no" /\ tokens' = 0 /\ refilledAt' = 0 /\ opened' = 0 /\ UNCHANGED spent
    ELSE UNCHANGED bucket

CheckLease(a) ==
    /\ pc[a] = "locked"
    /\ \/ OwnsLease(a) /\ Goto(a, "checked") /\ UNCHANGED bucket
       \/ ~OwnsLease(a) /\ Goto(a, "stopped") /\ Rollback
    /\ UNCHANGED <<outside, seen>>

Available == Least(Capacity, tokens + Greatest(0, now - refilledAt))

ReadBucket(a) ==
    /\ pc[a] = "checked"
    /\ seen' = [seen EXCEPT ![a] = [available |-> Available, moment |-> now]]
    /\ Goto(a, "read")
    /\ UNCHANGED <<bucket, outside>>

\* Mutants of the comparison and of the new time.
NeedsMore(a) == seen[a].available > Period
ClockOnly(a) == seen[a].moment

Allowed(a) == seen[a].available >= Period
RefillTime(a) == Greatest(refilledAt, seen[a].moment)

\* The balance is written and committed.
WriteBucket(a) ==
    /\ pc[a] = "read"
    /\ exists' = "yes"
    /\ tokens' = IF Allowed(a) THEN seen[a].available - Period ELSE seen[a].available
    /\ spent' = IF Allowed(a) THEN spent + Period ELSE spent
    /\ refilledAt' = RefillTime(a)
    /\ seen' = [seen EXCEPT ![a] = Nothing]
    /\ UNCHANGED <<opened, outside>>

Spend(a) == WriteBucket(a) /\ Goto(a, IF Allowed(a) THEN "allowed" ELSE "refused")

\* The answer to the commit is lost: the attempt fails, the permit is gone.
SpendUnseen(a) == WriteBucket(a) /\ Goto(a, "stopped")

\* A database error before the commit, or a crash.
Abort(a) ==
    /\ pc[a] \in InTransaction
    /\ Goto(a, "stopped") /\ Rollback
    /\ seen' = [seen EXCEPT ![a] = Nothing]
    /\ UNCHANGED outside

-----------------------------------------------------------------------------
\* Around the attempt.

\* Another transaction on the job: a renewal, a trace, the reaper.
OtherLocks(a) ==
    /\ ~busy[a] /\ pc[a] \notin HoldsJob \cup Ended
    /\ busy' = [busy EXCEPT ![a] = TRUE]
    /\ UNCHANGED <<bucket, now, jumps, lease, told, pc, seen>>

OtherUnlocks(a) ==
    /\ busy[a]
    /\ busy' = [busy EXCEPT ![a] = FALSE]
    /\ UNCHANGED <<bucket, now, jumps, lease, told, pc, seen>>

LeaseExpires(a) ==
    /\ lease[a] = "live" /\ pc[a] \notin Ended
    /\ lease' = [lease EXCEPT ![a] = "expired"]
    /\ UNCHANGED <<bucket, now, jumps, busy, told, pc, seen>>

\* Recovered by the reaper, and perhaps claimed by another attempt.
LeaseLost(a) ==
    /\ lease[a] = "expired" /\ ~busy[a] /\ pc[a] \notin HoldsJob \cup Ended
    /\ lease' = [lease EXCEPT ![a] = "lost"]
    /\ UNCHANGED <<bucket, now, jumps, busy, told, pc, seen>>

Tell(a) ==
    /\ ~told[a] /\ pc[a] \notin Ended
    /\ told' = [told EXCEPT ![a] = TRUE]
    /\ UNCHANGED <<bucket, now, jumps, lease, busy, pc, seen>>

Tick ==
    /\ now < MaxTime
    /\ now' = now + 1
    /\ UNCHANGED <<bucket, jumps, lease, busy, told, pc, seen>>

SetBack ==
    /\ jumps < MaxJumps
    /\ \E t \in 0 .. MaxTime : t < now /\ now' = t
    /\ jumps' = jumps + 1
    /\ UNCHANGED <<bucket, lease, busy, told, pc, seen>>

-----------------------------------------------------------------------------
GoOn(a) ==
    \/ Ask(a) \/ Answered(a) \/ SleepEnds(a) \/ CallLlm(a)
    \/ CheckLease(a) \/ ReadBucket(a) \/ Spend(a)

Next ==
    \/ \E a \in Attempts :
        \/ GoOn(a) \/ LockBucket(a) \/ LockJob(a) \/ SpendUnseen(a) \/ Abort(a)
        \/ OtherLocks(a) \/ OtherUnlocks(a) \/ LeaseExpires(a) \/ LeaseLost(a) \/ Tell(a)
    \/ Tick \/ SetBack

Spec == Init /\ [][Next]_vars

\* Queries are answered and sleeps end, other transactions end, and a lock
\* that is free again and again is obtained.  Time goes on.
Fairness ==
    /\ WF_vars(Tick)
    /\ \A a \in Attempts :
        /\ WF_vars(GoOn(a)) /\ WF_vars(OtherUnlocks(a))
        /\ SF_vars(LockBucket(a)) /\ SF_vars(LockJob(a))

FairSpec == Spec /\ Fairness

-----------------------------------------------------------------------------
\* Properties

\* The variables have their types, and the balance respects the table's check
\* constraint 0 <= tokens <= capacity.
TypeOK ==
    /\ exists \in {"no", "pending", "yes"}
    /\ tokens \in 0 .. Capacity
    /\ refilledAt \in Nat /\ opened \in Nat /\ spent \in Nat
    /\ now \in 0 .. MaxTime /\ jumps \in 0 .. MaxJumps
    /\ lease \in [Attempts -> {"live", "expired", "lost"}]
    /\ busy \in [Attempts -> BOOLEAN]
    /\ told \in [Attempts -> BOOLEAN]
    /\ pc \in [Attempts -> Waiting \cup {"allowed", "granted"} \cup Ended]
    /\ seen \in [Attempts -> [available: 0 .. Capacity, moment: Nat]]

\* Whatever was granted since the bucket exists, plus its balance, is at most
\* a full bucket plus what the time up to refilledAt earned: no token is spent
\* by two workers, and no time is paid for twice, also when the clock is set
\* back.
TokensAreEarned == spent + tokens <= Capacity + (refilledAt - opened)

\* The provider sees no more calls than the bucket's policy allows for.
CallsStayWithinRate ==
    Period * Cardinality({a \in Attempts : pc[a] = "calling"})
        <= Capacity + (refilledAt - opened)

\* A permit is charged to an attempt only while the job cannot have been taken
\* from it: the lease was live after the last wait for a lock, and recovery
\* has to wait for the transaction.
ChargedAttemptHasItsJob ==
    \A a \in Attempts : pc[a] \in {"checked", "read"} => lease[a] # "lost"

\* Once an attempt was told to stop it does not begin a provider call, with a
\* permit or without: the signal may arrive in the middle of a query.
NoCallOnceTold ==
    [][\A a \in Attempts : told[a] /\ pc[a] # "calling" => pc'[a] # "calling"]_vars

\* The model's clock has stopped and the bucket cannot pay for a permit.
OutOfTime == now = MaxTime /\ refilledAt >= now /\ tokens < Period

\* Nobody waits for ever while permits are earned, although the bucket's and
\* the job's row are locked one after the other and others lock them too.
EveryWaitEnds ==
    \A a \in Attempts : pc[a] \in Waiting ~> (pc[a] \notin Waiting \/ OutOfTime)
=============================================================================
