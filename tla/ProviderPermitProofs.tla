------------------------ MODULE ProviderPermitProofs ------------------------
(***************************************************************************)
(* The bucket pays only for what it earned and charges only attempts that  *)
(* hold their job, for any attempts, rate, capacity and clock.             *)
(*                                                                         *)
(* TokensAreEarned alone is not inductive: an UPDATE writes a balance it   *)
(* computed earlier.  The invariant therefore also says that at most one   *)
(* transaction is past the bucket's lock, and that what it has seen is     *)
(* what the bucket still holds.                                            *)
(***************************************************************************)
EXTENDS ProviderPermit, FiniteSetTheorems, TLAPS

\* At most one transaction holds the bucket.
OneHolder ==
    \A a, b \in Attempts : pc[a] \in InTransaction /\ pc[b] \in InTransaction => a = b

\* What the UPDATE computed is computed from the balance as it is.
SeenIsCurrent ==
    \A a \in Attempts : pc[a] = "read" =>
        seen[a].available = Least(Capacity, tokens + Greatest(0, seen[a].moment - refilledAt))

BucketOK ==
    /\ exists \in {"no", "pending", "yes"}
    /\ tokens \in 0 .. Capacity
    /\ refilledAt \in Nat /\ opened \in Nat /\ spent \in Nat
    /\ exists # "yes" => spent = 0
    /\ TokensAreEarned

OutsideOK ==
    /\ now \in 0 .. MaxTime /\ jumps \in 0 .. MaxJumps
    /\ lease \in [Attempts -> {"live", "expired", "lost"}]
    /\ busy \in [Attempts -> BOOLEAN]
    /\ told \in [Attempts -> BOOLEAN]

Steps == Waiting \cup {"allowed", "granted"} \cup Ended
Seen == [available: 0 .. Capacity, moment: Nat]

AttemptsOK ==
    /\ pc \in [Attempts -> Steps]
    /\ seen \in [Attempts -> Seen]
    /\ OneHolder /\ ChargedAttemptHasItsJob

IInv == BucketOK /\ OutsideOK /\ AttemptsOK /\ SeenIsCurrent

\* The invariant gives the types.
LEMMA InvariantTypes == IInv => TypeOK
  BY DEF IInv, BucketOK, OutsideOK, AttemptsOK, TypeOK, Steps, Seen

LEMMA NothingSeen == Nothing \in Seen
  BY PermitAssumption DEF Nothing, Seen

\* The initial states satisfy the invariant.
LEMMA InitInvariant == Init => IInv
<1> SUFFICES ASSUME Init PROVE IInv
  OBVIOUS
<1>1. BucketOK
  BY PermitAssumption DEF Init, BucketOK, TokensAreEarned
<1>2. OutsideOK
  BY PermitAssumption DEF Init, OutsideOK
<1>3. AttemptsOK
  BY NothingSeen DEF Init, AttemptsOK, Steps, Waiting, InTransaction, OneHolder,
                     ChargedAttemptHasItsJob
<1>4. SeenIsCurrent
  BY DEF Init, SeenIsCurrent
<1> QED BY <1>1, <1>2, <1>3, <1>4 DEF IInv

-----------------------------------------------------------------------------
\* What an attempt does outside of the transaction leaves the bucket alone.
LEMMA LoopStep ==
    ASSUME IInv, NEW a \in Attempts, NEW to \in Steps \ InTransaction,
           Goto(a, to), UNCHANGED <<bucket, outside, seen>>
    PROVE  IInv'
<1>1. BucketOK' /\ OutsideOK'
  BY DEF IInv, BucketOK, OutsideOK, TokensAreEarned, bucket, outside
<1>2. pc' \in [Attempts -> Steps] /\ seen' \in [Attempts -> Seen]
  BY DEF IInv, AttemptsOK, Goto
<1>3. \A b \in Attempts : pc'[b] \in InTransaction => pc[b] = pc'[b]
  BY DEF IInv, AttemptsOK, Goto
<1>4. OneHolder' /\ ChargedAttemptHasItsJob'
  BY <1>3 DEF IInv, AttemptsOK, OneHolder, ChargedAttemptHasItsJob, InTransaction, outside
<1>5. SeenIsCurrent'
  BY <1>3 DEF IInv, SeenIsCurrent, InTransaction, bucket
<1> QED BY <1>1, <1>2, <1>4, <1>5 DEF IInv, AttemptsOK

\* The bucket is locked, and created if it is not there.
LEMMA LockStep ==
    ASSUME IInv, NEW a \in Attempts, LockBucket(a)
    PROVE  IInv'
<1>1. BucketOK'
  BY PermitAssumption DEF IInv, BucketOK, OutsideOK, TokensAreEarned, LockBucket, bucket
<1>2. OutsideOK'
  BY DEF IInv, OutsideOK, LockBucket, outside
<1>3. pc' \in [Attempts -> Steps] /\ seen' \in [Attempts -> Seen]
  BY DEF IInv, AttemptsOK, LockBucket, Goto, Steps, Waiting, InTransaction
<1>4. \A b \in Attempts : pc'[b] \in InTransaction => b = a /\ pc'[b] = "bucket"
  BY DEF IInv, AttemptsOK, LockBucket, Goto, BucketFree
<1>5. OneHolder'
  BY <1>4 DEF OneHolder
<1>6. ChargedAttemptHasItsJob' /\ SeenIsCurrent'
  BY <1>4 DEF ChargedAttemptHasItsJob, SeenIsCurrent, InTransaction
<1> QED BY <1>1, <1>2, <1>3, <1>5, <1>6 DEF IInv, AttemptsOK

\* The holder of the bucket goes on: its job's row, and the lease.
LEMMA HolderStep ==
    ASSUME IInv, NEW a \in Attempts, pc[a] \in InTransaction,
           NEW to \in {"locked", "checked"}, Goto(a, to),
           to = "checked" => lease[a] = "live",
           UNCHANGED <<bucket, outside, seen>>
    PROVE  IInv'
<1>1. BucketOK' /\ OutsideOK'
  BY DEF IInv, BucketOK, OutsideOK, TokensAreEarned, bucket, outside
<1>2. pc' \in [Attempts -> Steps] /\ seen' \in [Attempts -> Seen]
  BY DEF IInv, AttemptsOK, Goto, Steps, Waiting, InTransaction
<1>3. \A b \in Attempts : b # a => pc'[b] = pc[b]
  BY DEF IInv, AttemptsOK, Goto
<1>4. pc'[a] = to
  BY DEF IInv, AttemptsOK, Goto
<1>5. OneHolder'
  BY <1>3 DEF IInv, AttemptsOK, OneHolder
<1>6. ChargedAttemptHasItsJob'
  BY <1>3, <1>4 DEF IInv, AttemptsOK, ChargedAttemptHasItsJob, outside
<1>7. SeenIsCurrent'
  BY <1>3, <1>4 DEF IInv, SeenIsCurrent, bucket
<1> QED BY <1>1, <1>2, <1>5, <1>6, <1>7 DEF IInv, AttemptsOK

\* What is available is a balance the bucket may have.
LEMMA AvailableBounds ==
    ASSUME BucketOK, NEW m \in Nat
    PROVE  /\ Least(Capacity, tokens + Greatest(0, m - refilledAt)) \in 0 .. Capacity
           /\ Least(Capacity, tokens + Greatest(0, m - refilledAt)) + refilledAt
                <= tokens + Greatest(refilledAt, m)
           /\ Greatest(refilledAt, m) \in Nat
  BY PermitAssumption DEF BucketOK, Least, Greatest

\* The UPDATE reads the bucket.
LEMMA ReadStep ==
    ASSUME IInv, NEW a \in Attempts, ReadBucket(a)
    PROVE  IInv'
<1>1. BucketOK' /\ OutsideOK'
  BY DEF IInv, BucketOK, OutsideOK, TokensAreEarned, bucket, outside, ReadBucket
<1>2. now \in Nat /\ Available \in 0 .. Capacity
  BY AvailableBounds, PermitAssumption DEF IInv, OutsideOK, Available
<1>3. pc' \in [Attempts -> Steps] /\ seen' \in [Attempts -> Seen]
  BY <1>2 DEF IInv, AttemptsOK, ReadBucket, Goto, Steps, Waiting, InTransaction, Seen
<1>4. /\ \A b \in Attempts : b # a => pc'[b] = pc[b] /\ seen'[b] = seen[b]
      /\ pc[a] = "checked" /\ pc'[a] = "read"
      /\ seen'[a] = [available |-> Available, moment |-> now]
  BY DEF IInv, AttemptsOK, ReadBucket, Goto
<1>5. OneHolder' /\ ChargedAttemptHasItsJob'
  BY <1>4 DEF IInv, AttemptsOK, OneHolder, ChargedAttemptHasItsJob, InTransaction, ReadBucket,
              outside
<1>6. SeenIsCurrent'
  BY <1>4 DEF IInv, SeenIsCurrent, ReadBucket, Available, bucket
<1> QED BY <1>1, <1>3, <1>5, <1>6 DEF IInv, AttemptsOK

\* After the transaction of a nobody holds the bucket.
LEMMA HolderLeaves ==
    ASSUME IInv, NEW a \in Attempts, pc[a] \in InTransaction,
           NEW to \in Steps \ InTransaction, Goto(a, to),
           UNCHANGED outside, seen' \in [Attempts -> Seen]
    PROVE  OutsideOK' /\ AttemptsOK' /\ SeenIsCurrent'
<1>1. OutsideOK'
  BY DEF IInv, OutsideOK, outside
<1>2. pc' \in [Attempts -> Steps]
  BY DEF IInv, AttemptsOK, Goto
<1>3. \A b \in Attempts : pc'[b] \notin InTransaction
  BY DEF IInv, AttemptsOK, OneHolder, Goto
<1>4. OneHolder' /\ ChargedAttemptHasItsJob' /\ SeenIsCurrent'
  BY <1>3 DEF OneHolder, ChargedAttemptHasItsJob, SeenIsCurrent, InTransaction
<1> QED BY <1>1, <1>2, <1>4 DEF AttemptsOK

\* The balance that is written was earned.
LEMMA WriteStep ==
    ASSUME IInv, NEW a \in Attempts, NEW to \in Steps \ InTransaction,
           WriteBucket(a), Goto(a, to)
    PROVE  IInv'
<1>1. pc[a] = "read" /\ pc[a] \in InTransaction
  BY DEF WriteBucket, InTransaction
<1>2. seen[a] \in Seen
  BY DEF IInv, AttemptsOK
<1>3. /\ seen[a].moment \in Nat /\ seen[a].available \in 0 .. Capacity
      /\ seen[a].available + refilledAt <= tokens + Greatest(refilledAt, seen[a].moment)
      /\ Greatest(refilledAt, seen[a].moment) \in Nat
  BY <1>1, <1>2, AvailableBounds DEF IInv, SeenIsCurrent, Seen
<1>4. BucketOK'
  <2>1. exists' = "yes" /\ opened' = opened
    BY DEF WriteBucket
  <2>2. refilledAt' = Greatest(refilledAt, seen[a].moment)
    BY DEF WriteBucket, RefillTime
  <2>3. /\ tokens' \in 0 .. Capacity /\ spent' \in Nat
        /\ spent' + tokens' = spent + seen[a].available
    BY <1>3, PermitAssumption DEF IInv, BucketOK, WriteBucket, Allowed
  <2>4. refilledAt' \in Nat
    BY <1>3, <2>2
  <2>5. TokensAreEarned'
    BY <1>3, <2>1, <2>2, <2>3, PermitAssumption DEF IInv, BucketOK, TokensAreEarned
  <2> QED BY <2>1, <2>3, <2>4, <2>5 DEF IInv, BucketOK
<1>5. seen' \in [Attempts -> Seen]
  BY NothingSeen DEF IInv, AttemptsOK, WriteBucket
<1> QED BY <1>1, <1>4, <1>5, HolderLeaves DEF WriteBucket, IInv

\* A rollback leaves the bucket as it was before the transaction.
LEMMA RollbackStep ==
    ASSUME IInv, NEW a \in Attempts, pc[a] \in InTransaction, Goto(a, "stopped"),
           Rollback, UNCHANGED outside, seen' \in [Attempts -> Seen]
    PROVE  IInv'
<1>1. BucketOK'
  BY PermitAssumption DEF IInv, BucketOK, TokensAreEarned, Rollback, bucket
<1>2. "stopped" \in Steps \ InTransaction
  BY DEF Steps, Ended, InTransaction
<1> QED BY <1>1, <1>2, HolderLeaves DEF IInv

\* What happens around the attempts does not move them, and takes no job from
\* the holder of its row.
LEMMA OutsideStep ==
    ASSUME IInv, OutsideOK', UNCHANGED <<bucket, pc, seen>>,
           \A a \in Attempts : pc[a] \in HoldsJob /\ lease[a] # "lost" => lease'[a] # "lost"
    PROVE  IInv'
<1>1. BucketOK'
  BY DEF IInv, BucketOK, TokensAreEarned, bucket
<1>2. AttemptsOK'
  BY DEF IInv, AttemptsOK, OneHolder, ChargedAttemptHasItsJob, HoldsJob
<1>3. SeenIsCurrent'
  BY DEF IInv, SeenIsCurrent, bucket
<1> QED BY <1>1, <1>2, <1>3 DEF IInv

\* Every step of an attempt keeps the invariant.
LEMMA AttemptStep ==
    ASSUME IInv, NEW a \in Attempts,
           GoOn(a) \/ LockBucket(a) \/ LockJob(a) \/ SpendUnseen(a) \/ Abort(a)
    PROVE  IInv'
<1>0. /\ {"acquire", "stopped", "loop", "calling", "granted", "sleeping", "allowed",
           "refused"} \subseteq Steps \ InTransaction
      /\ {"bucket", "locked", "checked", "read"} \subseteq InTransaction
  BY DEF Steps, Waiting, Ended, InTransaction
<1>1. CASE Ask(a)
  BY <1>0, <1>1, LoopStep DEF Ask
<1>2. CASE Answered(a)
  BY <1>0, <1>2, LoopStep DEF Answered
<1>3. CASE SleepEnds(a)
  BY <1>0, <1>3, LoopStep DEF SleepEnds
<1>4. CASE CallLlm(a)
  BY <1>0, <1>4, LoopStep DEF CallLlm
<1>5. CASE CheckLease(a)
  <2>1. pc[a] \in InTransaction /\ UNCHANGED <<outside, seen>>
    BY <1>0, <1>5 DEF CheckLease
  <2>2. CASE OwnsLease(a) /\ Goto(a, "checked") /\ UNCHANGED bucket
    BY <2>1, <2>2, HolderStep DEF OwnsLease
  <2>3. CASE Goto(a, "stopped") /\ Rollback
    BY <2>1, <2>3, RollbackStep DEF IInv, AttemptsOK
  <2> QED BY <1>5, <2>2, <2>3 DEF CheckLease
<1>6. CASE ReadBucket(a)
  BY <1>6, ReadStep
<1>7. CASE Spend(a)
  BY <1>0, <1>7, WriteStep DEF Spend
<1>8. CASE LockBucket(a)
  BY <1>8, LockStep
<1>9. CASE LockJob(a)
  BY <1>0, <1>9, HolderStep DEF LockJob
<1>10. CASE SpendUnseen(a)
  BY <1>0, <1>10, WriteStep DEF SpendUnseen
<1>11. CASE Abort(a)
  <2>1. seen' \in [Attempts -> Seen]
    BY <1>11, NothingSeen DEF Abort, IInv, AttemptsOK
  <2> QED BY <1>11, <2>1, RollbackStep DEF Abort
<1> QED BY <1>1, <1>2, <1>3, <1>4, <1>5, <1>6, <1>7, <1>8, <1>9, <1>10, <1>11 DEF GoOn

\* Locks of others, leases, signals and the clock keep the invariant.
LEMMA EnvironmentStep ==
    ASSUME IInv,
           \/ \E a \in Attempts : OtherLocks(a) \/ OtherUnlocks(a) \/ LeaseExpires(a)
                                    \/ LeaseLost(a) \/ Tell(a)
           \/ Tick \/ SetBack
    PROVE  IInv'
<1>1. UNCHANGED <<bucket, pc, seen>>
  BY DEF OtherLocks, OtherUnlocks, LeaseExpires, LeaseLost, Tell, Tick, SetBack
<1>2. OutsideOK'
  <2>1. ASSUME NEW a \in Attempts,
               OtherLocks(a) \/ OtherUnlocks(a) \/ LeaseExpires(a) \/ LeaseLost(a) \/ Tell(a)
        PROVE  OutsideOK'
    BY <2>1 DEF IInv, OutsideOK, OtherLocks, OtherUnlocks, LeaseExpires, LeaseLost, Tell
  <2>2. CASE Tick \/ SetBack
    BY <2>2, PermitAssumption DEF IInv, OutsideOK, Tick, SetBack
  <2> QED BY <2>1, <2>2
<1>3. \A a \in Attempts : pc[a] \in HoldsJob /\ lease[a] # "lost" => lease'[a] # "lost"
  BY DEF IInv, OutsideOK, OtherLocks, OtherUnlocks, LeaseExpires, LeaseLost, Tell, Tick, SetBack
<1> QED BY <1>1, <1>2, <1>3, OutsideStep

\* Every step keeps the invariant.
LEMMA NextInvariant == IInv /\ [Next]_vars => IInv'
<1> SUFFICES ASSUME IInv, [Next]_vars PROVE IInv'
  OBVIOUS
<1>1. CASE UNCHANGED vars
  <2>1. UNCHANGED <<bucket, pc, seen>> /\ UNCHANGED outside
    BY <1>1 DEF vars, bucket, outside
  <2>2. OutsideOK' /\ lease' = lease
    BY <2>1 DEF IInv, OutsideOK, outside
  <2> QED BY <2>1, <2>2, OutsideStep
<1>2. CASE Next
  BY <1>2, AttemptStep, EnvironmentStep DEF Next
<1> QED BY <1>1, <1>2

LEMMA Invariance == Spec => []IInv
  BY InitInvariant, NextInvariant, PTL DEF Spec

-----------------------------------------------------------------------------
\* The variables have their types, and the balance never leaves the range of
\* the table's check constraint.
THEOREM TypeCorrect == Spec => []TypeOK
  BY Invariance, InvariantTypes, PTL

\* No permit is granted twice for the same token, whatever the clock does.
THEOREM PermitsAreEarned == Spec => []TokensAreEarned
<1>1. IInv => TokensAreEarned
  BY DEF IInv, BucketOK
<1> QED BY <1>1, Invariance, PTL

\* Nobody is charged for a job that was taken from it.
THEOREM PermitsGoToOwners == Spec => []ChargedAttemptHasItsJob
<1>1. IInv => ChargedAttemptHasItsJob
  BY DEF IInv, AttemptsOK
<1> QED BY <1>1, Invariance, PTL

\* Told to stop is told not to call.
THEOREM ToldAttemptsDoNotCall == Spec => NoCallOnceTold
<1>1. IInv /\ [Next]_vars => [\A a \in Attempts : told[a] /\ pc[a] # "calling"
                                                    => pc'[a] # "calling"]_vars
  <2> SUFFICES ASSUME IInv, Next, NEW b \in Attempts, told[b], pc[b] # "calling"
               PROVE  pc'[b] # "calling"
    OBVIOUS
  <2>1. pc \in [Attempts -> Steps]
    BY DEF IInv, AttemptsOK
  <2>2. ASSUME NEW a \in Attempts, GoOn(a)
        PROVE  pc'[b] # "calling"
    BY <2>1, <2>2 DEF GoOn, Ask, Answered, SleepEnds, CallLlm, CheckLease, ReadBucket, Spend, Goto
  <2>3. ASSUME NEW a \in Attempts, LockBucket(a) \/ LockJob(a) \/ SpendUnseen(a) \/ Abort(a)
        PROVE  pc'[b] # "calling"
    BY <2>1, <2>3 DEF LockBucket, LockJob, SpendUnseen, Abort, Goto
  <2>4. ASSUME UNCHANGED pc
        PROVE  pc'[b] # "calling"
    BY <2>4
  <2> QED BY <2>2, <2>3, <2>4 DEF Next, OtherLocks, OtherUnlocks, LeaseExpires, LeaseLost, Tell,
                                  Tick, SetBack
<1> QED BY <1>1, Invariance, PTL DEF Spec, NoCallOnceTold

-----------------------------------------------------------------------------
\* Attempts that were granted a permit, those that used it included.
Paid == {a \in Attempts : pc[a] \in {"allowed", "granted", "calling"}}

EveryPermitIsPaid == Period * Cardinality(Paid) <= spent

\* Multiplication by the price of a permit is monotone.
LEMMA PriceIsMonotone ==
    ASSUME NEW x \in Nat, NEW y \in Nat, x <= y
    PROVE  Period * x <= Period * y /\ Period * (x + 1) = Period * x + Period
  BY PermitAssumption

\* The set of granted attempts is finite, and grows by one at most.
LEMMA PaidGrows ==
    ASSUME NEW a \in Attempts, Paid' \subseteq Paid \cup {a}
    PROVE  /\ Cardinality(Paid) \in Nat /\ Cardinality(Paid') \in Nat
           /\ Cardinality(Paid') <= Cardinality(Paid) + 1
           /\ Paid' \subseteq Paid => Cardinality(Paid') <= Cardinality(Paid)
<1>1. IsFiniteSet(Paid) /\ IsFiniteSet(Paid \cup {a})
  BY PermitAssumption, FS_Subset, FS_AddElement DEF Paid
<1>2. Cardinality(Paid \cup {a}) <= Cardinality(Paid) + 1 /\ Cardinality(Paid \cup {a}) \in Nat
  BY <1>1, FS_AddElement, FS_CardinalityType
<1>3. IsFiniteSet(Paid') /\ Cardinality(Paid') <= Cardinality(Paid \cup {a})
  BY <1>1, FS_Subset
<1>4. Paid' \subseteq Paid => Cardinality(Paid') <= Cardinality(Paid)
  BY <1>1, FS_Subset
<1>5. Cardinality(Paid) \in Nat /\ Cardinality(Paid') \in Nat
  BY <1>1, <1>3, FS_CardinalityType
<1> QED BY <1>2, <1>3, <1>4, <1>5

\* Whoever gets a permit pays for it in the same step.
LEMMA PaidStep == IInv /\ EveryPermitIsPaid /\ [Next]_vars => EveryPermitIsPaid'
<1> SUFFICES ASSUME IInv, EveryPermitIsPaid, [Next]_vars PROVE EveryPermitIsPaid'
  OBVIOUS
<1>1. pc \in [Attempts -> Steps] /\ spent \in Nat
  BY DEF IInv, AttemptsOK, BucketOK
<1>2. ASSUME NEW a \in Attempts, WriteBucket(a), Allowed(a), Paid' \subseteq Paid \cup {a}
      PROVE  EveryPermitIsPaid'
  <2>1. spent' = spent + Period
    BY <1>2 DEF WriteBucket
  <2>2. Period * Cardinality(Paid') <= Period * (Cardinality(Paid) + 1)
    BY <1>2, PaidGrows, PriceIsMonotone
  <2>3. Period * (Cardinality(Paid) + 1) = Period * Cardinality(Paid) + Period
    BY <1>2, PaidGrows, PriceIsMonotone
  <2>4. /\ Period * Cardinality(Paid') \in Int /\ Period * Cardinality(Paid) \in Int
        /\ Period * (Cardinality(Paid) + 1) \in Int /\ Period \in Int
    BY <1>2, PaidGrows, PermitAssumption
  <2> QED BY <1>1, <2>1, <2>2, <2>3, <2>4 DEF EveryPermitIsPaid
<1>3. ASSUME spent' = spent, Paid' \subseteq Paid
      PROVE  EveryPermitIsPaid'
  <2>1. IsFiniteSet(Paid) /\ IsFiniteSet(Paid')
    BY <1>3, PermitAssumption, FS_Subset DEF Paid
  <2>2. /\ Cardinality(Paid') \in Nat /\ Cardinality(Paid) \in Nat
        /\ Cardinality(Paid') <= Cardinality(Paid)
    BY <1>3, <2>1, FS_Subset, FS_CardinalityType
  <2>3. Period * Cardinality(Paid') <= Period * Cardinality(Paid)
    BY <2>2, PriceIsMonotone
  <2>4. Period * Cardinality(Paid') \in Int /\ Period * Cardinality(Paid) \in Int
    BY <2>2, PermitAssumption
  <2> QED BY <1>1, <1>3, <2>3, <2>4 DEF EveryPermitIsPaid
<1>4. ASSUME NEW a \in Attempts, GoOn(a)
      PROVE  EveryPermitIsPaid'
  <2>1. CASE Spend(a)
    <3>1. Paid' \subseteq Paid \cup {a}
      BY <1>1, <2>1 DEF Spend, Goto, Paid
    <3>2. CASE Allowed(a)
      BY <1>2, <2>1, <3>1, <3>2 DEF Spend
    <3>3. CASE ~Allowed(a)
      <4>1. Paid' \subseteq Paid /\ spent' = spent
        BY <1>1, <2>1, <3>3 DEF Spend, WriteBucket, Goto, Paid
      <4> QED BY <1>3, <4>1
    <3> QED BY <3>2, <3>3
  <2>2. CASE ~Spend(a)
    <3>1. spent' = spent
      BY <1>4, <2>2 DEF GoOn, Ask, Answered, SleepEnds, CallLlm, CheckLease, ReadBucket,
                        Rollback, bucket
    <3>2. Paid' \subseteq Paid
      BY <1>1, <1>4, <2>2 DEF GoOn, Ask, Answered, SleepEnds, CallLlm, CheckLease, ReadBucket,
                              Goto, Paid
    <3> QED BY <1>3, <3>1, <3>2
  <2> QED BY <2>1, <2>2
<1>5. ASSUME NEW a \in Attempts, SpendUnseen(a)
      PROVE  EveryPermitIsPaid'
  <2>1. Paid' \subseteq Paid
    BY <1>1, <1>5 DEF SpendUnseen, Goto, Paid
  <2>2. CASE Allowed(a)
    BY <1>2, <1>5, <2>1, <2>2 DEF SpendUnseen
  <2>3. CASE ~Allowed(a)
    BY <1>3, <1>5, <2>1, <2>3 DEF SpendUnseen, WriteBucket
  <2> QED BY <2>2, <2>3
<1>6. ASSUME NEW a \in Attempts, LockBucket(a) \/ LockJob(a) \/ Abort(a)
      PROVE  EveryPermitIsPaid'
  <2>1. spent' = spent
    BY <1>6 DEF LockBucket, LockJob, Abort, Rollback, bucket
  <2>2. Paid' \subseteq Paid
    BY <1>1, <1>6 DEF LockBucket, LockJob, Abort, Goto, Paid
  <2> QED BY <1>3, <2>1, <2>2
<1>7. ASSUME UNCHANGED <<spent, pc>>
      PROVE  EveryPermitIsPaid'
  BY <1>3, <1>7 DEF Paid
<1>8. CASE UNCHANGED vars
  BY <1>7, <1>8 DEF vars
<1> QED BY <1>4, <1>5, <1>6, <1>7, <1>8 DEF Next, OtherLocks, OtherUnlocks, LeaseExpires,
                                            LeaseLost, Tell, Tick, SetBack, bucket

\* The provider sees no more calls than a full bucket and the time since it was
\* created pay for.
THEOREM CallsAreWithinRate == Spec => []CallsStayWithinRate
<1>1. Init => EveryPermitIsPaid
  <2> SUFFICES ASSUME Init PROVE EveryPermitIsPaid
    OBVIOUS
  <2>1. Paid = {} /\ spent = 0
    BY DEF Init, Paid
  <2>2. Cardinality(Paid) = 0
    BY <2>1, FS_EmptySet
  <2> QED BY <2>1, <2>2, PermitAssumption DEF EveryPermitIsPaid
<1>2. IInv /\ EveryPermitIsPaid => CallsStayWithinRate
  <2> SUFFICES ASSUME IInv, EveryPermitIsPaid PROVE CallsStayWithinRate
    OBVIOUS
  <2> DEFINE Calling == {a \in Attempts : pc[a] = "calling"}
  <2>1. IsFiniteSet(Paid) /\ Calling \subseteq Paid
    BY PermitAssumption, FS_Subset DEF Paid
  <2>2. /\ Cardinality(Calling) \in Nat /\ Cardinality(Paid) \in Nat
        /\ Cardinality(Calling) <= Cardinality(Paid)
    BY <2>1, FS_Subset, FS_CardinalityType
  <2>3. Period * Cardinality(Calling) <= Period * Cardinality(Paid)
    BY <2>2, PriceIsMonotone
  <2>4. Period * Cardinality(Calling) \in Int /\ Period * Cardinality(Paid) \in Int
    BY <2>2, PermitAssumption
  <2> QED BY <2>3, <2>4, PermitAssumption DEF EveryPermitIsPaid, CallsStayWithinRate, IInv,
                                             BucketOK, TokensAreEarned
<1> QED BY <1>1, <1>2, PaidStep, Invariance, PTL DEF Spec
=============================================================================
