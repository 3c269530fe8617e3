--------------------------- MODULE JobTimingProofs ---------------------------
(***************************************************************************)
(* Proofs about JobTiming, for any waits and any number of attempts.  What *)
(* a claim reports follows from the columns; the invariant says what they  *)
(* have to do with the moment the job was queued.                          *)
(***************************************************************************)
EXTENDS JobTiming, TLAPS

\* The backoff neither overflows nor exceeds its maximum, however many
\* attempts there were.
LEMMA CeilingIsBounded ==
    ASSUME NEW a \in Nat
    PROVE  Ceiling(a) \in 1 .. MaxWait
<1> DEFINE i == Min2(4, Max2(a - 1, 0)) + 1
<1>1. i \in 1 .. 5 BY DEF Min2, Max2
<1>2. PowersOfTwo[i] \in 1 .. 16 BY <1>1 DEF PowersOfTwo
<1> DEFINE p == PowersOfTwo[i]
<1> HIDE DEF i
<1>3. BaseWait * p \in Nat \ {0}
    <2>1. p \in {1, 2, 4, 8, 16} BY <1>1 DEF PowersOfTwo
    <2> HIDE DEF p
    <2> QED BY <2>1, TimingAssumption
<1> HIDE DEF p
<1>4. Min2(MaxWait, BaseWait * p) \in 1 .. MaxWait BY <1>3, TimingAssumption DEF Min2
<1> QED BY <1>4 DEF Ceiling, p, i

LEMMA JitterBounds ==
    ASSUME NEW a \in Nat, NEW w \in Jitter(a)
    PROVE  w \in Nat /\ w >= Ceiling(a) \div 2 /\ w < Ceiling(a)
<1>1. Ceiling(a) \in Nat BY CeilingIsBounded, TimingAssumption
<1> HIDE DEF Ceiling
<1> QED BY <1>1 DEF Jitter

\* The parts of a wait are not negative and add up, whatever the times are.
WaitIsSplit(q, start, due, end) ==
    /\ q \in Waits \cup {Null}
    /\ q = Null => start = Null \/ end < start
    /\ q # Null => /\ start \in Nat
                   /\ q.totalMs = end - start
                   /\ q.scheduledDelayMs + q.readyWaitMs = q.totalMs
                   /\ due <= start => q.scheduledDelayMs = 0
                   /\ due >= start => q.scheduledDelayMs <= due - start

LEMMA WaitParts ==
    ASSUME NEW start \in Nat \cup {Null}, NEW due \in Nat, NEW end \in Nat
    PROVE  WaitIsSplit(QueueWait(start, due, end), start, due, end)
<1>1. CASE start = Null \/ end < start BY <1>1, TimingAssumption DEF QueueWait, WaitIsSplit
<1>2. CASE ~(start = Null \/ end < start)
    <2> DEFINE eligible == Min2(end, Max2(start, due))
    <2>1. start \in Nat /\ start <= end BY <1>2
    <2>2. /\ eligible \in Nat /\ start <= eligible /\ eligible <= end
          /\ due <= start => eligible = start
          /\ due >= start => eligible <= due
        BY <2>1 DEF Min2, Max2
    <2>3. QueueWait(start, due, end) =
            [totalMs |-> end - start, scheduledDelayMs |-> eligible - start,
             readyWaitMs |-> end - eligible]
        BY <1>2 DEF QueueWait
    <2> HIDE DEF eligible
    <2>4. /\ QueueWait(start, due, end) \in Waits
          /\ QueueWait(start, due, end).totalMs = end - start
          /\ QueueWait(start, due, end).scheduledDelayMs = eligible - start
          /\ QueueWait(start, due, end).readyWaitMs = end - eligible
        BY <2>1, <2>2, <2>3 DEF Waits
    <2> QED BY <2>1, <2>2, <2>4, TimingAssumption DEF WaitIsSplit
<1> QED BY <1>1, <1>2
-----------------------------------------------------------------------------
\* The columns, and the moment the job entered the queue last.
Columns ==
    row.status \in {"queued", "running"} =>
        /\ row.queuedAt # Null => row.queuedAt \in {last.at, last.at + 1}
        /\ last.why = "failed" => row.runAfter - last.at \in Jitter(last.attempts)
        /\ last.why # "new" => row.queuedAt # Null
        /\ last.why # "failed" => row.runAfter <= last.at
        /\ last.why # "failed" /\ row.queuedAt # Null => row.runAfter <= row.queuedAt

QueuedInThePast ==
    row.status = "queued" /\ last.steady =>
        2 * last.at <= now /\ (row.queuedAt # Null => 2 * row.queuedAt <= now)

ClaimedAfter ==
    row.status = "running" =>
        /\ row.startedAt \in Times
        /\ wait = QueueWait(row.queuedAt, row.runAfter, row.startedAt)
        /\ last.steady => /\ row.runAfter <= row.startedAt
                          /\ row.queuedAt # Null => row.queuedAt <= row.startedAt

IInv == TimingTypeOK /\ Columns /\ QueuedInThePast /\ ClaimedAfter

LEMMA TimesAreNumbers == Times \subseteq Nat
BY TimingAssumption DEF Times

\* Rounding and truncating a time of the clock.
LEMMA Milliseconds ==
    ASSUME NEW t \in 0 .. MaxTime
    PROVE  /\ Trunc(t) \in Times /\ Round(t) \in Times
           /\ 2 * Trunc(t) <= t /\ t <= 2 * Round(t)
BY TimingAssumption DEF Trunc, Round, Times

\* A millisecond has two ticks.
LEMMA NextMillisecond ==
    ASSUME NEW t \in Nat, NEW u \in Nat, t <= u, u <= t + 1
    PROVE  Trunc(u) \in {Trunc(t), Trunc(t) + 1}
BY DEF Trunc

LEMMA InitIInv == TimingInit => IInv
<1> SUFFICES ASSUME TimingInit PROVE IInv OBVIOUS
<1>1. now \in 0 .. MaxTime BY DEF TimingInit
<1>2. PICK q \in {Null, Trunc(now)} : row = NewJob(q) BY DEF TimingInit
<1>3. /\ row.status = "queued" /\ row.attempts = 0 /\ row.queuedAt = q
      /\ row.runAfter = 0 /\ row.startedAt = Null
      /\ row \in [status: {"queued"}, attempts: {0}, queuedAt: {q}, runAfter: {0},
                  startedAt: {Null}]
    BY <1>2 DEF NewJob
<1>4. /\ last.why = "new" /\ last.at = Trunc(now) /\ wait = Null
      /\ last \in [why: {"new"}, steady: BOOLEAN, at: {Trunc(now)}, attempts: {0}]
    BY DEF TimingInit
<1>5. Trunc(now) \in Times /\ 2 * Trunc(now) <= now BY <1>1, Milliseconds
<1>6. TimingTypeOK BY <1>1, <1>3, <1>4, <1>5, TimingAssumption DEF TimingTypeOK
<1>7. Columns BY <1>3, <1>4, <1>5 DEF Columns, Times
<1>8. QueuedInThePast BY <1>3, <1>4, <1>5 DEF QueuedInThePast
<1>9. ClaimedAfter BY <1>3 DEF ClaimedAfter
<1> QED BY <1>6, <1>7, <1>8, <1>9 DEF IInv

\* A statement ends when it began or a little later.
LEMMA LaterTimes ==
    ASSUME now \in 0 .. MaxTime, NEW t \in Later
    PROVE  t \in 0 .. MaxTime /\ now <= t /\ t <= now + 1
BY TimingAssumption DEF Later

LEMMA ClaimStep == IInv /\ ClaimNextJob => IInv'
<1> SUFFICES ASSUME IInv, ClaimNextJob PROVE IInv' OBVIOUS
<1>1. /\ now \in 0 .. MaxTime /\ now' \in Later
      /\ row \in [status: {"queued", "running", "completed", "dead_letter"},
                  attempts: 0 .. MaxAttempts, queuedAt: Times \cup {Null},
                  runAfter: Nat, startedAt: Times \cup {Null}]
    BY DEF IInv, TimingTypeOK, ClaimNextJob
<1>2. now' \in 0 .. MaxTime /\ now <= now' BY <1>1, LaterTimes
<1>3. /\ Round(now') \in Times /\ now' <= 2 * Round(now') BY <1>2, Milliseconds
<1>4. /\ row'.status = "running" /\ row'.attempts = row.attempts + 1
      /\ row'.queuedAt = row.queuedAt /\ row'.runAfter = row.runAfter
      /\ row'.startedAt = Round(now')
      /\ row' \in [status: {"running"}, attempts: {row.attempts + 1},
                   queuedAt: Times \cup {Null}, runAfter: Nat, startedAt: Times]
    BY <1>1, <1>3 DEF ClaimNextJob
<1>5. /\ last' = last /\ row.attempts + 1 \in 0 .. MaxAttempts /\ row.status = "queued"
      /\ 2 * row.runAfter <= now
      /\ wait' = QueueWait(row'.queuedAt, row'.runAfter, row'.startedAt)
    BY <1>1, <1>4, TimingAssumption DEF ClaimNextJob, Due
<1>6. row.queuedAt \in Nat \cup {Null} /\ row.runAfter \in Nat /\ Round(now') \in Nat
    BY <1>1, <1>3 DEF Times
<1>7. wait' \in Waits \cup {Null} BY <1>4, <1>5, <1>6, WaitParts DEF WaitIsSplit
<1>8. TimingTypeOK' BY <1>2, <1>4, <1>5, <1>7 DEF IInv, TimingTypeOK
<1>9. Columns' BY <1>4, <1>5 DEF IInv, Columns
<1>10. QueuedInThePast' BY <1>4 DEF QueuedInThePast
<1>11. ClaimedAfter'
    <2>1. row.runAfter <= Round(now') BY <1>1, <1>2, <1>3, <1>5 DEF Times
    <2>2. last.steady /\ row.queuedAt # Null => row.queuedAt <= Round(now')
        BY <1>1, <1>2, <1>3, <1>5 DEF IInv, QueuedInThePast, Times
    <2> QED BY <1>3, <1>4, <1>5, <2>1, <2>2 DEF ClaimedAfter
<1> QED BY <1>8, <1>9, <1>10, <1>11 DEF IInv

LEMMA FailStep == IInv /\ FailOrReap => IInv'
<1> SUFFICES ASSUME IInv, FailOrReap PROVE IInv' OBVIOUS
<1>1. /\ now \in 0 .. MaxTime /\ now' \in Later
      /\ row \in [status: {"queued", "running", "completed", "dead_letter"},
                  attempts: 0 .. MaxAttempts, queuedAt: Times \cup {Null},
                  runAfter: Nat, startedAt: Times \cup {Null}]
    BY DEF IInv, TimingTypeOK, FailOrReap
<1>2. now' \in 0 .. MaxTime /\ now <= now' /\ now' <= now + 1 BY <1>1, LaterTimes
<1>3. Trunc(now) \in Times /\ 2 * Trunc(now) <= now BY <1>1, Milliseconds
<1>4. Trunc(now') \in Times /\ 2 * Trunc(now') <= now' BY <1>2, Milliseconds
<1>5. Trunc(now') \in {Trunc(now), Trunc(now) + 1} BY <1>1, <1>2, NextMillisecond
<1> DEFINE m == Trunc(now)
           n == Trunc(now')
<1>6. m \in Nat /\ n \in Nat /\ m \in Times /\ n \in Times BY <1>3, <1>4, TimesAreNumbers
<1>7. ASSUME NEW w \in Jitter(row.attempts),
             row' = [row EXCEPT !.status = "queued", !.runAfter = m + w, !.queuedAt = n],
             last' = [why |-> "failed", steady |-> TRUE, at |-> m, attempts |-> row.attempts],
             wait' = wait
      PROVE  IInv'
    <2> HIDE DEF m, n
    <2>1. w \in Nat BY <1>1, JitterBounds
    <2>2. m + w \in Nat BY <1>6, <2>1
    <2>3. /\ row'.status = "queued" /\ row'.queuedAt = n /\ row'.runAfter = m + w
          /\ row' \in [status: {"queued"}, attempts: 0 .. MaxAttempts, queuedAt: Times,
                       runAfter: Nat, startedAt: Times \cup {Null}]
        BY <1>1, <1>6, <1>7, <2>2
    <2>4. /\ last'.why = "failed" /\ last'.at = m /\ last'.attempts = row.attempts
          /\ last' \in [why: {"failed"}, steady: {TRUE}, at: Times, attempts: 0 .. MaxAttempts]
        BY <1>1, <1>6, <1>7
    <2>5. TimingTypeOK' BY <1>2, <1>7, <2>3, <2>4 DEF IInv, TimingTypeOK
    <2>6. Columns'
        <3>1. row'.runAfter - last'.at = w BY <1>6, <2>1, <2>3, <2>4
        <3>2. row'.queuedAt # Null BY <1>6, <2>3, TimingAssumption
        <3>3. row'.queuedAt \in {last'.at, last'.at + 1} BY <1>5, <2>3, <2>4 DEF m, n
        <3> QED BY <1>7, <2>3, <2>4, <3>1, <3>2, <3>3 DEF Columns
    <2>7. QueuedInThePast'
        <3>1. 2 * m <= now' /\ 2 * n <= now'
            BY <1>1, <1>2, <1>3, <1>4, <1>6 DEF m, n
        <3> QED BY <2>3, <2>4, <3>1 DEF QueuedInThePast
    <2>8. ClaimedAfter' BY <2>3 DEF ClaimedAfter
    <2> QED BY <2>5, <2>6, <2>7, <2>8 DEF IInv
<1>8. ASSUME row' = [row EXCEPT !.status = "dead_letter", !.runAfter = m],
             last' = last, wait' = wait
      PROVE  IInv'
    <2> HIDE DEF m, n
    <2>1. /\ row'.status = "dead_letter"
          /\ row' \in [status: {"dead_letter"}, attempts: 0 .. MaxAttempts,
                       queuedAt: Times \cup {Null}, runAfter: Nat,
                       startedAt: Times \cup {Null}]
        BY <1>1, <1>6, <1>8
    <2>2. TimingTypeOK' BY <1>2, <1>8, <2>1 DEF IInv, TimingTypeOK
    <2> QED BY <2>1, <2>2 DEF IInv, Columns, QueuedInThePast, ClaimedAfter
<1> QED BY <1>7, <1>8 DEF FailOrReap

LEMMA RetryStep == IInv /\ RetryJob => IInv'
<1> SUFFICES ASSUME IInv, RetryJob PROVE IInv' OBVIOUS
<1>1. now \in 0 .. MaxTime /\ now' \in Later BY DEF IInv, TimingTypeOK, RetryJob
<1>2. now' \in 0 .. MaxTime /\ now <= now' /\ now' <= now + 1 BY <1>1, LaterTimes
<1>3. Trunc(now) \in Times /\ 2 * Trunc(now) <= now BY <1>1, Milliseconds
<1>4. Trunc(now') \in Times /\ 2 * Trunc(now') <= now' BY <1>2, Milliseconds
<1>5. Trunc(now') \in {Trunc(now), Trunc(now) + 1} BY <1>1, <1>2, NextMillisecond
<1>6. /\ row' = [NewJob(Trunc(now')) EXCEPT !.runAfter = Trunc(now)] /\ wait' = wait
      /\ last' = [why |-> "retried", steady |-> TRUE, at |-> Trunc(now), attempts |-> 0]
    BY DEF RetryJob
<1>7. /\ row'.status = "queued" /\ row'.queuedAt = Trunc(now') /\ row'.runAfter = Trunc(now)
      /\ row' \in [status: {"queued"}, attempts: {0}, queuedAt: Times, runAfter: Times,
                   startedAt: {Null}]
    BY <1>3, <1>4, <1>6 DEF NewJob
<1>8. TimingTypeOK' BY <1>2, <1>3, <1>6, <1>7, TimingAssumption DEF IInv, TimingTypeOK, Times
<1>9. Columns'
    <2>1. row'.queuedAt # Null BY <1>4, <1>7, TimingAssumption DEF Times
    <2> QED BY <2>1, <1>3, <1>5, <1>6, <1>7 DEF Columns, Times
<1>10. QueuedInThePast' BY <1>1, <1>2, <1>3, <1>4, <1>6, <1>7 DEF QueuedInThePast, Times
<1>11. ClaimedAfter' BY <1>7 DEF ClaimedAfter
<1> QED BY <1>8, <1>9, <1>10, <1>11 DEF IInv

LEMMA NextIInv == IInv /\ [TimingNext]_timing => IInv'
<1> SUFFICES ASSUME IInv, [TimingNext]_timing PROVE IInv' OBVIOUS
<1>1. CASE ClaimNextJob BY <1>1, ClaimStep
<1>2. CASE FailOrReap BY <1>2, FailStep
<1>3. CASE CompleteJob
    <2>1. /\ UNCHANGED <<now, wait, last>> /\ row' = [row EXCEPT !.status = "completed"]
          /\ row'.status = "completed"
        BY <1>3 DEF CompleteJob, IInv, TimingTypeOK
    <2>2. row' \in [status: {"completed"}, attempts: 0 .. MaxAttempts,
                   queuedAt: Times \cup {Null}, runAfter: Nat, startedAt: Times \cup {Null}]
        BY <2>1 DEF IInv, TimingTypeOK
    <2>3. TimingTypeOK' BY <2>1, <2>2 DEF IInv, TimingTypeOK
    <2> QED BY <2>1, <2>3 DEF IInv, Columns, QueuedInThePast, ClaimedAfter
<1>4. CASE RetryJob BY <1>4, RetryStep
<1>5. CASE Tick
    <2>1. now' = now + 1 /\ now < MaxTime /\ UNCHANGED <<row, wait, last>>
        BY <1>5 DEF Tick
    <2>2. now' \in 0 .. MaxTime BY <2>1, TimingAssumption DEF IInv, TimingTypeOK
    <2>5. TimingTypeOK' BY <2>1, <2>2 DEF IInv, TimingTypeOK
    <2>3. now \in Nat /\ last.at \in Nat /\ (row.queuedAt # Null => row.queuedAt \in Nat)
        BY DEF IInv, TimingTypeOK, Times
    <2>4. QueuedInThePast' BY <2>1, <2>3 DEF IInv, QueuedInThePast
    <2> QED BY <2>1, <2>4, <2>5 DEF IInv, Columns, ClaimedAfter
<1>6. CASE SetBack
    <2>1. /\ now' \in 0 .. now - 1 /\ UNCHANGED <<row, wait>>
          /\ last' = [last EXCEPT !.steady = FALSE]
        BY <1>6 DEF SetBack
    <2>2. /\ last'.steady = FALSE /\ last'.why = last.why /\ last'.at = last.at
          /\ last'.attempts = last.attempts
        BY <2>1 DEF IInv, TimingTypeOK
    <2>3. now' \in 0 .. MaxTime BY <2>1, TimingAssumption DEF IInv, TimingTypeOK
    <2>4. last' \in [why: {"new", "failed", "retried"}, steady: BOOLEAN, at: Times,
                    attempts: 0 .. MaxAttempts]
        BY <2>1 DEF IInv, TimingTypeOK
    <2>5. TimingTypeOK' BY <2>1, <2>3, <2>4 DEF IInv, TimingTypeOK
    <2> QED BY <2>1, <2>2, <2>5 DEF IInv, Columns, QueuedInThePast, ClaimedAfter
<1>7. CASE UNCHANGED timing
    BY <1>7 DEF timing, IInv, TimingTypeOK, Columns, QueuedInThePast, ClaimedAfter
<1> QED BY <1>1, <1>2, <1>3, <1>4, <1>5, <1>6, <1>7 DEF TimingNext

THEOREM Invariance == TimingSpec => []IInv
<1> QED BY InitIInv, NextIInv, PTL DEF TimingSpec

-----------------------------------------------------------------------------
\* What the parts of a claimed job say of its wait.
LEMMA ClaimedWait ==
    ASSUME IInv, row.status = "running"
    PROVE  /\ wait = Null => row.queuedAt = Null \/ row.startedAt < row.queuedAt
           /\ wait # Null => /\ row.queuedAt \in Nat
                             /\ wait.totalMs = row.startedAt - row.queuedAt
                             /\ wait.scheduledDelayMs + wait.readyWaitMs = wait.totalMs
                             /\ row.runAfter <= row.queuedAt => wait.scheduledDelayMs = 0
                             /\ row.runAfter >= row.queuedAt
                                => wait.scheduledDelayMs <= row.runAfter - row.queuedAt
           /\ row.startedAt \in Nat /\ last.at \in Nat /\ row.runAfter \in Nat
<1>1. row.startedAt \in Nat /\ wait = QueueWait(row.queuedAt, row.runAfter, row.startedAt)
    BY DEF IInv, ClaimedAfter, Times
<1>2. row.queuedAt \in Nat \cup {Null} /\ row.runAfter \in Nat /\ last.at \in Nat
    BY DEF IInv, TimingTypeOK, Times
<1>3. WaitIsSplit(wait, row.queuedAt, row.runAfter, row.startedAt)
    BY <1>1, <1>2, WaitParts
<1> QED BY <1>1, <1>2, <1>3 DEF WaitIsSplit

\* Every reachable state is well typed: no reported delay is negative.
THEOREM TypeCorrect == TimingSpec => []TimingTypeOK
<1>1. IInv => TimingTypeOK BY DEF IInv
<1> QED BY <1>1, Invariance, PTL

\* A reported wait begins at the last queue entry, and its parts add up.
THEOREM WaitsAddUp == TimingSpec => []WaitAddsUp
<1>1. IInv => WaitAddsUp
    <2> SUFFICES ASSUME IInv, row.status = "running"
                 PROVE  /\ wait # Null =>
                            /\ row.startedAt - wait.totalMs \in {last.at, last.at + 1}
                            /\ wait.scheduledDelayMs + wait.readyWaitMs = wait.totalMs
                        /\ wait = Null => row.queuedAt = Null \/ ~last.steady
        BY DEF WaitAddsUp
    <2>1. CASE wait # Null
        <3>1. row.queuedAt \in {last.at, last.at + 1}
            BY <2>1, ClaimedWait, TimingAssumption DEF IInv, Columns
        <3> QED BY <2>1, <3>1, ClaimedWait
    <2>2. CASE wait = Null
        <3>1. ASSUME row.queuedAt # Null, last.steady PROVE FALSE
            <4>1. row.queuedAt \in Nat BY <3>1 DEF IInv, TimingTypeOK, Times
            <4> QED BY <2>2, <3>1, <4>1, ClaimedWait DEF IInv, ClaimedAfter
        <3> QED BY <2>2, <3>1 DEF IInv, TimingTypeOK
    <2> QED BY <2>1, <2>2
<1> QED BY <1>1, Invariance, PTL

\* Automatic retries are held back, for at least half of the ceiling and for
\* less than all of it.
THEOREM RetriesAreHeldBack == TimingSpec => []RetriesBackOff
<1>1. IInv => RetriesBackOff
    <2> SUFFICES ASSUME IInv, row.status = "running", last.why = "failed", last.steady
                 PROVE  /\ row.startedAt >= last.at + Ceiling(last.attempts) \div 2
                        /\ wait # Null /\ wait.scheduledDelayMs < Ceiling(last.attempts)
        BY DEF RetriesBackOff
    <2> DEFINE w == row.runAfter - last.at
    <2>1. last.attempts \in Nat BY DEF IInv, TimingTypeOK
    <2>2. w \in Jitter(last.attempts) BY DEF IInv, Columns
    <2>3. Ceiling(last.attempts) \in Nat /\ Ceiling(last.attempts) >= 1
        BY <2>1, CeilingIsBounded, TimingAssumption
    <2>4. w >= Ceiling(last.attempts) \div 2 /\ w < Ceiling(last.attempts)
        BY <2>1, <2>2, JitterBounds
    <2> HIDE DEF Ceiling
    <2>5. row.runAfter <= row.startedAt BY DEF IInv, ClaimedAfter
    <2>6. Ceiling(last.attempts) \div 2 \in Nat BY <2>3
    <2>7. row.startedAt >= last.at + Ceiling(last.attempts) \div 2
        BY <2>4, <2>5, <2>6, ClaimedWait
    <2>8. row.queuedAt # Null /\ row.queuedAt \in {last.at, last.at + 1}
        BY DEF IInv, Columns
    <2>9. row.queuedAt \in Nat /\ row.queuedAt <= row.startedAt
        BY <2>8 DEF IInv, ClaimedAfter, TimingTypeOK, Times
    <2>10. wait # Null BY <2>8, <2>9, ClaimedWait
    <2>11. wait.scheduledDelayMs < Ceiling(last.attempts)
        <3>1. row.runAfter - row.queuedAt <= w BY <2>8, ClaimedWait
        <3>2. CASE row.runAfter <= row.queuedAt BY <3>2, <2>3, <2>10, ClaimedWait
        <3>3. CASE row.runAfter >= row.queuedAt
            <4>1. wait.scheduledDelayMs <= row.runAfter - row.queuedAt
                BY <3>3, <2>10, ClaimedWait
            <4>2. wait.scheduledDelayMs \in Nat BY <2>10 DEF IInv, TimingTypeOK, Waits
            <4>3. w \in Int BY ClaimedWait
            <4> HIDE DEF w
            <4> QED BY <4>1, <4>2, <4>3, <3>1, <2>3, <2>4, <2>9, ClaimedWait
        <3> QED BY <3>2, <3>3, <2>9, ClaimedWait
    <2> QED BY <2>7, <2>10, <2>11
<1> QED BY <1>1, Invariance, PTL

\* A new job and a retried dead letter are due when they are queued.
THEOREM FreshJobsAreFound == TimingSpec => []FreshJobsAreDue
<1>1. IInv => FreshJobsAreDue
    <2> SUFFICES ASSUME IInv, last.why # "failed", last.steady
                 PROVE  /\ row.status = "queued" => Due(row.runAfter, now)
                        /\ row.status = "running" /\ wait # Null
                            => wait.scheduledDelayMs = 0
        BY DEF FreshJobsAreDue
    <2>1. ASSUME row.status = "queued" PROVE Due(row.runAfter, now)
        <3>1. row.runAfter <= last.at /\ 2 * last.at <= now
            BY <2>1 DEF IInv, Columns, QueuedInThePast
        <3>2. row.runAfter \in Nat /\ last.at \in Nat /\ now \in Nat
            BY DEF IInv, TimingTypeOK, Times
        <3> QED BY <3>1, <3>2 DEF Due
    <2>2. ASSUME row.status = "running", wait # Null PROVE wait.scheduledDelayMs = 0
        <3>1. row.queuedAt \in Nat /\ row.queuedAt # Null
            BY <2>2, ClaimedWait, TimingAssumption
        <3>2. row.runAfter <= row.queuedAt BY <2>2, <3>1 DEF IInv, Columns
        <3> QED BY <2>2, <3>2, ClaimedWait
    <2> QED BY <2>1, <2>2
<1> QED BY <1>1, Invariance, PTL

\* Failed attempts are held back as the backoff says, and nothing else is.
THEOREM RunAfterStaysRight == TimingSpec => []RunAfterIsRight
BY RetriesAreHeldBack, FreshJobsAreFound, PTL DEF RunAfterIsRight
=============================================================================
