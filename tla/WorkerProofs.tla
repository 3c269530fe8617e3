---------------------------- MODULE WorkerProofs ----------------------------
(***************************************************************************)
(* The safety properties of a worker process, for any number of slots,     *)
(* jobs, attempts and pipeline steps.                                      *)
(*                                                                         *)
(* OutcomeIsTruthful relates what an attempt records to what the database  *)
(* did, maybe long before, to its claim.  It rests on three facts: a       *)
(* settled claim never changes; no two slots hold the same claim; and a    *)
(* claim is completed by nobody but the attempt that holds it, which then  *)
(* knows it, or is about to, or got an error for an answer.                *)
(***************************************************************************)
EXTENDS Worker, TLAPS

SlotType ==
    [pc: {"top", "claiming", "pipeline", "completing", "preRelease", "releasing",
          "draining", "ended"},
     job: Jobs \cup {NoSlot}, token: Nat, step: 0 .. LastStep,
     hb: {"off", "sleeping", "renewing"}, lost: {"no", "yes"},
     reply: Replies \cup {"none"}, ack: {"kept", "doubtful"},
     outcome: Replies \cup {"none"}]

CleanupType ==
    [stage: {"none", "draining", "releasing", "done"}, reply: Replies \cup {"none"}]

JobType ==
    [status: {"queued", "running", "completed", "dead_letter"}, attempts: 0 .. MaxAttempts,
     token: Nat, by: {"nobody", "us", "other"}, lease: {"null", "live", "expired"}]

Endings == {"open", "completed", "retried", "dead_letter", "reaped"}

TableType == job \in [Jobs -> JobType] /\ ending \in [Jobs -> Seq(Endings)]

ProcessType ==
    /\ mode \in {"running", "stopping", "abandoning", "exited", "failed"}
    /\ active \in [Jobs -> Slots \cup {NoSlot}]
    /\ slot \in [Slots -> SlotType]
    /\ cleanup \in [Slots -> CleanupType]
    /\ due \in [Slots -> 0 .. LastStep + 1]

\* A lease is on the newest open claim of its job, and names its holder.
JobInv(j) ==
    /\ job[j].lease # "null" => /\ job[j].token \in 1 .. Len(ending[j])
                                /\ ending[j][job[j].token] = "open"
    /\ job[j].lease = "null" => job[j].by = "nobody"

Settling == {"completed", "retried", "dead_letter"}

\* An attempt has a claim of its own, and knows of its end what it was told.
SlotInv(s) ==
    /\ slot[s].token # 0 => /\ slot[s].job \in Jobs
                            /\ slot[s].token <= Len(ending[slot[s].job])
                            /\ job[slot[s].job].by = "other" => job[slot[s].job].token # slot[s].token
    /\ InAttempt(s) \/ slot[s].hb # "off" \/ slot[s].outcome # "none" => slot[s].token # 0
    /\ slot[s].reply # "none" => slot[s].pc \in {"completing", "releasing"}
    /\ slot[s].reply \in Settling => Ended(s) = slot[s].reply
    /\ slot[s].outcome \in Settling => Ended(s) = slot[s].outcome
    /\ slot[s].pc \in {"claiming", "pipeline", "completing", "preRelease", "releasing"}
            /\ cleanup[s].stage # "done"
        => slot[s].outcome = "none"

\* An accepted completion is known, about to be known, or was hidden by an error.
CompletionKnown(s) ==
    slot[s].token # 0 /\ Ended(s) = "completed" =>
        \/ slot[s].ack = "doubtful"
        \/ slot[s].pc = "completing" /\ slot[s].reply = "completed"
        \/ slot[s].outcome = "completed"

\* The shutdown task of an attempt.
CleanupInv(s) ==
    /\ cleanup[s].stage # "none" => /\ mode \in {"abandoning", "exited", "failed"}
                                    /\ slot[s].token # 0 /\ slot[s].pc # "claiming"
    /\ cleanup[s].stage = "releasing" =>
            slot[s].hb # "renewing" /\ slot[s].pc \notin {"completing", "releasing"}
    /\ cleanup[s].stage = "done" => slot[s].pc # "completing"
    /\ cleanup[s].reply # "none" => cleanup[s].stage = "releasing"
    /\ cleanup[s].reply \in Settling => Ended(s) = cleanup[s].reply

\* No two slots hold the same claim.
ClaimsAreDistinct ==
    \A s, t \in Slots : s # t /\ slot[s].token # 0 /\ slot[s].job = slot[t].job =>
        slot[s].token # slot[t].token

\* What is registered for a job is an attempt on it.
ActiveInv ==
    \A j \in Jobs : active[j] # NoSlot => slot[active[j]].job = j /\ InAttempt(active[j])

IInv ==
    /\ TableType /\ ProcessType
    /\ \A j \in Jobs : JobInv(j)
    /\ \A s \in Slots : SlotInv(s) /\ CompletionKnown(s) /\ CleanupInv(s)
    /\ ClaimsAreDistinct /\ ActiveInv

-----------------------------------------------------------------------------
\* The jobs table.

\* What a step of the table leaves true for an attempt that takes no part in it.
SeenBy(t) ==
    LET j == slot[t].job
        k == slot[t].token IN
    k # 0 => /\ k <= Len(ending'[j])
             /\ job'[j].by = "other" => job'[j].token # k
             /\ \/ ending'[j][k] = ending[j][k]
                \/ ending[j][k] = "open" /\ ending'[j][k] # "completed"

TableKept == TableType' /\ (\A j \in Jobs : JobInv(j)')

\* A claim that is in the table is a position of the sequence of its job.
LEMMA HeldClaim ==
    ASSUME IInv, NEW t \in Slots, slot[t].token # 0
    PROVE  /\ slot[t].job \in Jobs /\ ending[slot[t].job] \in Seq(Endings)
           /\ slot[t].token \in 1 .. Len(ending[slot[t].job])
           /\ Ended(t) \in Endings
<1>1. slot[t] \in SlotType /\ SlotInv(t) BY DEF IInv, ProcessType
<1>2. slot[t].token \in Nat BY <1>1 DEF SlotType
<1>3. slot[t].job \in Jobs /\ slot[t].token <= Len(ending[slot[t].job]) BY <1>1 DEF SlotInv
<1>4. ending[slot[t].job] \in Seq(Endings) BY <1>3 DEF IInv, TableType
<1> QED BY <1>2, <1>3, <1>4 DEF Ended

\* The table is not touched.
LEMMA StillTable ==
    ASSUME IInv, UNCHANGED store
    PROVE  TableKept /\ \A t \in Slots : SeenBy(t)
<1>1. job' = job /\ ending' = ending BY DEF store
<1>2. TableKept BY <1>1 DEF IInv, TableKept, TableType, JobInv
<1> QED BY <1>1, <1>2 DEF IInv, SeenBy, SlotInv

\* A lease is renewed or runs out.
LEMMA LeaseChange ==
    ASSUME IInv, NEW j \in Jobs, NEW l \in {"live", "expired"}, job[j].lease # "null",
           job' = [job EXCEPT ![j].lease = l], ending' = ending
    PROVE  TableKept /\ \A t \in Slots : SeenBy(t)
<1>1. job \in [Jobs -> JobType] BY DEF IInv, TableType
<1>2. job' \in [Jobs -> JobType] BY <1>1 DEF JobType
<1>3. \A i \in Jobs : /\ job'[i].token = job[i].token /\ job'[i].by = job[i].by
                      /\ job'[i].lease = IF i = j THEN l ELSE job[i].lease
    BY <1>1 DEF JobType
<1>4. TableType' BY <1>2 DEF IInv, TableType
<1>5. \A i \in Jobs : JobInv(i)' BY <1>3 DEF IInv, JobInv
<1>6. \A t \in Slots : SeenBy(t) BY <1>3 DEF IInv, SlotInv, SeenBy
<1> QED BY <1>4, <1>5, <1>6 DEF TableKept

\* A job is claimed.
LEMMA ClaimChange ==
    ASSUME IInv, NEW j \in Jobs, NEW who \in {"us", "other"}, Claimable(j), Claim(j, who)
    PROVE  /\ TableKept /\ \A t \in Slots : SeenBy(t)
           /\ Len(ending[j]) \in Nat /\ Len(ending'[j]) = Len(ending[j]) + 1
           /\ ending'[j][Len(ending[j]) + 1] = "open" /\ job'[j].by = who
<1> DEFINE n == Len(ending[j])
<1>1. /\ job \in [Jobs -> JobType] /\ ending \in [Jobs -> Seq(Endings)] /\ ending[j] \in Seq(Endings)
      /\ job[j] \in JobType
    BY DEF IInv, TableType
<1>2. n \in Nat BY <1>1
<1>3. job[j].attempts + 1 \in 0 .. MaxAttempts
    BY <1>1, StepsAssumption DEF Claimable, JobType
<1>4. job'[j] = [status |-> "running", attempts |-> job[j].attempts + 1,
                 token |-> n + 1, by |-> who, lease |-> "live"]
    BY <1>1 DEF Claim
<1>5. job'[j] \in JobType BY <1>2, <1>3, <1>4 DEF JobType
<1>6. \A i \in Jobs : i # j => job'[i] = job[i] /\ ending'[i] = ending[i] BY <1>1 DEF Claim
<1>7. ending'[j] = Append(ending[j], "open") BY <1>1 DEF Claim
<1>8. /\ ending'[j] \in Seq(Endings) /\ Len(ending'[j]) = n + 1 /\ ending'[j][n + 1] = "open"
      /\ \A k \in 1 .. n : ending'[j][k] = ending[j][k]
    BY <1>1, <1>7 DEF Endings
<1>9. TableType'
    <2>1. job' \in [Jobs -> JobType]
        <3>1. job' = [i \in Jobs |-> IF i = j THEN job'[j] ELSE job[i]] BY <1>1 DEF Claim
        <3> QED BY <3>1, <1>1, <1>5
    <2>2. ending' \in [Jobs -> Seq(Endings)]
        <3>1. ending' = [i \in Jobs |-> IF i = j THEN ending'[j] ELSE ending[i]] BY <1>1 DEF Claim
        <3> QED BY <3>1, <1>1, <1>8
    <2> QED BY <2>1, <2>2 DEF TableType
<1>10. \A i \in Jobs : JobInv(i)'
    <2>1. JobInv(j)' BY <1>2, <1>4, <1>8 DEF JobInv
    <2>2. ASSUME NEW i \in Jobs, i # j PROVE JobInv(i)' BY <2>2, <1>6 DEF IInv, JobInv
    <2> QED BY <2>1, <2>2
<1>11. ASSUME NEW t \in Slots PROVE SeenBy(t)
    <2> SUFFICES ASSUME slot[t].token # 0 PROVE SeenBy(t) BY DEF SeenBy
    <2>1. slot[t].job \in Jobs /\ slot[t].token \in 1 .. Len(ending[slot[t].job]) BY HeldClaim
    <2>2. CASE slot[t].job # j BY <2>1, <2>2, <1>6 DEF IInv, SlotInv, SeenBy
    <2>3. CASE slot[t].job = j
        <3>1. slot[t].token \in 1 .. n /\ slot[t].token # n + 1 BY <2>1, <2>3, <1>2
        <3> QED BY <2>3, <3>1, <1>2, <1>4, <1>8 DEF SeenBy
    <2> QED BY <2>2, <2>3
<1> QED BY <1>2, <1>4, <1>8, <1>9, <1>10, <1>11 DEF TableKept

\* A claim comes to its end.
LEMMA EndChange ==
    ASSUME IInv, NEW j \in Jobs, NEW st \in {"queued", "completed", "dead_letter"},
           NEW e \in Endings, job[j].lease # "null", End(j, st, e)
    PROVE  /\ TableKept
           /\ ending'[j][job[j].token] = e
           /\ \A t \in Slots :
                (e # "completed" \/ slot[t].job # j \/ slot[t].token # job[j].token) => SeenBy(t)
           /\ \A t \in Slots : slot[t].token # 0 =>
                    slot[t].token <= Len(ending'[slot[t].job])
                    /\ (job'[slot[t].job].by = "other" => job'[slot[t].job].token # slot[t].token)
<1> DEFINE k0 == job[j].token
<1>1. /\ job \in [Jobs -> JobType] /\ ending \in [Jobs -> Seq(Endings)] /\ ending[j] \in Seq(Endings)
      /\ job[j] \in JobType
    BY DEF IInv, TableType
<1>2. k0 \in 1 .. Len(ending[j]) /\ ending[j][k0] = "open" BY DEF IInv, JobInv
<1>3. /\ job'[j].by = "nobody" /\ job'[j].lease = "null" /\ job'[j] \in JobType
    <2>1. job'[j] = [job[j] EXCEPT !.status = st, !.token = 0, !.by = "nobody", !.lease = "null"]
        BY <1>1 DEF End
    <2>2. job'[j] = [status |-> st, attempts |-> job[j].attempts, token |-> 0,
                     by |-> "nobody", lease |-> "null"]
        BY <1>1, <2>1 DEF JobType
    <2>3. job[j].attempts \in 0 .. MaxAttempts BY <1>1 DEF JobType
    <2> QED BY <2>2, <2>3 DEF JobType
<1>4. \A i \in Jobs : i # j => job'[i] = job[i] /\ ending'[i] = ending[i] BY <1>1 DEF End
<1>5. ending'[j] = [ending[j] EXCEPT ![k0] = e] BY <1>1 DEF End
<1>6. /\ ending'[j] \in Seq(Endings) /\ Len(ending'[j]) = Len(ending[j]) /\ ending'[j][k0] = e
      /\ \A k \in 1 .. Len(ending[j]) : k # k0 => ending'[j][k] = ending[j][k]
    BY <1>1, <1>2, <1>5
<1>7. TableType'
    <2>1. job' \in [Jobs -> JobType]
        <3>1. job' = [i \in Jobs |-> IF i = j THEN job'[j] ELSE job[i]] BY <1>1 DEF End
        <3> QED BY <3>1, <1>1, <1>3
    <2>2. ending' \in [Jobs -> Seq(Endings)]
        <3>1. ending' = [i \in Jobs |-> IF i = j THEN ending'[j] ELSE ending[i]] BY <1>1 DEF End
        <3> QED BY <3>1, <1>1, <1>6
    <2> QED BY <2>1, <2>2 DEF TableType
<1>8. \A i \in Jobs : JobInv(i)'
    <2>1. JobInv(j)' BY <1>3 DEF JobInv
    <2>2. ASSUME NEW i \in Jobs, i # j PROVE JobInv(i)' BY <2>2, <1>4 DEF IInv, JobInv
    <2> QED BY <2>1, <2>2
<1>9. ASSUME NEW t \in Slots, slot[t].token # 0
      PROVE  /\ slot[t].token <= Len(ending'[slot[t].job])
             /\ job'[slot[t].job].by = "other" => job'[slot[t].job].token # slot[t].token
             /\ (e # "completed" \/ slot[t].job # j \/ slot[t].token # k0) => SeenBy(t)
    <2>1. slot[t].job \in Jobs /\ slot[t].token \in 1 .. Len(ending[slot[t].job]) BY <1>9, HeldClaim
    <2>2. CASE slot[t].job # j BY <1>9, <2>1, <2>2, <1>4 DEF IInv, SlotInv, SeenBy
    <2>3. CASE slot[t].job = j BY <2>1, <2>3, <1>2, <1>3, <1>6 DEF SeenBy
    <2> QED BY <2>2, <2>3
<1> QED BY <1>6, <1>7, <1>8, <1>9 DEF TableKept, SeenBy
-----------------------------------------------------------------------------
\* From the slot that acts to all of them.

Local(t) == SlotInv(t) /\ CompletionKnown(t) /\ CleanupInv(t)

Out == {"abandoning", "exited", "failed"}

\* An attempt that is not concerned.
LEMMA Bystander ==
    ASSUME IInv, NEW t \in Slots, slot'[t] = slot[t], cleanup'[t] = cleanup[t],
           SeenBy(t), mode \in Out => mode' \in Out
    PROVE  Local(t)'
<1>1. SlotInv(t) /\ CompletionKnown(t) /\ CleanupInv(t) BY DEF IInv
<1>2. CASE slot[t].token = 0
    BY <1>1, <1>2 DEF Local, SlotInv, CompletionKnown, CleanupInv, InAttempt, Settling, Out
<1>3. CASE slot[t].token # 0
    <2>1. /\ slot[t].token <= Len(ending'[slot[t].job])
          /\ job'[slot[t].job].by = "other" => job'[slot[t].job].token # slot[t].token
          /\ Ended(t)' = Ended(t) \/ (Ended(t) = "open" /\ Ended(t)' # "completed")
        BY <1>3 DEF SeenBy, Ended
    <2>2. SlotInv(t)' BY <1>1, <1>3, <2>1 DEF SlotInv, InAttempt, Settling
    <2>3. CompletionKnown(t)' BY <1>1, <1>3, <2>1 DEF CompletionKnown
    <2>4. CleanupInv(t)' BY <1>1, <1>3, <2>1 DEF CleanupInv, Settling, Out
    <2> QED BY <2>2, <2>3, <2>4 DEF Local
<1> QED BY <1>2, <1>3

\* One slot moves.  If it holds a claim afterwards, it is the one it held or a
\* new one.
LEMMA OneMoves ==
    ASSUME IInv, NEW s \in Slots,
           slot' \in [Slots -> SlotType], cleanup' \in [Slots -> CleanupType],
           \A t \in Slots : t # s => slot'[t] = slot[t] /\ cleanup'[t] = cleanup[t],
           UNCHANGED <<mode, due>>,
           TableKept, \A t \in Slots : t # s => SeenBy(t),
           Local(s)',
           slot'[s].token # 0 =>
               \/ slot'[s].token = slot[s].token /\ slot'[s].job = slot[s].job
               \/ slot'[s].job \in Jobs /\ slot'[s].token = Len(ending[slot'[s].job]) + 1,
           active' \in [Jobs -> Slots \cup {NoSlot}],
           \A j \in Jobs : active'[j] # NoSlot =>
               /\ active'[j] \in {active[j], s}
               /\ active'[j] = s => slot'[s].job = j /\ InAttempt(s)'
    PROVE  IInv'
<1>1. \A t \in Slots : Local(t)'
    <2>1. ASSUME NEW t \in Slots, t # s PROVE Local(t)' BY <2>1, Bystander
    <2> QED BY <2>1
<1>2. ClaimsAreDistinct'
    <2>1. ASSUME NEW t \in Slots, t # s, slot[t].token # 0, slot'[s].token # 0,
                 slot'[s].job = slot[t].job
          PROVE  slot'[s].token # slot[t].token
        <3>1. CASE slot'[s].token = slot[s].token /\ slot'[s].job = slot[s].job
            <4>1. ClaimsAreDistinct BY DEF IInv
            <4>2. s # t /\ slot[s].token # 0 /\ slot[s].job = slot[t].job BY <2>1, <3>1
            <4> QED BY <3>1, <4>1, <4>2 DEF ClaimsAreDistinct
        <3>2. CASE slot'[s].token = Len(ending[slot'[s].job]) + 1
            <4>1. slot[t].token \in 1 .. Len(ending[slot[t].job]) /\ ending[slot[t].job] \in Seq(Endings)
                BY <2>1, HeldClaim
            <4>2. Len(ending[slot[t].job]) \in Nat BY <4>1
            <4> QED BY <2>1, <3>2, <4>1, <4>2
        <3> QED BY <2>1, <3>1, <3>2
    <2>2. ASSUME NEW t \in Slots, NEW u \in Slots, t # u, slot'[t].token # 0, slot'[t].job = slot'[u].job
          PROVE  slot'[t].token # slot'[u].token
        <3>1. CASE t # s /\ u # s BY <2>2, <3>1 DEF IInv, ClaimsAreDistinct
        <3>2. CASE t = s BY <2>1, <2>2, <3>2
        <3>3. CASE u = s BY <2>1, <2>2, <3>3
        <3> QED BY <3>1, <3>2, <3>3
    <2> QED BY <2>2 DEF ClaimsAreDistinct
<1>3. ActiveInv'
    <2>1. ASSUME NEW j \in Jobs, active'[j] # NoSlot
          PROVE  (slot[active[j]].job = j /\ InAttempt(active[j]))'
        <3>1. active'[j] \in Slots BY <2>1
        <3>2. CASE active'[j] = s BY <2>1, <3>2 DEF InAttempt
        <3>3. CASE active'[j] # s
            <4>1. active'[j] = active[j] /\ slot'[active'[j]] = slot[active[j]] BY <2>1, <3>1, <3>3
            <4>2. slot[active[j]].job = j /\ InAttempt(active[j])
                BY <2>1, <4>1 DEF IInv, ActiveInv
            <4> QED BY <4>1, <4>2 DEF InAttempt
        <3> QED BY <3>2, <3>3
    <2> QED BY <2>1 DEF ActiveInv
<1>4. TableType' /\ \A j \in Jobs : JobInv(j)' BY DEF TableKept
<1>5. ProcessType' BY DEF IInv, ProcessType
<1> QED BY <1>1, <1>2, <1>3, <1>4, <1>5 DEF IInv, Local

\* The step of a slot that keeps its claim, the registrations and the shutdown.
LEMMA SlotSteps ==
    ASSUME IInv, NEW s \in Slots, NEW x \in SlotType, slot' = [slot EXCEPT ![s] = x],
           x.job = slot[s].job, x.token = slot[s].token,
           UNCHANGED <<mode, active, cleanup, due>>,
           TableKept, \A t \in Slots : t # s => SeenBy(t),
           InAttempt(s) => InAttempt(s)', Local(s)'
    PROVE  IInv'
<1>1. slot \in [Slots -> SlotType] /\ cleanup \in [Slots -> CleanupType]
      /\ active \in [Jobs -> Slots \cup {NoSlot}]
    BY DEF IInv, ProcessType
<1>2. slot' \in [Slots -> SlotType] /\ slot'[s] = x BY <1>1
<1>3. \A t \in Slots : t # s => slot'[t] = slot[t] /\ cleanup'[t] = cleanup[t] BY <1>1
<1>4. \A j \in Jobs : active'[j] # NoSlot =>
          /\ active'[j] \in {active[j], s}
          /\ active'[j] = s => slot'[s].job = j /\ InAttempt(s)'
    BY <1>2 DEF IInv, ActiveInv
<1> QED BY <1>1, <1>2, <1>3, <1>4, OneMoves
-----------------------------------------------------------------------------
\* Steps of a slot that leave the table alone.

LEMMA SlotFacts ==
    ASSUME IInv, NEW s \in Slots
    PROVE  /\ slot[s] \in SlotType /\ slot \in [Slots -> SlotType]
           /\ cleanup[s] \in CleanupType /\ cleanup \in [Slots -> CleanupType]
           /\ active \in [Jobs -> Slots \cup {NoSlot}]
           /\ SlotInv(s) /\ CompletionKnown(s) /\ CleanupInv(s)
BY DEF IInv, ProcessType

\* The loop ends.
LEMMA LoopEndsStep ==
    ASSUME IInv, NEW s \in Slots, LoopEnds(s)
    PROVE  IInv'
<1> DEFINE x == [slot[s] EXCEPT !.pc = "ended"]
<1>1. /\ slot[s] \in SlotType /\ slot \in [Slots -> SlotType] /\ cleanup[s] \in CleanupType
      /\ SlotInv(s) /\ CompletionKnown(s) /\ CleanupInv(s)
    BY SlotFacts
<1>2. x \in SlotType BY <1>1 DEF SlotType, LoopEnds
<1>3. slot' = [slot EXCEPT ![s] = x] BY DEF LoopEnds
<1>4. slot'[s] = x /\ UNCHANGED <<store, mode, active, cleanup, due>> BY <1>1, <1>3 DEF LoopEnds
<1>5. SlotInv(s)' BY <1>1, <1>4 DEF LoopEnds, SlotInv, InAttempt, Ended, Settling, SlotType, store
<1>6. CompletionKnown(s)'
    BY <1>1, <1>4 DEF LoopEnds, SlotInv, CleanupInv, CompletionKnown, Ended, SlotType, store
<1>7. CleanupInv(s)' BY <1>1, <1>4 DEF LoopEnds, SlotInv, CleanupInv, Ended, SlotType, store
<1>8. x.job = slot[s].job /\ x.token = slot[s].token /\ (InAttempt(s) => InAttempt(s)')
    BY <1>1, <1>4 DEF LoopEnds, SlotType, InAttempt
<1>9. TableKept /\ \A t \in Slots : SeenBy(t) BY <1>4, StillTable
<1> HIDE DEF x
<1> QED BY <1>2, <1>3, <1>4, <1>5, <1>6, <1>7, <1>8, <1>9, SlotSteps DEF Local

\* A renewal starts.
LEMMA RenewSendStep ==
    ASSUME IInv, NEW s \in Slots, RenewSend(s)
    PROVE  IInv'
<1> DEFINE x == [slot[s] EXCEPT !.hb = "renewing"]
<1>1. /\ slot[s] \in SlotType /\ slot \in [Slots -> SlotType] /\ cleanup[s] \in CleanupType
      /\ SlotInv(s) /\ CompletionKnown(s) /\ CleanupInv(s)
    BY SlotFacts
<1>2. x \in SlotType BY <1>1 DEF SlotType, RenewSend
<1>3. slot' = [slot EXCEPT ![s] = x] BY DEF RenewSend
<1>4. slot'[s] = x /\ UNCHANGED <<store, mode, active, cleanup, due>> BY <1>1, <1>3 DEF RenewSend
<1>5. SlotInv(s)'
    BY <1>1, <1>4 DEF RenewSend, Stopped, SlotInv, InAttempt, Ended, Settling, SlotType, store
<1>6. CompletionKnown(s)'
    BY <1>1, <1>4 DEF RenewSend, Stopped, SlotInv, CleanupInv, CompletionKnown, Ended, SlotType,
       store
<1>7. CleanupInv(s)' BY <1>1, <1>4 DEF RenewSend, Stopped, SlotInv, CleanupInv, Ended, SlotType, store
<1>8. x.job = slot[s].job /\ x.token = slot[s].token /\ (InAttempt(s) => InAttempt(s)')
    BY <1>1, <1>4 DEF RenewSend, SlotType, InAttempt
<1>9. TableKept /\ \A t \in Slots : SeenBy(t) BY <1>4, StillTable
<1> HIDE DEF x
<1> QED BY <1>2, <1>3, <1>4, <1>5, <1>6, <1>7, <1>8, <1>9, SlotSteps DEF Local

\* The attempt unwinds.
LEMMA LeaseLostInStep ==
    ASSUME IInv, NEW s \in Slots, LeaseLostIn(s)
    PROVE  IInv'
<1> DEFINE x == [slot[s] EXCEPT !.pc = "draining",
                               !.outcome = IF mode = "abandoning" THEN slot[s].outcome
                                           ELSE Recorded(slot[s].outcome, "lease_lost")]
<1>1. /\ slot[s] \in SlotType /\ slot \in [Slots -> SlotType] /\ cleanup[s] \in CleanupType
      /\ SlotInv(s) /\ CompletionKnown(s) /\ CleanupInv(s)
    BY SlotFacts
<1>t. (IF mode = "abandoning" THEN slot[s].outcome ELSE Recorded(slot[s].outcome, "lease_lost"))
          \in Replies \cup {"none"}
    BY <1>1 DEF SlotType, Recorded, Replies
<1>2. x \in SlotType BY <1>1, <1>t DEF SlotType, LeaseLostIn
<1>3. slot' = [slot EXCEPT ![s] = x] BY DEF LeaseLostIn
<1>4. slot'[s] = x /\ UNCHANGED <<store, mode, active, cleanup, due>> BY <1>1, <1>3 DEF LeaseLostIn
<1>5. SlotInv(s)'
    BY <1>1, <1>4 DEF LeaseLostIn, Recorded, SlotInv, InAttempt, Ended, Settling, SlotType, store
<1>6. CompletionKnown(s)'
    BY <1>1, <1>4 DEF LeaseLostIn, Recorded, SlotInv, CleanupInv, CompletionKnown, Ended,
       SlotType, store
<1>7. CleanupInv(s)'
    BY <1>1, <1>4 DEF LeaseLostIn, Recorded, SlotInv, CleanupInv, Ended, SlotType, store
<1>8. x.job = slot[s].job /\ x.token = slot[s].token /\ (InAttempt(s) => InAttempt(s)')
    BY <1>1, <1>4 DEF LeaseLostIn, SlotType, InAttempt
<1>9. TableKept /\ \A t \in Slots : SeenBy(t) BY <1>4, StillTable
<1> HIDE DEF x
<1> QED BY <1>2, <1>3, <1>4, <1>5, <1>6, <1>7, <1>8, <1>9, SlotSteps DEF Local

\* A pipeline step is done.
LEMMA NextStepStep ==
    ASSUME IInv, NEW s \in Slots, NextStep(s)
    PROVE  IInv'
<1> DEFINE x == [slot[s] EXCEPT !.step = @ + 1]
<1>1. /\ slot[s] \in SlotType /\ slot \in [Slots -> SlotType] /\ cleanup[s] \in CleanupType
      /\ SlotInv(s) /\ CompletionKnown(s) /\ CleanupInv(s)
    BY SlotFacts
<1>t. slot[s].step < LastStep => slot[s].step + 1 \in 0 .. LastStep
    BY <1>1, StepsAssumption DEF SlotType
<1>2. x \in SlotType BY <1>1, <1>t DEF SlotType, NextStep
<1>3. slot' = [slot EXCEPT ![s] = x] BY DEF NextStep
<1>4. slot'[s] = x /\ UNCHANGED <<store, mode, active, cleanup, due>> BY <1>1, <1>3 DEF NextStep
<1>5. SlotInv(s)' BY <1>1, <1>4 DEF NextStep, SlotInv, InAttempt, Ended, Settling, SlotType, store
<1>6. CompletionKnown(s)'
    BY <1>1, <1>4 DEF NextStep, SlotInv, CleanupInv, CompletionKnown, Ended, SlotType, store
<1>7. CleanupInv(s)' BY <1>1, <1>4 DEF NextStep, SlotInv, CleanupInv, Ended, SlotType, store
<1>8. x.job = slot[s].job /\ x.token = slot[s].token /\ (InAttempt(s) => InAttempt(s)')
    BY <1>1, <1>4 DEF NextStep, SlotType, InAttempt
<1>9. TableKept /\ \A t \in Slots : SeenBy(t) BY <1>4, StillTable
<1> HIDE DEF x
<1> QED BY <1>2, <1>3, <1>4, <1>5, <1>6, <1>7, <1>8, <1>9, SlotSteps DEF Local

\* The completion is sent.
LEMMA CompleteSendStep ==
    ASSUME IInv, NEW s \in Slots, CompleteSend(s)
    PROVE  IInv'
<1> DEFINE x == [slot[s] EXCEPT !.pc = "completing"]
<1>1. /\ slot[s] \in SlotType /\ slot \in [Slots -> SlotType] /\ cleanup[s] \in CleanupType
      /\ SlotInv(s) /\ CompletionKnown(s) /\ CleanupInv(s)
    BY SlotFacts
<1>2. x \in SlotType BY <1>1 DEF SlotType, CompleteSend
<1>a. mode # "abandoning" BY StepsAssumption DEF CompleteSend, StoppedByCheck, MustAbandon
<1>3. slot' = [slot EXCEPT ![s] = x] BY DEF CompleteSend
<1>4. slot'[s] = x /\ UNCHANGED <<store, mode, active, cleanup, due>> BY <1>1, <1>3 DEF CompleteSend
<1>5. SlotInv(s)'
    BY <1>1, <1>4, <1>a DEF CompleteSend, Alive, SlotInv, InAttempt, Ended, Settling,
       SlotType, store
<1>6. CompletionKnown(s)'
    BY <1>1, <1>4, <1>a DEF CompleteSend, Alive, SlotInv, CleanupInv, CompletionKnown,
       Ended, SlotType, store
<1>7. CleanupInv(s)'
    BY <1>1, <1>4, <1>a DEF CompleteSend, Alive, SlotInv, CleanupInv, Ended, SlotType,
       store
<1>8. x.job = slot[s].job /\ x.token = slot[s].token /\ (InAttempt(s) => InAttempt(s)')
    BY <1>1, <1>4 DEF CompleteSend, SlotType, InAttempt
<1>9. TableKept /\ \A t \in Slots : SeenBy(t) BY <1>4, StillTable
<1> HIDE DEF x
<1> QED BY <1>2, <1>3, <1>4, <1>5, <1>6, <1>7, <1>8, <1>9, SlotSteps DEF Local

\* The pipeline fails.
LEMMA PipelineFailsStep ==
    ASSUME IInv, NEW s \in Slots, PipelineFails(s)
    PROVE  IInv'
<1> DEFINE x == [slot[s] EXCEPT !.pc = IF mode = "abandoning" THEN "draining" ELSE "releasing"]
<1>1. /\ slot[s] \in SlotType /\ slot \in [Slots -> SlotType] /\ cleanup[s] \in CleanupType
      /\ SlotInv(s) /\ CompletionKnown(s) /\ CleanupInv(s)
    BY SlotFacts
<1>2. x \in SlotType BY <1>1 DEF SlotType, PipelineFails
<1>3. slot' = [slot EXCEPT ![s] = x] BY DEF PipelineFails
<1>4. slot'[s] = x /\ UNCHANGED <<store, mode, active, cleanup, due>> BY <1>1, <1>3 DEF PipelineFails
<1>5. SlotInv(s)'
    BY <1>1, <1>4 DEF PipelineFails, Alive, SlotInv, InAttempt, Ended, Settling, SlotType, store
<1>6. CompletionKnown(s)'
    BY <1>1, <1>4 DEF PipelineFails, Alive, SlotInv, CleanupInv, CompletionKnown, Ended, SlotType,
       store
<1>7. CleanupInv(s)' BY <1>1, <1>4 DEF PipelineFails, Alive, SlotInv, CleanupInv, Ended, SlotType, store
<1>8. x.job = slot[s].job /\ x.token = slot[s].token /\ (InAttempt(s) => InAttempt(s)')
    BY <1>1, <1>4 DEF PipelineFails, SlotType, InAttempt
<1>9. TableKept /\ \A t \in Slots : SeenBy(t) BY <1>4, StillTable
<1> HIDE DEF x
<1> QED BY <1>2, <1>3, <1>4, <1>5, <1>6, <1>7, <1>8, <1>9, SlotSteps DEF Local

\* The completion is answered.
LEMMA CompleteReturnsStep ==
    ASSUME IInv, NEW s \in Slots, CompleteReturns(s)
    PROVE  IInv'
<1> DEFINE x == [slot[s] EXCEPT !.reply = "none",
                               !.pc = IF slot[s].reply = "unconfirmed" /\ mode # "abandoning"
                                      THEN "releasing" ELSE "draining",
                               !.outcome = IF slot[s].reply = "completed"
                                                 \/ (slot[s].reply = "lease_lost" /\ mode # "abandoning")
                                           THEN Recorded(slot[s].outcome, slot[s].reply)
                                           ELSE slot[s].outcome]
<1>1. /\ slot[s] \in SlotType /\ slot \in [Slots -> SlotType] /\ cleanup[s] \in CleanupType
      /\ SlotInv(s) /\ CompletionKnown(s) /\ CleanupInv(s)
    BY SlotFacts
<1>t. Recorded(slot[s].outcome, slot[s].reply) \in Replies \cup {"none"}
    BY <1>1 DEF SlotType, Recorded, Replies
<1>2. x \in SlotType BY <1>1, <1>t DEF SlotType, CompleteReturns
<1>3. slot' = [slot EXCEPT ![s] = x] BY DEF CompleteReturns
<1>4. slot'[s] = x /\ UNCHANGED <<store, mode, active, cleanup, due>> BY <1>1, <1>3 DEF CompleteReturns
<1>5. SlotInv(s)'
    BY <1>1, <1>4 DEF CompleteReturns, Recorded, Alive, SlotInv, InAttempt, Ended, Settling,
       SlotType, store
<1>6. CompletionKnown(s)'
    BY <1>1, <1>4 DEF CompleteReturns, Recorded, Alive, SlotInv, CleanupInv, CompletionKnown,
       Ended, SlotType, store
<1>7. CleanupInv(s)'
    BY <1>1, <1>4 DEF CompleteReturns, Recorded, Alive, SlotInv, CleanupInv, Ended, SlotType,
       store
<1>8. x.job = slot[s].job /\ x.token = slot[s].token /\ (InAttempt(s) => InAttempt(s)')
    BY <1>1, <1>4 DEF CompleteReturns, SlotType, InAttempt
<1>9. TableKept /\ \A t \in Slots : SeenBy(t) BY <1>4, StillTable
<1> HIDE DEF x
<1> QED BY <1>2, <1>3, <1>4, <1>5, <1>6, <1>7, <1>8, <1>9, SlotSteps DEF Local

\* A claim that came too late is given back.
LEMMA GiveBackStep ==
    ASSUME IInv, NEW s \in Slots, GiveBack(s)
    PROVE  IInv'
<1> DEFINE x == [slot[s] EXCEPT !.pc = "releasing"]
<1>1. /\ slot[s] \in SlotType /\ slot \in [Slots -> SlotType] /\ cleanup[s] \in CleanupType
      /\ SlotInv(s) /\ CompletionKnown(s) /\ CleanupInv(s)
    BY SlotFacts
<1>2. x \in SlotType BY <1>1 DEF SlotType, GiveBack
<1>3. slot' = [slot EXCEPT ![s] = x] BY DEF GiveBack
<1>4. slot'[s] = x /\ UNCHANGED <<store, mode, active, cleanup, due>> BY <1>1, <1>3 DEF GiveBack
<1>5. SlotInv(s)' BY <1>1, <1>4 DEF GiveBack, SlotInv, InAttempt, Ended, Settling, SlotType, store
<1>6. CompletionKnown(s)'
    BY <1>1, <1>4 DEF GiveBack, SlotInv, CleanupInv, CompletionKnown, Ended, SlotType, store
<1>7. CleanupInv(s)' BY <1>1, <1>4 DEF GiveBack, SlotInv, CleanupInv, Ended, SlotType, store
<1>8. x.job = slot[s].job /\ x.token = slot[s].token /\ (InAttempt(s) => InAttempt(s)')
    BY <1>1, <1>4 DEF GiveBack, SlotType, InAttempt
<1>9. TableKept /\ \A t \in Slots : SeenBy(t) BY <1>4, StillTable
<1> HIDE DEF x
<1> QED BY <1>2, <1>3, <1>4, <1>5, <1>6, <1>7, <1>8, <1>9, SlotSteps DEF Local

\* The release is answered.
LEMMA ReleaseReturnsStep ==
    ASSUME IInv, NEW s \in Slots, ReleaseReturns(s)
    PROVE  IInv'
<1> DEFINE x == [slot[s] EXCEPT !.pc = "draining", !.reply = "none",
                               !.outcome = Recorded(slot[s].outcome, slot[s].reply)]
<1>1. /\ slot[s] \in SlotType /\ slot \in [Slots -> SlotType] /\ cleanup[s] \in CleanupType
      /\ SlotInv(s) /\ CompletionKnown(s) /\ CleanupInv(s)
    BY SlotFacts
<1>t. Recorded(slot[s].outcome, slot[s].reply) \in Replies \cup {"none"}
    BY <1>1 DEF SlotType, Recorded, Replies
<1>2. x \in SlotType BY <1>1, <1>t DEF SlotType, ReleaseReturns
<1>3. slot' = [slot EXCEPT ![s] = x] BY DEF ReleaseReturns
<1>4. slot'[s] = x /\ UNCHANGED <<store, mode, active, cleanup, due>> BY <1>1, <1>3 DEF ReleaseReturns
<1>5. SlotInv(s)'
    BY <1>1, <1>4 DEF ReleaseReturns, Recorded, SlotInv, InAttempt, Ended, Settling, SlotType,
       store
<1>6. CompletionKnown(s)'
    BY <1>1, <1>4 DEF ReleaseReturns, Recorded, SlotInv, CleanupInv, CompletionKnown, Ended,
       SlotType, store
<1>7. CleanupInv(s)'
    BY <1>1, <1>4 DEF ReleaseReturns, Recorded, SlotInv, CleanupInv, Ended, SlotType, store
<1>8. x.job = slot[s].job /\ x.token = slot[s].token /\ (InAttempt(s) => InAttempt(s)')
    BY <1>1, <1>4 DEF ReleaseReturns, SlotType, InAttempt
<1>9. TableKept /\ \A t \in Slots : SeenBy(t) BY <1>4, StillTable
<1> HIDE DEF x
<1> QED BY <1>2, <1>3, <1>4, <1>5, <1>6, <1>7, <1>8, <1>9, SlotSteps DEF Local

-----------------------------------------------------------------------------
\* Claims come and go.

\* The loop asks for a job.
LEMMA ClaimSendStep ==
    ASSUME IInv, NEW s \in Slots, ClaimSend(s)
    PROVE  IInv'
<1> DEFINE x == [Nowhere EXCEPT !.pc = "claiming"]
<1>1. /\ slot \in [Slots -> SlotType] /\ cleanup \in [Slots -> CleanupType]
      /\ active \in [Jobs -> Slots \cup {NoSlot}]
      /\ SlotInv(s) /\ CleanupInv(s)
    BY SlotFacts
<1>2. x \in SlotType BY StepsAssumption DEF Nowhere, SlotType
<1>3. slot' = [slot EXCEPT ![s] = x] BY DEF ClaimSend
<1>4. slot' \in [Slots -> SlotType] /\ slot'[s] = x /\ x.token = 0 /\ x.pc = "claiming"
      /\ x.reply = "none" /\ x.outcome = "none" /\ x.hb = "off"
    BY <1>1, <1>2, <1>3 DEF Nowhere
<1>5. UNCHANGED <<store, mode, active, cleanup, due>> BY DEF ClaimSend
<1>6. Local(s)'
    BY <1>1, <1>4, <1>5 DEF ClaimSend, Local, SlotInv, CompletionKnown, CleanupInv, InAttempt, Settling
<1>7. \A j \in Jobs : active'[j] # NoSlot =>
          /\ active'[j] \in {active[j], s}
          /\ active'[j] = s => slot'[s].job = j /\ InAttempt(s)'
    BY <1>5 DEF ClaimSend, IInv, ActiveInv, InAttempt
<1>8. TableKept /\ \A t \in Slots : SeenBy(t) BY <1>5, StillTable
<1>9. \A t \in Slots : t # s => slot'[t] = slot[t] /\ cleanup'[t] = cleanup[t]
    BY <1>1, <1>3, <1>5
<1> HIDE DEF x
<1> QED BY <1>1, <1>4, <1>5, <1>6, <1>7, <1>8, <1>9, OneMoves

\* There is no job, or the process does not learn of it.
LEMMA ClaimReturnsNothingStep ==
    ASSUME IInv, NEW s \in Slots, ClaimReturnsNothing(s)
    PROVE  IInv'
<1>1. /\ slot \in [Slots -> SlotType] /\ cleanup \in [Slots -> CleanupType]
      /\ active \in [Jobs -> Slots \cup {NoSlot}]
      /\ SlotInv(s) /\ CleanupInv(s)
    BY SlotFacts
<1>2. Nowhere \in SlotType BY StepsAssumption DEF Nowhere, SlotType
<1>3. slot' = [slot EXCEPT ![s] = Nowhere] BY DEF ClaimReturnsNothing
<1>4. slot' \in [Slots -> SlotType] /\ slot'[s] = Nowhere /\ Nowhere.token = 0
      /\ Nowhere.pc = "top" /\ Nowhere.reply = "none" /\ Nowhere.outcome = "none"
      /\ Nowhere.hb = "off"
    BY <1>1, <1>2, <1>3 DEF Nowhere
<1>5. UNCHANGED <<store, mode, active, cleanup, due>> BY DEF ClaimReturnsNothing
<1>6. Local(s)'
    BY <1>1, <1>4, <1>5
    DEF ClaimReturnsNothing, Local, SlotInv, CompletionKnown, CleanupInv, InAttempt, Settling
<1>7. \A j \in Jobs : active'[j] # NoSlot =>
          /\ active'[j] \in {active[j], s}
          /\ active'[j] = s => slot'[s].job = j /\ InAttempt(s)'
    BY <1>5 DEF ClaimReturnsNothing, IInv, ActiveInv, InAttempt
<1>8. TableKept /\ \A t \in Slots : SeenBy(t) BY <1>5, StillTable
<1>9. \A t \in Slots : t # s => slot'[t] = slot[t] /\ cleanup'[t] = cleanup[t]
    BY <1>1, <1>3, <1>5
<1> QED BY <1>1, <1>4, <1>5, <1>6, <1>7, <1>8, <1>9, OneMoves

\* A claim is committed.
LEMMA ClaimCommitsStep ==
    ASSUME IInv, NEW s \in Slots, NEW j \in Jobs, ClaimCommits(s, j)
    PROVE  IInv'
<1> DEFINE n == Len(ending[j])
<1> DEFINE x == [slot[s] EXCEPT !.job = j, !.token = n + 1]
<1>1. /\ slot[s] \in SlotType /\ slot \in [Slots -> SlotType] /\ cleanup \in [Slots -> CleanupType]
      /\ active \in [Jobs -> Slots \cup {NoSlot}]
      /\ SlotInv(s) /\ CleanupInv(s)
    BY SlotFacts
<1>2. /\ TableKept /\ \A t \in Slots : SeenBy(t)
      /\ n \in Nat /\ Len(ending'[j]) = n + 1 /\ ending'[j][n + 1] = "open" /\ job'[j].by = "us"
    BY ClaimChange DEF ClaimCommits
<1>3. x \in SlotType
    <2>1. ASSUME NEW y \in SlotType, NEW k \in Nat PROVE [y EXCEPT !.job = j, !.token = k] \in SlotType
        BY DEF SlotType
    <2>2. n + 1 \in Nat BY <1>2
    <2> QED BY <1>1, <2>1, <2>2
<1>4. slot' = [slot EXCEPT ![s] = x] BY DEF ClaimCommits
<1>5. slot' \in [Slots -> SlotType] /\ slot'[s] = x /\ x.token = n + 1 /\ x.job = j
      /\ x.pc = slot[s].pc /\ x.reply = slot[s].reply /\ x.outcome = slot[s].outcome
    BY <1>1, <1>3, <1>4 DEF SlotType
<1>6. UNCHANGED <<mode, active, cleanup, due>> BY DEF ClaimCommits
<1>7. slot[s].pc = "claiming" /\ slot[s].token = 0 BY DEF ClaimCommits
<1>8. slot[s].reply = "none" /\ slot[s].outcome = "none" /\ cleanup[s].stage = "none"
    BY <1>1, <1>7 DEF SlotInv, CleanupInv
<1>9. SlotInv(s)' BY <1>2, <1>5, <1>7, <1>8 DEF SlotInv, InAttempt, Settling
<1>10. CompletionKnown(s)' BY <1>2, <1>5 DEF CompletionKnown, Ended
<1>11. CleanupInv(s)' BY <1>1, <1>6, <1>8 DEF CleanupInv, Settling
<1>12. \A i \in Jobs : active'[i] # NoSlot =>
          /\ active'[i] \in {active[i], s}
          /\ active'[i] = s => slot'[s].job = i /\ InAttempt(s)'
    BY <1>6, <1>7 DEF IInv, ActiveInv, InAttempt
<1>13. \A t \in Slots : t # s => slot'[t] = slot[t] /\ cleanup'[t] = cleanup[t]
    BY <1>1, <1>4, <1>6
<1> HIDE DEF x
<1> QED BY <1>1, <1>2, <1>5, <1>6, <1>9, <1>10, <1>11, <1>12, <1>13, OneMoves DEF Local

\* The attempt is registered.
LEMMA ClaimReturnsStep ==
    ASSUME IInv, NEW s \in Slots, ClaimReturns(s)
    PROVE  IInv'
<1> DEFINE x == [slot[s] EXCEPT !.hb = "sleeping",
                               !.pc = IF mode = "running" THEN "pipeline" ELSE "preRelease",
                               !.step = IF mode = "running" THEN 1 ELSE 0]
<1>1. /\ slot[s] \in SlotType /\ slot \in [Slots -> SlotType] /\ cleanup \in [Slots -> CleanupType]
      /\ active \in [Jobs -> Slots \cup {NoSlot}]
      /\ SlotInv(s) /\ CompletionKnown(s) /\ CleanupInv(s)
    BY SlotFacts
<1>2. x \in SlotType
    <2>1. 0 \in 0 .. LastStep /\ 1 \in 0 .. LastStep BY StepsAssumption
    <2> QED BY <1>1, <2>1 DEF SlotType
<1>3. slot' = [slot EXCEPT ![s] = x] BY DEF ClaimReturns
<1>4. slot' \in [Slots -> SlotType] /\ slot'[s] = x BY <1>1, <1>2, <1>3
<1>5. UNCHANGED <<store, mode, cleanup, due>> BY DEF ClaimReturns
<1>6. slot[s].pc = "claiming" /\ slot[s].token # 0 /\ slot[s].job \in Jobs
    BY <1>1 DEF ClaimReturns, SlotInv
<1>7. /\ x.pc \in {"pipeline", "preRelease"} /\ x.job = slot[s].job /\ x.token = slot[s].token
      /\ x.reply = slot[s].reply /\ x.outcome = slot[s].outcome /\ x.ack = slot[s].ack
    BY <1>1 DEF SlotType
<1>8. cleanup[s].stage = "none" BY <1>1, <1>6 DEF CleanupInv
<1> HIDE DEF x
<1>9. SlotInv(s)' BY <1>1, <1>4, <1>5, <1>6, <1>7, <1>8 DEF SlotInv, InAttempt, Settling, Ended, store
<1>10. CompletionKnown(s)' BY <1>1, <1>4, <1>5, <1>6, <1>7 DEF CompletionKnown, Ended, store
<1>11. CleanupInv(s)' BY <1>1, <1>5, <1>8 DEF CleanupInv, Settling
<1>12. active' = [active EXCEPT ![slot[s].job] = s] BY DEF ClaimReturns
<1>13. active' \in [Jobs -> Slots \cup {NoSlot}] BY <1>1, <1>12
<1>14. \A i \in Jobs : active'[i] # NoSlot =>
          /\ active'[i] \in {active[i], s}
          /\ active'[i] = s => slot'[s].job = i /\ InAttempt(s)'
    BY <1>1, <1>4, <1>6, <1>7, <1>12 DEF IInv, ActiveInv, InAttempt
<1>15. TableKept /\ \A t \in Slots : SeenBy(t) BY <1>5, StillTable
<1>16. \A t \in Slots : t # s => slot'[t] = slot[t] /\ cleanup'[t] = cleanup[t]
    BY <1>1, <1>3, <1>5
<1> QED BY <1>1, <1>4, <1>5, <1>7, <1>9, <1>10, <1>11, <1>13, <1>14, <1>15, <1>16, OneMoves DEF Local

\* The finally block.
LEMMA UnwindStep ==
    ASSUME IInv, NEW s \in Slots, Unwind(s)
    PROVE  IInv'
<1> DEFINE x == [slot[s] EXCEPT !.pc = "top", !.hb = "off",
                               !.outcome = IF mode = "abandoning" THEN slot[s].outcome
                                           ELSE Recorded(slot[s].outcome, "unconfirmed")]
<1>1. /\ slot[s] \in SlotType /\ slot \in [Slots -> SlotType] /\ cleanup \in [Slots -> CleanupType]
      /\ active \in [Jobs -> Slots \cup {NoSlot}]
      /\ SlotInv(s) /\ CompletionKnown(s) /\ CleanupInv(s)
    BY SlotFacts
<1>2. Recorded(slot[s].outcome, "unconfirmed") \in {slot[s].outcome, "unconfirmed"} BY DEF Recorded
<1>3. x \in SlotType BY <1>1, <1>2 DEF SlotType, Replies
<1>4. slot' = [slot EXCEPT ![s] = x] BY DEF Unwind
<1>5. slot' \in [Slots -> SlotType] /\ slot'[s] = x BY <1>1, <1>3, <1>4
<1>6. UNCHANGED <<store, mode, cleanup, due>> BY DEF Unwind
<1>7. slot[s].pc = "draining" /\ slot[s].token # 0 /\ slot[s].job \in Jobs
    BY <1>1 DEF Unwind, SlotInv, InAttempt
<1>8. /\ x.pc = "top" /\ x.job = slot[s].job /\ x.token = slot[s].token /\ x.hb = "off"
      /\ x.reply = slot[s].reply /\ x.ack = slot[s].ack
      /\ x.outcome = slot[s].outcome \/ (slot[s].outcome = "none" /\ x.outcome = "unconfirmed")
    BY <1>1 DEF SlotType, Recorded
<1> HIDE DEF x
<1>9. SlotInv(s)' BY <1>1, <1>5, <1>6, <1>7, <1>8 DEF SlotInv, InAttempt, Settling, Ended, store
<1>10. CompletionKnown(s)' BY <1>1, <1>5, <1>6, <1>7, <1>8 DEF CompletionKnown, Ended, store
<1>11. CleanupInv(s)' BY <1>1, <1>5, <1>6, <1>8 DEF CleanupInv, Ended, store
<1>12. active' = [active EXCEPT ![slot[s].job] = NoSlot] BY DEF Unwind
<1>13. active' \in [Jobs -> Slots \cup {NoSlot}] BY <1>1, <1>12
<1>14. \A i \in Jobs : active'[i] # NoSlot =>
          /\ active'[i] \in {active[i], s}
          /\ active'[i] = s => slot'[s].job = i /\ InAttempt(s)'
    <2> SUFFICES ASSUME NEW i \in Jobs, active'[i] # NoSlot PROVE active'[i] = active[i] /\ active[i] # s
        OBVIOUS
    <2>1. i # slot[s].job /\ active'[i] = active[i] BY <1>1, <1>7, <1>12
    <2>2. slot[active[i]].job = i BY <2>1 DEF IInv, ActiveInv
    <2> QED BY <2>1, <2>2
<1>15. TableKept /\ \A t \in Slots : SeenBy(t) BY <1>6, StillTable
<1>16. \A t \in Slots : t # s => slot'[t] = slot[t] /\ cleanup'[t] = cleanup[t]
    BY <1>1, <1>4, <1>6
<1> QED BY <1>1, <1>5, <1>6, <1>8, <1>9, <1>10, <1>11, <1>13, <1>14, <1>15, <1>16, OneMoves DEF Local

-----------------------------------------------------------------------------
\* Effects on the table.

\* A renewal is answered.
LEMMA RenewReturnsStep ==
    ASSUME IInv, NEW s \in Slots, NEW answer \in {"renewed", "refused", "error"},
           RenewReturns(s, answer)
    PROVE  IInv'
<1> DEFINE x == [slot[s] EXCEPT !.hb = "sleeping",
                               !.lost = IF answer = "renewed" THEN "no" ELSE "yes"]
<1>1. /\ slot[s] \in SlotType /\ slot \in [Slots -> SlotType]
      /\ SlotInv(s) /\ CompletionKnown(s) /\ CleanupInv(s)
    BY SlotFacts
<1>2. x \in SlotType BY <1>1 DEF SlotType
<1>3. slot' = [slot EXCEPT ![s] = x] BY DEF RenewReturns
<1>4. slot'[s] = x /\ UNCHANGED <<ending, mode, active, cleanup, due>> BY <1>1, <1>3 DEF RenewReturns
<1>5. /\ x.pc = slot[s].pc /\ x.job = slot[s].job /\ x.token = slot[s].token /\ x.hb = "sleeping"
      /\ x.reply = slot[s].reply /\ x.ack = slot[s].ack /\ x.outcome = slot[s].outcome
    BY <1>1 DEF SlotType
<1> HIDE DEF x
<1>6. TableKept /\ (\A t \in Slots : SeenBy(t))
      /\ \A j \in Jobs : job'[j].by = job[j].by /\ job'[j].token = job[j].token
    <2>1. CASE answer = "renewed"
        <3>1. Owns(slot[s].job, slot[s].token) BY <2>1 DEF RenewReturns
        <3>2. slot[s].job \in Jobs BY <1>1 DEF RenewReturns, SlotInv
        <3>3. /\ job' = [job EXCEPT ![slot[s].job].lease = "live"] /\ ending' = ending
              /\ job[slot[s].job].lease # "null"
            BY <2>1, <3>1 DEF RenewReturns, Owns
        <3>4. job \in [Jobs -> JobType] BY DEF IInv, TableType
        <3>5. \A j \in Jobs : job'[j].by = job[j].by /\ job'[j].token = job[j].token
            BY <3>2, <3>3, <3>4 DEF JobType
        <3> QED BY <3>2, <3>3, <3>5, LeaseChange
    <2>2. CASE answer # "renewed"
        <3>1. UNCHANGED store /\ job' = job BY <2>2 DEF RenewReturns, store
        <3> QED BY <3>1, StillTable
    <2> QED BY <2>1, <2>2
<1>7. SlotInv(s)' BY <1>1, <1>4, <1>5, <1>6 DEF RenewReturns, SlotInv, InAttempt, Settling, Ended
<1>8. CompletionKnown(s)' BY <1>1, <1>4, <1>5 DEF CompletionKnown, Ended
<1>9. CleanupInv(s)' BY <1>1, <1>4, <1>5 DEF CleanupInv, Ended
<1> QED BY <1>2, <1>3, <1>4, <1>5, <1>6, <1>7, <1>8, <1>9, SlotSteps DEF Local, InAttempt

\* A release is carried out or not, and what is answered is true.
LEMMA FailChange ==
    ASSUME IInv, NEW s \in Slots, NEW reply \in Replies, slot[s].token # 0,
           FailTakesEffect(s, reply)
    PROVE  /\ TableKept /\ \A t \in Slots : SeenBy(t)
           /\ reply \in Settling => ending'[slot[s].job][slot[s].token] = reply
<1> DEFINE j == slot[s].job
<1>1. j \in Jobs BY HeldClaim
<1>2. AfterFailure(j) \in {"queued", "completed", "dead_letter"}
      /\ ReleasedAs(j) \in {"retried", "dead_letter"} /\ ReleasedAs(j) \in Endings
    BY DEF AfterFailure, ReleasedAs, Endings
<1>3. CASE Owns(j, slot[s].token) /\ Release(j) /\ reply \in {ReleasedAs(j), "unconfirmed"}
    <2>1. job[j].lease # "null" /\ job[j].token = slot[s].token BY <1>3 DEF Owns
    <2>2. ReleasedAs(j) # "completed" BY <1>2
    <2>3. End(j, AfterFailure(j), ReleasedAs(j)) BY <1>3 DEF Release
    <2>4. TableKept /\ (\A t \in Slots : SeenBy(t)) /\ ending'[j][slot[s].token] = ReleasedAs(j)
        BY <1>1, <1>2, <2>1, <2>2, <2>3, EndChange
    <2> QED BY <1>3, <2>4 DEF Settling
<1>4. CASE UNCHANGED store /\ reply \in {"lease_lost", "unconfirmed"}
    BY <1>4, StillTable DEF Settling
<1> QED BY <1>3, <1>4 DEF FailTakesEffect

\* A release by the attempt itself.
LEMMA ReleaseTakesEffectStep ==
    ASSUME IInv, NEW s \in Slots, NEW reply \in Replies, ReleaseTakesEffect(s, reply)
    PROVE  IInv'
<1> DEFINE x == [slot[s] EXCEPT !.reply = reply]
<1>1. /\ slot[s] \in SlotType /\ slot \in [Slots -> SlotType]
      /\ SlotInv(s) /\ CompletionKnown(s) /\ CleanupInv(s)
    BY SlotFacts
<1>2. x \in SlotType BY <1>1 DEF SlotType
<1>3. slot' = [slot EXCEPT ![s] = x] BY DEF ReleaseTakesEffect
<1>4. slot'[s] = x /\ UNCHANGED <<mode, active, cleanup, due>> BY <1>1, <1>3 DEF ReleaseTakesEffect
<1>5. /\ x.pc = slot[s].pc /\ x.job = slot[s].job /\ x.token = slot[s].token /\ x.hb = slot[s].hb
      /\ x.reply = reply /\ x.ack = slot[s].ack /\ x.outcome = slot[s].outcome
    BY <1>1 DEF SlotType
<1> HIDE DEF x
<1>6. slot[s].pc = "releasing" /\ slot[s].token # 0 BY <1>1 DEF ReleaseTakesEffect, SlotInv, InAttempt
<1>7. TableKept /\ (\A t \in Slots : SeenBy(t))
      /\ (reply \in Settling => ending'[slot[s].job][slot[s].token] = reply)
    BY <1>6, FailChange DEF ReleaseTakesEffect
<1>8. Ended(s)' = Ended(s) \/ (Ended(s) = "open" /\ Ended(s)' # "completed")
    BY <1>4, <1>5, <1>6, <1>7 DEF SeenBy, Ended
<1>9. SlotInv(s)'
    <2>1. SeenBy(s) BY <1>7
    <2> QED BY <1>1, <1>4, <1>5, <1>6, <1>7, <1>8, <2>1 DEF SlotInv, SeenBy, InAttempt, Settling, Ended
<1>10. CompletionKnown(s)' BY <1>1, <1>4, <1>5, <1>6, <1>8 DEF CompletionKnown
<1>11. CleanupInv(s)' BY <1>1, <1>4, <1>5, <1>6, <1>8 DEF CleanupInv, Settling
<1>12. InAttempt(s) => InAttempt(s)' BY <1>4, <1>5 DEF InAttempt
<1> QED BY <1>2, <1>3, <1>4, <1>5, <1>7, <1>9, <1>10, <1>11, <1>12, SlotSteps DEF Local

\* A completion.
LEMMA CompleteTakesEffectStep ==
    ASSUME IInv, NEW s \in Slots, NEW reply \in Replies, CompleteTakesEffect(s, reply)
    PROVE  IInv'
<1> DEFINE j == slot[s].job
<1> DEFINE k == slot[s].token
<1> DEFINE x == [slot[s] EXCEPT !.reply = reply,
               !.ack = IF reply = "unconfirmed" /\ Owns(j, k) THEN "doubtful" ELSE slot[s].ack]
<1>1. /\ slot[s] \in SlotType /\ slot \in [Slots -> SlotType]
      /\ SlotInv(s) /\ CompletionKnown(s) /\ CleanupInv(s)
    BY SlotFacts
<1>2. x \in SlotType BY <1>1 DEF SlotType
<1>3. slot' = [slot EXCEPT ![s] = x] BY DEF CompleteTakesEffect
<1>4. slot'[s] = x /\ UNCHANGED <<mode, active, cleanup, due>> BY <1>1, <1>3 DEF CompleteTakesEffect
<1>5. /\ x.pc = slot[s].pc /\ x.job = slot[s].job /\ x.token = slot[s].token /\ x.hb = slot[s].hb
      /\ x.reply = reply /\ x.outcome = slot[s].outcome
      /\ x.ack = IF reply = "unconfirmed" /\ Owns(j, k) THEN "doubtful" ELSE slot[s].ack
    BY <1>1 DEF SlotType
<1> HIDE DEF x
<1>6. /\ slot[s].pc = "completing" /\ slot[s].reply = "none" /\ slot[s].token # 0
      /\ cleanup[s].stage \notin {"releasing", "done"} /\ slot[s].outcome = "none"
    BY <1>1 DEF CompleteTakesEffect, SlotInv, CleanupInv, InAttempt
<1>7. j \in Jobs BY <1>6, HeldClaim
<1>8. /\ TableKept /\ \A t \in Slots : t # s => SeenBy(t)
      /\ slot[s].token <= Len(ending'[slot[s].job])
      /\ job'[slot[s].job].by = "other" => job'[slot[s].job].token # slot[s].token
      /\ reply \in Settling => reply = "completed" /\ ending'[j][k] = "completed"
      /\ reply = "completed" \/ ending'[j][k] = ending[j][k] \/ (reply = "unconfirmed" /\ Owns(j, k))
    <2>1. CASE reply \in {"completed", "unconfirmed"} /\ Owns(j, k) /\ End(j, "completed", "completed")
        <3>1. job[j].lease # "null" /\ job[j].token = k BY <2>1 DEF Owns
        <3>2. \A t \in Slots : t # s => slot[t].job # j \/ slot[t].token # job[j].token
            <4>1. ClaimsAreDistinct BY DEF IInv
            <4> QED BY <1>6, <3>1, <4>1 DEF ClaimsAreDistinct
        <3>3. "completed" \in Endings BY DEF Endings
        <3>4. /\ TableKept /\ ending'[j][job[j].token] = "completed"
              /\ \A t \in Slots : t # s => SeenBy(t)
              /\ slot[s].token <= Len(ending'[slot[s].job])
              /\ job'[slot[s].job].by = "other" => job'[slot[s].job].token # slot[s].token
            BY <1>6, <1>7, <2>1, <3>1, <3>2, <3>3, EndChange
        <3> QED BY <2>1, <3>1, <3>4 DEF Settling
    <2>2. CASE UNCHANGED store /\ reply \in {"lease_lost", "unconfirmed"}
        <3>1. TableKept /\ (\A t \in Slots : SeenBy(t)) /\ ending' = ending
            BY <2>2, StillTable DEF store
        <3> QED BY <1>6, <2>2, <3>1 DEF SeenBy, Settling
    <2> QED BY <2>1, <2>2 DEF CompleteTakesEffect
<1>9. SlotInv(s)' BY <1>1, <1>4, <1>5, <1>6, <1>7, <1>8 DEF SlotInv, InAttempt, Settling, Ended
<1>10. CompletionKnown(s)' BY <1>1, <1>4, <1>5, <1>6, <1>8 DEF CompletionKnown, Ended
<1>11. CleanupInv(s)' BY <1>1, <1>4, <1>5, <1>6 DEF CleanupInv, Settling
<1>12. InAttempt(s) => InAttempt(s)' BY <1>4, <1>5 DEF InAttempt
<1> QED BY <1>2, <1>3, <1>4, <1>5, <1>8, <1>9, <1>10, <1>11, <1>12, SlotSteps DEF Local

-----------------------------------------------------------------------------
\* The shutdown of an attempt.

\* The cleanup of an attempt moves, with what it records in the attempt.
LEMMA CleanupSteps ==
    ASSUME IInv, NEW s \in Slots, NEW y \in CleanupType, NEW o \in Replies \cup {"none"},
           cleanup' = [cleanup EXCEPT ![s] = y],
           slot' = [slot EXCEPT ![s].outcome = o],
           UNCHANGED <<mode, active, due>>, TableKept, \A t \in Slots : SeenBy(t),
           Local(s)'
    PROVE  IInv'
<1>1. /\ slot[s] \in SlotType /\ slot \in [Slots -> SlotType] /\ cleanup \in [Slots -> CleanupType]
      /\ active \in [Jobs -> Slots \cup {NoSlot}]
    BY SlotFacts
<1>2. slot' \in [Slots -> SlotType] BY <1>1 DEF SlotType
<1>3. /\ slot'[s].pc = slot[s].pc /\ slot'[s].job = slot[s].job /\ slot'[s].token = slot[s].token
      /\ \A t \in Slots : t # s => slot'[t] = slot[t] /\ cleanup'[t] = cleanup[t]
    BY <1>1 DEF SlotType
<1>4. \A j \in Jobs : active'[j] # NoSlot =>
          /\ active'[j] \in {active[j], s}
          /\ active'[j] = s => slot'[s].job = j /\ InAttempt(s)'
    BY <1>3 DEF IInv, ActiveInv, InAttempt
<1>5. cleanup' \in [Slots -> CleanupType] BY <1>1
<1> QED BY <1>1, <1>2, <1>3, <1>4, <1>5, OneMoves

LEMMA SameSlot ==
    ASSUME IInv, NEW s \in Slots, slot' = slot
    PROVE  slot' = [slot EXCEPT ![s].outcome = slot[s].outcome]
<1>1. slot[s] \in SlotType /\ slot \in [Slots -> SlotType] BY SlotFacts
<1>2. slot[s] = [slot[s] EXCEPT !.outcome = slot[s].outcome] BY <1>1 DEF SlotType
<1> QED BY <1>1, <1>2

\* The shutdown sends the release.
LEMMA CleanupSendStep ==
    ASSUME IInv, NEW s \in Slots, CleanupSend(s)
    PROVE  IInv'
<1> DEFINE y == [cleanup[s] EXCEPT !.stage = "releasing"]
<1>1. /\ slot[s] \in SlotType /\ cleanup[s] \in CleanupType /\ cleanup \in [Slots -> CleanupType]
      /\ SlotInv(s) /\ CompletionKnown(s) /\ CleanupInv(s) /\ slot[s].outcome \in Replies \cup {"none"}
    BY SlotFacts DEF SlotType
<1>2. y \in CleanupType /\ cleanup' = [cleanup EXCEPT ![s] = y] BY <1>1 DEF CleanupSend, CleanupType
<1>3. /\ cleanup'[s] = y /\ y.stage = "releasing" /\ y.reply = "none"
      /\ UNCHANGED <<store, mode, active, slot, due>>
    BY <1>1, <1>2 DEF CleanupSend, CleanupType, CleanupInv
<1> HIDE DEF y
<1>4. TableKept /\ \A t \in Slots : SeenBy(t) BY <1>3, StillTable
<1>5. SlotInv(s)' BY <1>1, <1>3 DEF CleanupSend, SlotInv, InAttempt, Ended, Settling, store
<1>6. CompletionKnown(s)' BY <1>1, <1>3 DEF CompletionKnown, Ended, store
<1>7. CleanupInv(s)' BY <1>1, <1>3 DEF CleanupSend, CleanupInv, Drained, Ended, Settling, store
<1>8. slot' = [slot EXCEPT ![s].outcome = slot[s].outcome] BY <1>3, SameSlot
<1> QED BY <1>1, <1>2, <1>3, <1>4, <1>5, <1>6, <1>7, <1>8, CleanupSteps DEF Local

\* The release of the shutdown takes effect.
LEMMA CleanupTakesEffectStep ==
    ASSUME IInv, NEW s \in Slots, NEW reply \in Replies, CleanupTakesEffect(s, reply)
    PROVE  IInv'
<1> DEFINE y == [cleanup[s] EXCEPT !.reply = reply]
<1>1. /\ slot[s] \in SlotType /\ cleanup[s] \in CleanupType /\ cleanup \in [Slots -> CleanupType]
      /\ SlotInv(s) /\ CompletionKnown(s) /\ CleanupInv(s) /\ slot[s].outcome \in Replies \cup {"none"}
    BY SlotFacts DEF SlotType
<1>2. y \in CleanupType /\ cleanup' = [cleanup EXCEPT ![s] = y]
    BY <1>1 DEF CleanupTakesEffect, CleanupType
<1>3. /\ cleanup'[s] = y /\ y.stage = cleanup[s].stage /\ y.reply = reply
      /\ UNCHANGED <<mode, active, slot, due>>
    BY <1>1, <1>2 DEF CleanupTakesEffect, CleanupType
<1> HIDE DEF y
<1>4. /\ cleanup[s].stage = "releasing" /\ slot[s].token # 0
      /\ slot[s].pc \notin {"completing", "releasing"}
    BY <1>1 DEF CleanupTakesEffect, CleanupInv
<1>5. TableKept /\ (\A t \in Slots : SeenBy(t))
      /\ (reply \in Settling => ending'[slot[s].job][slot[s].token] = reply)
    BY <1>4, FailChange DEF CleanupTakesEffect
<1>6. SeenBy(s) BY <1>5
<1>7. Ended(s)' = Ended(s) \/ (Ended(s) = "open" /\ Ended(s)' # "completed")
    BY <1>3, <1>4, <1>6 DEF SeenBy, Ended
<1>8. SlotInv(s)' BY <1>1, <1>3, <1>4, <1>6, <1>7 DEF SlotInv, SeenBy, InAttempt, Settling
<1>9. CompletionKnown(s)' BY <1>1, <1>3, <1>4, <1>7 DEF CompletionKnown
<1>10. CleanupInv(s)' BY <1>1, <1>3, <1>4, <1>5 DEF CleanupInv, Ended, Settling
<1>11. slot' = [slot EXCEPT ![s].outcome = slot[s].outcome] BY <1>3, SameSlot
<1> QED BY <1>1, <1>2, <1>3, <1>5, <1>8, <1>9, <1>10, <1>11, CleanupSteps DEF Local

\* The release of the shutdown is answered.
LEMMA CleanupReturnsStep ==
    ASSUME IInv, NEW s \in Slots, CleanupReturns(s)
    PROVE  IInv'
<1> DEFINE y == [stage |-> "done", reply |-> "none"]
<1> DEFINE o == Recorded(slot[s].outcome, cleanup[s].reply)
<1>1. /\ slot[s] \in SlotType /\ slot \in [Slots -> SlotType]
      /\ cleanup[s] \in CleanupType /\ cleanup \in [Slots -> CleanupType]
      /\ SlotInv(s) /\ CompletionKnown(s) /\ CleanupInv(s)
    BY SlotFacts
<1>2. y \in CleanupType BY DEF CleanupType
<1>3. o \in Replies \cup {"none"} BY <1>1 DEF Recorded, SlotType, CleanupType
<1>4. /\ cleanup' = [cleanup EXCEPT ![s] = y] /\ slot' = [slot EXCEPT ![s].outcome = o]
      /\ UNCHANGED <<store, mode, active, due>>
    BY DEF CleanupReturns
<1>5. /\ cleanup'[s] = y /\ y.stage = "done" /\ y.reply = "none" /\ slot'[s].outcome = o
      /\ slot'[s].pc = slot[s].pc /\ slot'[s].job = slot[s].job /\ slot'[s].token = slot[s].token
      /\ slot'[s].hb = slot[s].hb /\ slot'[s].reply = slot[s].reply /\ slot'[s].ack = slot[s].ack
    BY <1>1, <1>4 DEF SlotType
<1>6. /\ cleanup[s].stage = "releasing" /\ cleanup[s].reply # "none" /\ slot[s].token # 0
      /\ slot[s].pc \notin {"completing", "releasing", "claiming"}
    BY <1>1 DEF CleanupReturns, CleanupInv
<1>7. /\ slot[s].outcome # "none" => o = slot[s].outcome
      /\ slot[s].outcome = "none" => o = cleanup[s].reply
    BY DEF Recorded
<1> HIDE DEF y, o
<1>8. TableKept /\ \A t \in Slots : SeenBy(t) BY <1>4, StillTable
<1>9. SlotInv(s)'
    BY <1>1, <1>4, <1>5, <1>6, <1>7 DEF SlotInv, CleanupInv, InAttempt, Ended, Settling, store
<1>10. CompletionKnown(s)' BY <1>1, <1>4, <1>5, <1>6, <1>7 DEF CompletionKnown, Ended, store
<1>11. CleanupInv(s)' BY <1>1, <1>4, <1>5, <1>6 DEF CleanupInv, Settling
<1> QED BY <1>2, <1>3, <1>4, <1>8, <1>9, <1>10, <1>11, CleanupSteps DEF Local

-----------------------------------------------------------------------------
\* Steps of others, and of the process as a whole.

\* Somebody else changes the table.
LEMMA TableSteps ==
    ASSUME IInv, TableKept, \A t \in Slots : SeenBy(t), UNCHANGED process
    PROVE  IInv'
<1>1. UNCHANGED <<mode, active, slot, cleanup, due>> BY DEF process
<1>2. \A t \in Slots : Local(t)' BY <1>1, Bystander
<1>3. ClaimsAreDistinct' BY <1>1 DEF IInv, ClaimsAreDistinct
<1>4. ActiveInv' BY <1>1 DEF IInv, ActiveInv, InAttempt
<1>5. ProcessType' BY <1>1 DEF IInv, ProcessType
<1> QED BY <1>2, <1>3, <1>4, <1>5 DEF IInv, Local, TableKept

LEMMA TableNextStep ==
    ASSUME IInv, NEW j \in Jobs,
           LeaseExpires(j) \/ Reap(j) \/ ClaimElsewhere(j) \/ CompleteElsewhere(j)
    PROVE  IInv'
<1>1. CASE LeaseExpires(j)
    <2>1. TableKept /\ \A t \in Slots : SeenBy(t) BY <1>1, LeaseChange DEF LeaseExpires
    <2> QED BY <1>1, <2>1, TableSteps DEF LeaseExpires
<1>2. CASE Reap(j)
    <2>1. AfterFailure(j) \in {"queued", "completed", "dead_letter"} /\ "reaped" \in Endings
        BY DEF AfterFailure, Endings
    <2>2. TableKept /\ \A t \in Slots : SeenBy(t) BY <1>2, <2>1, EndChange DEF Reap
    <2> QED BY <1>2, <2>2, TableSteps DEF Reap
<1>3. CASE ClaimElsewhere(j)
    <2>1. TableKept /\ \A t \in Slots : SeenBy(t) BY <1>3, ClaimChange DEF ClaimElsewhere
    <2> QED BY <1>3, <2>1, TableSteps DEF ClaimElsewhere
<1>4. CASE CompleteElsewhere(j)
    <2>1. "completed" \in Endings BY DEF Endings
    <2>2. \A t \in Slots : slot[t].token # 0 => slot[t].job # j \/ slot[t].token # job[j].token
        BY <1>4 DEF CompleteElsewhere, IInv, SlotInv
    <2>3. \A t \in Slots : slot[t].token = 0 => SeenBy(t) BY DEF SeenBy
    <2>4. TableKept /\ \A t \in Slots : SeenBy(t)
        BY <1>4, <2>1, <2>2, <2>3, EndChange DEF CompleteElsewhere
    <2> QED BY <1>4, <2>4, TableSteps DEF CompleteElsewhere
<1> QED BY <1>1, <1>2, <1>3, <1>4

LEMMA ShutdownStep ==
    ASSUME IInv, ShutdownNext
    PROVE  IInv'
<1>1. UNCHANGED <<store, active, slot>>
    BY DEF ShutdownNext, Signal, DrainedExit, Deadline, CleanedExit, HardStop, Kill
<1>2. mode' \in {"stopping", "abandoning", "exited", "failed"} /\ (mode \in Out => mode' \in Out)
    BY DEF ShutdownNext, Signal, DrainedExit, Deadline, CleanedExit, HardStop, Kill, Out
<1>3. TableKept /\ \A t \in Slots : SeenBy(t) BY <1>1, StillTable
<1>4. ClaimsAreDistinct' BY <1>1 DEF IInv, ClaimsAreDistinct
<1>5. ActiveInv' BY <1>1 DEF IInv, ActiveInv, InAttempt
<1>6. CASE UNCHANGED <<cleanup, due>>
    <2>1. \A t \in Slots : Local(t)' BY <1>1, <1>2, <1>3, <1>6, Bystander
    <2>2. ProcessType' BY <1>1, <1>2, <1>6 DEF IInv, ProcessType
    <2> QED BY <1>3, <1>4, <1>5, <2>1, <2>2 DEF IInv, Local, TableKept
<1>7. CASE Deadline
    <2>1. cleanup \in [Slots -> CleanupType] BY DEF IInv, ProcessType
    <2>2. cleanup' = [s \in Slots |->
              IF \E j \in Jobs : active[j] = s THEN [cleanup[s] EXCEPT !.stage = "draining"]
                                              ELSE cleanup[s]]
        BY <1>7 DEF Deadline
    <2>3. cleanup' \in [Slots -> CleanupType] BY <2>1, <2>2 DEF CleanupType
    <2>4. mode = "stopping" /\ mode' = "abandoning" BY <1>7 DEF Deadline
    <2>7. due' \in [Slots -> 0 .. LastStep + 1]
        <3>1. \A t \in Slots : slot[t].step \in 0 .. LastStep
            BY DEF IInv, ProcessType, SlotType
        <3>2. \A t \in Slots : Reached(t) \in 0 .. LastStep + 1
            <4>1. \A k \in 0 .. LastStep : k \in 0 .. LastStep + 1 BY StepsAssumption
            <4>2. 0 \in 0 .. LastStep + 1 /\ LastStep + 1 \in 0 .. LastStep + 1
                BY StepsAssumption
            <4> QED BY <3>1, <4>1, <4>2 DEF Reached
        <3>3. due' = [t \in Slots |-> Reached(t)] BY <1>7 DEF Deadline
        <3> QED BY <3>2, <3>3
    <2>5. ProcessType' BY <1>1, <2>3, <2>4, <2>7 DEF IInv, ProcessType
    <2>6. ASSUME NEW t \in Slots PROVE Local(t)'
        <3>1. SlotInv(t) /\ CompletionKnown(t) /\ CleanupInv(t) /\ cleanup[t] \in CleanupType
            BY SlotFacts
        <3>2. cleanup[t].stage = "none" BY <3>1, <2>4 DEF CleanupInv
        <3>3. CASE \E j \in Jobs : active[j] = t
            <4>1. InAttempt(t)
                <5>1. PICK j \in Jobs : active[j] = t BY <3>3
                <5> QED BY <5>1, NoSlotAssumption DEF IInv, ActiveInv
            <4>2. cleanup'[t].stage = "draining" /\ cleanup'[t].reply = "none"
                BY <2>1, <2>2, <3>1, <3>2, <3>3 DEF CleanupType, CleanupInv
            <4>3. SlotInv(t)' BY <1>1, <3>1, <3>2, <4>2 DEF SlotInv, InAttempt, Ended, Settling, store
            <4>4. CompletionKnown(t)' BY <1>1, <3>1 DEF CompletionKnown, Ended, store
            <4>5. slot[t].token # 0 /\ slot[t].pc # "claiming" BY <3>1, <4>1 DEF SlotInv, InAttempt
            <4>6. CleanupInv(t)' BY <1>1, <2>4, <4>2, <4>5 DEF CleanupInv, Settling
            <4> QED BY <4>3, <4>4, <4>6 DEF Local
        <3>4. CASE ~\E j \in Jobs : active[j] = t
            <4>1. cleanup'[t] = cleanup[t] BY <2>2, <3>4
            <4> QED BY <1>1, <1>2, <1>3, <4>1, Bystander
        <3> QED BY <3>3, <3>4
    <2> QED BY <1>3, <1>4, <1>5, <2>5, <2>6 DEF IInv, Local, TableKept
<1> QED BY <1>6, <1>7 DEF ShutdownNext, Signal, DrainedExit, CleanedExit, HardStop, Kill

-----------------------------------------------------------------------------
\* The invariant.

LEMMA InitIInv == Init => IInv
<1> SUFFICES ASSUME Init PROVE IInv OBVIOUS
<1>1. TableType
    <2>1. [status |-> "queued", attempts |-> 0, token |-> 0, by |-> "nobody", lease |-> "null"] \in JobType
        BY StepsAssumption DEF JobType
    <2>2. << >> \in Seq(Endings) OBVIOUS
    <2> QED BY <2>1, <2>2 DEF Init, TableType
<1>2. ProcessType
    <2>1. Nowhere \in SlotType BY StepsAssumption DEF Nowhere, SlotType
    <2>2. [stage |-> "none", reply |-> "none"] \in CleanupType BY DEF CleanupType
    <2>3. 0 \in 0 .. LastStep + 1 BY StepsAssumption
    <2> QED BY <2>1, <2>2, <2>3 DEF Init, ProcessType
<1>3. \A j \in Jobs : JobInv(j) BY DEF Init, JobInv
<1>4. \A s \in Slots : slot[s] = Nowhere /\ cleanup[s].stage = "none" /\ cleanup[s].reply = "none"
    BY DEF Init
<1>5. ASSUME NEW s \in Slots PROVE SlotInv(s)
    <2>1. /\ slot[s].token = 0 /\ slot[s].pc = "top" /\ slot[s].hb = "off" /\ slot[s].reply = "none"
          /\ slot[s].outcome = "none"
        BY <1>4 DEF Nowhere
    <2> QED BY <2>1 DEF SlotInv, InAttempt, Settling
<1>6. \A s \in Slots : CompletionKnown(s) BY <1>4 DEF Nowhere, CompletionKnown
<1>7. \A s \in Slots : CleanupInv(s) BY <1>4 DEF CleanupInv, Settling
<1>8. ClaimsAreDistinct BY <1>4 DEF Nowhere, ClaimsAreDistinct
<1>9. ActiveInv BY DEF Init, ActiveInv
<1> QED BY <1>1, <1>2, <1>3, <1>5, <1>6, <1>7, <1>8, <1>9 DEF IInv

LEMMA NextIInv == IInv /\ [Next]_vars => IInv'
<1> SUFFICES ASSUME IInv, [Next]_vars PROVE IInv' OBVIOUS
<1>1. CASE TableNext BY <1>1, TableNextStep DEF TableNext
<1>2. ASSUME NEW s \in Slots, SlotNext(s) PROVE IInv'
    <2>1. CASE ClaimSend(s) BY <2>1, ClaimSendStep
    <2>2. CASE \E j \in Jobs : ClaimCommits(s, j) BY <2>2, ClaimCommitsStep
    <2>3. CASE DatabaseAnswers(s)
        BY <2>3, CompleteTakesEffectStep, ReleaseTakesEffectStep, CleanupTakesEffectStep
        DEF DatabaseAnswers
    <2>4. CASE ProcessGoesOn(s)
        BY <2>4, LoopEndsStep, ClaimReturnsNothingStep, ClaimReturnsStep, LeaseLostInStep, NextStepStep,
           CompleteSendStep, PipelineFailsStep, CompleteReturnsStep, GiveBackStep, ReleaseReturnsStep,
           UnwindStep
        DEF ProcessGoesOn
    <2>5. CASE HeartbeatGoesOn(s) BY <2>5, RenewSendStep, RenewReturnsStep DEF HeartbeatGoesOn
    <2>6. CASE CleanupGoesOn(s) BY <2>6, CleanupSendStep, CleanupReturnsStep DEF CleanupGoesOn
    <2> QED BY <1>2, <2>1, <2>2, <2>3, <2>4, <2>5, <2>6 DEF SlotNext
<1>3. CASE ShutdownNext BY <1>3, ShutdownStep
<1>4. CASE UNCHANGED vars
    <2>1. UNCHANGED store /\ UNCHANGED process BY <1>4 DEF vars, store, process
    <2> QED BY <2>1, StillTable, TableSteps
<1> QED BY <1>1, <1>2, <1>3, <1>4 DEF Next

LEMMA InvariantHolds == Spec => []IInv
BY InitIInv, NextIInv, PTL DEF Spec

-----------------------------------------------------------------------------
\* The theorems.

\* Every reachable state of a worker process is well typed.
THEOREM TypeCorrect == Spec => []TypeOK
<1>1. IInv => TypeOK
    BY DEF IInv, TableType, ProcessType, JobType, SlotType, CleanupType, Endings, TypeOK
<1> QED BY <1>1, InvariantHolds, PTL

\* What runOnce, its recorder and the shutdown count for an attempt is what the
\* database did with its claim, whatever else the process does meanwhile.
THEOREM OutcomesAreTruthful == Spec => []OutcomeIsTruthful
<1>1. ASSUME IInv, NEW s \in Slots, slot[s].outcome # "none"
      PROVE  /\ slot[s].outcome \in {"completed", "retried", "dead_letter"} =>
                    Ended(s) = slot[s].outcome
             /\ slot[s].outcome = "lease_lost" /\ slot[s].ack = "kept" =>
                    Ended(s) \in {"open", "reaped", "retried", "dead_letter"}
    <2>1. SlotInv(s) /\ CompletionKnown(s) /\ CleanupInv(s) BY <1>1, SlotFacts
    <2>2. slot[s].token # 0 BY <1>1, <2>1 DEF SlotInv
    <2>3. Ended(s) \in Endings BY <1>1, <2>2, HeldClaim
    <2>4. slot[s].outcome \in Settling => Ended(s) = slot[s].outcome BY <2>1 DEF SlotInv
    <2>5. slot[s].outcome = "lease_lost" /\ slot[s].ack = "kept" => Ended(s) # "completed"
        <3>1. slot[s].pc # "completing" BY <1>1, <2>1 DEF SlotInv, CleanupInv
        <3> QED BY <2>1, <2>2, <3>1 DEF CompletionKnown
    <2> QED BY <2>3, <2>4, <2>5 DEF Settling, Endings
<1>2. IInv => OutcomeIsTruthful BY <1>1 DEF OutcomeIsTruthful
<1> QED BY <1>2, InvariantHolds, PTL

\* While abandonAndExit releases a claim, its attempt has no renewal and no final
\* write in flight.
THEOREM ReleasesRunAlone == Spec => []ReleaseRunsAlone
<1>1. IInv => ReleaseRunsAlone BY DEF IInv, CleanupInv, ReleaseRunsAlone
<1> QED BY <1>1, InvariantHolds, PTL

-----------------------------------------------------------------------------
\* Where an attempt may be in its pipeline after the deadline.
DeadlineInv ==
    /\ \A s \in Slots : slot[s].pc = "pipeline" => slot[s].step # 0
    /\ DeadlineStopsAtNextCheck

\* A step takes a slot out of its pipeline, to its beginning while the process is
\* running, or further along it, past a check only before the deadline.
StaysOnCourse(s) ==
    \/ slot'[s].pc \notin {"pipeline", "completing"}
    \/ slot'[s].pc = slot[s].pc /\ slot'[s].step = slot[s].step
    \/ mode = "running" /\ slot'[s].pc = "pipeline" /\ slot'[s].step = 1
    \/ /\ slot[s].pc = "pipeline" /\ slot'[s].pc = "pipeline" /\ slot'[s].step = slot[s].step + 1
       /\ mode = "abandoning" => slot[s].step \notin Checked
    \/ mode # "abandoning" /\ slot'[s].pc = "completing"

LEMMA SlotStaysOnCourse ==
    ASSUME IInv, NEW s \in Slots, NEW t \in Slots, SlotNext(t)
    PROVE  StaysOnCourse(s) /\ UNCHANGED <<mode, due>>
<1>1. slot \in [Slots -> SlotType] /\ slot[s] \in SlotType BY SlotFacts
<1>2. slot[s].step \in Nat BY <1>1, StepsAssumption DEF SlotType
<1> DEFINE Same == slot'[s].step = slot[s].step /\ slot'[s].pc = slot[s].pc
<1>3. CASE ClaimSend(t) BY <1>1, <1>3 DEF ClaimSend, StaysOnCourse
<1>4. CASE \E j \in Jobs : ClaimCommits(t, j)
    BY <1>1, <1>4 DEF ClaimCommits, SlotType, StaysOnCourse
<1>5. CASE DatabaseAnswers(t)
    <2>1. ASSUME NEW reply \in Replies, CompleteTakesEffect(t, reply)
          PROVE  Same /\ UNCHANGED <<mode, due>>
        BY <1>1, <2>1 DEF CompleteTakesEffect, SlotType
    <2>2. ASSUME NEW reply \in Replies, ReleaseTakesEffect(t, reply)
          PROVE  Same /\ UNCHANGED <<mode, due>>
        BY <1>1, <2>2 DEF ReleaseTakesEffect, SlotType
    <2>3. ASSUME NEW reply \in Replies, CleanupTakesEffect(t, reply)
          PROVE  Same /\ UNCHANGED <<mode, due>>
        BY <2>3 DEF CleanupTakesEffect
    <2> QED BY <1>5, <2>1, <2>2, <2>3 DEF DatabaseAnswers, StaysOnCourse
<1>6. CASE HeartbeatGoesOn(t)
    <2>1. ASSUME RenewSend(t)
          PROVE  Same /\ UNCHANGED <<mode, due>>
        BY <1>1, <2>1 DEF RenewSend, SlotType
    <2>2. ASSUME NEW answer \in {"renewed", "refused", "error"}, RenewReturns(t, answer)
          PROVE  Same /\ UNCHANGED <<mode, due>>
        BY <1>1, <2>2 DEF RenewReturns, SlotType
    <2> QED BY <1>6, <2>1, <2>2 DEF HeartbeatGoesOn, StaysOnCourse
<1>7. CASE CleanupGoesOn(t)
    BY <1>1, <1>7 DEF CleanupGoesOn, CleanupSend, CleanupReturns, SlotType, StaysOnCourse
<1>8. CASE ProcessGoesOn(t)
    <2> USE DEF StaysOnCourse, SlotType
    <2>1. CASE LoopEnds(t) BY <1>1, <2>1 DEF LoopEnds
    <2>2. CASE ClaimReturnsNothing(t) BY <1>1, <2>2 DEF ClaimReturnsNothing, Nowhere
    <2>3. CASE ClaimReturns(t) BY <1>1, <2>3 DEF ClaimReturns
    <2>4. CASE LeaseLostIn(t) BY <1>1, <2>4 DEF LeaseLostIn
    <2>5. CASE NextStep(t) BY <1>1, <1>2, <2>5 DEF NextStep, StoppedByCheck, MustAbandon
    <2>6. CASE CompleteSend(t)
        BY <1>1, <2>6, StepsAssumption DEF CompleteSend, StoppedByCheck, MustAbandon
    <2>7. CASE PipelineFails(t) BY <1>1, <2>7 DEF PipelineFails
    <2>8. CASE CompleteReturns(t) BY <1>1, <2>8 DEF CompleteReturns
    <2>9. CASE GiveBack(t) BY <1>1, <2>9 DEF GiveBack
    <2>10. CASE ReleaseReturns(t) BY <1>1, <2>10 DEF ReleaseReturns
    <2>11. CASE Unwind(t) BY <1>1, <2>11 DEF Unwind
    <2> QED
        BY <1>8, <2>1, <2>2, <2>3, <2>4, <2>5, <2>6, <2>7, <2>8, <2>9, <2>10, <2>11 DEF ProcessGoesOn
<1> QED BY <1>3, <1>4, <1>5, <1>6, <1>7, <1>8 DEF SlotNext

LEMMA DeadlineStep ==
    ASSUME IInv, DeadlineInv, [Next]_vars
    PROVE  DeadlineInv'
<1>1. slot \in [Slots -> SlotType] /\ due \in [Slots -> 0 .. LastStep + 1]
    BY DEF IInv, ProcessType
<1>2. ASSUME NEW s \in Slots
      PROVE  slot[s].step \in Nat /\ due[s] \in Nat
    BY <1>1, StepsAssumption DEF SlotType
<1>3. ASSUME NEW t \in Slots, SlotNext(t) PROVE DeadlineInv'
    <2>1. ASSUME NEW s \in Slots
          PROVE  /\ slot'[s].pc = "pipeline" => slot'[s].step # 0
                 /\ mode' = "abandoning" =>
                     /\ slot'[s].pc = "pipeline" =>
                            due'[s] # 0 /\ \A k \in due'[s] .. slot'[s].step - 1 : k \notin Checked
                     /\ slot'[s].pc = "completing" => due'[s] = LastStep + 1
        <3>1. StaysOnCourse(s) /\ mode' = mode /\ due'[s] = due[s] BY <1>3, SlotStaysOnCourse
        <3>2. slot[s].step \in Nat /\ due[s] \in Nat BY <1>2
        <3>3. /\ slot[s].pc = "pipeline" => slot[s].step # 0
              /\ mode = "abandoning" =>
                     /\ slot[s].pc = "pipeline" =>
                            due[s] # 0 /\ \A k \in due[s] .. slot[s].step - 1 : k \notin Checked
                     /\ slot[s].pc = "completing" => due[s] = LastStep + 1
            BY DEF DeadlineInv, DeadlineStopsAtNextCheck
        <3>4. CASE /\ slot[s].pc = "pipeline" /\ slot'[s].pc = "pipeline"
                   /\ slot'[s].step = slot[s].step + 1
                   /\ mode = "abandoning" => slot[s].step \notin Checked
            <4>1. \A k \in due[s] .. slot'[s].step - 1 :
                        k = slot[s].step \/ k \in due[s] .. slot[s].step - 1
                BY <3>2, <3>4
            <4> QED BY <3>1, <3>2, <3>3, <3>4, <4>1
        <3> QED BY <3>1, <3>2, <3>3, <3>4 DEF StaysOnCourse
    <2> QED BY <2>1 DEF DeadlineInv, DeadlineStopsAtNextCheck
<1>4. CASE TableNext \/ UNCHANGED vars
    <2>1. UNCHANGED <<mode, slot, due>>
        BY <1>4 DEF TableNext, LeaseExpires, Reap, ClaimElsewhere, CompleteElsewhere, vars, process
    <2> QED BY <2>1 DEF DeadlineInv, DeadlineStopsAtNextCheck
<1>5. CASE Deadline
    <2>1. slot' = slot /\ \A s \in Slots : due'[s] = Reached(s) BY <1>5 DEF Deadline
    <2>2. ASSUME NEW s \in Slots, slot[s].pc = "pipeline"
          PROVE  due'[s] = slot[s].step /\ slot[s].step # 0
        BY <2>1, <2>2 DEF Reached, InAttempt, DeadlineInv
    <2>3. ASSUME NEW s \in Slots, slot[s].pc = "completing"
          PROVE  due'[s] = LastStep + 1
        BY <2>1, <2>3 DEF Reached, InAttempt
    <2>4. \A s \in Slots : \A k \in slot[s].step .. slot[s].step - 1 : FALSE BY <1>2
    <2> QED BY <2>1, <2>2, <2>3, <2>4 DEF DeadlineInv, DeadlineStopsAtNextCheck
<1>6. CASE ShutdownNext /\ ~Deadline
    <2>1. slot' = slot /\ due' = due /\ mode' # "abandoning"
        BY <1>6 DEF ShutdownNext, Signal, DrainedExit, CleanedExit, HardStop, Kill
    <2> QED BY <2>1 DEF DeadlineInv, DeadlineStopsAtNextCheck
<1> QED BY <1>3, <1>4, <1>5, <1>6 DEF Next

\* After the deadline of the shutdown, processJob goes on to its next call of
\* assertActive and no further, in every slot and for any pipeline: no call of the
\* model begins, no completion is sent, and a late claim starts no pipeline.
THEOREM AttemptsStopAtNextCheck == Spec => []DeadlineStopsAtNextCheck
<1>1. Init => DeadlineInv
    BY DEF Init, Nowhere, DeadlineInv, DeadlineStopsAtNextCheck
<1>2. IInv /\ DeadlineInv /\ [Next]_vars => DeadlineInv' BY DeadlineStep
<1>3. DeadlineInv => DeadlineStopsAtNextCheck BY DEF DeadlineInv
<1> QED BY <1>1, <1>2, <1>3, InvariantHolds, PTL DEF Spec

-----------------------------------------------------------------------------
\* With one slot, its attempt is registered from beginning to end, so nothing
\* that runs at the deadline is overlooked.
OneSlotInv(x) ==
    /\ mode \in {"running", "stopping"} =>
        due[x] = 0 /\ (InAttempt(x) => active[slot[x].job] = x)
    /\ mode \in {"abandoning", "exited"} /\ due[x] # 0 => cleanup[x].stage # "none"
    /\ mode = "exited" /\ due[x] # 0 => cleanup[x].stage = "done"

\* What a step of the slot does to its registration and its shutdown task.
LEMMA RegistrationStep ==
    ASSUME IInv, NEW x \in Slots, SlotNext(x)
    PROVE  /\ UNCHANGED <<mode, due>>
           /\ \/ ~InAttempt(x)'
              \/ InAttempt(x) /\ slot'[x].job = slot[x].job /\ UNCHANGED active
              \/ active'[slot'[x].job] = x
           /\ cleanup[x].stage # "none" => cleanup'[x].stage # "none"
           /\ cleanup[x].stage = "done" => cleanup'[x].stage = "done"
<1>1. slot \in [Slots -> SlotType] /\ cleanup \in [Slots -> CleanupType]
      /\ active \in [Jobs -> Slots \cup {NoSlot}]
    BY DEF IInv, ProcessType
<1>2. slot[x].token # 0 => slot[x].job \in Jobs BY DEF IInv, SlotInv
<1>3. CASE ClaimSend(x) BY <1>1, <1>3 DEF ClaimSend, InAttempt
<1>4. CASE \E j \in Jobs : ClaimCommits(x, j)
    BY <1>1, <1>4 DEF ClaimCommits, InAttempt, SlotType
<1>5. CASE DatabaseAnswers(x)
    <2>1. ASSUME NEW reply \in Replies, CompleteTakesEffect(x, reply)
          PROVE  /\ slot'[x].pc = slot[x].pc /\ slot'[x].job = slot[x].job
                 /\ UNCHANGED <<mode, due, active, cleanup>>
        BY <1>1, <2>1 DEF CompleteTakesEffect, SlotType
    <2>2. ASSUME NEW reply \in Replies, ReleaseTakesEffect(x, reply)
          PROVE  /\ slot'[x].pc = slot[x].pc /\ slot'[x].job = slot[x].job
                 /\ UNCHANGED <<mode, due, active, cleanup>>
        BY <1>1, <2>2 DEF ReleaseTakesEffect, SlotType
    <2>3. ASSUME NEW reply \in Replies, CleanupTakesEffect(x, reply)
          PROVE  /\ cleanup'[x].stage = cleanup[x].stage
                 /\ UNCHANGED <<mode, due, active, slot>>
        BY <1>1, <2>3 DEF CleanupTakesEffect, CleanupType
    <2> QED BY <1>5, <2>1, <2>2, <2>3 DEF DatabaseAnswers, InAttempt
<1>6. CASE ClaimReturns(x)
    BY <1>1, <1>2, <1>6 DEF ClaimReturns, SlotType
<1>7. CASE Unwind(x)
    BY <1>1, <1>7 DEF Unwind, InAttempt, SlotType
<1>8. CASE ProcessGoesOn(x) /\ ~ClaimReturns(x) /\ ~Unwind(x)
    <2>1. CASE LoopEnds(x) \/ ClaimReturnsNothing(x)
        BY <1>1, <2>1 DEF LoopEnds, ClaimReturnsNothing, InAttempt, SlotType, Nowhere
    <2>2. CASE LeaseLostIn(x) BY <1>1, <2>2 DEF LeaseLostIn, InAttempt, SlotType
    <2>3. CASE NextStep(x) BY <1>1, <2>3 DEF NextStep, InAttempt, SlotType
    <2>4. CASE CompleteSend(x) BY <1>1, <2>4 DEF CompleteSend, InAttempt, SlotType
    <2>5. CASE PipelineFails(x) BY <1>1, <2>5 DEF PipelineFails, InAttempt, SlotType
    <2>6. CASE CompleteReturns(x) BY <1>1, <2>6 DEF CompleteReturns, InAttempt, SlotType
    <2>7. CASE GiveBack(x) BY <1>1, <2>7 DEF GiveBack, InAttempt, SlotType
    <2>8. CASE ReleaseReturns(x) BY <1>1, <2>8 DEF ReleaseReturns, InAttempt, SlotType
    <2> QED BY <1>8, <2>1, <2>2, <2>3, <2>4, <2>5, <2>6, <2>7, <2>8 DEF ProcessGoesOn
<1>9. CASE HeartbeatGoesOn(x)
    <2>1. CASE RenewSend(x) BY <1>1, <2>1 DEF RenewSend, InAttempt, SlotType
    <2>2. ASSUME NEW answer \in {"renewed", "refused", "error"}, RenewReturns(x, answer)
          PROVE  /\ slot'[x].pc = slot[x].pc /\ slot'[x].job = slot[x].job
                 /\ UNCHANGED <<mode, due, active, cleanup>>
        BY <1>1, <2>2 DEF RenewReturns, SlotType
    <2> QED BY <1>9, <2>1, <2>2 DEF HeartbeatGoesOn, InAttempt
<1>10. CASE CleanupGoesOn(x)
    BY <1>1, <1>10 DEF CleanupGoesOn, CleanupSend, CleanupReturns, InAttempt, SlotType, CleanupType
<1> QED BY <1>3, <1>4, <1>5, <1>6, <1>7, <1>8, <1>9, <1>10 DEF SlotNext

LEMMA OneSlotStep ==
    ASSUME NEW x, Slots = {x}, IInv, OneSlotInv(x), [Next]_vars
    PROVE  OneSlotInv(x)'
<1>1. x \in Slots OBVIOUS
<1>2. CASE \E s \in Slots : SlotNext(s)
    <2>1. SlotNext(x) BY <1>2
    <2> QED BY <1>1, <2>1, RegistrationStep DEF OneSlotInv
<1>3. CASE TableNext \/ UNCHANGED vars
    <2>1. UNCHANGED process
        BY <1>3 DEF TableNext, LeaseExpires, Reap, ClaimElsewhere, CompleteElsewhere, vars, process
    <2> QED BY <2>1 DEF OneSlotInv, InAttempt, process
<1>4. CASE Deadline
    <2>1. mode = "stopping" /\ mode' = "abandoning" /\ UNCHANGED <<active, slot>>
          /\ (due'[x] # 0 => InAttempt(x))
        BY <1>1, <1>4 DEF Deadline, Reached
    <2>2. ASSUME InAttempt(x) PROVE cleanup'[x].stage = "draining"
        <3>1. slot[x].job \in Jobs BY <1>1, <2>2 DEF IInv, SlotInv
        <3>2. active[slot[x].job] = x BY <2>1, <2>2 DEF OneSlotInv
        <3>3. cleanup[x] \in CleanupType BY <1>1 DEF IInv, ProcessType
        <3> QED BY <1>1, <1>4, <3>1, <3>2, <3>3 DEF Deadline, CleanupType
    <2> QED BY <2>1, <2>2 DEF OneSlotInv
<1>5. CASE CleanedExit
    BY <1>1, <1>5 DEF CleanedExit, OneSlotInv
<1>6. CASE DrainedExit
    BY <1>6 DEF DrainedExit, OneSlotInv
<1>7. CASE Signal \/ HardStop \/ Kill
    BY <1>7 DEF Signal, HardStop, Kill, OneSlotInv, InAttempt
<1> QED BY <1>2, <1>3, <1>4, <1>5, <1>6, <1>7 DEF Next, ShutdownNext

\* A worker with WORKER_CONCURRENCY = 1 releases, or has otherwise seen settled,
\* the claim of the attempt that was running at its deadline, before it exits with
\* code 0.  (With two slots abandonAndExit may overlook an attempt.)
THEOREM OneSlotReleases ==
    ASSUME NEW x, Slots = {x}
    PROVE  Spec => []DeadlineReleasesEveryAttempt
<1>1. Init => OneSlotInv(x)
    BY DEF Init, OneSlotInv, InAttempt, Nowhere
<1>2. IInv /\ OneSlotInv(x) /\ [Next]_vars => OneSlotInv(x)'
    BY OneSlotStep
<1>3. IInv /\ OneSlotInv(x) => DeadlineReleasesEveryAttempt
    BY DEF OneSlotInv, DeadlineReleasesEveryAttempt, IInv, ProcessType
<1> QED BY <1>1, <1>2, <1>3, InvariantHolds, PTL DEF Spec
=============================================================================
