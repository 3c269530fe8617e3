------------------------------- MODULE Worker -------------------------------
(***************************************************************************)
(* One worker process of src/server/src/worker.ts: its slots, the          *)
(* heartbeat of each attempt, the `active` map, and its shutdown.  The     *)
(* jobs table appears through the atomic effects of the operations the     *)
(* process calls; that they may be taken as atomic and fenced is what      *)
(* JobStore shows.                                                         *)
(*                                                                         *)
(* Between two awaits the process runs alone; each action is what happens  *)
(* from one await to the next.  A database call is sent, takes effect some *)
(* time later (or never), and is answered some time after that, possibly   *)
(* with an error although it took effect.  Calls in flight when the        *)
(* process ends may still take effect.                                     *)
(*                                                                         *)
(* The retry delay is left out: a queued job may be claimed at any time.   *)
(***************************************************************************)
EXTENDS Naturals, Sequences

CONSTANTS Slots,        \* WORKER_CONCURRENCY loops
          NoSlot,
          Jobs,
          MaxAttempts,  \* jobs.max_attempts
          LastStep,     \* pipeline steps of an attempt, each with its own await
          Checked       \* the steps after which assertActive is called: those a
                        \* trace follows, what precedes the call of the model,
                        \* and the last one; not the writing of a trace itself

ASSUME NoSlotAssumption == NoSlot \notin Slots
ASSUME StepsAssumption ==
    /\ MaxAttempts \in Nat \ {0} /\ LastStep \in Nat \ {0}
    /\ Checked \subseteq 1 .. LastStep /\ LastStep \in Checked

VARIABLES
    \* The jobs table.
    job,      \* job[j]: status, attempts and ownership columns of j
    ending,   \* ending[j][t]: how the claim with token t ended
    \* The process.
    mode,     \* how far the process is on its way out
    active,   \* active[j]: the slot whose attempt is registered for job j
    slot,     \* slot[s]: where the loop of slot s is, and its current attempt
    cleanup,  \* cleanup[s]: the shutdown task for the attempt of slot s
    due       \* history: how far the attempt of each slot was at the deadline

store == <<job, ending>>
process == <<mode, active, slot, cleanup, due>>
vars == <<job, ending, mode, active, slot, cleanup, due>>

Nowhere == [pc |-> "top", job |-> NoSlot, token |-> 0, step |-> 0, hb |-> "off",
            lost |-> "no", reply |-> "none", ack |-> "kept", outcome |-> "none"]

Init ==
    /\ job = [j \in Jobs |-> [status |-> "queued", attempts |-> 0, token |-> 0,
                           by |-> "nobody", lease |-> "null"]]
    /\ ending = [j \in Jobs |-> << >>]
    /\ mode = "running"
    /\ active = [j \in Jobs |-> NoSlot]
    /\ slot = [s \in Slots |-> Nowhere]
    /\ cleanup = [s \in Slots |-> [stage |-> "none", reply |-> "none"]]
    /\ due = [s \in Slots |-> 0]

Alive == mode \in {"running", "stopping", "abandoning"}

-----------------------------------------------------------------------------
\* Effects on the jobs table (claimNextJob, renewJobLease, completeJob,
\* failOrRetryJob, reapExpiredJobs).

Claimable(j) == job[j].status = "queued" /\ job[j].attempts < MaxAttempts

Claim(j, who) ==
    /\ job' = [job EXCEPT ![j] = [status |-> "running", attempts |-> @.attempts + 1,
                                  token |-> Len(ending[j]) + 1, by |-> who, lease |-> "live"]]
    /\ ending' = [ending EXCEPT ![j] = Append(@, "open")]

Owns(j, t) == job[j].status = "running" /\ job[j].token = t /\ job[j].lease = "live"

AfterFailure(j) == IF job[j].attempts < MaxAttempts THEN "queued" ELSE "dead_letter"

\* The claim of j ends as e, the job goes on with the given status.
End(j, status, e) ==
    /\ job' = [job EXCEPT ![j] = [@ EXCEPT !.status = status, !.token = 0, !.by = "nobody",
                                            !.lease = "null"]]
    /\ ending' = [ending EXCEPT ![j][job[j].token] = e]

ReleasedAs(j) == IF AfterFailure(j) = "queued" THEN "retried" ELSE "dead_letter"

Release(j) == End(j, AfterFailure(j), ReleasedAs(j))

LeaseExpires(j) ==
    /\ job[j].lease = "live"
    /\ job' = [job EXCEPT ![j].lease = "expired"]
    /\ UNCHANGED <<ending, process>>

Reap(j) ==
    /\ job[j].lease = "expired"
    /\ End(j, AfterFailure(j), "reaped")
    /\ UNCHANGED process

\* Other workers claim jobs too; what they do with them, or that they die,
\* shows in the table only.
ClaimElsewhere(j) == Claimable(j) /\ Claim(j, "other") /\ UNCHANGED process

CompleteElsewhere(j) ==
    /\ job[j].by = "other" /\ job[j].lease = "live"
    /\ End(j, "completed", "completed")
    /\ UNCHANGED process

-----------------------------------------------------------------------------
\* One attempt.

\* The heartbeat is being stopped: by the attempt itself or by the shutdown.
Stopped(s) == slot[s].pc \in {"preRelease", "draining"} \/ cleanup[s].stage # "none"

\* heartbeat.stop() returns once no renewal is in flight.
Drained(s) == slot[s].hb # "renewing"

\* The recorder of beginAttempt: the first outcome counts.
Recorded(old, new) == IF old = "none" THEN new ELSE old

\* workerLoop: send a claim, unless the process is stopping.
ClaimSend(s) ==
    /\ mode = "running" /\ slot[s].pc = "top"
    /\ slot' = [slot EXCEPT ![s] = [Nowhere EXCEPT !.pc = "claiming"]]
    /\ UNCHANGED <<store, mode, active, cleanup, due>>

LoopEnds(s) ==
    /\ mode \in {"stopping", "abandoning"} /\ slot[s].pc = "top"
    /\ slot' = [slot EXCEPT ![s].pc = "ended"]
    /\ UNCHANGED <<store, mode, active, cleanup, due>>

ClaimCommits(s, j) ==
    /\ slot[s].pc = "claiming" /\ slot[s].token = 0
    /\ Claimable(j) /\ Claim(j, "us")
    /\ slot' = [slot EXCEPT ![s] = [@ EXCEPT !.job = j, !.token = Len(ending[j]) + 1]]
    /\ UNCHANGED <<mode, active, cleanup, due>>

\* No job, or an error: also one that hides a claim that was committed.
ClaimReturnsNothing(s) ==
    /\ Alive /\ slot[s].pc = "claiming"
    /\ slot' = [slot EXCEPT ![s] = Nowhere]
    /\ UNCHANGED <<store, mode, active, cleanup, due>>

\* Mutant: the attempt is not registered.
ClaimReturnsUnregistered(s) ==
    /\ Alive /\ slot[s].pc = "claiming" /\ slot[s].token # 0
    /\ slot' = [slot EXCEPT ![s] =
           [@ EXCEPT !.hb = "sleeping",
                     !.pc = IF mode = "running" THEN "pipeline" ELSE "preRelease",
                     !.step = IF mode = "running" THEN 1 ELSE 0]]
    /\ UNCHANGED <<store, mode, active, cleanup, due>>

\* runOnce with a job: start the heartbeat, register the attempt, and start
\* the pipeline or, when the signal came first, give the job back.
ClaimReturns(s) ==
    /\ Alive /\ slot[s].pc = "claiming" /\ slot[s].token # 0
    /\ active' = [active EXCEPT ![slot[s].job] = s]
    /\ slot' = [slot EXCEPT ![s] =
           [@ EXCEPT !.hb = "sleeping",
                     !.pc = IF mode = "running" THEN "pipeline" ELSE "preRelease",
                     !.step = IF mode = "running" THEN 1 ELSE 0]]
    /\ UNCHANGED <<store, mode, cleanup, due>>

\* The heartbeat renews serially until it is stopped or ownership is in doubt.
\* A renewal takes effect as it is answered; one that takes effect earlier only
\* makes the drain last longer.
RenewSend(s) ==
    /\ Alive /\ slot[s].hb = "sleeping" /\ slot[s].lost = "no" /\ ~Stopped(s)
    /\ slot' = [slot EXCEPT ![s].hb = "renewing"]
    /\ UNCHANGED <<store, mode, active, cleanup, due>>

RenewReturns(s, answer) ==
    LET j == slot[s].job IN
    /\ Alive /\ slot[s].hb = "renewing"
    /\ answer \in IF Owns(j, slot[s].token) THEN {"renewed", "error"} ELSE {"refused", "error"}
    /\ job' = IF answer = "renewed" THEN [job EXCEPT ![j].lease = "live"] ELSE job
    /\ slot' = [slot EXCEPT ![s] =
           [@ EXCEPT !.hb = "sleeping", !.lost = IF answer = "renewed" THEN "no" ELSE "yes"]]
    /\ UNCHANGED <<ending, mode, active, cleanup, due>>

\* Mutant: only the heartbeat is asked, not the shutdown.
MustAbandonWhenLost(s) == slot[s].lost = "yes"

\* assertActive throws LeaseLostError.
MustAbandon(s) == mode = "abandoning" \/ slot[s].lost = "yes"

\* assertActive is called now, and throws.
StoppedByCheck(s) == slot[s].step \in Checked /\ MustAbandon(s)

\* What the awaited step returned is discarded, and the attempt unwinds.
LeaseLostIn(s) ==
    /\ Alive /\ slot[s].pc = "pipeline" /\ StoppedByCheck(s)
    /\ slot' = [slot EXCEPT ![s] =
           [@ EXCEPT !.pc = "draining",
                     !.outcome = IF mode = "abandoning" THEN slot[s].outcome
                                 ELSE Recorded(slot[s].outcome, "lease_lost")]]
    /\ UNCHANGED <<store, mode, active, cleanup, due>>

\* After a trace was written, the next step starts without a check.
NextStep(s) ==
    /\ Alive /\ slot[s].pc = "pipeline" /\ ~StoppedByCheck(s)
    /\ slot[s].step < LastStep
    /\ slot' = [slot EXCEPT ![s].step = @ + 1]
    /\ UNCHANGED <<store, mode, active, cleanup, due>>

\* The last step is done: completeJob is sent.
CompleteSend(s) ==
    /\ Alive /\ slot[s].pc = "pipeline" /\ ~StoppedByCheck(s)
    /\ slot[s].step = LastStep
    /\ slot' = [slot EXCEPT ![s].pc = "completing"]
    /\ UNCHANGED <<store, mode, active, cleanup, due>>

\* Any other error in the pipeline: a provider error, invalid JSON, a trace
\* that could not be written, a permit wait cut short by the signal.
PipelineFails(s) ==
    /\ Alive /\ slot[s].pc = "pipeline"
    /\ slot' = [slot EXCEPT ![s].pc = IF mode = "abandoning" THEN "draining" ELSE "releasing"]
    /\ UNCHANGED <<store, mode, active, cleanup, due>>

\* completeJob and failOrRetryJob at the database.  The reply is the outcome
\* the caller will record: "unconfirmed" stands for an error, after which the
\* call may or may not have taken effect.
CompleteTakesEffect(s, reply) ==
    LET j == slot[s].job
        owned == Owns(j, slot[s].token) IN
    /\ slot[s].pc = "completing" /\ slot[s].reply = "none"
    /\ \/ reply \in {"completed", "unconfirmed"} /\ owned /\ End(j, "completed", "completed")
       \/ reply = "lease_lost" /\ ~owned /\ UNCHANGED store
       \/ reply = "unconfirmed" /\ UNCHANGED store
    /\ slot' = [slot EXCEPT ![s] =
           [@ EXCEPT !.reply = reply,
                     !.ack = IF reply = "unconfirmed" /\ owned THEN "doubtful" ELSE slot[s].ack]]
    /\ UNCHANGED <<mode, active, cleanup, due>>

FailTakesEffect(s, reply) ==
    LET j == slot[s].job
        owned == Owns(j, slot[s].token) IN
    \/ reply = ReleasedAs(j) /\ owned /\ Release(j)
    \/ reply = "lease_lost" /\ ~owned /\ UNCHANGED store
    \/ reply = "unconfirmed" /\ owned /\ Release(j)
    \/ reply = "unconfirmed" /\ UNCHANGED store

\* An accepted completion is recorded, a refused one is LeaseLostError, and an
\* error makes the attempt try to release its claim.
CompleteReturns(s) ==
    LET r == slot[s].reply IN
    /\ Alive /\ slot[s].pc = "completing" /\ r # "none"
    /\ slot' = [slot EXCEPT ![s] =
           [@ EXCEPT !.reply = "none",
                     !.pc = IF r = "unconfirmed" /\ mode # "abandoning"
                            THEN "releasing" ELSE "draining",
                     !.outcome = IF r = "completed" \/ (r = "lease_lost" /\ mode # "abandoning")
                                 THEN Recorded(slot[s].outcome, r) ELSE slot[s].outcome]]
    /\ UNCHANGED <<store, mode, active, cleanup, due>>

\* A claim that came after the signal is released once its heartbeat is still,
\* and after a release the shutdown may have in progress (finalize).
GiveBack(s) ==
    /\ Alive /\ slot[s].pc = "preRelease" /\ Drained(s) /\ cleanup[s].stage # "releasing"
    /\ slot' = [slot EXCEPT ![s].pc = "releasing"]
    /\ UNCHANGED <<store, mode, active, cleanup, due>>

ReleaseTakesEffect(s, reply) ==
    /\ slot[s].pc = "releasing" /\ slot[s].reply = "none"
    /\ FailTakesEffect(s, reply)
    /\ slot' = [slot EXCEPT ![s].reply = reply]
    /\ UNCHANGED <<mode, active, cleanup, due>>

ReleaseReturns(s) ==
    /\ Alive /\ slot[s].pc = "releasing" /\ slot[s].reply # "none"
    /\ slot' = [slot EXCEPT ![s] = [@ EXCEPT !.pc = "draining", !.reply = "none",
                                             !.outcome = Recorded(slot[s].outcome, slot[s].reply)]]
    /\ UNCHANGED <<store, mode, active, cleanup, due>>

\* The finally block: the heartbeat is stopped, the registration is deleted,
\* and an attempt without an outcome is counted as unconfirmed.
\* Mutant: the heartbeat keeps running.
UnwindBeating(s) ==
    /\ Alive /\ slot[s].pc = "draining"
    /\ active' = [active EXCEPT ![slot[s].job] = NoSlot]
    /\ slot' = [slot EXCEPT ![s] = [@ EXCEPT !.pc = "top", !.outcome = Recorded(@, "unconfirmed")]]
    /\ UNCHANGED <<store, mode, cleanup, due>>

Unwind(s) ==
    /\ Alive /\ slot[s].pc = "draining" /\ Drained(s)
    /\ active' = [active EXCEPT ![slot[s].job] = NoSlot]
    /\ slot' = [slot EXCEPT ![s] =
           [@ EXCEPT !.pc = "top", !.hb = "off",
                     !.outcome = IF mode = "abandoning" THEN slot[s].outcome
                                 ELSE Recorded(slot[s].outcome, "unconfirmed")]]
    /\ UNCHANGED <<store, mode, cleanup, due>>

-----------------------------------------------------------------------------
\* Shutdown.

\* requestShutdown: SIGTERM or SIGINT.
Signal ==
    /\ mode = "running"
    /\ mode' = "stopping"
    /\ UNCHANGED <<store, active, slot, cleanup, due>>

\* Every loop ended within the grace period.
DrainedExit ==
    /\ mode = "stopping" /\ \A s \in Slots : slot[s].pc = "ended"
    /\ mode' = "exited"
    /\ UNCHANGED <<store, active, slot, cleanup, due>>

\* An attempt between its registration and the end of its finally block.
InAttempt(s) == slot[s].pc \in {"pipeline", "completing", "preRelease", "releasing", "draining"}

\* The step of its pipeline, or one more than the last if it is past that.
Reached(s) == IF ~InAttempt(s) THEN 0
              ELSE IF slot[s].pc = "pipeline" THEN slot[s].step ELSE LastStep + 1

\* The grace timer: abandonAndExit takes over every attempt in active.
Deadline ==
    /\ mode = "stopping"
    /\ mode' = "abandoning"
    /\ cleanup' = [s \in Slots |->
           IF \E j \in Jobs : active[j] = s THEN [cleanup[s] EXCEPT !.stage = "draining"]
                                           ELSE cleanup[s]]
    /\ due' = [s \in Slots |-> Reached(s)]
    /\ UNCHANGED <<store, active, slot>>

\* Mutant: release right away, whatever renewal or completion is in flight.
CleanupSendAtOnce(s) ==
    /\ Alive /\ cleanup[s].stage = "draining"
    /\ cleanup' = [cleanup EXCEPT ![s].stage = "releasing"]
    /\ UNCHANGED <<store, mode, active, slot, due>>

\* Release an attempt, after its renewals are drained and the write it has in
\* progress, if any, is answered (finalize).
CleanupSend(s) ==
    /\ Alive /\ cleanup[s].stage = "draining"
    /\ Drained(s) /\ slot[s].pc \notin {"completing", "releasing"}
    /\ cleanup' = [cleanup EXCEPT ![s].stage = "releasing"]
    /\ UNCHANGED <<store, mode, active, slot, due>>

CleanupTakesEffect(s, reply) ==
    /\ cleanup[s].stage = "releasing" /\ cleanup[s].reply = "none"
    /\ FailTakesEffect(s, reply)
    /\ cleanup' = [cleanup EXCEPT ![s].reply = reply]
    /\ UNCHANGED <<mode, active, slot, due>>

CleanupReturns(s) ==
    /\ Alive /\ cleanup[s].stage = "releasing" /\ cleanup[s].reply # "none"
    /\ slot' = [slot EXCEPT ![s].outcome = Recorded(@, cleanup[s].reply)]
    /\ cleanup' = [cleanup EXCEPT ![s] = [stage |-> "done", reply |-> "none"]]
    /\ UNCHANGED <<store, mode, active, due>>

\* Every release was answered: exit code 0, whatever else is still pending.
CleanedExit ==
    /\ mode = "abandoning" /\ \A s \in Slots : cleanup[s].stage \in {"none", "done"}
    /\ mode' = "exited"
    /\ UNCHANGED <<store, active, slot, cleanup, due>>

\* Mutant: the timer is armed only after the releases were answered.
HardStopOnceAnswered ==
    /\ mode = "abandoning" /\ \A s \in Slots : cleanup[s].stage \in {"none", "done"}
    /\ mode' = "failed"
    /\ UNCHANGED <<store, active, slot, cleanup, due>>

\* The cleanup timer: exit code 1.
HardStop ==
    /\ mode = "abandoning"
    /\ mode' = "failed"
    /\ UNCHANGED <<store, active, slot, cleanup, due>>

\* SIGKILL, or a crash of the process.
Kill ==
    /\ Alive
    /\ mode' = "failed"
    /\ UNCHANGED <<store, active, slot, cleanup, due>>
-----------------------------------------------------------------------------
Replies == {"completed", "retried", "dead_letter", "lease_lost", "unconfirmed"}

\* What the database does with the calls of slot s.
DatabaseAnswers(s) ==
    \E reply \in Replies :
        CompleteTakesEffect(s, reply) \/ ReleaseTakesEffect(s, reply) \/ CleanupTakesEffect(s, reply)

\* The process going on after an await of slot s.
ProcessGoesOn(s) ==
    \/ LoopEnds(s) \/ ClaimReturnsNothing(s) \/ ClaimReturns(s)
    \/ LeaseLostIn(s) \/ NextStep(s) \/ CompleteSend(s) \/ PipelineFails(s)
    \/ CompleteReturns(s) \/ GiveBack(s) \/ ReleaseReturns(s) \/ Unwind(s)

HeartbeatGoesOn(s) ==
    RenewSend(s) \/ \E answer \in {"renewed", "refused", "error"} : RenewReturns(s, answer)

CleanupGoesOn(s) == CleanupSend(s) \/ CleanupReturns(s)

TableNext ==
    \E j \in Jobs : LeaseExpires(j) \/ Reap(j) \/ ClaimElsewhere(j) \/ CompleteElsewhere(j)

SlotNext(s) ==
    \/ ClaimSend(s) \/ \E j \in Jobs : ClaimCommits(s, j)
    \/ DatabaseAnswers(s) \/ ProcessGoesOn(s) \/ HeartbeatGoesOn(s) \/ CleanupGoesOn(s)

ShutdownNext == Signal \/ DrainedExit \/ Deadline \/ CleanedExit \/ HardStop \/ Kill

Next == TableNext \/ (\E s \in Slots : SlotNext(s)) \/ ShutdownNext

Spec == Init /\ [][Next]_vars

\* The newest claim of job j is kept alive by a heartbeat of this process.
Beating(j) ==
    Alive /\ \E s \in Slots : /\ slot[s].job = j /\ slot[s].token = job[j].token
                              /\ slot[s].hb # "off" /\ slot[s].lost = "no" /\ ~Stopped(s)

\* The two shutdown timers fire.
TimersFire == WF_vars(Deadline) /\ WF_vars(HardStop)

\* No call need ever be answered.
TimersSpec == Spec /\ TimersFire

\* Awaited calls return, the provider's included; a lease nobody renews runs
\* out; the reaper keeps scanning.  Nothing makes a signal, a kill, or the
\* success of any call happen.
CallsReturn ==
    /\ \A s \in Slots : /\ WF_vars(ProcessGoesOn(s)) /\ WF_vars(DatabaseAnswers(s))
                        /\ WF_vars(HeartbeatGoesOn(s)) /\ WF_vars(CleanupGoesOn(s))
    /\ \A j \in Jobs : WF_vars(LeaseExpires(j) /\ ~Beating(j)) /\ WF_vars(Reap(j))

-----------------------------------------------------------------------------
\* Properties

TypeOK ==
    /\ job \in [Jobs -> [status: {"queued", "running", "completed", "dead_letter"},
                         attempts: 0 .. MaxAttempts, token: Nat, by: {"nobody", "us", "other"},
                         lease: {"null", "live", "expired"}]]
    /\ ending \in [Jobs -> Seq({"open", "completed", "retried", "dead_letter", "reaped"})]
    /\ mode \in {"running", "stopping", "abandoning", "exited", "failed"}
    /\ active \in [Jobs -> Slots \cup {NoSlot}]
    /\ slot \in [Slots ->
           [pc: {"top", "claiming", "pipeline", "completing", "preRelease", "releasing",
                 "draining", "ended"},
            job: Jobs \cup {NoSlot}, token: Nat, step: 0 .. LastStep,
            hb: {"off", "sleeping", "renewing"}, lost: {"no", "yes"},
            reply: Replies \cup {"none"}, ack: {"kept", "doubtful"},
            outcome: Replies \cup {"none"}]]
    /\ cleanup \in [Slots -> [stage: {"none", "draining", "releasing", "done"},
                              reply: Replies \cup {"none"}]]
    /\ due \in [Slots -> 0 .. LastStep + 1]

\* How the database ended the attempt of slot s.
Ended(s) == ending[slot[s].job][slot[s].token]

\* What an attempt is counted as is what the database did with its claim: an
\* accepted result, requeue or dead letter is counted as such, and never as a
\* lost lease unless an error hid the accepted completion from the process.
OutcomeIsTruthful ==
    \A s \in Slots : slot[s].outcome # "none" =>
        /\ slot[s].outcome \in {"completed", "retried", "dead_letter"} =>
               Ended(s) = slot[s].outcome
        /\ slot[s].outcome = "lease_lost" /\ slot[s].ack = "kept" =>
               Ended(s) \in {"open", "reaped", "retried", "dead_letter"}

\* After the deadline, no attempt gets past the next check of its pipeline, so no
\* call of the model begins and no result is written that was not being written
\* already; a claim that is answered late starts no pipeline.
DeadlineStopsAtNextCheck ==
    mode = "abandoning" => \A s \in Slots :
        /\ slot[s].pc = "pipeline" =>
               due[s] # 0 /\ \A k \in due[s] .. slot[s].step - 1 : k \notin Checked
        /\ slot[s].pc = "completing" => due[s] = LastStep + 1

\* "At the deadline, unfinished attempts stop starting further pipeline steps."
NothingStartsAfterDeadline ==
    [][mode = "abandoning" => \A s \in Slots : slot'[s].step <= slot[s].step]_vars

\* While the shutdown releases a claim, the same attempt has neither a renewal
\* nor a final write of its own in flight.
ReleaseRunsAlone ==
    \A s \in Slots : cleanup[s].stage = "releasing" =>
        slot[s].hb # "renewing" /\ slot[s].pc \notin {"completing", "releasing"}

\* After a clean exit at the deadline, every attempt that was running then had
\* its claim released, or settled otherwise, or its release was tried.
DeadlineReleasesEveryAttempt ==
    mode = "exited" =>
        \A s \in Slots : due[s] # 0 => cleanup[s].stage = "done" \/ Ended(s) # "open"

\* Every claim of this process comes to an end, whatever becomes of the process,
\* if calls return at all.
EveryClaimIsSettled ==
    CallsReturn => \A j \in Jobs : job[j].by = "us" ~> job[j].by # "us"

\* A process that was told to stop is gone some time later, also when no
\* database call and no provider call is ever answered.
ShutdownTerminates == mode = "stopping" ~> ~Alive
=============================================================================
