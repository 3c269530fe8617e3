---------------------------- MODULE ReaperProcess ----------------------------
(***************************************************************************)
(* The reaper process (src/server/src/reaper.ts) next to everybody else    *)
(* who works on the job table: scans one after the other, which skip the   *)
(* rows others have locked, fail without an effect or after it, and go on  *)
(* until a signal comes.  What a scan writes into the rows is              *)
(* ReapExpiredJobs of JobStore.                                            *)
(***************************************************************************)
EXTENDS JobStore

VARIABLES loop,    \* where the loop of the reaper is
          aborted  \* shutdown.signal.aborted

store == <<jobs, evals, claims, requeues, tx>>
reaper == <<loop, aborted>>
allVars == <<jobs, evals, claims, requeues, tx, loop, aborted>>

ReaperInit == Init /\ loop = "scanning" /\ aborted = FALSE

-----------------------------------------------------------------------------
\* A scan commits; whether it is answered or not, the process sleeps next.
ScanRecovers ==
    /\ loop = "scanning" /\ loop' = "sleeping"
    /\ \E S \in SUBSET Jobs : ReapExpiredJobs(S)
    /\ UNCHANGED aborted

\* Nothing to recover, everything locked, or an error.
ScanInVain ==
    /\ loop = "scanning" /\ loop' = "sleeping"
    /\ UNCHANGED <<store, aborted>>

\* Mutant: the loop does not look at the signal.
SleepEndsForScan ==
    /\ loop = "sleeping" /\ loop' = "scanning"
    /\ UNCHANGED <<store, aborted>>

\* The interval is over, or the signal cuts it short.
SleepEnds ==
    /\ loop = "sleeping"
    /\ loop' = IF aborted THEN "closing" ELSE "scanning"
    /\ UNCHANGED <<store, aborted>>

Signal ==
    /\ ~aborted /\ aborted' = TRUE
    /\ UNCHANGED <<store, loop>>

\* The health server and the connections are closed.
Close ==
    /\ loop = "closing" /\ loop' = "ended"
    /\ UNCHANGED <<store, aborted>>

LoopGoesOn == ScanRecovers \/ ScanInVain \/ SleepEnds \/ Close

\* Everybody else.
OthersGoOn ==
    /\ \/ \E S \in SUBSET Jobs : CreateJobs(S)
       \/ \E w \in Workers, j \in Jobs : ClaimNextJob(w, j)
       \/ \E s \in Sessions : SessionNext(s)
       \/ \E j \in Jobs : LeaseExpires(j) \/ RunAfterPasses(j)
    /\ UNCHANGED reaper

ReaperNext == LoopGoesOn \/ Signal \/ OthersGoOn

ReaperSpec == ReaperInit /\ [][ReaperNext]_allVars

-----------------------------------------------------------------------------
\* The steps by which a transaction comes to an end.
Proceed(s) ==
    \/ Check(s) \/ Abort(s)
    \/ RenewJobLease(s) \/ CompleteJob(s) \/ FailOrRetryJob(s) \/ RetryJob(s)

\* A scan meets a row unlocked that is unlocked again and again: the locks of
\* others do not keep time with the loop.
LocksAreNotInStep ==
    \A j \in Jobs : ([]<>Reapable(j)) => ([]<>(Reapable(j) /\ loop = "scanning") \/ <>aborted)

\* Every transaction ends, by itself or by the transaction timeout; retry
\* times are reached; idle workers poll again and again and do not find the
\* same rows locked for ever; the calls of the reaper return, and not all of
\* those that could succeed fail.  No worker needs to call anything.
Fairness ==
    /\ \A s \in Sessions : WF_allVars(Proceed(s) /\ UNCHANGED reaper)
    /\ \A j \in Jobs : WF_allVars(RunAfterPasses(j) /\ UNCHANGED reaper)
    /\ SF_allVars((\E w \in Workers, j \in Jobs : ClaimNextJob(w, j)) /\ UNCHANGED reaper)
    /\ WF_allVars(LoopGoesOn) /\ SF_allVars(ScanRecovers)

FairSpec == ReaperSpec /\ Fairness

-----------------------------------------------------------------------------
\* Properties

\* No job is stranded in the queue: retries of older jobs cannot starve it,
\* and no failure leaves it queued but unclaimable.
EveryQueuedJobIsClaimed ==
    \A j \in Jobs : jobs[j].status = "queued" ~> jobs[j].status # "queued"

\* A lease that has run out does not stay on the job, until the reaper is told
\* to stop: a scan settles the claim, however small its batches are, or the
\* transaction does that held the row when the time passed.
ExpiredLeaseIsRecovered ==
    LocksAreNotInStep =>
        \A j \in Jobs : jobs[j].lease = "expired" ~> jobs[j].lease # "expired" \/ aborted

\* After the signal the process ends as soon as its calls return.
ReaperEnds == aborted ~> loop = "ended"
=============================================================================
