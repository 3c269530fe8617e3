---------------------------- MODULE JobLifecycle ----------------------------
(***************************************************************************)
(* What EvalFlow's job table promises to everyone who does not look inside *)
(* it: the API, the worker pipeline, the reports.  There are no leases, no *)
(* row locks, no tokens and no transactions here, only jobs, the attempts  *)
(* made on them and the way each attempt ended.  JobStore, the             *)
(* translation of src/server/src/jobs.ts, is shown to implement this.      *)
(***************************************************************************)
EXTENDS Naturals, Sequences

CONSTANTS Jobs,         \* the jobs that may ever be created
          MaxAttempts   \* jobs.max_attempts, per job

VARIABLES phase,     \* phase[j]: the job's status, "absent" before creation
          attempts,  \* attempts[j]: attempts charged since creation or the last requeue
          history,   \* history[j]: how each attempt ever made on j ended, oldest first
          evals      \* evals[j]: evaluations stored for j

vars == <<phase, attempts, history, evals>>

Init ==
    /\ phase = [j \in Jobs |-> "absent"]
    /\ attempts = [j \in Jobs |-> 0]
    /\ history = [j \in Jobs |-> << >>]
    /\ evals = [j \in Jobs |-> 0]

\* A batch of jobs appears at once: a run's jobs, or a single one.
Submit(S) ==
    /\ S # {}
    /\ \A j \in S : phase[j] = "absent"
    /\ phase' = [j \in Jobs |-> IF j \in S THEN "queued" ELSE phase[j]]
    /\ UNCHANGED <<attempts, history, evals>>

\* The job is handed out; the attempt is charged when it starts.
Start(j) ==
    /\ phase[j] = "queued"
    /\ attempts[j] < MaxAttempts[j]
    /\ phase' = [phase EXCEPT ![j] = "running"]
    /\ attempts' = [attempts EXCEPT ![j] = attempts[j] + 1]
    /\ history' = [history EXCEPT ![j] = Append(history[j], "open")]
    /\ UNCHANGED evals

\* The sequence h with its newest attempt ended as e.
EndedAs(h, e) == [h EXCEPT ![Len(h)] = e]

\* The newest attempt is accepted, its one evaluation with it.
Accept(j) ==
    /\ phase[j] = "running"
    /\ phase' = [phase EXCEPT ![j] = "completed"]
    /\ history' = [history EXCEPT ![j] = EndedAs(history[j], "completed")]
    /\ evals' = [evals EXCEPT ![j] = evals[j] + 1]
    /\ UNCHANGED attempts

\* The newest attempts of the jobs in S end without a result, given up by
\* their holder or recovered from it: requeued while attempts are left,
\* parked as dead letters otherwise.
EndWithoutResult(S, e) ==
    /\ S # {}
    /\ \A j \in S : phase[j] = "running"
    /\ phase' = [j \in Jobs |->
                    IF j \notin S THEN phase[j]
                    ELSE IF attempts[j] < MaxAttempts[j] THEN "queued" ELSE "dead_letter"]
    /\ history' = [j \in Jobs |-> IF j \in S THEN EndedAs(history[j], e) ELSE history[j]]
    /\ UNCHANGED <<attempts, evals>>

\* An operator gives a dead letter a fresh budget of attempts.
Redrive(j) ==
    /\ phase[j] = "dead_letter"
    /\ phase' = [phase EXCEPT ![j] = "queued"]
    /\ attempts' = [attempts EXCEPT ![j] = 0]
    /\ UNCHANGED <<history, evals>>

Next ==
    \/ \E S \in SUBSET Jobs : Submit(S)
    \/ \E j \in Jobs : Start(j) \/ Accept(j) \/ Redrive(j)
    \/ \E j \in Jobs : EndWithoutResult({j}, "released")
    \/ \E S \in SUBSET Jobs : EndWithoutResult(S, "reaped")

Spec == Init /\ [][Next]_vars
=============================================================================
