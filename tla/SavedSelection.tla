--------------------------- MODULE SavedSelection ---------------------------
(***************************************************************************)
(* Which provider and model a job is sent to.  New jobs carry a selection  *)
(* in their input, checked against the settings of the API when they are   *)
(* created (src/server/src/llmConfig.ts, runs.ts, api.ts); older jobs have *)
(* none, and the claim saves one in the row, that of the run or the        *)
(* default of the worker (jobs.ts).  Workers of one queue may be deployed  *)
(* with different defaults and with or without a key, and redeployed       *)
(* between two attempts of a job.  Leases and attempt counts are left to   *)
(* JobStore: any attempt may fail, and a failed job may run again.         *)
(***************************************************************************)
EXTENDS Naturals, FiniteSets

CONSTANTS Jobs, Workers,
          GeminiModels,  \* names of Gemini models
          Mock,          \* the mock provider with its only model
          None,          \* no selection
          MaxDeploys     \* model bound: redeployments of workers

Selections == GeminiModels \cup {Mock}
NeedsKey(s) == s # Mock

ASSUME SelectionAssumption == Mock \notin GeminiModels /\ None \notin Selections

VARIABLES api,      \* settings of the API: default, models, key
          worker,   \* worker[w]: settings of a worker: default, key
          deploys,  \* redeployments so far
          job,      \* job[j]: the row
          attempt,  \* attempt[w]: the job that w works on, its input and whether
                    \* it still holds the lease; or None
          calls     \* history: pairs of a job and a selection it was sent to

selection == <<api, worker, deploys, job, attempt, calls>>

Absent == [status |-> "absent", llm |-> None, run |-> None, mockConfig |-> FALSE]

\* Jobs from before selections were saved: of a run, whose provider is known,
\* or on their own.  Only runs of the mock have a configuration for it.
LegacyJobs ==
    {r \in [status: {"queued"}, llm: {None}, run: Selections \cup {None}, mockConfig: BOOLEAN] :
        r.mockConfig => r.run = Mock}

SelectionInit ==
    /\ api \in {a \in [default: Selections, models: SUBSET GeminiModels, key: BOOLEAN] :
                    NeedsKey(a.default) => a.default \in a.models}
    /\ worker \in [Workers -> [default: Selections, key: BOOLEAN]]
    /\ deploys = 0
    /\ job \in [Jobs -> LegacyJobs \cup {Absent}]
    /\ attempt = [w \in Workers |-> None]
    /\ calls = {}

-----------------------------------------------------------------------------
\* resolveLlm: what was saved or asked for, or else the default.
ResolveLlm(saved, default) == IF saved # None THEN saved ELSE default

\* selectLlm, when it does not throw.
Admitted(s) == s = Mock \/ (s \in api.models /\ api.key)

\* POST /jobs: the selection is never asked for.
CreateJob(j) ==
    LET s == ResolveLlm(None, api.default) IN
    /\ job[j] = Absent /\ Admitted(s)
    /\ job' = [job EXCEPT ![j] = [Absent EXCEPT !.status = "queued", !.llm = s]]
    /\ UNCHANGED <<api, worker, deploys, attempt, calls>>

\* A job of POST /runs: the run keeps the selection too, and a configuration
\* for the mock is refused with another provider.
CreateRunJob(j, requested, configured) ==
    LET s == ResolveLlm(requested, api.default) IN
    /\ job[j] = Absent /\ Admitted(s)
    /\ configured => s = Mock
    /\ job' = [job EXCEPT ![j] = [status |-> "queued", llm |-> s, run |-> s,
                                  mockConfig |-> (s = Mock)]]
    /\ UNCHANGED <<api, worker, deploys, attempt, calls>>

-----------------------------------------------------------------------------
\* Mutant: the worker comes before the run.
WorkerBeforeRun(j, w) ==
    IF job[j].llm # None THEN job[j].llm ELSE ResolveLlm(None, worker[w].default)

\* The CASE and COALESCE of claimNextJob.
SelectionOf(j, w) ==
    IF job[j].llm # None THEN job[j].llm
    ELSE IF job[j].run # None THEN job[j].run
    ELSE ResolveLlm(None, worker[w].default)

Claim(w, j) ==
    /\ job[j].status = "queued" /\ attempt[w] = None
    /\ LET s == SelectionOf(j, w) IN
        /\ job' = [job EXCEPT ![j].status = "running", ![j].llm = s]
        /\ attempt' = [attempt EXCEPT ![w] =
                        [job |-> j, llm |-> s, mockConfig |-> job[j].mockConfig,
                         owns |-> TRUE]]
    /\ UNCHANGED <<api, worker, deploys, calls>>

\* Mutant: without a key, the mock answers.
CallOrPretend(w) ==
    /\ attempt[w] # None
    /\ LET s == IF NeedsKey(attempt[w].llm) /\ ~worker[w].key THEN Mock ELSE attempt[w].llm IN
        calls' = calls \cup {<<attempt[w].job, s>>}
    /\ UNCHANGED <<api, worker, deploys, job, attempt>>

\* processJob and callLlm: the attempt fails without the key it needs, or with
\* a configuration that is not for its provider.
Call(w) ==
    /\ attempt[w] # None
    /\ NeedsKey(attempt[w].llm) => worker[w].key /\ ~attempt[w].mockConfig
    /\ calls' = calls \cup {<<attempt[w].job, attempt[w].llm>>}
    /\ UNCHANGED <<api, worker, deploys, job, attempt>>

\* The attempt ends: completed, retried later, or given up.  One that lost its
\* lease changes nothing.
EndAttempt(w, status) ==
    /\ attempt[w] # None
    /\ status = "completed" => <<attempt[w].job, attempt[w].llm>> \in calls
    /\ job' = IF attempt[w].owns THEN [job EXCEPT ![attempt[w].job].status = status] ELSE job
    /\ attempt' = [attempt EXCEPT ![w] = None]
    /\ UNCHANGED <<api, worker, deploys, calls>>

\* The lease runs out and the job is recovered, but the attempt goes on.
Lapse(w) ==
    /\ attempt[w] # None /\ attempt[w].owns
    /\ job' = [job EXCEPT ![attempt[w].job].status = "queued"]
    /\ attempt' = [attempt EXCEPT ![w].owns = FALSE]
    /\ UNCHANGED <<api, worker, deploys, calls>>

\* retryJob keeps the input.
Retry(j) ==
    /\ job[j].status = "dead_letter"
    /\ job' = [job EXCEPT ![j].status = "queued"]
    /\ UNCHANGED <<api, worker, deploys, attempt, calls>>

\* A worker comes back with other settings; what it was working on is
\* recovered.
Deploy(w, settings) ==
    /\ deploys < MaxDeploys
    /\ deploys' = deploys + 1
    /\ worker' = [worker EXCEPT ![w] = settings]
    /\ attempt' = [attempt EXCEPT ![w] = None]
    /\ job' = IF attempt[w] = None \/ ~attempt[w].owns THEN job
              ELSE [job EXCEPT ![attempt[w].job].status = "queued"]
    /\ UNCHANGED <<api, calls>>

SelectionNext ==
    \/ \E j \in Jobs : CreateJob(j) \/ Retry(j)
    \/ \E j \in Jobs, r \in Selections \cup {None}, c \in BOOLEAN : CreateRunJob(j, r, c)
    \/ \E w \in Workers, j \in Jobs : Claim(w, j)
    \/ \E w \in Workers : Call(w) \/ Lapse(w)
    \/ \E w \in Workers, s \in {"queued", "completed", "dead_letter"} : EndAttempt(w, s)
    \/ \E w \in Workers, e \in [default: Selections, key: BOOLEAN] : Deploy(w, e)

SelectionSpec == SelectionInit /\ [][SelectionNext]_selection

-----------------------------------------------------------------------------
\* Properties

\* "Retries never overwrite saved instructions": whatever workers attempt a
\* job, with whatever defaults and keys, it goes to one provider and model.
OneSelectionPerJob == \A c, d \in calls : c[1] = d[1] => c[2] = d[2]

\* "Run metadata takes precedence over worker defaults": every call for a job
\* of a run is to the provider and model that the run is reported under, so a
\* comparison of two runs compares what it says.
RunsAreWhatTheySay == \A c \in calls : job[c[1]].run # None => c[2] = job[c[1]].run
=============================================================================
