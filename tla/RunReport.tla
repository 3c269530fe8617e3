------------------------------ MODULE RunReport ------------------------------
(***************************************************************************)
(* What src/server/src/runs.ts tells of runs while their jobs move: the    *)
(* report of a run, the list of reports, the comparison of two runs and    *)
(* the exported baseline.  All runs here are of one dataset; runs of       *)
(* different datasets are refused before any job is read.                  *)
(*                                                                         *)
(* A job is its status, a completed one with its label right or wrong: the *)
(* row and its only eval are committed together (JobStore).  Every query   *)
(* sees what is committed when it runs, and a report and a comparison take *)
(* several of them, outside of any transaction.  A completed job has a     *)
(* score, the others have none; which one decides nothing here.            *)
(*                                                                         *)
(* Model bound: one request is answered at a time and only the last answer *)
(* is kept.  Requests change nothing, so none can tell whether another one *)
(* is in progress.                                                         *)
(***************************************************************************)
EXTENDS CaseComparison

CONSTANTS Runs,        \* runs that may be created
          MaxRedrives  \* model bound: manual retries of dead letters

ASSUME RunAssumption == Scores # {} /\ Datasets # {} /\ MaxRedrives \in Nat

VARIABLES jobs,      \* jobs[r][c]: the job of run r for case c
          redrives,  \* history: manual retries so far
          report,    \* the getRunReport in progress, or its last answer
          compared,  \* the compareRuns in progress, or its last answer
          exported   \* exported[r]: the last baseline of r that was handed out

vars == <<jobs, redrives, report, compared, exported>>

Statuses == {"absent", "queued", "running", "right", "wrong", "dead"}

NoReport == [pc |-> "none"]
NoComparison == [pc |-> "none"]
NoExport == << >>

\* The runs that exist already are over.
Init ==
    /\ jobs \in [Runs -> {[c \in CaseNames |-> "absent"]} \cup [CaseNames -> {"right", "wrong", "dead"}]]
    /\ redrives = 0
    /\ report = NoReport
    /\ compared = NoComparison
    /\ exported = [r \in Runs |-> NoExport]

Exists(r) == \E c \in CaseNames : jobs[r][c] # "absent"
CasesIn(r, S) == {c \in CaseNames : jobs[r][c] \in S}

-----------------------------------------------------------------------------
\* The jobs of the runs.

\* Mutant: the jobs are inserted after the run was committed, one by one.
CreateRunPiecemeal(r) ==
    /\ \E c \in CasesIn(r, {"absent"}) : jobs' = [jobs EXCEPT ![r][c] = "queued"]
    /\ UNCHANGED <<redrives, report, compared, exported>>

\* createRun: the run and a job for each of its cases in one transaction.
CreateRun(r) ==
    /\ ~Exists(r)
    /\ jobs' = [jobs EXCEPT ![r] = [c \in CaseNames |-> "queued"]]
    /\ UNCHANGED <<redrives, report, compared, exported>>

\* What claims, completions, failures and recoveries do to a status.
Moves == {<<"queued", "running">>, <<"running", "right">>, <<"running", "wrong">>,
          <<"running", "queued">>, <<"running", "dead">>}

JobMoves(r, c) ==
    /\ \E to \in Statuses : <<jobs[r][c], to>> \in Moves /\ jobs' = [jobs EXCEPT ![r][c] = to]
    /\ UNCHANGED <<redrives, report, compared, exported>>

\* retryJob.
Redrive(r, c) ==
    /\ jobs[r][c] = "dead" /\ redrives < MaxRedrives
    /\ jobs' = [jobs EXCEPT ![r][c] = "queued"]
    /\ redrives' = redrives + 1
    /\ UNCHANGED <<report, compared, exported>>

-----------------------------------------------------------------------------
\* getRunReport: counts by status, passes, totals and latencies, in this order.

Completed == {"right", "wrong"}
Unfinished == {"queued", "running"}

Idle == report.pc \in {"none", "done"} /\ compared.pc \in {"none", "done"}

CountJobs(r) ==
    /\ Idle /\ Exists(r)
    /\ compared' = NoComparison
    /\ report' = [pc |-> "counted", run |-> r, since |-> redrives,
                  total |-> Cardinality(CasesIn(r, Statuses \ {"absent"})),
                  queued |-> Cardinality(CasesIn(r, {"queued"})),
                  running |-> Cardinality(CasesIn(r, {"running"})),
                  completed |-> Cardinality(CasesIn(r, Completed)),
                  failed |-> Cardinality(CasesIn(r, {"dead"})),
                  passed |-> 0, scored |-> 0, timed |-> 0]
    /\ UNCHANGED <<jobs, redrives, exported>>

\* Mutant: only what is waiting counts as unfinished.
FinishedWhenNoneQueued == report.queued = 0

Finished == report.queued + report.running = 0

CountPasses ==
    /\ report.pc = "counted"
    /\ report' = [report EXCEPT !.pc = "passes",
                                !.passed = Cardinality(CasesIn(report.run, {"right"}))]
    /\ UNCHANGED <<jobs, redrives, compared, exported>>

\* The mean score and the token and cost sums are over this many jobs.
AggregateTotals ==
    /\ report.pc = "passes"
    /\ report' = [report EXCEPT !.pc = "totals",
                                !.scored = Cardinality(CasesIn(report.run, Completed))]
    /\ UNCHANGED <<jobs, redrives, compared, exported>>

\* The percentiles are over this many jobs.
ReadLatencies ==
    /\ report.pc = "totals"
    /\ report' = [report EXCEPT !.pc = "done",
                                !.timed = Cardinality(CasesIn(report.run, Completed))]
    /\ UNCHANGED <<jobs, redrives, compared, exported>>

\* listRuns counts everything in one statement.
ListedRun(r) ==
    [total |-> Cardinality(CasesIn(r, Statuses \ {"absent"})),
     completed |-> Cardinality(CasesIn(r, Completed)),
     failed |-> Cardinality(CasesIn(r, {"dead"})),
     passed |-> Cardinality(CasesIn(r, {"right"}))]

-----------------------------------------------------------------------------
\* sidesByCase, getRunBaseline and compareRuns.

\* Mutant: a job that is not completed has failed.
OutcomeOfUnfinished(status) == IF status = "right" THEN "pass" ELSE "fail"

CaseOutcome(status) ==
    IF status \in Unfinished THEN "pending" ELSE IF status = "right" THEN "pass" ELSE "fail"

RunScore == CHOOSE s \in Scores : TRUE

Score(status) == IF status \in Completed THEN RunScore ELSE NoScore

NoJob == [outcome |-> "pending", score |-> NoScore]

SidesByCase(r) ==
    [c \in CaseNames |->
        IF jobs[r][c] = "absent" THEN NoJob
        ELSE [outcome |-> CaseOutcome(jobs[r][c]), score |-> Score(jobs[r][c])]]

TheirDataset == CHOOSE d \in Datasets : TRUE

Baseline(r) == [dataset |-> TheirDataset, cases |-> SidesByCase(r)]

RunFinished(r) == \A c \in CaseNames : SidesByCase(r)[c].outcome # "pending"

\* getRunBaseline, when it does not answer run_not_found or run_not_finished.
ExportBaseline(r) ==
    /\ Exists(r) /\ RunFinished(r)
    /\ exported' = [exported EXCEPT ![r] = Baseline(r)]
    /\ UNCHANGED <<jobs, redrives, report, compared>>

Unread == << >>

\* The sides of the two runs are read at the same time, in either order.
StartComparison(b, c) ==
    /\ Idle /\ Exists(b) /\ Exists(c)
    /\ report' = NoReport
    /\ compared' = [pc |-> "reading", runs |-> <<b, c>>, since |-> redrives,
                    sides |-> <<Unread, Unread>>]
    /\ UNCHANGED <<jobs, redrives, exported>>

ReadSides(i) ==
    /\ compared.pc = "reading" /\ compared.sides[i] = Unread
    /\ compared' = [compared EXCEPT !.sides[i] = SidesByCase(compared.runs[i]),
                                    !.pc = IF compared.sides[3 - i] = Unread
                                           THEN "reading" ELSE "done"]
    /\ UNCHANGED <<jobs, redrives, report, exported>>

Change(c) == ClassifyChange(compared.sides[1][c], compared.sides[2][c])

-----------------------------------------------------------------------------
\* Runs are created by whoever asks for them: CliRun composes this module with a
\* client.
JobsNext == \E r \in Runs, c \in CaseNames : JobMoves(r, c) \/ Redrive(r, c)

ReportNext == CountPasses \/ AggregateTotals \/ ReadLatencies

\* What other clients ask for.
OthersAsk ==
    \/ \E b, c \in Runs : StartComparison(b, c)
    \/ \E i \in {1, 2} : ReadSides(i)
    \/ \E r \in Runs : ExportBaseline(r)

-----------------------------------------------------------------------------
\* Properties

\* Nothing was retried by hand since the answer was begun.
Undisturbed(answer) == answer.since = redrives

\* A report speaks of every case of its run, however far its jobs are, and is
\* one the command line accepts: a run is never seen with part of its jobs.
ReportCoversRun ==
    report.pc # "none" =>
        /\ report.total = Cardinality(CaseNames)
        /\ report.total = report.queued + report.running + report.completed + report.failed
        /\ report.passed <= report.total

\* Unless dead letters are retried meanwhile, the parts of a finished report
\* speak of the same jobs although they were read one after the other, and the
\* list of runs agrees with it from then on.
FinishedReportIsExact ==
    report.pc = "done" /\ Finished /\ Undisturbed(report) =>
        /\ report.scored = report.completed /\ report.timed = report.completed
        /\ ListedRun(report.run) = [total |-> report.total, completed |-> report.completed,
                                    failed |-> report.failed, passed |-> report.passed]

\* What a report says adds up: of the run as a whole, and once it is finished.
ReportsAddUp == ReportCoversRun /\ FinishedReportIsExact

\* An exported baseline stays true: what passed has passed for good, and what
\* failed passes only after somebody retried it.
ExportsStayTrue ==
    \A r \in Runs : exported[r] # NoExport =>
        \A c \in CaseNames :
            /\ exported[r].cases[c].outcome = "pass" => jobs[r][c] = "right"
            /\ exported[r].cases[c].outcome = "fail" /\ redrives = 0
                => jobs[r][c] \in {"wrong", "dead"}

\* The two sides of a comparison are read at different times.  Without manual
\* retries, a case that is not pending in it is classified as it is now, and a
\* run compared with itself shows no change.
ComparisonIsSettled ==
    compared.pc = "done" /\ Undisturbed(compared) =>
        \A c \in CaseNames : Change(c) # "pending" =>
            /\ Change(c) = ClassifyChange(SidesByCase(compared.runs[1])[c],
                                          SidesByCase(compared.runs[2])[c])
            /\ compared.runs[1] = compared.runs[2] => Change(c) = "unchanged"
=============================================================================
