------------------------------- MODULE CliRun -------------------------------
(***************************************************************************)
(* One "evalflow run" command (src/server/src/cliRun.ts) against the API:  *)
(* load the baseline, create a run, poll its report until it is finished,  *)
(* fetch its results, judge them, exit.  The server side is RunReport: the *)
(* jobs move, dead letters are retried and other clients compare runs      *)
(* while the command waits.                                                *)
(*                                                                         *)
(* A request may fail in every way an HTTP request can, also after the     *)
(* server acted on it, and the deadline may pass at any moment.            *)
(***************************************************************************)
EXTENDS RunReport

CONSTANT NoRun  \* runId is undefined

VARIABLES base,    \* the baseline: a document, the run it is to be read from, or none
          pc,      \* where the command is
          exit,    \* its exit code, once it ended
          mine,    \* the run it knows it created
          posts,   \* creations it has sent
          served,  \* creations the server has carried out
          earlier  \* history: the runs that existed before

server == <<jobs, redrives, report, compared, exported>>
command == <<base, pc, exit, mine, posts, served, earlier>>
cliVars == <<jobs, redrives, report, compared, exported, base, pc, exit, mine, posts, served,
             earlier>>

NoBase == [dataset |-> "none", cases |-> << >>]
NoExit == -1

\* What a saved baseline may hold: any cases, of this dataset or of another,
\* finished or not.
Document == [dataset: Datasets, cases: UNION {[N -> Side] : N \in SUBSET CaseNames}]

\* The files --baseline is given here; their passes had another score.
GivenSides ==
    {NoJob, [outcome |-> "fail", score |-> NoScore]}
        \cup [outcome: {"pass"}, score: Scores \ {RunScore}]
GivenDocuments == [dataset: Datasets, cases: UNION {[N -> GivenSides] : N \in SUBSET CaseNames}]

CliInit ==
    /\ Init
    /\ earlier = {r \in Runs : Exists(r)} /\ earlier # Runs
    /\ base \in GivenDocuments \cup earlier \cup {NoBase}
    /\ pc = "start" /\ exit = NoExit /\ mine = NoRun
    /\ posts = 0 /\ served = 0

Ended == pc = "ended"
Step(from, to) == pc = from /\ pc' = to /\ UNCHANGED exit
Exit(code) == pc' = "ended" /\ exit' = code

\* Exit code 2: nothing was judged, and what the command knew is gone with it.
Fail == Exit(2) /\ base' = NoBase /\ mine' = NoRun

-----------------------------------------------------------------------------
\* --baseline names a run: its results are fetched, or answered with 409.
FetchBaseline ==
    /\ pc = "start" /\ base \in Runs
    /\ \/ ExportBaseline(base) /\ base' = Baseline(base) /\ UNCHANGED <<pc, exit, mine>>
       \/ ~RunFinished(base) /\ Fail /\ UNCHANGED server
    /\ UNCHANGED <<posts, served, earlier>>

Fits == base = NoBase \/ (Valid(base) /\ base.dataset = TheirDataset)

\* Before anything is created, the baseline must be readable and fit.
LoadBaseline ==
    /\ base \notin Runs
    /\ \/ Fits /\ Step("start", "creating") /\ UNCHANGED <<base, mine>>
       \/ ~Fits /\ pc = "start" /\ Fail
    /\ UNCHANGED <<server, posts, served, earlier>>

PostRun ==
    /\ Step("creating", "posted")
    /\ posts' = posts + 1
    /\ UNCHANGED <<server, base, mine, served, earlier>>

\* The server acts on a creation, whether or not anybody still waits for it.
ServeCreation(r) ==
    /\ served < posts
    /\ CreateRun(r)
    /\ served' = served + 1
    /\ UNCHANGED <<base, pc, exit, mine, posts, earlier>>

CreationAnswered(r) ==
    /\ Exists(r)
    /\ Step("posted", "polling")
    /\ mine' = r
    /\ UNCHANGED <<server, base, posts, served, earlier>>

AskReport ==
    /\ Step("polling", "asking")
    /\ CountJobs(mine)
    /\ UNCHANGED <<base, mine, posts, served, earlier>>

\* The report is parsed: finished, or wait and poll again.
ReportAnswered ==
    /\ pc = "asking" /\ report.pc = "done" /\ report.run = mine
    /\ \/ ~Finished /\ Step("asking", "sleeping") /\ report' = NoReport
       \/ Finished /\ base # NoBase /\ Step("asking", "judging") /\ UNCHANGED report
       \/ Finished /\ base = NoBase /\ Exit(0) /\ UNCHANGED report
    /\ UNCHANGED <<jobs, redrives, compared, exported, base, mine, posts, served, earlier>>

SleepEnds ==
    /\ Step("sleeping", "polling")
    /\ UNCHANGED <<server, base, mine, posts, served, earlier>>

\* The candidate's results are fetched; a run that is not finished any more is
\* answered with 409.
AskCandidate ==
    /\ pc = "judging"
    /\ \/ ExportBaseline(mine) /\ Step("judging", "comparing") /\ UNCHANGED <<base, mine>>
       \/ ~RunFinished(mine) /\ Fail /\ UNCHANGED server
    /\ UNCHANGED <<posts, served, earlier>>

Verdict == CompareBaselines(base, exported[mine])

Judge ==
    /\ pc = "comparing"
    /\ \/ Verdict.ok /\ Exit(Verdict.exitCode) /\ UNCHANGED <<base, mine>>
       \/ ~Verdict.ok /\ Fail
    /\ UNCHANGED <<server, posts, served, earlier>>

\* Mutant: creation is tried again after an error.
RetryCreation ==
    /\ \/ pc = "posted" /\ posts < 2 /\ pc' = "creating" /\ UNCHANGED <<exit, base, mine>>
       \/ pc \in {"start", "asking", "judging", "comparing"} /\ Fail
    /\ UNCHANGED <<server, posts, served, earlier>>

\* A request or a file cannot be read, or an answer does not parse.
RequestFails ==
    /\ pc \in {"start", "posted", "asking", "judging", "comparing"}
    /\ Fail
    /\ UNCHANGED <<server, posts, served, earlier>>

\* timeout-ms, from before the first request on.
Deadline ==
    /\ ~Ended
    /\ Fail
    /\ UNCHANGED <<server, posts, served, earlier>>

-----------------------------------------------------------------------------
\* Model bound: runs are compared and exported beside a command without a
\* baseline; the server cannot tell which one it is.
ServerGoesOn ==
    /\ JobsNext \/ ReportNext \/ (base = NoBase /\ OthersAsk)
    /\ UNCHANGED command

CommandGoesOn ==
    \/ FetchBaseline \/ LoadBaseline \/ PostRun \/ AskReport \/ ReportAnswered \/ SleepEnds
    \/ AskCandidate \/ Judge \/ \E r \in Runs : CreationAnswered(r)

CliNext ==
    \/ CommandGoesOn \/ RequestFails \/ Deadline
    \/ ServerGoesOn \/ \E r \in Runs : ServeCreation(r)

CliSpec == CliInit /\ [][CliNext]_cliVars

-----------------------------------------------------------------------------
\* Properties

\* The gate lets the run through exactly when nothing that passed in the
\* baseline fails or is missing in it.
ExitCodeTellsLostPasses ==
    pc = "comparing" /\ Verdict.ok =>
        (Verdict.exitCode = 0 <=> Passed(base) \subseteq Passed(exported[mine]))

\* The classification accounts for the change of the pass count shown next to
\* it, and for every case of either side.
SummaryAddsUp ==
    pc = "comparing" /\ Verdict.ok =>
        LET count == Verdict.summary IN
        /\ count["improvement"] - count["regression"]
            = Cardinality(Passed(exported[mine])) - Cardinality(Passed(base))
        /\ count["regression"] + count["improvement"] + count["warning"] + count["unchanged"]
            = Cardinality(DOMAIN base.cases \cup DOMAIN exported[mine].cases)

\* What the gate prints and what it exits with are about the same two runs.
GateIsRight == ExitCodeTellsLostPasses /\ SummaryAddsUp

\* Exit code 0 is a promise that holds for good: every case the baseline
\* passed has passed.  Exit code 1 names a real loss, and both only come when
\* the run is over; somebody who retries dead letters by hand can change that
\* afterwards, and can make a lost case pass.
VerdictIsTrue ==
    /\ exit = 0 /\ base # NoBase => \A c \in Passed(base) : jobs[mine][c] = "right"
    /\ exit = 1 /\ redrives = 0 => \E c \in Passed(base) : jobs[mine][c] \in {"wrong", "dead"}
    /\ exit \in {0, 1} /\ redrives = 0 => CasesIn(mine, Unfinished) = {}

\* "Never retry creation automatically: a lost response may still have created
\* a run": one command leaves at most one run behind, however it ends.
OneRunAtMost == Cardinality({r \in Runs : Exists(r)} \ earlier) <= 1
=============================================================================
