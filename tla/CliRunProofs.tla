---------------------------- MODULE CliRunProofs ----------------------------
(***************************************************************************)
(* What the gate's exit code and its counts mean, for any case names,      *)
(* scores, datasets and runs: first for any two documents, then for those  *)
(* the command judges, which the invariant GateInv shows to be documents.  *)
(***************************************************************************)
EXTENDS CliRun, FiniteSetTheorems, TLAPS

\* Two accepted documents have the same finitely many cases, all finished.
LEMMA AcceptedDocuments ==
    ASSUME NEW b \in Document, NEW c \in Document, CompareBaselines(b, c).ok
    PROVE  /\ DOMAIN b.cases = DOMAIN c.cases /\ IsFiniteSet(DOMAIN b.cases)
           /\ \A n \in DOMAIN b.cases : b.cases[n].outcome \in {"pass", "fail"}
           /\ \A n \in DOMAIN b.cases : c.cases[n].outcome \in {"pass", "fail"}
           /\ CompareBaselines(b, c).exitCode = IF CasesWith(b, c, "regression") # {} THEN 1 ELSE 0
           /\ \A change \in Changes :
                CompareBaselines(b, c).summary[change] = Cardinality(CasesWith(b, c, change))
<1>1. Valid(b) /\ Valid(c) /\ SameCases(b, c)
  BY DEF CompareBaselines, Refused
<1>2. DOMAIN b.cases \subseteq CaseNames
  BY DEF Document
<1>3. IsFiniteSet(DOMAIN b.cases)
  BY <1>2, GateAssumption, FS_Subset
<1>4. CompareBaselines(b, c) =
        [ok |-> TRUE,
         summary |-> [change \in Changes |-> Cardinality(CasesWith(b, c, change))],
         exitCode |-> IF CasesWith(b, c, "regression") # {} THEN 1 ELSE 0]
  BY <1>1 DEF CompareBaselines
<1> QED BY <1>1, <1>3, <1>4 DEF Valid, SameCases

\* The regressed cases are the lost passes, the improved ones those gained,
\* and the others are no change of outcome.
LEMMA ClassesAreOutcomes ==
    ASSUME NEW b \in Document, NEW c \in Document, CompareBaselines(b, c).ok
    PROVE  /\ CasesWith(b, c, "regression") = Passed(b) \ Passed(c)
           /\ CasesWith(b, c, "improvement") = Passed(c) \ Passed(b)
           /\ CasesWith(b, c, "warning") \cup CasesWith(b, c, "unchanged")
                = DOMAIN b.cases \ ((Passed(b) \ Passed(c)) \cup (Passed(c) \ Passed(b)))
           /\ CasesWith(b, c, "warning") \cap CasesWith(b, c, "unchanged") = {}
<1>1. /\ DOMAIN b.cases = DOMAIN c.cases
      /\ \A n \in DOMAIN b.cases : b.cases[n].outcome \in {"pass", "fail"}
      /\ \A n \in DOMAIN b.cases : c.cases[n].outcome \in {"pass", "fail"}
  BY AcceptedDocuments
<1>2. ASSUME NEW n \in DOMAIN b.cases
      PROVE  /\ ClassifyChange(b.cases[n], c.cases[n]) = "regression"
                    <=> n \in Passed(b) \ Passed(c)
             /\ ClassifyChange(b.cases[n], c.cases[n]) = "improvement"
                    <=> n \in Passed(c) \ Passed(b)
             /\ ClassifyChange(b.cases[n], c.cases[n]) \in Changes
  BY <1>1 DEF ClassifyChange, Passed, Changes
<1> QED BY <1>1, <1>2 DEF CasesWith, Passed, Changes

\* Finite sets: a difference of sizes is the difference of what either has alone.
LEMMA SizesOfDifferences ==
    ASSUME NEW S, NEW T, IsFiniteSet(S), IsFiniteSet(T)
    PROVE  /\ Cardinality(S \ T) \in Nat /\ Cardinality(T \ S) \in Nat
           /\ Cardinality(S) \in Nat /\ Cardinality(T) \in Nat
           /\ Cardinality(T \ S) - Cardinality(S \ T) = Cardinality(T) - Cardinality(S)
<1>1. IsFiniteSet(S \ T) /\ IsFiniteSet(T \ S) /\ IsFiniteSet(S \cap T)
  BY FS_Subset
<1>2. Cardinality(S \ T) = Cardinality(S) - Cardinality(S \cap T)
  BY FS_Difference
<1>3. Cardinality(T \ S) = Cardinality(T) - Cardinality(T \cap S)
  BY FS_Difference
<1>4. S \cap T = T \cap S
  OBVIOUS
<1>5. Cardinality(S \cap T) \in Nat /\ Cardinality(S) \in Nat /\ Cardinality(T) \in Nat
      /\ Cardinality(S \ T) \in Nat /\ Cardinality(T \ S) \in Nat
  BY <1>1, FS_CardinalityType
<1> QED BY <1>2, <1>3, <1>4, <1>5

\* Two disjoint finite sets together have the sum of their sizes.
LEMMA DisjointSizes ==
    ASSUME NEW S, NEW T, IsFiniteSet(S), IsFiniteSet(T), S \cap T = {}
    PROVE  /\ IsFiniteSet(S \cup T) /\ Cardinality(S) \in Nat /\ Cardinality(T) \in Nat
           /\ Cardinality(S \cup T) = Cardinality(S) + Cardinality(T)
<1>1. Cardinality(S \cap T) = 0
  BY FS_EmptySet
<1>2. Cardinality(S) \in Nat /\ Cardinality(T) \in Nat
  BY FS_CardinalityType
<1>3. IsFiniteSet(S \cup T)
      /\ Cardinality(S \cup T) = Cardinality(S) + Cardinality(T) - Cardinality(S \cap T)
  BY FS_Union
<1> QED BY <1>1, <1>2, <1>3

\* Exit code 0 means that no pass was lost.
LEMMA ExitCodeMeaning ==
    ASSUME NEW b \in Document, NEW c \in Document, CompareBaselines(b, c).ok
    PROVE  CompareBaselines(b, c).exitCode = 0 <=> Passed(b) \subseteq Passed(c)
  BY AcceptedDocuments, ClassesAreOutcomes

\* The counts are those of the outcomes.
LEMMA CountsMeaning ==
    ASSUME NEW b \in Document, NEW c \in Document, CompareBaselines(b, c).ok
    PROVE  LET count == CompareBaselines(b, c).summary IN
           /\ count["improvement"] - count["regression"]
                = Cardinality(Passed(c)) - Cardinality(Passed(b))
           /\ count["regression"] + count["improvement"] + count["warning"] + count["unchanged"]
                = Cardinality(DOMAIN b.cases \cup DOMAIN c.cases)
<1> DEFINE R == Passed(b) \ Passed(c)
           I == Passed(c) \ Passed(b)
           W == CasesWith(b, c, "warning")
           U == CasesWith(b, c, "unchanged")
           D == DOMAIN b.cases
<1>1. IsFiniteSet(D) /\ D = DOMAIN c.cases /\ D = DOMAIN b.cases \cup DOMAIN c.cases
  BY AcceptedDocuments
<1>2. Passed(b) \subseteq D /\ Passed(c) \subseteq D /\ W \subseteq D /\ U \subseteq D
  BY <1>1 DEF Passed, CasesWith
<1>3. /\ IsFiniteSet(Passed(b)) /\ IsFiniteSet(Passed(c)) /\ IsFiniteSet(W) /\ IsFiniteSet(U)
      /\ IsFiniteSet(R) /\ IsFiniteSet(I)
  BY <1>1, <1>2, FS_Subset
<1>4. /\ CompareBaselines(b, c).summary["regression"] = Cardinality(R)
      /\ CompareBaselines(b, c).summary["improvement"] = Cardinality(I)
      /\ CompareBaselines(b, c).summary["warning"] = Cardinality(W)
      /\ CompareBaselines(b, c).summary["unchanged"] = Cardinality(U)
  <2>1. \A change \in Changes :
            CompareBaselines(b, c).summary[change] = Cardinality(CasesWith(b, c, change))
    BY AcceptedDocuments
  <2>2. CasesWith(b, c, "regression") = R /\ CasesWith(b, c, "improvement") = I
    BY ClassesAreOutcomes
  <2>3. {"regression", "improvement", "warning", "unchanged"} \subseteq Changes
    BY DEF Changes
  <2> HIDE DEF R, I
  <2> QED BY <2>1, <2>2, <2>3
<1>5. Cardinality(I) - Cardinality(R) = Cardinality(Passed(c)) - Cardinality(Passed(b))
  BY <1>3, SizesOfDifferences
<1>6. W \cup U = D \ (R \cup I) /\ W \cap U = {}
  BY ClassesAreOutcomes
<1>7. IsFiniteSet(R \cup I) /\ Cardinality(R \cup I) = Cardinality(R) + Cardinality(I)
      /\ Cardinality(R) \in Nat /\ Cardinality(I) \in Nat
  <2>1. R \cap I = {}
    OBVIOUS
  <2> QED BY <1>3, <2>1, DisjointSizes
<1>8. IsFiniteSet(W \cup U) /\ Cardinality(W \cup U) = Cardinality(W) + Cardinality(U)
      /\ Cardinality(W) \in Nat /\ Cardinality(U) \in Nat
  BY <1>3, <1>6, DisjointSizes
<1>9. Cardinality((R \cup I) \cup (W \cup U)) = Cardinality(R \cup I) + Cardinality(W \cup U)
  <2>1. (R \cup I) \cap (W \cup U) = {}
    BY <1>6
  <2> HIDE DEF R, I, W, U
  <2> QED BY <1>7, <1>8, <2>1, DisjointSizes
<1>10. (R \cup I) \cup (W \cup U) = D
  BY <1>2, <1>6
<1>11. DOMAIN b.cases \cup DOMAIN c.cases = D
  BY <1>1
<1>12. Cardinality(R) + Cardinality(I) + Cardinality(W) + Cardinality(U) = Cardinality(D)
  <2>1. Cardinality(D) = Cardinality(R \cup I) + Cardinality(W \cup U)
    <3> HIDE DEF R, I, W, U, D
    <3> QED BY <1>9, <1>10, Zenon
  <2> HIDE DEF R, I, W, U, D
  <2> QED BY <1>7, <1>8, <2>1
<1> HIDE DEF R, I, W, U, D
<1> QED BY <1>4, <1>5, <1>11, <1>12

-----------------------------------------------------------------------------
\* What the command judges: a document it was given or fetched, and what the
\* server handed out for its own run.
GateInv ==
    /\ base \in Document \cup Runs \cup {NoBase}
    /\ exported \in [Runs -> Document \cup {NoExport}]
    /\ pc \in {"creating", "posted", "polling", "asking", "sleeping"}
        => base \in Document \cup {NoBase}
    /\ pc \in {"polling", "asking", "sleeping", "judging", "comparing"} => mine \in Runs
    /\ pc \in {"judging", "comparing"} => base \in Document
    /\ pc = "comparing" => exported[mine] \in Document

LEMMA BaselinesAreDocuments ==
    ASSUME NEW r \in Runs PROVE Baseline(r) \in Document
<1>1. RunScore \in Scores /\ TheirDataset \in Datasets
  BY RunAssumption DEF RunScore, TheirDataset
<1>2. ASSUME NEW status
      PROVE  CaseOutcome(status) \in Outcomes /\ Score(status) \in Scores \cup {NoScore}
  BY <1>1 DEF CaseOutcome, Outcomes, Score
<1>3. SidesByCase(r) \in [CaseNames -> Side]
  BY <1>2 DEF SidesByCase, NoJob, Side, Outcomes
<1>4. SidesByCase(r) \in UNION {[N -> Side] : N \in SUBSET CaseNames}
  BY <1>3
<1> QED BY <1>1, <1>4 DEF Baseline, Document

LEMMA GivenAreDocuments == GivenDocuments \subseteq Document
<1>1. GivenSides \subseteq Side
  BY DEF GivenSides, NoJob, Side, Outcomes
<1>2. ASSUME NEW N \in SUBSET CaseNames PROVE [N -> GivenSides] \subseteq [N -> Side]
  BY <1>1
<1> QED BY <1>2 DEF GivenDocuments, Document

LEMMA ExportKeepsDocuments ==
    ASSUME NEW r \in Runs, ExportBaseline(r),
           exported \in [Runs -> Document \cup {NoExport}]
    PROVE  exported' \in [Runs -> Document \cup {NoExport}] /\ exported'[r] \in Document
  BY BaselinesAreDocuments DEF ExportBaseline

LEMMA GateInvariant == CliSpec => []GateInv
<1>1. CliInit => GateInv
  BY GivenAreDocuments DEF CliInit, Init, GateInv, NoExport
<1>2. GateInv /\ [CliNext]_cliVars => GateInv'
  <2> SUFFICES ASSUME GateInv, [CliNext]_cliVars PROVE GateInv'
    OBVIOUS
  <2>1. CASE FetchBaseline
    <3>1. CASE \E r \in Runs : base = r /\ ExportBaseline(r) /\ base' = Baseline(r)
                              /\ UNCHANGED <<pc, exit, mine>>
      BY <2>1, <3>1, ExportKeepsDocuments, BaselinesAreDocuments DEF GateInv, FetchBaseline
    <3>2. CASE Fail /\ UNCHANGED server
      BY <3>2 DEF GateInv, Fail, Exit, server
    <3> QED BY <2>1, <3>1, <3>2 DEF FetchBaseline
  <2>2. CASE LoadBaseline
    BY <2>2 DEF GateInv, LoadBaseline, Fail, Exit, Step, server
  <2>3. CASE PostRun \/ AskReport \/ SleepEnds
    BY <2>3 DEF GateInv, PostRun, AskReport, CountJobs, SleepEnds, Step, server
  <2>4. CASE ReportAnswered
    BY <2>4 DEF GateInv, ReportAnswered, Exit, Step
  <2>5. CASE AskCandidate
    <3>1. mine \in Runs
      BY <2>5 DEF AskCandidate, GateInv
    <3>2. CASE ExportBaseline(mine) /\ Step("judging", "comparing") /\ UNCHANGED <<base, mine>>
      BY <3>1, <3>2, ExportKeepsDocuments DEF GateInv, Step
    <3>3. CASE Fail /\ UNCHANGED server
      BY <3>3 DEF GateInv, Fail, Exit, server
    <3> QED BY <2>5, <3>2, <3>3 DEF AskCandidate
  <2>6. CASE Judge
    BY <2>6 DEF GateInv, Judge, Fail, Exit, server
  <2>7. CASE \E r \in Runs : CreationAnswered(r)
    BY <2>7 DEF GateInv, CreationAnswered, Step, server
  <2>8. CASE RequestFails \/ Deadline
    BY <2>8 DEF GateInv, RequestFails, Deadline, Fail, Exit, server
  <2>9. CASE ServerGoesOn
    <3>1. UNCHANGED command
      BY <2>9 DEF ServerGoesOn
    <3>2. CASE JobsNext \/ ReportNext
      BY <3>1, <3>2 DEF GateInv, command, JobsNext, JobMoves, Redrive, ReportNext, CountPasses,
         AggregateTotals, ReadLatencies
    <3>3. CASE OthersAsk
      <4>1. CASE \E r \in Runs : ExportBaseline(r)
        <5>1. PICK r \in Runs : ExportBaseline(r)
          BY <4>1
        <5>2. exported' \in [Runs -> Document \cup {NoExport}] /\ exported'[r] \in Document
          BY <5>1, ExportKeepsDocuments DEF GateInv
        <5>3. exported' = [exported EXCEPT ![r] = Baseline(r)]
          BY <5>1 DEF ExportBaseline
        <5> QED BY <3>1, <5>2, <5>3, BaselinesAreDocuments DEF GateInv, command
      <4>2. CASE UNCHANGED exported
        BY <3>1, <4>2 DEF GateInv, command
      <4> QED BY <3>3, <4>1, <4>2 DEF OthersAsk, StartComparison, ReadSides
    <3> QED BY <2>9, <3>2, <3>3 DEF ServerGoesOn
  <2>10. CASE \E r \in Runs : ServeCreation(r)
    BY <2>10 DEF GateInv, ServeCreation, CreateRun
  <2>11. CASE UNCHANGED cliVars
    BY <2>11 DEF GateInv, cliVars
  <2> QED BY <2>1, <2>2, <2>3, <2>4, <2>5, <2>6, <2>7, <2>8, <2>9, <2>10, <2>11
          DEF CliNext, CommandGoesOn
<1> QED BY <1>1, <1>2, PTL DEF CliSpec

\* A run passes the gate exactly when it lost no pass of the baseline.
THEOREM GateBlocksLostPasses == CliSpec => []ExitCodeTellsLostPasses
<1>1. GateInv => ExitCodeTellsLostPasses
  BY ExitCodeMeaning DEF GateInv, ExitCodeTellsLostPasses, Verdict
<1> QED BY <1>1, GateInvariant, PTL

\* The counts add up to the cases, and to the change of the pass count.
THEOREM GateCountsAddUp == CliSpec => []SummaryAddsUp
<1>1. GateInv => SummaryAddsUp
  BY CountsMeaning DEF GateInv, SummaryAddsUp, Verdict
<1> QED BY <1>1, GateInvariant, PTL

\* What the gate prints and what it exits with are right about the two runs.
THEOREM GateStaysRight == CliSpec => []GateIsRight
BY GateBlocksLostPasses, GateCountsAddUp, PTL DEF GateIsRight

-----------------------------------------------------------------------------
\* The server: whatever is asked of it, its jobs only go forward.
Terminal == {"right", "wrong", "dead"}

JobsInv ==
    /\ jobs \in [Runs -> [CaseNames -> Statuses]]
    /\ \A r \in Runs : Exists(r) => \A c \in CaseNames : jobs[r][c] # "absent"
    /\ redrives \in Nat

\* What a step of the server does to the jobs, as far as an observer minds.
Progress ==
    /\ redrives' >= redrives
    /\ \A r \in Runs : Exists(r) => Exists(r)'
    /\ \A r \in Runs, c \in CaseNames :
        /\ jobs[r][c] = "right" => jobs'[r][c] = "right"
        /\ redrives' = redrives /\ jobs[r][c] \in Terminal => jobs'[r][c] = jobs[r][c]

\* The steps of the server, whoever asks for them.
ServerNext ==
    \/ UNCHANGED server
    \/ \E r \in Runs : CreateRun(r) \/ CountJobs(r) \/ ExportBaseline(r)
    \/ \E r \in Runs, c \in CaseNames : JobMoves(r, c) \/ Redrive(r, c)
    \/ CountPasses \/ AggregateTotals \/ ReadLatencies
    \/ \E b, c \in Runs : StartComparison(b, c)
    \/ \E i \in {1, 2} : ReadSides(i)
    \/ report' = NoReport /\ UNCHANGED <<jobs, redrives, compared, exported>>

LEMMA StepsOfTheServer ==
    ASSUME GateInv, [CliNext]_cliVars
    PROVE  ServerNext
<1>1. CASE FetchBaseline
  BY <1>1 DEF FetchBaseline, ServerNext
<1>2. CASE LoadBaseline \/ PostRun \/ SleepEnds \/ Judge \/ RequestFails \/ Deadline
  BY <1>2 DEF LoadBaseline, PostRun, SleepEnds, Judge, RequestFails, Deadline, ServerNext
<1>3. CASE AskReport
  BY <1>3 DEF AskReport, Step, GateInv, ServerNext
<1>4. CASE ReportAnswered
  BY <1>4 DEF ReportAnswered, ServerNext, server
<1>5. CASE AskCandidate
  BY <1>5 DEF AskCandidate, GateInv, ServerNext
<1>6. CASE \E r \in Runs : CreationAnswered(r)
  BY <1>6 DEF CreationAnswered, ServerNext
<1>7. CASE ServerGoesOn
  BY <1>7 DEF ServerGoesOn, JobsNext, ReportNext, OthersAsk, ServerNext
<1>8. CASE \E r \in Runs : ServeCreation(r)
  BY <1>8 DEF ServeCreation, ServerNext
<1>9. CASE UNCHANGED cliVars
  BY <1>9 DEF cliVars, server, ServerNext
<1> QED BY <1>1, <1>2, <1>3, <1>4, <1>5, <1>6, <1>7, <1>8, <1>9 DEF CliNext, CommandGoesOn

\* Runs appear with all of their jobs, and the jobs go forward.
LEMMA JobsGoForward ==
    ASSUME JobsInv, ServerNext
    PROVE  JobsInv' /\ Progress
<1>1. CASE UNCHANGED <<jobs, redrives>>
  BY <1>1 DEF JobsInv, Progress, Exists
<1>2. ASSUME NEW r \in Runs, CreateRun(r) PROVE JobsInv' /\ Progress
  <2>1. jobs' = [jobs EXCEPT ![r] = [c \in CaseNames |-> "queued"]] /\ redrives' = redrives
    BY <1>2 DEF CreateRun
  <2>2. \A c \in CaseNames : jobs[r][c] = "absent"
    BY <1>2 DEF CreateRun, Exists
  <2>3. jobs' \in [Runs -> [CaseNames -> Statuses]]
    BY <2>1 DEF JobsInv, Statuses
  <2>4. \A q \in Runs : q # r => jobs'[q] = jobs[q]
    BY <2>1 DEF JobsInv
  <2>5. \A c \in CaseNames : jobs'[r][c] = "queued"
    BY <2>1 DEF JobsInv
  <2> QED BY <2>1, <2>2, <2>3, <2>4, <2>5 DEF JobsInv, Progress, Exists, Terminal
<1>3. ASSUME NEW r \in Runs, NEW c \in CaseNames, JobMoves(r, c) \/ Redrive(r, c)
      PROVE  JobsInv' /\ Progress
  <2>1. PICK to \in Statuses \ {"absent"} : jobs' = [jobs EXCEPT ![r][c] = to]
    BY <1>3 DEF JobMoves, Redrive, Statuses, Moves
  <2>2. \/ redrives' = redrives /\ jobs[r][c] \in {"queued", "running"}
        \/ redrives' = redrives + 1 /\ jobs[r][c] = "dead"
    BY <1>3 DEF JobMoves, Redrive, Moves
  <2>3. jobs' \in [Runs -> [CaseNames -> Statuses]]
    BY <2>1 DEF JobsInv
  <2>4. \A q \in Runs, d \in CaseNames :
            IF q = r /\ d = c THEN jobs'[q][d] = to ELSE jobs'[q][d] = jobs[q][d]
    BY <2>1 DEF JobsInv
  <2>5. redrives' \in Nat /\ redrives' >= redrives
    BY <2>2 DEF JobsInv
  <2>6. \A q \in Runs : Exists(q) <=> Exists(q)'
    BY <2>2, <2>4 DEF Exists
  <2>7. \A q \in Runs, d \in CaseNames :
            /\ jobs[q][d] = "right" => jobs'[q][d] = "right"
            /\ redrives' = redrives /\ jobs[q][d] \in Terminal => jobs'[q][d] = jobs[q][d]
    BY <2>2, <2>4 DEF JobsInv, Terminal
  <2>8. \A q \in Runs : Exists(q)' => \A d \in CaseNames : jobs'[q][d] # "absent"
    BY <2>4, <2>6 DEF JobsInv
  <2> QED BY <2>3, <2>5, <2>6, <2>7, <2>8 DEF JobsInv, Progress
<1> QED BY <1>1, <1>2, <1>3 DEF ServerNext, server, CountJobs, ExportBaseline, CountPasses,
        AggregateTotals, ReadLatencies, StartComparison, ReadSides

-----------------------------------------------------------------------------
\* Exports.

\* What was exported of r is true.
ExportTrue(r) ==
    /\ DOMAIN exported[r].cases = CaseNames
    /\ \A c \in CaseNames :
        /\ exported[r].cases[c].outcome = "pass" => jobs[r][c] = "right"
        /\ exported[r].cases[c].outcome = "fail" /\ redrives = 0 => jobs[r][c] \in {"wrong", "dead"}

ExportInv == \A r \in Runs : exported[r] = NoExport \/ ExportTrue(r)

\* A side of a case tells its status.
LEMMA SidesTellTheStatus ==
    ASSUME JobsInv, NEW r \in Runs, NEW c \in CaseNames
    PROVE  /\ SidesByCase(r)[c] \in Side
           /\ SidesByCase(r)[c].outcome = "pass" <=> jobs[r][c] = "right"
           /\ SidesByCase(r)[c].outcome = "fail" <=> jobs[r][c] \in {"wrong", "dead"}
           /\ SidesByCase(r)[c].outcome = "pending" <=> jobs[r][c] \notin Terminal
<1>1. jobs[r][c] \in Statuses
  BY DEF JobsInv
<1>2. RunScore \in Scores
  BY RunAssumption DEF RunScore
<1> QED BY <1>1, <1>2 DEF Statuses, SidesByCase, CaseOutcome, Score, NoJob, Side, Outcomes,
        Unfinished, Terminal

LEMMA ExportsAreTrue ==
    ASSUME JobsInv, NEW r \in Runs, ExportBaseline(r), exported \in [Runs -> Document \cup {NoExport}]
    PROVE  ExportTrue(r)' /\ \A q \in Runs \ {r} : exported'[q] = exported[q]
<1>1. exported' = [exported EXCEPT ![r] = Baseline(r)] /\ UNCHANGED <<jobs, redrives>>
  BY DEF ExportBaseline
<1>2. exported'[r].cases = SidesByCase(r)
  BY <1>1 DEF Baseline
<1>3. DOMAIN SidesByCase(r) = CaseNames
  BY DEF SidesByCase
<1> QED BY <1>1, <1>2, <1>3, SidesTellTheStatus DEF ExportTrue

LEMMA ExportsKept ==
    ASSUME JobsInv, ExportInv, ServerNext, Progress, exported \in [Runs -> Document \cup {NoExport}]
    PROVE  /\ ExportInv'
           /\ \A r \in Runs : ExportTrue(r) => ExportTrue(r)'
<1>1. CASE UNCHANGED exported
  <2>1. ASSUME NEW r \in Runs, ExportTrue(r) PROVE ExportTrue(r)'
    <3>1. redrives' = 0 => redrives = 0 /\ redrives' = redrives
      BY JobsGoForward DEF JobsInv, Progress
    <3> QED BY <1>1, <2>1, <3>1 DEF ExportTrue, Progress, Terminal
  <2> QED BY <1>1, <2>1 DEF ExportInv
<1>2. ASSUME NEW r \in Runs, ExportBaseline(r)
      PROVE  ExportInv' /\ \A q \in Runs : ExportTrue(q) => ExportTrue(q)'
  <2>1. ExportTrue(r)' /\ \A q \in Runs \ {r} : exported'[q] = exported[q]
    BY <1>2, ExportsAreTrue
  <2>2. UNCHANGED <<jobs, redrives>>
    BY <1>2 DEF ExportBaseline
  <2>3. ASSUME NEW q \in Runs \ {r}
        PROVE  (ExportTrue(q) => ExportTrue(q)') /\ (exported[q] = NoExport => exported'[q] = NoExport)
    BY <2>1, <2>2 DEF ExportTrue
  <2> QED BY <2>1, <2>3 DEF ExportInv
<1> QED BY <1>1, <1>2 DEF ServerNext, server, CreateRun, CountJobs, JobMoves, Redrive, CountPasses,
        AggregateTotals, ReadLatencies, StartComparison, ReadSides

-----------------------------------------------------------------------------
\* Comparisons.

Comparison ==
    [pc: {"reading", "done"}, runs: Runs \X Runs, since: Nat,
     sides: ({Unread} \cup [CaseNames -> Side]) \X ({Unread} \cup [CaseNames -> Side])]

\* What side i says of finished cases still holds.
SideTrue(i) ==
    compared.since = redrives =>
        \A c \in CaseNames :
            compared.sides[i][c].outcome # "pending" =>
                compared.sides[i][c] = SidesByCase(compared.runs[i])[c]

ComparisonInv ==
    /\ compared \in {NoComparison} \cup Comparison
    /\ compared.pc # "none" =>
        /\ compared.since <= redrives
        /\ \A i \in {1, 2} : compared.sides[i] = Unread \/ SideTrue(i)
    /\ compared.pc = "done" => SideTrue(1) /\ SideTrue(2)

\* Finished cases stay as they are while nothing is retried.
LEMMA SidesStay ==
    ASSUME JobsInv, JobsInv', Progress, redrives' = redrives, NEW r \in Runs, NEW c \in CaseNames,
           SidesByCase(r)[c].outcome # "pending"
    PROVE  SidesByCase(r)'[c] = SidesByCase(r)[c]
<1>1. jobs[r][c] \in Terminal
  BY SidesTellTheStatus
<1>2. jobs'[r][c] = jobs[r][c]
  BY <1>1 DEF Progress
<1> QED BY <1>2 DEF SidesByCase

LEMMA ComparisonsKept ==
    ASSUME JobsInv, JobsInv', Progress, ServerNext, ComparisonInv
    PROVE  ComparisonInv'
<1>1. CASE compared' = NoComparison
  BY <1>1 DEF ComparisonInv, NoComparison
<1>2. CASE UNCHANGED compared
  <2>1. ASSUME compared.pc # "none" PROVE compared \in Comparison
    BY <2>1 DEF ComparisonInv, NoComparison
  <2>2. ASSUME compared.pc # "none", NEW i \in {1, 2}, SideTrue(i) PROVE SideTrue(i)'
    <3>1. compared.runs[i] \in Runs /\ compared.since \in Nat /\ compared.since <= redrives
      BY <2>1, <2>2 DEF Comparison, ComparisonInv
    <3>2. compared.since = redrives' => redrives' = redrives
      BY <3>1 DEF Progress, JobsInv
    <3> QED BY <1>2, <2>2, <3>1, <3>2, SidesStay DEF SideTrue
  <2>3. compared.pc # "none" => compared.since <= redrives'
    BY <2>1 DEF Comparison, ComparisonInv, Progress, JobsInv
  <2>4. \A i \in {1, 2} : compared.pc # "none" /\ compared.sides[i] # Unread => SideTrue(i)'
    BY <2>2 DEF ComparisonInv
  <2>5. compared.pc = "done" => SideTrue(1)' /\ SideTrue(2)'
    BY <2>2 DEF ComparisonInv
  <2> QED BY <1>2, <2>3, <2>4, <2>5 DEF ComparisonInv
<1>3. ASSUME NEW b \in Runs, NEW c \in Runs, StartComparison(b, c) PROVE ComparisonInv'
  BY <1>3 DEF StartComparison, ComparisonInv, Comparison, JobsInv
<1>4. ASSUME NEW i \in {1, 2}, ReadSides(i) PROVE ComparisonInv'
  <2>1. compared \in Comparison /\ compared.pc = "reading"
    BY <1>4 DEF ReadSides, ComparisonInv, NoComparison
  <2>2. PICK stage \in {"reading", "done"} :
            /\ compared' = [compared EXCEPT !.sides[i] = SidesByCase(compared.runs[i]), !.pc = stage]
            /\ stage = "done" => compared.sides[3 - i] # Unread
    BY <1>4 DEF ReadSides
  <2>3. UNCHANGED <<jobs, redrives>>
    BY <1>4 DEF ReadSides
  <2>4. SidesByCase(compared.runs[i]) \in [CaseNames -> Side]
    <3>1. compared.runs[i] \in Runs
      BY <2>1 DEF Comparison
    <3>2. \A c \in CaseNames : SidesByCase(compared.runs[i])[c] \in Side
      BY <3>1, SidesTellTheStatus
    <3> QED BY <3>2 DEF SidesByCase
  <2>5. /\ compared'.pc = stage /\ compared'.runs = compared.runs /\ compared'.since = compared.since
        /\ compared'.sides[i] = SidesByCase(compared.runs[i])
        /\ compared'.sides[3 - i] = compared.sides[3 - i]
        /\ compared' \in Comparison
    <3> DEFINE S == {Unread} \cup [CaseNames -> Side]
    <3>1. compared' = [compared EXCEPT !.sides = [compared.sides EXCEPT ![i] = SidesByCase(compared.runs[i])],
                                       !.pc = stage]
      BY <2>2
    <3>2. SidesByCase(compared.runs[i]) \in S /\ compared.sides \in S \X S
      BY <2>1, <2>4 DEF Comparison
    <3> HIDE DEF S
    <3>3. /\ [compared.sides EXCEPT ![i] = SidesByCase(compared.runs[i])] \in S \X S
          /\ [compared.sides EXCEPT ![i] = SidesByCase(compared.runs[i])][i]
                = SidesByCase(compared.runs[i])
          /\ [compared.sides EXCEPT ![i] = SidesByCase(compared.runs[i])][3 - i]
                = compared.sides[3 - i]
      <4>1. CASE i = 1
        BY <3>2, <4>1
      <4>2. CASE i = 2
        BY <3>2, <4>2
      <4> QED BY <4>1, <4>2
    <3> QED BY <2>1, <3>1, <3>3 DEF Comparison, S
  <2>6. SideTrue(i)'
    BY <2>3, <2>5 DEF SideTrue, SidesByCase
  <2>7. compared.sides[3 - i] # Unread => SideTrue(3 - i)'
    <3>1. compared.sides[3 - i] # Unread => SideTrue(3 - i)
      BY <2>1 DEF ComparisonInv
    <3> QED BY <2>3, <2>5, <3>1 DEF SideTrue, SidesByCase
  <2>8. compared'.since <= redrives'
    BY <2>1, <2>3, <2>5 DEF ComparisonInv
  <2>9. CASE i = 1
    BY <2>2, <2>5, <2>6, <2>7, <2>8, <2>9 DEF ComparisonInv
  <2>10. CASE i = 2
    BY <2>2, <2>5, <2>6, <2>7, <2>8, <2>10 DEF ComparisonInv
  <2> QED BY <2>9, <2>10
<1> QED BY <1>1, <1>2, <1>3, <1>4 DEF ServerNext, server, CreateRun, CountJobs, JobMoves, Redrive,
        CountPasses, AggregateTotals, ReadLatencies, ExportBaseline

\* A finished case does not differ from itself.
LEMMA NoChangeFromItself ==
    ASSUME NEW s \in Side, s.outcome # "pending"
    PROVE  ClassifyChange(s, s) = "unchanged"
<1>1. ScoreOrZero(s.score) \in Nat
  BY GateAssumption DEF ScoreOrZero, Side
<1> QED BY <1>1 DEF ClassifyChange, Side, Outcomes

LEMMA ComparisonsAreSettled ==
    ASSUME JobsInv, ComparisonInv
    PROVE  ComparisonIsSettled
<1> SUFFICES ASSUME compared.pc = "done", Undisturbed(compared), NEW c \in CaseNames,
                    Change(c) # "pending"
             PROVE  /\ Change(c) = ClassifyChange(SidesByCase(compared.runs[1])[c],
                                                  SidesByCase(compared.runs[2])[c])
                    /\ compared.runs[1] = compared.runs[2] => Change(c) = "unchanged"
  BY DEF ComparisonIsSettled
<1>1. compared.sides[1][c].outcome # "pending" /\ compared.sides[2][c].outcome # "pending"
  BY DEF Change, ClassifyChange
<1>2. /\ compared.sides[1][c] = SidesByCase(compared.runs[1])[c]
      /\ compared.sides[2][c] = SidesByCase(compared.runs[2])[c]
  BY <1>1 DEF ComparisonInv, SideTrue, Undisturbed
<1>3. compared.runs[1] \in Runs
  BY DEF ComparisonInv, Comparison, NoComparison
<1>4. SidesByCase(compared.runs[1])[c] \in Side
  BY <1>3, SidesTellTheStatus
<1> QED BY <1>1, <1>2, <1>4, NoChangeFromItself DEF Change

-----------------------------------------------------------------------------
\* Reports.

Report ==
    [pc: {"counted", "passes", "totals", "done"}, run: Runs, since: Nat, total: Nat, queued: Nat,
     running: Nat, completed: Nat, failed: Nat, passed: Nat, scored: Nat, timed: Nat]

\* A report of a finished run that nobody retried since still counts what there
\* is, in every part that was read.
ReportIsExact ==
    /\ \A c \in CaseNames : jobs[report.run][c] \in Terminal
    /\ report.completed = Cardinality(CasesIn(report.run, Completed))
    /\ report.failed = Cardinality(CasesIn(report.run, {"dead"}))
    /\ report.pc # "counted" => report.passed = Cardinality(CasesIn(report.run, {"right"}))
    /\ report.pc \in {"totals", "done"} => report.scored = Cardinality(CasesIn(report.run, Completed))
    /\ report.pc = "done" => report.timed = Cardinality(CasesIn(report.run, Completed))

ReportInv ==
    /\ report \in {NoReport} \cup Report
    /\ report.pc # "none" => Exists(report.run) /\ report.since <= redrives
    /\ ReportCoversRun
    /\ report.pc # "none" /\ Finished /\ Undisturbed(report) => ReportIsExact

\* Sets of cases are finite, and no larger than all of them.
LEMMA CaseCounts ==
    ASSUME NEW r, NEW S
    PROVE  /\ IsFiniteSet(CasesIn(r, S))
           /\ Cardinality(CasesIn(r, S)) \in Nat /\ Cardinality(CaseNames) \in Nat
           /\ Cardinality(CasesIn(r, S)) <= Cardinality(CaseNames)
<1>1. CasesIn(r, S) \subseteq CaseNames
  BY DEF CasesIn
<1> QED BY <1>1, GateAssumption, FS_Subset, FS_CardinalityType

\* The statuses divide the cases of a run that exists.
LEMMA StatusesDivideTheCases ==
    ASSUME JobsInv, NEW r \in Runs, Exists(r)
    PROVE  /\ CasesIn(r, Statuses \ {"absent"}) = CaseNames
           /\ Cardinality(CaseNames) = Cardinality(CasesIn(r, {"queued"}))
                + Cardinality(CasesIn(r, {"running"})) + Cardinality(CasesIn(r, Completed))
                + Cardinality(CasesIn(r, {"dead"}))
<1> DEFINE Q == CasesIn(r, {"queued"})
           R == CasesIn(r, {"running"})
           C == CasesIn(r, Completed)
           D == CasesIn(r, {"dead"})
<1>1. \A c \in CaseNames : jobs[r][c] \in Statuses \ {"absent"}
  BY DEF JobsInv
<1>2. CaseNames = (Q \cup R) \cup (C \cup D)
  BY <1>1 DEF CasesIn, Statuses, Completed
<1>3. Q \cap R = {} /\ C \cap D = {} /\ (Q \cup R) \cap (C \cup D) = {}
  BY DEF CasesIn, Completed
<1>4. IsFiniteSet(Q) /\ IsFiniteSet(R) /\ IsFiniteSet(C) /\ IsFiniteSet(D)
  BY CaseCounts
<1>5. CasesIn(r, Statuses \ {"absent"}) = CaseNames
  BY <1>1 DEF CasesIn
<1> HIDE DEF Q, R, C, D
<1>6. /\ IsFiniteSet(Q \cup R) /\ Cardinality(Q) \in Nat /\ Cardinality(R) \in Nat
      /\ Cardinality(Q \cup R) = Cardinality(Q) + Cardinality(R)
  BY <1>3, <1>4, DisjointSizes
<1>7. /\ IsFiniteSet(C \cup D) /\ Cardinality(C) \in Nat /\ Cardinality(D) \in Nat
      /\ Cardinality(C \cup D) = Cardinality(C) + Cardinality(D)
  BY <1>3, <1>4, DisjointSizes
<1>8. Cardinality((Q \cup R) \cup (C \cup D)) = Cardinality(Q \cup R) + Cardinality(C \cup D)
  BY <1>3, <1>6, <1>7, DisjointSizes
<1>9. Cardinality(CaseNames) = Cardinality(Q \cup R) + Cardinality(C \cup D)
  BY <1>2, <1>8, Zenon
<1>10. Cardinality(CaseNames)
        = Cardinality(Q) + Cardinality(R) + Cardinality(C) + Cardinality(D)
  BY <1>6, <1>7, <1>9
<1> QED BY <1>5, <1>10 DEF Q, R, C, D

\* A finished run stays as it is while nothing is retried.
LEMMA FinishedRunsStay ==
    ASSUME JobsInv, Progress, redrives' = redrives, NEW r \in Runs,
           \A c \in CaseNames : jobs[r][c] \in Terminal
    PROVE  \A c \in CaseNames : jobs'[r][c] = jobs[r][c]
  BY DEF Progress

LEMMA ReportsKept ==
    ASSUME JobsInv, JobsInv', Progress, ServerNext, ReportInv
    PROVE  ReportInv'
<1>1. CASE report' = NoReport
  BY <1>1 DEF ReportInv, ReportCoversRun, NoReport
<1>2. CASE UNCHANGED report
  <2>1. CASE report.pc = "none"
    BY <1>2, <2>1 DEF ReportInv, ReportCoversRun
  <2>2. CASE report.pc # "none"
    <3>1. report \in Report /\ report.run \in Runs /\ report.since \in Nat
      BY <2>2 DEF ReportInv, NoReport, Report
    <3>2. Exists(report.run)' /\ report.since <= redrives'
      BY <1>2, <2>2, <3>1 DEF ReportInv, Progress, JobsInv
    <3>3. ReportCoversRun'
      BY <1>2 DEF ReportInv, ReportCoversRun
    <3>4. ASSUME Finished', Undisturbed(report)' PROVE ReportIsExact'
      <4>1. redrives' = redrives
        BY <1>2, <2>2, <3>1, <3>4 DEF ReportInv, Progress, JobsInv, Undisturbed
      <4>2. ReportIsExact
        BY <1>2, <2>2, <3>4, <4>1 DEF ReportInv, Finished, Undisturbed
      <4>3. \A c \in CaseNames : jobs[report.run][c] \in Terminal
        BY <4>2 DEF ReportIsExact
      <4>4. \A c \in CaseNames : jobs'[report.run][c] = jobs[report.run][c]
        BY <3>1, <4>1, <4>3, FinishedRunsStay
      <4>5. \A S : CasesIn(report.run, S)' = CasesIn(report.run, S)
        BY <1>2, <4>4 DEF CasesIn
      <4>6. /\ CasesIn(report.run, Completed)' = CasesIn(report.run, Completed)
            /\ CasesIn(report.run, {"dead"})' = CasesIn(report.run, {"dead"})
            /\ CasesIn(report.run, {"right"})' = CasesIn(report.run, {"right"})
        BY <4>5 DEF Completed
      <4> QED BY <1>2, <4>2, <4>3, <4>4, <4>6 DEF ReportIsExact
    <3> QED BY <1>2, <3>1, <3>2, <3>3, <3>4 DEF ReportInv
  <2> QED BY <2>1, <2>2
<1>3. ASSUME NEW r \in Runs, CountJobs(r) PROVE ReportInv'
  <2>1. Exists(r) /\ UNCHANGED <<jobs, redrives>>
    BY <1>3 DEF CountJobs
  <2>2. report' = [pc |-> "counted", run |-> r, since |-> redrives,
                   total |-> Cardinality(CasesIn(r, Statuses \ {"absent"})),
                   queued |-> Cardinality(CasesIn(r, {"queued"})),
                   running |-> Cardinality(CasesIn(r, {"running"})),
                   completed |-> Cardinality(CasesIn(r, Completed)),
                   failed |-> Cardinality(CasesIn(r, {"dead"})),
                   passed |-> 0, scored |-> 0, timed |-> 0]
    BY <1>3 DEF CountJobs
  <2>3. \A S : Cardinality(CasesIn(r, S)) \in Nat /\ IsFiniteSet(CasesIn(r, S))
    BY CaseCounts
  <2>4. report' \in Report
    BY <2>2, <2>3 DEF Report, JobsInv
  <2>5. ReportCoversRun'
    <3>1. report'.total = Cardinality(CaseNames) /\ report'.passed = 0
      BY <2>1, <2>2, StatusesDivideTheCases
    <3>2. report'.total = report'.queued + report'.running + report'.completed + report'.failed
      BY <2>1, <2>2, StatusesDivideTheCases
    <3>3. Cardinality(CaseNames) \in Nat
      BY CaseCounts
    <3> QED BY <3>1, <3>2, <3>3 DEF ReportCoversRun
  <2>6. ASSUME Finished' PROVE ReportIsExact'
    <3>1. Cardinality(CasesIn(r, {"queued"})) = 0 /\ Cardinality(CasesIn(r, {"running"})) = 0
      <4>1. report'.queued + report'.running = 0 /\ report'.queued \in Nat /\ report'.running \in Nat
        BY <2>4, <2>6 DEF Finished, Report
      <4> QED BY <2>2, <4>1
    <3>2. CasesIn(r, {"queued"}) = {} /\ CasesIn(r, {"running"}) = {}
      BY <2>3, <3>1, FS_EmptySet
    <3>3. \A c \in CaseNames : jobs[r][c] \in Terminal
      BY <2>1, <3>2 DEF CasesIn, JobsInv, Statuses, Terminal
    <3> QED BY <2>1, <2>2, <3>3 DEF ReportIsExact, CasesIn
  <2> QED BY <2>1, <2>2, <2>4, <2>5, <2>6 DEF ReportInv, Exists, JobsInv
<1>4. CASE CountPasses \/ AggregateTotals \/ ReadLatencies
  <2>1. report \in Report /\ UNCHANGED <<jobs, redrives>>
    BY <1>4 DEF ReportInv, NoReport, CountPasses, AggregateTotals, ReadLatencies
  <2>2. \A S : Cardinality(CasesIn(report.run, S)) \in Nat
            /\ Cardinality(CasesIn(report.run, S)) <= Cardinality(CaseNames)
    BY CaseCounts
  <2>3. report' \in Report
    <3> DEFINE passes == Cardinality(CasesIn(report.run, {"right"}))
               completed == Cardinality(CasesIn(report.run, Completed))
    <3>1. passes \in Nat /\ completed \in Nat
      BY <2>2
    <3>2. \/ report' = [report EXCEPT !.pc = "passes", !.passed = passes]
          \/ report' = [report EXCEPT !.pc = "totals", !.scored = completed]
          \/ report' = [report EXCEPT !.pc = "done", !.timed = completed]
      BY <1>4 DEF CountPasses, AggregateTotals, ReadLatencies
    <3> HIDE DEF passes, completed
    <3> QED BY <2>1, <3>1, <3>2 DEF Report
  <2>4. /\ report'.run = report.run /\ report'.since = report.since /\ report'.total = report.total
        /\ report'.queued = report.queued /\ report'.running = report.running
        /\ report'.completed = report.completed /\ report'.failed = report.failed
    BY <1>4, <2>1 DEF CountPasses, AggregateTotals, ReadLatencies, Report
  <2>5. \/ /\ report.pc = "counted" /\ report'.pc = "passes"
           /\ report'.passed = Cardinality(CasesIn(report.run, {"right"}))
        \/ /\ report.pc = "passes" /\ report'.pc = "totals" /\ report'.passed = report.passed
           /\ report'.scored = Cardinality(CasesIn(report.run, Completed))
        \/ /\ report.pc = "totals" /\ report'.pc = "done" /\ report'.passed = report.passed
           /\ report'.scored = report.scored
           /\ report'.timed = Cardinality(CasesIn(report.run, Completed))
    BY <1>4, <2>1 DEF CountPasses, AggregateTotals, ReadLatencies, Report
  <2>6. ReportCoversRun'
    BY <2>2, <2>4, <2>5 DEF ReportInv, ReportCoversRun
  <2>7. Exists(report.run)' /\ report'.since <= redrives'
    BY <2>1, <2>4, <2>5 DEF ReportInv, Exists
  <2>8. ASSUME Finished', Undisturbed(report)' PROVE ReportIsExact'
    <3>1. ReportIsExact
      BY <2>1, <2>4, <2>5, <2>8 DEF ReportInv, Finished, Undisturbed
    <3>3. \A c \in CaseNames : jobs'[report'.run][c] \in Terminal
      BY <2>1, <2>4, <3>1 DEF ReportIsExact
    <3> QED BY <2>1, <2>4, <2>5, <3>1, <3>3 DEF ReportIsExact, CasesIn
  <2> QED BY <2>3, <2>4, <2>6, <2>7, <2>8 DEF ReportInv, Exists
<1> QED BY <1>1, <1>2, <1>3, <1>4 DEF ServerNext, server, CreateRun, JobMoves, Redrive,
        StartComparison, ReadSides, ExportBaseline

LEMMA ReportsAreExact ==
    ASSUME JobsInv, ReportInv
    PROVE  ReportsAddUp
<1> SUFFICES ASSUME report.pc = "done", Finished, Undisturbed(report)
             PROVE  /\ report.scored = report.completed /\ report.timed = report.completed
                    /\ ListedRun(report.run) =
                        [total |-> report.total, completed |-> report.completed,
                         failed |-> report.failed, passed |-> report.passed]
  BY DEF ReportsAddUp, FinishedReportIsExact, ReportInv
<1>1. ReportIsExact /\ Exists(report.run) /\ report.total = Cardinality(CaseNames)
  BY DEF ReportInv, ReportCoversRun
<1>2. report.run \in Runs
  BY DEF ReportInv, NoReport, Report
<1>3. CasesIn(report.run, Statuses \ {"absent"}) = CaseNames
  BY <1>1, <1>2, StatusesDivideTheCases
<1> QED BY <1>1, <1>3 DEF ReportIsExact, ListedRun

-----------------------------------------------------------------------------
\* What the server tells, while it goes on next to the command.
ServerInv == JobsInv /\ ExportInv /\ ComparisonInv /\ ReportInv

LEMMA ServerInvInit == CliInit => ServerInv
<1> SUFFICES ASSUME CliInit PROVE ServerInv
  OBVIOUS
<1>1. JobsInv
  <2>1. jobs \in [Runs -> {[c \in CaseNames |-> "absent"]}
                            \cup [CaseNames -> {"right", "wrong", "dead"}]]
    BY DEF CliInit, Init
  <2>2. \A r \in Runs : \/ jobs[r] = [c \in CaseNames |-> "absent"]
                        \/ jobs[r] \in [CaseNames -> {"right", "wrong", "dead"}]
    BY <2>1
  <2>3. jobs \in [Runs -> [CaseNames -> Statuses]]
    BY <2>1 DEF Statuses
  <2>4. ASSUME NEW r \in Runs, Exists(r), NEW c \in CaseNames PROVE jobs[r][c] # "absent"
    <3>1. jobs[r] # [d \in CaseNames |-> "absent"]
      BY <2>4 DEF Exists
    <3>2. jobs[r] \in [CaseNames -> {"right", "wrong", "dead"}]
      BY <2>2, <3>1
    <3> QED BY <3>2
  <2> QED BY <2>3, <2>4 DEF CliInit, Init, JobsInv
<1>2. ExportInv
  BY DEF CliInit, Init, ExportInv
<1>3. ComparisonInv
  BY DEF CliInit, Init, ComparisonInv, NoComparison
<1>4. ReportInv
  BY DEF CliInit, Init, ReportInv, NoReport, ReportCoversRun
<1> QED BY <1>1, <1>2, <1>3, <1>4 DEF ServerInv

LEMMA ServerInvStep ==
    ASSUME GateInv, ServerInv, [CliNext]_cliVars
    PROVE  ServerInv' /\ Progress
<1>1. ServerNext
  BY StepsOfTheServer
<1>2. JobsInv' /\ Progress
  BY <1>1, JobsGoForward DEF ServerInv
<1>3. ExportInv'
  BY <1>1, <1>2, ExportsKept DEF ServerInv, GateInv
<1>4. ComparisonInv'
  BY <1>1, <1>2, ComparisonsKept DEF ServerInv
<1>5. ReportInv'
  BY <1>1, <1>2, ReportsKept DEF ServerInv
<1> QED BY <1>2, <1>3, <1>4, <1>5 DEF ServerInv

LEMMA ServerInvariant == CliSpec => []ServerInv
<1>1. GateInv /\ ServerInv /\ [CliNext]_cliVars => ServerInv'
  BY ServerInvStep
<1> QED BY <1>1, ServerInvInit, GateInvariant, PTL DEF CliSpec

\* A report covers its run, and all parts of the report of a finished run that
\* nobody retried meanwhile are about the same jobs (getRunReport in runs.ts).
THEOREM ReportsStayExact == CliSpec => []ReportsAddUp
<1>1. ServerInv => ReportsAddUp
  BY ReportsAreExact DEF ServerInv
<1> QED BY <1>1, ServerInvariant, PTL

\* What an exported baseline says passed has passed for good, and what failed
\* passes only after a manual retry (getRunBaseline in runs.ts).
THEOREM ExportedBaselinesStayTrue == CliSpec => []ExportsStayTrue
<1>1. ServerInv => ExportsStayTrue
  BY DEF ServerInv, ExportInv, ExportTrue, ExportsStayTrue
<1> QED BY <1>1, ServerInvariant, PTL

\* The cases a comparison calls finished are classified as they are now, unless
\* somebody retried one, although its sides are read one after the other.
THEOREM ComparisonsStaySettled == CliSpec => []ComparisonIsSettled
<1>1. ServerInv => ComparisonIsSettled
  BY ComparisonsAreSettled DEF ServerInv
<1> QED BY <1>1, ServerInvariant, PTL

-----------------------------------------------------------------------------
\* The verdict.

\* What the exit code says about the run of the command.
VerdictHolds ==
    /\ mine \in Runs
    /\ redrives = 0 => \A c \in CaseNames : jobs[mine][c] \in Terminal
    /\ exit = 0 /\ base # NoBase => \A c \in Passed(base) : c \in CaseNames /\ jobs[mine][c] = "right"
    /\ exit = 1 /\ redrives = 0
        => \E c \in Passed(base) : c \in CaseNames /\ jobs[mine][c] \in {"wrong", "dead"}

VerdictInv ==
    /\ ~Ended => exit = NoExit
    /\ pc = "comparing" => ExportTrue(mine)
    /\ exit \in {0, 1} => VerdictHolds

\* What is judged is what the server exported, so the verdict is about the jobs.
LEMMA JudgedAsTheyAre ==
    ASSUME GateInv, pc = "comparing", ExportTrue(mine), Verdict.ok
    PROVE  /\ Verdict.exitCode \in {0, 1}
           /\ redrives = 0 => \A c \in CaseNames : jobs[mine][c] \in Terminal
           /\ Verdict.exitCode = 0
                => \A c \in Passed(base) : c \in CaseNames /\ jobs[mine][c] = "right"
           /\ Verdict.exitCode = 1 /\ redrives = 0
                => \E c \in Passed(base) : c \in CaseNames /\ jobs[mine][c] \in {"wrong", "dead"}
<1> DEFINE theirs == exported[mine]
<1>1. base \in Document /\ theirs \in Document /\ CompareBaselines(base, theirs).ok
  BY DEF GateInv, Verdict
<1>2. /\ DOMAIN theirs.cases = CaseNames
      /\ \A c \in CaseNames : theirs.cases[c].outcome = "pass" => jobs[mine][c] = "right"
      /\ \A c \in CaseNames : theirs.cases[c].outcome = "fail" /\ redrives = 0
            => jobs[mine][c] \in {"wrong", "dead"}
  BY DEF ExportTrue
<1> HIDE DEF theirs
<1>3. /\ DOMAIN base.cases = DOMAIN theirs.cases
      /\ \A n \in DOMAIN base.cases : theirs.cases[n].outcome \in {"pass", "fail"}
      /\ CompareBaselines(base, theirs).exitCode \in {0, 1}
  BY <1>1, AcceptedDocuments
<1>4. CompareBaselines(base, theirs).exitCode = 0 <=> Passed(base) \subseteq Passed(theirs)
  BY <1>1, ExitCodeMeaning
<1>5. Passed(base) \subseteq CaseNames
  BY <1>2, <1>3 DEF Passed
<1>6. Verdict = CompareBaselines(base, theirs)
  BY DEF Verdict, theirs
<1>7. \A c \in Passed(theirs) : jobs[mine][c] = "right"
  BY <1>2 DEF Passed
<1>8. redrives = 0 => \A c \in CaseNames \ Passed(theirs) : jobs[mine][c] \in {"wrong", "dead"}
  BY <1>2, <1>3 DEF Passed
<1> QED BY <1>3, <1>4, <1>5, <1>6, <1>7, <1>8 DEF Terminal

\* How a step can change what VerdictHolds is about.
LEMMA StepsOfTheVerdict ==
    ASSUME VerdictInv, [CliNext]_cliVars, exit' \in {0, 1}
    PROVE  \/ exit \in {0, 1} /\ UNCHANGED <<exit, base, mine>>
           \/ /\ pc = "comparing" /\ Verdict.ok /\ exit' = Verdict.exitCode
              /\ UNCHANGED <<server, base, mine>>
           \/ /\ ReportAnswered /\ Finished /\ base = NoBase /\ exit' = 0
<1>1. CASE FetchBaseline \/ LoadBaseline \/ PostRun \/ AskReport \/ SleepEnds \/ AskCandidate
           \/ \E r \in Runs : CreationAnswered(r)
  BY <1>1 DEF VerdictInv, Ended, NoExit, FetchBaseline, LoadBaseline, PostRun, AskReport, SleepEnds,
     AskCandidate, CreationAnswered, Fail, Exit, Step
<1>2. CASE Judge
  BY <1>2 DEF Judge, Fail, Exit
<1>3. CASE ReportAnswered
  BY <1>3 DEF VerdictInv, Ended, NoExit, ReportAnswered, Exit, Step
<1>4. CASE RequestFails \/ Deadline
  BY <1>4 DEF RequestFails, Deadline, Fail, Exit
<1>5. CASE ServerGoesOn \/ (\E r \in Runs : ServeCreation(r)) \/ UNCHANGED cliVars
  BY <1>5 DEF ServerGoesOn, ServeCreation, command, cliVars
<1> QED BY <1>1, <1>2, <1>3, <1>4, <1>5 DEF CliNext, CommandGoesOn

LEMMA VerdictInvStep ==
    ASSUME GateInv, ServerInv, VerdictInv, [CliNext]_cliVars
    PROVE  VerdictInv'
<1>1. ServerInv' /\ Progress /\ ServerNext
  BY ServerInvStep, StepsOfTheServer
<1>2. redrives \in Nat /\ redrives' \in Nat
  BY <1>1 DEF ServerInv, JobsInv
<1>3. ~Ended' => exit' = NoExit
  BY DEF VerdictInv, Ended, CliNext, CommandGoesOn, FetchBaseline, LoadBaseline, PostRun, AskReport,
     ReportAnswered, SleepEnds, AskCandidate, Judge, CreationAnswered, RequestFails, Deadline,
     ServerGoesOn, ServeCreation, command, cliVars, Fail, Exit, Step
<1>4. pc' = "comparing" => ExportTrue(mine)'
  <2> SUFFICES ASSUME pc' = "comparing" PROVE ExportTrue(mine)'
    OBVIOUS
  <2>1. \/ pc = "comparing" /\ UNCHANGED mine
        \/ pc = "judging" /\ UNCHANGED mine /\ ExportBaseline(mine)
    BY DEF CliNext, CommandGoesOn, FetchBaseline, LoadBaseline, PostRun, AskReport,
       ReportAnswered, SleepEnds, AskCandidate, Judge, CreationAnswered, RequestFails, Deadline,
       ServerGoesOn, ServeCreation, command, cliVars, Fail, Exit, Step
  <2>2. mine \in Runs
    BY <2>1 DEF GateInv
  <2>3. CASE pc = "comparing" /\ UNCHANGED mine
    <3>1. PICK r \in Runs : r = mine
      BY <2>2
    <3>2. ExportTrue(r)
      BY <2>3, <3>1 DEF VerdictInv
    <3>3. ExportTrue(r)'
      BY <1>1, <3>2, ExportsKept DEF ServerInv, GateInv
    <3> QED BY <2>3, <3>1, <3>3 DEF ExportTrue
  <2>4. CASE UNCHANGED mine /\ ExportBaseline(mine)
    <3>1. PICK r \in Runs : r = mine
      BY <2>2
    <3>2. ExportTrue(r)'
      BY <2>4, <3>1, ExportsAreTrue DEF ServerInv, GateInv
    <3> QED BY <2>4, <3>1, <3>2 DEF ExportTrue
  <2> QED BY <2>1, <2>3, <2>4
<1>5. exit' \in {0, 1} => VerdictHolds'
  <2> SUFFICES ASSUME exit' \in {0, 1} PROVE VerdictHolds'
    OBVIOUS
  <2>1. CASE exit \in {0, 1} /\ UNCHANGED <<exit, base, mine>>
    <3>1. VerdictHolds
      BY <2>1 DEF VerdictInv
    <3>2. redrives' = 0 => redrives = 0 /\ redrives' = redrives
      BY <1>1, <1>2 DEF Progress
    <3>3. mine \in Runs /\ \A c \in CaseNames :
            /\ jobs[mine][c] = "right" => jobs'[mine][c] = "right"
            /\ redrives' = redrives /\ jobs[mine][c] \in Terminal => jobs'[mine][c] = jobs[mine][c]
      BY <1>1, <3>1 DEF Progress, VerdictHolds
    <3>4. Passed(base)' = Passed(base)
      BY <2>1 DEF Passed
    <3> QED BY <2>1, <3>1, <3>2, <3>3, <3>4 DEF VerdictHolds, Terminal
  <2>2. CASE /\ pc = "comparing" /\ Verdict.ok /\ exit' = Verdict.exitCode
             /\ UNCHANGED <<server, base, mine>>
    <3>1. ExportTrue(mine) /\ mine \in Runs
      BY <2>2 DEF VerdictInv, GateInv
    <3>2. Passed(base)' = Passed(base)
      BY <2>2 DEF Passed
    <3> QED BY <2>2, <3>1, <3>2, JudgedAsTheyAre DEF VerdictHolds, server
  <2>3. CASE ReportAnswered /\ Finished /\ base = NoBase /\ exit' = 0
    <3>1. report.pc = "done" /\ report.run = mine /\ pc = "asking"
          /\ UNCHANGED <<jobs, redrives, base, mine>>
      BY <2>3 DEF ReportAnswered
    <3>2. mine \in Runs
      BY <3>1 DEF GateInv
    <3>3. redrives = 0 => \A c \in CaseNames : jobs[mine][c] \in Terminal
      <4>1. report.since \in Nat /\ report.since <= redrives
        BY <3>1 DEF ServerInv, ReportInv, NoReport, Report
      <4>2. redrives = 0 => Undisturbed(report)
        BY <4>1 DEF Undisturbed
      <4> QED BY <2>3, <3>1, <4>2 DEF ServerInv, ReportInv, ReportIsExact
    <3> QED BY <2>3, <3>1, <3>2, <3>3 DEF VerdictHolds
  <2> QED BY <2>1, <2>2, <2>3, StepsOfTheVerdict
<1> QED BY <1>3, <1>4, <1>5 DEF VerdictInv

\* Exit code 0 of the command is true of the jobs of its run for good, and exit
\* code 1 names a real loss, unless somebody retries dead letters by hand.
THEOREM VerdictsStayTrue == CliSpec => []VerdictIsTrue
<1>1. CliInit => VerdictInv
  BY DEF CliInit, VerdictInv, Ended, NoExit
<1>2. GateInv /\ ServerInv /\ VerdictInv /\ [CliNext]_cliVars => VerdictInv'
  BY VerdictInvStep
<1>3. VerdictInv => VerdictIsTrue
  <2>1. VerdictHolds /\ redrives = 0 => CasesIn(mine, Unfinished) = {}
    BY DEF VerdictHolds, CasesIn, Unfinished, Terminal
  <2> QED BY <2>1 DEF VerdictInv, VerdictHolds, VerdictIsTrue
<1> QED BY <1>1, <1>2, <1>3, GateInvariant, ServerInvariant, PTL DEF CliSpec

-----------------------------------------------------------------------------
\* One run at most.

NewRuns == {r \in Runs : Exists(r)} \ earlier

OneRunInv ==
    /\ posts \in {0, 1} /\ served \in {0, 1} /\ served <= posts
    /\ pc \in {"start", "creating"} => posts = 0
    /\ IF served = 0 THEN NewRuns = {} ELSE \E r \in Runs : NewRuns \subseteq {r}

\* Jobs that move do not make a run appear.
LEMMA OnlyCreationCreates ==
    ASSUME JobsInv, JobsNext, NEW q \in Runs
    PROVE  Exists(q)' => Exists(q)
<1>1. PICK r \in Runs, c \in CaseNames : JobMoves(r, c) \/ Redrive(r, c)
  BY DEF JobsNext
<1>2. jobs[r][c] # "absent"
  BY <1>1 DEF JobMoves, Redrive, Moves
<1>3. PICK to : jobs' = [jobs EXCEPT ![r][c] = to]
  BY <1>1 DEF JobMoves, Redrive
<1>4. \A d \in CaseNames : ~(q = r /\ d = c) => jobs'[q][d] = jobs[q][d]
  BY <1>3 DEF JobsInv
<1> QED BY <1>2, <1>4 DEF Exists

LEMMA OneRunInvStep ==
    ASSUME ServerInv, OneRunInv, [CliNext]_cliVars
    PROVE  OneRunInv'
<1>1. CASE \E r \in Runs : ServeCreation(r)
  <2>1. PICK r \in Runs : ServeCreation(r)
    BY <1>1
  <2>2. served = 0 /\ served' = 1 /\ posts = 1 /\ UNCHANGED <<posts, pc, earlier>>
    BY <2>1 DEF ServeCreation, OneRunInv
  <2>3. \A q \in Runs : Exists(q)' => Exists(q) \/ q = r
    BY <2>1 DEF ServeCreation, CreateRun, Exists, ServerInv, JobsInv
  <2>4. NewRuns' \subseteq {r}
    BY <2>2, <2>3 DEF OneRunInv, NewRuns
  <2> QED BY <2>2, <2>4 DEF OneRunInv
<1>2. CASE ~\E r \in Runs : ServeCreation(r)
  <2>1. \A q \in Runs : Exists(q)' => Exists(q)
    <3>1. CASE UNCHANGED jobs
      BY <3>1 DEF Exists
    <3>2. CASE JobsNext
      BY <3>2, OnlyCreationCreates DEF ServerInv
    <3> QED BY <1>2, <3>1, <3>2 DEF CliNext, CommandGoesOn, FetchBaseline, LoadBaseline, PostRun,
            AskReport, ReportAnswered, SleepEnds, AskCandidate, Judge, CreationAnswered,
            RequestFails, Deadline, ServerGoesOn, ReportNext, OthersAsk, CountJobs, CountPasses,
            AggregateTotals, ReadLatencies, StartComparison, ReadSides, ExportBaseline, server,
            cliVars
  <2>2. UNCHANGED <<served, earlier>>
    BY <1>2 DEF CliNext, CommandGoesOn, FetchBaseline, LoadBaseline, PostRun, AskReport,
       ReportAnswered, SleepEnds, AskCandidate, Judge, CreationAnswered, RequestFails, Deadline,
       ServerGoesOn, command, cliVars
  <2>3. NewRuns' \subseteq NewRuns
    BY <2>1, <2>2 DEF NewRuns
  <2>4. /\ posts' \in {0, 1} /\ served <= posts'
        /\ pc' \in {"start", "creating"} => posts' = 0
    BY <1>2 DEF OneRunInv, CliNext, CommandGoesOn, FetchBaseline, LoadBaseline, PostRun, AskReport,
       ReportAnswered, SleepEnds, AskCandidate, Judge, CreationAnswered, RequestFails, Deadline,
       ServerGoesOn, command, cliVars, Fail, Exit, Step
  <2> QED BY <2>2, <2>3, <2>4 DEF OneRunInv
<1> QED BY <1>1, <1>2

\* One command leaves at most one run behind, however it ends.
THEOREM OneRunIsLeft == CliSpec => []OneRunAtMost
<1>1. CliInit => OneRunInv
  <2> SUFFICES ASSUME CliInit PROVE OneRunInv
    OBVIOUS
  <2>1. NewRuns = {}
    BY DEF CliInit, NewRuns
  <2> QED BY <2>1 DEF CliInit, OneRunInv
<1>2. ServerInv /\ OneRunInv /\ [CliNext]_cliVars => OneRunInv'
  BY OneRunInvStep
<1>3. OneRunInv => OneRunAtMost
  <2> SUFFICES ASSUME OneRunInv PROVE Cardinality(NewRuns) <= 1
    BY DEF OneRunAtMost, NewRuns
  <2>1. CASE NewRuns = {}
    <3>1. Cardinality(NewRuns) = 0
      BY <2>1, FS_EmptySet
    <3> QED BY <3>1
  <2>2. CASE \E r \in Runs : NewRuns = {r}
    <3>1. Cardinality(NewRuns) = 1
      BY <2>2, FS_Singleton
    <3> QED BY <3>1
  <2> QED BY <2>1, <2>2 DEF OneRunInv
<1> QED BY <1>1, <1>2, <1>3, ServerInvariant, PTL DEF CliSpec
=============================================================================
