--------------------------- MODULE CaseComparison ---------------------------
(***************************************************************************)
(* The pure part of comparing two sets of case results: the schema of      *)
(* baselines (src/server/src/baseline.ts), the classification of a case    *)
(* (src/server/src/caseComparison.ts) and the gate that turns it into an   *)
(* exit code (src/server/src/gate.ts).  A document is a function from case *)
(* names to sides, with the dataset as a value; the settings of the runs   *)
(* in it decide nothing.                                                   *)
(***************************************************************************)
EXTENDS Integers, FiniteSets

CONSTANTS CaseNames,  \* names a case may have
          Datasets,   \* dataset names with version
          Scores,     \* evaluation scores
          NoScore     \* score: null

ASSUME GateAssumption ==
    IsFiniteSet(CaseNames) /\ Scores \subseteq Nat /\ NoScore \notin Scores

Outcomes == {"pass", "fail", "pending"}
Changes == {"regression", "improvement", "warning", "unchanged"}
Side == [outcome: Outcomes, score: Scores \cup {NoScore}]

ScoreOrZero(score) == IF score = NoScore THEN 0 ELSE score

-----------------------------------------------------------------------------
\* classifyChange.

\* Mutant: a lost pass counts only when the score went down with it.
ClassifyChangeByScore(b, c) ==
    CASE b.outcome = "pending" \/ c.outcome = "pending" -> "pending"
      [] b.outcome = "fail" /\ c.outcome = "pass" -> "improvement"
      [] b.outcome = "pass" /\ ScoreOrZero(c.score) < ScoreOrZero(b.score) ->
            IF c.outcome = "fail" THEN "regression" ELSE "warning"
      [] OTHER -> "unchanged"

ClassifyChange(b, c) ==
    CASE b.outcome = "pending" \/ c.outcome = "pending" -> "pending"
      [] b.outcome = "pass" /\ c.outcome = "fail" -> "regression"
      [] b.outcome = "fail" /\ c.outcome = "pass" -> "improvement"
      [] b.outcome = "pass" /\ c.outcome = "pass"
            /\ ScoreOrZero(c.score) < ScoreOrZero(b.score) -> "warning"
      [] OTHER -> "unchanged"

-----------------------------------------------------------------------------
\* BaselineSchema: at least one case, all finished, a passing case has a score.

Valid(d) ==
    /\ DOMAIN d.cases # {}
    /\ \A n \in DOMAIN d.cases :
        /\ d.cases[n].outcome \in {"pass", "fail"}
        /\ d.cases[n].outcome = "pass" => d.cases[n].score # NoScore

SameCases(b, c) == b.dataset = c.dataset /\ DOMAIN b.cases = DOMAIN c.cases

CasesWith(b, c, change) ==
    {n \in DOMAIN b.cases \cap DOMAIN c.cases : ClassifyChange(b.cases[n], c.cases[n]) = change}

Refused == [ok |-> FALSE]

\* compareBaselines: an error, or counts and the exit code.
CompareBaselines(b, c) ==
    IF ~(Valid(b) /\ Valid(c) /\ SameCases(b, c)) THEN Refused
    ELSE [ok |-> TRUE,
          summary |-> [change \in Changes |-> Cardinality(CasesWith(b, c, change))],
          exitCode |-> IF CasesWith(b, c, "regression") # {} THEN 1 ELSE 0]

\* The passed cases of one side, as the Markdown summary counts them.
Passed(d) == {n \in DOMAIN d.cases : d.cases[n].outcome = "pass"}
=============================================================================
