--------------------------- MODULE CaseEvaluation ---------------------------
(***************************************************************************)
(* What an attempt makes of the answer of its provider: it is parsed,      *)
(* validated and scored (src/server/src/evaluator.ts, worker.ts), and the  *)
(* mock provider that answers from the same analytics data, with the       *)
(* failures it was configured for (src/server/src/llm.ts).  It goes on     *)
(* where SavedSelection ends, at a call to the provider of a job.          *)
(*                                                                         *)
(* A text is the numbers that stand in it; whether a number is found in    *)
(* the evidence is a search for its digits, also inside of other numbers.  *)
(***************************************************************************)
EXTENDS Integers, SavedSelection

CONSTANTS ActiveDays,  \* values of activeDaysLast30 and activeDaysPrevious30
          Tickets,     \* values of supportTicketsLast30
          NpsScores,   \* values of npsScore
          Mentions     \* numbers that other providers mention

ASSUME EvaluationAssumption ==
    ActiveDays \subseteq 0 .. 30 /\ Tickets \subseteq 0 .. 99 /\ NpsScores \subseteq 0 .. 10
    /\ Mentions \subseteq 0 .. 99

Risks == {"low", "medium", "high"}
Modes == {"wrongLabel", "missingEvidence", "invalidJson"}

VARIABLES called,  \* what was called and for what kind of job, or None
          case,    \* the case of the job, or None
          answer,  \* the text that came back
          result   \* where the attempt is, and its evaluation

evaluation == <<called, case, answer, result>>
evaluationVars == <<api, worker, deploys, job, attempt, calls, called, case,
                    answer, result>>

Summaries == [last: ActiveDays, previous: ActiveDays, tickets: Tickets, nps: NpsScores]
NoAnswer == [json |-> FALSE, fields |-> FALSE, risk |-> "low", evidence |-> {}]
Waiting == [pc |-> "waiting"]

EvaluationInit ==
    SelectionInit /\ called = None /\ case = None /\ answer = NoAnswer /\ result = Waiting

\* Nothing of the selection decides about the answer, and it is forgotten.
Forgotten ==
    /\ job' = [j \in Jobs |-> Absent] /\ attempt' = [w \in Workers |-> None] /\ calls' = {}
    /\ api' = [default |-> Mock, models |-> {}, key |-> FALSE]
    /\ worker' = [w \in Workers |-> [default |-> Mock, key |-> FALSE]]
    /\ deploys' = 0

\* An attempt has called its provider for its job.
Ask(w) ==
    /\ called = None /\ attempt[w] # None
    /\ <<attempt[w].job, attempt[w].llm>> \in calls
    /\ called' = [mock |-> attempt[w].llm = Mock, ofRun |-> job[attempt[w].job].run # None,
                  configured |-> attempt[w].mockConfig]
    /\ Forgotten
    /\ UNCHANGED <<case, answer, result>>

\* The job asks for a snapshot and has the label of the dataset if it belongs
\* to a run; the configured rates select its case for some failures.
WithCase ==
    /\ called # None /\ case = None
    /\ \E s \in Summaries, label \in Risks \cup {None}, failing \in SUBSET Modes :
        /\ label # None => called.ofRun
        /\ failing # {} => called.configured
        /\ case' = [snapshot |-> s, expected |-> label, modes |-> failing]
    /\ UNCHANGED <<selection, called, answer, result>>

-----------------------------------------------------------------------------
\* llm.ts: the prediction of the mock and its failures.

GetRiskLabel(s) ==
    IF s.nps <= 4 \/ s.tickets >= 2 \/ s.previous - s.last >= 10 THEN "high"
    ELSE IF s.nps <= 6 \/ s.previous - s.last >= 5 THEN "medium"
    ELSE "low"

Perturb(risk) ==
    CASE risk = "low" -> "medium" [] risk = "medium" -> "high" [] OTHER -> "low"

\* The evidence names the active days, the tickets "in last 30 days" and the
\* NPS score.
MockAnswer ==
    LET s == case.snapshot
        risk == GetRiskLabel(s)
    IN  [json |-> "invalidJson" \notin case.modes,
         fields |-> "missingEvidence" \notin case.modes,
         risk |-> IF "wrongLabel" \in case.modes THEN Perturb(risk) ELSE risk,
         evidence |-> IF "missingEvidence" \in case.modes THEN {}
                      ELSE {s.previous, s.last, 30, s.tickets, s.nps}]

\* Any text, perhaps fenced; evidence is there when the fields are.
OtherAnswers ==
    [json: BOOLEAN, fields: BOOLEAN, risk: Risks, evidence: SUBSET Mentions]

CallLlm ==
    /\ case # None /\ result.pc = "waiting"
    /\ answer' \in IF called.mock THEN {MockAnswer} ELSE OtherAnswers
    /\ result' = [pc |-> "answered"]
    /\ UNCHANGED <<selection, called, case>>

-----------------------------------------------------------------------------
\* evaluator.ts.

\* Mutant: a boundary is left out.
StricterRuleRisk(s) ==
    IF s.nps < 4 \/ s.tickets >= 2 \/ s.previous - s.last >= 10 THEN "high"
    ELSE IF s.nps <= 6 \/ s.previous - s.last >= 5 THEN "medium"
    ELSE "low"

RuleRisk(s) ==
    IF s.nps <= 4 \/ s.tickets >= 2 \/ s.previous - s.last >= 10 THEN "high"
    ELSE IF s.nps <= 6 \/ s.previous - s.last >= 5 THEN "medium"
    ELSE "low"

\* The digits of n stand somewhere in the text (numbers below 100).
Includes(text, n) == \E m \in text : m = n \/ (m >= 10 /\ (m \div 10 = n \/ m % 10 = n))

ExpectedRisk == IF case.expected # None THEN case.expected ELSE RuleRisk(case.snapshot)

\* scoreRetentionAnalysis; it is reached with valid JSON and all fields only.
Checks ==
    LET s == case.snapshot IN
    [validJson |-> answer.json, hasRequiredFields |-> answer.fields,
     evidenceIncluded |-> answer.fields,
     evidenceSupported |->
        \E n \in {s.last, s.previous, s.tickets, s.nps} : Includes(answer.evidence, n),
     reasonableRiskLabel |-> answer.risk = ExpectedRisk]

Score == 20 * Cardinality({check \in DOMAIN Checks : Checks[check]})

\* parseLlmJson, validateRetentionOutput and the score; or the attempt fails.
Evaluate ==
    /\ result.pc = "answered"
    /\ result' = IF answer.json /\ answer.fields
                 THEN [pc |-> "scored", checks |-> Checks, score |-> Score]
                 ELSE [pc |-> "failed"]
    /\ UNCHANGED <<selection, called, case, answer>>

EvaluationNext ==
    \/ SelectionNext /\ called = None /\ UNCHANGED evaluation
    \/ WithCase \/ CallLlm \/ Evaluate \/ \E w \in Workers : Ask(w)

EvaluationSpec == EvaluationInit /\ [][EvaluationNext]_evaluationVars

-----------------------------------------------------------------------------
\* Properties

Scored == result.pc = "scored"
Passes == Scored /\ result.checks.reasonableRiskLabel

\* The two copies of the risk rules, in the mock and in the evaluator, agree at
\* every boundary: judged by the rules, the mock passes with the full score
\* exactly when it was not told to be wrong.
MockIsJudgedByItsRules ==
    Scored /\ called.mock /\ case.expected = None =>
        /\ Passes <=> "wrongLabel" \notin case.modes
        /\ Passes => result.score = 100
=============================================================================
