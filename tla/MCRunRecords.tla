---------------------------- MODULE MCRunRecords ----------------------------
(***************************************************************************)
(* Instances of DatasetLoad, CaseEvaluation and JobTiming for TLC, in one  *)
(* run.  The three share no state: a behaviour is one of one of them, and  *)
(* the other two stay at rest.                                             *)
(***************************************************************************)
EXTENDS DatasetLoad, CaseEvaluation, JobTiming, TLC

VARIABLE part

NoLoads ==
    /\ datasets = {} /\ cases = [k \in Keys |-> NoCases]
    /\ loader = [l \in Loaders |-> [pc |-> "failed"]]
    /\ client = [c \in Clients |-> [pc |-> "dataset_not_found"]]

NoEvaluation ==
    /\ api = [default |-> Mock, models |-> {}, key |-> FALSE]
    /\ worker = [w \in Workers |-> [default |-> Mock, key |-> FALSE]] /\ deploys = 0
    /\ job = [j \in Jobs |-> Absent] /\ attempt = [w \in Workers |-> None] /\ calls = {}
    /\ called = None /\ case = None /\ answer = NoAnswer /\ result = Waiting

NoTiming ==
    /\ now = 0 /\ row = NewJob(Null) /\ wait = Null
    /\ last = [why |-> "new", steady |-> TRUE, at |-> 0, attempts |-> 0]

MCInit ==
    \/ part = "datasets" /\ Init /\ NoEvaluation /\ NoTiming
    \/ part = "evaluation" /\ EvaluationInit /\ NoLoads /\ NoTiming
    \/ part = "timing" /\ TimingInit /\ NoLoads /\ NoEvaluation

MCNext ==
    \/ part = "datasets" /\ Next /\ UNCHANGED <<part, evaluationVars, timing>>
    \/ part = "evaluation" /\ EvaluationNext /\ UNCHANGED <<part, vars, timing>>
    \/ part = "timing" /\ TimingNext /\ UNCHANGED <<part, vars, evaluationVars>>

MCSpec == MCInit /\ [][MCNext]_<<part, vars, evaluationVars, timing>>

\* Values on both sides of every threshold: 10 and 5 days, 2 tickets, an NPS of
\* 4 and of 6.
MCActiveDays == {0, 4, 5, 9, 10, 15}
MCTickets == {0, 1, 2}
MCNpsScores == {3, 4, 5, 6, 7}
MCMentions == {1, 12}

\* Keys and Workers are the same two model values, and so are CaseNames and
\* GeminiModels: they never meet.
MCSymmetry == Permutations(Keys) \cup Permutations(CaseNames)
=============================================================================
