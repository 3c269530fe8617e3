----------------------------- MODULE Dashboards -----------------------------
(***************************************************************************)
(* The page (src/frontend/src/App.tsx): two buttons choose between the     *)
(* dashboard of runs and that of single jobs.  Only the chosen one is      *)
(* mounted; it starts from nothing, against a server whose runs and jobs   *)
(* have moved on meanwhile, and the other one is unmounted with everything *)
(* it knew.                                                                *)
(*                                                                         *)
(* Model bound: of the dashboard of runs, the list is on the page with     *)
(* either the selected run or the comparison, which share nothing but it.  *)
(***************************************************************************)
EXTENDS Naturals

CONSTANTS Runs, Jobs,
          None,        \* no run or job chosen
          Nothing,     \* no answer from the server, nothing shown
          Filters,     \* the choices of the filter of jobs
          LastChange,  \* model bound: changes of a run or job, its creation included
          MaxLeftOver  \* model bound: fetches left over of failed polls, at a time

ASSUME PageAssumption ==
    /\ None \notin Runs \cup Jobs /\ LastChange \in Nat \ {0}
    /\ MaxLeftOver \in Nat
    /\ "all" \in Filters /\ Filters \subseteq {"all", "dead_letter"}

VARIABLES view,        \* "runs", with one of two parts of that dashboard, or "jobs"
          progress, views, selectedRun, compared, runSubmission,
          job, list, filter, selectedJob, effect, details, loads, jobSubmission, retry

onRuns == <<progress, views, selectedRun, compared, runSubmission>>
onJobs == <<job, list, filter, selectedJob, effect, details, loads, jobSubmission, retry>>
vars == <<view, progress, views, selectedRun, compared, runSubmission, job, list, filter,
          selectedJob, effect, details, loads, jobSubmission, retry>>

\* The dashboard of runs with these parts of it on the page.
OnPage(Parts) == INSTANCE RunsDashboard
    WITH Names <- Parts, selected <- selectedRun, submission <- runSubmission

Selection == {"list", "run"}
Comparison == {"list", "comparison"}

SingleJob == INSTANCE JobDashboard
    WITH selected <- selectedJob, submission <- jobSubmission

Views == {"selection", "comparison", "jobs"}

\* useState("runs").
Init ==
    /\ \/ view = "selection" /\ OnPage(Selection)!Init
       \/ view = "comparison" /\ OnPage(Comparison)!Init
    /\ job = [j \in Jobs |-> SingleJob!NotYet]
    /\ list = SingleJob!Idle /\ filter = "all" /\ selectedJob = None
    /\ effect = SingleJob!UpToDate(None)
    /\ details = Nothing /\ loads = {}
    /\ jobSubmission = SingleJob!NoPost /\ retry = SingleJob!NoPost

\* setView, in two steps with nothing between them: one dashboard is unmounted,
\* and one is mounted.
Leave ==
    /\ view # "none" /\ view' = "none"
    /\ OnPage(Selection)!Unmount /\ SingleJob!Unmount

Enter(v) ==
    /\ view = "none" /\ view' = v
    /\ \/ v = "selection" /\ OnPage(Selection)!Mount /\ UNCHANGED onJobs
       \/ v = "comparison" /\ OnPage(Comparison)!Mount /\ UNCHANGED onJobs
       \/ v = "jobs" /\ SingleJob!Mount /\ UNCHANGED onRuns

Next ==
    \/ Leave \/ \E v \in Views : Enter(v)
    \/ view = "selection" /\ OnPage(Selection)!Next /\ UNCHANGED <<view, onJobs>>
    \/ view = "comparison" /\ OnPage(Comparison)!Next /\ UNCHANGED <<view, onJobs>>
    \/ view = "jobs" /\ SingleJob!Next /\ UNCHANGED <<view, onRuns>>

Spec == Init /\ [][Next]_vars

-----------------------------------------------------------------------------
\* Properties

\* Every view of runs for which something is chosen, and the list of jobs, waits
\* for one poll or for its timer, and a view for which nothing is chosen waits for
\* neither: polls neither follow each other unawaited nor come to an end, whatever
\* fails, is selected or is restarted.
EachIsPolled ==
    /\ view = "selection" => OnPage(Selection)!EachIsPolled
    /\ view = "comparison" => OnPage(Comparison)!EachIsPolled
    /\ view = "jobs" => SingleJob!PollsOneByOne(list, TRUE)

\* "Schedule after completion so a slow API cannot accumulate overlapping polls."
NoOverlappingPolls ==
    /\ view \in {"selection", "comparison"} =>
           \A n \in DOMAIN views : OnPage(Selection)!PollsApart(views[n])
    /\ view = "jobs" => SingleJob!PollsApart(list)

\* "Ignore the previous selection while the new request is loading": what is
\* shown is of the run, or of the two runs, that are chosen, however late the
\* answers to earlier choices come.
OnlyTheChosenIsShown ==
    /\ view = "selection" => OnPage(Selection)!OnlyTheChosenIsShown
    /\ view = "comparison" => OnPage(Comparison)!OnlyTheChosenIsShown

\* However selections, lists, filters and answers to POSTs interleave, the page
\* waits for one load of details at most, and it is of the job that was selected
\* when the page was rendered last.
OneLoadCounts == view = "jobs" => SingleJob!OneLoadCounts

\* Each part of the page waits for one answer, and goes on waiting.
OneAnswerAwaited == EachIsPolled /\ OneLoadCounts

\* No answer is shown after a newer one: neither the list of runs, nor a run or
\* a comparison that stays chosen, ever goes back in time.
ViewsNeverGoBack ==
    [][/\ view = "selection" /\ view' = view => OnPage(Selection)!NeverBack
       /\ view = "comparison" /\ view' = view => OnPage(Comparison)!NeverBack]_vars

\* Details of a job that come are of the job that is selected when they come, or,
\* if that selection was not rendered yet, of the one before.  Those that a load
\* brings are never older than those another load brought before; only around the
\* answer to a retry, which is put into older details and cancels no load, does the
\* panel go back for a moment.
DetailsComeInOrder == [][view = "jobs" /\ view' = view => SingleJob!InOrder]_vars
=============================================================================
