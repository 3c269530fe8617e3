---------------------------- MODULE RunsDashboard ----------------------------
(***************************************************************************)
(* The dashboard of dataset runs (src/frontend/src/RunsDashboard.tsx):     *)
(* three polled views, the list of runs, the selected run and the          *)
(* comparison of two, next to a form whose answer selects the new run.     *)
(* A run is the number of times its report has changed on the server.      *)
(* All runs are of one dataset.                                            *)
(*                                                                         *)
(* A click, a choice in a menu and the submit event are rendered, and      *)
(* their effects run, before the next event.  What an awaited answer sets  *)
(* is rendered some time after the answer; its step is that rendering, up  *)
(* to which the page is what it was.                                       *)
(***************************************************************************)
EXTENDS PolledView

CONSTANTS Runs,
          None,        \* no run chosen
          Names,       \* the polled views on the page: "list", "run", "comparison"
          LastChange   \* model bound: changes of a run, its creation included

VARIABLES progress,   \* progress[r]: changes of run r so far; 0 before its creation
          views,      \* the polled views
          selected,   \* selectedRunId
          compared,   \* baselineId and candidateId
          submission  \* the POST that is not answered yet

vars == <<progress, views, selected, compared, submission>>

NoSubmission == [pc |-> "none", run |-> None]

Init ==
    /\ progress \in [Runs -> {0, 1}]
    /\ views = [n \in Names |-> IF n = "list" THEN Asked(Idle, "all") ELSE Idle]
    /\ selected = None /\ compared = <<None, None>>
    /\ submission = NoSubmission

\* The same on a page that is open already; and the end of all that, with every
\* request aborted and all forgotten.
Mount ==
    /\ progress' \in [Runs -> {0, 1}]
    /\ views' = [n \in Names |-> IF n = "list" THEN Asked(Idle, "all") ELSE Idle]
    /\ selected' = None /\ compared' = <<None, None>>
    /\ submission' = NoSubmission

Unmount ==
    /\ progress' = [r \in Runs |-> 0]
    /\ views' = << >>
    /\ selected' = None /\ compared' = <<None, None>>
    /\ submission' = NoSubmission

Listed == IF views["list"].shown = Nothing THEN {}
          ELSE {r \in Runs : views["list"].shown.data[r] > 0}

-----------------------------------------------------------------------------
\* The server.

RunAdvances(r) ==
    /\ progress[r] \in 1 .. LastChange - 1
    /\ progress' = [progress EXCEPT ![r] = @ + 1]
    /\ UNCHANGED <<views, selected, compared, submission>>

\* GET /runs, /runs/:id and /runs/:baseline/compare/:candidate.
Answer(n, key) ==
    [key |-> key,
     data |-> CASE n = "list" -> progress
                [] n = "run" -> progress[key]
                [] n = "comparison" -> <<progress[key[1]], progress[key[2]]>>]

Serve(n, r) ==
    /\ r \in Unserved(views[n])
    /\ views' = [views EXCEPT ![n] = ServedWith(@, r, Answer(n, r.key))]
    /\ UNCHANGED <<progress, selected, compared, submission>>

-----------------------------------------------------------------------------
\* The polled views.

Arrive(n, r) ==
    /\ r \in views[n].requests /\ Served(views[n], r)
    /\ views' = [views EXCEPT ![n] = Shown(@, r)]
    /\ UNCHANGED <<progress, selected, compared, submission>>

\* The list is polled with listDatasets, listRuns and getLlmOptions.
Fetches(n) == IF n = "list" THEN 3 ELSE 1

\* A poll fails, before or after the server saw it.
PollFails(n, r) ==
    /\ r \in views[n].requests
    /\ \E k \in StillOnTheirWay(views[n], Fetches(n)) :
            views' = [views EXCEPT ![n] = Failed(@, r, k)]
    /\ UNCHANGED <<progress, selected, compared, submission>>

LateFetchEnds(n) ==
    /\ views[n].leftOver > 0
    /\ views' = [views EXCEPT ![n] = LeftOverEnds(@)]
    /\ UNCHANGED <<progress, selected, compared, submission>>

Key(n) == CASE n = "list" -> "all" [] n = "run" -> selected [] n = "comparison" -> compared

Refresh(n) ==
    /\ views[n].timer
    /\ views' = [views EXCEPT ![n] = Refreshed(@, Key(n))]
    /\ UNCHANGED <<progress, selected, compared, submission>>

-----------------------------------------------------------------------------
\* The user.

\* Mutant: the component is kept when its key changes.
Reused(v, key, chosen) == IF chosen THEN Restarted(v, key) ELSE Abandoned(v)

\* A component with a React key is unmounted, and mounted again with nothing
\* to show, if there is something chosen.
Remounted(v, key, chosen) ==
    LET gone == [Abandoned(v) EXCEPT !.shown = Nothing] IN
    IF chosen THEN Asked(gone, key) ELSE gone

\* A row of the list, or "Close details".
Select(r) ==
    /\ "run" \in Names
    /\ r \in Listed \cup {None} /\ r # selected
    /\ selected' = r
    /\ views' = [views EXCEPT !["run"] = Remounted(@, r, r # None)]
    /\ UNCHANGED <<progress, compared, submission>>

\* Both menus, and "Use as baseline", which clears the candidate.
Compare(b, c) ==
    /\ "comparison" \in Names
    /\ b \in Listed \cup {None}
    /\ \/ c = None
       \/ b = compared[1] /\ c \in Listed \ {b} /\ b # None
    /\ <<b, c>> # compared
    /\ compared' = <<b, c>>
    /\ views' = [views EXCEPT !["comparison"] = Remounted(@, <<b, c>>, c # None)]
    /\ UNCHANGED <<progress, selected, submission>>

PressRefresh ==
    /\ views' = [views EXCEPT !["list"] = Restarted(@, "all")]
    /\ UNCHANGED <<progress, selected, compared, submission>>

-----------------------------------------------------------------------------
\* submit.

Submit ==
    /\ submission.pc = "none" /\ views["list"].shown # Nothing
    /\ submission' = [pc |-> "posted", run |-> None]
    /\ UNCHANGED <<progress, views, selected, compared>>

ServeSubmission(r) ==
    /\ submission.pc = "posted" /\ progress[r] = 0
    /\ submission' = [pc |-> "served", run |-> r]
    /\ progress' = [progress EXCEPT ![r] = 1]
    /\ UNCHANGED <<views, selected, compared>>

\* The answer is rendered: the new run is selected, unless the list already had
\* it and it was, and the revision restarts the list.
Submitted ==
    /\ submission.pc = "served"
    /\ submission' = NoSubmission
    /\ selected' = IF "run" \in Names THEN submission.run ELSE selected
    /\ views' = [n \in Names |->
            CASE n = "list" -> Restarted(views[n], "all")
              [] n = "run" /\ selected # submission.run ->
                    Remounted(views[n], submission.run, TRUE)
              [] OTHER -> views[n]]
    /\ UNCHANGED <<progress, compared>>

\* An error: the run may exist all the same.
SubmissionFails ==
    /\ submission.pc \in {"posted", "served"}
    /\ submission' = NoSubmission
    /\ UNCHANGED <<progress, views, selected, compared>>

-----------------------------------------------------------------------------
UserActs ==
    \/ \E r \in Runs \cup {None} : Select(r) \/ \E c \in Runs \cup {None} : Compare(r, c)
    \/ PressRefresh \/ Submit

Next ==
    \/ UserActs \/ Submitted \/ SubmissionFails
    \/ \E r \in Runs : RunAdvances(r) \/ ServeSubmission(r)
    \/ \E n \in Names :
        \/ Refresh(n) \/ LateFetchEnds(n)
        \/ \E r \in views[n].requests : Serve(n, r) \/ Arrive(n, r) \/ PollFails(n, r)

Spec == Init /\ [][Next]_vars

-----------------------------------------------------------------------------
\* Properties

\* A view is polled if and only if something is chosen for it, one poll at a time.
EachIsPolled ==
    \A n \in Names :
        PollsOneByOne(views[n], CASE n = "list" -> TRUE
                                  [] n = "run" -> selected # None
                                  [] n = "comparison" -> compared[2] # None)

\* "Ignore the previous selection while the new request is loading": what is
\* shown is of the run, or of the two runs, that are chosen, however late the
\* answers to earlier choices come.
OnlyTheChosenIsShown ==
    \A n \in Names : views[n].shown # Nothing => views[n].shown.key = Key(n)

\* No answer is shown after a newer one: neither the list, nor a run or a
\* comparison that stays chosen, ever goes back in time.
NotOlder(n, old, new) ==
    CASE n = "list" -> \A r \in Runs : new[r] >= old[r]
      [] n = "run" -> new >= old
      [] n = "comparison" -> new[1] >= old[1] /\ new[2] >= old[2]

NeverBack ==
    \A n \in Names :
        LET old == views[n].shown  new == views'[n].shown IN
        old # Nothing /\ new # Nothing /\ old.key = new.key => NotOlder(n, old.data, new.data)
=============================================================================
