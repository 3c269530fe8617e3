---------------------------- MODULE JobDashboard ----------------------------
(***************************************************************************)
(* The dashboard of single jobs (SingleJobDashboard in                     *)
(* src/frontend/src/App.tsx): a polled list with a filter, the details of  *)
(* the selected job, loaded anew with every list that comes, a form whose  *)
(* answer selects the new job, and the button that requeues a dead letter. *)
(* A job is its status and the number of its changes on the server.        *)
(*                                                                         *)
(* What a setter was given counts from then on.  A click, a choice in the  *)
(* menu and the submit event are rendered, and the effects that they cause *)
(* run, before the next event; the setters that follow an await only       *)
(* change the state, and React renders and runs the effects later (Render).*)
(***************************************************************************)
EXTENDS PolledView

CONSTANTS Jobs,
          None,       \* no job selected
          Filters,    \* the choices of the filter
          LastChange  \* model bound: changes of a job, its creation included

VARIABLES job,         \* job[j]: status and rev; rev is 0 before its creation
          list,        \* the polled list
          filter,      \* statusFilter
          selected,    \* selectedJobId
          effect,      \* what the effects do not know yet: the selection that the
                       \* one of the details ran for, whether there is another
                       \* array of jobs, or another refreshVersion
          details,     \* jobDetails
          loads,       \* calls of loadSelectedJob that wait for their answer and
                       \* were not cancelled; one that was changes nothing any more
          submission,  \* the POST /jobs that is not answered yet
          retry        \* a POST /jobs/:id/retry with the details it closes over

server == <<job>>
choices == <<filter, selected, effect>>
posts == <<submission, retry>>
vars == <<job, list, choices, details, loads, posts>>

\* Queued, running and completed jobs look the same here.
Statuses == {"active", "dead_letter"}
NoPost == [pc |-> "none", about |-> Nothing]

NotYet == [status |-> "active", rev |-> 0]

UpToDate(j) == [of |-> j, jobs |-> FALSE, version |-> FALSE]

Init ==
    /\ job \in [Jobs -> {NotYet} \cup [status: Statuses, rev: {1}]]
    /\ filter = "all" /\ selected = None /\ effect = UpToDate(None)
    /\ list = Asked(Idle, filter)
    /\ details = Nothing /\ loads = {}
    /\ submission = NoPost /\ retry = NoPost

\* The same on a page that is open already; and the end of all that.
Mount ==
    /\ job' \in [Jobs -> {NotYet} \cup [status: Statuses, rev: {1}]]
    /\ filter' = "all" /\ selected' = None /\ effect' = UpToDate(None)
    /\ list' = Asked(Idle, "all")
    /\ details' = Nothing /\ loads' = {}
    /\ submission' = NoPost /\ retry' = NoPost

Unmount ==
    /\ job' = [j \in Jobs |-> NotYet]
    /\ filter' = "all" /\ selected' = None /\ effect' = UpToDate(None)
    /\ list' = Idle
    /\ details' = Nothing /\ loads' = {}
    /\ submission' = NoPost /\ retry' = NoPost

View(j) == [job |-> j, status |-> job[j].status, rev |-> job[j].rev]

\* A job with its traces and its eval, as of one of its changes.
Details(view, traces) == [of |-> view, traces |-> traces]

Listed == IF list.shown = Nothing THEN {} ELSE list.shown.data

-----------------------------------------------------------------------------
\* The server: workers move a job on until it is over.

JobMoves(j) ==
    /\ job[j].status = "active" /\ job[j].rev \in 1 .. LastChange - 1
    /\ \E s \in Statuses : job' = [job EXCEPT ![j] = [status |-> s, rev |-> @.rev + 1]]
    /\ UNCHANGED <<list, choices, details, loads, posts>>

\* GET /jobs, with or without a status.
ServeList(r) ==
    /\ r \in Unserved(list)
    /\ list' = ServedWith(list, r,
                 [key |-> r.key,
                  data |-> {[job |-> j, status |-> job[j].status] : j \in {i \in Jobs :
                              job[i].rev > 0 /\ r.key \in {"all", job[i].status}}}])
    /\ UNCHANGED <<server, choices, details, loads, posts>>

-----------------------------------------------------------------------------
\* The details.

\* Mutant: the effect has no cleanup.
ReloadedOnTop(j) ==
    loads \cup (IF j = None THEN {} ELSE {[job |-> j, answer |-> Nothing]})

\* The effect on [selectedJobId, jobs]: the load on its way is cancelled, and
\* another one starts.
Reloaded(j) == IF j = None THEN {} ELSE {[job |-> j, answer |-> Nothing]}

ServeLoad(l) ==
    /\ l \in loads /\ l.answer = Nothing
    /\ loads' = (loads \ {l}) \cup {[l EXCEPT !.answer = Details(View(l.job), job[l.job].rev)]}
    /\ UNCHANGED <<server, list, choices, details, posts>>

LoadArrives(l) ==
    /\ l \in loads /\ l.answer # Nothing
    /\ loads' = loads \ {l}
    /\ details' = l.answer
    /\ UNCHANGED <<server, list, choices, posts>>

LoadFails(l) ==
    /\ l \in loads
    /\ loads' = loads \ {l}
    /\ UNCHANGED <<server, list, choices, details, posts>>

-----------------------------------------------------------------------------
\* The list.

\* Every list is a new array.
ListArrives(r) ==
    /\ r \in list.requests /\ Served(list, r)
    /\ list' = Shown(list, r)
    /\ effect' = IF r.live THEN [effect EXCEPT !.jobs = TRUE] ELSE effect
    /\ UNCHANGED <<server, filter, selected, details, loads, posts>>

\* It is polled together with getMetrics.
ListFails(r) ==
    /\ r \in list.requests
    /\ \E k \in StillOnTheirWay(list, 2) : list' = Failed(list, r, k)
    /\ UNCHANGED <<server, choices, details, loads, posts>>

LateFetchEnds ==
    /\ list.leftOver > 0
    /\ list' = LeftOverEnds(list)
    /\ UNCHANGED <<server, choices, details, loads, posts>>

RefreshList ==
    /\ list.timer
    /\ list' = Refreshed(list, filter)
    /\ UNCHANGED <<server, choices, details, loads, posts>>

-----------------------------------------------------------------------------
\* The effects whose dependencies have changed: [statusFilter, refreshVersion]
\* and [selectedJobId, jobs].
EffectsRun ==
    /\ list' = IF effect.version \/ filter' # filter THEN Restarted(list, filter') ELSE list
    /\ loads' = IF effect.jobs \/ selected' # effect.of THEN Reloaded(selected') ELSE loads
    /\ effect' = UpToDate(selected')

\* What was set after an await is rendered.
Render ==
    /\ effect # UpToDate(selected)
    /\ UNCHANGED <<server, filter, selected, details, posts>>
    /\ EffectsRun

-----------------------------------------------------------------------------
\* The user.

ChooseFilter ==
    /\ filter' \in Filters \ {filter}
    /\ UNCHANGED <<server, selected, details, posts>>
    /\ EffectsRun

Select(v) ==
    /\ v \in Listed /\ filter \in {"all", v.status}
    /\ selected' = v.job
    /\ UNCHANGED <<server, filter, details, posts>>
    /\ EffectsRun

\* Model bound: one POST at a time.
NoPosts == submission = NoPost /\ retry = NoPost

Submit ==
    /\ NoPosts
    /\ submission' = [pc |-> "posted", about |-> Nothing]
    /\ UNCHANGED <<server, filter, selected, details, retry>>
    /\ EffectsRun

ServeSubmission(j) ==
    /\ submission.pc = "posted" /\ job[j].rev = 0
    /\ job' = [job EXCEPT ![j].rev = 1]
    /\ submission' = [pc |-> "served", about |-> View(j)']
    /\ UNCHANGED <<list, choices, details, loads, retry>>

\* The answer to a POST shows and selects its job, and asks for another list:
\* three setters after an await.
Answered(shown, j) ==
    /\ details' = shown
    /\ selected' = j
    /\ effect' = [effect EXCEPT !.version = TRUE]
    /\ UNCHANGED <<server, filter, list, loads>>

Submitted ==
    /\ submission.pc = "served"
    /\ submission' = NoPost
    /\ Answered(Nothing, submission.about.job)
    /\ UNCHANGED retry

\* An error: the job may exist all the same.
SubmissionFails ==
    /\ submission.pc # "none"
    /\ submission' = NoPost
    /\ UNCHANGED <<server, list, choices, details, loads, retry>>

\* handleRetry sets nothing before its await.
PressRetry ==
    /\ NoPosts /\ selected # None
    /\ details # Nothing /\ details.of.status = "dead_letter"
    /\ retry' = [pc |-> "posted", about |-> details]
    /\ UNCHANGED <<server, list, choices, details, loads, submission>>

\* retryJob; a job that is no dead letter any more is answered with an error.
\* The answer is put into the details the handler closed over.
ServeRetry(j) ==
    /\ retry.pc = "posted" /\ retry.about.of.job = j
    /\ job[j].status = "dead_letter" /\ job[j].rev < LastChange
    /\ job' = [job EXCEPT ![j] = [status |-> "active", rev |-> @.rev + 1]]
    /\ retry' = [pc |-> "served", about |-> Details(View(j)', retry.about.traces)]
    /\ UNCHANGED <<list, choices, details, loads, submission>>

Retried ==
    /\ retry.pc = "served"
    /\ retry' = NoPost
    /\ Answered(retry.about, retry.about.of.job)
    /\ UNCHANGED submission

RetryFails ==
    /\ retry.pc # "none"
    /\ retry' = NoPost
    /\ UNCHANGED <<server, list, choices, details, loads, submission>>

-----------------------------------------------------------------------------
UserActs == ChooseFilter \/ (\E v \in Listed : Select(v)) \/ Submit \/ PressRetry

Next ==
    \/ UserActs \/ Render \/ RefreshList \/ LateFetchEnds
    \/ Submitted \/ SubmissionFails \/ Retried \/ RetryFails
    \/ \E j \in Jobs : JobMoves(j) \/ ServeSubmission(j) \/ ServeRetry(j)
    \/ \E r \in list.requests : ServeList(r) \/ ListArrives(r) \/ ListFails(r)
    \/ \E l \in loads : ServeLoad(l) \/ LoadArrives(l) \/ LoadFails(l)

Spec == Init /\ [][Next]_vars

-----------------------------------------------------------------------------
\* Properties

\* However selections, lists, filters and answers to POSTs interleave, the page
\* waits for one load of details at most, and it is of the job that was selected
\* when the page was rendered last.
OneLoadCounts == Cardinality(loads) <= 1 /\ \A l \in loads : l.job = effect.of

\* Details that come are of the job that is selected when they come, or, if the
\* selection is one that was not rendered yet, of the one before.  Those that
\* a load brings are never older than those another load brought before; only
\* around the answer to a retry, which is put into older details and cancels no
\* load, does the panel go back for a moment.
Merged(d) == d.traces # d.of.rev

InOrder ==
    details' # details /\ details' # Nothing =>
        /\ \/ details'.of.job = selected'
           \/ details'.of.job = effect.of /\ effect.of # selected
        /\ \/ details = Nothing \/ details.of.job # details'.of.job
           \/ details'.of.rev >= details.of.rev
           \/ Merged(details) \/ Merged(details')
=============================================================================
