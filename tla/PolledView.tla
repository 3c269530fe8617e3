----------------------------- MODULE PolledView -----------------------------
(***************************************************************************)
(* A polled part of a page: the effect that the dashboards use four times  *)
(* (src/frontend/src/RunsDashboard.tsx, App.tsx), with an AbortController, *)
(* an async refresh() that asks, shows the answer and sets a timer for the *)
(* next refresh, and a cleanup that aborts and clears the timer.           *)
(*                                                                         *)
(* A poll is one fetch, or several under Promise.all, which is answered    *)
(* when all of them are and fails with the first that does.  The others    *)
(* are left over then: nobody waits for them, nothing they bring is shown, *)
(* and only the next cleanup aborts them.                                  *)
(*                                                                         *)
(* A view is the polls that are not answered yet, each for a key and alive *)
(* until its controller is aborted, the fetches left over of failed polls, *)
(* the timer, and what is shown.                                           *)
(***************************************************************************)
EXTENDS Naturals, FiniteSets

CONSTANTS Nothing,     \* no answer from the server, nothing shown
          MaxLeftOver  \* model bound: fetches left over at a time

Idle == [requests |-> {}, leftOver |-> 0, timer |-> FALSE, shown |-> Nothing]

Live(v) == {r \in v.requests : r.live}

\* The cleanup of an effect, also when its component is unmounted.  Requests
\* that were aborted before are forgotten; their answers change nothing.
Abandoned(v) ==
    [v EXCEPT !.requests = {[r EXCEPT !.live = FALSE] : r \in Live(v)},
              !.leftOver = 0, !.timer = FALSE]

\* refresh() up to its await.
Asked(v, key) ==
    [v EXCEPT !.requests = @ \cup {[live |-> TRUE, key |-> key, answer |-> Nothing]}]

\* The dependencies have changed: cleanup, then the effect.
Restarted(v, key) == Asked(Abandoned(v), key)

\* The server answers a request, also one nobody waits for any more.
ServedWith(v, r, answer) ==
    [v EXCEPT !.requests = (@ \ {r}) \cup {[r EXCEPT !.answer = answer]}]

Served(v, r) == r.answer # Nothing
Unserved(v) == {r \in v.requests : r.answer = Nothing}

\* Mutant: an aborted request is shown like any other.
ShownAlways(v, r) == [v EXCEPT !.requests = @ \ {r}, !.shown = r.answer, !.timer = TRUE]

\* The rest of refresh() after its await; nothing when it was aborted.
Shown(v, r) ==
    IF r.live
    THEN [v EXCEPT !.requests = @ \ {r}, !.shown = r.answer, !.timer = TRUE]
    ELSE [v EXCEPT !.requests = @ \ {r}]

\* One fetch of a poll fails while k others are still on their way: the timer is
\* set all the same.
Failed(v, r, k) ==
    IF r.live
    THEN [v EXCEPT !.requests = @ \ {r}, !.leftOver = @ + k, !.timer = TRUE]
    ELSE [v EXCEPT !.requests = @ \ {r}]

\* How many others may be, of a poll of so many fetches.
StillOnTheirWay(v, fetches) == {k \in 0 .. fetches - 1 : v.leftOver + k <= MaxLeftOver}

\* One that was left over is answered, or fails.
LeftOverEnds(v) == [v EXCEPT !.leftOver = @ - 1]

\* Mutant: an interval, which does not wait for answers.
RefreshedByInterval(v, key) == Asked(v, key)

\* The timer fires: the next refresh().
Refreshed(v, key) == Asked([v EXCEPT !.timer = FALSE], key)

\* While the effect is in place the view waits for one poll or for its timer:
\* polls neither follow each other unawaited nor come to an end.
PollsOneByOne(v, inPlace) ==
    Cardinality(Live(v)) + (IF v.timer THEN 1 ELSE 0) = IF inPlace THEN 1 ELSE 0

\* No fetch is on its way when another poll begins.
PollsApart(v) == v.leftOver > 0 => Live(v) = {}
=============================================================================
