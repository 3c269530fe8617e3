---------------------------- MODULE QueueWakeup ----------------------------
(***************************************************************************)
(* How the loops of one worker learn about queued jobs: the claim loop of  *)
(* src/server/src/worker.ts, createIdleWakeup and startQueueListener of    *)
(* src/server/src/queueWakeup.ts, and the trigger that announces queued    *)
(* rows on the channel the listener subscribes to.                         *)
(*                                                                         *)
(* A claim is sent, takes effect at the database and is answered; rows may *)
(* be queued, and announcements may arrive, between any two of these.  The *)
(* connection may break at any time, and the client learns of it later.    *)
(* Which of the claimable rows a claim picks is left open.                 *)
(***************************************************************************)
EXTENDS Naturals

CONSTANTS Slots,       \* WORKER_CONCURRENCY loops
          Jobs,        \* rows that may be queued, each once
          MaxBreaks    \* model bound: times the listener's connection breaks

ASSUME BreaksAssumption == MaxBreaks \in Nat

VARIABLES
    \* The database.
    row,         \* row[j]: whether j is queued, and may be claimed
    lock,        \* lock[j]: another transaction's lock on the queued row
    announced,   \* history: due rows that were announced and not locked since
    \* The listener's connection.
    conn,        \* its state at the server
    inTransit,   \* some notification is on its way to the client
    breaks,
    \* The process.
    listener,    \* where startQueueListener is; "off" in poll mode
    generation,
    slot,        \* slot[s]: where the loop is, the version it captured, its answer
    stopping     \* idleSleep is aborted

database == <<row, lock, announced>>
connection == <<conn, inTransit, breaks>>
vars == <<row, lock, announced, conn, inTransit, breaks, listener, generation, slot, stopping>>

Init ==
    /\ row = [j \in Jobs |-> "absent"]
    /\ lock = [j \in Jobs |-> "never"]
    /\ announced = {}
    /\ conn = "none" /\ inTransit = FALSE /\ breaks = 0
    /\ listener \in {"off", "connecting"}
    /\ generation = 0
    /\ slot = [s \in Slots |-> [pc |-> "top", version |-> 0, answer |-> "none"]]
    /\ stopping = FALSE

-----------------------------------------------------------------------------
\* The queue.  A commit that queues rows announces them to whoever listens.

QueueJobs(S, when) ==
    /\ S # {} /\ \A j \in S : row[j] = "absent"
    /\ row' = [j \in Jobs |-> IF j \in S THEN when ELSE row[j]]
    /\ announced' = IF when = "due" THEN announced \cup S ELSE announced
    /\ inTransit' = (inTransit \/ conn = "subscribed")
    /\ UNCHANGED <<lock, conn, breaks, listener, generation, slot, stopping>>

\* The retry time of a row comes; nothing is announced then.
RunAfterPasses(j) ==
    /\ row[j] = "delayed"
    /\ row' = [row EXCEPT ![j] = "due"]
    /\ UNCHANGED <<lock, announced, connection, listener, generation, slot, stopping>>

\* A transaction that keeps claims away from a queued row and leaves it as it
\* was: a late trace insert, a claim that is rolled back.  Once per row.
LockRow(j) ==
    /\ row[j] \in {"delayed", "due"} /\ lock[j] = "never"
    /\ lock' = [lock EXCEPT ![j] = "held"]
    /\ announced' = announced \ {j}
    /\ UNCHANGED <<row, connection, listener, generation, slot, stopping>>

UnlockRow(j) ==
    /\ lock[j] = "held"
    /\ lock' = [lock EXCEPT ![j] = "over"]
    /\ UNCHANGED <<row, announced, connection, listener, generation, slot, stopping>>

Claimable(j) == row[j] = "due" /\ lock[j] # "held"

Claim(j) == row' = [row EXCEPT ![j] = "claimed"] /\ announced' = announced \ {j}

ClaimElsewhere(j) ==
    /\ Claimable(j) /\ Claim(j)
    /\ UNCHANGED <<lock, connection, listener, generation, slot, stopping>>

-----------------------------------------------------------------------------
\* createIdleWakeup.

\* wake(): a new generation, and every waiter goes back to its loop.
Wake ==
    /\ generation' = generation + 1
    /\ slot' = [s \in Slots |-> IF slot[s].pc = "waiting" THEN [slot[s] EXCEPT !.pc = "top"]
                                                          ELSE slot[s]]

\* Mutant: the version captured before the claim is ignored.
MustWaitAnyway(s) == ~stopping

\* wait(version): not after the abort, nor when something happened since.
MustWait(s) == ~stopping /\ slot[s].version = generation

\* The loop of a slot: capture the version, then claim.
ClaimSend(s) ==
    /\ slot[s].pc = "top" /\ ~stopping
    /\ slot' = [slot EXCEPT ![s] = [pc |-> "claiming", version |-> generation, answer |-> "none"]]
    /\ UNCHANGED <<database, connection, listener, generation, stopping>>

ClaimFinds(s, j) ==
    /\ slot[s].pc = "claiming" /\ slot[s].answer = "none"
    /\ Claimable(j) /\ Claim(j)
    /\ slot' = [slot EXCEPT ![s].answer = "job"]
    /\ UNCHANGED <<lock, connection, listener, generation, stopping>>

ClaimFindsNothing(s, answer) ==
    /\ slot[s].pc = "claiming" /\ slot[s].answer = "none"
    /\ answer = "empty" => \A j \in Jobs : ~Claimable(j)
    /\ slot' = [slot EXCEPT ![s].answer = answer]
    /\ UNCHANGED <<database, connection, listener, generation, stopping>>

ClaimReturns(s) ==
    /\ slot[s].pc = "claiming"
    /\ \/ slot[s].answer = "job" /\ slot' = [slot EXCEPT ![s].pc = "working"]
       \/ slot[s].answer = "empty"
          /\ slot' = [slot EXCEPT ![s].pc = IF MustWait(s) THEN "waiting" ELSE "top"]
       \/ slot[s].answer = "error"
          /\ slot' = [slot EXCEPT ![s].pc = IF stopping THEN "ended" ELSE "backoff"]
    /\ UNCHANGED <<database, connection, listener, generation, stopping>>

WorkEnds(s) ==
    /\ slot[s].pc = "working"
    /\ slot' = [slot EXCEPT ![s].pc = "top"]
    /\ UNCHANGED <<database, connection, listener, generation, stopping>>

\* runOnce throws: its last write failed.
WorkFails(s) ==
    /\ slot[s].pc = "working"
    /\ slot' = [slot EXCEPT ![s].pc = IF stopping THEN "ended" ELSE "backoff"]
    /\ UNCHANGED <<database, connection, listener, generation, stopping>>

\* Mutant: while the listener is up, its notifications are relied on.
TimeoutUnlessListening(s) ==
    /\ slot[s].pc \in {"waiting", "backoff"}
    /\ slot[s].pc = "waiting" => listener # "listening"
    /\ slot' = [slot EXCEPT ![s].pc = "top"]
    /\ UNCHANGED <<database, connection, listener, generation, stopping>>

\* The idle check of a waiter, and the end of the pause after an error.
Timeout(s) ==
    /\ slot[s].pc \in {"waiting", "backoff"}
    /\ slot' = [slot EXCEPT ![s].pc = "top"]
    /\ UNCHANGED <<database, connection, listener, generation, stopping>>

LoopEnds(s) ==
    /\ slot[s].pc = "top" /\ stopping
    /\ slot' = [slot EXCEPT ![s].pc = "ended"]
    /\ UNCHANGED <<database, connection, listener, generation, stopping>>

\* requestShutdown aborts idleSleep: waits and pauses end.
Signal ==
    /\ ~stopping
    /\ stopping' = TRUE
    /\ slot' = [s \in Slots |-> IF slot[s].pc \in {"waiting", "backoff"}
                                THEN [slot[s] EXCEPT !.pc = "top"] ELSE slot[s]]
    /\ UNCHANGED <<database, connection, listener, generation>>

-----------------------------------------------------------------------------
\* startQueueListener.

Connects ==
    /\ listener = "connecting" /\ ~stopping
    /\ listener' = "subscribing" /\ conn' = "open"
    /\ UNCHANGED <<database, inTransit, breaks, generation, slot, stopping>>

ListenTakesEffect ==
    /\ listener = "subscribing" /\ conn = "open"
    /\ conn' = "subscribed"
    /\ UNCHANGED <<database, inTransit, breaks, listener, generation, slot, stopping>>

\* LISTEN is answered: look at what was queued before it.
ListenReturns ==
    /\ listener = "subscribing" /\ conn = "subscribed" /\ ~stopping
    /\ listener' = "listening"
    /\ Wake
    /\ UNCHANGED <<database, connection, stopping>>

\* Connecting or LISTEN fails, or takes longer than its timeout.
SetupFails ==
    /\ listener \in {"connecting", "subscribing"}
    /\ breaks < MaxBreaks /\ breaks' = breaks + 1
    /\ listener' = "closing"
    /\ UNCHANGED <<database, conn, inTransit, generation, slot, stopping>>

\* Also from a client that is being closed because LISTEN timed out.
Notification ==
    /\ inTransit /\ ~stopping
    /\ listener \in {"subscribing", "listening", "closing"}
    /\ inTransit' = FALSE
    /\ Wake
    /\ UNCHANGED <<database, conn, breaks, listener, stopping>>

\* The connection breaks; what was on its way is lost.
ConnectionBreaks ==
    /\ conn \in {"open", "subscribed"} /\ listener \in {"subscribing", "listening"}
    /\ breaks < MaxBreaks /\ breaks' = breaks + 1
    /\ conn' = "broken" /\ inTransit' = FALSE
    /\ UNCHANGED <<database, listener, generation, slot, stopping>>

\* The client's error or end event, or a rejected query.
BreakNoticed ==
    /\ conn = "broken" /\ listener \in {"subscribing", "listening"}
    /\ listener' = "closing"
    /\ UNCHANGED <<database, connection, generation, slot, stopping>>

\* Mutant: the abort does not settle the wait for the end of the connection.
StopSetup ==
    /\ stopping /\ listener \in {"connecting", "subscribing"}
    /\ listener' = "closing"
    /\ UNCHANGED <<database, connection, generation, slot, stopping>>

\* The abort handler of the current client.
StopListening ==
    /\ stopping /\ listener \in {"connecting", "subscribing", "listening"}
    /\ listener' = "closing"
    /\ UNCHANGED <<database, connection, generation, slot, stopping>>

\* client.end() returns.
Closed ==
    /\ listener = "closing"
    /\ conn' = "none" /\ inTransit' = FALSE
    /\ listener' = IF stopping THEN "closed" ELSE "pausing"
    /\ UNCHANGED <<database, breaks, generation, slot, stopping>>

\* One second later, or at the abort.
PauseEnds ==
    /\ listener = "pausing"
    /\ listener' = IF stopping THEN "closed" ELSE "connecting"
    /\ UNCHANGED <<database, connection, generation, slot, stopping>>

-----------------------------------------------------------------------------
LoopGoesOn(s) ==
    \/ ClaimSend(s) \/ ClaimReturns(s) \/ WorkEnds(s) \/ WorkFails(s)
    \/ Timeout(s) \/ LoopEnds(s)

ClaimAnswered(s) ==
    \/ \E j \in Jobs : ClaimFinds(s, j)
    \/ \E answer \in {"empty", "error"} : ClaimFindsNothing(s, answer)

\* What the listener does by itself; the network decides on the rest.
ListenerGoesOn ==
    \/ Connects \/ ListenTakesEffect \/ ListenReturns \/ BreakNoticed
    \/ StopListening \/ Closed \/ PauseEnds

RowNext(j) == RunAfterPasses(j) \/ LockRow(j) \/ UnlockRow(j) \/ ClaimElsewhere(j)

Next ==
    \/ \E S \in SUBSET Jobs, when \in {"due", "delayed"} : QueueJobs(S, when)
    \/ \E j \in Jobs : RowNext(j)
    \/ \E s \in Slots : LoopGoesOn(s) \/ ClaimAnswered(s)
    \/ Signal \/ ListenerGoesOn \/ Notification \/ SetupFails \/ ConnectionBreaks

Spec == Init /\ [][Next]_vars

\* Timers fire, queries are answered, jobs and transactions come to an end,
\* and a claim does not fail every time.  Notifications need never arrive.
Fairness ==
    /\ \A s \in Slots : WF_vars(LoopGoesOn(s)) /\ WF_vars(ClaimAnswered(s))
    /\ SF_vars(\E s \in Slots, j \in Jobs : ClaimFinds(s, j))
    /\ \A j \in Jobs : WF_vars(UnlockRow(j)) /\ WF_vars(RunAfterPasses(j))
    /\ WF_vars(ListenerGoesOn)

FairSpec == Spec /\ Fairness

-----------------------------------------------------------------------------
\* Properties

QueueOK ==
    /\ row \in [Jobs -> {"absent", "delayed", "due", "claimed"}]
    /\ lock \in [Jobs -> {"never", "held", "over"}]
    /\ \A j \in Jobs : row[j] = "absent" => lock[j] = "never"
    /\ announced \subseteq {j \in Jobs : Claimable(j)}

ConnectionOK ==
    /\ conn \in {"none", "open", "subscribed", "broken"}
    /\ inTransit \in BOOLEAN /\ (inTransit => conn = "subscribed")
    /\ listener \in {"off", "connecting", "pausing", "closed"} => conn = "none"
    /\ breaks \in 0 .. MaxBreaks

SlotType == [pc: {"top", "claiming", "working", "waiting", "backoff", "ended"},
             version: Nat, answer: {"none", "job", "empty", "error"}]

ProcessOK ==
    /\ listener \in {"off", "connecting", "subscribing", "listening", "closing", "pausing",
                     "closed"}
    /\ generation \in Nat
    /\ slot \in [Slots -> SlotType]
    /\ stopping \in BOOLEAN

\* The variables have their shape, only due rows that are free count as
\* announced, only a subscription brings notifications, and a listener that is
\* not up has no connection.
TypeOK == QueueOK /\ ConnectionOK /\ ProcessOK

\* While the listener is up and has nothing left to deliver, no loop sleeps
\* next to a row that was announced to it, or queued before it subscribed: the
\* version captured before the claim and the wake after LISTEN close the gaps.
NoWakeupLost ==
    listener = "listening" /\ conn = "subscribed" /\ ~inTransit /\ announced # {} =>
        \A s \in Slots : slot[s].pc # "waiting"

\* A due row is claimed even when it was never announced, the listener is down
\* or the row was locked when the workers looked: the idle check finds it.
EveryDueJobIsClaimed ==
    \A j \in Jobs : row[j] = "due" ~> row[j] = "claimed" \/ stopping

\* After the signal the loops and the listener end, wherever they were.
ShutdownDrains ==
    stopping ~> listener \in {"off", "closed"} /\ \A s \in Slots : slot[s].pc = "ended"
=============================================================================
