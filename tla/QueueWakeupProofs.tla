------------------------- MODULE QueueWakeupProofs -------------------------
(***************************************************************************)
(* No wakeup is lost, for any number of slots, rows and broken connections.*)
(*                                                                         *)
(* NoWakeupLost is not inductive: a slot goes to sleep on an answer it got *)
(* earlier.  The invariant therefore also speaks of a slot that was told   *)
(* "empty" and whose captured version is still the current generation.     *)
(***************************************************************************)
EXTENDS QueueWakeup, TLAPS

\* The listener is up and everything sent to it was delivered.
Heard == listener = "listening" /\ conn = "subscribed" /\ ~inTransit

\* Slot s sleeps, or will as soon as its claim is answered.
AboutToSleep(s) ==
    \/ slot[s].pc = "waiting"
    \/ /\ slot[s].pc = "claiming" /\ slot[s].answer = "empty"
       /\ slot[s].version = generation

VersionsArePast == \A s \in Slots : slot[s].version <= generation

SleepersMissNothing == \A s \in Slots : Heard /\ AboutToSleep(s) => announced = {}

IInv == TypeOK /\ VersionsArePast /\ SleepersMissNothing

\* The initial states satisfy the invariant.
LEMMA InitInvariant == Init => IInv
<1> SUFFICES ASSUME Init PROVE IInv
  OBVIOUS
<1>1. QueueOK
  BY DEF Init, QueueOK
<1>2. ConnectionOK
  <2>1. 0 \in 0 .. MaxBreaks
    BY BreaksAssumption
  <2> QED BY <2>1, Zenon DEF Init, ConnectionOK
<1>3. ProcessOK
  BY DEF Init, ProcessOK, SlotType
<1>4. VersionsArePast /\ SleepersMissNothing
  BY DEF Init, VersionsArePast, SleepersMissNothing
<1> QED BY <1>1, <1>2, <1>3, <1>4 DEF IInv, TypeOK

\* Commits, clocks, locks and claims keep the queue well typed, and nothing
\* announced that a claim could not take; nothing else touches it.
LEMMA QueueStep == QueueOK /\ [Next]_vars => QueueOK'
<1> SUFFICES ASSUME QueueOK, [Next]_vars PROVE QueueOK'
  OBVIOUS
<1>1. ASSUME NEW S \in SUBSET Jobs, NEW when \in {"due", "delayed"}, QueueJobs(S, when)
      PROVE  QueueOK'
  <2>1. row' \in [Jobs -> {"absent", "delayed", "due", "claimed"}] /\ UNCHANGED lock
    BY <1>1 DEF QueueOK, QueueJobs
  <2>2. ASSUME NEW j \in announced'
        PROVE  j \in Jobs /\ row'[j] = "due" /\ lock[j] # "held"
    BY <1>1, <2>2 DEF QueueOK, QueueJobs, Claimable
  <2>3. \A j \in Jobs : row'[j] = "absent" => lock[j] = "never"
    BY <1>1 DEF QueueOK, QueueJobs
  <2> QED BY <2>1, <2>2, <2>3 DEF QueueOK, Claimable
<1>2. ASSUME NEW j \in Jobs, Claimable(j), Claim(j), lock' = lock
      PROVE  QueueOK'
  BY <1>2 DEF QueueOK, Claim, Claimable
<1>3. ASSUME NEW j \in Jobs, RowNext(j)
      PROVE  QueueOK'
  <2>1. CASE RunAfterPasses(j)
    BY <2>1 DEF QueueOK, RunAfterPasses, Claimable
  <2>2. CASE LockRow(j)
    BY <2>2 DEF QueueOK, LockRow, Claimable
  <2>3. CASE UnlockRow(j)
    BY <2>3 DEF QueueOK, UnlockRow, Claimable
  <2>4. CASE ClaimElsewhere(j)
    BY <2>4, <1>2 DEF ClaimElsewhere
  <2> QED BY <1>3, <2>1, <2>2, <2>3, <2>4 DEF RowNext
<1>4. ASSUME NEW s \in Slots, NEW j \in Jobs, ClaimFinds(s, j)
      PROVE  QueueOK'
  BY <1>4, <1>2 DEF ClaimFinds
<1>5. ASSUME UNCHANGED database
      PROVE  QueueOK'
  BY <1>5 DEF QueueOK, Claimable, database
<1>6. \/ UNCHANGED database
      \/ \E S \in SUBSET Jobs, when \in {"due", "delayed"} : QueueJobs(S, when)
      \/ \E j \in Jobs : RowNext(j)
      \/ \E s \in Slots, j \in Jobs : ClaimFinds(s, j)
  BY DEF Next, LoopGoesOn, ClaimSend, ClaimReturns, WorkEnds, WorkFails, Timeout, LoopEnds,
     ClaimAnswered, ClaimFindsNothing, Signal, ListenerGoesOn, Connects, ListenTakesEffect,
     ListenReturns, BreakNoticed, StopListening, Closed, PauseEnds, Notification, SetupFails,
     ConnectionBreaks, vars, database
<1> QED BY <1>1, <1>3, <1>4, <1>5, <1>6

\* What a step of a loop, of the queue or of the signal leaves alone.
LEMMA ListenerUntouched ==
    ASSUME [Next]_vars
    PROVE  \/ UNCHANGED connection /\ UNCHANGED listener
           \/ \E S \in SUBSET Jobs, when \in {"due", "delayed"} : QueueJobs(S, when)
           \/ ListenerGoesOn \/ Notification \/ SetupFails \/ ConnectionBreaks
BY DEF Next, RowNext, RunAfterPasses, LockRow, UnlockRow, ClaimElsewhere, LoopGoesOn, ClaimSend,
   ClaimReturns, WorkEnds, WorkFails, Timeout, LoopEnds, ClaimAnswered, ClaimFinds,
   ClaimFindsNothing, Signal, vars, connection

\* A message is under way on a subscribed connection only, and connections
\* break within the bound.
LEMMA ConnectionStep == ConnectionOK /\ [Next]_vars => ConnectionOK'
<1> SUFFICES ASSUME ConnectionOK, [Next]_vars PROVE ConnectionOK'
  OBVIOUS
<1>1. CASE UNCHANGED connection /\ UNCHANGED listener
  BY <1>1 DEF ConnectionOK, connection
<1>2. ASSUME NEW S \in SUBSET Jobs, NEW when \in {"due", "delayed"}, QueueJobs(S, when)
      PROVE  ConnectionOK'
  <2>1. UNCHANGED <<conn, breaks, listener>> /\ inTransit' = (inTransit \/ conn = "subscribed")
    BY <1>2 DEF QueueJobs
  <2> QED BY <2>1, Zenon DEF ConnectionOK
<1>3. CASE Connects
  BY <1>3 DEF ConnectionOK, Connects
<1>4. CASE ListenTakesEffect
  BY <1>4 DEF ConnectionOK, ListenTakesEffect
<1>5. CASE ListenReturns \/ BreakNoticed \/ StopListening
  BY <1>5 DEF ConnectionOK, ListenReturns, BreakNoticed, StopListening, connection
<1>6. CASE Closed
  BY <1>6 DEF ConnectionOK, Closed
<1>7. CASE PauseEnds
  BY <1>7 DEF ConnectionOK, PauseEnds, connection
<1>8. CASE Notification
  BY <1>8 DEF ConnectionOK, Notification
<1>9. CASE SetupFails
  BY <1>9, BreaksAssumption DEF ConnectionOK, SetupFails
<1>10. CASE ConnectionBreaks
  <2>1. breaks' \in 0 .. MaxBreaks
    BY <1>10, BreaksAssumption DEF ConnectionOK, ConnectionBreaks
  <2>2. conn' = "broken" /\ inTransit' = FALSE /\ listener' = listener
    BY <1>10 DEF ConnectionBreaks
  <2>3. listener \notin {"off", "connecting", "pausing", "closed"}
    BY <1>10 DEF ConnectionBreaks
  <2> QED BY <2>1, <2>2, <2>3, Zenon DEF ConnectionOK
<1> QED BY <1>1, <1>2, <1>3, <1>4, <1>5, <1>6, <1>7, <1>8, <1>9, <1>10, ListenerUntouched
        DEF ListenerGoesOn

\* A wake is a new generation and leaves no slot waiting.
LEMMA WakeFacts ==
    ASSUME ProcessOK, Wake
    PROVE  /\ generation' = generation + 1 /\ generation' \in Nat
           /\ slot' \in [Slots -> SlotType]
           /\ \A s \in Slots : /\ slot'[s].pc # "waiting"
                               /\ slot'[s].version = slot[s].version
                               /\ slot'[s].answer = slot[s].answer
BY DEF ProcessOK, Wake, SlotType

\* Loops, wakes and the signal keep the process well typed.
LEMMA ProcessStep == ProcessOK /\ [Next]_vars => ProcessOK'
<1> SUFFICES ASSUME ProcessOK, [Next]_vars PROVE ProcessOK'
  OBVIOUS
<1>1. ASSUME NEW s \in Slots, LoopGoesOn(s) \/ ClaimAnswered(s)
      PROVE  ProcessOK'
  <2>1. slot' \in [Slots -> SlotType]
    BY <1>1 DEF ProcessOK, SlotType, LoopGoesOn, ClaimSend, ClaimReturns, WorkEnds, WorkFails,
       Timeout, LoopEnds, ClaimAnswered, ClaimFinds, ClaimFindsNothing
  <2>2. UNCHANGED <<listener, generation, stopping>>
    BY <1>1 DEF LoopGoesOn, ClaimSend, ClaimReturns, WorkEnds, WorkFails,
       Timeout, LoopEnds, ClaimAnswered, ClaimFinds, ClaimFindsNothing
  <2> QED BY <2>1, <2>2 DEF ProcessOK
<1>2. CASE Signal
  <2>1. slot' \in [Slots -> SlotType]
    BY <1>2 DEF ProcessOK, SlotType, Signal
  <2> QED BY <1>2, <2>1 DEF ProcessOK, Signal
<1>3. CASE ListenReturns
  BY <1>3, WakeFacts DEF ProcessOK, ListenReturns
<1>4. CASE Notification
  BY <1>4, WakeFacts DEF ProcessOK, Notification
<1>5. CASE UNCHANGED <<generation, slot, stopping>> /\ listener' \in {"closing", "subscribing",
               "closed", "pausing", "connecting", listener}
  BY <1>5 DEF ProcessOK
<1>6. \/ \E s \in Slots : LoopGoesOn(s) \/ ClaimAnswered(s)
      \/ Signal \/ ListenReturns \/ Notification
      \/ UNCHANGED <<generation, slot, stopping>> /\ listener' \in {"closing", "subscribing",
               "closed", "pausing", "connecting", listener}
  BY DEF Next, QueueJobs, RowNext, RunAfterPasses, LockRow, UnlockRow, ClaimElsewhere,
     ListenerGoesOn, Connects, ListenTakesEffect, BreakNoticed, StopListening, Closed,
     PauseEnds, SetupFails, ConnectionBreaks, vars
<1> QED BY <1>1, <1>2, <1>3, <1>4, <1>5, <1>6

\* Every step keeps the type.
LEMMA TypeStep == TypeOK /\ [Next]_vars => TypeOK'
BY QueueStep, ConnectionStep, ProcessStep DEF TypeOK

\* Every reachable state is well typed, and no row counts as announced that a
\* claim could not take.
THEOREM TypeCorrect == Spec => []TypeOK
BY InitInvariant, TypeStep, PTL DEF Spec, IInv

\* A step that wakes everybody leaves no slot about to sleep.
LEMMA WakeStep ==
    ASSUME IInv, Wake
    PROVE  VersionsArePast' /\ \A s \in Slots : ~AboutToSleep(s)'
<1>1. \A s \in Slots : slot[s].version \in Nat /\ slot[s].version <= generation
  BY DEF IInv, TypeOK, ProcessOK, SlotType, VersionsArePast
<1>2. generation \in Nat /\ generation' = generation + 1
  BY WakeFacts DEF IInv, TypeOK, ProcessOK
<1>3. \A s \in Slots : slot'[s].pc # "waiting" /\ slot'[s].version = slot[s].version
  BY WakeFacts DEF IInv, TypeOK
<1> QED BY <1>1, <1>2, <1>3 DEF VersionsArePast, AboutToSleep

\* A step that changes neither slots nor generation, announces nothing new
\* and does not bring the listener up keeps the invariant.
LEMMA QuietStep ==
    ASSUME IInv, slot' = slot, generation' = generation,
           Heard' => Heard /\ announced' \subseteq announced
    PROVE  VersionsArePast' /\ SleepersMissNothing'
BY DEF IInv, VersionsArePast, SleepersMissNothing, AboutToSleep

\* A loop changes its own slot only, and goes to sleep, or is told "empty",
\* only when there is nothing announced.
LEMMA LoopStep ==
    ASSUME IInv, NEW s \in Slots, LoopGoesOn(s) \/ ClaimAnswered(s)
    PROVE  VersionsArePast' /\ SleepersMissNothing'
<1>t. /\ slot \in [Slots -> SlotType] /\ generation \in Nat
      /\ announced \subseteq {j \in Jobs : Claimable(j)}
  BY DEF IInv, TypeOK, ProcessOK, QueueOK
<1>1. /\ generation' = generation /\ (Heard' <=> Heard) /\ announced' \subseteq announced
      /\ \A r \in Slots \ {s} : slot'[r] = slot[r]
  BY <1>t DEF LoopGoesOn, ClaimAnswered, ClaimSend, ClaimReturns, WorkEnds, WorkFails, Timeout,
     LoopEnds, ClaimFinds, ClaimFindsNothing, Claim, Heard, database, connection
<1>2. slot'[s].version <= generation /\ slot'[s].version \in Nat
  BY <1>t DEF IInv, VersionsArePast, SlotType, LoopGoesOn, ClaimAnswered, ClaimSend, ClaimReturns,
     WorkEnds, WorkFails, Timeout, LoopEnds, ClaimFinds, ClaimFindsNothing
<1>3. AboutToSleep(s)' => AboutToSleep(s) \/ announced = {}
  <2>1. CASE ClaimReturns(s)
    BY <2>1, <1>t, <1>1 DEF ClaimReturns, MustWait, AboutToSleep, SlotType
  <2>2. CASE ClaimSend(s) \/ WorkEnds(s) \/ WorkFails(s) \/ Timeout(s) \/ LoopEnds(s)
    BY <2>2, <1>t DEF ClaimSend, WorkEnds, WorkFails, Timeout, LoopEnds, AboutToSleep, SlotType
  <2>3. CASE ClaimAnswered(s)
    BY <2>3, <1>t DEF ClaimAnswered, ClaimFinds, ClaimFindsNothing, AboutToSleep, SlotType
  <2> QED BY <2>1, <2>2, <2>3 DEF LoopGoesOn
<1>4. VersionsArePast'
  BY <1>1, <1>2 DEF IInv, VersionsArePast
<1>5. ASSUME NEW r \in Slots, Heard', AboutToSleep(r)'
      PROVE  announced' = {}
  <2>1. AboutToSleep(r) \/ announced = {}
    <3>1. CASE r = s
      BY <3>1, <1>3, <1>5
    <3>2. CASE r # s
      BY <3>2, <1>1, <1>5 DEF AboutToSleep
    <3> QED BY <3>1, <3>2
  <2>2. announced = {}
    BY <2>1, <1>1, <1>5 DEF IInv, SleepersMissNothing
  <2> QED BY <2>2, <1>1
<1> QED BY <1>4, <1>5 DEF SleepersMissNothing

\* Every step keeps the invariant.
LEMMA InvariantStep == IInv /\ [Next]_vars => IInv'
<1> SUFFICES ASSUME IInv, [Next]_vars PROVE VersionsArePast' /\ SleepersMissNothing'
  BY TypeStep DEF IInv
<1>1. CASE ListenReturns \/ Notification
  BY <1>1, WakeStep DEF ListenReturns, Notification, SleepersMissNothing
<1>2. CASE \E s \in Slots : LoopGoesOn(s) \/ ClaimAnswered(s)
  BY <1>2, LoopStep
<1>3. CASE Signal
  <2>1. \A s \in Slots : /\ slot'[s].version = slot[s].version
                         /\ AboutToSleep(s)' => AboutToSleep(s)
    BY <1>3 DEF Signal, AboutToSleep, IInv, TypeOK, ProcessOK, SlotType
  <2> QED BY <1>3, <2>1 DEF Signal, IInv, VersionsArePast, SleepersMissNothing, Heard, database,
     connection
<1>4. CASE \E S \in SUBSET Jobs, when \in {"due", "delayed"} : QueueJobs(S, when)
  <2>1. slot' = slot /\ generation' = generation /\ ~Heard'
    BY <1>4 DEF QueueJobs, Heard
  <2> QED BY <2>1, QuietStep
<1>5. CASE \E j \in Jobs : RowNext(j)
  <2>1. /\ slot' = slot /\ generation' = generation /\ (Heard' => Heard)
        /\ announced' \subseteq announced
    BY <1>5 DEF RowNext, RunAfterPasses, LockRow, UnlockRow, ClaimElsewhere, Claim, Heard,
       connection
  <2> QED BY <2>1, QuietStep
<1>6. CASE \/ Connects \/ ListenTakesEffect \/ BreakNoticed \/ StopListening \/ Closed
           \/ PauseEnds \/ SetupFails \/ ConnectionBreaks
  <2>1. slot' = slot /\ generation' = generation /\ announced' = announced /\ ~Heard'
    BY <1>6 DEF Connects, ListenTakesEffect, BreakNoticed, StopListening, Closed, PauseEnds,
       SetupFails, ConnectionBreaks, Heard, database, connection
  <2> QED BY <2>1, QuietStep
<1>7. CASE UNCHANGED vars
  <2>1. slot' = slot /\ generation' = generation /\ announced' = announced /\ (Heard' <=> Heard)
    BY <1>7 DEF vars, Heard
  <2> QED BY <2>1, QuietStep
<1> QED BY <1>1, <1>2, <1>3, <1>4, <1>5, <1>6, <1>7 DEF Next, ListenerGoesOn

\* No slot sleeps next to a row whose announcement was delivered, or that was
\* queued before the listener subscribed: capturing the version before the
\* claim, and the wake after LISTEN, leave no gap.
THEOREM NoWakeupIsLost == Spec => []NoWakeupLost
<1>1. IInv => NoWakeupLost
  BY DEF IInv, SleepersMissNothing, Heard, AboutToSleep, NoWakeupLost
<1> QED BY <1>1, InitInvariant, InvariantStep, PTL DEF Spec
=============================================================================
