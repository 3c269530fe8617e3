--------------------------- MODULE DashboardProofs ---------------------------
(***************************************************************************)
(* Proofs about Dashboards, for any runs, jobs and numbers of changes.     *)
(*                                                                         *)
(* The polled views come first, on their own: what one of their steps does *)
(* to the one request that counts and to what is shown, in terms of an     *)
(* order on answers.  Then the parts of the dashboard of runs, each a view *)
(* with its own keys, data and order; the dashboard of jobs; and the page  *)
(* that mounts them in turn.                                               *)
(***************************************************************************)
EXTENDS Dashboards, FiniteSetTheorems, TLAPS

Polled == INSTANCE PolledView

-----------------------------------------------------------------------------
\* A polled view with keys in K and data in D.
Answers(K, D) == [key: K, data: D]

Requests(K, D) == [live: BOOLEAN, key: K, answer: {Nothing} \cup Answers(K, D)]

PolledViews(K, D) ==
    [requests: SUBSET Requests(K, D), leftOver: Nat, timer: BOOLEAN,
     shown: {Nothing} \cup Answers(K, D)]

\* The view waits for an answer, or for its timer.
Busy(v) == Polled!Live(v) # {} \/ v.timer

Quiet(v) == ~Busy(v)

\* It waits for exactly one of them.
OneAwaited(v) ==
    /\ \A r, s \in Polled!Live(v) : r = s
    /\ v.timer => Polled!Live(v) = {}
    /\ Busy(v)

\* What is shown, if anything, is for this key and no newer than this.
ShownFits(v, key, now, Leq) ==
    v.shown # Nothing => v.shown.key = key /\ <<v.shown.data, now>> \in Leq

\* The one request that counts is for the key, and its answer is between what
\* is shown and what the server has now.
Sound(v, key, now, Leq) ==
    /\ \A r, s \in Polled!Live(v) : r = s
    /\ v.timer => Polled!Live(v) = {}
    /\ ShownFits(v, key, now, Leq)
    /\ \A r \in Polled!Live(v) :
        /\ r.key = key
        /\ r.answer # Nothing =>
            /\ r.answer.key = key /\ <<r.answer.data, now>> \in Leq
            /\ v.shown # Nothing => <<v.shown.data, r.answer.data>> \in Leq

\* From v to w, nothing older is shown for the same key.
Forward(v, w, Leq) ==
    v.shown # Nothing /\ w.shown # Nothing /\ v.shown.key = w.shown.key
        => <<v.shown.data, w.shown.data>> \in Leq

Transitive(Leq) == \A a, b, c : <<a, b>> \in Leq /\ <<b, c>> \in Leq => <<a, c>> \in Leq

Reflexive(D, Leq) == \A d \in D : <<d, d>> \in Leq

LEMMA AbandonedIsQuiet ==
    ASSUME NEW K, NEW D, NEW v \in PolledViews(K, D)
    PROVE  /\ Polled!Abandoned(v) \in PolledViews(K, D)
           /\ Quiet(Polled!Abandoned(v))
           /\ Polled!Abandoned(v).shown = v.shown
<1> DEFINE q == {[r EXCEPT !.live = FALSE] : r \in Polled!Live(v)}
<1>1. q \in SUBSET Requests(K, D) /\ \A r \in q : ~r.live
  BY DEF PolledViews, Requests, Polled!Live
<1>2. Polled!Abandoned(v) = [v EXCEPT !.requests = q, !.leftOver = 0, !.timer = FALSE]
  BY DEF Polled!Abandoned
<1> HIDE DEF q
<1> DEFINE w == [v EXCEPT !.requests = q, !.leftOver = 0, !.timer = FALSE]
<1>3. w \in PolledViews(K, D) /\ w.requests = q /\ ~w.timer /\ w.shown = v.shown
  BY <1>1 DEF PolledViews
<1> HIDE DEF w
<1> QED BY <1>1, <1>2, <1>3 DEF Quiet, Busy, Polled!Live, w

LEMMA AskedWhenQuiet ==
    ASSUME NEW K, NEW D, NEW v \in PolledViews(K, D), NEW key \in K, NEW now, NEW Leq,
           Quiet(v), ShownFits(v, key, now, Leq)
    PROVE  /\ Polled!Asked(v, key) \in PolledViews(K, D)
           /\ Sound(Polled!Asked(v, key), key, now, Leq)
           /\ Polled!Asked(v, key).shown = v.shown /\ Busy(Polled!Asked(v, key))
<1> DEFINE a == [live |-> TRUE, key |-> key, answer |-> Nothing]
           w == [v EXCEPT !.requests = v.requests \cup {a}]
<1>1. a \in Requests(K, D)
  BY DEF Requests
<1>2. Polled!Asked(v, key) = w
  BY DEF Polled!Asked
<1>3. w \in PolledViews(K, D) /\ w.shown = v.shown /\ ~w.timer
  BY <1>1 DEF PolledViews, Quiet, Busy
<1>4. w.requests = v.requests \cup {a}
  BY DEF PolledViews
<1>5. Polled!Live(w) = {a}
  BY <1>4 DEF Polled!Live, Quiet, Busy
<1> HIDE DEF w
<1> QED BY <1>2, <1>3, <1>5 DEF Sound, ShownFits, Busy

LEMMA ServedStaysSound ==
    ASSUME NEW K, NEW D, NEW v \in PolledViews(K, D), NEW key, NEW now, NEW Leq,
           Transitive(Leq), Reflexive(D, Leq), Sound(v, key, now, Leq),
           NEW r \in v.requests, r.answer = Nothing,
           NEW a \in Answers(K, D), a.key = r.key, r.key = key => a.data = now
    PROVE  /\ Polled!ServedWith(v, r, a) \in PolledViews(K, D)
           /\ Sound(Polled!ServedWith(v, r, a), key, now, Leq)
           /\ Polled!ServedWith(v, r, a).shown = v.shown
           /\ Busy(Polled!ServedWith(v, r, a)) <=> Busy(v)
<1> DEFINE s == [r EXCEPT !.answer = a]
           w == [v EXCEPT !.requests = (v.requests \ {r}) \cup {s}]
<1>1. s \in Requests(K, D) /\ s.live = r.live /\ s.key = r.key /\ s.answer = a
  BY DEF Requests, PolledViews
<1>2. Polled!ServedWith(v, r, a) = w
  BY DEF Polled!ServedWith
<1>3. w \in PolledViews(K, D) /\ w.shown = v.shown /\ w.timer = v.timer
  BY <1>1 DEF PolledViews
<1>4. w.requests = (v.requests \ {r}) \cup {s}
  BY <1>1 DEF PolledViews
<1>5. CASE r.live
  <2>1. r \in Polled!Live(v) /\ Polled!Live(w) = {s}
    <3>1. r \in Polled!Live(v)
      BY <1>5 DEF Polled!Live
    <3>2. \A x \in v.requests \ {r} : ~x.live
      BY <3>1 DEF Polled!Live, Sound
    <3> HIDE DEF w, s
    <3> QED BY <1>1, <1>4, <1>5, <3>1, <3>2 DEF Polled!Live
  <2>2. r.key = key /\ a.data = now /\ a.data \in D
    BY <2>1 DEF Sound, Answers
  <2> HIDE DEF w, s
  <2> QED BY <1>1, <1>2, <1>3, <2>1, <2>2 DEF Sound, ShownFits, Reflexive, Busy
<1>6. CASE ~r.live
  <2>1. Polled!Live(w) = Polled!Live(v)
    BY <1>1, <1>4, <1>6 DEF Polled!Live
  <2> HIDE DEF w, s
  <2> QED BY <1>2, <1>3, <2>1 DEF Sound, ShownFits, Busy
<1> QED BY <1>5, <1>6 DEF Requests, PolledViews

LEMMA ShownStaysSound ==
    ASSUME NEW K, NEW D, NEW v \in PolledViews(K, D), NEW key, NEW now, NEW Leq,
           Sound(v, key, now, Leq), NEW r \in v.requests, r.answer # Nothing
    PROVE  /\ Polled!Shown(v, r) \in PolledViews(K, D)
           /\ Sound(Polled!Shown(v, r), key, now, Leq)
           /\ Forward(v, Polled!Shown(v, r), Leq) \/ Polled!Shown(v, r).shown = v.shown
           /\ Busy(Polled!Shown(v, r)) <=> Busy(v)
<1>1. r \in Requests(K, D) /\ r.answer \in Answers(K, D)
  BY DEF PolledViews, Requests
<1>2. CASE r.live
  <2> DEFINE w == [v EXCEPT !.requests = v.requests \ {r}, !.shown = r.answer, !.timer = TRUE]
  <2>1. Polled!Shown(v, r) = w
    BY <1>2 DEF Polled!Shown
  <2>2. /\ w \in PolledViews(K, D) /\ w.shown = r.answer /\ w.timer
        /\ w.requests = v.requests \ {r}
    BY <1>1 DEF PolledViews
  <2>3. r \in Polled!Live(v) /\ Polled!Live(w) = {}
    BY <1>2, <2>2 DEF Polled!Live, Sound
  <2> HIDE DEF w
  <2> QED BY <2>1, <2>2, <2>3 DEF Sound, ShownFits, Forward, Busy
<1>3. CASE ~r.live
  <2> DEFINE w == [v EXCEPT !.requests = v.requests \ {r}]
  <2>1. Polled!Shown(v, r) = w
    BY <1>3 DEF Polled!Shown
  <2>2. /\ w \in PolledViews(K, D) /\ w.shown = v.shown /\ w.timer = v.timer
        /\ w.requests = v.requests \ {r}
    BY DEF PolledViews
  <2>3. Polled!Live(w) = Polled!Live(v)
    BY <1>3, <2>2 DEF Polled!Live
  <2> HIDE DEF w
  <2> QED BY <2>1, <2>2, <2>3 DEF Sound, ShownFits, Busy
<1> QED BY <1>1, <1>2, <1>3 DEF Requests

LEMMA FailedStaysSound ==
    ASSUME NEW K, NEW D, NEW v \in PolledViews(K, D), NEW key, NEW now, NEW Leq,
           Sound(v, key, now, Leq), NEW r \in v.requests, NEW k \in Nat
    PROVE  /\ Polled!Failed(v, r, k) \in PolledViews(K, D)
           /\ Sound(Polled!Failed(v, r, k), key, now, Leq)
           /\ Polled!Failed(v, r, k).shown = v.shown
           /\ Busy(Polled!Failed(v, r, k)) <=> Busy(v)
<1>1. CASE r.live
  <2> DEFINE m == v.leftOver + k
  <2>a. m \in Nat
    BY DEF PolledViews
  <2> HIDE DEF m
  <2> DEFINE w == [v EXCEPT !.requests = v.requests \ {r}, !.leftOver = m, !.timer = TRUE]
  <2>1. Polled!Failed(v, r, k) = w
    BY <1>1 DEF Polled!Failed, PolledViews, m
  <2>2. /\ w \in PolledViews(K, D) /\ w.shown = v.shown /\ w.timer
        /\ w.requests = v.requests \ {r}
    BY <2>a DEF PolledViews
  <2>3. r \in Polled!Live(v) /\ Polled!Live(w) = {}
    BY <1>1, <2>2 DEF Polled!Live, Sound
  <2> HIDE DEF w
  <2> QED BY <2>1, <2>2, <2>3 DEF Sound, ShownFits, Busy
<1>2. CASE ~r.live
  <2> DEFINE w == [v EXCEPT !.requests = v.requests \ {r}]
  <2>1. Polled!Failed(v, r, k) = w
    BY <1>2 DEF Polled!Failed
  <2>2. /\ w \in PolledViews(K, D) /\ w.shown = v.shown /\ w.timer = v.timer
        /\ w.requests = v.requests \ {r}
    BY DEF PolledViews
  <2>3. Polled!Live(w) = Polled!Live(v)
    BY <1>2, <2>2 DEF Polled!Live
  <2> HIDE DEF w
  <2> QED BY <2>1, <2>2, <2>3 DEF Sound, ShownFits, Busy
<1> QED BY <1>1, <1>2 DEF PolledViews, Requests

\* A fetch that nobody waits for changes nothing else.
LEMMA LeftOverIsNothing ==
    ASSUME NEW K, NEW D, NEW v \in PolledViews(K, D), v.leftOver > 0
    PROVE  LET w == Polled!LeftOverEnds(v) IN
           /\ w \in PolledViews(K, D) /\ Polled!Live(w) = Polled!Live(v)
           /\ w.timer = v.timer /\ w.shown = v.shown
<1> DEFINE w == [v EXCEPT !.leftOver = v.leftOver - 1]
<1>1. Polled!LeftOverEnds(v) = w
  BY DEF Polled!LeftOverEnds, PolledViews
<1>2. /\ w \in PolledViews(K, D) /\ w.requests = v.requests
      /\ w.timer = v.timer /\ w.shown = v.shown
  BY DEF PolledViews
<1> QED BY <1>1, <1>2 DEF Polled!Live

LEMMA RefreshedStaysSound ==
    ASSUME NEW K, NEW D, NEW v \in PolledViews(K, D), NEW key \in K, NEW now, NEW Leq,
           Sound(v, key, now, Leq), v.timer
    PROVE  /\ Polled!Refreshed(v, key) \in PolledViews(K, D)
           /\ Sound(Polled!Refreshed(v, key), key, now, Leq)
           /\ Polled!Refreshed(v, key).shown = v.shown /\ Busy(Polled!Refreshed(v, key))
<1> DEFINE w == [v EXCEPT !.timer = FALSE]
<1>1. /\ w \in PolledViews(K, D) /\ w.shown = v.shown /\ ~w.timer
      /\ w.requests = v.requests
  BY DEF PolledViews
<1>2. Quiet(w) /\ ShownFits(w, key, now, Leq)
  BY <1>1 DEF Quiet, Busy, Sound, ShownFits, Polled!Live
<1> QED BY <1>1, <1>2, AskedWhenQuiet DEF Polled!Refreshed

LEMMA RestartedStaysSound ==
    ASSUME NEW K, NEW D, NEW v \in PolledViews(K, D), NEW key \in K, NEW now, NEW Leq,
           ShownFits(v, key, now, Leq)
    PROVE  /\ Polled!Restarted(v, key) \in PolledViews(K, D)
           /\ Sound(Polled!Restarted(v, key), key, now, Leq)
           /\ Polled!Restarted(v, key).shown = v.shown /\ Busy(Polled!Restarted(v, key))
<1> DEFINE u == Polled!Abandoned(v)
<1>1. u \in PolledViews(K, D) /\ Quiet(u) /\ u.shown = v.shown
  BY AbandonedIsQuiet
<1>2. ShownFits(u, key, now, Leq)
  BY <1>1 DEF ShownFits
<1>3. Polled!Restarted(v, key) = Polled!Asked(u, key)
  BY DEF Polled!Restarted
<1> HIDE DEF u
<1> QED BY <1>1, <1>2, <1>3, AskedWhenQuiet

\* The server moves on.
LEMMA LaterStaysSound ==
    ASSUME NEW K, NEW D, NEW v \in PolledViews(K, D), NEW key, NEW now, NEW later, NEW Leq,
           Transitive(Leq), Sound(v, key, now, Leq), <<now, later>> \in Leq
    PROVE  Sound(v, key, later, Leq)
BY DEF Sound, ShownFits, Transitive

LEMMA AtMostOne ==
    ASSUME NEW S, \A r, s \in S : r = s
    PROVE  IsFiniteSet(S) /\ Cardinality(S) <= 1
<1>1. CASE S = {}
  <2>1. IsFiniteSet(S) /\ Cardinality(S) = 0
    BY <1>1, FS_EmptySet
  <2> QED BY <2>1
<1>2. CASE S # {}
  <2>1. PICK x : S = {x}
    BY <1>2
  <2>2. IsFiniteSet(S) /\ Cardinality(S) = 1
    BY <2>1, FS_Singleton
  <2> QED BY <2>2
<1> QED BY <1>1, <1>2

LEMMA OneByOne ==
    ASSUME NEW v, \A r, s \in Polled!Live(v) : r = s, v.timer => Polled!Live(v) = {},
           NEW inPlace \in BOOLEAN, inPlace <=> Busy(v)
    PROVE  Polled!PollsOneByOne(v, inPlace)
<1> DEFINE n == Cardinality(Polled!Live(v))
<1>1. n = Polled!Cardinality(Polled!Live(v))
  BY DEF Cardinality, Polled!Cardinality
<1>2. n \in Nat /\ n <= 1 /\ (n = 0 <=> Polled!Live(v) = {})
  BY AtMostOne, FS_CardinalityType, FS_EmptySet
<1>3. Polled!Live(v) # {} => n = 1
  BY <1>2
<1> HIDE DEF n
<1> QED BY <1>1, <1>2, <1>3 DEF Polled!PollsOneByOne, Busy

-----------------------------------------------------------------------------
\* The dashboard of runs, with any of its parts on the page.
AllParts == {"list", "run", "comparison"}

RunKeys(n) ==
    CASE n = "list" -> {"all"} [] n = "run" -> Runs [] n = "comparison" -> Runs \X Runs

RunData(n) ==
    CASE n = "list" -> [Runs -> Nat] [] n = "run" -> Nat [] n = "comparison" -> Nat \X Nat

Order(n) ==
    {p \in RunData(n) \X RunData(n) :
        CASE n = "list" -> \A r \in Runs : p[2][r] >= p[1][r]
          [] n = "run" -> p[2] >= p[1]
          [] n = "comparison" -> p[2][1] >= p[1][1] /\ p[2][2] >= p[1][2]}

Chosen(n) ==
    CASE n = "list" -> "all" [] n = "run" -> selectedRun [] n = "comparison" -> compared

DataAt(n, key) ==
    CASE n = "list" -> progress
      [] n = "run" -> progress[key]
      [] n = "comparison" -> <<progress[key[1]], progress[key[2]]>>

Good(n, v, key, now) ==
    /\ v \in PolledViews(RunKeys(n), RunData(n))
    /\ Busy(v) <=> key \in RunKeys(n)
    /\ Sound(v, key, now, Order(n))

Moved(n, v, w, key, now) == Good(n, w, key, now) /\ Forward(v, w, Order(n))

PageInv(Names) ==
    /\ progress \in [Runs -> Nat]
    /\ selectedRun \in Runs \cup {None}
    /\ compared \in (Runs \cup {None}) \X (Runs \cup {None})
    /\ compared[2] # None => compared[1] # None
    /\ runSubmission.pc = "served" => runSubmission.run \in Runs
    /\ views = [n \in Names |-> views[n]]
    /\ \A n \in Names : Good(n, views[n], Chosen(n), DataAt(n, Chosen(n)))

Onward(Names) == \A n \in Names : Forward(views[n], views'[n], Order(n))

LEMMA OrderFacts ==
    ASSUME NEW n \in AllParts
    PROVE  Transitive(Order(n)) /\ Reflexive(RunData(n), Order(n))
<1>1. CASE n = "list"
  <2>1. RunData(n) = [Runs -> Nat]
    BY <1>1 DEF RunData
  <2>2. Order(n) = {p \in [Runs -> Nat] \X [Runs -> Nat] : \A r \in Runs : p[2][r] >= p[1][r]}
    BY <1>1, <2>1 DEF Order
  <2>3. Reflexive(RunData(n), Order(n))
    BY <2>1, <2>2 DEF Reflexive
  <2>4. ASSUME NEW a, NEW b, NEW c, <<a, b>> \in Order(n), <<b, c>> \in Order(n)
        PROVE  <<a, c>> \in Order(n)
    <3>1. /\ a \in [Runs -> Nat] /\ b \in [Runs -> Nat] /\ c \in [Runs -> Nat]
          /\ \A r \in Runs : b[r] >= a[r] /\ c[r] >= b[r]
      BY <2>2, <2>4
    <3>2. ASSUME NEW r \in Runs PROVE c[r] >= a[r]
      <4>1. a[r] \in Nat /\ b[r] \in Nat /\ c[r] \in Nat
        BY <3>1
      <4> QED BY <3>1, <4>1
    <3> QED BY <2>2, <3>1, <3>2
  <2> QED BY <2>3, <2>4 DEF Transitive
<1>2. CASE n = "run"
  BY <1>2 DEF Transitive, Reflexive, Order, RunData
<1>3. CASE n = "comparison"
  BY <1>3 DEF Transitive, Reflexive, Order, RunData
<1> QED BY <1>1, <1>2, <1>3 DEF AllParts

LEMMA SameForward ==
    ASSUME NEW n \in AllParts, NEW v \in PolledViews(RunKeys(n), RunData(n)), NEW w,
           w.shown = v.shown
    PROVE  Forward(v, w, Order(n))
BY OrderFacts DEF Forward, Reflexive, PolledViews, Answers

\* The steps of one part.
LEMMA PartMoves ==
    ASSUME NEW n \in AllParts, NEW v, NEW key, NEW now, Good(n, v, key, now)
    PROVE  /\ \A r \in v.requests : \A a \in Answers(RunKeys(n), RunData(n)) :
                r.answer = Nothing /\ a.key = r.key /\ (r.key = key => a.data = now) =>
                    Moved(n, v, Polled!ServedWith(v, r, a), key, now)
           /\ \A r \in v.requests : r.answer # Nothing =>
                    Moved(n, v, Polled!Shown(v, r), key, now)
           /\ \A r \in v.requests, k \in Nat :
                    Moved(n, v, Polled!Failed(v, r, k), key, now)
           /\ v.leftOver > 0 =>
                    Moved(n, v, Polled!LeftOverEnds(v), key, now)
           /\ v.timer =>
                    Moved(n, v, Polled!Refreshed(v, key), key, now)
           /\ key \in RunKeys(n) =>
                    Moved(n, v, Polled!Restarted(v, key), key, now)
<1> DEFINE K == RunKeys(n)
           D == RunData(n)
<1>1. v \in PolledViews(K, D) /\ Sound(v, key, now, Order(n)) /\ (Busy(v) <=> key \in K)
  BY DEF Good
<1>2. ASSUME NEW r \in v.requests, NEW a \in Answers(K, D),
             r.answer = Nothing, a.key = r.key, r.key = key => a.data = now
      PROVE  Moved(n, v, Polled!ServedWith(v, r, a), key, now)
  <2> DEFINE w == Polled!ServedWith(v, r, a)
  <2>1. /\ w \in PolledViews(K, D) /\ Sound(w, key, now, Order(n)) /\ w.shown = v.shown
        /\ Busy(w) <=> Busy(v)
    BY <1>1, <1>2, ServedStaysSound, OrderFacts
  <2> QED BY <1>1, <2>1, SameForward DEF Good, Moved
<1>3. ASSUME NEW r \in v.requests, r.answer # Nothing
      PROVE  Moved(n, v, Polled!Shown(v, r), key, now)
  <2> DEFINE w == Polled!Shown(v, r)
  <2>1. /\ w \in PolledViews(K, D) /\ Sound(w, key, now, Order(n))
        /\ Forward(v, w, Order(n)) \/ w.shown = v.shown
        /\ Busy(w) <=> Busy(v)
    BY <1>1, <1>3, ShownStaysSound
  <2> QED BY <1>1, <2>1, SameForward DEF Good, Moved
<1>4. ASSUME NEW r \in v.requests, NEW k \in Nat
      PROVE  Moved(n, v, Polled!Failed(v, r, k), key, now)
  <2> DEFINE w == Polled!Failed(v, r, k)
  <2>1. /\ w \in PolledViews(K, D) /\ Sound(w, key, now, Order(n)) /\ w.shown = v.shown
        /\ Busy(w) <=> Busy(v)
    BY <1>1, FailedStaysSound
  <2> QED BY <1>1, <2>1, SameForward DEF Good, Moved
<1>5. ASSUME v.leftOver > 0
      PROVE  Moved(n, v, Polled!LeftOverEnds(v), key, now)
  <2> DEFINE w == Polled!LeftOverEnds(v)
  <2>1. /\ w \in PolledViews(K, D) /\ Polled!Live(w) = Polled!Live(v)
        /\ w.timer = v.timer /\ w.shown = v.shown
    BY <1>1, <1>5, LeftOverIsNothing
  <2> HIDE DEF w
  <2>2. Sound(w, key, now, Order(n)) /\ (Busy(w) <=> Busy(v))
    BY <1>1, <2>1 DEF Sound, ShownFits, Busy
  <2> QED BY <1>1, <2>1, <2>2, SameForward DEF Good, Moved, w
<1>6. ASSUME v.timer
      PROVE  Moved(n, v, Polled!Refreshed(v, key), key, now)
  <2> DEFINE w == Polled!Refreshed(v, key)
  <2>1. key \in K
    BY <1>1, <1>6 DEF Busy
  <2>2. /\ w \in PolledViews(K, D) /\ Sound(w, key, now, Order(n)) /\ w.shown = v.shown
        /\ Busy(w)
    BY <1>1, <1>6, <2>1, RefreshedStaysSound
  <2> QED BY <1>1, <2>1, <2>2, SameForward DEF Good, Moved
<1>7. ASSUME key \in K
      PROVE  Moved(n, v, Polled!Restarted(v, key), key, now)
  <2> DEFINE w == Polled!Restarted(v, key)
  <2>1. /\ w \in PolledViews(K, D) /\ Sound(w, key, now, Order(n)) /\ w.shown = v.shown
        /\ Busy(w)
    BY <1>1, <1>7, RestartedStaysSound DEF Sound
  <2> QED BY <1>1, <1>7, <2>1, SameForward DEF Good, Moved
<1> QED BY <1>2, <1>3, <1>4, <1>5, <1>6, <1>7

\* A part that is mounted anew, with nothing to show.
LEMMA RemountedIsGood ==
    ASSUME NEW n \in AllParts, NEW v \in PolledViews(RunKeys(n), RunData(n)), NEW key, NEW now,
           NEW chosen \in BOOLEAN, chosen <=> key \in RunKeys(n)
    PROVE  LET gone == [Polled!Abandoned(v) EXCEPT !.shown = Nothing]
               w == IF chosen THEN Polled!Asked(gone, key) ELSE gone
           IN  Moved(n, v, w, key, now)
<1> DEFINE K == RunKeys(n)
           D == RunData(n)
           gone == [Polled!Abandoned(v) EXCEPT !.shown = Nothing]
<1>1. Polled!Abandoned(v) \in PolledViews(K, D) /\ Quiet(Polled!Abandoned(v))
  BY AbandonedIsQuiet
<1>2. gone \in PolledViews(K, D) /\ gone.shown = Nothing /\ Quiet(gone)
  BY <1>1 DEF PolledViews, Quiet, Busy, Polled!Live
<1> HIDE DEF gone
<1>3. ShownFits(gone, key, now, Order(n))
  BY <1>2 DEF ShownFits
<1>4. CASE chosen
  <2>1. /\ Polled!Asked(gone, key) \in PolledViews(K, D)
        /\ Sound(Polled!Asked(gone, key), key, now, Order(n))
        /\ Polled!Asked(gone, key).shown = Nothing /\ Busy(Polled!Asked(gone, key))
    BY <1>2, <1>3, <1>4, AskedWhenQuiet
  <2> QED BY <1>4, <2>1 DEF Moved, Good, Forward, gone
<1>5. CASE ~chosen
  <2>1. Moved(n, v, gone, key, now)
    BY <1>2, <1>3, <1>5 DEF Moved, Good, Forward, Sound, Quiet, Busy
  <2> QED BY <1>5, <2>1 DEF gone
<1> QED BY <1>4, <1>5

LEMMA Unmoved ==
    ASSUME NEW n \in AllParts, NEW v, NEW key, NEW now, Good(n, v, key, now)
    PROVE  Moved(n, v, v, key, now)
BY SameForward DEF Good, Moved

LEMMA NothingChosen ==
    ASSUME NEW n \in AllParts, NEW v, NEW key, NEW now, Good(n, v, key, now), key \notin RunKeys(n)
    PROVE  v.shown = Nothing /\ Quiet(v)
<1> DEFINE K == RunKeys(n)
           D == RunData(n)
<1>1. v \in PolledViews(K, D) /\ Quiet(v) /\ Sound(v, key, now, Order(n))
  BY DEF Good, Quiet
<1>2. v.shown = Nothing
  <2>1. v.shown \in {Nothing} \cup Answers(K, D)
    BY <1>1 DEF PolledViews
  <2>2. v.shown # Nothing => v.shown.key = key
    BY <1>1 DEF Sound, ShownFits
  <2> QED BY <2>1, <2>2 DEF Answers
<1> QED BY <1>1, <1>2

-----------------------------------------------------------------------------
\* The steps of the page.
LEMMA OnePartMoves ==
    ASSUME NEW Names \in SUBSET AllParts, PageInv(Names), NEW n \in Names, NEW w,
           selectedRun' \in Runs \cup {None},
           compared' \in (Runs \cup {None}) \X (Runs \cup {None}),
           compared'[2] # None => compared'[1] # None,
           \A m \in Names \ {n} : Chosen(m)' = Chosen(m),
           views' = [views EXCEPT ![n] = w],
           Moved(n, views[n], w, Chosen(n)', DataAt(n, Chosen(n)')),
           UNCHANGED <<progress, runSubmission>>
    PROVE  PageInv(Names)' /\ Onward(Names)
<1>1. \A m \in Names : m # n => views'[m] = views[m]
  BY DEF PageInv
<1>2. views'[n] = w /\ views' = [m \in Names |-> views'[m]]
  BY DEF PageInv
<1>3. \A m \in Names : \A key : DataAt(m, key)' = DataAt(m, key)
  BY DEF DataAt
<1>4. \A m \in Names : Moved(m, views[m], views'[m], Chosen(m)', DataAt(m, Chosen(m)'))
  BY <1>1, <1>2, Unmoved DEF PageInv
<1> QED BY <1>2, <1>3, <1>4 DEF PageInv, Onward, Moved, DataAt

LEMMA RunsGoOn ==
    ASSUME NEW Names \in SUBSET AllParts, PageInv(Names),
           progress' \in [Runs -> Nat], \A r \in Runs : progress'[r] >= progress[r],
           runSubmission'.pc = "served" => runSubmission'.run \in Runs,
           UNCHANGED <<views, selectedRun, compared>>
    PROVE  PageInv(Names)' /\ Onward(Names)
<1>1. \A n \in Names : Chosen(n)' = Chosen(n)
  BY DEF Chosen
<1>2. ASSUME NEW n \in Names, Chosen(n) \in RunKeys(n)
      PROVE  <<DataAt(n, Chosen(n)), DataAt(n, Chosen(n))'>> \in Order(n)
  <2>1. CASE n = "list"
    BY <2>1 DEF DataAt, Order, RunData, PageInv
  <2>2. CASE n = "run"
    BY <1>2, <2>2 DEF DataAt, Order, RunData, RunKeys, Chosen, PageInv
  <2>3. CASE n = "comparison"
    BY <1>2, <2>3 DEF DataAt, Order, RunData, RunKeys, Chosen, PageInv
  <2> QED BY <2>1, <2>2, <2>3 DEF AllParts
<1>3. ASSUME NEW n \in Names
      PROVE  Moved(n, views[n], views[n], Chosen(n), DataAt(n, Chosen(n))')
  <2> DEFINE v == views[n]
             key == Chosen(n)
             later == DataAt(n, Chosen(n))'
  <2>1. Good(n, v, key, DataAt(n, key))
    BY DEF PageInv
  <2>2. CASE key \in RunKeys(n)
    <3>1. Sound(v, key, later, Order(n))
      BY <1>2, <2>1, <2>2, LaterStaysSound, OrderFacts DEF Good
    <3> QED BY <2>1, <3>1, Unmoved DEF Good
  <2>3. CASE key \notin RunKeys(n)
    <3>1. v.shown = Nothing /\ Quiet(v)
      BY <2>1, <2>3, NothingChosen
    <3>2. Sound(v, key, later, Order(n))
      BY <3>1 DEF Sound, ShownFits, Quiet, Busy
    <3> QED BY <2>1, <3>2, Unmoved DEF Good
  <2> QED BY <2>2, <2>3
<1> QED BY <1>1, <1>3 DEF PageInv, Onward, Moved

\* The answer to a submission.
LEMMA NewRunIsChosen ==
    ASSUME NEW Names \in SUBSET AllParts, PageInv(Names),
           selectedRun' \in Runs \cup {None},
           \A m \in Names \ {"run"} : Chosen(m)' = Chosen(m),
           views' = [n \in Names |-> views'[n]],
           \A n \in Names : Moved(n, views[n], views'[n], Chosen(n)', DataAt(n, Chosen(n)')),
           runSubmission'.pc # "served",
           UNCHANGED <<progress, compared>>
    PROVE  PageInv(Names)' /\ Onward(Names)
BY DEF PageInv, Onward, Moved, DataAt

\* The operators of a view are the same everywhere.
LEMMA SameViews ==
    ASSUME NEW P, NEW v
    PROVE  /\ \A r, a : OnPage(P)!ServedWith(v, r, a) = Polled!ServedWith(v, r, a)
           /\ \A r : OnPage(P)!Served(v, r) <=> r.answer # Nothing
           /\ OnPage(P)!Unserved(v) = {r \in v.requests : r.answer = Nothing}
           /\ \A r : OnPage(P)!Shown(v, r) = Polled!Shown(v, r)
           /\ \A r, k : OnPage(P)!Failed(v, r, k) = Polled!Failed(v, r, k)
           /\ OnPage(P)!LeftOverEnds(v) = Polled!LeftOverEnds(v)
           /\ \A n : OnPage(P)!StillOnTheirWay(v, n) \subseteq Nat
           /\ OnPage(P)!Abandoned(v) = Polled!Abandoned(v)
           /\ \A key : /\ OnPage(P)!Asked(v, key) = Polled!Asked(v, key)
                       /\ OnPage(P)!Refreshed(v, key) = Polled!Refreshed(v, key)
                       /\ OnPage(P)!Restarted(v, key) = Polled!Restarted(v, key)
           /\ \A b : OnPage(P)!PollsOneByOne(v, b) <=> Polled!PollsOneByOne(v, b)
BY DEF OnPage!ServedWith, Polled!ServedWith, OnPage!Served, OnPage!Unserved,
       OnPage!Shown, Polled!Shown, OnPage!Failed, Polled!Failed,
       OnPage!Abandoned, Polled!Abandoned, OnPage!Live, Polled!Live,
       OnPage!Asked, Polled!Asked, OnPage!Refreshed, Polled!Refreshed,
       OnPage!Restarted, Polled!Restarted, OnPage!LeftOverEnds, Polled!LeftOverEnds,
       OnPage!StillOnTheirWay, OnPage!PollsOneByOne, Polled!PollsOneByOne,
       OnPage!Cardinality, Polled!Cardinality

LEMMA HerePartMoves ==
    ASSUME NEW P \in SUBSET AllParts, PageInv(P), NEW n \in P, NEW w,
           views' = [views EXCEPT ![n] = w],
           Moved(n, views[n], w, Chosen(n), DataAt(n, Chosen(n))),
           UNCHANGED <<progress, selectedRun, compared, runSubmission>>
    PROVE  PageInv(P)' /\ Onward(P)
<1>1. \A m \in P : Chosen(m)' = Chosen(m)
  BY DEF Chosen
<1> QED BY <1>1, OnePartMoves DEF PageInv

LEMMA DataType ==
    ASSUME NEW P, PageInv(P), NEW n \in AllParts, NEW key \in RunKeys(n)
    PROVE  DataAt(n, key) \in RunData(n)
<1>1. progress \in [Runs -> Nat]
  BY DEF PageInv
<1>2. CASE n = "list"
  BY <1>1, <1>2 DEF RunKeys, RunData, DataAt
<1>3. CASE n = "run"
  BY <1>1, <1>3 DEF RunKeys, RunData, DataAt
<1>4. CASE n = "comparison"
  BY <1>1, <1>4 DEF RunKeys, RunData, DataAt
<1> QED BY <1>2, <1>3, <1>4 DEF AllParts

LEMMA MountedAnew ==
    ASSUME NEW P, NEW n \in AllParts, NEW v \in PolledViews(RunKeys(n), RunData(n)),
           NEW key, NEW now, NEW chosen \in BOOLEAN, chosen <=> key \in RunKeys(n)
    PROVE  Moved(n, v, OnPage(P)!Remounted(v, key, chosen), key, now)
<1> DEFINE gone == [Polled!Abandoned(v) EXCEPT !.shown = Nothing]
<1>1. OnPage(P)!Remounted(v, key, chosen) = IF chosen THEN Polled!Asked(gone, key) ELSE gone
  BY SameViews DEF OnPage!Remounted
<1> QED BY <1>1, RemountedIsGood

LEMMA PageStep ==
    ASSUME NEW P \in SUBSET AllParts, "list" \in P, PageInv(P), OnPage(P)!Next
    PROVE  PageInv(P)' /\ Onward(P)
<1> DEFINE Ok == PageInv(P)' /\ Onward(P)
<1>0. \A n \in P : n \in AllParts
  OBVIOUS
<1>a. \A n \in P : /\ Good(n, views[n], Chosen(n), DataAt(n, Chosen(n)))
                   /\ views[n] \in PolledViews(RunKeys(n), RunData(n))
  BY DEF PageInv, Good
<1>1. ASSUME NEW n \in P, NEW r \in views[n].requests, OnPage(P)!Serve(n, r) PROVE Ok
  <2> DEFINE a == [key |-> r.key, data |-> DataAt(n, r.key)]
  <2>1. r.answer = Nothing /\ views' = [views EXCEPT ![n] = Polled!ServedWith(views[n], r, a)]
    BY <1>1, SameViews DEF OnPage!Serve, OnPage!Answer, DataAt
  <2>2. r.key \in RunKeys(n)
    BY <1>a DEF PolledViews, Requests
  <2>3. a \in Answers(RunKeys(n), RunData(n))
    BY <1>0, <2>2, DataType DEF Answers
  <2>4. Moved(n, views[n], Polled!ServedWith(views[n], r, a), Chosen(n), DataAt(n, Chosen(n)))
    BY <1>0, <1>a, <2>1, <2>3, PartMoves
  <2> QED BY <1>1, <2>1, <2>4, HerePartMoves DEF OnPage!Serve
<1>2. ASSUME NEW n \in P, NEW r \in views[n].requests, OnPage(P)!Arrive(n, r) PROVE Ok
  <2>1. r.answer # Nothing /\ views' = [views EXCEPT ![n] = Polled!Shown(views[n], r)]
    BY <1>2, SameViews DEF OnPage!Arrive
  <2>2. Moved(n, views[n], Polled!Shown(views[n], r), Chosen(n), DataAt(n, Chosen(n)))
    BY <1>0, <1>a, <2>1, PartMoves
  <2> QED BY <1>2, <2>1, <2>2, HerePartMoves DEF OnPage!Arrive
<1>3. ASSUME NEW n \in P, NEW r \in views[n].requests, OnPage(P)!PollFails(n, r) PROVE Ok
  <2>1. PICK k \in OnPage(P)!StillOnTheirWay(views[n], OnPage(P)!Fetches(n)) :
            views' = [views EXCEPT ![n] = Polled!Failed(views[n], r, k)]
    <3>1. \A k : OnPage(P)!Failed(views[n], r, k) = Polled!Failed(views[n], r, k)
      BY SameViews
    <3> QED BY <1>3, <3>1 DEF OnPage!PollFails
  <2>2. k \in Nat
    BY SameViews
  <2>3. Moved(n, views[n], Polled!Failed(views[n], r, k), Chosen(n), DataAt(n, Chosen(n)))
    BY <1>0, <1>a, <2>2, PartMoves
  <2> QED BY <1>3, <2>1, <2>3, HerePartMoves DEF OnPage!PollFails
<1>b. ASSUME NEW n \in P, OnPage(P)!LateFetchEnds(n) PROVE Ok
  <2>1. /\ views[n].leftOver > 0
        /\ views' = [views EXCEPT ![n] = Polled!LeftOverEnds(views[n])]
    BY <1>b, SameViews DEF OnPage!LateFetchEnds
  <2>2. Moved(n, views[n], Polled!LeftOverEnds(views[n]), Chosen(n), DataAt(n, Chosen(n)))
    BY <1>0, <1>a, <2>1, PartMoves
  <2> QED BY <1>b, <2>1, <2>2, HerePartMoves DEF OnPage!LateFetchEnds
<1>4. ASSUME NEW n \in P, OnPage(P)!Refresh(n) PROVE Ok
  <2>1. views[n].timer /\ views' = [views EXCEPT ![n] = Polled!Refreshed(views[n], Chosen(n))]
    BY <1>4, SameViews DEF OnPage!Refresh, OnPage!Key, Chosen
  <2>2. Moved(n, views[n], Polled!Refreshed(views[n], Chosen(n)), Chosen(n), DataAt(n, Chosen(n)))
    BY <1>0, <1>a, <2>1, PartMoves
  <2> QED BY <1>4, <2>1, <2>2, HerePartMoves DEF OnPage!Refresh
<1>5. Chosen("list") = "all" /\ "all" \in RunKeys("list") /\ "list" \in AllParts
  BY DEF Chosen, RunKeys, AllParts
<1>6. Moved("list", views["list"], Polled!Restarted(views["list"], "all"), "all",
            DataAt("list", "all"))
  BY <1>5, <1>a, PartMoves
<1>7. CASE OnPage(P)!PressRefresh
  <2>1. views' = [views EXCEPT !["list"] = Polled!Restarted(views["list"], "all")]
    BY <1>7, SameViews DEF OnPage!PressRefresh
  <2> QED BY <1>5, <1>6, <1>7, <2>1, HerePartMoves DEF OnPage!PressRefresh
<1>8. ASSUME NEW r \in Runs \cup {None}, OnPage(P)!Select(r) PROVE Ok
  <2> DEFINE w == OnPage(P)!Remounted(views["run"], r, r # None)
  <2>1. /\ "run" \in P /\ selectedRun' = r /\ views' = [views EXCEPT !["run"] = w]
        /\ UNCHANGED <<progress, compared, runSubmission>>
    BY <1>8 DEF OnPage!Select
  <2>2. /\ Chosen("run")' = r /\ \A m \in P \ {"run"} : Chosen(m)' = Chosen(m)
        /\ r # None <=> r \in RunKeys("run")
    BY <1>8, <2>1, PageAssumption DEF Chosen, RunKeys
  <2>3. Moved("run", views["run"], w, r, DataAt("run", r))
    BY <1>0, <1>a, <2>1, <2>2, MountedAnew
  <2> HIDE DEF w
  <2> QED BY <2>1, <2>2, <2>3, OnePartMoves DEF PageInv
<1>9. ASSUME NEW b \in Runs \cup {None}, NEW c \in Runs \cup {None}, OnPage(P)!Compare(b, c)
      PROVE  Ok
  <2> DEFINE w == OnPage(P)!Remounted(views["comparison"], <<b, c>>, c # None)
  <2>1. /\ "comparison" \in P /\ compared' = <<b, c>> /\ (c # None => b # None)
        /\ views' = [views EXCEPT !["comparison"] = w]
        /\ UNCHANGED <<progress, selectedRun, runSubmission>>
    BY <1>9 DEF OnPage!Compare
  <2>2. /\ Chosen("comparison")' = <<b, c>>
        /\ \A m \in P \ {"comparison"} : Chosen(m)' = Chosen(m)
        /\ c # None <=> <<b, c>> \in RunKeys("comparison")
    BY <1>9, <2>1, PageAssumption DEF Chosen, RunKeys
  <2>3. Moved("comparison", views["comparison"], w, <<b, c>>, DataAt("comparison", <<b, c>>))
    BY <1>0, <1>a, <2>1, <2>2, MountedAnew
  <2> HIDE DEF w
  <2> QED BY <2>1, <2>2, <2>3, OnePartMoves DEF PageInv
<1>10. CASE OnPage(P)!Submit \/ OnPage(P)!SubmissionFails
  BY <1>10, RunsGoOn DEF OnPage!Submit, OnPage!SubmissionFails, OnPage!NoSubmission, PageInv
<1>11. ASSUME NEW r \in Runs, OnPage(P)!RunAdvances(r) \/ OnPage(P)!ServeSubmission(r) PROVE Ok
  <2>1. progress \in [Runs -> Nat]
    BY DEF PageInv
  <2>2. progress' \in [Runs -> Nat] /\ \A q \in Runs : progress'[q] >= progress[q]
    BY <1>11, <2>1 DEF OnPage!RunAdvances, OnPage!ServeSubmission
  <2>3. runSubmission'.pc = "served" => runSubmission'.run \in Runs
    BY <1>11 DEF OnPage!RunAdvances, OnPage!ServeSubmission, PageInv
  <2> QED BY <1>11, <2>2, <2>3, RunsGoOn DEF OnPage!RunAdvances, OnPage!ServeSubmission
<1>12. CASE OnPage(P)!Submitted
  <2> DEFINE q == runSubmission.run
  <2>1. /\ q \in Runs /\ runSubmission'.pc = "none"
        /\ selectedRun' = IF "run" \in P THEN q ELSE selectedRun
        /\ views' = [n \in P |->
             CASE n = "list" -> OnPage(P)!Restarted(views[n], "all")
               [] n = "run" /\ selectedRun # q -> OnPage(P)!Remounted(views[n], q, TRUE)
               [] OTHER -> views[n]]
        /\ UNCHANGED <<progress, compared>>
    BY <1>12 DEF OnPage!Submitted, OnPage!NoSubmission, PageInv
  <2>2. selectedRun' \in Runs \cup {None} /\ \A m \in P \ {"run"} : Chosen(m)' = Chosen(m)
    BY <2>1 DEF Chosen, PageInv
  <2>3. ASSUME NEW n \in P
        PROVE  Moved(n, views[n], views'[n], Chosen(n)', DataAt(n, Chosen(n)'))
    <3>1. CASE n = "list"
      <4>1. views'["list"] = Polled!Restarted(views["list"], "all")
        BY <2>1, SameViews
      <4> QED BY <1>5, <1>6, <2>1, <2>2, <3>1, <4>1 DEF DataAt
    <3>2. CASE n = "run" /\ selectedRun # q
      <4>1. Chosen("run")' = q /\ q \in RunKeys("run")
        BY <2>1, <3>2 DEF Chosen, RunKeys
      <4>2. views'["run"] = OnPage(P)!Remounted(views["run"], q, TRUE)
        BY <2>1, <3>2
      <4> QED BY <1>0, <1>a, <3>2, <4>1, <4>2, MountedAnew
    <3>3. CASE n # "list" /\ ~(n = "run" /\ selectedRun # q)
      <4>1. Chosen(n)' = Chosen(n) /\ views'[n] = views[n]
        BY <2>1, <2>2, <3>3 DEF Chosen
      <4> QED BY <1>0, <1>a, <4>1, Unmoved
    <3> QED BY <3>1, <3>2, <3>3
  <2>4. views' = [n \in P |-> views'[n]]
    BY <2>1
  <2> QED BY <2>1, <2>2, <2>3, <2>4, NewRunIsChosen
<1> QED
  BY <1>1, <1>2, <1>3, <1>b, <1>4, <1>7, <1>8, <1>9, <1>10, <1>11, <1>12
     DEF OnPage!Next, OnPage!UserActs

-----------------------------------------------------------------------------
\* The dashboard of jobs.
JobViews == [job: Jobs, status: SingleJob!Statuses, rev: Nat]
JobDetails == [of: JobViews, traces: Nat]
Loads == [job: Jobs, answer: {Nothing} \cup JobDetails]
Entries == [job: Jobs, status: SingleJob!Statuses]
JobLists == PolledViews(Filters, SUBSET Entries)

\* Nothing in the details is newer than the job.
UpToNow(d) == d.of.rev <= job[d.of.job].rev /\ d.traces <= job[d.of.job].rev

JobTypes ==
    /\ job \in [Jobs -> [status: SingleJob!Statuses, rev: Nat]]
    /\ filter \in Filters /\ selectedJob \in Jobs \cup {None}
    /\ effect \in [of: Jobs \cup {None}, jobs: BOOLEAN, version: BOOLEAN]
    /\ list \in JobLists
    /\ loads \in SUBSET Loads

\* The one load is of the job that was selected when the page was rendered last,
\* and brings no details that are older than those of an earlier load.
LoadFits(l) ==
    /\ l.job = effect.of
    /\ \A k \in loads : k = l
    /\ l.answer # Nothing =>
        /\ l.answer.of.job = l.job /\ ~SingleJob!Merged(l.answer) /\ UpToNow(l.answer)
        /\ details # Nothing /\ details.of.job = l.job /\ ~SingleJob!Merged(details)
            => l.answer.of.rev >= details.of.rev

DetailsFit == details # Nothing => details \in JobDetails /\ UpToNow(details)

PostsFit ==
    /\ jobSubmission.pc = "served" => jobSubmission.about \in JobViews
    /\ retry.pc \in {"posted", "served"} => retry.about \in JobDetails /\ UpToNow(retry.about)
    /\ retry.pc = "served" => SingleJob!Merged(retry.about)

JobPageInv ==
    /\ JobTypes /\ OneAwaited(list)
    /\ \A l \in loads : LoadFits(l)
    /\ DetailsFit /\ PostsFit

LEMMA AskedIsAwaited ==
    ASSUME NEW K, NEW D, NEW u \in PolledViews(K, D), Quiet(u), NEW key \in K
    PROVE  Polled!Asked(u, key) \in PolledViews(K, D) /\ OneAwaited(Polled!Asked(u, key))
<1> DEFINE a == [live |-> TRUE, key |-> key, answer |-> Nothing]
           w == Polled!Asked(u, key)
<1>1. a \in Requests(K, D)
  BY DEF Requests
<1>2. w \in PolledViews(K, D) /\ ~w.timer /\ w.requests = u.requests \cup {a}
  BY <1>1 DEF PolledViews, Polled!Asked, Quiet, Busy
<1>3. Polled!Live(w) = {a}
  BY <1>2 DEF Polled!Live, Quiet, Busy
<1> HIDE DEF w
<1>4. OneAwaited(w)
  BY <1>2, <1>3 DEF OneAwaited, Busy
<1> QED BY <1>2, <1>4 DEF w

LEMMA ListMoves ==
    ASSUME NEW K, NEW D, NEW v \in PolledViews(K, D), OneAwaited(v)
    PROVE  /\ \A r \in v.requests, a \in Answers(K, D) :
                /\ Polled!ServedWith(v, r, a) \in PolledViews(K, D)
                /\ OneAwaited(Polled!ServedWith(v, r, a))
           /\ \A r \in v.requests :
                /\ r.answer # Nothing => Polled!Shown(v, r) \in PolledViews(K, D)
                /\ OneAwaited(Polled!Shown(v, r))
                /\ \A k \in Nat : /\ Polled!Failed(v, r, k) \in PolledViews(K, D)
                                 /\ OneAwaited(Polled!Failed(v, r, k))
           /\ v.leftOver > 0 => /\ Polled!LeftOverEnds(v) \in PolledViews(K, D)
                                /\ OneAwaited(Polled!LeftOverEnds(v))
           /\ \A key \in K :
                /\ v.timer => /\ Polled!Refreshed(v, key) \in PolledViews(K, D)
                              /\ OneAwaited(Polled!Refreshed(v, key))
                /\ Polled!Restarted(v, key) \in PolledViews(K, D)
                /\ OneAwaited(Polled!Restarted(v, key))
<1>1. ASSUME NEW r \in v.requests, NEW a \in Answers(K, D)
      PROVE  /\ Polled!ServedWith(v, r, a) \in PolledViews(K, D)
             /\ OneAwaited(Polled!ServedWith(v, r, a))
  <2> DEFINE s == [r EXCEPT !.answer = a]
             w == Polled!ServedWith(v, r, a)
  <2>1. s \in Requests(K, D) /\ s.live = r.live
    BY DEF Requests, PolledViews
  <2>2. w \in PolledViews(K, D) /\ w.timer = v.timer /\ w.requests = (v.requests \ {r}) \cup {s}
    BY <2>1 DEF PolledViews, Polled!ServedWith
  <2> HIDE DEF s, w
  <2>3. \A x \in Polled!Live(w) : \/ (x = s /\ r \in Polled!Live(v))
                                 \/ (x \in Polled!Live(v) /\ x # r)
    BY <2>1, <2>2 DEF Polled!Live
  <2>4. Busy(w)
    BY <2>1, <2>2 DEF OneAwaited, Busy, Polled!Live
  <2>5. OneAwaited(w)
    BY <2>2, <2>3, <2>4 DEF OneAwaited
  <2> QED BY <2>2, <2>5 DEF w
<1>2. ASSUME NEW r \in v.requests
      PROVE  /\ r.answer # Nothing => Polled!Shown(v, r) \in PolledViews(K, D)
             /\ OneAwaited(Polled!Shown(v, r))
  <2> DEFINE w == Polled!Shown(v, r)
  <2>1. r.answer # Nothing => r.answer \in Answers(K, D)
    BY DEF PolledViews, Requests
  <2>2. /\ r.answer # Nothing => w \in PolledViews(K, D)
        /\ w.requests = v.requests \ {r} /\ (w.timer <=> v.timer \/ r.live)
    BY <2>1 DEF PolledViews, Polled!Shown
  <2> HIDE DEF w
  <2>3. OneAwaited(w)
    BY <2>2 DEF OneAwaited, Busy, Polled!Live
  <2> QED BY <2>2, <2>3 DEF w
<1>3. ASSUME NEW r \in v.requests, NEW k \in Nat
      PROVE  /\ Polled!Failed(v, r, k) \in PolledViews(K, D)
             /\ OneAwaited(Polled!Failed(v, r, k))
  <2> DEFINE w == Polled!Failed(v, r, k)
  <2> DEFINE m == v.leftOver + k
  <2>a. m \in Nat
    BY DEF PolledViews
  <2>b. w = IF r.live
            THEN [v EXCEPT !.requests = v.requests \ {r}, !.leftOver = m, !.timer = TRUE]
            ELSE [v EXCEPT !.requests = v.requests \ {r}]
    BY DEF PolledViews, Polled!Failed
  <2> HIDE DEF m, w
  <2>1. /\ w \in PolledViews(K, D)
        /\ w.requests = v.requests \ {r} /\ (w.timer <=> v.timer \/ r.live)
    BY <2>a, <2>b DEF PolledViews
  <2>2. OneAwaited(w)
    BY <2>1 DEF OneAwaited, Busy, Polled!Live
  <2> QED BY <2>1, <2>2 DEF w
<1>4. ASSUME v.timer
      PROVE  [v EXCEPT !.timer = FALSE] \in PolledViews(K, D) /\ Quiet([v EXCEPT !.timer = FALSE])
  BY <1>4 DEF PolledViews, Quiet, Busy, OneAwaited, Polled!Live
<1>5. ASSUME v.leftOver > 0
      PROVE  /\ Polled!LeftOverEnds(v) \in PolledViews(K, D)
             /\ OneAwaited(Polled!LeftOverEnds(v))
  BY <1>5, LeftOverIsNothing DEF OneAwaited, Busy
<1> QED BY <1>1, <1>2, <1>3, <1>4, <1>5, AskedIsAwaited, AbandonedIsQuiet
        DEF Polled!Refreshed, Polled!Restarted

LEMMA SameJobViews ==
    ASSUME NEW v
    PROVE  /\ \A r, a : SingleJob!ServedWith(v, r, a) = Polled!ServedWith(v, r, a)
           /\ \A r : SingleJob!Served(v, r) <=> r.answer # Nothing
           /\ \A r : SingleJob!Shown(v, r) = Polled!Shown(v, r)
           /\ \A r, k : SingleJob!Failed(v, r, k) = Polled!Failed(v, r, k)
           /\ SingleJob!LeftOverEnds(v) = Polled!LeftOverEnds(v)
           /\ \A n : SingleJob!StillOnTheirWay(v, n) \subseteq Nat
           /\ \A key : /\ SingleJob!Asked(v, key) = Polled!Asked(v, key)
                       /\ SingleJob!Refreshed(v, key) = Polled!Refreshed(v, key)
                       /\ SingleJob!Restarted(v, key) = Polled!Restarted(v, key)
           /\ \A b : SingleJob!PollsOneByOne(v, b) <=> Polled!PollsOneByOne(v, b)
BY DEF SingleJob!ServedWith, Polled!ServedWith, SingleJob!Served,
       SingleJob!Shown, Polled!Shown, SingleJob!Failed, Polled!Failed,
       SingleJob!Abandoned, Polled!Abandoned, SingleJob!Live, Polled!Live,
       SingleJob!Asked, Polled!Asked, SingleJob!Refreshed, Polled!Refreshed,
       SingleJob!Restarted, Polled!Restarted, SingleJob!LeftOverEnds, Polled!LeftOverEnds,
       SingleJob!StillOnTheirWay, SingleJob!PollsOneByOne, Polled!PollsOneByOne,
       SingleJob!Cardinality, Polled!Cardinality

\* Steps of the server: a job only gets newer.
LEMMA JobsGoOn ==
    ASSUME JobPageInv, job' \in [Jobs -> [status: SingleJob!Statuses, rev: Nat]],
           \A j \in Jobs : job'[j].rev >= job[j].rev,
           UNCHANGED <<list, filter, selectedJob, effect, details, loads>>, PostsFit'
    PROVE  JobPageInv' /\ SingleJob!InOrder
<1>1. ASSUME NEW d \in JobDetails, UpToNow(d)
      PROVE  d.of.rev <= job'[d.of.job].rev /\ d.traces <= job'[d.of.job].rev
  <2>1. /\ d.of.job \in Jobs /\ d.of.rev \in Nat /\ d.traces \in Nat
        /\ job[d.of.job].rev \in Nat /\ job'[d.of.job].rev \in Nat
    BY DEF JobDetails, JobViews, JobPageInv, JobTypes
  <2> QED BY <1>1, <2>1 DEF UpToNow
<1>2. DetailsFit'
  BY <1>1 DEF JobPageInv, DetailsFit, UpToNow
<1>3. \A l \in loads : l.answer # Nothing => l.answer \in JobDetails
  BY DEF JobPageInv, JobTypes, Loads
<1>4. (\A l \in loads : LoadFits(l))'
  BY <1>1, <1>3 DEF JobPageInv, LoadFits, UpToNow, SingleJob!Merged
<1>5. JobTypes' /\ OneAwaited(list)'
  BY DEF JobPageInv, JobTypes, OneAwaited, Busy
<1> QED BY <1>2, <1>4, <1>5 DEF JobPageInv, SingleJob!InOrder

\* Steps of the list alone.
LEMMA ListGoesOn ==
    ASSUME JobPageInv, NEW w \in JobLists, OneAwaited(w), list' = w,
           effect' = effect \/ effect' = [effect EXCEPT !.jobs = TRUE],
           UNCHANGED <<job, filter, selectedJob, details, loads, jobSubmission, retry>>
    PROVE  JobPageInv' /\ SingleJob!InOrder
<1>1. JobTypes' /\ OneAwaited(list)' /\ effect'.of = effect.of
  BY DEF JobPageInv, JobTypes, OneAwaited, Busy
<1>2. (\A l \in loads : LoadFits(l))' /\ DetailsFit' /\ PostsFit'
  BY <1>1 DEF JobPageInv, LoadFits, UpToNow, DetailsFit, PostsFit
<1> QED BY <1>1, <1>2 DEF JobPageInv, SingleJob!InOrder

LEMMA ReloadedLoads ==
    ASSUME NEW j \in Jobs \cup {None}
    PROVE  /\ SingleJob!Reloaded(j) \in SUBSET Loads
           /\ \A l \in SingleJob!Reloaded(j) :
                /\ l.job = j /\ l.answer = Nothing
                /\ \A k \in SingleJob!Reloaded(j) : k = l
BY DEF SingleJob!Reloaded, Loads

\* The effects run, after a choice or because what an answer set is rendered.
LEMMA EffectsAreRun ==
    ASSUME JobPageInv, SingleJob!EffectsRun, job' = job, details' = details,
           filter' \in Filters, selectedJob' \in Jobs \cup {None}, PostsFit'
    PROVE  JobPageInv' /\ SingleJob!InOrder
<1>1. /\ list' = IF effect.version \/ filter' # filter
                 THEN Polled!Restarted(list, filter') ELSE list
      /\ loads' = IF effect.jobs \/ selectedJob' # effect.of
                  THEN SingleJob!Reloaded(selectedJob') ELSE loads
      /\ effect' = [of |-> selectedJob', jobs |-> FALSE, version |-> FALSE]
  BY SameJobViews DEF SingleJob!EffectsRun, SingleJob!UpToDate
<1>2. list' \in JobLists /\ OneAwaited(list')
  BY <1>1, ListMoves DEF JobPageInv, JobTypes, JobLists
<1>3. /\ loads' \in SUBSET Loads /\ effect'.of = selectedJob'
      /\ \/ loads' = loads /\ effect'.of = effect.of
         \/ \A l \in loads' : /\ l.job = effect'.of /\ l.answer = Nothing
                              /\ \A k \in loads' : k = l
  BY <1>1, ReloadedLoads DEF JobPageInv, JobTypes
<1>4. JobTypes' /\ OneAwaited(list)'
  BY <1>1, <1>2, <1>3 DEF JobPageInv, JobTypes, OneAwaited, Busy
<1>5. (\A l \in loads : LoadFits(l))' /\ DetailsFit'
  BY <1>3 DEF JobPageInv, LoadFits, DetailsFit, UpToNow
<1> QED BY <1>4, <1>5 DEF JobPageInv, SingleJob!InOrder

\* The answer to a POST: the details are put away, or are those that a retry
\* answered, while the load of the job before goes on.
LEMMA AnswerIsSet ==
    ASSUME JobPageInv, NEW shown, NEW j \in Jobs, SingleJob!Answered(shown, j),
           \/ shown = Nothing
           \/ shown = retry.about /\ retry.pc = "served" /\ retry.about.of.job = j,
           PostsFit'
    PROVE  JobPageInv' /\ SingleJob!InOrder
<1>1. /\ UNCHANGED <<job, filter, list, loads>> /\ details' = shown /\ selectedJob' = j
      /\ effect' = [effect EXCEPT !.version = TRUE]
  BY DEF SingleJob!Answered, SingleJob!server
<1>2. JobTypes' /\ OneAwaited(list)' /\ effect'.of = effect.of
  BY <1>1 DEF JobPageInv, JobTypes, OneAwaited, Busy
<1>3. DetailsFit' /\ (details' = Nothing \/ SingleJob!Merged(details'))
  BY <1>1 DEF JobPageInv, DetailsFit, PostsFit, UpToNow, SingleJob!Merged
<1>4. (\A l \in loads : LoadFits(l))'
  BY <1>1, <1>2, <1>3 DEF JobPageInv, LoadFits, UpToNow, SingleJob!Merged
<1>5. SingleJob!InOrder
  BY <1>1, <1>3 DEF SingleJob!InOrder, SingleJob!Merged
<1> QED BY <1>2, <1>3, <1>4, <1>5 DEF JobPageInv

LEMMA LoadsGoOn ==
    ASSUME JobPageInv, NEW l \in loads,
           SingleJob!ServeLoad(l) \/ SingleJob!LoadArrives(l) \/ SingleJob!LoadFails(l)
    PROVE  JobPageInv' /\ SingleJob!InOrder
<1>1. /\ JobTypes /\ l \in Loads /\ (l.answer # Nothing => l.answer \in JobDetails)
      /\ l.job \in Jobs /\ LoadFits(l) /\ \A k \in loads : k = l
  BY DEF JobPageInv, JobTypes, Loads, LoadFits
<1>2. /\ UNCHANGED <<job, list, filter, selectedJob, effect, jobSubmission, retry>>
      /\ OneAwaited(list)' /\ PostsFit'
  BY DEF SingleJob!ServeLoad, SingleJob!LoadArrives, SingleJob!LoadFails, SingleJob!server,
         SingleJob!choices, SingleJob!posts, JobPageInv, OneAwaited, Busy, PostsFit, UpToNow
<1>3. CASE SingleJob!ServeLoad(l)
  <2> DEFINE d == SingleJob!Details(SingleJob!View(l.job), job[l.job].rev)
             m == [l EXCEPT !.answer = d]
  <2>1. /\ d \in JobDetails /\ d.of.job = l.job /\ d.of.rev = job[l.job].rev
        /\ ~SingleJob!Merged(d) /\ UpToNow(d)
    BY <1>1 DEF JobTypes, SingleJob!Details, SingleJob!View, JobDetails, JobViews,
                SingleJob!Merged, UpToNow
  <2>2. m \in Loads /\ m.job = l.job /\ m.answer = d
    BY <1>1, <2>1 DEF Loads
  <2>3. loads' = {m} /\ details' = details
    BY <1>1, <1>3 DEF SingleJob!ServeLoad
  <2> HIDE DEF d, m
  <2>4. JobTypes' /\ DetailsFit'
    BY <1>1, <1>2, <2>2, <2>3 DEF JobPageInv, JobTypes, DetailsFit, UpToNow
  <2>5. details # Nothing /\ details.of.job = l.job => d.of.rev >= details.of.rev
    BY <1>1, <2>1 DEF JobPageInv, DetailsFit, UpToNow, JobDetails, JobViews, JobTypes
  <2>6. ASSUME NEW k \in loads' PROVE LoadFits(k)'
    BY <1>1, <1>2, <2>1, <2>2, <2>3, <2>5 DEF LoadFits, UpToNow
  <2> QED BY <1>2, <2>3, <2>4, <2>6 DEF JobPageInv, SingleJob!InOrder
<1>4. CASE SingleJob!LoadArrives(l)
  <2>1. loads' = {} /\ details' = l.answer /\ l.answer # Nothing
    BY <1>1, <1>4 DEF SingleJob!LoadArrives
  <2>2. JobTypes' /\ DetailsFit'
    BY <1>1, <1>2, <2>1 DEF JobTypes, DetailsFit, LoadFits, UpToNow
  <2>3. SingleJob!InOrder
    BY <1>1, <1>2, <2>1 DEF SingleJob!InOrder, SingleJob!Merged, LoadFits
  <2> QED BY <1>2, <2>1, <2>2, <2>3 DEF JobPageInv
<1>5. CASE SingleJob!LoadFails(l)
  <2>1. loads' = {} /\ details' = details
    BY <1>1, <1>5 DEF SingleJob!LoadFails
  <2>2. JobTypes' /\ DetailsFit'
    BY <1>1, <1>2, <2>1 DEF JobPageInv, JobTypes, DetailsFit, UpToNow
  <2> QED BY <1>2, <2>1, <2>2 DEF JobPageInv, SingleJob!InOrder
<1> QED BY <1>3, <1>4, <1>5

LEMMA JobPageStep ==
    ASSUME JobPageInv, SingleJob!Next
    PROVE  JobPageInv' /\ SingleJob!InOrder
<1> DEFINE Ok == JobPageInv' /\ SingleJob!InOrder
<1> USE DEF SingleJob!server, SingleJob!choices, SingleJob!posts
<1>1. /\ JobTypes /\ list \in JobLists /\ OneAwaited(list) /\ PostsFit
      /\ DOMAIN job = Jobs
  BY DEF JobPageInv, JobTypes
<1>3. ASSUME SingleJob!RefreshList PROVE Ok
  <2>1. list.timer /\ list' = Polled!Refreshed(list, filter) /\ filter \in Filters
    BY <1>1, <1>3, SameJobViews DEF SingleJob!RefreshList, JobTypes
  <2>2. list' \in JobLists /\ OneAwaited(Polled!Refreshed(list, filter))
    BY <1>1, <2>1, ListMoves DEF JobLists
  <2> QED BY <1>1, <1>3, <2>1, <2>2, ListGoesOn DEF SingleJob!RefreshList, JobTypes
<1>4. ASSUME SingleJob!ChooseFilter \/ SingleJob!Submit \/ SingleJob!Render PROVE Ok
  <2>1. /\ filter' \in Filters /\ selectedJob' \in Jobs \cup {None}
        /\ SingleJob!EffectsRun /\ job' = job /\ details' = details
    BY <1>1, <1>4 DEF SingleJob!ChooseFilter, SingleJob!Submit, SingleJob!Render, JobTypes
  <2>2. PostsFit'
    BY <1>1, <1>4 DEF SingleJob!ChooseFilter, SingleJob!Submit, SingleJob!Render, PostsFit,
                      UpToNow
  <2> QED BY <2>1, <2>2, EffectsAreRun
<1>5. ASSUME NEW r \in list.requests, SingleJob!ServeList(r) PROVE Ok
  <2> DEFINE data == {[job |-> j, status |-> job[j].status] : j \in {i \in Jobs :
                        job[i].rev > 0 /\ r.key \in {"all", job[i].status}}}
             a == [key |-> r.key, data |-> data]
  <2>1. list' = Polled!ServedWith(list, r, a)
    BY <1>5, SameJobViews DEF SingleJob!ServeList
  <2>2. data \in SUBSET Entries
    BY <1>1 DEF JobTypes, Entries
  <2>3. a \in Answers(Filters, SUBSET Entries)
    BY <1>1, <2>2 DEF Answers, JobLists, PolledViews, Requests
  <2> HIDE DEF a
  <2>4. list' \in JobLists /\ OneAwaited(Polled!ServedWith(list, r, a))
    BY <1>1, <2>1, <2>3, ListMoves DEF JobLists
  <2> QED BY <1>1, <1>5, <2>1, <2>4, ListGoesOn DEF SingleJob!ServeList, JobTypes
<1>6. ASSUME NEW r \in list.requests, SingleJob!ListFails(r) PROVE Ok
  <2>1. PICK k \in SingleJob!StillOnTheirWay(list, 2) : list' = Polled!Failed(list, r, k)
    BY <1>6, SameJobViews DEF SingleJob!ListFails
  <2>2. k \in Nat
    BY SameJobViews
  <2>3. list' \in JobLists /\ OneAwaited(Polled!Failed(list, r, k))
    BY <1>1, <2>1, <2>2, ListMoves DEF JobLists
  <2> QED BY <1>1, <1>6, <2>1, <2>3, ListGoesOn DEF SingleJob!ListFails, JobTypes
<1>2. ASSUME SingleJob!LateFetchEnds PROVE Ok
  <2>1. list.leftOver > 0 /\ list' = Polled!LeftOverEnds(list)
    BY <1>2, SameJobViews DEF SingleJob!LateFetchEnds
  <2>2. list' \in JobLists /\ OneAwaited(Polled!LeftOverEnds(list))
    BY <1>1, <2>1, ListMoves DEF JobLists
  <2> QED BY <1>1, <1>2, <2>1, <2>2, ListGoesOn DEF SingleJob!LateFetchEnds, JobTypes
<1>7. ASSUME NEW r \in list.requests, SingleJob!ListArrives(r) PROVE Ok
  <2>1. r.answer # Nothing /\ list' = Polled!Shown(list, r)
    BY <1>7, SameJobViews DEF SingleJob!ListArrives
  <2>2. list' \in JobLists /\ OneAwaited(Polled!Shown(list, r))
    BY <1>1, <2>1, ListMoves DEF JobLists
  <2> QED BY <1>1, <1>7, <2>1, <2>2, ListGoesOn DEF SingleJob!ListArrives
<1>8. ASSUME NEW l \in loads,
             SingleJob!ServeLoad(l) \/ SingleJob!LoadArrives(l) \/ SingleJob!LoadFails(l)
      PROVE  Ok
  BY <1>8, LoadsGoOn
<1>9. ASSUME NEW v \in SingleJob!Listed, SingleJob!Select(v) PROVE Ok
  <2>1. v.job \in Jobs
    BY <1>1 DEF SingleJob!Listed, JobLists, PolledViews, Answers, Entries
  <2>2. PostsFit'
    BY <1>1, <1>9 DEF SingleJob!Select, PostsFit, UpToNow
  <2> QED BY <1>1, <1>9, <2>1, <2>2, EffectsAreRun DEF SingleJob!Select, JobTypes
<1>10. ASSUME SingleJob!SubmissionFails \/ SingleJob!RetryFails PROVE Ok
  <2>1. PostsFit'
    BY <1>1, <1>10 DEF SingleJob!SubmissionFails, SingleJob!RetryFails, SingleJob!NoPost,
                       PostsFit, UpToNow
  <2> QED BY <1>1, <1>10, <2>1, JobsGoOn DEF SingleJob!SubmissionFails, SingleJob!RetryFails,
             JobTypes
<1>11. ASSUME SingleJob!PressRetry PROVE Ok
  <2>1. PostsFit'
    BY <1>1, <1>11 DEF SingleJob!PressRetry, PostsFit, UpToNow, JobPageInv, DetailsFit
  <2> QED BY <1>1, <1>11, <2>1, JobsGoOn DEF SingleJob!PressRetry, JobTypes
<1>12. ASSUME SingleJob!Submitted PROVE Ok
  <2> DEFINE j == jobSubmission.about.job
  <2>1. /\ j \in Jobs /\ SingleJob!Answered(Nothing, j) /\ UNCHANGED <<job, retry>>
        /\ jobSubmission' = SingleJob!NoPost
    BY <1>1, <1>12 DEF SingleJob!Submitted, SingleJob!Answered, PostsFit, JobViews
  <2>2. PostsFit'
    BY <1>1, <2>1 DEF PostsFit, UpToNow, SingleJob!NoPost
  <2> QED BY <2>1, <2>2, AnswerIsSet
<1>13. ASSUME SingleJob!Retried PROVE Ok
  <2> DEFINE j == retry.about.of.job
  <2>1. /\ j \in Jobs /\ retry.pc = "served" /\ SingleJob!Answered(retry.about, j)
        /\ UNCHANGED <<job, jobSubmission>> /\ retry' = SingleJob!NoPost
    BY <1>1, <1>13 DEF SingleJob!Retried, SingleJob!Answered, PostsFit, JobDetails, JobViews
  <2>2. PostsFit'
    BY <1>1, <2>1 DEF PostsFit, UpToNow, SingleJob!NoPost
  <2> QED BY <2>1, <2>2, AnswerIsSet
<1>14. ASSUME NEW j \in Jobs, SingleJob!JobMoves(j) PROVE Ok
  <2>1. /\ job' \in [Jobs -> [status: SingleJob!Statuses, rev: Nat]]
        /\ \A i \in Jobs : job'[i].rev >= job[i].rev
    BY <1>1, <1>14 DEF SingleJob!JobMoves, JobTypes
  <2>2. PostsFit'
    <3>1. retry.about \in JobDetails /\ UpToNow(retry.about) => UpToNow(retry.about)'
      BY <1>1, <1>14, <2>1 DEF UpToNow, JobDetails, JobViews, JobTypes, SingleJob!JobMoves
    <3> QED BY <1>1, <1>14, <3>1 DEF PostsFit, SingleJob!JobMoves, SingleJob!Merged
  <2> QED BY <1>14, <2>1, <2>2, JobsGoOn DEF SingleJob!JobMoves
<1>15. ASSUME NEW j \in Jobs, SingleJob!ServeSubmission(j) PROVE Ok
  <2>1. /\ job' \in [Jobs -> [status: SingleJob!Statuses, rev: Nat]]
        /\ \A i \in Jobs : job'[i].rev >= job[i].rev
    BY <1>1, <1>15 DEF SingleJob!ServeSubmission, JobTypes
  <2>2. PostsFit'
    <3>1. retry.about \in JobDetails /\ UpToNow(retry.about) => UpToNow(retry.about)'
      BY <1>1, <1>15, <2>1 DEF UpToNow, JobDetails, JobViews, JobTypes, SingleJob!ServeSubmission
    <3>2. SingleJob!View(j)' \in JobViews
      BY <2>1 DEF SingleJob!View, JobViews
    <3> QED BY <1>1, <1>15, <3>1, <3>2 DEF PostsFit, SingleJob!ServeSubmission, SingleJob!Merged
  <2> QED BY <1>15, <2>1, <2>2, JobsGoOn DEF SingleJob!ServeSubmission
<1>16. ASSUME NEW j \in Jobs, SingleJob!ServeRetry(j) PROVE Ok
  <2> DEFINE v == SingleJob!View(j)'
             d == SingleJob!Details(v, retry.about.traces)
  <2>1. /\ job' \in [Jobs -> [status: SingleJob!Statuses, rev: Nat]]
        /\ \A i \in Jobs : job'[i].rev >= job[i].rev
        /\ job'[j].rev = job[j].rev + 1 /\ job[j].rev \in Nat
    BY <1>1, <1>16 DEF SingleJob!ServeRetry, JobTypes, SingleJob!Statuses
  <2>2. /\ retry.about \in JobDetails /\ UpToNow(retry.about) /\ retry.about.of.job = j
        /\ retry'.about = d /\ retry'.pc = "served" /\ jobSubmission' = jobSubmission
    BY <1>1, <1>16 DEF SingleJob!ServeRetry, PostsFit
  <2>3. v \in JobViews /\ v.job = j /\ v.rev = job[j].rev + 1
    BY <2>1 DEF SingleJob!View, JobViews
  <2>4. retry.about.traces \in Nat /\ retry.about.traces <= job[j].rev
    BY <2>2 DEF JobDetails, UpToNow
  <2> HIDE DEF v
  <2>5. /\ d \in JobDetails /\ d.of = v /\ d.traces = retry.about.traces
    BY <2>3, <2>4 DEF SingleJob!Details, JobDetails
  <2> HIDE DEF d
  <2>6. PostsFit'
    BY <1>1, <2>1, <2>2, <2>3, <2>4, <2>5 DEF PostsFit, UpToNow, SingleJob!Merged
  <2> QED BY <1>16, <2>1, <2>6, JobsGoOn DEF SingleJob!ServeRetry
<1> QED
  BY <1>2, <1>3, <1>4, <1>5, <1>6, <1>7, <1>8, <1>9, <1>10, <1>11, <1>12, <1>13, <1>14, <1>15, <1>16
     DEF SingleJob!Next, SingleJob!UserActs

-----------------------------------------------------------------------------
\* The page.
Inv ==
    /\ view = "selection" => PageInv(Selection)
    /\ view = "comparison" => PageInv(Comparison)
    /\ view = "jobs" => JobPageInv

LEMMA FreshPart ==
    ASSUME NEW n \in AllParts, NEW key, NEW now,
           n = "list" => key = "all", n # "list" => key \notin RunKeys(n)
    PROVE  Good(n, IF n = "list" THEN Polled!Asked(Polled!Idle, "all") ELSE Polled!Idle, key, now)
<1> DEFINE idle == Polled!Idle
<1>1. idle \in PolledViews(RunKeys(n), RunData(n)) /\ Quiet(idle) /\ idle.shown = Nothing
  BY DEF Polled!Idle, PolledViews, Quiet, Busy, Polled!Live
<1>2. ShownFits(idle, key, now, Order(n))
  BY <1>1 DEF ShownFits
<1> HIDE DEF idle
<1>3. CASE n = "list"
  <2>1. "all" \in RunKeys(n)
    BY <1>3 DEF RunKeys
  <2>2. /\ Polled!Asked(idle, "all") \in PolledViews(RunKeys(n), RunData(n))
        /\ Sound(Polled!Asked(idle, "all"), "all", now, Order(n))
        /\ Busy(Polled!Asked(idle, "all"))
    BY <1>1, <1>2, <1>3, <2>1, AskedWhenQuiet
  <2> QED BY <1>3, <2>1, <2>2 DEF Good, idle
<1>4. CASE n # "list"
  <2>1. Good(n, idle, key, now)
    BY <1>1, <1>2, <1>4 DEF Good, Sound, Quiet, Busy
  <2> QED BY <1>4, <2>1 DEF idle
<1> QED BY <1>3, <1>4

LEMMA FreshPage ==
    ASSUME NEW P \in SUBSET AllParts
    PROVE  /\ OnPage(P)!Init => PageInv(P)
           /\ OnPage(P)!Mount => PageInv(P)'
<1>1. OnPage(P)!Asked(OnPage(P)!Idle, "all") = Polled!Asked(Polled!Idle, "all")
  BY DEF OnPage!Asked, OnPage!Idle, Polled!Asked, Polled!Idle
<1>2. OnPage(P)!Idle = Polled!Idle
  BY DEF OnPage!Idle, Polled!Idle
<1>3. [Runs -> {0, 1}] \subseteq [Runs -> Nat]
  OBVIOUS
<1>4. Chosen("list") = "all" /\ Chosen("list")' = "all"
  BY DEF Chosen
<1>5. ASSUME OnPage(P)!Init PROVE PageInv(P)
  <2>a. \A n \in P : n # "list" => Chosen(n) \notin RunKeys(n)
    BY <1>5, PageAssumption DEF OnPage!Init, Chosen, RunKeys, AllParts
  <2>1. \A n \in P : Good(n, views[n], Chosen(n), DataAt(n, Chosen(n)))
    BY <1>1, <1>2, <1>4, <1>5, <2>a, FreshPart DEF OnPage!Init
  <2> QED BY <1>3, <1>5, <2>1 DEF OnPage!Init, OnPage!NoSubmission, PageInv
<1>6. ASSUME OnPage(P)!Mount PROVE PageInv(P)'
  <2>a. \A n \in P : n # "list" => Chosen(n)' \notin RunKeys(n)
    BY <1>6, PageAssumption DEF OnPage!Mount, Chosen, RunKeys, AllParts
  <2>1. \A n \in P : Good(n, views'[n], Chosen(n)', DataAt(n, Chosen(n))')
    BY <1>1, <1>2, <1>4, <1>6, <2>a, FreshPart DEF OnPage!Mount
  <2> QED BY <1>3, <1>6, <2>1 DEF OnPage!Mount, OnPage!NoSubmission, PageInv
<1> QED BY <1>5, <1>6

LEMMA FreshJobPage == SingleJob!Mount => JobPageInv'
<1> SUFFICES ASSUME SingleJob!Mount PROVE JobPageInv'
  OBVIOUS
<1> DEFINE idle == Polled!Idle
<1>1. idle \in JobLists /\ Quiet(idle)
  BY DEF Polled!Idle, JobLists, PolledViews, Quiet, Busy, Polled!Live
<1>2. list' = Polled!Asked(idle, "all") /\ "all" \in Filters
  BY PageAssumption DEF SingleJob!Mount, SingleJob!Asked, SingleJob!Idle, Polled!Asked, Polled!Idle
<1>3. list' \in JobLists /\ OneAwaited(Polled!Asked(idle, "all"))
  BY <1>1, <1>2, AskedIsAwaited DEF JobLists
<1>4. JobTypes'
  BY <1>2, <1>3 DEF SingleJob!Mount, SingleJob!NotYet, SingleJob!Statuses, SingleJob!UpToDate,
                    JobTypes
<1> QED BY <1>2, <1>3, <1>4
        DEF SingleJob!Mount, SingleJob!NoPost, JobPageInv, DetailsFit, PostsFit, OneAwaited, Busy

LEMMA PageParts ==
    /\ Selection \in SUBSET AllParts /\ "list" \in Selection
    /\ Comparison \in SUBSET AllParts /\ "list" \in Comparison
BY DEF Selection, Comparison, AllParts

LEMMA PageStart == Init => Inv
BY FreshPage, PageParts DEF Init, Inv

LEMMA InvStep ==
    ASSUME Inv, [Next]_vars
    PROVE  /\ Inv'
           /\ view = "selection" /\ view' = view => Onward(Selection)
           /\ view = "comparison" /\ view' = view => Onward(Comparison)
           /\ view = "jobs" /\ view' = view => SingleJob!InOrder
<1>1. CASE Leave
  BY <1>1 DEF Leave, Inv
<1>2. CASE \E v \in Views : Enter(v)
  BY <1>2, FreshPage, FreshJobPage, PageParts DEF Enter, Views, Inv
<1>3. CASE view = "selection" /\ OnPage(Selection)!Next /\ UNCHANGED <<view, onJobs>>
  BY <1>3, PageStep, PageParts DEF Inv
<1>4. CASE view = "comparison" /\ OnPage(Comparison)!Next /\ UNCHANGED <<view, onJobs>>
  BY <1>4, PageStep, PageParts DEF Inv
<1>5. CASE view = "jobs" /\ SingleJob!Next /\ UNCHANGED <<view, onRuns>>
  BY <1>5, JobPageStep DEF Inv
<1>6. CASE UNCHANGED vars
  <2>1. ASSUME NEW P \in SUBSET AllParts, PageInv(P) PROVE PageInv(P)' /\ Onward(P)
    BY <1>6, <2>1, RunsGoOn DEF vars, PageInv
  <2>2. JobPageInv => JobPageInv' /\ SingleJob!InOrder
    BY <1>6 DEF vars, JobPageInv, JobTypes, OneAwaited, Busy, LoadFits, DetailsFit, PostsFit, UpToNow,
                SingleJob!InOrder
  <2> QED BY <1>6, <2>1, <2>2, PageParts DEF vars, Inv
<1> QED BY <1>1, <1>2, <1>3, <1>4, <1>5, <1>6 DEF Next

LEMMA PageInvariant == Spec => []Inv
<1>1. Inv /\ [Next]_vars => Inv'
  BY InvStep
<1> QED BY <1>1, PageStart, PTL DEF Spec

\* Each part of the page that is in place waits for exactly one poll or its timer,
\* and the details for one load at most, of the job rendered last, however
\* selections, filters, timers, failures of one fetch of a poll and answers to POSTs
\* interleave and however often the dashboards replace each other (the effects of
\* RunsDashboard.tsx and App.tsx).
THEOREM OneAnswerStaysAwaited == Spec => []OneAnswerAwaited
<1>1. ASSUME NEW P \in SUBSET AllParts, PageInv(P) PROVE OnPage(P)!EachIsPolled
  <2> SUFFICES ASSUME NEW n \in P
               PROVE  OnPage(P)!PollsOneByOne(views[n],
                          CASE n = "list" -> TRUE
                            [] n = "run" -> selectedRun # None
                            [] n = "comparison" -> compared[2] # None)
    BY DEF OnPage!EachIsPolled
  <2> DEFINE inPlace == CASE n = "list" -> TRUE
                          [] n = "run" -> selectedRun # None
                          [] n = "comparison" -> compared[2] # None
  <2>1. /\ \A r, s \in Polled!Live(views[n]) : r = s
        /\ views[n].timer => Polled!Live(views[n]) = {}
        /\ Busy(views[n]) <=> Chosen(n) \in RunKeys(n)
    BY <1>1 DEF PageInv, Good, Sound
  <2>2. CASE n = "list"
    BY <2>1, <2>2, OneByOne, SameViews DEF Chosen, RunKeys
  <2>3. CASE n = "run"
    <3>1. Busy(views[n]) <=> selectedRun # None
      BY <1>1, <2>1, <2>3, PageAssumption DEF Chosen, RunKeys, PageInv
    <3> QED BY <2>1, <2>3, <3>1, OneByOne, SameViews
  <2>4. CASE n = "comparison"
    <3>1. compared = <<compared[1], compared[2]>> /\ compared[1] \in Runs \cup {None}
          /\ compared[2] \in Runs \cup {None} /\ (compared[2] # None => compared[1] # None)
      BY <1>1 DEF PageInv
    <3>2. Busy(views[n]) <=> compared[2] # None
      BY <2>1, <2>4, <3>1, PageAssumption DEF Chosen, RunKeys
    <3> QED BY <2>1, <2>4, <3>2, OneByOne, SameViews
  <2> QED BY <2>2, <2>3, <2>4 DEF AllParts
<1>2. ASSUME JobPageInv PROVE SingleJob!PollsOneByOne(list, TRUE) /\ SingleJob!OneLoadCounts
  <2>1. SingleJob!PollsOneByOne(list, TRUE)
    BY <1>2, OneByOne, SameJobViews DEF JobPageInv, OneAwaited
  <2>2. \A k, l \in loads : k = l
    BY <1>2 DEF JobPageInv, LoadFits
  <2>3. Cardinality(loads) <= 1 /\ Cardinality(loads) = SingleJob!Cardinality(loads)
    BY <2>2, AtMostOne DEF Cardinality, SingleJob!Cardinality
  <2> QED BY <1>2, <2>1, <2>3 DEF SingleJob!OneLoadCounts, JobPageInv, LoadFits
<1>3. Inv => OneAnswerAwaited
  BY <1>1, <1>2, PageParts DEF Inv, OneAnswerAwaited, EachIsPolled, OneLoadCounts
<1> QED BY <1>3, PageInvariant, PTL

\* What is shown of runs is always of what is chosen, however late the answers
\* to earlier choices come.
THEOREM OnlyTheChosenStaysShown == Spec => []OnlyTheChosenIsShown
<1>1. ASSUME NEW P \in SUBSET AllParts, PageInv(P) PROVE OnPage(P)!OnlyTheChosenIsShown
  BY <1>1 DEF PageInv, Good, Sound, ShownFits, Chosen, OnPage!OnlyTheChosenIsShown, OnPage!Key
<1>2. Inv => OnlyTheChosenIsShown
  BY <1>1, PageParts DEF Inv, OnlyTheChosenIsShown
<1> QED BY <1>2, PageInvariant, PTL

\* The list of runs, a run and a comparison that stay chosen are never replaced
\* by an older answer.
THEOREM RunsNeverGoBack == Spec => ViewsNeverGoBack
<1>1. ASSUME NEW P \in SUBSET AllParts, Onward(P) PROVE OnPage(P)!NeverBack
  <2> SUFFICES ASSUME NEW n \in P, Forward(views[n], views'[n], Order(n)),
                      views[n].shown # Nothing, views'[n].shown # Nothing,
                      views[n].shown.key = views'[n].shown.key
               PROVE  OnPage(P)!NotOlder(n, views[n].shown.data, views'[n].shown.data)
    BY <1>1 DEF Onward, OnPage!NeverBack
  <2>1. <<views[n].shown.data, views'[n].shown.data>> \in Order(n)
    BY DEF Forward
  <2> QED BY <2>1 DEF Order, OnPage!NotOlder, AllParts
<1>2. Inv /\ [Next]_vars =>
        [/\ view = "selection" /\ view' = view => OnPage(Selection)!NeverBack
         /\ view = "comparison" /\ view' = view => OnPage(Comparison)!NeverBack]_vars
  BY <1>1, InvStep, PageParts
<1> QED BY <1>2, PageInvariant, PTL DEF Spec, ViewsNeverGoBack

\* Details that come are of the job selected then or, if that selection was not
\* rendered yet, of the one before it, and none that a load brings is older than
\* those of an earlier load, unless the answer to a retry came between them.
THEOREM DetailsStayInOrder == Spec => DetailsComeInOrder
<1>1. Inv /\ [Next]_vars => [view = "jobs" /\ view' = view => SingleJob!InOrder]_vars
  BY InvStep
<1> QED BY <1>1, PageInvariant, PTL DEF Spec, DetailsComeInOrder
=============================================================================
