-------------------------- MODULE RunContentProofs --------------------------
(***************************************************************************)
(* What a run is made of, for any numbers of commands, requests, workers   *)
(* and jobs: the cases of its dataset (DatasetLoad), the provider and      *)
(* model that its jobs are sent to (SavedSelection) and what is made of    *)
(* the answers (CaseEvaluation).                                           *)
(*                                                                         *)
(* The first rests on one fact, that a dataset that is there stays as it   *)
(* is; the second on another, that a job has one selection from its first  *)
(* attempt on.                                                             *)
(***************************************************************************)
EXTENDS DatasetLoad, CaseEvaluation, FiniteSetTheorems, TLAPS

-----------------------------------------------------------------------------
\* Datasets.

\* What a file becomes in the database: the same content.
LEMMA StoredContent ==
    ASSUME NEW file \in FileCases
    PROVE  Stored(file) \in StoredCases /\ Stored(file) # NoCases /\ SameContent(file, Stored(file))
<1>1. PICK N \in (SUBSET CaseNames) \ {{}} : file \in [N -> [value: Values, order: Orders]]
    BY DEF FileCases
<1>2. DOMAIN Stored(file) = N /\ N # {} BY <1>1 DEF Stored
<1>3. \A n \in N : Stored(file)[n] = [value |-> file[n].value, order |-> JsonbOrder]
    BY <1>1 DEF Stored
<1>4. Stored(file) \in [N -> [value: Values, order: {JsonbOrder}]]
    BY <1>1, <1>2, <1>3 DEF Stored
<1>5. Stored(file) # NoCases BY <1>2 DEF NoCases
<1>6. SameContent(file, Stored(file)) BY <1>1, <1>2, <1>3 DEF SameContent
<1> QED BY <1>4, <1>5, <1>6 DEF StoredCases

\* assertSameCases looks at the number of cases and at those of the file: that
\* is enough to say that the contents are the same.
LEMMA ComparisonIsExact ==
    ASSUME NEW file \in FileCases, NEW stored \in StoredCases
    PROVE  SameCases(file, stored) <=> SameContent(file, stored)
<1>1. PICK N \in SUBSET CaseNames : file \in [N -> [value: Values, order: Orders]]
    BY DEF FileCases
<1>2. PICK M \in SUBSET CaseNames : stored \in [M -> [value: Values, order: {JsonbOrder}]]
    BY DEF StoredCases
<1>3. DOMAIN file = N /\ DOMAIN stored = M BY <1>1, <1>2
<1>4. IsFiniteSet(M) BY LoadAssumption, FS_Subset
<1>5. ASSUME SameCases(file, stored) PROVE N = M
    <2>1. N \subseteq M BY <1>3, <1>5 DEF SameCases
    <2>2. Cardinality(N) = Cardinality(M) BY <1>3, <1>5 DEF SameCases
    <2> QED BY <2>1, <2>2, <1>4, FS_Subset
<1> QED BY <1>3, <1>5 DEF SameCases, SameContent, CanonicalJson

-----------------------------------------------------------------------------
LoaderInv ==
    /\ \A l \in Loaders : loader[l].pc \in {"found", "created", "unchanged", "refused"}
        => Key(l) \in datasets
    /\ \A l \in Loaders : loader[l].pc \in {"created", "unchanged"}
        => SameContent(File(l), cases[Key(l)])
    /\ \A l \in Loaders : loader[l].pc = "refused" => ~SameContent(File(l), cases[Key(l)])
    /\ \A l, m \in Loaders :
        loader[l].pc = "created" /\ loader[m].pc = "created" /\ Key(l) = Key(m) => l = m

ClientInv ==
    \A c \in Clients :
        /\ client[c].pc \in {"found", "read", "created"} => client[c].key \in datasets
        /\ client[c].pc \in {"read", "created"} => client[c].jobs = cases[client[c].key]

IInv == TypeOK /\ LoaderInv /\ ClientInv

LEMMA InitIInv == Init => IInv
<1> SUFFICES ASSUME Init PROVE IInv OBVIOUS
<1>1. TypeOK BY DEF Init, TypeOK, LoaderStates, ClientStates
<1>2. LoaderInv BY DEF Init, LoaderInv, Key, File
<1>3. ClientInv BY DEF Init, ClientInv
<1> QED BY <1>1, <1>2, <1>3 DEF IInv

\* A step of a loader that leaves the tables alone.
LEMMA LoaderMoves ==
    ASSUME IInv, NEW l \in Loaders, NEW to \in LoaderStates,
           LoaderGoes(l, to), UNCHANGED <<datasets, cases, client>>,
           to # "created",
           to \in {"found", "unchanged", "refused"} => Key(l) \in datasets,
           to = "unchanged" => SameContent(File(l), cases[Key(l)]),
           to = "refused" => ~SameContent(File(l), cases[Key(l)])
    PROVE  IInv'
<1>1. loader \in [Loaders -> [pc: LoaderStates, key: Keys, file: FileCases]]
    BY DEF IInv, TypeOK
<1>2. loader' \in [Loaders -> [pc: LoaderStates, key: Keys, file: FileCases]]
    BY <1>1 DEF LoaderGoes
<1>3. \A m \in Loaders :
        /\ loader'[m].key = loader[m].key /\ loader'[m].file = loader[m].file
        /\ loader'[m].pc = IF m = l THEN to ELSE loader[m].pc
    BY <1>1 DEF LoaderGoes
<1>4. TypeOK' BY <1>2 DEF IInv, TypeOK
<1>5. LoaderInv'
    BY <1>3 DEF IInv, LoaderInv, Key, File, SameContent
<1>6. ClientInv' BY DEF IInv, ClientInv
<1> QED BY <1>4, <1>5, <1>6 DEF IInv

\* The insertion of a dataset that is not there.
LEMMA LoaderInserts ==
    ASSUME IInv, NEW l \in Loaders, LoaderCreates(l), Key(l) \notin datasets
    PROVE  IInv'
<1> DEFINE k == Key(l)
<1>1. /\ loader \in [Loaders -> [pc: LoaderStates, key: Keys, file: FileCases]]
      /\ cases \in [Keys -> StoredCases \cup {NoCases}]
      /\ datasets \subseteq Keys
    BY DEF IInv, TypeOK
<1>2. k \in Keys /\ File(l) \in FileCases BY <1>1 DEF Key, File
<1>3. /\ Stored(File(l)) \in StoredCases
      /\ Stored(File(l)) # NoCases
      /\ SameContent(File(l), Stored(File(l)))
    BY <1>2, StoredContent
<1>4. /\ LoaderGoes(l, "created") /\ UNCHANGED client
      /\ datasets' = datasets \cup {k}
      /\ cases' = [cases EXCEPT ![k] = Stored(File(l))]
    BY DEF LoaderCreates
<1>5. \A m \in Loaders :
        /\ loader'[m].key = loader[m].key /\ loader'[m].file = loader[m].file
        /\ loader'[m].pc = IF m = l THEN "created" ELSE loader[m].pc
    BY <1>1, <1>4 DEF LoaderGoes
<1>6. loader' \in [Loaders -> [pc: LoaderStates, key: Keys, file: FileCases]]
    BY <1>1, <1>4 DEF LoaderGoes, LoaderStates
<1>7. \A j \in Keys : cases'[j] = IF j = k THEN Stored(File(l)) ELSE cases[j]
    BY <1>1, <1>2, <1>4
<1>8. \A j \in datasets : j \in datasets' /\ cases'[j] = cases[j]
    BY <1>1, <1>4, <1>7
<1>9. TypeOK'
    <2>1. cases' \in [Keys -> StoredCases \cup {NoCases}] BY <1>1, <1>3, <1>4
    <2>2. datasets' \subseteq Keys BY <1>1, <1>2, <1>4
    <2>3. \A j \in Keys : j \in datasets' <=> cases'[j] # NoCases
        BY <1>3, <1>4, <1>7 DEF IInv, TypeOK
    <2> QED BY <2>1, <2>2, <2>3, <1>4, <1>6 DEF IInv, TypeOK
<1>10. LoaderInv'
    <2>1. \A m \in Loaders : loader'[m].pc \in {"found", "created", "unchanged", "refused"}
            => Key(m)' \in datasets'
        BY <1>4, <1>5 DEF IInv, LoaderInv, Key
    <2>2. ASSUME NEW m \in Loaders, loader'[m].pc \in {"created", "unchanged"}
          PROVE  SameContent(File(m)', cases'[Key(m)'])
        <3>1. CASE m = l BY <3>1, <1>2, <1>3, <1>5, <1>7 DEF Key, File
        <3>2. CASE m # l
            <4>1. /\ Key(m) \in datasets /\ SameContent(File(m), cases[Key(m)])
                  /\ Key(m)' = Key(m) /\ File(m)' = File(m)
                BY <3>2, <2>2, <1>5 DEF IInv, LoaderInv, Key, File
            <4> QED BY <4>1, <1>8
        <3> QED BY <3>1, <3>2
    <2>3. ASSUME NEW m \in Loaders, loader'[m].pc = "refused"
          PROVE  ~SameContent(File(m)', cases'[Key(m)'])
        <3>1. /\ Key(m) \in datasets /\ ~SameContent(File(m), cases[Key(m)])
              /\ Key(m)' = Key(m) /\ File(m)' = File(m)
            BY <2>3, <1>5 DEF IInv, LoaderInv, Key, File
        <3> QED BY <3>1, <1>8
    <2>4. ASSUME NEW m \in Loaders, NEW n \in Loaders, m # n,
                 loader'[m].pc = "created", loader'[n].pc = "created"
          PROVE  Key(m)' # Key(n)'
        <3>1. \A p \in Loaders : p # l /\ loader'[p].pc = "created" => Key(p) \in datasets
            BY <1>5 DEF IInv, LoaderInv
        <3>2. Key(m)' = Key(m) /\ Key(n)' = Key(n) BY <1>5 DEF Key
        <3>3. CASE m = l \/ n = l BY <3>1, <3>2, <3>3, <2>4
        <3>4. CASE m # l /\ n # l BY <3>2, <3>4, <2>4, <1>5 DEF IInv, LoaderInv
        <3> QED BY <3>3, <3>4
    <2> QED BY <2>1, <2>2, <2>3, <2>4 DEF LoaderInv
<1>11. ClientInv' BY <1>4, <1>8 DEF IInv, ClientInv
<1> QED BY <1>9, <1>10, <1>11 DEF IInv

\* A step of a request changes that request.
LEMMA ClientMoves ==
    ASSUME IInv, NEW c \in Clients,
           ClientFinds(c) \/ ClientReads(c) \/ ClientCreatesRun(c)
    PROVE  IInv'
<1>1. /\ client \in [Clients -> [pc: ClientStates, key: Keys, jobs: StoredCases \cup {NoCases}]]
      /\ cases \in [Keys -> StoredCases \cup {NoCases}]
    BY DEF IInv, TypeOK
<1>2. UNCHANGED <<datasets, cases, loader>>
    BY DEF ClientFinds, ClientReads, ClientCreatesRun
<1>3. client' \in [Clients -> [pc: ClientStates, key: Keys, jobs: StoredCases \cup {NoCases}]]
    BY <1>1 DEF ClientFinds, ClientReads, ClientCreatesRun, ClientStates
<1>4. TypeOK' BY <1>2, <1>3 DEF IInv, TypeOK
<1>5. LoaderInv' BY <1>2 DEF IInv, LoaderInv, Key, File
<1>6. ClientInv'
    <2>1. CASE ClientFinds(c) BY <2>1, <1>1, <1>2 DEF ClientFinds, IInv, ClientInv
    <2>2. CASE ClientReads(c) BY <2>2, <1>1, <1>2 DEF ClientReads, IInv, ClientInv
    <2>3. CASE ClientCreatesRun(c) BY <2>3, <1>1, <1>2 DEF ClientCreatesRun, IInv, ClientInv
    <2> QED BY <2>1, <2>2, <2>3
<1> QED BY <1>4, <1>5, <1>6 DEF IInv

LEMMA NextIInv == IInv /\ [Next]_vars => IInv'
<1> SUFFICES ASSUME IInv, [Next]_vars PROVE IInv' OBVIOUS
<1>1. ASSUME NEW l \in Loaders, LoaderFinds(l) PROVE IInv'
    BY <1>1, LoaderMoves DEF LoaderFinds, LoaderStates
<1>2. ASSUME NEW l \in Loaders, LoaderCompares(l) PROVE IInv'
    <2>1. Key(l) \in datasets /\ Key(l) \in Keys /\ File(l) \in FileCases
        BY <1>2 DEF LoaderCompares, IInv, LoaderInv, TypeOK, Key, File
    <2>2. cases[Key(l)] \in StoredCases BY <2>1 DEF IInv, TypeOK
    <2>3. SameCases(File(l), cases[Key(l)]) <=> SameContent(File(l), cases[Key(l)])
        BY <2>1, <2>2, ComparisonIsExact
    <2> QED BY <1>2, <2>1, <2>3, LoaderMoves DEF LoaderCompares, LoaderStates
<1>3. ASSUME NEW l \in Loaders, LoaderCreates(l) PROVE IInv'
    <2>1. CASE Key(l) \notin datasets BY <1>3, <2>1, LoaderInserts
    <2>2. CASE Key(l) \in datasets
        BY <1>3, <2>2, LoaderMoves DEF LoaderCreates, LoaderStates
    <2> QED BY <2>1, <2>2
<1>4. ASSUME NEW l \in Loaders, LoaderFails(l) PROVE IInv'
    BY <1>4, LoaderMoves DEF LoaderFails, LoaderStates
<1>5. ASSUME NEW c \in Clients, ClientFinds(c) \/ ClientReads(c) \/ ClientCreatesRun(c)
      PROVE IInv'
    BY <1>5, ClientMoves
<1>6. CASE UNCHANGED vars
    BY <1>6 DEF vars, IInv, TypeOK, LoaderInv, ClientInv, Key, File
<1> QED BY <1>1, <1>2, <1>3, <1>4, <1>5, <1>6 DEF Next

THEOREM Invariance == Spec => []IInv
<1> QED BY InitIInv, NextIInv, PTL DEF Spec

-----------------------------------------------------------------------------
\* A dataset is in the database with all of its cases or not at all, however
\* many commands create it at once.
THEOREM TypeCorrect == Spec => []TypeOK
<1>1. IInv => TypeOK BY DEF IInv
<1> QED BY <1>1, Invariance, PTL

\* A load that reported success is right about the database from then on, one
\* of all loads created the dataset, and only different cases are refused.
THEOREM LoadsAreTold == Spec => []AnswersAreTrue
<1>1. IInv => AnswersAreTrue BY DEF IInv, LoaderInv, AnswersAreTrue
<1> QED BY <1>1, Invariance, PTL

\* A run has the cases its dataset has, for good.
THEOREM RunsKeepTheirCases == Spec => []RunsKeepMeaning
<1>1. IInv => RunsKeepMeaning
    <2> SUFFICES ASSUME IInv, NEW c \in Clients, client[c].pc = "created"
                 PROVE  client[c].jobs # NoCases /\ client[c].jobs = cases[client[c].key]
        BY DEF RunsKeepMeaning
    <2>1. client[c].key \in datasets /\ client[c].jobs = cases[client[c].key]
        BY DEF IInv, ClientInv
    <2>2. client[c].key \in Keys BY DEF IInv, TypeOK
    <2> QED BY <2>1, <2>2 DEF IInv, TypeOK
<1> QED BY <1>1, Invariance, PTL

-----------------------------------------------------------------------------
\* Selections.

JobRow ==
    [status: {"absent", "queued", "running", "completed", "dead_letter"},
     llm: Selections \cup {None}, run: Selections \cup {None}, mockConfig: BOOLEAN]

Attempt == [job: Jobs, llm: Selections, mockConfig: BOOLEAN, owns: BOOLEAN]

SelectionType ==
    /\ api \in [default: Selections, models: SUBSET GeminiModels, key: BOOLEAN]
    /\ worker \in [Workers -> [default: Selections, key: BOOLEAN]]
    /\ job \in [Jobs -> JobRow]
    /\ attempt \in [Workers -> Attempt \cup {None}]
    /\ calls \subseteq Jobs \X Selections

\* A job of a run has no selection but that of the run.
OfItsRun(j) == job[j].llm # None /\ job[j].run # None => job[j].llm = job[j].run

\* An attempt works with the selection of its job, be it that it still has the
\* lease or not, and so did every call.
SelectionInv ==
    /\ SelectionType
    /\ \A j \in Jobs : OfItsRun(j)
    /\ \A w \in Workers : attempt[w] # None => job[attempt[w].job].llm = attempt[w].llm
    /\ \A c \in calls : job[c[1]].llm = c[2]

\* Steps that leave the selections of jobs alone.
LEMMA SelectionsStay ==
    ASSUME SelectionInv, job' \in [Jobs -> JobRow],
           \A j \in Jobs : job'[j].llm = job[j].llm /\ job'[j].run = job[j].run
    PROVE  /\ \A j \in Jobs : OfItsRun(j)'
           /\ \A w \in Workers : attempt[w] # None => job'[attempt[w].job].llm = attempt[w].llm
           /\ \A c \in calls : job'[c[1]].llm = c[2]
<1>1. \A w \in Workers : attempt[w] # None => attempt[w].job \in Jobs
  BY DEF SelectionInv, SelectionType, Attempt
<1>2. \A c \in calls : c[1] \in Jobs
  BY DEF SelectionInv, SelectionType
<1> QED BY <1>1, <1>2 DEF SelectionInv, OfItsRun

\* Steps that change the selection of a job without one.
LEMMA SelectionAppears ==
    ASSUME SelectionInv, NEW j \in Jobs, NEW r \in JobRow, job[j].llm = None,
           job' = [job EXCEPT ![j] = r],
           r.llm \in Selections, r.run # None => r.llm = r.run
    PROVE  /\ job' \in [Jobs -> JobRow]
           /\ \A i \in Jobs : OfItsRun(i)'
           /\ \A w \in Workers : attempt[w] # None => job'[attempt[w].job].llm = attempt[w].llm
           /\ \A c \in calls : job'[c[1]].llm = c[2]
<1>1. job' \in [Jobs -> JobRow] /\ \A i \in Jobs : job'[i] = IF i = j THEN r ELSE job[i]
  BY DEF SelectionInv, SelectionType
<1>2. \A w \in Workers : attempt[w] # None => attempt[w].job \in Jobs /\ attempt[w].llm \in Selections
  BY DEF SelectionInv, SelectionType, Attempt
<1>3. \A w \in Workers : attempt[w] # None => attempt[w].job # j
  BY <1>2, SelectionAssumption DEF SelectionInv
<1>4. \A c \in calls : c[1] \in Jobs /\ c[2] \in Selections
  BY DEF SelectionInv, SelectionType
<1>5. \A c \in calls : c[1] # j
  BY <1>4, SelectionAssumption DEF SelectionInv
<1> QED BY <1>1, <1>2, <1>3, <1>4, <1>5 DEF SelectionInv, OfItsRun

LEMMA CreatedJobs ==
    ASSUME SelectionInv, NEW j \in Jobs,
           CreateJob(j) \/ \E r \in Selections \cup {None}, c \in BOOLEAN : CreateRunJob(j, r, c)
    PROVE  SelectionInv'
<1>1. api.default \in Selections
  BY DEF SelectionInv, SelectionType
<1>2. PICK r \in JobRow :
        /\ job' = [job EXCEPT ![j] = r] /\ job[j] = Absent
        /\ r.llm \in Selections /\ (r.run # None => r.llm = r.run)
        /\ UNCHANGED <<api, worker, attempt, calls>>
  <2> DEFINE Created(r) ==
        /\ r \in JobRow
        /\ job' = [job EXCEPT ![j] = r] /\ job[j] = Absent
        /\ r.llm \in Selections /\ (r.run # None => r.llm = r.run)
        /\ UNCHANGED <<api, worker, attempt, calls>>
  <2>1. CASE CreateJob(j)
    <3> DEFINE r == [Absent EXCEPT !.status = "queued", !.llm = api.default]
    <3>1. Absent \in JobRow /\ Absent.run = None
      BY DEF Absent, JobRow
    <3>2. r \in JobRow /\ r.llm = api.default /\ r.run = None
      BY <1>1, <3>1 DEF JobRow
    <3>3. job' = [job EXCEPT ![j] = r] /\ job[j] = Absent
      BY <2>1 DEF CreateJob, ResolveLlm
    <3>4. Created(r)
      BY <1>1, <2>1, <3>2, <3>3 DEF CreateJob
    <3> QED BY <3>4
  <2>2. ASSUME NEW q \in Selections \cup {None}, NEW c \in BOOLEAN, CreateRunJob(j, q, c)
        PROVE  \E r : Created(r)
    <3> DEFINE s == ResolveLlm(q, api.default)
               r == [status |-> "queued", llm |-> s, run |-> s, mockConfig |-> (s = Mock)]
    <3>1. s \in Selections
      BY <1>1 DEF ResolveLlm
    <3>2. r \in JobRow
      BY <3>1 DEF JobRow
    <3>3. Created(r)
      BY <2>2, <3>1, <3>2 DEF CreateRunJob
    <3> QED BY <3>3
  <2> QED BY <2>1, <2>2
<1>3. job[j].llm = None
  BY <1>2 DEF Absent
<1> QED BY <1>2, <1>3, SelectionAppears DEF SelectionInv, SelectionType, OfItsRun

LEMMA ClaimedJobs ==
    ASSUME SelectionInv, NEW w \in Workers, NEW j \in Jobs, Claim(w, j)
    PROVE  SelectionInv'
<1> DEFINE s == SelectionOf(j, w)
           r == [job[j] EXCEPT !.status = "running", !.llm = s]
           a == [job |-> j, llm |-> s, mockConfig |-> job[j].mockConfig, owns |-> TRUE]
<1>1. job[j] \in JobRow /\ worker[w].default \in Selections /\ OfItsRun(j)
  BY DEF SelectionInv, SelectionType
<1>2. /\ s \in Selections
      /\ job[j].llm # None => s = job[j].llm
      /\ job[j].run # None => s = job[j].run
  BY <1>1, SelectionAssumption DEF SelectionOf, ResolveLlm, JobRow, OfItsRun
<1>3. job' = [job EXCEPT ![j] = r] /\ attempt' = [attempt EXCEPT ![w] = a]
      /\ UNCHANGED <<api, worker, calls>>
  BY DEF Claim
<1>4. r \in JobRow /\ r.llm = s /\ r.run = job[j].run /\ a \in Attempt
      /\ a.job = j /\ a.llm = s
  BY <1>1, <1>2 DEF JobRow, Attempt
<1>5. job \in [Jobs -> JobRow] /\ attempt \in [Workers -> Attempt \cup {None}]
  BY DEF SelectionInv, SelectionType
<1> HIDE DEF s, r, a
<1>6. job' \in [Jobs -> JobRow] /\ attempt' \in [Workers -> Attempt \cup {None}]
      /\ job'[j].llm = s
  BY <1>3, <1>4, <1>5
<1>7. /\ \A i \in Jobs : OfItsRun(i)'
      /\ \A v \in Workers : attempt[v] # None => job'[attempt[v].job].llm = attempt[v].llm
      /\ \A c \in calls : job'[c[1]].llm = c[2]
  <2>1. CASE job[j].llm = None
    BY <1>2, <1>3, <1>4, <2>1, SelectionAppears
  <2>2. CASE job[j].llm # None
    <3>1. \A i \in Jobs : job'[i].llm = job[i].llm /\ job'[i].run = job[i].run
      BY <1>2, <1>3, <1>4, <1>5, <2>2
    <3> QED BY <1>6, <3>1, SelectionsStay
  <2> QED BY <2>1, <2>2
<1>8. \A v \in Workers : attempt'[v] = IF v = w THEN a ELSE attempt[v]
  BY <1>3, <1>5
<1>9. \A v \in Workers : attempt'[v] # None => job'[attempt'[v].job].llm = attempt'[v].llm
  BY <1>4, <1>6, <1>7, <1>8
<1> QED BY <1>3, <1>6, <1>7, <1>9 DEF SelectionInv, SelectionType

\* A status changes, attempts end or lose their lease, workers are redeployed.
LEMMA OtherSelectionSteps ==
    ASSUME SelectionInv, job' \in [Jobs -> JobRow],
           \A j \in Jobs : job'[j].llm = job[j].llm /\ job'[j].run = job[j].run,
           api' = api, worker' \in [Workers -> [default: Selections, key: BOOLEAN]],
           attempt' \in [Workers -> Attempt \cup {None}],
           \A w \in Workers : attempt'[w] # None =>
                /\ attempt[w] # None
                /\ attempt'[w].job = attempt[w].job /\ attempt'[w].llm = attempt[w].llm,
           calls' = calls
    PROVE  SelectionInv'
  BY SelectionsStay DEF SelectionInv, SelectionType

LEMMA StatusChange ==
    ASSUME SelectionInv, NEW j \in Jobs,
           NEW status \in {"queued", "completed", "dead_letter"},
           job' = [job EXCEPT ![j].status = status]
    PROVE  /\ job' \in [Jobs -> JobRow]
           /\ \A i \in Jobs : job'[i].llm = job[i].llm /\ job'[i].run = job[i].run
<1>1. job \in [Jobs -> JobRow]
  BY DEF SelectionInv, SelectionType
<1> QED BY <1>1 DEF JobRow

LEMMA SelectionStep ==
    ASSUME SelectionInv, SelectionNext
    PROVE  SelectionInv'
<1>1. /\ job \in [Jobs -> JobRow] /\ attempt \in [Workers -> Attempt \cup {None}]
      /\ worker \in [Workers -> [default: Selections, key: BOOLEAN]]
  BY DEF SelectionInv, SelectionType
<1>2. \A w \in Workers : attempt[w] # None => attempt[w] \in Attempt /\ attempt[w].job \in Jobs
  BY <1>1 DEF Attempt
<1>3. ASSUME NEW j \in Jobs,
             CreateJob(j) \/ \E r \in Selections \cup {None}, c \in BOOLEAN : CreateRunJob(j, r, c)
      PROVE  SelectionInv'
  BY <1>3, CreatedJobs
<1>4. ASSUME NEW j \in Jobs, Retry(j) PROVE SelectionInv'
  <2>1. job' = [job EXCEPT ![j].status = "queued"] /\ UNCHANGED <<api, worker, attempt, calls>>
    BY <1>4 DEF Retry
  <2>2. /\ job' \in [Jobs -> JobRow]
        /\ \A i \in Jobs : job'[i].llm = job[i].llm /\ job'[i].run = job[i].run
    BY <2>1, StatusChange
  <2> QED BY <1>1, <2>1, <2>2, OtherSelectionSteps
<1>5. ASSUME NEW w \in Workers, NEW j \in Jobs, Claim(w, j) PROVE SelectionInv'
  BY <1>5, ClaimedJobs
<1>6. ASSUME NEW w \in Workers, Call(w) PROVE SelectionInv'
  <2>1. /\ attempt[w] # None /\ calls' = calls \cup {<<attempt[w].job, attempt[w].llm>>}
        /\ UNCHANGED <<api, worker, job, attempt>>
    BY <1>6 DEF Call
  <2>2. attempt[w].job \in Jobs /\ attempt[w].llm \in Selections
        /\ job[attempt[w].job].llm = attempt[w].llm
    BY <1>2, <2>1 DEF SelectionInv, Attempt
  <2> QED BY <2>1, <2>2 DEF SelectionInv, SelectionType, OfItsRun
<1>7. ASSUME NEW w \in Workers, Lapse(w) PROVE SelectionInv'
  <2>1. /\ attempt[w] # None /\ attempt' = [attempt EXCEPT ![w].owns = FALSE]
        /\ job' = [job EXCEPT ![attempt[w].job].status = "queued"]
        /\ UNCHANGED <<api, worker, calls>>
    BY <1>7 DEF Lapse
  <2>2. /\ job' \in [Jobs -> JobRow]
        /\ \A i \in Jobs : job'[i].llm = job[i].llm /\ job'[i].run = job[i].run
    BY <1>2, <2>1, StatusChange
  <2>3. /\ attempt' \in [Workers -> Attempt \cup {None}]
        /\ \A v \in Workers : attempt'[v] # None =>
                /\ attempt[v] # None
                /\ attempt'[v].job = attempt[v].job /\ attempt'[v].llm = attempt[v].llm
    BY <1>1, <1>2, <2>1 DEF Attempt
  <2> QED BY <1>1, <2>1, <2>2, <2>3, OtherSelectionSteps
<1>8. ASSUME NEW w \in Workers, NEW status \in {"queued", "completed", "dead_letter"},
             EndAttempt(w, status)
      PROVE  SelectionInv'
  <2>1. /\ attempt[w] # None /\ attempt' = [attempt EXCEPT ![w] = None]
        /\ job' = job \/ job' = [job EXCEPT ![attempt[w].job].status = status]
        /\ UNCHANGED <<api, worker, calls>>
    BY <1>8 DEF EndAttempt
  <2>2. /\ job' \in [Jobs -> JobRow]
        /\ \A i \in Jobs : job'[i].llm = job[i].llm /\ job'[i].run = job[i].run
    BY <1>1, <1>2, <2>1, StatusChange
  <2>3. /\ attempt' \in [Workers -> Attempt \cup {None}]
        /\ \A v \in Workers : attempt'[v] # None => attempt'[v] = attempt[v]
    BY <1>1, <2>1
  <2> QED BY <1>1, <2>1, <2>2, <2>3, OtherSelectionSteps
<1>9. ASSUME NEW w \in Workers, NEW e \in [default: Selections, key: BOOLEAN], Deploy(w, e)
      PROVE  SelectionInv'
  <2>1. /\ attempt' = [attempt EXCEPT ![w] = None] /\ worker' = [worker EXCEPT ![w] = e]
        /\ \/ job' = job
           \/ attempt[w] # None /\ job' = [job EXCEPT ![attempt[w].job].status = "queued"]
        /\ UNCHANGED <<api, calls>>
    BY <1>9 DEF Deploy
  <2>2. /\ job' \in [Jobs -> JobRow]
        /\ \A i \in Jobs : job'[i].llm = job[i].llm /\ job'[i].run = job[i].run
    BY <1>1, <1>2, <2>1, StatusChange
  <2>3. /\ attempt' \in [Workers -> Attempt \cup {None}]
        /\ worker' \in [Workers -> [default: Selections, key: BOOLEAN]]
        /\ \A v \in Workers : attempt'[v] # None => attempt'[v] = attempt[v]
    BY <1>1, <2>1
  <2> QED BY <2>1, <2>2, <2>3, OtherSelectionSteps
<1> QED BY <1>3, <1>4, <1>5, <1>6, <1>7, <1>8, <1>9 DEF SelectionNext

LEMMA SelectionStart == SelectionInit => SelectionInv
<1> SUFFICES ASSUME SelectionInit PROVE SelectionInv
  OBVIOUS
<1>1. LegacyJobs \subseteq JobRow /\ Absent \in JobRow
  BY DEF LegacyJobs, Absent, JobRow
<1>2. \A r \in LegacyJobs \cup {Absent} : r.llm = None
  BY DEF LegacyJobs, Absent
<1>3. \A j \in Jobs : job[j].llm = None /\ job[j] \in JobRow
  BY <1>1, <1>2 DEF SelectionInit
<1> QED BY <1>1, <1>3 DEF SelectionInit, SelectionInv, SelectionType, OfItsRun

-----------------------------------------------------------------------------
\* Evaluations.

Case == [snapshot: Summaries, expected: Risks \cup {None}, modes: SUBSET Modes]

\* The mock answers by its rules, and an evaluation is of that answer.
EvaluationInv ==
    /\ result.pc # "waiting" => case # None
    /\ case # None => case \in Case /\ called # None
    /\ result.pc \in {"answered", "scored"} /\ called.mock => answer = MockAnswer
    /\ result.pc = "scored" => /\ answer.json /\ answer.fields
                               /\ result.checks = Checks /\ result.score = Score

RunContentInv == SelectionInv /\ EvaluationInv

LEMMA RunContentStep ==
    ASSUME RunContentInv, [EvaluationNext]_evaluationVars
    PROVE  RunContentInv'
<1>1. CASE SelectionNext /\ UNCHANGED evaluation
  BY <1>1, SelectionStep DEF RunContentInv, EvaluationInv, evaluation, MockAnswer, Checks, Score,
     ExpectedRisk
<1>2. ASSUME NEW w \in Workers, Ask(w) PROVE RunContentInv'
  <2>1. SelectionInv'
    <3>1. /\ job' = [j \in Jobs |-> Absent] /\ attempt' = [v \in Workers |-> None] /\ calls' = {}
          /\ api' = [default |-> Mock, models |-> {}, key |-> FALSE]
          /\ worker' = [v \in Workers |-> [default |-> Mock, key |-> FALSE]]
      BY <1>2 DEF Ask, Forgotten
    <3>2. Absent \in JobRow /\ Absent.llm = None
      BY DEF Absent, JobRow
    <3> QED BY <3>1, <3>2 DEF SelectionInv, SelectionType, OfItsRun, Selections
  <2>2. EvaluationInv'
    BY <1>2 DEF Ask, RunContentInv, EvaluationInv
  <2> QED BY <2>1, <2>2 DEF RunContentInv
<1>3. CASE WithCase \/ CallLlm \/ Evaluate \/ UNCHANGED evaluationVars
  <2>1. SelectionInv'
    <3>1. UNCHANGED selection
      BY <1>3 DEF WithCase, CallLlm, Evaluate, evaluationVars, selection
    <3> QED BY <3>1 DEF selection, RunContentInv, SelectionInv, SelectionType, OfItsRun
  <2>2. CASE WithCase
    <3>1. case' \in Case
      BY <2>2 DEF WithCase, Case
    <3> QED BY <2>1, <2>2, <3>1 DEF WithCase, RunContentInv, EvaluationInv
  <2>3. CASE CallLlm
    <3>1. /\ result'.pc = "answered" /\ UNCHANGED <<called, case>> /\ case # None
          /\ called.mock => answer' = MockAnswer
      BY <2>3 DEF CallLlm
    <3> QED BY <2>1, <3>1 DEF RunContentInv, EvaluationInv, MockAnswer
  <2>4. CASE Evaluate
    <3>1. /\ result.pc = "answered" /\ UNCHANGED <<called, case, answer>>
          /\ \/ result'.pc = "failed"
             \/ /\ result'.pc = "scored" /\ answer.json /\ answer.fields
                /\ result'.checks = Checks /\ result'.score = Score
      BY <2>4 DEF Evaluate
    <3> QED BY <2>1, <3>1 DEF RunContentInv, EvaluationInv, MockAnswer, Checks, Score, ExpectedRisk
  <2>5. CASE UNCHANGED evaluationVars
    BY <2>1, <2>5 DEF evaluationVars, RunContentInv, EvaluationInv, MockAnswer, Checks, Score,
       ExpectedRisk
  <2> QED BY <1>3, <2>2, <2>3, <2>4, <2>5
<1> QED BY <1>1, <1>2, <1>3 DEF EvaluationNext

LEMMA RunContentInvariant == EvaluationSpec => []RunContentInv
<1>1. EvaluationInit => RunContentInv
  BY SelectionStart DEF EvaluationInit, RunContentInv, EvaluationInv, Waiting
<1>2. RunContentInv /\ [EvaluationNext]_evaluationVars => RunContentInv'
  BY RunContentStep
<1> QED BY <1>1, <1>2, PTL DEF EvaluationSpec

\* Whatever workers attempt a job, redeployed or with another default: all of its
\* calls are to one provider and model.
THEOREM JobsKeepTheirSelection == EvaluationSpec => []OneSelectionPerJob
<1>1. RunContentInv => OneSelectionPerJob
  BY DEF RunContentInv, SelectionInv, OneSelectionPerJob
<1> QED BY <1>1, RunContentInvariant, PTL

\* Every call for a job of a run is to the provider and model of the run.
THEOREM RunsStayWhatTheySay == EvaluationSpec => []RunsAreWhatTheySay
<1>1. RunContentInv => RunsAreWhatTheySay
  <2> SUFFICES ASSUME RunContentInv, NEW c \in calls, job[c[1]].run # None
               PROVE  c[2] = job[c[1]].run
    BY DEF RunsAreWhatTheySay
  <2>1. c[1] \in Jobs /\ c[2] \in Selections /\ job[c[1]].llm = c[2]
    BY DEF RunContentInv, SelectionInv, SelectionType
  <2> QED BY <2>1, SelectionAssumption DEF RunContentInv, SelectionInv, OfItsRun
<1> QED BY <1>1, RunContentInvariant, PTL

\* An answer with every check passed has the full score.
LEMMA FullScore ==
    ASSUME \A check \in DOMAIN Checks : Checks[check]
    PROVE  Score = 100
<1> DEFINE A == {"validJson"}
           B == A \cup {"hasRequiredFields"}
           C == B \cup {"evidenceIncluded"}
           D == C \cup {"evidenceSupported"}
           E == D \cup {"reasonableRiskLabel"}
<1>1. {check \in DOMAIN Checks : Checks[check]} = E
  BY DEF Checks
<1>2. /\ "hasRequiredFields" \notin A /\ "evidenceIncluded" \notin B
      /\ "evidenceSupported" \notin C /\ "reasonableRiskLabel" \notin D
  OBVIOUS
<1>3. IsFiniteSet(A) /\ Cardinality(A) = 1
  BY FS_Singleton
<1> HIDE DEF A, B, C, D, E
<1>4. IsFiniteSet(B) /\ Cardinality(B) = 2
  BY <1>2, <1>3, FS_AddElement DEF B
<1>5. IsFiniteSet(C) /\ Cardinality(C) = 3
  BY <1>2, <1>4, FS_AddElement DEF C
<1>6. IsFiniteSet(D) /\ Cardinality(D) = 4
  BY <1>2, <1>5, FS_AddElement DEF D
<1>7. IsFiniteSet(E) /\ Cardinality(E) = 5
  BY <1>2, <1>6, FS_AddElement DEF E
<1> QED BY <1>1, <1>7 DEF Score

\* The mock passes exactly when it was not told to be wrong, at every boundary of
\* the rules that it and the evaluator each have a copy of, and with all checks.
THEOREM MockStaysJudgedByItsRules == EvaluationSpec => []MockIsJudgedByItsRules
<1>1. RunContentInv => MockIsJudgedByItsRules
  <2> SUFFICES ASSUME RunContentInv, Scored, called.mock, case.expected = None
               PROVE  /\ Passes <=> "wrongLabel" \notin case.modes
                      /\ Passes => result.score = 100
    BY DEF MockIsJudgedByItsRules
  <2> DEFINE s == case.snapshot
  <2>1. /\ case \in Case /\ answer = MockAnswer /\ answer.json /\ answer.fields
        /\ result.checks = Checks /\ result.score = Score
    BY DEF RunContentInv, EvaluationInv, Scored
  <2>2. ExpectedRisk = GetRiskLabel(s)
    BY DEF ExpectedRisk, RuleRisk, GetRiskLabel
  <2>3. GetRiskLabel(s) # Perturb(GetRiskLabel(s))
    BY DEF GetRiskLabel, Perturb
  <2>4. answer.risk = IF "wrongLabel" \in case.modes THEN Perturb(GetRiskLabel(s)) ELSE GetRiskLabel(s)
    BY <2>1 DEF MockAnswer
  <2>5. Checks.reasonableRiskLabel <=> "wrongLabel" \notin case.modes
    BY <2>2, <2>3, <2>4 DEF Checks
  <2>6. Passes <=> Checks.reasonableRiskLabel
    BY <2>1 DEF Passes, Scored
  <2>7. Checks.evidenceSupported
    <3>1. s.last \in answer.evidence
      BY <2>1 DEF MockAnswer
    <3>2. Includes(answer.evidence, s.last)
      BY <3>1 DEF Includes
    <3> QED BY <3>2 DEF Checks
  <2>8. ASSUME Checks.reasonableRiskLabel PROVE Score = 100
    <3>1. \A check \in DOMAIN Checks : Checks[check]
      BY <2>1, <2>7, <2>8 DEF Checks
    <3> QED BY <3>1, FullScore
  <2> QED BY <2>1, <2>5, <2>6, <2>8
<1> QED BY <1>1, RunContentInvariant, PTL
=============================================================================
