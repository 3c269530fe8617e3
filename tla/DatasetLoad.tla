---------------------------- MODULE DatasetLoad ----------------------------
(***************************************************************************)
(* Datasets are loaded by commands (src/server/src/datasets.ts) that may   *)
(* run at the same time, and read by createRun (src/server/src/runs.ts).   *)
(* Finding a dataset with its cases takes two queries, creating it one     *)
(* transaction, and between the finding and the creation anything may      *)
(* happen.  A dataset is known by its name and version, here a key; a case *)
(* is its snapshot and its label, taken together as a value, and the order *)
(* of the keys in its JSON, which jsonb does not keep.                     *)
(***************************************************************************)
EXTENDS Integers, FiniteSets

CONSTANTS Keys,       \* dataset names with version
          CaseNames,  \* names of cases
          Values,     \* snapshot and label of a case
          Orders,     \* orders of the keys of a snapshot in a file
          Loaders,    \* loadDataset commands
          Clients     \* createRun requests

JsonbOrder == "jsonb"

ASSUME LoadAssumption == IsFiniteSet(CaseNames)

VARIABLES datasets,  \* keys that have a row in the table datasets
          cases,     \* cases[k]: the rows of dataset_cases, by name
          loader,    \* loader[l]: where command l is
          client     \* client[c]: where request c is, and the jobs it created

vars == <<datasets, cases, loader, client>>

NoCases == [n \in {} |-> n]

\* DatasetFileSchema: some cases, with unique names.
FileCases == UNION {[N -> [value: Values, order: Orders]] : N \in (SUBSET CaseNames) \ {{}}}

Init ==
    /\ datasets = {}
    /\ cases = [k \in Keys |-> NoCases]
    /\ loader \in [Loaders -> [pc: {"start"}, key: Keys, file: FileCases]]
    /\ client \in [Clients -> [pc: {"start"}, key: Keys, jobs: {NoCases}]]

LoaderGoes(l, to) == loader' = [loader EXCEPT ![l].pc = to]

-----------------------------------------------------------------------------
\* loadDataset.

Key(l) == loader[l].key
File(l) == loader[l].file

LoaderFinds(l) ==
    /\ loader[l].pc = "start"
    /\ LoaderGoes(l, IF Key(l) \in datasets THEN "found" ELSE "missing")
    /\ UNCHANGED <<datasets, cases, client>>

\* Mutant: snapshots are compared as they are written.
AsWritten(snapshot) == <<snapshot.value, snapshot.order>>

CanonicalJson(snapshot) == snapshot.value

\* assertSameCases.
SameCases(file, stored) ==
    /\ Cardinality(DOMAIN stored) = Cardinality(DOMAIN file)
    /\ \A n \in DOMAIN file :
        n \in DOMAIN stored /\ CanonicalJson(stored[n]) = CanonicalJson(file[n])

LoaderCompares(l) ==
    /\ loader[l].pc = "found"
    /\ LoaderGoes(l, IF SameCases(File(l), cases[Key(l)]) THEN "unchanged" ELSE "refused")
    /\ UNCHANGED <<datasets, cases, client>>

Stored(file) == [n \in DOMAIN file |-> [file[n] EXCEPT !.order = JsonbOrder]]

\* Mutant: an existing dataset gets the new cases.
LoaderUpserts(l) ==
    /\ loader[l].pc = "missing"
    /\ LoaderGoes(l, "created")
    /\ datasets' = datasets \cup {Key(l)}
    /\ cases' = [cases EXCEPT ![Key(l)] = Stored(File(l))]
    /\ UNCHANGED client

\* The dataset and its cases are inserted together, or the unique name and
\* version is violated.
LoaderCreates(l) ==
    /\ loader[l].pc = "missing"
    /\ \/ /\ Key(l) \notin datasets
          /\ LoaderGoes(l, "created")
          /\ datasets' = datasets \cup {Key(l)}
          /\ cases' = [cases EXCEPT ![Key(l)] = Stored(File(l))]
       \/ /\ Key(l) \in datasets
          /\ LoaderGoes(l, "failed")
          /\ UNCHANGED <<datasets, cases>>
    /\ UNCHANGED client

\* The database refuses a statement, or the process is killed.
LoaderFails(l) ==
    /\ loader[l].pc \in {"start", "found", "missing"}
    /\ LoaderGoes(l, "failed")
    /\ UNCHANGED <<datasets, cases, client>>

-----------------------------------------------------------------------------
\* createRun: find the dataset, read its cases, create a job for each.

ClientFinds(c) ==
    /\ client[c].pc = "start"
    /\ client' = [client EXCEPT ![c].pc =
                    IF client[c].key \in datasets THEN "found" ELSE "dataset_not_found"]
    /\ UNCHANGED <<datasets, cases, loader>>

ClientReads(c) ==
    /\ client[c].pc = "found"
    /\ client' = [client EXCEPT ![c].pc = "read", ![c].jobs = cases[client[c].key]]
    /\ UNCHANGED <<datasets, cases, loader>>

ClientCreatesRun(c) ==
    /\ client[c].pc = "read"
    /\ client' = [client EXCEPT ![c].pc = "created"]
    /\ UNCHANGED <<datasets, cases, loader>>

-----------------------------------------------------------------------------
Next ==
    \/ \E l \in Loaders :
        LoaderFinds(l) \/ LoaderCompares(l) \/ LoaderCreates(l) \/ LoaderFails(l)
    \/ \E c \in Clients : ClientFinds(c) \/ ClientReads(c) \/ ClientCreatesRun(c)

Spec == Init /\ [][Next]_vars

-----------------------------------------------------------------------------
\* Properties

StoredCases == UNION {[N -> [value: Values, order: {JsonbOrder}]] : N \in (SUBSET CaseNames) \ {{}}}

LoaderStates == {"start", "found", "missing", "created", "unchanged", "refused", "failed"}
ClientStates == {"start", "found", "dataset_not_found", "read", "created"}

\* Everything has its shape, and a dataset is there with all of its cases or
\* not at all.
TypeOK ==
    /\ datasets \subseteq Keys
    /\ cases \in [Keys -> StoredCases \cup {NoCases}]
    /\ \A k \in Keys : k \in datasets <=> cases[k] # NoCases
    /\ loader \in [Loaders -> [pc: LoaderStates, key: Keys, file: FileCases]]
    /\ client \in [Clients -> [pc: ClientStates, key: Keys, jobs: StoredCases \cup {NoCases}]]

\* The file says what the database has, whatever the order of its keys.
SameContent(file, stored) ==
    /\ DOMAIN file = DOMAIN stored
    /\ \A n \in DOMAIN file : file[n].value = stored[n].value

\* A load that reported success left the database with exactly the cases of
\* its file, for good; of all loads of a dataset one created it; and "Datasets
\* are immutable; bump the version" is said only to a file whose cases differ.
AnswersAreTrue ==
    /\ \A l \in Loaders : loader[l].pc \in {"created", "unchanged"} =>
        Key(l) \in datasets /\ SameContent(File(l), cases[Key(l)])
    /\ \A l, m \in Loaders :
        loader[l].pc = "created" /\ loader[m].pc = "created" /\ Key(l) = Key(m) => l = m
    /\ \A l \in Loaders : loader[l].pc = "refused" => ~SameContent(File(l), cases[Key(l)])

\* "Editing one in place would change what old runs mean": a run has a job
\* for every case of its dataset, as the dataset is now.
RunsKeepMeaning ==
    \A c \in Clients : client[c].pc = "created" =>
        client[c].jobs # NoCases /\ client[c].jobs = cases[client[c].key]
=============================================================================
