--------------------------- MODULE ExperienceStore ---------------------------
(***************************************************************************)
(* The experience store (runtime/experience/store.py), its schema          *)
(* (schema.py) and the adapter through which the runtime writes to it       *)
(* (adapter.py).  Several processes -- the daemon, the learning command,    *)
(* the doctor -- each open the one SQLite file with a connection of their   *)
(* own.                                                                    *)
(*                                                                         *)
(* A call of the store runs under a lock of its process and is short, so   *)
(* it is one step here.  What is not is what a call leaves behind.  The     *)
(* connection opens a transaction by itself before the first INSERT; a     *)
(* call that fails is caught, logged and answered None, and nothing rolls  *)
(* the transaction back.  txn[p] says how far the open one has come:       *)
(*   "none"     no transaction: each SELECT sees what is committed;        *)
(*   "begun"    opened, nothing read yet (an INSERT found the file locked);*)
(*   "reading"  it has read: a snapshot, so far the current one;           *)
(*   "stale"    a snapshot that another process has since written past;    *)
(*   "writing"  it holds the write lock and perhaps uncommitted rows.      *)
(* SQLite (external) gives the rules: one writer at a time, and a          *)
(* transaction with a stale snapshot can never become the writer.          *)
(***************************************************************************)
EXTENDS Naturals, FiniteSets, FiniteSetsExt

CONSTANTS
  Stores,            \* the processes that open the file
  StoreSessions,     \* the review sessions of the runtime
  StoreProjects,     \* the projects they may belong to
  StoreActions,      \* action ids, which name outcomes too
  Labels,            \* categories and results, told apart by the reports
  NoStore,           \* nobody holds the write lock
  Nothing,           \* a NULL column
  SessionLimit,      \* list_sessions answers no more (50)
  RowLimit,          \* the other limited queries answer no more (100)
  MaxRows            \* bound on the rows the model ever commits

\* What the constants must be.
ASSUME StoreAssumption ==
  /\ NoStore \notin Stores
  /\ Nothing \notin StoreSessions \cup StoreProjects
  /\ SessionLimit \in Nat \ {0} /\ RowLimit \in Nat \ {0}
  /\ MaxRows \in Nat

VARIABLES
  schema,   \* [version, altered]: PRAGMA user_version; v5's columns are added
  db,       \* the committed rows
  writer,   \* the store that holds the write lock
  life,     \* life[p]: "closed", a step of opening, "open" or "degraded"
  pending,  \* pending[p]: the migration p applies next (1 while it applies none)
  txn,      \* txn[p]: the transaction of p's connection, as above
  view,     \* view[p]: the rows p's open transaction sees
  told      \* <<table, key>> of each record a call has answered as recorded

storeVars == <<schema, db, writer, life, pending, txn, view, told>>

CURRENT_SCHEMA_VERSION == 5

Row(table, key, session, label) ==
  [table |-> table, key |-> key, session |-> session, label |-> label]

SameRow(r, q) == r.table = q.table /\ r.key = q.key

Usable == {"open", "degraded"}       \* _get_connection hands the connection out

(***************************************************************************)
(* What a statement of p's connection reads.                               *)
(***************************************************************************)
Visible(p) == IF txn[p] \in {"none", "begun"} THEN db ELSE view[p]

Of(rows, table) == {r \in rows : r.table = table}

Known(rows, s) == \E r \in Of(rows, "sessions") : r.key = s

(***************************************************************************)
(* Opening: connect, pragmas, migrations, installation row.  The schema    *)
(* statements (CREATE, ALTER) commit one by one; only the version is set   *)
(* in a transaction.  The migrations before the fifth are IF NOT EXISTS    *)
(* throughout, the fifth adds columns and can run once only.               *)
(***************************************************************************)
StoreInit ==
  /\ schema = [version |-> 0, altered |-> FALSE]
  /\ db = {} /\ told = {}
  /\ writer = NoStore
  /\ life = [p \in Stores |-> "closed"]
  /\ pending = [p \in Stores |-> 1]
  /\ txn = [p \in Stores |-> "none"]
  /\ view = [p \in Stores |-> {}]

OpenConnection(p) ==
  /\ life[p] = "closed"
  /\ IF schema.version = CURRENT_SCHEMA_VERSION
     THEN /\ life' = [life EXCEPT ![p] = "installing"]
          /\ UNCHANGED pending
     ELSE /\ life' = [life EXCEPT ![p] = "migrating"]
          /\ pending' = [pending EXCEPT ![p] = schema.version + 1]
  /\ UNCHANGED <<schema, db, writer, txn, view, told>>

(***************************************************************************)
(* The fifth migration's statements.  A column that is there already, or a *)
(* file another process has locked, ends the opening: the error is kept in *)
(* _init_error, and the connection stays in use.                           *)
(***************************************************************************)
MigrationV5(p) ==
  IF schema.altered \/ writer # NoStore
  THEN /\ life' = [life EXCEPT ![p] = "degraded"]
       /\ pending' = [pending EXCEPT ![p] = 1]
       /\ UNCHANGED schema
  ELSE /\ schema' = [schema EXCEPT !.altered = TRUE]
       /\ life' = [life EXCEPT ![p] = "migrated"]
       /\ UNCHANGED pending

MigrationStatements(p) ==
  /\ life[p] = "migrating"
  /\ IF pending[p] = CURRENT_SCHEMA_VERSION
     THEN MigrationV5(p)
     ELSE /\ life' = [life EXCEPT ![p] = "migrated"]
          /\ UNCHANGED <<schema, pending>>
  /\ UNCHANGED <<db, writer, txn, view, told>>

\* the transaction the driver had begun for an INSERT stays open
OpeningFails(p) ==
  /\ life' = [life EXCEPT ![p] = "degraded"]
  /\ txn' = [txn EXCEPT ![p] = "begun"]
  /\ pending' = [pending EXCEPT ![p] = 1]
  /\ UNCHANGED schema

Overtaken == [q \in Stores |-> IF txn[q] = "reading" THEN "stale" ELSE txn[q]]

\* INSERT OR REPLACE INTO schema_migrations; PRAGMA user_version = v; commit
RecordVersion(p) ==
  /\ life[p] = "migrated"
  /\ IF writer # NoStore
     THEN OpeningFails(p)
     ELSE /\ schema' = [schema EXCEPT !.version = pending[p]]
          /\ IF pending[p] = CURRENT_SCHEMA_VERSION
             THEN /\ life' = [life EXCEPT ![p] = "installing"]
                  /\ pending' = [pending EXCEPT ![p] = 1]
             ELSE /\ life' = [life EXCEPT ![p] = "migrating"]
                  /\ pending' = [pending EXCEPT ![p] = @ + 1]
          /\ txn' = Overtaken
  /\ UNCHANGED <<db, writer, view, told>>

\* the upsert of installation_metadata
RecordInstallation(p) ==
  /\ life[p] = "installing"
  /\ IF writer # NoStore
     THEN OpeningFails(p)
     ELSE /\ life' = [life EXCEPT ![p] = "open"]
          /\ txn' = Overtaken
          /\ UNCHANGED <<schema, pending>>
  /\ UNCHANGED <<db, writer, view, told>>

(***************************************************************************)
(* The three ways a recording call can end.                                *)
(***************************************************************************)
MayWrite(p) == \/ writer = p
               \/ writer = NoStore /\ txn[p] # "stale"

\* "database is locked": the transaction the connection had begun stays open,
\* and has a snapshot if the call had read before
Refused(p, reads) ==
  /\ ~MayWrite(p)
  /\ LET left == IF txn[p] = "none" THEN "begun" ELSE txn[p]
     IN IF reads /\ txn[p] = "begun"
        THEN /\ txn' = [txn EXCEPT ![p] = "reading"]
             /\ view' = [view EXCEPT ![p] = db]
        ELSE /\ txn' = [txn EXCEPT ![p] = left]
             /\ UNCHANGED view
  /\ UNCHANGED <<db, writer, told>>

\* A constraint fails: the statement is undone, the transaction and the write
\* lock stay, with the rows of the statements before it
LeftOpen(p, rows) ==
  /\ MayWrite(p)
  /\ writer' = p
  /\ txn' = [txn EXCEPT ![p] = "writing"]
  /\ view' = [view EXCEPT ![p] = rows]
  /\ UNCHANGED <<db, told>>

\* the record is answered, the commit forgotten
AnswerOnly(p, rows, r) ==
  /\ MayWrite(p)
  /\ told' = told \cup {<<r.table, r.key>>}
  /\ writer' = p
  /\ txn' = [txn EXCEPT ![p] = "writing"]
  /\ view' = [view EXCEPT ![p] = rows]
  /\ UNCHANGED db

Commit(p, rows, r) ==
  /\ MayWrite(p)
  /\ db' = rows
  /\ told' = told \cup {<<r.table, r.key>>}
  /\ writer' = NoStore
  /\ view' = [view EXCEPT ![p] = {}]
  /\ txn' = [Overtaken EXCEPT ![p] = "none"]

Upserted(rows, r) == {q \in rows : ~SameRow(q, r)} \cup {r}

\* connections opened without PRAGMA foreign_keys
BrokenNoKeys(rows, r, upsert) == ~upsert /\ \E q \in rows : SameRow(q, r)

Broken(rows, r, upsert) ==
  \/ r.session # Nothing /\ ~Known(rows, r.session)
  \/ ~upsert /\ \E q \in rows : SameRow(q, r)

RecordRow(p, project, r, upsert, reads) ==
  LET before == Visible(p)
      based  == IF project = Nothing THEN before
                ELSE before \cup {Row("projects", project, Nothing, Nothing)}
      broken == Broken(based, r, upsert)
  IN /\ life[p] \in Usable
     /\ Cardinality(db) < MaxRows
     /\ \/ Refused(p, reads)
        \/ broken /\ LeftOpen(p, based)
        \/ ~broken /\ Commit(p, Upserted(based, r), r)
     /\ UNCHANGED <<schema, life, pending>>

Insert(p, r) == RecordRow(p, Nothing, r, FALSE, FALSE)
Upsert(p, project, r) == RecordRow(p, project, r, TRUE, FALSE)

(***************************************************************************)
(* store.py: the recording operations.  Reference rows have a key of their *)
(* own from AUTOINCREMENT, so they never collide; outcomes, failures and   *)
(* recoveries are inserted by an id the caller chose.                      *)
(***************************************************************************)
RecordSession(p, project, s, status, reads) ==
  RecordRow(p, project, Row("sessions", s, Nothing, status), TRUE, reads)

RecordMission(p, project, s, status) ==
  Upsert(p, project, Row("missions", s, s, status))

RecordActionReference(p, s, a, status) ==
  Upsert(p, Nothing, Row("action_references", <<s, a, status>>, s, status))

RecordTraceReference(p, s) ==
  Upsert(p, Nothing, Row("trace_references", s, s, Nothing))

RecordEvidenceReference(p, s, a) ==
  Upsert(p, Nothing, Row("evidence_references", <<s, a>>, s, Nothing))

RecordOutcome(p, s, a, verdict) ==
  Insert(p, Row("outcomes", a, s, verdict))

RecordFailure(p, s, a, category) ==
  Insert(p, Row("failures", <<a, category>>, s, category))

RecordRecoveryAttempt(p, s, a, result) ==
  Insert(p, Row("recoveries", <<a, result>>, s, result))

(***************************************************************************)
(* adapter.py: what the runtime tells the store, and when.                 *)
(***************************************************************************)
OnSessionCreated(p, s) ==
  \E project \in StoreProjects \cup {Nothing} :
    RecordSession(p, project, s, "INITIALIZING", FALSE)

\* the row is rewritten from the live session; a project is not part of it
OnSessionUpdated(p, s) == RecordSession(p, Nothing, s, "RUNNING", FALSE)

\* reads the row first, and keeps its project
OnSessionClosed(p, s) ==
  \/ \E project \in StoreProjects :
       /\ \E r \in Of(Visible(p), "projects") : r.key = project
       /\ RecordSession(p, project, s, "CLOSED", TRUE)
  \/ RecordSession(p, Nothing, s, "CLOSED", TRUE)

OnMissionAdmitted(p, s) == RecordMission(p, Nothing, s, "ADMITTED")

OnMissionCompleted(p, s) == RecordMission(p, Nothing, s, "COMPLETED")

OnActionRequested(p, s, a) == RecordActionReference(p, s, a, "REQUESTED")

OnActionDispatched(p, s, a) == RecordActionReference(p, s, a, "DISPATCHED")

OnActionSettled(p, s, a) == RecordActionReference(p, s, a, "SETTLED")

OnTraceEvent(p, s) == RecordTraceReference(p, s)

OnEvidenceCreated(p, s, a) == RecordEvidenceReference(p, s, a)

\* outcome_id is made of the action id: a second verification of an action
\* meets the row of the first
OnVerificationCompleted(p, s, a) ==
  \E verdict \in {"PASS", "UNVERIFIED"} : RecordOutcome(p, s, a, verdict)

OnFailureDiagnosed(p, s, a) ==
  \E category \in Labels : RecordFailure(p, s, a, category)

OnRecoveryCompleted(p, s, a) ==
  \E result \in Labels : RecordRecoveryAttempt(p, s, a, result)

(***************************************************************************)
(* store.py: the queries, as functions of the rows the connection sees.    *)
(* Missions, actions and traces are listed whole for one session and up to *)
(* a limit for all; sessions, outcomes, failures and recoveries always up  *)
(* to a limit.  A limited query has the newest rows: times are not         *)
(* modelled, so its answer is one of the sets of that size.                *)
(***************************************************************************)
UpTo(n, limit) == IF n < limit THEN n ELSE limit

Limited(rows, limit) ==
  {list \in SUBSET rows : Cardinality(list) = UpTo(Cardinality(rows), limit)}

GetSession(rows, s) == {r \in Of(rows, "sessions") : r.key = s}

ListSessions(rows) == Limited(Of(rows, "sessions"), SessionLimit)

\* a session, or Nothing for all of them
OfSession(rows, s) == {r \in rows : s = Nothing \/ r.session = s}

WholeIfOf(s, rows) == IF s = Nothing THEN Limited(rows, RowLimit) ELSE {OfSession(rows, s)}

GetMissions(rows, s) == WholeIfOf(s, Of(rows, "missions"))

GetActionReferences(rows, s) == {OfSession(Of(rows, "action_references"), s)}

GetActions(rows, s) ==
  IF s = Nothing THEN Limited(Of(rows, "action_references"), RowLimit)
                 ELSE GetActionReferences(rows, s)

GetEvidenceReferences(rows, s) == OfSession(Of(rows, "evidence_references"), s)

GetTraceReferences(rows, s) == WholeIfOf(s, Of(rows, "trace_references"))

GetOutcomes(rows, s) == Limited(OfSession(Of(rows, "outcomes"), s), RowLimit)

InCategory(rows, category) == {r \in rows : category \in {Nothing, r.label}}

GetFailures(rows, s, category) ==
  Limited(InCategory(OfSession(Of(rows, "failures"), s), category), RowLimit)

GetRecoveryAttempts(rows, s, category) ==
  Limited(InCategory(OfSession(Of(rows, "recoveries"), s), category), RowLimit)

\* the aggregates count in the database, without a limit
CountBy(rows) == [l \in {r.label : r \in rows} |-> Cardinality({r \in rows : r.label = l})]

GetFailureCategoryCounts(rows) == CountBy(Of(rows, "failures"))

GetRecoveryStatistics(rows) ==
  [total |-> Cardinality(Of(rows, "recoveries")), by |-> CountBy(Of(rows, "recoveries"))]

GetVerificationDistribution(rows, s) ==
  [v \in {"PASS", "UNVERIFIED"} |->
     Cardinality({r \in OfSession(Of(rows, "outcomes"), s) : r.label = v})]

GetRecordCounts(rows) ==
  [t \in {r.table : r \in rows} |-> Cardinality(Of(rows, t))]

(***************************************************************************)
(* Any of them reads the file once: a transaction that was only begun gets *)
(* its snapshot here.                                                      *)
(***************************************************************************)
Query(p) ==
  /\ life[p] \in Usable
  /\ IF txn[p] = "begun"
     THEN /\ txn' = [txn EXCEPT ![p] = "reading"]
          /\ view' = [view EXCEPT ![p] = db]
     ELSE UNCHANGED <<txn, view>>
  /\ UNCHANGED <<schema, db, writer, life, pending, told>>

\* get_health_report: an opening error, or PRAGMA integrity_check
Health(p) == IF life[p] = "open" THEN "OK" ELSE "DEGRADED"

(***************************************************************************)
(* Closing the connection and losing the process both roll back.           *)
(***************************************************************************)
Dropped(p) ==
  /\ life' = [life EXCEPT ![p] = "closed"]
  /\ txn' = [txn EXCEPT ![p] = "none"]
  /\ view' = [view EXCEPT ![p] = {}]
  /\ writer' = IF writer = p THEN NoStore ELSE writer
  /\ pending' = [pending EXCEPT ![p] = 1]
  /\ UNCHANGED <<schema, db, told>>

Close(p) == life[p] \in Usable /\ Dropped(p)

StoreCrash(p) == life[p] # "closed" /\ Dropped(p)

Tell(p, s) ==
  \/ OnSessionCreated(p, s) \/ OnSessionUpdated(p, s) \/ OnSessionClosed(p, s)
  \/ OnMissionAdmitted(p, s) \/ OnMissionCompleted(p, s)
  \/ OnTraceEvent(p, s)
  \/ \E a \in StoreActions :
       \/ OnActionRequested(p, s, a) \/ OnActionDispatched(p, s, a)
       \/ OnActionSettled(p, s, a)
       \/ OnEvidenceCreated(p, s, a) \/ OnVerificationCompleted(p, s, a)
       \/ OnFailureDiagnosed(p, s, a) \/ OnRecoveryCompleted(p, s, a)

StoreNext ==
  \E p \in Stores :
    \/ OpenConnection(p) \/ MigrationStatements(p)
    \/ RecordVersion(p) \/ RecordInstallation(p)
    \/ \E s \in StoreSessions : Tell(p, s)
    \/ Query(p) \/ Close(p) \/ StoreCrash(p)

StoreSpec == StoreInit /\ [][StoreNext]_storeVars

StoreTypeOK ==
  /\ schema \in [version : 0 .. CURRENT_SCHEMA_VERSION, altered : BOOLEAN]
  /\ writer \in Stores \cup {NoStore}
  /\ life \in [Stores -> {"closed", "migrating", "migrated", "installing"} \cup Usable]
  /\ pending \in [Stores -> 1 .. CURRENT_SCHEMA_VERSION]
  /\ txn \in [Stores -> {"none", "begun", "reading", "stale", "writing"}]

(***************************************************************************)
(* A record that a call answered is in the file, whatever calls fail,      *)
(* processes die and connections close after it.                           *)
(***************************************************************************)
AnsweredIsCommitted == \A t \in told : \E r \in db : <<r.table, r.key>> = t

(***************************************************************************)
(* To its callers the store is one file that takes one record at a time:   *)
(* whatever snapshots the processes' transactions have, whatever a call    *)
(* that failed has left in one, and whoever dies, no row is lost or        *)
(* rewritten and none gets in that nobody was answered.                    *)
(***************************************************************************)
Promise == INSTANCE ExperienceFile WITH file <- db, answered <- told

StoreIsTransactional == Promise!Spec

(***************************************************************************)
(* A list over all sessions has rows of sessions the file knows only, and  *)
(* one that is shorter than its limit is the lists of all those sessions   *)
(* together: no row got in for a session the file does not know, whichever *)
(* process wrote it, and no session is there twice.                        *)
(***************************************************************************)
Reviewed(rows) == {s \in StoreSessions : GetSession(rows, s) # {}}

ListsAreWhole(rows) ==
  LET Whole(Get(_, _)) ==
        \A list \in Get(rows, Nothing) :
          /\ \A r \in list : r.session \in Reviewed(rows)
          /\ Cardinality(list) < RowLimit =>
               list = UNION {UNION Get(rows, s) : s \in Reviewed(rows)}
      Failures(v, s) == GetFailures(v, s, Nothing)
      Attempts(v, s) == GetRecoveryAttempts(v, s, Nothing)
  IN /\ Whole(GetMissions) /\ Whole(GetActions) /\ Whole(GetTraceReferences)
     /\ Whole(GetOutcomes) /\ Whole(Failures) /\ Whole(Attempts)
     /\ Of(rows, "evidence_references") =
          UNION {GetEvidenceReferences(rows, s) : s \in Reviewed(rows)}
     /\ \A list \in ListSessions(rows) :
          Cardinality(list) < SessionLimit => {r.key : r \in list} = Reviewed(rows)
     /\ \A s \in Reviewed(rows) : Cardinality(GetSession(rows, s)) = 1

(***************************************************************************)
(* The totals are those of the lists, as far as the lists go.              *)
(***************************************************************************)
Total(counts) == MapThenSumSet(LAMBDA l : counts[l], DOMAIN counts)

IsTotalOf(n, lists) == \A list \in lists : Cardinality(list) = UpTo(n, RowLimit)

TotalsAgree(rows) ==
  /\ IsTotalOf(Total(GetFailureCategoryCounts(rows)), GetFailures(rows, Nothing, Nothing))
  /\ IsTotalOf(Total(GetRecoveryStatistics(rows).by), GetRecoveryAttempts(rows, Nothing, Nothing))
  /\ Total(GetRecoveryStatistics(rows).by) = GetRecoveryStatistics(rows).total
  /\ IsTotalOf(Total(GetVerificationDistribution(rows, Nothing)), GetOutcomes(rows, Nothing))
  /\ Total(GetRecordCounts(rows)) = Cardinality(rows)

(***************************************************************************)
(* The reports agree with each other in whatever state a store's           *)
(* transaction is, up to the limits of the lists.                          *)
(***************************************************************************)
ReportsAgree ==
  \A rows \in {Visible(p) : p \in Stores} : ListsAreWhole(rows) /\ TotalsAgree(rows)

(***************************************************************************)
(* "Durable, transactional, local SQLite store" (store.py:4), and health   *)
(* "OK": a store that says so can record when no other store is writing.   *)
(* It cannot once its snapshot is stale, and nothing ever ends that.       *)
(***************************************************************************)
HealthyCanRecord ==
  \A p \in Stores : Health(p) = "OK" /\ writer = NoStore => MayWrite(p)
=============================================================================
