---------------------------- MODULE ReportPipeline ----------------------------
(***************************************************************************)
(* The life of an uploaded report: HTTP requests that upload, reprocess,   *)
(* download and delete, the rows they write in PostgreSQL, the objects     *)
(* they put in S3, the job messages they enqueue, and the worker that      *)
(* turns a queued execution into a result.                                 *)
(*                                                                         *)
(* One request is one database transaction (get_db): what it inserts is    *)
(* private until its commit, and the commit comes after the response.      *)
(* The object store and the queue are not transactional: a rollback undoes *)
(* neither.                                                                *)
(*                                                                         *)
(* A request runs once.  The uuid4() values it draws for the report and    *)
(* for the execution it creates are modelled by the request itself, which  *)
(* makes them fresh and unique.                                            *)
(***************************************************************************)
EXTENDS Naturals

CONSTANTS
  Requests,          \* HTTP requests; also the ids of the rows they create
  Projects,          \* project ids
  Columns,           \* column names
  Workers,           \* worker processes
  None,              \* "no value": a missing row, object or argument
  MaxRetries,        \* max_retries of the worker's task
  MaxRedeliveries,   \* bound: how often the broker delivers a message again
  BrokerConnected    \* FALSE: NoopProcessingQueue; TRUE: the Celery queue

ASSUME ConstantsAssumption ==
  /\ MaxRetries \in Nat
  /\ MaxRedeliveries \in Nat
  /\ BrokerConnected \in BOOLEAN
  /\ None \notin Requests
  /\ None \notin Projects
  /\ \A S \in SUBSET Columns : S # None

VARIABLES
  projects,     \* committed project rows
  config,       \* committed column configs: the enabled columns of a project
  reports,      \* committed report rows: the project of a report, or None
  executions,   \* committed execution rows, or None
  originals,    \* S3: {project}/{report}/original.{ext}, the file's columns
  results,      \* S3: {project}/{report}/result_{execution}.{ext}
  queue,        \* job messages
  redelivered,  \* how many messages the broker has delivered again
  unserved,     \* history: executions whose job message was lost
  pc,           \* where a request is
  args,         \* what a request has read or drawn so far
  outcome,      \* how a request ended
  work          \* what a worker is doing

dbVars     == <<projects, config, reports, executions>>
queueVars  == <<queue, redelivered, unserved>>
reqVars    == <<pc, args, outcome>>
vars == <<dbVars, originals, results, queueVars, reqVars, work>>

Status == {"QUEUED", "PROCESSING", "READY", "ERROR"}

\* A row of report_executions.  "result" is whether result_file_key is set,
\* "log" whether error_log is set, "snapshot" column_config_snapshot.
Execution == [report : Requests, status : Status, result : BOOLEAN,
              log : BOOLEAN, snapshot : SUBSET Columns]

\* What the processor makes of a file under a snapshot of the column configs.
Result == [config : SUBSET Columns, file : SUBSET Columns]
Processed(snapshot, file) == [config |-> snapshot, file |-> file]

\* How a request may end.
Outcomes == {"ok", "url", "Failure", "FileTooLarge", "ProjectNotFound",
             "ColumnsMismatch", "ReportNotFound", "ReportNotReady"}

ASSUME NoneAssumption ==
  None \notin Execution /\ None \notin Result /\ None \notin Outcomes

Message == [execution : Requests, retries : 0 .. MaxRetries]

NoArgs == [project |-> None, report |-> None, file |-> {}, snapshot |-> {}]

Idle == [pc |-> "idle", execution |-> None, retries |-> 0, row |-> None]

Init ==
  /\ projects = Projects
  /\ config \in [Projects -> SUBSET Columns]
  /\ reports = [q \in Requests |-> None]
  /\ executions = [q \in Requests |-> None]
  /\ originals = [q \in Requests |-> None]
  /\ results = [q \in Requests |-> None]
  /\ queue = {} /\ redelivered = 0 /\ unserved = {}
  /\ pc = [q \in Requests |-> "new"]
  /\ args = [q \in Requests |-> NoArgs]
  /\ outcome = [q \in Requests |-> None]
  /\ work = [w \in Workers |-> Idle]

-------------------------------------------------------------------------------
(* Requests move from place to place and end with an outcome.              *)

Goto(q, from, to) == pc[q] = from /\ pc' = [pc EXCEPT ![q] = to]

End(q, o) ==
  /\ pc' = [pc EXCEPT ![q] = "done"]
  /\ outcome' = [outcome EXCEPT ![q] = o]
  /\ args' = [args EXCEPT ![q] = NoArgs]

\* Row locks of PostgreSQL.  An uncommitted INSERT holds FOR KEY SHARE on the
\* rows its foreign keys name; an uncommitted DELETE holds the row and, by the
\* cascade, the rows below it; the worker's flushed UPDATE holds its row.
HasInserted(q) == pc[q] \in {"inserted", "answered"}
DeletePending(p) ==
  \E q \in Requests : pc[q] = "deleted" /\ args[q].project = p
InsertPending(p) == \E q \in Requests : HasInserted(q) /\ args[q].project = p
HoldsRow(w) == work[w].pc \in {"processing", "finished"}
UpdatePending(p) ==
  \E w \in Workers :
    /\ HoldsRow(w)
    /\ executions[work[w].execution] # None
    /\ reports[executions[work[w].execution].report] = p

\* ProcessingQueue.enqueue_execution: the deployed stub only logs.
Enqueue(x) ==
  /\ queue' = IF BrokerConnected
              THEN queue \cup {[execution |-> x, retries |-> 0]}
              ELSE queue
  /\ unserved' = IF BrokerConnected THEN unserved ELSE unserved \cup {x}
  /\ UNCHANGED redelivered

-------------------------------------------------------------------------------
(* POST /projects/{p}/reports                                              *)

UploadTooLarge(q) ==
  /\ pc[q] = "new"
  /\ End(q, "FileTooLarge")
  /\ UNCHANGED <<dbVars, originals, results, queueVars, work>>

\* Faulty variant: the file is stored before the checks.
FaultyStoresFirst(q, p, f) ==
  /\ p \in projects
  /\ Goto(q, "new", "found")
  /\ args' = [args EXCEPT ![q] = [project |-> p, report |-> q,
                                  file |-> f, snapshot |-> {}]]
  /\ originals' = [originals EXCEPT ![q] = f]
  /\ UNCHANGED <<dbVars, results, queueVars, outcome, work>>

UploadFindProject(q, p, f) ==
  /\ pc[q] = "new"
  /\ \/ /\ p \in projects
        /\ Goto(q, "new", "found")
        /\ args' = [args EXCEPT ![q] = [project |-> p, report |-> q,
                                        file |-> f, snapshot |-> {}]]
        /\ UNCHANGED outcome
     \/ p \notin projects /\ End(q, "ProjectNotFound")
  /\ UNCHANGED <<dbVars, originals, results, queueVars, work>>

\* The configs are read once: the columns compared with the header are the
\* ones the snapshot will hold.
UploadCheckColumns(q) ==
  LET enabled == config[args[q].project]
  IN  /\ pc[q] = "found"
      /\ \/ /\ enabled \subseteq args[q].file
            /\ Goto(q, "found", "checked")
            /\ args' = [args EXCEPT ![q].snapshot = enabled]
            /\ UNCHANGED outcome
         \/ ~(enabled \subseteq args[q].file) /\ End(q, "ColumnsMismatch")
      /\ UNCHANGED <<dbVars, originals, results, queueVars, work>>

UploadSave(q) ==
  /\ Goto(q, "checked", "saved")
  /\ originals' = [originals EXCEPT ![q] = args[q].file]
  /\ UNCHANGED <<dbVars, results, queueVars, args, outcome, work>>

\* Faulty variants: the configs are read again for the snapshot; the job is
\* never enqueued.
FaultyRereadsConfigs(q) ==
  /\ pc[q] = "saved" /\ args[q].project \in projects
  /\ ~DeletePending(args[q].project)
  /\ pc' = [pc EXCEPT ![q] = "inserted"]
  /\ args' = [args EXCEPT ![q].snapshot = config[args[q].project]]
  /\ Enqueue(q)
  /\ UNCHANGED <<dbVars, originals, results, outcome, work>>
FaultyForgetsEnqueue(q) ==
  /\ pc[q] = "saved" /\ args[q].project \in projects
  /\ ~DeletePending(args[q].project)
  /\ Goto(q, "saved", "inserted")
  /\ UNCHANGED <<dbVars, originals, results, queueVars, args, outcome, work>>

\* The report and the execution are flushed, then the job is enqueued, all
\* before the commit.  The INSERT waits for a pending delete of the project
\* and fails (RequestFails) when the project is gone.
UploadInsert(q) ==
  /\ pc[q] = "saved" /\ args[q].project \in projects
  /\ ~DeletePending(args[q].project)
  /\ Goto(q, "saved", "inserted")
  /\ Enqueue(q)
  /\ UNCHANGED <<dbVars, originals, results, args, outcome, work>>

-------------------------------------------------------------------------------
(* POST /reports/{r}/reprocess                                             *)

ReprocessRead(q, r) ==
  /\ pc[q] = "new"
  /\ \/ /\ reports[r] # None
        /\ Goto(q, "new", "read")
        /\ args' = [args EXCEPT ![q] = [project |-> reports[r], report |-> r,
                                        file |-> {},
                                        snapshot |-> config[reports[r]]]]
        /\ UNCHANGED outcome
     \/ reports[r] = None /\ End(q, "ReportNotFound")
  /\ UNCHANGED <<dbVars, originals, results, queueVars, work>>

ReprocessInsert(q) ==
  /\ pc[q] = "read"
  /\ reports[args[q].report] # None
  /\ ~DeletePending(args[q].project)
  /\ Goto(q, "read", "inserted")
  /\ Enqueue(q)
  /\ UNCHANGED <<dbVars, originals, results, args, outcome, work>>

-------------------------------------------------------------------------------
(* The end of a request that inserted rows.                                *)

\* The response is sent first: get_db resumes after it.
Answer(q) ==
  /\ Goto(q, "inserted", "answered")
  /\ outcome' = [outcome EXCEPT ![q] = "ok"]
  /\ UNCHANGED <<dbVars, originals, results, queueVars, args, work>>

QueuedExecution(q) ==
  [report |-> args[q].report, status |-> "QUEUED", result |-> FALSE,
   log |-> FALSE, snapshot |-> args[q].snapshot]

Commit(q) ==
  /\ pc[q] = "answered"
  /\ reports' = IF args[q].report = q
                THEN [reports EXCEPT ![q] = args[q].project] ELSE reports
  /\ executions' = [executions EXCEPT ![q] = QueuedExecution(q)]
  /\ End(q, "ok")
  /\ UNCHANGED <<projects, config, originals, results, queueVars, work>>

\* An exception before the response: the transaction is rolled back and the
\* client gets a 500.  Objects and messages stay.
RequestFails(q) ==
  /\ pc[q] \in {"found", "checked", "saved", "read", "inserted", "toDelete"}
  /\ End(q, "Failure")
  /\ UNCHANGED <<dbVars, originals, results, queueVars, work>>

\* S3 reports a failure of a put it has carried out.
SaveFails(q) ==
  /\ pc[q] = "checked"
  /\ End(q, "Failure")
  /\ originals' = [originals EXCEPT ![q] = args[q].file]
  /\ UNCHANGED <<dbVars, results, queueVars, work>>

\* The commit fails after the client has been told of success.
CommitFails(q) ==
  /\ pc[q] \in {"answered", "deleted"}
  /\ End(q, "ok")
  /\ UNCHANGED <<dbVars, originals, results, queueVars, work>>

-------------------------------------------------------------------------------
(* GET /reports/{r}/executions/{x}/download: READY is checked, then the    *)
(* URL of result_file_key is signed.                                       *)

\* Faulty variant: READY is not asked for.
FaultyDownloadAny(q, x) ==
  /\ executions[x] # None
  /\ Goto(q, "new", "ready")
  /\ args' = [args EXCEPT ![q].report = x]
  /\ UNCHANGED <<dbVars, originals, results, queueVars, outcome, work>>

DownloadCheck(q, x) ==
  /\ pc[q] = "new"
  /\ \/ /\ executions[x] = None
        /\ End(q, "ReportNotFound")
     \/ /\ executions[x] # None
        /\ executions[x].status # "READY"
        /\ End(q, "ReportNotReady")
     \/ /\ executions[x] # None
        /\ executions[x].status = "READY"
        /\ Goto(q, "new", "ready")
        /\ args' = [args EXCEPT ![q].report = x]   \* x names the result's key
        /\ UNCHANGED outcome
  /\ UNCHANGED <<dbVars, originals, results, queueVars, work>>

DownloadSign(q) ==
  /\ Goto(q, "ready", "done")
  /\ outcome' = [outcome EXCEPT ![q] = "url"]
  /\ UNCHANGED <<dbVars, originals, results, queueVars, args, work>>

-------------------------------------------------------------------------------
(* DELETE /projects/{p}                                                    *)

DeleteFind(q, p) ==
  /\ pc[q] = "new"
  /\ \/ /\ p \in projects
        /\ Goto(q, "new", "toDelete")
        /\ args' = [args EXCEPT ![q].project = p]
        /\ UNCHANGED outcome
     \/ p \notin projects /\ End(q, "ProjectNotFound")
  /\ UNCHANGED <<dbVars, originals, results, queueVars, work>>

\* The DELETE waits for every lock on the project's rows.  When another
\* delete commits first, it removes no row and succeeds, or its re-read of
\* the row fails (RequestFails).
DeleteFlush(q) ==
  LET p == args[q].project
  IN  /\ pc[q] = "toDelete"
      /\ \/ /\ p \in projects
            /\ ~DeletePending(p)
            /\ ~InsertPending(p)
            /\ ~UpdatePending(p)
            /\ Goto(q, "toDelete", "deleted")
            /\ UNCHANGED <<args, outcome>>
         \/ p \notin projects /\ End(q, "ok")
      /\ UNCHANGED <<dbVars, originals, results, queueVars, work>>

\* Faulty variant: executions have no cascade.
FaultyNoCascade(q) ==
  LET p == args[q].project
  IN  /\ pc[q] = "deleted"
      /\ projects' = projects \ {p}
      /\ config' = [config EXCEPT ![p] = {}]
      /\ reports' = [r \in Requests |->
                       IF reports[r] = p THEN None ELSE reports[r]]
      /\ End(q, "ok")
      /\ UNCHANGED <<executions, originals, results, queueVars, work>>

\* ON DELETE CASCADE takes column configs, reports and executions with it;
\* the objects in S3 stay.
DeleteCommit(q) ==
  LET p == args[q].project
      doomed == {r \in Requests : reports[r] = p}
  IN  /\ pc[q] = "deleted"
      /\ projects' = projects \ {p}
      /\ config' = [config EXCEPT ![p] = {}]
      /\ reports' = [r \in Requests |->
                       IF r \in doomed THEN None ELSE reports[r]]
      /\ executions' = [x \in Requests |->
                          IF executions[x] = None THEN None
                          ELSE IF executions[x].report \in doomed THEN None
                          ELSE executions[x]]
      /\ End(q, "ok")
      /\ UNCHANGED <<originals, results, queueVars, work>>

\* PUT /projects/{p}/column-configs, committed.
ChangeConfig(p, enabled) ==
  /\ p \in projects
  /\ ~DeletePending(p)
  /\ enabled # config[p]
  /\ config' = [config EXCEPT ![p] = enabled]
  /\ UNCHANGED <<projects, reports, executions, originals, results, queueVars,
                 reqVars, work>>

-------------------------------------------------------------------------------
(* The worker: process_report_task around ProcessReportUseCase.            *)

Become(w, from, record) ==
  work[w].pc = from /\ work' = [work EXCEPT ![w] = record]

\* The broker hands a message over; at-least-once delivery may keep it.
Receive(w, m) ==
  /\ m \in queue
  /\ Become(w, "idle", [pc |-> "received", execution |-> m.execution,
                        retries |-> m.retries, row |-> None])
  /\ \/ queue' = queue \ {m} /\ UNCHANGED redelivered
     \/ /\ redelivered < MaxRedeliveries
        /\ redelivered' = redelivered + 1
        /\ UNCHANGED queue
  /\ UNCHANGED <<dbVars, originals, results, unserved, reqVars>>

\* Faulty variant: a row that is not there yet is taken for a finished job.
FaultySkipsMissing(w) ==
  LET x == work[w].execution
  IN  /\ work[w].pc = "received"
      /\ work' = [work EXCEPT ![w] =
                    IF executions[x] = None THEN Idle
                    ELSE [@ EXCEPT !.pc = "loaded", !.row = executions[x]]]
      /\ UNCHANGED <<dbVars, originals, results, queueVars, reqVars>>

\* get_by_id_no_report_check: no status is asked for.  A missing row raises
\* (TaskFails).
Load(w) ==
  LET x == work[w].execution
  IN  /\ work[w].pc = "received" /\ executions[x] # None
      /\ Become(w, "received", [work[w] EXCEPT !.pc = "loaded",
                                               !.row = executions[x]])
      /\ UNCHANGED <<dbVars, originals, results, queueVars, reqVars>>

\* Faulty variant: PROCESSING is committed on its own.
FaultyCommitsTwice(w) ==
  LET x == work[w].execution
      row == [work[w].row EXCEPT !.status = "PROCESSING"]
  IN  /\ work[w].pc = "loaded" /\ executions[x] # None
      /\ \A v \in Workers : HoldsRow(v) => work[v].execution # x
      /\ ~DeletePending(reports[executions[x].report])
      /\ Become(w, "loaded", [work[w] EXCEPT !.pc = "processing", !.row = row])
      /\ executions' = [executions EXCEPT ![x] = row]
      /\ UNCHANGED <<projects, config, reports, originals, results, queueVars,
                     reqVars>>

\* PROCESSING is flushed: it takes the row lock and is visible to no other
\* transaction.  It waits for whoever holds the row.
Begin(w) ==
  LET x == work[w].execution
  IN  /\ work[w].pc = "loaded" /\ executions[x] # None
      /\ \A v \in Workers : HoldsRow(v) => work[v].execution # x
      /\ ~DeletePending(reports[executions[x].report])
      /\ Become(w, "loaded", [work[w] EXCEPT !.pc = "processing",
                                             !.row.status = "PROCESSING"])
      /\ UNCHANGED <<dbVars, originals, results, queueVars, reqVars>>

\* Faulty variant: the configs of today are used, not the snapshot.
FaultyUsesCurrentConfig(w) ==
  LET x == work[w].execution
      row == work[w].row
  IN  /\ work[w].pc = "processing" /\ originals[row.report] # None
      /\ results' = [results EXCEPT
                       ![x] = Processed(config[reports[row.report]],
                                        originals[row.report])]
      /\ Become(w, "processing",
                [work[w] EXCEPT !.pc = "finished",
                                !.row = [row EXCEPT !.status = "READY",
                                                    !.result = TRUE,
                                                    !.log = FALSE]])
      /\ UNCHANGED <<dbVars, originals, queueVars, reqVars>>

\* The result object is stored before the row says READY.
ProcessSucceeds(w) ==
  LET x == work[w].execution
      row == work[w].row
  IN  /\ work[w].pc = "processing" /\ originals[row.report] # None
      /\ results' = [results EXCEPT
                       ![x] = Processed(row.snapshot, originals[row.report])]
      /\ Become(w, "processing",
                [work[w] EXCEPT !.pc = "finished",
                                !.row = [row EXCEPT !.status = "READY",
                                                    !.result = TRUE,
                                                    !.log = FALSE]])
      /\ UNCHANGED <<dbVars, originals, queueVars, reqVars>>

\* Whatever goes wrong between reading the file and storing the result ends
\* in ERROR; result_file_key keeps the value the row was loaded with.
ProcessFails(w) ==
  /\ Become(w, "processing",
            [work[w] EXCEPT !.pc = "finished",
                            !.row = [@ EXCEPT !.status = "ERROR", !.log = TRUE]])
  /\ UNCHANGED <<dbVars, originals, results, queueVars, reqVars>>

\* Faulty variant: an ERROR is committed and the task is run again all the same.
FaultyRetriesFinished(w) ==
  LET x == work[w].execution
  IN  /\ Become(w, "finished", Idle)
      /\ executions' = [executions EXCEPT ![x] = work[w].row]
      /\ queue' = IF work[w].row.status = "ERROR" /\ work[w].retries < MaxRetries
                  THEN queue \cup {[execution |-> x,
                                    retries |-> work[w].retries + 1]}
                  ELSE queue
      /\ UNCHANGED <<projects, config, reports, originals, results,
                     redelivered, unserved, reqVars>>

\* One commit ends the task: every column the entity carries is written.
TaskCommit(w) ==
  LET x == work[w].execution
  IN  /\ Become(w, "finished", Idle)
      /\ executions' = [executions EXCEPT ![x] = work[w].row]
      /\ UNCHANGED <<projects, config, reports, originals, results, queueVars,
                     reqVars>>

\* Faulty variant: the retries are not counted against max_retries.
FaultyRetriesForever(w) ==
  /\ work[w].pc \in {"received", "loaded", "finished"}
  /\ work' = [work EXCEPT ![w] = Idle]
  /\ queue' = queue \cup {[execution |-> work[w].execution,
                           retries |-> work[w].retries + 1]}
  /\ UNCHANGED <<dbVars, originals, results, redelivered, unserved, reqVars>>

\* An exception outside the try block rolls back and retries the task, up to
\* max_retries times.
TaskFails(w) ==
  LET x == work[w].execution
      again == [execution |-> x, retries |-> work[w].retries + 1]
  IN  /\ work[w].pc \in {"received", "loaded", "finished"}
      /\ work' = [work EXCEPT ![w] = Idle]
      /\ \/ /\ work[w].retries < MaxRetries
            /\ queue' = queue \cup {again}
            /\ UNCHANGED unserved
         \/ /\ work[w].retries = MaxRetries
            /\ unserved' = unserved \cup {x}
            /\ UNCHANGED queue
      /\ UNCHANGED <<dbVars, originals, results, redelivered, reqVars>>

\* The worker process dies: its transaction is rolled back and the message,
\* acknowledged on receipt, is gone.
WorkerCrash(w) ==
  /\ work[w].pc # "idle"
  /\ work' = [work EXCEPT ![w] = Idle]
  /\ unserved' = unserved \cup {work[w].execution}
  /\ UNCHANGED <<dbVars, originals, results, queue, redelivered, reqVars>>

-------------------------------------------------------------------------------
(* Specification                                                           *)

UploadStep(q) ==
  \/ UploadTooLarge(q)
  \/ \E p \in Projects, f \in SUBSET Columns : UploadFindProject(q, p, f)
  \/ UploadCheckColumns(q) \/ UploadSave(q) \/ UploadInsert(q) \/ SaveFails(q)

ReprocessStep(q) ==
  (\E r \in Requests : ReprocessRead(q, r)) \/ ReprocessInsert(q)

DownloadStep(q) ==
  (\E x \in Requests : DownloadCheck(q, x)) \/ DownloadSign(q)

DeleteStep(q) ==
  (\E p \in Projects : DeleteFind(q, p)) \/ DeleteFlush(q) \/ DeleteCommit(q)

RequestStep(q) ==
  \/ UploadStep(q) \/ ReprocessStep(q) \/ DownloadStep(q) \/ DeleteStep(q)
  \/ Answer(q) \/ Commit(q) \/ RequestFails(q) \/ CommitFails(q)

TaskStep(w) ==
  \/ Load(w) \/ Begin(w) \/ ProcessSucceeds(w) \/ ProcessFails(w)
  \/ TaskCommit(w) \/ TaskFails(w)

Next ==
  \/ \E q \in Requests : RequestStep(q)
  \/ \E p \in Projects, c \in SUBSET Columns : ChangeConfig(p, c)
  \/ \E w \in Workers : TaskStep(w) \/ WorkerCrash(w)
  \/ \E w \in Workers, m \in queue : Receive(w, m)

Spec == Init /\ [][Next]_vars

\* A request that has started runs to its end, a task that has been received
\* too, and an idle worker takes messages.
Fairness ==
  /\ \A q \in Requests : WF_vars(pc[q] # "new" /\ RequestStep(q))
  /\ \A w \in Workers : WF_vars(TaskStep(w))
  /\ \A w \in Workers : WF_vars(\E m \in queue : Receive(w, m))

FairSpec == Spec /\ Fairness
-------------------------------------------------------------------------------
(* Properties                                                              *)

Places == {"new", "found", "checked", "saved", "read", "inserted", "answered",
           "ready", "toDelete", "deleted", "done"}
Args == [project : Projects \cup {None}, report : Requests \cup {None},
         file : SUBSET Columns, snapshot : SUBSET Columns]
Work == [pc : {"idle", "received", "loaded", "processing", "finished"},
         execution : Requests \cup {None}, retries : 0 .. MaxRetries,
         row : Execution \cup {None}]

\* Every variable has its type.
TypeOK ==
  /\ projects \subseteq Projects
  /\ config \in [Projects -> SUBSET Columns]
  /\ reports \in [Requests -> Projects \cup {None}]
  /\ executions \in [Requests -> Execution \cup {None}]
  /\ originals \in [Requests -> {None} \cup SUBSET Columns]
  /\ results \in [Requests -> Result \cup {None}]
  /\ queue \subseteq Message
  /\ redelivered \in 0 .. MaxRedeliveries
  /\ unserved \subseteq Requests
  /\ pc \in [Requests -> Places]
  /\ args \in [Requests -> Args]
  /\ outcome \in [Requests -> Outcomes \cup {None}]
  /\ work \in [Workers -> Work]

Exists(x) == executions[x] # None
Finished(x) == Exists(x) /\ executions[x].status \in {"READY", "ERROR"}
Ready(x) == Exists(x) /\ executions[x].status = "READY"

\* An execution whose committed row says READY has result_file_key, no
\* error_log, and its object in the store: made from the original file of its
\* report under the snapshot in the row, whatever the configs are by now and
\* however often the job ran (process_report.py stores before it commits).
ReadyHasResult ==
  \A x \in Requests :
    Ready(x) =>
      /\ executions[x].result
      /\ ~executions[x].log
      /\ results[x] = Processed(executions[x].snapshot,
                                originals[executions[x].report])

\* A committed report has its original file in the store and, from the same
\* commit on, the execution of its upload, whose snapshot enables only columns
\* the file has (the comparison and the snapshot use one reading of the
\* configs, upload_report.py:64).
ReportIsComplete ==
  \A r \in Requests :
    reports[r] # None =>
      /\ originals[r] # None
      /\ Exists(r) /\ executions[r].report = r
      /\ executions[r].snapshot \subseteq originals[r]

\* The cascade and the foreign keys leave no execution without its report and
\* no report without its project, however deletes, inserts and the worker's
\* commit interleave (models/report.py).
NoDanglingRows ==
  /\ \A r \in Requests : reports[r] # None => reports[r] \in projects
  /\ \A x \in Requests : Exists(x) => reports[executions[x].report] # None

\* Somebody still has the job of execution x, or its loss is on record.
Accounted(x) ==
  \/ x \in unserved
  \/ \E m \in queue : m.execution = x
  \/ \E w \in Workers : work[w].pc # "idle" /\ work[w].execution = x

\* An execution that stays QUEUED still has a message in the queue or a worker
\* on it, unless its message was lost: the stub dropped it, its retries ran
\* out while its row was not yet committed, or the worker died.
NoSilentStall ==
  \A x \in Requests :
    Exists(x) /\ executions[x].status = "QUEUED" => Accounted(x)

Rejected(q) ==
  outcome[q] \in {"FileTooLarge", "ProjectNotFound", "ColumnsMismatch"}

\* An upload that is rejected (size, unknown project, missing columns) leaves
\* no object, no row and no message: the checks come before the first write
\* (CrudReportsChangelog.md: "Falhar rapido antes de salvar").
RejectionLeavesNothing ==
  \A q \in Requests :
    Rejected(q) =>
      /\ originals[q] = None /\ reports[q] = None /\ ~Exists(q)
      /\ \A m \in queue : m.execution # q

\* A signed download URL leads to a result, also when the execution has been
\* run again, or its project deleted, since READY was checked
\* (download_result.py checks and signs in separate steps).
IssuedUrlResolves ==
  \A q \in Requests : outcome[q] = "url" => results[args[q].report] # None

\* Whatever the worker does, a poller never sees a finished execution return
\* to QUEUED or PROCESSING, nor its snapshot change: the row is rewritten in
\* one commit (tasks.py:47).
FinishedStaysFinished ==
  [][\A x \in Requests :
       Finished(x) /\ Exists(x)' =>
         Finished(x)' /\ executions'[x].snapshot = executions[x].snapshot]_vars

\* A committed execution is finished in the end, unless it is deleted or its
\* message was lost.
ServedInTheEnd ==
  \A x \in Requests :
    Exists(x) ~> (Finished(x) \/ ~Exists(x) \/ x \in unserved)

-------------------------------------------------------------------------------
(* The inductive strengthening of the safety properties.                   *)

\* What a request has in hand at each place.
Uploading == {"found", "checked", "saved"}
Working == Uploading \cup {"read", "inserted", "answered"}
ArgsOK ==
  \A q \in Requests :
    /\ pc[q] \in Working =>
         args[q].project \in Projects /\ args[q].report \in Requests
    /\ pc[q] \in {"toDelete", "deleted"} => args[q].project \in Projects

\* What a worker has in hand at each place.
WorkOK ==
  \A w \in Workers :
    /\ work[w].pc # "idle" => work[w].execution \in Requests
    /\ work[w].pc \in {"loaded", "processing", "finished"} <=>
         work[w].row # None
    /\ work[w].pc = "finished" => work[w].row.status \in {"READY", "ERROR"}

\* The original of a report is written before any row can name the report, and
\* not again once its request is done.
Settled(r) == pc[r] = "done" /\ originals[r] # None
ReportsSettled == \A r \in Requests : reports[r] # None => Settled(r)
ExecutionsSettled ==
  \A x \in Requests :
    Exists(x) => pc[x] = "done" /\ Settled(executions[x].report)
CopiesSettled ==
  \A w \in Workers :
    work[w].row # None =>
      pc[work[w].execution] = "done" /\ Settled(work[w].row.report)
RequestsSettled ==
  \A q \in Requests :
    /\ pc[q] \in Uploading => args[q].report = q
    /\ pc[q] = "read" => Settled(args[q].report)
    /\ pc[q] = "saved" => originals[q] # None
    /\ HasInserted(q) =>
         \/ args[q].report = q /\ originals[q] # None
         \/ Settled(args[q].report)
OriginalsSettled ==
  ReportsSettled /\ ExecutionsSettled /\ CopiesSettled /\ RequestsSettled

\* The copies of a row agree on what the worker never assigns.
SameRun(a, b) == a.report = b.report /\ a.snapshot = b.snapshot
CopiesAgree ==
  \A w \in Workers :
    work[w].row # None =>
      /\ Exists(work[w].execution) =>
           SameRun(work[w].row, executions[work[w].execution])
      /\ \A v \in Workers :
           work[v].row # None /\ work[v].execution = work[w].execution =>
             SameRun(work[v].row, work[w].row)

\* A row with status READY, committed or about to be, tells the truth.
Truthful(x, row) ==
  row.status = "READY" =>
    /\ row.result /\ ~row.log
    /\ results[x] = Processed(row.snapshot, originals[row.report])
RowsTruthful ==
  /\ \A x \in Requests : Exists(x) => Truthful(x, executions[x])
  /\ \A w \in Workers :
       work[w].pc = "finished" => Truthful(work[w].execution, work[w].row)

\* An upload carries a snapshot that its file covers.
UploadsCovered ==
  \A q \in Requests :
    /\ pc[q] = "checked" => args[q].snapshot \subseteq args[q].file
    /\ pc[q] = "saved" => args[q].snapshot \subseteq originals[q]
    /\ HasInserted(q) /\ args[q].report = q =>
         args[q].snapshot \subseteq originals[q]

\* The job is enqueued before the row is committed, so it is accounted for from
\* the insertion on.
JobsAccounted ==
  \A x \in Requests :
    HasInserted(x) \/ (Exists(x) /\ executions[x].status = "QUEUED") =>
      Accounted(x)

\* What is in hand and in the rows (ReportPipelineProofs).
DataInv ==
  /\ TypeOK /\ ArgsOK /\ WorkOK /\ OriginalsSettled /\ CopiesAgree
  /\ RowsTruthful /\ UploadsCovered /\ JobsAccounted /\ ReportIsComplete

\* The rows a request has inserted below others, or a worker has updated, are
\* locked, and so are those they hang on: no delete of them is under way.
InsertsInPlace ==
  \A q \in Requests :
    /\ pc[q] = "read" /\ reports[args[q].report] # None =>
         reports[args[q].report] = args[q].project
    /\ HasInserted(q) =>
         /\ args[q].project \in projects /\ ~DeletePending(args[q].project)
         /\ args[q].report = q \/ reports[args[q].report] = args[q].project
UpdatesInPlace ==
  \A w \in Workers :
    HoldsRow(w) =>
      /\ Exists(work[w].execution)
      /\ ~DeletePending(reports[executions[work[w].execution].report])

\* Nothing bears the name of a request that has not stored its file.
Untouched(q) ==
  /\ originals[q] = None /\ reports[q] = None /\ ~Exists(q)
  /\ \A m \in queue : m.execution # q
  /\ \A w \in Workers : work[w].pc # "idle" => work[w].execution # q
ChecksComeFirst ==
  \A q \in Requests :
    /\ Rejected(q) => pc[q] = "done"
    /\ pc[q] \in {"new", "found"} \/ Rejected(q) => Untouched(q)

\* A result that has been seen stays.
UrlsResolve ==
  \A q \in Requests :
    /\ outcome[q] = "url" => pc[q] = "done"
    /\ pc[q] = "ready" \/ outcome[q] = "url" =>
         args[q].report \in Requests /\ results[args[q].report] # None

\* What locks, checks and objects keep in place (PipelineLifecycleProofs).
RowsInv ==
  NoDanglingRows /\ InsertsInPlace /\ UpdatesInPlace /\ ChecksComeFirst /\ UrlsResolve

IndInv == DataInv /\ RowsInv
=============================================================================
