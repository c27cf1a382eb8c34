# A verification project for the report normalisation service

The service receives spreadsheets, normalises their columns in the background
following a per-project configuration, and lets the client download and approve
the result.  It is a FastAPI application (`src/src/presentation`) around use
cases (`src/src/application`), SQLAlchemy repositories on PostgreSQL, an S3
object store, and a job queue with a worker (`src/src/infrastructure`).  This
directory holds TLA+ models of its core, the TLC runs that check them, and
TLAPS proofs about them.  Paths below are relative to the repository's `src/src`
unless they start with `docs/` or `tests/`.

## 1. Inventory

| Component | State | Operations | Interacts through |
|---|---|---|---|
| Report pipeline (`application/reports`) | `reports`, `report_executions`, S3 `original.*` | upload, reprocess, list, get, poll, download | reads column configs; writes S3; enqueues a job |
| Worker (`process_report.py`, `worker/tasks.py`) | one transaction per task; S3 `result_*` | load, PROCESSING, process, READY/ERROR, retry | takes jobs; shares the execution row with other workers and with deletes |
| Approval (`submit_feedback.py`) | `reports.approval_status`, `approval_reason` | approve, reject | check-then-update on the report row |
| Column configuration (`application/projects`) | `column_configs` | PUT of the whole list, PATCH of one, detect | read by upload and reprocess, which snapshot it |
| Projects | `projects`, unique (user, name) | create, update, delete (cascade) | everything hangs from a project |
| Dictionary | global and project terms | CRUD, list | partial unique indexes |
| Authentication | `users`, `refresh_tokens`, JWT | register, login, refresh, logout, change password | every route depends on the access token |
| Listings | none | page, page_size, totals | offset/limit queries on rows that others create and delete |
| Normalisation processor | none (pure) | trim, nulls, split, suffixes, abbreviations, accents, capitals; CSV and XLSX | called by the worker |
| Column detector | none (pure) | header and samples of a CSV/XLSX | called by detect |
| Transactions (`persistence/database.py`) | session | begin, flush, commit, rollback | one per request, one per task |

Hard behaviours, in the order of their weight:

* **Three stores, one transaction.**  An upload writes S3, then flushes two rows,
  then enqueues, then answers, and only then commits (`get_db` resumes after the
  response).  A failure at any point leaves what is not transactional behind.
* **The job overtakes the commit.**  A worker may look for a row that is not
  committed; only the task's retry rescues it.
* **At-least-once delivery.**  The use case does not ask for the status, so two
  workers can run one execution; the row lock serialises their commits, not
  their uploads to S3.
* **Configuration moves.**  Configs change between upload, run and reprocess;
  every run must use the snapshot of its row.
* **Deletes.**  A project delete cascades over rows that uploads are inserting
  and workers are updating; S3 objects stay.
* **Check-then-act without locks** in approval, configuration, project and term
  names, password change: what holds is what unique indexes, foreign keys and the
  row locks of the writes still give.
* **Pages over moving rows.**  A listing is one query per page; rows come and go
  between two of them.
* **Three readings of a header**, in detection, upload and processing, and steps
  on texts that work on each other's output.

`PROJECT.json` lists them as hazards at their lines, each with the properties
that would catch it.

What makes each component correct is said by the properties of section 4:
pipeline and worker, column configuration; projects and dictionary: keys are
unique, a delete leaves nothing behind, what is deleted stays deleted, a project
sees each term once; approval: a refusal rests on a committed decision, and the first
decision is that of one answered feedback; authentication: sessions begin and end with answered requests;
listings: a walk misses and repeats no more than what moved; spreadsheets: the
columns that were accepted are rewritten, the others keep their cells, and rewriting
is stable.

## 2. Plan

Order of work, most important first; all of it is written:

1. `ReportPipeline`, with `ReportPipelineProofs`; `ExecutionLifecycle`, what a client
   sees of one execution, `PipelineLifecycle`, the mapping onto it, and
   `PipelineLifecycleProofs`, which goes on with both.
2. `RowUpdate`, `ColumnConfigs`, `ColumnConfigsProofs`: DELETE + INSERT under
   READ COMMITTED, and PATCH.
3. `RowRequests`, `ProjectCatalog`, `Dictionary`, `FeedbackApproval`, composed by
   `Catalog`, with `CatalogProofs`: the three repositories that read an entity and
   write it back.
4. `AuthSessions`, `AuthSessionsProofs`: refresh tokens, logout, password change.
5. `Listing`, `ListingProofs`: pages by offset.
6. `CellText`, `Spreadsheet`, `CellTextProofs`, `SpreadsheetProofs`: detection,
   upload and processing of a file.

Every safety and action property that a run expects to hold is proved for all values
of the constants, and so is the refinement; liveness is model-checked (section 5).

## 3. The models

### 3.1 The pipeline

`ReportPipeline.tla` models upload, reprocess, download, project delete,
configuration change and the worker.  Its actions are the code between two
awaits that other processes can see; a request is a process with a program
counter `pc` and its locals `args`.

| Variable | Code |
|---|---|
| `projects`, `config` | committed rows of `projects` and the enabled columns in `column_configs` |
| `reports`, `executions` | committed rows of `reports` and `report_executions` |
| `originals`, `results` | S3 keys `{project}/{report}/original.*` and `.../result_{execution}.*` |
| `queue`, `redelivered` | job messages `{execution, retries}`; how often a message was handed over twice |
| `unserved` | history variable: executions whose message was dropped, exhausted its retries or died with a worker |
| `pc`, `args`, `outcome` | where a request is, what it has read, how it was answered |
| `work` | per worker: where it is and its copy of the execution row |

Uncommitted rows are private: they are in `args` (requests) and `work` (workers)
until `Commit`, `DeleteCommit` or `TaskCommit`.  What *is* visible before the
commit is what the code writes elsewhere: the S3 object (`UploadSave`,
`ProcessSucceeds`) and the message (`UploadInsert`, `ReprocessInsert`).
PostgreSQL's row locks are guards: a flushed UPDATE or DELETE excludes the other
(`HoldsRow`, `UpdatePending`, `DeletePending`), an uncommitted INSERT keeps its
parents from being deleted (`InsertPending`).  A file is the set of its columns,
a configuration the set of enabled ones, a result the pair of snapshot and file.
A request stands for the `uuid4()` it draws, so its identity is also the row id.

The worker code is `process_report.py`, which is live, within the task of
`infrastructure/worker/tasks.py`, which is written but commented out until
Celery is configured.  `BrokerConnected = TRUE` is that design;
`BrokerConnected = FALSE` is what is wired today (`NoopProcessingQueue`).

Failures: any request may fail before its response (`RequestFails`), the put may
fail after having stored (`SaveFails`), a commit may fail after the response
(`CommitFails`), the processing may raise (`ProcessFails`), the task may raise
outside its try block (`TaskFails`, with `MaxRetries`), a worker may die
(`WorkerCrash`, its message already acknowledged, Celery's default), and a
message may be delivered again (`Receive` with `MaxRedeliveries`).

`ExecutionLifecycle.tla` is the abstract specification of one execution as its
clients see it.  `PipelineLifecycle.tla` states the refinement: `status` is the
committed status, `"gone"` once a request is over without its execution, and
`result` says whether the download has an object to give.  With `RunsAgain`, which
stands for a broker that delivers twice, `FinishAgain` lets a job that has ended
write its row anew; without it an execution finishes once.

### 3.2 Column configurations

`ColumnConfigs.tla` models the rows of `column_configs` of one project under
concurrent PUTs (`configure_columns.py`, `upsert_all`), PATCHes
(`update_column_config.py`, `update`) and the delete of the project.
`ReportPipeline` lets the configuration change in one committed step; this module
is where that is justified: `PutIsWhole` says what a reader of the table finds.

| Variable | Code |
|---|---|
| `exists` | the committed row of `projects` |
| `table` | committed rows; a PUT draws a `uuid4()` per row, so a row is known by its request and column name |
| `pc`, `args`, `outcome` | where a request is; its list or change, the rows it has read, deleted or locked; its answer |
| `overlapped` | history variable: PUTs during which another PUT committed |

A PUT is `PutFind` (the project), `PutDelete` and `PutDeleteEnds` (a READ
COMMITTED DELETE takes its snapshot when it starts, waits for the transactions
that hold rows of it, and deletes what is left), `PutInsert` per row of the flush,
`PutAnswer` and, after the response, `PutCommit`.  An INSERT waits while another
transaction holds its key in the unique index (`WaitsFor`: inserted, or deleted
and not committed), then goes on or raises (`PutConflicts`; `upsert_all` lets the
`IntegrityError` through).  PostgreSQL fails one of those who wait in a circle
(`PutDeadlocks`).  A PATCH is `PatchFind` (read the entity, assign the fields that
were sent), `PatchSelect` (`update()` selects the row again), `PatchFlush` (waits
for the row's lock; `updated_at` always changes, so there is always an UPDATE) and
`PatchCommit`.  `RowUpdate.tla` says what such an update writes: SQLAlchemy sends
the columns whose value differs from the one selected.  Of a row's fields the two
Booleans are kept: two are enough to tell a field that was sent from one that was
not.  `RequestFails` and `CommitFails` end a transaction before and after the
response.

### 3.3 Projects, dictionary and approval

`RowRequests.tla` has what the repositories of projects, of the dictionary and of
reports share: a request reads an entity (`Find`), `update()` or `delete()` selects
the row again (`Select`), the write waits for the row's lock (`Update`, `Delete`),
its key waits for the unique index and enters it or raises (`Enter`, `Taken`),
and the commit follows the response (`Answer`, `Commit`, `CommitFails`).
`ProjectCatalog`, `Dictionary` and `FeedbackApproval` say which request takes
which step with which row and answer; `Catalog` composes them over one table, so
that a delete of a project meets creates, PATCHes and feedbacks below it.

| Variable | Code |
|---|---|
| `table` | committed rows of `projects`, `dictionary_entries` and `reports` of one user; a create draws a `uuid4()`, so it is the id of its row |
| `pc`, `args`, `outcome` | where a request is; what it was asked, the entity it has read, the row it has selected; its answer |

A row is a record of its table, its project, its key and one more field (`text`:
description, context, payload), so that a PATCH can leave something out.
`SameKey` is the unique constraint of projects and the two partial indexes of the
dictionary.  Foreign keys are guards: an uncommitted child keeps its project from
being deleted (`ChildPending`), an INSERT waits for a pending delete of its project
(`ScopeHeld`), and finds it gone (`ScopeExists`), which `create()` answers as a name
in use.  The cascade waits for those who hold a child (`ProjectCascade`).  Reports
are created by uploads, so here they are there from the start.  `Written` of
`RowUpdate.tla` is what makes feedbacks that overlap delicate: an UPDATE leaves out a
column the entity has as it was selected, so status and reason may come from two of
them.  That cannot happen to the first decision (`FirstDecisionIsOne`), and does to
the second (`DecisionsAreWhole`, the run `doc_whole_decision`).

### 3.4 Sessions

`AuthSessions.tla` models the committed refresh tokens and passwords under login,
refresh, logout and change of password.  A token is known by the login that stores
it.  `ChangeRevokeAll` is the UPDATE of all active tokens: its snapshot is taken
when it starts, and `ChangeRevokeEnds` waits for the tokens that others hold.
Register, refresh and `GET /users/me` end where the code ends, in a TypeError or
ValidationError before anything is stored; the rollback of a refresh that has revoked its
token is part of the model (`RefreshRaises`).  Access tokens are signed and kept
nowhere; the model lets them be accepted or not (`Unauthenticated`).

### 3.5 Listings

`Listing.tla` lets a client walk from page 1 on, as far as the last answer says
there are pages, while items are created, committed late and deleted.  `Rows` is the
one SELECT of a page (newest first, OFFSET, LIMIT), `Total` the window count that
comes with its rows, and so is missing from an empty page, `TotalPages` the two
forms of `build()`.

### 3.6 Spreadsheets

`Spreadsheet.tla` takes a file through `Detect`, `Configure`, `Upload` and
`Process`.  Headers are names with or without a space before them and a byte order
mark, since that is what the readings treat differently; rows may be shorter
or longer than the header.  The worker's dictionary of a CSV row goes by the headers as
they are decoded, so `CellOf` compares those: a header with the mark and the same one
without are a repeated column to it, and both get the last one's cell.  Cells are texts
or, in an XLSX, members of `Numbers`: `Str` is what `str()` writes for them, in the
samples and in the result, whether the column is enabled or not.  The samples of a column are the values of its first cells,
in the order of reading, that show one not read before (`NewValues`, `FirstValues`).
`CellText.tla` has the steps on texts, one operator per
function of `normalization_processor.py`: a text is a sequence of words and marks,
a word has letters, an accent or none, and a case.  An accent is one character with
its letter or one that follows it (`"composed"`, `"combining"`): the expressions for
regions are matched against the text with its accents on and expect only the composed
one of "região" (`Seen`, `Sight`), while states and nulls are compared without any
(`Fold`).  The lists of null aliases,
prepositions, acronyms and states are cut down to members that differ in what the
code does with them (one word or several, a separator among them, a name inside
another name).

What a step leaves out of a text or cuts it at is a set of places: `InOrder` counts
them in ascending order, `At` gives the symbols there, `Cut` the pieces between them.
Three notions serve the properties.  `HidesName` is a text with an accent, other than
the expected one, on an acronym or on a word of a region's name: `_abbreviate` and
`_remove_suffixes` look for these before `remove_accents` has been there, so "Tribunál
Regional Federal 1 Região" is only unaccented at first, becomes TRF1 when it is
normalized again, and differs from its spelling without the accent.  `Stable` and
`SpellingsMerge` leave it out where those steps meet.  `Plain` are the words that
are no acronym, those no step may bring in.  `Rewritten` is what holds of each cell
of a result, with the steps that made it.

## 4. Runs

| Run | Instance | Shows |
|---|---|---|
| `pipeline_requests` | 3 requests, 1 worker, 1 retry | `TypeOK`, `ReportIsComplete`, `NoDanglingRows`, `RejectionLeavesNothing`, `IssuedUrlResolves` |
| `pipeline_redelivery` | 2 requests, 2 workers, 1 retry, 1 redelivery | `ReadyHasResult`, `NoSilentStall`, `FinishedStaysFinished`, and `IndInv`, which the proofs use |
| `pipeline_lifecycle` | 2 requests, 2 workers, no redelivery, fair | `ImplementsLifecycle`, `ServedInTheEnd` |
| `configs_requests` | 3 PUTs or PATCHes, 2 columns, 5 lists | `PutIsWhole`, `NamesAreUnique`, `SerialPutReplaces`, `NothingComesBack`, `TypeOK`, and `IndInv`, which the proofs use |
| `configs_liveness` | 3 requests, lists that cross, fair | `EveryRequestEnds` |
| `catalog_requests` | 3 requests, 2 names, a project and a second one, a global term or a report to start with | `KeysAreUnique`, `NoOrphans`, `GoneForGood`, `MergedIsComplete`, `RefusedMeansDecided`, `FirstDecisionIsOne` (of steps), and `IndInv`, which the proofs use and which has `TypeOK` in it |
| `sessions_requests` | 3 requests, 2 users, 2 passwords, fair | `FailureLeavesNothing`, `ChangeEndsSessions`, `EveryRequestEnds`, `TypeOK` |
| `listing_walk` | 4 items, 3 of them listed, pages of 0 to 3, a cap of 2 | `WalkMissesFew`, `WalkRepeatsFew`, and `IndInv`, which the proofs use and which has `TypeOK` in it |
| `spreadsheet_files` | about 480 texts under every combination of steps, 39 files of two columns | `SamplesShowTheColumn`, `CleanFilesGetThrough`, `OthersStay`, `Stable`, `NullsAreGone`, `NothingIsInvented`, `SpellingsMerge`, `TypeOK` |

Bounds of the pipeline.  One project and one column: no property relates two projects, and one
column tells a file that fits a configuration from one that does not.  Three
requests are an upload with a reprocess, download or delete racing on each other
in every combination; two workers and one redelivery are the least that run one
execution at once; one retry gives both a retry and an exhaustion.  Deadlock is
not checked: a request runs once, so a state in which all is done is an end.
Requests and workers are interchangeable (symmetry), except in the temporal
runs, which use none.

Bounds of the configurations.  One project: no row or lock is shared by two.  Two
columns make lists that overlap, are disjoint, cross in order, or repeat a name
(the schema allows it).  Three requests are the least for a PUT that overlaps
another while a third deletes, updates or waits; a circle of waiting needs two.
Requests are interchangeable in the safety run.

Bounds of the catalog.  Three requests are the least for a delete of a project
that races with a create below it and a rename, and for a circle of waiting with a
third party; two names make keys that clash and keys that do not; one kind and one
text are enough for `SameKey` and for a PATCH that leaves something out.  The old rows are
there so that three requests can all be changes.  Requests are interchangeable.

Bounds of the sessions.  Three requests are a login, and a change of password with
a logout or another change beside it; two users tell whose tokens are revoked.

Bounds of the listing.  Four items make two pages of the cap's size, or four of
one, that shift by creations and deletes; one of them is out of scope.  Times are
different: nothing in the code orders two items of the same microsecond.

Bounds of the spreadsheets.  Texts are up to three phrases out of nine (space,
hyphen, slash, bar, a null of one word, a null with a separator, a null of two words
with an accent, an acronym, a plain word), the names of courts, some of them with an
accent of either kind, and an acronym with one.  Files have up to four rows with three
read and two sampled, so that both limits are met, headers that are padded, marked,
missing, repeated, or repeated once they are decoded, and in an XLSX a number beside a
text that is written like it.

Fairness.  A request that has started runs to its end (the event loop schedules
every ready coroutine, and every await on the database or S3 returns or raises),
a task that has been received runs on, and an idle worker takes messages.
Nothing obliges a request to start, a worker to crash, the broker to redeliver or
anybody to change a configuration.  In `ColumnConfigs` a request that has
started goes on whenever it can, and a circle of waiting requests is resolved
(PostgreSQL's deadlock timeout); failures are never obliged to happen, and the
delete of the project neither.  In `AuthSessions` a request that has started goes
on whenever it can.

Runs that end in a violation show where the code departs from a document:

| Run | Document | Code |
|---|---|---|
| `doc_decided_once` | `docs/changelogs/CrudReportsChangelog.md:51`: PENDING to APPROVED or REJECTED, other transitions are refused | two feedbacks read PENDING, both are accepted, the later one overwrites the decision |
| `doc_whole_decision` | `docs/REQUISITOS.md:196-197`: a report is marked approved, or rejected with the reason | of two feedbacks that have selected the pending row, the later one sends only the columns it changes: the report is rejected with the reason of the approval |
| `doc_accepted_columns` | `docs/REQUISITOS.md:86`: the sheet comes back with its columns normalised | a padded header, or a byte order mark before the first one, is accepted by the upload and not found by the worker |

## 5. Proofs

`ReportPipelineProofs.tla` proves, for any sets of requests, projects, columns
and workers and any retry limits (assumptions `ConstantsAssumption` and
`NoneAssumption`: limits are naturals, `None` is none of the values):

* `TypeCorrect`: `Spec => []TypeOK`
* `ResultSafety`: `Spec => []ReadyHasResult`
* `UploadSafety`: `Spec => []ReportIsComplete`
* `NoForgottenJob`: `Spec => []NoSilentStall`
* `FinishedForGood`: `Spec => FinishedStaysFinished`
* `SpecDataInv`: `Spec => []DataInv`, the first half of `IndInv`

The argument.  None of these is inductive.  `ReadyHasResult` is a property of
committed rows, and a step that commits takes the row from a worker's copy, so
the copies must be truthful too (`RowsTruthful`).  A second worker overwrites the
result object of a row that is READY; that is harmless only because both workers
carry the same snapshot and the same report (`CopiesAgree`), and because the
original they read is never written again once a row can name it
(`OriginalsSettled`: the request that stored it is done).  `ReportIsComplete`
needs the same of an upload on its way (`UploadsCovered`: from the comparison on,
the snapshot is covered by the file).  `NoSilentStall` needs that the message
exists from the INSERT on, before there is a row (`JobsAccounted`).  `DataInv` is
the conjunction; there is one step lemma per part, with one step per action.

`PipelineLifecycleProofs.tla` goes on from there, under the same assumptions:

* `NothingDangles`: `Spec => []NoDanglingRows`
* `RejectedForNothing`: `Spec => []RejectionLeavesNothing`
* `UrlsLeadSomewhere`: `Spec => []IssuedUrlResolves`
* `SpecIndInv`: `Spec => []IndInv`, where `IndInv` is `DataInv /\ RowsInv`

The argument.  `NoDanglingRows` is about what is committed, and a commit puts in
rows that were inserted long before.  So what they hang on has to be there, and not
on its way out, from the INSERT to the commit (`InsertsInPlace`); and a worker's
update must not bring back the row of an execution that is being deleted
(`UpdatesInPlace`).  Both are the row locks: of an INSERT and a DELETE of its
parent the later one waits.  A rejected upload leaves no object, row or job because
the checks come before the first of them is written (`ChecksComeFirst`: until then
nothing anywhere bears the request's id, and nobody else can use it).  An issued URL
resolves since an object, once stored, is overwritten but never removed
(`UrlsResolve`).

Its second part proves the refinement, for the same constants and every
`MaxRedeliveries`:

* `Implements`: `Spec => ImplementsLifecycle`
* `SpecLifecycleInv`: `Spec => []LifecycleInv`

The argument.  A step of the pipeline is seen by a client only if it commits: a
creation by the commit of an upload or reprocess, the end of a run by a worker's
commit, and `Vanish` by a delete, for all executions below the project at once, or
by a request that ends without its rows.  All others are stutters.  `Succeed` needs
that the object is there when READY is committed (`RowsTruthful`), and that no
committed row says PROCESSING (`NoneProcessing`).  That a run finishes a QUEUED row,
and no other, holds when messages are delivered once: then an execution has at most
one job, in the queue or with one worker, and as long as there is one the row is
QUEUED (`OneJob`).  When they are delivered again, a run may also end on a finished
row, which is `FinishAgain`.

`ColumnConfigsProofs.tla` proves, for any sets of requests, columns and lists
(`ListsAssumption`: lists are sequences of columns; `NoneAssumption` and
`NoneRowAssumption`: "no value" is neither a Boolean nor a row):

* `SpecPutIsWhole`: `Spec => []PutIsWhole`
* `SpecNamesAreUnique`: `Spec => []NamesAreUnique`
* `SpecSerialPutReplaces`: `Spec => SerialPutReplaces`
* `SpecNothingComesBack`: `Spec => NothingComesBack`
* `SpecTypeOK`, `SpecIndInv`

The argument.  `PutIsWhole` speaks of what is committed, and a commit removes what
its transaction has deleted; so one needs that every uncommitted DELETE takes
another PUT's rows all or none (`DeletesWholePuts`), which holds because its
snapshot is of committed rows and those change a PUT at a time; and that a PUT's
own rows are not among them (`RowsAreCommitted`).  `NamesAreUnique` needs the
index to count uncommitted names (`IndexOK`).  `SerialPutReplaces` needs that
without another PUT's commit all rows there are were in the snapshot
(`AloneSeesAll`).  A PATCH could bring a row back by committing after its delete;
the row lock excludes it (`PatchesHoldTheirRow`).  The proof first sorts the steps
of a request into kinds by what they do to the committed rows and to what the
request holds (`KindStep`, one step per action); types and `ArgsOK` are shown per
action, the other parts per kind.

`CatalogProofs.tla` proves, for any sets of requests, old rows and values
(`IdsAssumption`: requests are not ids of old rows; `NoneAssumption`: "no value" is
neither a row nor an answer; `TablesAssumption`: the old rows have unique keys and existing projects,
as the same indexes and foreign keys have let them in):

* `SpecKeysAreUnique`: `Spec => []KeysAreUnique`
* `SpecNoOrphans`: `Spec => []NoOrphans`
* `SpecMergedIsComplete`: `Spec => []MergedIsComplete`
* `SpecGoneForGood`: `Spec => GoneForGood`
* `SpecRowsInv`: `Spec => []RowsInv`, which has `TypeOK` in it

The argument.  A commit is the only step that changes rows, so what a request has
in hand must be right at any time before it.  `KeysAreUnique` needs that a key in the
index is nobody else's, committed or not (`IndexOK`), and that the row an UPDATE
will leave is the same row until it commits: others' commits do not touch it, because
a row is held by one request (`LocksAreExclusive`) and an UPDATE that has matched its
row keeps it (`UpdatesHoldTheirRow`).  `NoOrphans` needs that the project of a row on
its way in is there and not being deleted (`ScopesAreHeld`): the delete looks for
entered children before it takes the project, the INSERT for a delete that holds it,
and of the two one comes first.  That the cascade holds all children in turn needs
that only projects have any, which is `NoOrphans` again.  An id is created once, by
the request that drew it (`RowsAreSettled`, `ArgsOK`); so a row that was read and is
gone is gone for good.  The steps of a request fall into six kinds by what they do
to rows and locks (`KindStep`), and each part is shown per kind.
`MergedIsComplete` follows from the keys alone (`MergedFromKeys`).

The second part of the module is about the approval:

* `SpecRefusedMeansDecided`: `Spec => []RefusedMeansDecided`
* `SpecFirstDecisionIsOne`: `Spec => FirstDecisionIsOne`
* `SpecIndInv`: `Spec => []IndInv`, where `IndInv` is `RowsInv /\ ApprovalInv`

The argument.  A commit writes the fields in which the entity of the feedback
differs from the row it selected, over the row as it is by then.  So
`FirstDecisionIsOne` needs what a feedback has in hand on every place between reading
and committing: an entity whose status and reason are those it was asked for, and of a
report (`FeedbacksInHand`); that the row it selected is the row that is there, as long as
that is pending (`PendingAsSelected`: nobody but a feedback changes a report, and none
leaves it pending), so that the columns it leaves out are the same in both; and that it
has answered by then (`AnswersStand`), since the commit comes after the response.  That no other request changes a report follows
from the same part.  A refused decision stays a decided report, or a deleted one:
no feedback ever commits PENDING, and an id that is used up is not used again
(`RefusalsStand`).  Each action is first reduced to what it does to the answer
(`AnswerStep`) and to what the request has in hand (`KindStep`).

`AuthSessionsProofs.tla` proves, for any sets of requests, users and passwords and
any users to start with (`RegisteredAssumption`: they have passwords;
`NoneAssumption`: NULL is not a value):

* `SpecFailureLeavesNothing`: `Spec => []FailureLeavesNothing`
* `SpecChangeEndsSessions`: `Spec => []ChangeEndsSessions`
* `SpecTypeOK`: `Spec => []TypeOK`
* `SpecIndInv`: `Spec => []IndInv`

The argument.  `ChangeEndsSessions` speaks of a change that is over, of all tokens
there were when it began.  The UPDATE revokes those of its snapshot, which is taken
later: a token of the first kind may be missing from it only if somebody has revoked
it between (`ChangeOK`), and a revoked token is never made valid again.  A stored
token belongs to a login that is over (`TokensOK`), so nothing
that is still running can put it back.  `FailureLeavesNothing` needs that an answer
other than ok goes with a request that has let go of what it held (`RequestOK`).

`ListingProofs.tla` proves, for any finite set of items, any of them listed, any
page sizes and any positive cap (`ListedAssumption`, `SizesAssumption`):

* `SpecWalkMissesFew`: `Spec => []WalkMissesFew`
* `SpecWalkRepeatsFew`: `Spec => []WalkRepeatsFew`
* `SpecIndInv`: `Spec => []IndInv`

The argument.  An item's place in the listing is the number of newer ones
(`Rank`).  Places are taken by one item each, without gaps (`OnePerPlace`,
`EveryPlaceTaken`: times differ, and a set has as many ranks as items), so a page
holds the items with ranks from the offset to the next one.  A repeat needs an item
that was shown and has been pushed back to the offset or over it (`AtRisk`): a
creation pushes at most one, the one at the last place before the offset, and a
page moves those it shows from there to `Repeats`.  So repeats and items at risk
together are never more than the creations (`RepeatsBounded`).  A miss needs an item
not shown yet that has moved up before the offset (`Skipped`): a delete moves at
most one there, the one at the offset, and a creation none (`MissesBounded`).  When
the walk ends nothing is left behind the last page: the pages it knows of reach to
the end of the listing, and an empty page has nothing at its offset or after it.

`SpreadsheetProofs.tla` proves, for any files (`FilesAssumption`: they are well
formed, an empty cell is no header, only the first header of a CSV is marked, its cells
are texts, and a string with a number behind it is a string), any numbers
(`NumbersAssumption`: each is written as a text that is not empty) and any limits
(`LimitsAssumption`):

* `SpecSamplesShowTheColumn`: `Spec => []SamplesShowTheColumn`
* `SpecCleanFilesGetThrough`: `Spec => []CleanFilesGetThrough`
* `SpecOthersStay`: `Spec => []OthersStay`
* `SpecTypeOK`: `Spec => []TypeOK`
* `SpecIndInv`: `Spec => []IndInv`

The argument.  Each property is about a stage and what the stages before have left:
`IndInv` says that the samples are those of the headers detected, that only these are
configured, that an upload was accepted because its headers cover what is enabled,
and that the result is the file with its cells normalised (`StagesOK`).  Samples are
read row by row; a cell is known by its place in that order, and places have no gaps
(`EveryPlaceTaken`), so that the samples are the first values that have not been read
before, and every value that is read is new exactly once (`ReadForTheFirstTime`,
`NewOnce`).  Clean headers are left alone by all three readings (`CleanHeaders`), and
a header that is no other column's once it is decoded is that of one column, in a CSV
too, where the last one counts (`Distinct`, `CellOfColumn`).

The four properties of texts follow from the same invariant and from what
`CellTextProofs.tla` says of `NormalizeCell` for all texts and all steps:

* `SpecSpellingsMerge`: `Spec => []SpellingsMerge`
* `SpecStable`: `Spec => []Stable`
* `SpecNullsAreGone`: `Spec => []NullsAreGone`
* `SpecNothingIsInvented`: `Spec => []NothingIsInvented`

The argument.  Ascending order is unique (`OneOrder`), so what `At` and `Cut` pick is
known as soon as the places are, without induction over the text.

*Spellings.*  Two texts are `Like` each other when they fold to the same, and `Alike`
when moreover neither hides a name.  Marks, separators and phrases then stand at
the same places in both, those of regions also while accents are on (`SeenAlike`,
`SameRegion`), so every step takes the same branch and leaves them
like or alike (`LikeTrim`, `AlikeSuffixes`, `AlikeAbbreviate`, `LikeSplit`); without
accents, capitalizing leaves them equal (`MergeScalar`, `MergedText`).

*Stability.*  Without suffixes a value comes out as a spelling of itself, trimmed or
not, or of the acronym of a court (`Stems`, `ScalarShape`), and each step leaves such
a text as it is, or makes of it what it has made before (`AbbreviateAgain`,
`CapitalizeAgain`, `ScalarAgain`).  A value becomes no null and no list on its way
(`StemsNull`, `StemsWhole`), so those that are joined are `Settled`: not empty, without
separators, trimmed, no nulls.  A list that is cut again comes apart as it was put
together (`SplitOfJoin`), so its values are the same ones, and none of them is a null
(`CellAgain`, `NullsGoneFromText`).

*Words.*  `From` says that the plain words of a text can be found in another in their
order.  It holds of what each step makes of a text (`FromScalar`); a value of a list
comes from its own piece of the text, between two separators (`TokensPlaced`), and
what comes from one place followed by what comes from a later one comes from both
(`FromAppend`, `FromJoined`, `FromCell`).

`Joined` is a recursive function; what it builds, and facts about it, are shown by
induction over its length, stated of sets of numbers (`Induction`), which the provers
can instantiate.

Only model-checked: liveness, that is `ServedInTheEnd`, and `EveryRequestEnds` of
`ColumnConfigs` and of `AuthSessions`, since the prover does not handle ENABLED.

## 6. Not modelled

Streaming of file contents, CORS, settings, migrations, health and dependency
wiring (no state or no control of their own); read-only routes of single rows,
whose answers are the committed rows above; `progress_percent` and `current_step`,
which nothing updates between 0 and 100; `S3FileStorage.delete`, which nobody
calls.  Of the processor: separators given in the configuration, acronyms written
with a hyphen or a space, and the number of a region written together with what is
beside it.  Of register and refresh: what they would do after the point where they
raise.

Further departures from the documents follow from the actions and have no run:

* PROCESSING is flushed but not committed before READY or ERROR, so no client
  reads it (`docs/REQUISITOS.md:155` lists it).
* With the stub queue wired today an accepted upload is never processed
  (`docs/REQUISITOS.md:154`).
* A redelivered message processes a finished execution again: no status is looked
  at (`process_report.py:18` says QUEUED).  `pipeline_redelivery` shows that READY
  keeps a result of its own snapshot and that nothing is queued again; a second run
  that fails does turn a READY execution into ERROR (`FinishedStaysFinished` allows
  it).
* A failure of the processing is recorded as ERROR at the first attempt; the
  task's retry never sees it (`docs/REQUISITOS.md:170`).
* A reprocess snapshots today's configs without comparing them with the file
  (`CrudReportsChangelog.md:31` calls missing columns blocking).
* An upload with missing columns is answered 422: `routes/reports.py:68` catches
  `ValueError`, a superclass of `ColumnsMismatch`, first
  (`CrudReportsChangelog.md:145` says 409).
* Two overlapping PUTs of configurations with disjoint lists leave the union
  (`domain/projects/repositories.py:33`: replaces the entire set), and the same PUT
  sent twice at once ends in `PutConflicts` for one of the two
  (`docs/changelogs/CrudColumnConfigsChangelog.md:82` calls it repeatable).
* A PATCH writes a field it was not given back as it was read, when another PATCH
  has changed it meanwhile (`CrudColumnConfigsChangelog.md:20`).
* A term created below a project that does not exist is answered 409, name in use
  (`dictionary_repository.py:30` takes every IntegrityError for that).
* Numbers and dates in columns of an XLSX that nobody enabled come back as text
  (`normalization_processor.py:189`; `CrudReportsChangelog.md:32` says the processor
  ignores such columns).  `OthersStay` says that nothing else happens to them.
* Register, refresh and `GET /users/me` build `User`, `AuthenticatedSession` and
  `UserResponse` without the names these require (`register_user.py:39`,
  `refresh_session.py:65`, `routes/users.py:43`) and are answered 500
  (`docs/auth-user-crud.md:95-99` says 201 and the user).
* A login that has verified the old password may store its token after a change
  of password has revoked all there were.
