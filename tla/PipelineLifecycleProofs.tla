------------------------ MODULE PipelineLifecycleProofs ------------------------
(***************************************************************************)
(* Proofs about ReportPipeline, continued: the rows and their locks, what  *)
(* a rejected upload leaves, and the URLs of results; and that it          *)
(* implements ExecutionLifecycle, for every set of requests, projects,     *)
(* columns and workers and every bound, with and without a broker that     *)
(* delivers messages twice.                                                *)
(***************************************************************************)
EXTENDS PipelineLifecycle, ReportPipelineProofs

-------------------------------------------------------------------------------
(* The steps, by what they change.                                         *)

\* Nothing but the request's own entries changes in pc, args and outcome.
OthersStay(q) ==
  \A r \in Requests \ {q} :
    pc'[r] = pc[r] /\ args'[r] = args[r] /\ outcome'[r] = outcome[r]

\* No row is touched, nor a worker.
RowsStay == UNCHANGED <<projects, reports, executions, results, work>>

\* The request is over.
Ends(q) ==
  /\ pc'[q] = "done" /\ outcome'[q] # "url" /\ UNCHANGED queue
  /\ outcome'[q] \in {"FileTooLarge", "ProjectNotFound", "ColumnsMismatch"} =>
       pc[q] \in {"new", "found"} /\ UNCHANGED originals

\* It has found what it is about.
Starts(q) ==
  /\ pc[q] = "new" /\ outcome'[q] = outcome[q] /\ UNCHANGED <<queue, originals>>
  /\ \/ pc'[q] \in {"found", "toDelete"}
     \/ /\ pc'[q] = "read" /\ args'[q].report \in Requests
        /\ args'[q].project = reports[args'[q].report]
     \/ pc'[q] = "ready" /\ args'[q].report \in Requests /\ Ready(args'[q].report)

\* It goes on with what it has.
GoesOn(q) ==
  /\ args'[q].project = args[q].project /\ args'[q].report = args[q].report
  /\ pc[q] # "new"
  /\ \/ /\ pc[q] \in {"found", "checked"}
        /\ pc'[q] \in {"checked", "saved"} /\ outcome'[q] = outcome[q]
        /\ UNCHANGED queue
        /\ pc[q] = "found" => UNCHANGED originals
     \/ /\ pc[q] = "toDelete" /\ pc'[q] = "deleted" /\ outcome'[q] = outcome[q]
        /\ ~InsertPending(args[q].project) /\ ~UpdatePending(args[q].project)
        /\ UNCHANGED <<queue, originals>>
     \/ /\ pc[q] = "inserted" /\ pc'[q] = "answered" /\ outcome'[q] = "ok"
        /\ UNCHANGED <<queue, originals>>
     \/ /\ pc[q] = "ready" /\ pc'[q] = "done" /\ outcome'[q] = "url"
        /\ args'[q] = args[q] /\ UNCHANGED <<queue, originals>>

\* It inserts its rows and enqueues the job.
Inserts(q) ==
  /\ args'[q] = args[q] /\ outcome'[q] = outcome[q] /\ UNCHANGED originals
  /\ pc'[q] = "inserted" /\ ~DeletePending(args[q].project)
  /\ \/ pc[q] = "saved" /\ args[q].project \in projects
     \/ pc[q] = "read" /\ reports[args[q].report] # None
  /\ \E job : job.execution = q /\ queue' \subseteq queue \cup {job}

RequestKind(q) ==
  /\ RowsStay /\ OthersStay(q)
  /\ pc[q] # "done"
  /\ \A r \in Requests \ {q} : originals'[r] = originals[r]
  /\ Ends(q) \/ Starts(q) \/ GoesOn(q) \/ Inserts(q)

LEMMA EndFrame ==
  ASSUME TypeOK, NEW q \in Requests, NEW o, End(q, o)
  PROVE  OthersStay(q) /\ pc'[q] = "done" /\ outcome'[q] = o /\ args'[q] = NoArgs
  BY DEF End, OthersStay, TypeOK

LEMMA StayFrame ==
  ASSUME TypeOK, NEW q \in Requests, NEW from, NEW to, Goto(q, from, to),
         UNCHANGED <<args, outcome>>
  PROVE  OthersStay(q) /\ pc[q] = from /\ pc'[q] = to /\ args'[q] = args[q]
         /\ outcome'[q] = outcome[q]
  BY DEF Goto, OthersStay, TypeOK

\* A request that ends where it stands.
LEMMA EndKind ==
  ASSUME TypeOK, NEW q \in Requests, NEW o \in Outcomes, End(q, o), o # "url",
         RowsStay, UNCHANGED queue, pc[q] # "done",
         \A r \in Requests \ {q} : originals'[r] = originals[r],
         o \in {"FileTooLarge", "ProjectNotFound", "ColumnsMismatch"} =>
           pc[q] \in {"new", "found"} /\ UNCHANGED originals
  PROVE  RequestKind(q)
  BY EndFrame DEF RequestKind, Ends

LEMMA EnqueuedJob ==
  ASSUME NEW q \in Requests, Enqueue(q)
  PROVE  \E job : job.execution = q /\ queue' \subseteq queue \cup {job}
<1>. DEFINE job == [execution |-> q, retries |-> 0]
<1>1. job.execution = q
  OBVIOUS
<1>2. queue' \subseteq queue \cup {job}
  BY DEF Enqueue
<1>. QED
  BY <1>1, <1>2

LEMMA UploadKind ==
  ASSUME DataInv, NEW q \in Requests, UploadStep(q)
  PROVE  RequestKind(q)
<1>. USE DEF dbVars, queueVars, RowsStay
<1>0. TypeOK
  BY DEF DataInv
<1>1. CASE UploadTooLarge(q)
  BY <1>0, <1>1, EndKind DEF UploadTooLarge, Outcomes
<1>2. ASSUME NEW p \in Projects, NEW f \in SUBSET Columns, UploadFindProject(q, p, f)
      PROVE  RequestKind(q)
  <2>1. CASE p \notin projects
    BY <1>0, <1>2, <2>1, EndKind DEF UploadFindProject, Outcomes
  <2>2. CASE p \in projects
    <3>. DEFINE a == [project |-> p, report |-> q, file |-> f, snapshot |-> {}]
    <3>1. Goto(q, "new", "found") /\ args' = [args EXCEPT ![q] = a] /\ UNCHANGED outcome
      BY <1>2, <2>2 DEF UploadFindProject
    <3>. HIDE DEF a
    <3>4. /\ OthersStay(q) /\ args'[q] = a /\ outcome'[q] = outcome[q]
          /\ pc[q] = "new" /\ pc'[q] = "found"
      BY <1>0, <3>1 DEF Goto, OthersStay, TypeOK
    <3>. QED BY <1>0, <1>2, <3>1, <3>4 DEF UploadFindProject, RequestKind, Starts
  <2>. QED BY <2>1, <2>2
<1>3. CASE UploadCheckColumns(q)
  <2>1. CASE ~(config[args[q].project] \subseteq args[q].file)
    BY <1>0, <1>3, <2>1, EndKind DEF UploadCheckColumns, Outcomes
  <2>2. CASE config[args[q].project] \subseteq args[q].file
    <3>. DEFINE a == [args[q] EXCEPT !.snapshot = config[args[q].project]]
    <3>1. /\ Goto(q, "found", "checked") /\ args' = [args EXCEPT ![q] = a]
          /\ UNCHANGED outcome
      BY <1>3, <2>2 DEF UploadCheckColumns
    <3>2. a.project = args[q].project /\ a.report = args[q].report
      BY <1>0 DEF TypeOK, Args
    <3>. HIDE DEF a
    <3>4. /\ OthersStay(q) /\ args'[q] = a /\ outcome'[q] = outcome[q]
          /\ pc[q] = "found" /\ pc'[q] = "checked"
      BY <1>0, <3>1 DEF Goto, OthersStay, TypeOK
    <3>. QED BY <1>0, <1>3, <3>1, <3>2, <3>4 DEF UploadCheckColumns, RequestKind, GoesOn
  <2>. QED BY <2>1, <2>2
<1>4. CASE UploadSave(q)
  BY <1>0, <1>4, StayFrame DEF UploadSave, RequestKind, GoesOn, TypeOK
<1>5. CASE UploadInsert(q)
  <2>1. \E job : job.execution = q /\ queue' \subseteq queue \cup {job}
    BY <1>5, EnqueuedJob DEF UploadInsert
  <2>. QED BY <1>0, <1>5, <2>1, StayFrame DEF UploadInsert, Enqueue, RequestKind, Inserts
<1>6. CASE SaveFails(q)
  <2>1. \A r \in Requests \ {q} : originals'[r] = originals[r]
    BY <1>0, <1>6 DEF SaveFails, TypeOK
  <2>. QED BY <1>0, <1>6, <2>1, EndKind DEF SaveFails, Outcomes
<1>. QED
  BY <1>1, <1>2, <1>3, <1>4, <1>5, <1>6 DEF UploadStep

LEMMA ReprocessKind ==
  ASSUME DataInv, NEW q \in Requests, ReprocessStep(q)
  PROVE  RequestKind(q)
<1>. USE DEF dbVars, queueVars, RowsStay
<1>0. TypeOK
  BY DEF DataInv
<1>1. ASSUME NEW r \in Requests, ReprocessRead(q, r)
      PROVE  RequestKind(q)
  <2>1. CASE reports[r] = None
    BY <1>0, <1>1, <2>1, EndKind DEF ReprocessRead, Outcomes
  <2>2. CASE reports[r] # None
    <3>. DEFINE a == [project |-> reports[r], report |-> r, file |-> {},
                      snapshot |-> config[reports[r]]]
    <3>1. Goto(q, "new", "read") /\ args' = [args EXCEPT ![q] = a] /\ UNCHANGED outcome
      BY <1>1, <2>2 DEF ReprocessRead
    <3>2. a.project = reports[r] /\ a.report = r
      OBVIOUS
    <3>. HIDE DEF a
    <3>4. /\ OthersStay(q) /\ args'[q] = a /\ outcome'[q] = outcome[q]
          /\ pc[q] = "new" /\ pc'[q] = "read"
      BY <1>0, <3>1 DEF Goto, OthersStay, TypeOK
    <3>. QED BY <1>0, <1>1, <3>1, <3>2, <3>4 DEF ReprocessRead, RequestKind, Starts
  <2>. QED BY <2>1, <2>2
<1>2. CASE ReprocessInsert(q)
  <2>1. \E job : job.execution = q /\ queue' \subseteq queue \cup {job}
    BY <1>2, EnqueuedJob DEF ReprocessInsert
  <2>. QED BY <1>0, <1>2, <2>1, StayFrame DEF ReprocessInsert, Enqueue, RequestKind, Inserts
<1>. QED
  BY <1>1, <1>2 DEF ReprocessStep

LEMMA DownloadKind ==
  ASSUME DataInv, NEW q \in Requests, DownloadStep(q)
  PROVE  RequestKind(q)
<1>. USE DEF dbVars, queueVars, RowsStay
<1>0. TypeOK
  BY DEF DataInv
<1>1. ASSUME NEW x \in Requests, DownloadCheck(q, x)
      PROVE  RequestKind(q)
  <2>1. CASE End(q, "ReportNotFound") \/ End(q, "ReportNotReady")
    BY <1>0, <1>1, <2>1, EndKind DEF DownloadCheck, Outcomes
  <2>2. CASE ~(End(q, "ReportNotFound") \/ End(q, "ReportNotReady"))
    <3>. DEFINE a == [args[q] EXCEPT !.report = x]
    <3>1. /\ Goto(q, "new", "ready") /\ args' = [args EXCEPT ![q] = a]
          /\ UNCHANGED outcome /\ Ready(x)
      BY <1>1, <2>2 DEF DownloadCheck, Ready, Exists
    <3>2. a.report = x
      BY <1>0 DEF TypeOK, Args
    <3>. HIDE DEF a
    <3>4. /\ OthersStay(q) /\ args'[q] = a /\ outcome'[q] = outcome[q]
          /\ pc[q] = "new" /\ pc'[q] = "ready"
      BY <1>0, <3>1 DEF Goto, OthersStay, TypeOK
    <3>. QED BY <1>0, <1>1, <3>1, <3>2, <3>4 DEF DownloadCheck, RequestKind, Starts
  <2>. QED BY <2>1, <2>2
<1>2. CASE DownloadSign(q)
  BY <1>0, <1>2 DEF DownloadSign, Goto, RequestKind, GoesOn, OthersStay, TypeOK
<1>. QED
  BY <1>1, <1>2 DEF DownloadStep

LEMMA DeleteKind ==
  ASSUME DataInv, NEW q \in Requests, DeleteStep(q)
  PROVE  RequestKind(q) \/ DeleteCommit(q)
<1>. USE DEF dbVars, queueVars, RowsStay
<1>0. TypeOK
  BY DEF DataInv
<1>1. ASSUME NEW p \in Projects, DeleteFind(q, p)
      PROVE  RequestKind(q)
  <2>1. CASE p \notin projects
    BY <1>0, <1>1, <2>1, EndKind DEF DeleteFind, Outcomes
  <2>2. CASE p \in projects
    <3>. DEFINE a == [args[q] EXCEPT !.project = p]
    <3>1. /\ Goto(q, "new", "toDelete") /\ args' = [args EXCEPT ![q] = a]
          /\ UNCHANGED outcome
      BY <1>1, <2>2 DEF DeleteFind
    <3>. HIDE DEF a
    <3>4. /\ OthersStay(q) /\ args'[q] = a /\ outcome'[q] = outcome[q]
          /\ pc[q] = "new" /\ pc'[q] = "toDelete"
      BY <1>0, <3>1 DEF Goto, OthersStay, TypeOK
    <3>. QED BY <1>0, <1>1, <3>1, <3>4 DEF DeleteFind, RequestKind, Starts
  <2>. QED BY <2>1, <2>2
<1>2. CASE DeleteFlush(q)
  <2>1. CASE args[q].project \in projects
    BY <1>0, <1>2, <2>1, StayFrame DEF DeleteFlush, RequestKind, GoesOn
  <2>2. CASE args[q].project \notin projects
    BY <1>0, <1>2, <2>2, EndKind DEF DeleteFlush, Outcomes
  <2>. QED BY <2>1, <2>2
<1>. QED
  BY <1>1, <1>2 DEF DeleteStep

\* A step of a request that does not commit rows.
LEMMA RequestStepKind ==
  ASSUME DataInv, NEW q \in Requests, RequestStep(q)
  PROVE  RequestKind(q) \/ Commit(q) \/ DeleteCommit(q)
<1>. USE DEF dbVars, queueVars, RowsStay
<1>0. TypeOK
  BY DEF DataInv
<1>1. CASE Answer(q)
  BY <1>0, <1>1 DEF Answer, Goto, RequestKind, GoesOn, OthersStay, TypeOK
<1>2. CASE RequestFails(q)
  BY <1>0, <1>2, EndKind DEF RequestFails, Outcomes
<1>3. CASE CommitFails(q)
  BY <1>0, <1>3, EndKind DEF CommitFails, Outcomes
<1>. QED
  BY <1>1, <1>2, <1>3, UploadKind, ReprocessKind, DownloadKind, DeleteKind
  DEF RequestStep

\* A step of a worker.
WorkerKind(w) ==
  /\ UNCHANGED <<projects, reports, originals, pc, args, outcome>>
  /\ \A v \in Workers \ {w} : work'[v] = work[v]
  /\ \A x \in Requests : results[x] # None => results'[x] # None
  /\ \A m \in queue' :
       m \in queue \/ (work[w].pc # "idle" /\ m.execution = work[w].execution)
  /\ work'[w].pc # "idle" =>
       \/ work[w].pc # "idle" /\ work'[w].execution = work[w].execution
       \/ work[w].pc = "idle" /\ \E m \in queue : m.execution = work'[w].execution
  /\ work'[w].pc \in {"processing", "finished"} =>
       /\ UNCHANGED executions
       /\ \/ HoldsRow(w)
          \/ LET x == work'[w].execution
             IN  Exists(x) /\ ~DeletePending(reports[executions[x].report])
  /\ UNCHANGED executions \/ (TaskCommit(w) /\ work[w].row \in Execution)

LEMMA WorkerStepKind ==
  ASSUME DataInv, NEW w \in Workers,
         TaskStep(w) \/ WorkerCrash(w) \/ \E m \in queue : Receive(w, m)
  PROVE  WorkerKind(w)
<1>. USE DEF dbVars, queueVars, reqVars, HoldsRow
<1>0. TypeOK /\ WorkOK /\ work \in [Workers -> Work]
  BY DEF DataInv, TypeOK
<1>i. Idle.pc = "idle"
  BY DEF Idle
<1>1. CASE Load(w)
  <2>. DEFINE a == [work[w] EXCEPT !.pc = "loaded", !.row = executions[work[w].execution]]
  <2>1. work' = [work EXCEPT ![w] = a] /\ work[w].pc = "received"
    BY <1>1 DEF Load, Become
  <2>2. a.pc = "loaded" /\ a.execution = work[w].execution
    BY <1>0 DEF Work
  <2>. HIDE DEF a
  <2>3. work'[w] = a /\ \A v \in Workers \ {w} : work'[v] = work[v]
    BY <1>0, <2>1
  <2>. QED BY <1>1, <2>1, <2>2, <2>3 DEF Load, WorkerKind
<1>2. CASE Begin(w)
  BY <1>0, <1>2, RowFrame DEF Begin, Become, WorkerKind, Exists
<1>3. CASE ProcessSucceeds(w)
  <2>1. originals[work[w].row.report] \in SUBSET Columns
        /\ work[w].row \in Execution /\ work[w].pc = "processing"
    BY <1>0, <1>3, RowFrame DEF ProcessSucceeds, TypeOK, Execution
  <2>2. Processed(work[w].row.snapshot, originals[work[w].row.report]) \in Result
    BY <2>1 DEF Processed, Result, Execution
  <2>3. \A x \in Requests : results[x] # None => results'[x] # None
    BY <1>0, <1>3, <2>2, NoneAssumption DEF ProcessSucceeds, TypeOK
  <2>. QED BY <1>0, <1>3, <2>1, <2>3, RowFrame DEF ProcessSucceeds, WorkerKind
<1>4. CASE ProcessFails(w)
  BY <1>0, <1>4, RowFrame DEF ProcessFails, Become, WorkerKind
<1>5. CASE TaskCommit(w)
  <2>1. work[w].row \in Execution
    BY <1>0, <1>5, RowFrame DEF TaskCommit, Become, WorkOK
  <2>. QED BY <1>0, <1>5, <1>i, <2>1 DEF TaskCommit, Become, WorkerKind
<1>6. CASE TaskFails(w)
  BY <1>0, <1>6, <1>i DEF TaskFails, WorkerKind
<1>7. CASE WorkerCrash(w)
  BY <1>0, <1>7, <1>i DEF WorkerCrash, WorkerKind
<1>8. ASSUME NEW m \in queue, Receive(w, m)
      PROVE  WorkerKind(w)
  <2>. DEFINE a == [pc |-> "received", execution |-> m.execution,
                    retries |-> m.retries, row |-> None]
  <2>1. work' = [work EXCEPT ![w] = a] /\ work[w].pc = "idle"
    BY <1>8 DEF Receive, Become
  <2>2. a.pc = "received" /\ a.execution = m.execution
    OBVIOUS
  <2>. HIDE DEF a
  <2>3. work'[w] = a /\ \A v \in Workers \ {w} : work'[v] = work[v]
    BY <1>0, <2>1
  <2>. QED BY <1>8, <2>1, <2>2, <2>3 DEF Receive, WorkerKind
<1>. QED
  BY <1>1, <1>2, <1>3, <1>4, <1>5, <1>6, <1>7, <1>8 DEF TaskStep

\* Every step is of one kind.
LEMMA NextKinds ==
  ASSUME DataInv, [Next]_vars
  PROVE  \/ \E q \in Requests : RequestKind(q) \/ Commit(q) \/ DeleteCommit(q)
         \/ \E w \in Workers : WorkerKind(w)
         \/ UNCHANGED <<projects, reports, executions, originals, results, queue,
                        pc, args, outcome, work>>
<1>1. ASSUME NEW p \in Projects, NEW c \in SUBSET Columns, ChangeConfig(p, c)
      PROVE  UNCHANGED <<projects, reports, executions, originals, results, queue,
                         pc, args, outcome, work>>
  BY <1>1 DEF ChangeConfig, reqVars, queueVars
<1>. QED
  BY <1>1, RequestStepKind, WorkerStepKind
  DEF Next, vars, dbVars, reqVars, queueVars

-------------------------------------------------------------------------------
(* Rows and locks.                                                         *)

\* What a commit of an upload or a reprocess writes.
LEMMA CommitFrame ==
  ASSUME DataInv, NEW q \in Requests, Commit(q)
  PROVE  /\ OthersStay(q) /\ pc[q] = "answered" /\ pc'[q] = "done" /\ outcome'[q] = "ok"
         /\ reports[q] = None /\ executions[q] = None
         /\ reports'[q] = IF args[q].report = q THEN args[q].project ELSE None
         /\ executions'[q] # None /\ executions'[q].report = args[q].report
         /\ executions'[q].status = "QUEUED"
         /\ \A r \in Requests \ {q} :
              reports'[r] = reports[r] /\ executions'[r] = executions[r]
         /\ args[q].project \in Projects /\ args[q].report \in Requests
         /\ UNCHANGED <<projects, originals, results, queue, work>>
<1>1. /\ TypeOK /\ ArgsOK /\ ReportsSettled /\ ExecutionsSettled
  BY DEF DataInv, OriginalsSettled
<1>2. pc[q] = "answered" /\ reports[q] = None /\ executions[q] = None
  BY <1>1 DEF Commit, ReportsSettled, Settled, ExecutionsSettled, Exists
<1>3. args[q].project \in Projects /\ args[q].report \in Requests /\ args[q] \in Args
  BY <1>1, <1>2 DEF ArgsOK, Working, TypeOK
<1>4. /\ QueuedExecution(q) \in Execution /\ QueuedExecution(q).report = args[q].report
      /\ QueuedExecution(q).status = "QUEUED"
  BY <1>3 DEF QueuedExecution, Execution, Status, Args
<1>5. End(q, "ok") /\ UNCHANGED <<projects, originals, results, queue, work>>
  BY DEF Commit, queueVars
<1>6. OthersStay(q) /\ pc'[q] = "done" /\ outcome'[q] = "ok"
  BY <1>1, <1>5 DEF End, OthersStay, TypeOK
<1>7. /\ executions'[q] = QueuedExecution(q)
      /\ \A r \in Requests \ {q} : executions'[r] = executions[r]
  BY <1>1 DEF Commit, TypeOK
<1>8. /\ reports'[q] = IF args[q].report = q THEN args[q].project ELSE None
      /\ \A r \in Requests \ {q} : reports'[r] = reports[r]
  BY <1>1, <1>2 DEF Commit, TypeOK
<1>. QED
  BY <1>2, <1>3, <1>4, <1>5, <1>6, <1>7, <1>8, NoneAssumption

\* What a committed delete takes away.
LEMMA DeleteFrame ==
  ASSUME DataInv, NEW q \in Requests, DeleteCommit(q)
  PROVE  /\ OthersStay(q) /\ pc[q] = "deleted" /\ pc'[q] = "done" /\ outcome'[q] = "ok"
         /\ args[q].project \in Projects
         /\ projects' = projects \ {args[q].project}
         /\ \A r \in Requests :
              reports'[r] = IF reports[r] = args[q].project THEN None ELSE reports[r]
         /\ \A x \in Requests :
              executions'[x] = IF executions[x] # None /\
                                  reports[executions[x].report] = args[q].project
                               THEN None ELSE executions[x]
         /\ UNCHANGED <<originals, results, queue, work>>
<1>1. TypeOK /\ ArgsOK
  BY DEF DataInv
<1>2. pc[q] = "deleted" /\ End(q, "ok") /\ UNCHANGED <<originals, results, queue, work>>
      /\ projects' = projects \ {args[q].project}
  BY DEF DeleteCommit, queueVars
<1>3. OthersStay(q) /\ pc'[q] = "done" /\ outcome'[q] = "ok"
  BY <1>1, <1>2 DEF End, OthersStay, TypeOK
<1>4. \A r \in Requests :
        reports'[r] = IF reports[r] = args[q].project THEN None ELSE reports[r]
  BY DEF DeleteCommit
<1>5. ASSUME NEW x \in Requests
      PROVE  executions'[x] = IF executions[x] # None /\
                                 reports[executions[x].report] = args[q].project
                              THEN None ELSE executions[x]
  <2>1. executions[x] # None => executions[x].report \in Requests
    BY <1>1 DEF TypeOK, Execution
  <2>. QED BY <2>1 DEF DeleteCommit
<1>. QED
  BY <1>1, <1>2, <1>3, <1>4, <1>5 DEF ArgsOK

\* What a worker's commit writes.
LEMMA TaskFrame ==
  ASSUME DataInv, NEW w \in Workers, WorkerKind(w), NEW x \in Requests
  PROVE  \/ executions'[x] = executions[x]
         \/ /\ work[w].pc = "finished" /\ work[w].execution = x
            /\ executions'[x] = work[w].row /\ executions'[x] # None
            /\ Exists(x) => executions'[x].report = executions[x].report
<1>1. /\ TypeOK /\ CopiesAgree /\ executions \in [Requests -> Execution \cup {None}]
  BY DEF DataInv, TypeOK
<1>2. CASE UNCHANGED executions
  BY <1>2
<1>3. CASE TaskCommit(w) /\ work[w].row \in Execution
  <2>1. /\ work[w].pc = "finished" /\ work[w].row # None
        /\ executions' = [executions EXCEPT ![work[w].execution] = work[w].row]
    BY <1>3, NoneAssumption DEF TaskCommit, Become
  <2>2. Exists(work[w].execution) =>
          work[w].row.report = executions[work[w].execution].report
    BY <1>1, <2>1 DEF CopiesAgree, SameRun
  <2>. QED BY <1>1, <2>1, <2>2
<1>. QED
  BY <1>2, <1>3 DEF WorkerKind

\* A delete becomes pending by taking the locks of its project's rows.
LEMMA PendingFrame ==
  ASSUME DataInv, [Next]_vars, NEW p
  PROVE  DeletePending(p)' =>
           \/ DeletePending(p)
           \/ /\ ~InsertPending(p) /\ ~UpdatePending(p)
              /\ \E q \in Requests :
                   RequestKind(q) /\ pc'[q] = "deleted" /\ args'[q].project = p
<1>. SUFFICES ASSUME NEW r \in Requests, pc'[r] = "deleted", args'[r].project = p,
                     ~DeletePending(p)
              PROVE  /\ ~InsertPending(p) /\ ~UpdatePending(p)
                     /\ \E q \in Requests :
                          RequestKind(q) /\ pc'[q] = "deleted" /\ args'[q].project = p
  BY DEF DeletePending
<1>1. ~(pc[r] = "deleted" /\ args[r].project = p)
  BY DEF DeletePending
<1>2. ASSUME NEW q \in Requests, RequestKind(q)
      PROVE  q = r /\ ~InsertPending(p) /\ ~UpdatePending(p)
  <2>1. q = r
    BY <1>1, <1>2 DEF RequestKind, OthersStay
  <2>2. GoesOn(q)
    BY <1>2, <2>1 DEF RequestKind, Ends, Starts, Inserts
  <2>. QED BY <2>1, <2>2 DEF GoesOn
<1>3. ASSUME NEW q \in Requests, Commit(q) \/ DeleteCommit(q)
      PROVE  FALSE
  BY <1>1, <1>3, CommitFrame, DeleteFrame DEF OthersStay
<1>4. (\E w \in Workers : WorkerKind(w)) => FALSE
  BY <1>1 DEF WorkerKind
<1>. QED
  BY <1>1, <1>2, <1>3, <1>4, NextKinds

LEMMA DanglingStep ==
  ASSUME IndInv, [Next]_vars
  PROVE  NoDanglingRows'
<1>. USE DEF Exists
<1>1. DataInv /\ TypeOK /\ NoDanglingRows /\ InsertsInPlace /\ UpdatesInPlace
  BY DEF IndInv, RowsInv, DataInv
<1>t. /\ \A x \in Requests : executions[x] # None => executions[x].report \in Requests
      /\ None \notin Projects
  BY <1>1, ConstantsAssumption DEF TypeOK, Execution
<1>2. ASSUME NEW q \in Requests, RequestKind(q)
      PROVE  NoDanglingRows'
  BY <1>1, <1>2 DEF RequestKind, RowsStay, NoDanglingRows
<1>3. ASSUME NEW q \in Requests, Commit(q)
      PROVE  NoDanglingRows'
  <2>1. /\ args[q].project \in projects
        /\ args[q].report = q \/ reports[args[q].report] = args[q].project
    BY <1>1, <1>3, CommitFrame DEF InsertsInPlace, HasInserted
  <2>2. reports'[args[q].report] # None
    BY <1>1, <1>3, <1>t, <2>1, CommitFrame
  <2>3. ASSUME NEW r \in Requests, reports'[r] # None
        PROVE  reports'[r] \in projects'
    BY <1>1, <1>3, <2>1, <2>3, CommitFrame DEF NoDanglingRows
  <2>4. ASSUME NEW x \in Requests, executions'[x] # None
        PROVE  reports'[executions'[x].report] # None
    <3>1. CASE x = q
      BY <1>1, <1>3, <2>2, <3>1, CommitFrame
    <3>2. CASE x # q
      <4>1. executions'[x] = executions[x] /\ reports[executions[x].report] # None
        BY <1>1, <1>3, <2>4, <3>2, CommitFrame DEF NoDanglingRows
      <4>. QED BY <1>1, <1>3, <1>t, <2>4, <4>1, CommitFrame
    <3>. QED BY <3>1, <3>2
  <2>. QED BY <2>3, <2>4 DEF NoDanglingRows
<1>4. ASSUME NEW q \in Requests, DeleteCommit(q)
      PROVE  NoDanglingRows'
  <2>1. ASSUME NEW r \in Requests, reports'[r] # None
        PROVE  reports'[r] \in projects'
    BY <1>1, <1>4, <2>1, DeleteFrame DEF NoDanglingRows
  <2>2. ASSUME NEW x \in Requests, executions'[x] # None
        PROVE  reports'[executions'[x].report] # None
    <3>1. /\ executions'[x] = executions[x]
          /\ reports[executions[x].report] # args[q].project
      BY <1>1, <1>4, <2>2, DeleteFrame
    <3>. QED BY <1>1, <1>4, <1>t, <2>2, <3>1, DeleteFrame DEF NoDanglingRows
  <2>. QED BY <2>1, <2>2 DEF NoDanglingRows
<1>5. ASSUME NEW w \in Workers, WorkerKind(w)
      PROVE  NoDanglingRows'
  <2>1. UNCHANGED <<projects, reports>>
    BY <1>5 DEF WorkerKind
  <2>2. ASSUME NEW x \in Requests, executions'[x] # None
        PROVE  reports[executions'[x].report] # None
    <3>1. CASE executions'[x] = executions[x]
      BY <1>1, <2>2, <3>1 DEF NoDanglingRows
    <3>2. CASE executions'[x] # executions[x]
      <4>1. /\ work[w].pc = "finished" /\ work[w].execution = x
            /\ Exists(x) => executions'[x].report = executions[x].report
        BY <1>1, <1>5, <3>2, TaskFrame
      <4>2. Exists(x)
        BY <1>1, <4>1 DEF UpdatesInPlace, HoldsRow
      <4>. QED BY <1>1, <4>1, <4>2 DEF NoDanglingRows
    <3>. QED BY <3>1, <3>2
  <2>. QED BY <1>1, <2>1, <2>2 DEF NoDanglingRows
<1>6. CASE UNCHANGED <<projects, reports, executions, originals, results, queue,
                       pc, args, outcome, work>>
  BY <1>1, <1>6 DEF NoDanglingRows
<1>. QED
  BY <1>1, <1>2, <1>3, <1>4, <1>5, <1>6, NextKinds

\* A report's project is the one it was uploaded to, as long as it is there.
LEMMA ReportsStay ==
  ASSUME DataInv, [Next]_vars, NEW r \in Requests, reports[r] # None
  PROVE  \/ reports'[r] = reports[r]
         \/ reports'[r] = None /\ \E q \in Requests :
              /\ DeleteCommit(q) /\ pc[q] = "deleted" /\ args[q].project = reports[r]
              /\ projects' = projects \ {reports[r]}
<1>1. ASSUME NEW q \in Requests, Commit(q)
      PROVE  reports'[r] = reports[r]
  BY <1>1, CommitFrame
<1>2. ASSUME NEW q \in Requests, DeleteCommit(q)
      PROVE  \/ reports'[r] = reports[r]
             \/ /\ reports'[r] = None
                /\ DeleteCommit(q) /\ pc[q] = "deleted" /\ args[q].project = reports[r]
                /\ projects' = projects \ {reports[r]}
  BY <1>2, DeleteFrame
<1>. QED
  BY <1>1, <1>2, NextKinds DEF RequestKind, RowsStay, WorkerKind

\* A project that is not being deleted stays.
LEMMA ProjectsStay ==
  ASSUME DataInv, [Next]_vars, NEW p \in projects, ~DeletePending(p)
  PROVE  p \in projects'
<1>1. ASSUME NEW q \in Requests, DeleteCommit(q)
      PROVE  p \in projects'
  BY <1>1, DeleteFrame DEF DeletePending
<1>. QED
  BY <1>1, CommitFrame, NextKinds DEF RequestKind, RowsStay, WorkerKind

LEMMA InsertsStep ==
  ASSUME IndInv, [Next]_vars
  PROVE  InsertsInPlace'
<1>1. /\ DataInv /\ TypeOK /\ NoDanglingRows /\ InsertsInPlace /\ UpdatesInPlace
      /\ RequestsSettled /\ ArgsOK /\ None \notin Projects
  BY ConstantsAssumption DEF IndInv, RowsInv, DataInv, OriginalsSettled
<1>. DEFINE InPlace(q) ==
       /\ pc[q] = "read" /\ reports[args[q].report] # None =>
            reports[args[q].report] = args[q].project
       /\ HasInserted(q) =>
            /\ args[q].project \in projects /\ ~DeletePending(args[q].project)
            /\ args[q].report = q \/ reports[args[q].report] = args[q].project
<1>. SUFFICES ASSUME NEW r \in Requests
              PROVE  InPlace(r)'
  BY DEF InsertsInPlace
<1>r. pc[r] \in {"read", "inserted", "answered"} =>
        args[r].report \in Requests /\ args[r].project \in Projects
  BY <1>1 DEF ArgsOK, Working
\* A request that stays where it is.
<1>2. ASSUME pc'[r] = pc[r], args'[r] = args[r]
      PROVE  InPlace(r)'
  <2>1. ASSUME pc[r] = "read", reports'[args[r].report] # None
        PROVE  reports'[args[r].report] = args[r].project
    <3>1. CASE reports[args[r].report] # None
      BY <1>1, <1>r, <2>1, <3>1, ReportsStay DEF InsertsInPlace
    <3>2. CASE reports[args[r].report] = None
      <4>1. pc[args[r].report] = "done"
        BY <1>1, <2>1 DEF RequestsSettled, Settled
      <4>2. reports'[args[r].report] = None
        BY <1>1, <1>r, <2>1, <3>2, <4>1, NextKinds, CommitFrame, DeleteFrame
        DEF RequestKind, RowsStay, WorkerKind
      <4>. QED BY <2>1, <4>2
    <3>. QED BY <3>1, <3>2
  <2>2. ASSUME HasInserted(r)
        PROVE  /\ args[r].project \in projects' /\ ~DeletePending(args[r].project)'
               /\ args[r].report = r \/ reports'[args[r].report] = args[r].project
    <3>1. /\ args[r].project \in projects /\ ~DeletePending(args[r].project)
          /\ args[r].report = r \/ reports[args[r].report] = args[r].project
          /\ args[r].report \in Requests /\ args[r].project \in Projects
      BY <1>1, <1>r, <2>2 DEF InsertsInPlace, HasInserted
    <3>2. PICK p : p = args[r].project
      OBVIOUS
    <3>3. InsertPending(p) /\ ~DeletePending(p)
      BY <2>2, <3>1, <3>2 DEF InsertPending
    <3>6. ~DeletePending(p)'
      BY <1>1, <3>3, PendingFrame
    <3>7. ~DeletePending(args[r].project)'
      BY <1>2, <3>2, <3>6 DEF DeletePending
    <3>4. args[r].project \in projects'
      BY <1>1, <3>1, ProjectsStay
    <3>5. ASSUME reports[args[r].report] = args[r].project
          PROVE  reports'[args[r].report] = args[r].project
      BY <1>1, <3>1, <3>5, ReportsStay DEF DeletePending
    <3>. QED BY <3>1, <3>4, <3>5, <3>7
  <2>. QED BY <1>2, <2>1, <2>2 DEF HasInserted
\* A request that moves.
<1>3. ASSUME RequestKind(r)
      PROVE  InPlace(r)'
  <2>1. UNCHANGED <<projects, reports>> /\ OthersStay(r)
    BY <1>3 DEF RequestKind, RowsStay
  <2>2. CASE Ends(r)
    BY <2>2 DEF Ends, HasInserted
  <2>3. CASE Starts(r)
    BY <2>1, <2>3 DEF Starts, HasInserted
  <2>4. CASE GoesOn(r)
    <3>1. CASE pc'[r] = "answered"
      <4>1. HasInserted(r)
        BY <2>4, <3>1 DEF GoesOn, HasInserted
      <4>2. /\ args[r].project \in projects /\ ~DeletePending(args[r].project)
            /\ args[r].report = r \/ reports[args[r].report] = args[r].project
        BY <1>1, <4>1 DEF InsertsInPlace
      <4>3. ~DeletePending(args[r].project)'
        BY <2>1, <2>4, <3>1, <4>2 DEF GoesOn, DeletePending, OthersStay
      <4>. QED BY <2>1, <2>4, <3>1, <4>2, <4>3 DEF GoesOn
    <3>2. CASE pc'[r] # "answered"
      BY <2>4, <3>2 DEF GoesOn, HasInserted
    <3>. QED BY <3>1, <3>2
  <2>5. CASE Inserts(r)
    <3>1. ~DeletePending(args[r].project) /\ pc'[r] = "inserted" /\ args'[r] = args[r]
      BY <2>5 DEF Inserts
    <3>2. ~DeletePending(args[r].project)'
      BY <2>1, <3>1 DEF DeletePending, OthersStay
    <3>3. /\ args[r].project \in projects
          /\ args[r].report = r \/ reports[args[r].report] = args[r].project
      BY <1>1, <1>r, <2>5 DEF Inserts, RequestsSettled, Uploading, InsertsInPlace, NoDanglingRows
    <3>. QED BY <2>1, <3>1, <3>2, <3>3
  <2>. QED BY <1>3, <2>2, <2>3, <2>4, <2>5 DEF RequestKind
<1>4. ASSUME pc'[r] = "done"
      PROVE  InPlace(r)'
  BY <1>4 DEF HasInserted
<1>. QED
  BY <1>1, <1>2, <1>3, <1>4, NextKinds, CommitFrame, DeleteFrame
  DEF RequestKind, OthersStay, WorkerKind

LEMMA UpdatesStep ==
  ASSUME IndInv, [Next]_vars
  PROVE  UpdatesInPlace'
<1>. USE DEF Exists
<1>1. /\ DataInv /\ TypeOK /\ NoDanglingRows /\ UpdatesInPlace /\ WorkOK
  BY DEF IndInv, RowsInv, DataInv
<1>. SUFFICES ASSUME NEW w \in Workers, HoldsRow(w)'
              PROVE  (/\ Exists(work[w].execution)
                      /\ ~DeletePending(reports[executions[work[w].execution].report]))'
  BY DEF UpdatesInPlace
\* The execution x and report r of the worker, and the project p of r.
<1>2. PICK x, r, p : x = work'[w].execution /\ r = executions[x].report /\ p = reports[r]
  OBVIOUS
<1>. DEFINE Held == x \in Requests /\ executions[x] # None /\ UpdatePending(p)
                      /\ ~DeletePending(p) /\ r \in Requests /\ p # None
<1>. DEFINE Goal == /\ executions'[x] # None
                    /\ executions'[x].report = r /\ reports'[r] = p
                    /\ ~DeletePending(p)'
<1>3. Goal => (/\ Exists(work[w].execution)
               /\ ~DeletePending(reports[executions[work[w].execution].report]))'
  BY <1>2 DEF DeletePending
<1>4. ASSUME HoldsRow(w), work'[w].execution = work[w].execution
      PROVE  Held
  <2>1. work[w].execution \in Requests
    BY <1>1, <1>4 DEF WorkOK, HoldsRow
  <2>2. executions[x] # None /\ executions[x] \in Execution
    BY <1>1, <1>2, <1>4, <2>1 DEF UpdatesInPlace, TypeOK
  <2>3. p # None /\ r \in Requests
    BY <1>1, <1>2, <1>4, <2>1, <2>2 DEF NoDanglingRows, Execution
  <2>. QED BY <1>1, <1>2, <1>4, <2>1, <2>2, <2>3 DEF UpdatesInPlace, UpdatePending
<1>5. ASSUME Held
      PROVE  ~DeletePending(p)'
  BY <1>1, <1>5, PendingFrame
<1>6. ASSUME NEW q \in Requests, RequestKind(q)
      PROVE  Goal
  <2>1. UNCHANGED <<reports, executions, work>>
    BY <1>6 DEF RequestKind, RowsStay
  <2>2. HoldsRow(w) /\ work'[w].execution = work[w].execution
    BY <2>1 DEF HoldsRow
  <2>. QED BY <1>2, <1>4, <1>5, <2>1, <2>2
<1>7. ASSUME NEW q \in Requests, Commit(q)
      PROVE  Goal
  <2>1. /\ work' = work /\ executions[q] = None /\ reports[q] = None
        /\ \A y \in Requests \ {q} : reports'[y] = reports[y] /\ executions'[y] = executions[y]
    BY <1>1, <1>7, CommitFrame
  <2>2. HoldsRow(w) /\ work'[w].execution = work[w].execution
    BY <2>1 DEF HoldsRow
  <2>. QED BY <1>2, <1>4, <1>5, <2>1, <2>2
<1>8. ASSUME NEW q \in Requests, DeleteCommit(q)
      PROVE  Goal
  <2>1. work' = work
    BY <1>1, <1>8, DeleteFrame
  <2>2. HoldsRow(w) /\ work'[w].execution = work[w].execution
    BY <2>1 DEF HoldsRow
  <2>3. p # args[q].project
    BY <1>1, <1>4, <1>8, <2>2, DeleteFrame DEF DeletePending
  <2>. QED BY <1>1, <1>2, <1>4, <1>5, <1>8, <2>2, <2>3, DeleteFrame
<1>9. ASSUME NEW v \in Workers, WorkerKind(v)
      PROVE  Goal
  <2>1. UNCHANGED <<reports, pc, args>>
    BY <1>9 DEF WorkerKind
  <2>2. CASE HoldsRow(w) /\ work'[w].execution = work[w].execution
    <3>1. Held /\ ~DeletePending(p)'
      BY <1>4, <1>5, <2>2
    <3>2. executions'[x] # None /\ executions'[x].report = r
      BY <1>1, <1>2, <1>9, <3>1, TaskFrame
    <3>. QED BY <1>2, <2>1, <3>1, <3>2
  <2>3. CASE ~(HoldsRow(w) /\ work'[w].execution = work[w].execution)
    <3>1. w = v
      BY <1>9, <2>3 DEF WorkerKind, HoldsRow
    <3>2. UNCHANGED executions /\ Exists(x) /\ ~DeletePending(reports[executions[x].report])
      BY <1>2, <1>9, <2>3, <3>1 DEF WorkerKind, HoldsRow
    <3>. QED BY <1>2, <2>1, <3>2 DEF DeletePending
  <2>. QED BY <2>2, <2>3
<1>10. CASE UNCHANGED <<projects, reports, executions, originals, results, queue,
                        pc, args, outcome, work>>
  <2>1. HoldsRow(w) /\ work'[w].execution = work[w].execution
    BY <1>10 DEF HoldsRow
  <2>. QED BY <1>2, <1>4, <1>5, <1>10, <2>1
<1>. QED
  BY <1>1, <1>3, <1>6, <1>7, <1>8, <1>9, <1>10, NextKinds

-------------------------------------------------------------------------------
(* Rejected uploads.                                                       *)

LEMMA ChecksStep ==
  ASSUME IndInv, [Next]_vars
  PROVE  ChecksComeFirst'
<1>. USE DEF Exists, Rejected
<1>1. /\ DataInv /\ TypeOK /\ ChecksComeFirst
  BY DEF IndInv, RowsInv, DataInv
<1>. SUFFICES ASSUME NEW r \in Requests
              PROVE  (/\ Rejected(r) => pc[r] = "done"
                      /\ pc[r] \in {"new", "found"} \/ Rejected(r) => Untouched(r))'
  BY DEF ChecksComeFirst
<1>2. /\ Rejected(r) => pc[r] = "done"
      /\ pc[r] \in {"new", "found"} \/ Rejected(r) => Untouched(r)
  BY <1>1 DEF ChecksComeFirst
<1>3. ASSUME NEW q \in Requests, RequestKind(q)
      PROVE  (/\ Rejected(r) => pc[r] = "done"
              /\ pc[r] \in {"new", "found"} \/ Rejected(r) => Untouched(r))'
  <2>1. UNCHANGED <<reports, executions, work>>
    BY <1>3 DEF RequestKind, RowsStay
  <2>2. CASE r # q
    <3>1. /\ pc'[r] = pc[r] /\ outcome'[r] = outcome[r] /\ originals'[r] = originals[r]
      BY <1>3, <2>2 DEF RequestKind, OthersStay
    <3>2. \A m \in queue' : m \in queue \/ m.execution # r
      BY <1>3, <2>2 DEF RequestKind, Ends, Starts, GoesOn, Inserts
    <3>. QED BY <1>2, <2>1, <3>1, <3>2 DEF Untouched
  <2>3. CASE r = q
    <3>1. ~Rejected(r)
      BY <1>2, <1>3, <2>3 DEF RequestKind
    <3>2. CASE pc'[r] \in {"new", "found"} \/ Rejected(r)'
      <4>1. pc[r] \in {"new", "found"} /\ UNCHANGED <<queue, originals>>
        BY <1>3, <2>3, <3>1, <3>2 DEF RequestKind, Ends, Starts, GoesOn, Inserts
      <4>2. Rejected(r)' => pc'[r] = "done"
        BY <1>3, <2>3, <3>1 DEF RequestKind, Ends, Starts, GoesOn, Inserts
      <4>. QED BY <1>2, <2>1, <4>1, <4>2 DEF Untouched
    <3>3. CASE ~(pc'[r] \in {"new", "found"} \/ Rejected(r)')
      BY <3>3
    <3>. QED BY <3>2, <3>3
  <2>. QED BY <2>2, <2>3
<1>4. ASSUME NEW q \in Requests, Commit(q)
      PROVE  (/\ Rejected(r) => pc[r] = "done"
              /\ pc[r] \in {"new", "found"} \/ Rejected(r) => Untouched(r))'
  <2>1. CASE r = q
    BY <1>1, <1>4, <2>1, CommitFrame
  <2>2. CASE r # q
    BY <1>1, <1>2, <1>4, <2>2, CommitFrame DEF OthersStay, Untouched
  <2>. QED BY <2>1, <2>2
<1>5. ASSUME NEW q \in Requests, DeleteCommit(q)
      PROVE  (/\ Rejected(r) => pc[r] = "done"
              /\ pc[r] \in {"new", "found"} \/ Rejected(r) => Untouched(r))'
  <2>1. CASE r = q
    BY <1>1, <1>5, <2>1, DeleteFrame
  <2>2. CASE r # q
    BY <1>1, <1>2, <1>5, <2>2, DeleteFrame DEF OthersStay, Untouched
  <2>. QED BY <2>1, <2>2
<1>6. ASSUME NEW w \in Workers, WorkerKind(w)
      PROVE  (/\ Rejected(r) => pc[r] = "done"
              /\ pc[r] \in {"new", "found"} \/ Rejected(r) => Untouched(r))'
  <2>1. UNCHANGED <<reports, originals, pc, outcome>>
    BY <1>6 DEF WorkerKind
  <2>2. ASSUME Untouched(r)
        PROVE  Untouched(r)'
    <3>1. work[w].pc # "idle" => work[w].execution # r
      BY <2>2 DEF Untouched
    <3>2. ~Exists(r)'
      BY <1>1, <1>6, <2>2, <3>1, TaskFrame DEF Untouched
    <3>3. \A m \in queue' : m.execution # r
      BY <1>6, <2>2, <3>1 DEF Untouched, WorkerKind
    <3>4. \A v \in Workers : work'[v].pc # "idle" => work'[v].execution # r
      BY <1>6, <2>2, <3>1 DEF Untouched, WorkerKind
    <3>. QED BY <2>1, <2>2, <3>2, <3>3, <3>4 DEF Untouched
  <2>. QED BY <1>2, <2>1, <2>2
<1>7. CASE UNCHANGED <<projects, reports, executions, originals, results, queue,
                       pc, args, outcome, work>>
  BY <1>2, <1>7 DEF Untouched
<1>. QED
  BY <1>1, <1>3, <1>4, <1>5, <1>6, <1>7, NextKinds

-------------------------------------------------------------------------------
(* URLs.                                                                   *)

\* The result of a READY execution is there.
LEMMA ReadyResult ==
  ASSUME DataInv, NEW x \in Requests, Ready(x)
  PROVE  results[x] # None
<1>1. /\ executions[x] \in Execution /\ Truthful(x, executions[x])
      /\ Settled(executions[x].report)
  BY DEF DataInv, RowsTruthful, Ready, Exists, OriginalsSettled, ExecutionsSettled, TypeOK
<1>2. originals[executions[x].report] \in SUBSET Columns
  BY <1>1 DEF DataInv, TypeOK, Settled, Execution
<1>3. Processed(executions[x].snapshot, originals[executions[x].report]) \in Result
  BY <1>1, <1>2 DEF Processed, Result, Execution
<1>. QED
  BY <1>1, <1>3, NoneAssumption DEF Truthful, Ready

LEMMA UrlsStep ==
  ASSUME IndInv, [Next]_vars
  PROVE  UrlsResolve'
<1>1. /\ DataInv /\ TypeOK /\ UrlsResolve
  BY DEF IndInv, RowsInv, DataInv
<1>. SUFFICES ASSUME NEW r \in Requests
              PROVE  (/\ outcome[r] = "url" => pc[r] = "done"
                      /\ pc[r] = "ready" \/ outcome[r] = "url" =>
                           args[r].report \in Requests /\ results[args[r].report] # None)'
  BY DEF UrlsResolve
<1>2. /\ outcome[r] = "url" => pc[r] = "done"
      /\ pc[r] = "ready" \/ outcome[r] = "url" =>
           args[r].report \in Requests /\ results[args[r].report] # None
  BY <1>1 DEF UrlsResolve
<1>3. \A x \in Requests : results[x] # None => results'[x] # None
  BY <1>1, NextKinds, CommitFrame, DeleteFrame DEF RequestKind, RowsStay, WorkerKind
<1>4. CASE pc'[r] = pc[r] /\ outcome'[r] = outcome[r] /\ args'[r] = args[r]
  BY <1>2, <1>3, <1>4
<1>5. CASE RequestKind(r)
  <2>1. results' = results /\ outcome[r] # "url"
    BY <1>2, <1>5 DEF RequestKind, RowsStay
  <2>2. CASE Starts(r)
    BY <1>1, <2>1, <2>2, ReadyResult DEF Starts
  <2>3. CASE GoesOn(r)
    BY <1>2, <2>1, <2>3 DEF GoesOn
  <2>. QED BY <1>5, <2>1, <2>2, <2>3 DEF RequestKind, Ends, Inserts
<1>6. CASE pc'[r] = "done" /\ outcome'[r] = "ok"
  BY <1>6
<1>. QED
  BY <1>1, <1>4, <1>5, <1>6, NextKinds, CommitFrame, DeleteFrame
  DEF RequestKind, OthersStay, WorkerKind

-------------------------------------------------------------------------------
(* What holds of rows, uploads and URLs.                                   *)

LEMMA InitRowsInv == Init => RowsInv
<1>. SUFFICES ASSUME Init PROVE RowsInv
  OBVIOUS
<1>. USE DEF Init, Exists
<1>1. /\ \A r \in Requests : reports[r] = None /\ executions[r] = None
      /\ \A w \in Workers : work[w].pc = "idle"
      /\ \A q \in Requests : pc[q] = "new" /\ outcome[q] \notin Outcomes
                            /\ originals[q] = None
  BY NoneAssumption DEF Idle
<1>. QED
  BY <1>1 DEF RowsInv, NoDanglingRows, InsertsInPlace, UpdatesInPlace, ChecksComeFirst,
              UrlsResolve, HasInserted, HoldsRow, Untouched, Rejected, Outcomes

\* What requests and workers hold, the rows and the locks fit together, in every
\* reachable state: IndInv, which the run pipeline_redelivery checks.
THEOREM SpecIndInv == Spec => []IndInv
<1>1. Init => IndInv
  BY InitDataInv, InitRowsInv DEF IndInv
<1>2. IndInv /\ [Next]_vars => IndInv'
  BY NextDataInv, DanglingStep, InsertsStep, UpdatesStep, ChecksStep, UrlsStep
  DEF IndInv, RowsInv
<1>. QED
  BY <1>1, <1>2, PTL DEF Spec

\* No execution outlives its report and no report its project, however deletes,
\* inserts and the commits of workers interleave (models/report.py).
THEOREM NothingDangles == Spec => []NoDanglingRows
<1>1. IndInv => NoDanglingRows
  BY DEF IndInv, RowsInv
<1>. QED
  BY <1>1, SpecIndInv, PTL

\* An upload that is rejected leaves no object, no row and no message, whatever
\* happens to the project and its configs meanwhile (upload_report.py).
THEOREM RejectedForNothing == Spec => []RejectionLeavesNothing
<1>1. IndInv => RejectionLeavesNothing
  BY DEF IndInv, RowsInv, ChecksComeFirst, RejectionLeavesNothing, Untouched
<1>. QED
  BY <1>1, SpecIndInv, PTL

\* A signed download URL leads to a result, whatever was run or deleted between
\* the check and the signature (download_result.py).
THEOREM UrlsLeadSomewhere == Spec => []IssuedUrlResolves
<1>1. IndInv => IssuedUrlResolves
  BY DEF IndInv, RowsInv, UrlsResolve, IssuedUrlResolves
<1>. QED
  BY <1>1, SpecIndInv, PTL

-------------------------------------------------------------------------------
(* One job for each execution.                                             *)

\* What a step of a worker does to its job: it goes on with it, or gives it up,
\* perhaps to the queue, or takes one from the queue.
JobKind(w) ==
  \/ /\ Busy(w) /\ queue' = queue
     /\ Busy(w)' => work'[w].execution = work[w].execution
  \/ /\ Busy(w) /\ ~Busy(w)'
     /\ \E job : /\ job.execution = work[w].execution
                 /\ queue' \subseteq queue \cup {job}
  \/ /\ ~Busy(w)
     /\ \E m \in queue : /\ work'[w].execution = m.execution
                         /\ MaxRedeliveries = 0 => queue' = queue \ {m}

LEMMA WorkerJobs ==
  ASSUME DataInv, NEW w \in Workers,
         TaskStep(w) \/ WorkerCrash(w) \/ \E m \in queue : Receive(w, m)
  PROVE  JobKind(w)
<1>. USE DEF queueVars, Busy
<1>0. TypeOK /\ WorkOK /\ work \in [Workers -> Work]
  BY DEF DataInv, TypeOK
<1>i. Idle.pc = "idle"
  BY DEF Idle
<1>1. CASE Load(w)
  <2>. DEFINE a == [work[w] EXCEPT !.pc = "loaded", !.row = executions[work[w].execution]]
  <2>1. work' = [work EXCEPT ![w] = a] /\ work[w].pc = "received" /\ queue' = queue
    BY <1>1 DEF Load, Become
  <2>2. a.execution = work[w].execution
    BY <1>0 DEF Work
  <2>. HIDE DEF a
  <2>. QED BY <1>0, <2>1, <2>2 DEF JobKind
<1>2. CASE Begin(w)
  BY <1>0, <1>2, RowFrame DEF Begin, Become, JobKind
<1>3. CASE ProcessSucceeds(w)
  BY <1>0, <1>3, RowFrame DEF ProcessSucceeds, JobKind
<1>4. CASE ProcessFails(w)
  BY <1>0, <1>4, RowFrame DEF ProcessFails, Become, JobKind
<1>5. CASE TaskCommit(w)
  BY <1>0, <1>5, <1>i DEF TaskCommit, Become, JobKind
<1>6. CASE TaskFails(w)
  <2>. DEFINE job == [execution |-> work[w].execution, retries |-> work[w].retries + 1]
  <2>1. job.execution = work[w].execution /\ queue' \subseteq queue \cup {job}
    BY <1>6 DEF TaskFails
  <2>2. Busy(w) /\ ~Busy(w)'
    BY <1>0, <1>6, <1>i DEF TaskFails
  <2>. HIDE DEF job
  <2>. QED BY <2>1, <2>2 DEF JobKind
<1>7. CASE WorkerCrash(w)
  BY <1>0, <1>7, <1>i DEF WorkerCrash, JobKind
<1>8. ASSUME NEW m \in queue, Receive(w, m)
      PROVE  JobKind(w)
  <2>. DEFINE a == [pc |-> "received", execution |-> m.execution,
                    retries |-> m.retries, row |-> None]
  <2>1. work' = [work EXCEPT ![w] = a] /\ work[w].pc = "idle"
    BY <1>8 DEF Receive, Become
  <2>2. a.execution = m.execution
    OBVIOUS
  <2>. HIDE DEF a
  <2>3. MaxRedeliveries = 0 => queue' = queue \ {m}
    BY <1>0, <1>8 DEF Receive, TypeOK
  <2>. QED BY <1>0, <2>1, <2>2, <2>3 DEF JobKind
<1>. QED
  BY <1>1, <1>2, <1>3, <1>4, <1>5, <1>6, <1>7, <1>8 DEF TaskStep

\* The kinds of steps, with what workers do to jobs.
LEMMA StepKinds ==
  ASSUME DataInv, [Next]_vars
  PROVE  \/ \E q \in Requests : RequestKind(q) \/ Commit(q) \/ DeleteCommit(q)
         \/ \E w \in Workers : WorkerKind(w) /\ JobKind(w)
         \/ UNCHANGED <<projects, reports, executions, originals, results, queue,
                        pc, args, outcome, work>>
<1>1. ASSUME NEW p \in Projects, NEW c \in SUBSET Columns, ChangeConfig(p, c)
      PROVE  UNCHANGED <<projects, reports, executions, originals, results, queue,
                         pc, args, outcome, work>>
  BY <1>1 DEF ChangeConfig, reqVars, queueVars
<1>. QED
  BY <1>1, RequestStepKind, WorkerStepKind, WorkerJobs
  DEF Next, vars, dbVars, reqVars, queueVars

LEMMA ProcessingStep ==
  ASSUME IndInv, NoneProcessing, [Next]_vars
  PROVE  NoneProcessing'
<1>. USE DEF Exists
<1>1. DataInv /\ WorkOK
  BY DEF IndInv, DataInv
<1>. SUFFICES ASSUME NEW x \in Requests, executions'[x] # None
              PROVE  executions'[x].status # "PROCESSING"
  BY DEF NoneProcessing
<1>2. CASE executions'[x] = executions[x]
  BY <1>2 DEF NoneProcessing
<1>3. CASE executions'[x] # executions[x]
  <2>1. ASSUME NEW q \in Requests, Commit(q)
        PROVE  executions'[x].status # "PROCESSING"
    BY <1>1, <1>3, <2>1, CommitFrame
  <2>2. ASSUME NEW q \in Requests, DeleteCommit(q)
        PROVE  executions'[x].status # "PROCESSING"
    BY <1>1, <1>3, <2>2, DeleteFrame
  <2>3. ASSUME NEW w \in Workers, WorkerKind(w)
        PROVE  executions'[x].status # "PROCESSING"
    BY <1>1, <1>3, <2>3, TaskFrame DEF WorkOK
  <2>. QED BY <1>1, <1>3, <2>1, <2>2, <2>3, StepKinds DEF RequestKind, RowsStay
<1>. QED
  BY <1>2, <1>3

\* A job fits its row after a step if it did before, unless the job just ran.
LEMMA FitsStep ==
  ASSUME IndInv, [Next]_vars, NEW x \in Requests, JobFits(x),
         \A w \in Workers : Busy(w) /\ ~Busy(w)' /\ queue' = queue =>
                              work[w].execution # x
  PROVE  JobFits(x)'
<1>. USE DEF Exists
<1>1. DataInv /\ ExecutionsSettled
  BY DEF IndInv, DataInv, OriginalsSettled
<1>2. ASSUME NEW q \in Requests, RequestKind(q)
      PROVE  JobFits(x)'
  BY <1>2 DEF RequestKind, RowsStay, OthersStay, Ends, Starts, GoesOn, Inserts, JobFits
<1>3. ASSUME NEW q \in Requests, Commit(q) \/ DeleteCommit(q)
      PROVE  JobFits(x)'
  BY <1>1, <1>3, CommitFrame, DeleteFrame DEF OthersStay, JobFits
<1>4. ASSUME NEW w \in Workers, WorkerKind(w), JobKind(w)
      PROVE  JobFits(x)'
  <2>1. CASE UNCHANGED executions
    BY <1>4, <2>1 DEF WorkerKind, JobFits
  <2>2. CASE TaskCommit(w)
    <3>1. Busy(w) /\ ~Busy(w)' /\ queue' = queue
      BY <1>1, <2>2 DEF TaskCommit, Become, Busy, queueVars, DataInv, TypeOK, Idle
    <3>2. executions'[x] = executions[x]
      BY <1>1, <1>4, <3>1, TaskFrame
    <3>. QED BY <1>4, <3>2 DEF WorkerKind, JobFits
  <2>. QED BY <1>4, <2>1, <2>2 DEF WorkerKind
<1>. QED
  BY <1>1, <1>2, <1>3, <1>4, StepKinds DEF JobFits

LEMMA OneJobStep ==
  ASSUME IndInv, OneJob, MaxRedeliveries = 0, [Next]_vars
  PROVE  OneJob'
<1>1. /\ DataInv /\ WorkOK /\ TypeOK
      /\ \A m \in queue : m.execution \in Requests
      /\ \A w \in Workers : Busy(w) => work[w].execution \in Requests
  BY DEF IndInv, DataInv, TypeOK, Message, WorkOK, Busy
\* The jobs of the queue and of the workers stay apart.
<1>2. ASSUME NEW q \in Requests, RequestKind(q)
      PROVE  OneJob'
  <2>1. work' = work
    BY <1>2 DEF RequestKind, RowsStay
  <2>2. CASE queue' = queue
    <3>1. /\ \A m \in queue : JobFits(m.execution)'
          /\ \A w \in Workers : Busy(w) => JobFits(work[w].execution)'
      BY <1>1, <2>1, <2>2, FitsStep DEF OneJob, Busy
    <3>. QED BY <2>1, <2>2, <3>1 DEF OneJob, Busy
  <2>3. CASE Inserts(q)
    <3>1. PICK job : job.execution = q /\ queue' \subseteq queue \cup {job}
      BY <2>3 DEF Inserts
    <3>2. /\ \A m \in queue : m.execution # q
          /\ \A w \in Workers : Busy(w) => work[w].execution # q
      BY <2>3 DEF OneJob, Inserts, JobFits
    <3>3. /\ \A m \in queue : JobFits(m.execution)'
          /\ \A w \in Workers : Busy(w) => JobFits(work[w].execution)'
      BY <1>1, <2>1, FitsStep DEF OneJob, Busy
    <3>4. JobFits(q)'
      <4>1. executions[q] = None
        BY <1>1, <2>3 DEF DataInv, OriginalsSettled, ExecutionsSettled, Exists, Inserts
      <4>. QED BY <1>2, <2>3, <4>1 DEF JobFits, Inserts, Exists, RequestKind, RowsStay
    <3>. QED BY <2>1, <3>1, <3>2, <3>3, <3>4 DEF OneJob, Busy
  <2>. QED BY <1>2, <2>2, <2>3 DEF RequestKind, Ends, Starts, GoesOn
<1>3. ASSUME NEW q \in Requests, Commit(q) \/ DeleteCommit(q)
      PROVE  OneJob'
  <2>1. work' = work /\ queue' = queue
    BY <1>1, <1>3, CommitFrame, DeleteFrame
  <2>2. /\ \A m \in queue : JobFits(m.execution)'
        /\ \A w \in Workers : Busy(w) => JobFits(work[w].execution)'
    BY <1>1, <2>1, FitsStep DEF OneJob, Busy
  <2>. QED BY <2>1, <2>2 DEF OneJob, Busy
<1>4. ASSUME NEW w \in Workers, WorkerKind(w), JobKind(w)
      PROVE  OneJob'
  <2>1. \A v \in Workers \ {w} : work'[v] = work[v]
    BY <1>4 DEF WorkerKind
  <2>2. ASSUME NEW x \in Requests, JobFits(x), Busy(w) => work[w].execution # x
        PROVE  JobFits(x)'
    BY <2>1, <2>2, FitsStep DEF Busy
  <2>3. ASSUME NEW v \in Workers \ {w}, Busy(v)'
        PROVE  JobFits(work[v].execution)' /\ Busy(v)
    <3>1. Busy(v) /\ JobFits(work[v].execution)
      BY <2>1, <2>3 DEF Busy, OneJob
    <3>2. Busy(w) => work[w].execution # work[v].execution
      BY <3>1 DEF OneJob
    <3>3. PICK x \in Requests : x = work[v].execution
      BY <1>1, <3>1
    <3>4. JobFits(x)'
      BY <2>2, <3>1, <3>2, <3>3
    <3>. QED BY <2>1, <3>1, <3>3, <3>4
  <2>4. ASSUME NEW m \in queue
        PROVE  JobFits(m.execution)'
    <3>1. Busy(w) => work[w].execution # m.execution
      BY DEF OneJob
    <3>. QED BY <1>1, <2>2, <3>1 DEF OneJob
  <2>5. CASE /\ Busy(w) /\ queue' = queue
             /\ Busy(w)' => work'[w].execution = work[w].execution
    <3>1. Busy(w)' => JobFits(work[w].execution)'
      <4>. SUFFICES ASSUME Busy(w)' PROVE JobFits(work[w].execution)'
        OBVIOUS
      <4>1. PICK x \in Requests : x = work[w].execution
        BY <1>1, <2>5
      <4>2. JobFits(x)
        BY <2>5, <4>1 DEF OneJob
      <4>3. \A v \in Workers : Busy(v) /\ ~Busy(v)' => FALSE
        BY <2>1 DEF Busy
      <4>4. JobFits(x)'
        BY <4>2, <4>3, FitsStep
      <4>. QED BY <2>5, <4>1, <4>4
    <3>2. \A v \in Workers : Busy(v)' => Busy(v) /\ work'[v].execution = work[v].execution
      BY <2>1, <2>5 DEF Busy
    <3>. QED BY <2>1, <2>3, <2>4, <2>5, <3>1, <3>2 DEF OneJob
  <2>6. CASE /\ Busy(w) /\ ~Busy(w)'
             /\ \E job : /\ job.execution = work[w].execution
                         /\ queue' \subseteq queue \cup {job}
    <3>1. PICK job : job.execution = work[w].execution /\ queue' \subseteq queue \cup {job}
      BY <2>6
    <3>2. /\ \A m \in queue : m.execution # job.execution
          /\ \A v \in Workers \ {w} : Busy(v) => work[v].execution # job.execution
      BY <2>6, <3>1 DEF OneJob
    <3>3. queue' # queue => JobFits(job.execution)'
      <4>. SUFFICES ASSUME queue' # queue PROVE JobFits(job.execution)'
        OBVIOUS
      <4>1. PICK x \in Requests : x = job.execution
        BY <1>1, <2>6, <3>1
      <4>2. JobFits(x)
        BY <2>6, <3>1, <4>1 DEF OneJob
      <4>. QED BY <4>1, <4>2, FitsStep
    <3>4. \A v \in Workers : Busy(v)' => v # w /\ Busy(v) /\ work'[v] = work[v]
      BY <2>1, <2>3, <2>6
    <3>. QED BY <2>3, <2>4, <3>1, <3>2, <3>3, <3>4 DEF OneJob
  <2>7. CASE /\ ~Busy(w)
             /\ \E m \in queue : /\ work'[w].execution = m.execution
                                 /\ MaxRedeliveries = 0 => queue' = queue \ {m}
    <3>1. PICK m \in queue : work'[w].execution = m.execution /\ queue' = queue \ {m}
      BY <2>7
    <3>2. /\ \A n \in queue' : n.execution # m.execution
          /\ \A v \in Workers \ {w} : Busy(v)' => work'[v].execution # m.execution
      BY <2>1, <3>1 DEF OneJob, Busy
    <3>3. \A v \in Workers \ {w} : Busy(v)' => Busy(v) /\ work'[v].execution = work[v].execution
      BY <2>1, <2>3
    <3>. QED BY <2>3, <2>4, <3>1, <3>2, <3>3 DEF OneJob
  <2>. QED BY <1>4, <2>5, <2>6, <2>7 DEF JobKind
<1>5. CASE UNCHANGED <<projects, reports, executions, originals, results, queue,
                       pc, args, outcome, work>>
  BY <1>5 DEF OneJob, JobFits, Busy, Exists
<1>. QED
  BY <1>1, <1>2, <1>3, <1>4, <1>5, StepKinds

-------------------------------------------------------------------------------
(* Each step of the pipeline, seen by its clients.                         *)

\* What a client sees of execution x.
LEMMA Seen ==
  ASSUME NEW x \in Requests
  PROVE  /\ lifecycleStatus[x] = IF Exists(x) THEN executions[x].status
                                 ELSE IF pc[x] = "done" THEN "gone" ELSE "none"
         /\ lifecycleResult[x] = (Ready(x) /\ results[x] # None)
         /\ lifecycleResult[x] \in BOOLEAN
  BY DEF lifecycleStatus, lifecycleResult

LEMMA SeenNext ==
  ASSUME NEW x \in Requests
  PROVE  /\ lifecycleStatus'[x] = IF Exists(x)' THEN executions'[x].status
                                  ELSE IF pc'[x] = "done" THEN "gone" ELSE "none"
         /\ lifecycleResult'[x] = (Ready(x)' /\ results'[x] # None)
         /\ lifecycleResult'[x] \in BOOLEAN
  BY DEF lifecycleStatus, lifecycleResult

\* A function is given by its values: what the actions of the abstract
\* specification say, execution by execution.
LEMMA Stutters ==
  ASSUME \A x \in Requests : /\ lifecycleStatus'[x] = lifecycleStatus[x]
                             /\ lifecycleResult'[x] = lifecycleResult[x]
  PROVE  UNCHANGED Lifecycle!lifecycleVars
  BY DEF Lifecycle!lifecycleVars, lifecycleStatus, lifecycleResult

LEMMA Changes ==
  ASSUME NEW x \in Requests, NEW s, NEW r,
         lifecycleStatus'[x] = s, lifecycleResult'[x] = r,
         \A y \in Requests \ {x} : /\ lifecycleStatus'[y] = lifecycleStatus[y]
                                   /\ lifecycleResult'[y] = lifecycleResult[y]
  PROVE  /\ lifecycleStatus' = [lifecycleStatus EXCEPT ![x] = s]
         /\ lifecycleResult' = [lifecycleResult EXCEPT ![x] = r]
         /\ r = lifecycleResult[x] => lifecycleResult' = lifecycleResult
  BY DEF lifecycleStatus, lifecycleResult

LEMMA Vanishes ==
  ASSUME NEW S \in SUBSET Requests,
         \A y \in S : lifecycleStatus'[y] = "gone" /\ ~lifecycleResult'[y],
         \A y \in Requests \ S : /\ lifecycleStatus'[y] = lifecycleStatus[y]
                                 /\ lifecycleResult'[y] = lifecycleResult[y]
  PROVE  Lifecycle!Vanish(S)
<1>1. \A y \in Requests : lifecycleResult'[y] = (y \notin S /\ lifecycleResult[y])
  BY Seen, SeenNext
<1>. QED
  BY <1>1 DEF Lifecycle!Vanish, lifecycleStatus, lifecycleResult

\* What a worker is about to commit as READY has its result.
LEMMA FinishedResult ==
  ASSUME DataInv, NEW w \in Workers, work[w].pc = "finished", work[w].row.status = "READY"
  PROVE  results[work[w].execution] # None
<1>1. /\ TypeOK /\ WorkOK /\ work[w].row # None
      /\ Truthful(work[w].execution, work[w].row) /\ Settled(work[w].row.report)
  BY DEF DataInv, WorkOK, RowsTruthful, OriginalsSettled, CopiesSettled
<1>2. work[w].row \in Execution
  BY <1>1, RowFrame
<1>3. originals[work[w].row.report] \in SUBSET Columns
  BY <1>1, <1>2 DEF TypeOK, Settled, Execution
<1>4. Processed(work[w].row.snapshot, originals[work[w].row.report]) \in Result
  BY <1>2, <1>3 DEF Processed, Result, Execution
<1>. QED
  BY <1>1, <1>4, NoneAssumption DEF Truthful

LEMMA RequestLifecycle ==
  ASSUME DataInv, NEW q \in Requests, RequestKind(q)
  PROVE  Lifecycle!LifecycleNext \/ UNCHANGED Lifecycle!lifecycleVars
<1>. USE DEF Exists, Ready
<1>1. UNCHANGED <<executions, results>> /\ pc[q] # "done" /\ OthersStay(q)
  BY DEF RequestKind, RowsStay
<1>2. executions[q] = None
  BY <1>1 DEF DataInv, OriginalsSettled, ExecutionsSettled
<1>3. \A y \in Requests \ {q} : /\ lifecycleStatus'[y] = lifecycleStatus[y]
                                /\ lifecycleResult'[y] = lifecycleResult[y]
  BY <1>1, Seen, SeenNext DEF OthersStay
<1>4. CASE pc'[q] = "done"
  <2>1. lifecycleStatus'[q] = "gone" /\ ~lifecycleResult'[q]
    BY <1>1, <1>2, <1>4, SeenNext
  <2>2. Lifecycle!Vanish({q})
    BY <1>3, <2>1, Vanishes
  <2>. QED BY <2>2 DEF Lifecycle!LifecycleNext
<1>5. CASE pc'[q] # "done"
  <2>1. /\ lifecycleStatus'[q] = lifecycleStatus[q]
        /\ lifecycleResult'[q] = lifecycleResult[q]
    BY <1>1, <1>2, <1>5, Seen, SeenNext
  <2>. QED BY <1>3, <2>1, Stutters
<1>. QED
  BY <1>4, <1>5

\* The commit of the execution's row creates it.
LEMMA CommitLifecycle ==
  ASSUME DataInv, NEW q \in Requests, Commit(q)
  PROVE  Lifecycle!Create(q)
<1>. USE DEF Exists, Ready
<1>1. lifecycleStatus[q] = "none" /\ ~lifecycleResult[q]
  BY CommitFrame, Seen
<1>2. lifecycleStatus'[q] = "QUEUED" /\ ~lifecycleResult'[q]
  BY CommitFrame, SeenNext
<1>3. \A y \in Requests \ {q} : /\ lifecycleStatus'[y] = lifecycleStatus[y]
                                /\ lifecycleResult'[y] = lifecycleResult[y]
  BY CommitFrame, Seen, SeenNext DEF OthersStay
<1>4. lifecycleResult'[q] = lifecycleResult[q]
  BY <1>1, <1>2, Seen, SeenNext
<1>. QED
  BY <1>1, <1>2, <1>3, <1>4, Changes DEF Lifecycle!Create

\* That of a delete takes the project's executions away.
LEMMA DeleteLifecycle ==
  ASSUME DataInv, NEW q \in Requests, DeleteCommit(q)
  PROVE  \E S \in SUBSET Requests : Lifecycle!Vanish(S)
<1>. USE DEF Exists, Ready
<1>. DEFINE S == {x \in Requests : executions[x] # None /\ executions'[x] = None} \cup {q}
<1>1. executions[q] = None /\ \A x \in Requests : executions[x] # None => pc[x] = "done"
  BY DeleteFrame DEF DataInv, OriginalsSettled, ExecutionsSettled
<1>2. ASSUME NEW x \in S
      PROVE  lifecycleStatus'[x] = "gone" /\ ~lifecycleResult'[x]
  <2>1. executions'[x] = None /\ pc'[x] = "done" /\ x \in Requests
    BY <1>1, DeleteFrame DEF OthersStay
  <2>. QED BY <2>1, SeenNext
<1>3. ASSUME NEW x \in Requests \ S
      PROVE  /\ lifecycleStatus'[x] = lifecycleStatus[x]
             /\ lifecycleResult'[x] = lifecycleResult[x]
  <2>1. executions'[x] = executions[x] /\ pc'[x] = pc[x] /\ results' = results
    BY <1>1, DeleteFrame DEF OthersStay
  <2>. QED BY <2>1, Seen, SeenNext
<1>. QED
  BY <1>2, <1>3, Vanishes

\* A worker is seen when it commits: the execution succeeds or fails, and again
\* only when its job runs again.
LEMMA WorkerLifecycle ==
  ASSUME IndInv, LifecycleInv, NEW w \in Workers, WorkerKind(w)
  PROVE  Lifecycle!LifecycleNext \/ UNCHANGED Lifecycle!lifecycleVars
<1>. USE DEF Exists, Ready
<1>1. /\ DataInv /\ TypeOK /\ WorkOK /\ UpdatesInPlace /\ NoneProcessing
      /\ UNCHANGED pc /\ MaxRedeliveries \in Nat
  BY ConstantsAssumption DEF IndInv, DataInv, RowsInv, LifecycleInv, WorkerKind
<1>2. \A x \in Requests : executions'[x] = executions[x] =>
        /\ lifecycleStatus'[x] = lifecycleStatus[x]
        /\ lifecycleResult'[x] = lifecycleResult[x]
  BY <1>1, ReadyResult, Seen, SeenNext DEF WorkerKind
<1>3. CASE \A x \in Requests : executions'[x] = executions[x]
  BY <1>2, <1>3, Stutters
<1>4. ASSUME NEW x \in Requests, executions'[x] # executions[x]
      PROVE  Lifecycle!LifecycleNext
  <2>1. TaskCommit(w) /\ work[w].row \in Execution
    BY <1>4 DEF WorkerKind
  <2>2. /\ work[w].pc = "finished" /\ work[w].execution = x
        /\ executions'[x] = work[w].row /\ executions'[x] # None
        /\ work[w].row.status \in {"READY", "ERROR"} /\ results' = results
    BY <1>1, <1>4, <2>1, TaskFrame DEF WorkOK, TaskCommit
  <2>3. \A y \in Requests \ {x} : executions'[y] = executions[y]
    BY <1>1, <2>2, TaskFrame
  <2>4. /\ executions[x] # None /\ executions[x] \in Execution
        /\ executions[x].status \in {"QUEUED", "READY", "ERROR"}
    BY <1>1, <2>2 DEF UpdatesInPlace, HoldsRow, NoneProcessing, TypeOK, Execution, Status
  <2>5. lifecycleStatus[x] = executions[x].status
    BY <2>4, Seen
  <2>6. /\ lifecycleStatus'[x] = work[w].row.status
        /\ lifecycleResult'[x] = (work[w].row.status = "READY")
    BY <1>1, <2>2, SeenNext, FinishedResult
  <2>7. \A y \in Requests \ {x} : /\ lifecycleStatus'[y] = lifecycleStatus[y]
                                  /\ lifecycleResult'[y] = lifecycleResult[y]
    BY <1>2, <2>3
  <2>8. /\ lifecycleStatus' = [lifecycleStatus EXCEPT ![x] = work[w].row.status]
        /\ lifecycleResult' = [lifecycleResult EXCEPT ![x] = work[w].row.status = "READY"]
        /\ (work[w].row.status = "READY") = lifecycleResult[x] =>
             lifecycleResult' = lifecycleResult
    BY <2>6, <2>7, Changes
  <2>9. CASE executions[x].status = "QUEUED"
    <3>1. CASE work[w].row.status = "READY"
      <4>1. Lifecycle!Succeed(x)
        BY <2>5, <2>8, <2>9, <3>1 DEF Lifecycle!Succeed
      <4>. QED BY <4>1 DEF Lifecycle!LifecycleNext
    <3>2. CASE work[w].row.status = "ERROR"
      <4>1. lifecycleResult[x] = FALSE
        BY <2>9, Seen
      <4>2. Lifecycle!Fail(x)
        BY <2>5, <2>8, <2>9, <3>2, <4>1 DEF Lifecycle!Fail
      <4>. QED BY <4>2 DEF Lifecycle!LifecycleNext
    <3>. QED BY <2>2, <3>1, <3>2
  <2>10. CASE executions[x].status # "QUEUED"
    <3>1. MaxRedeliveries # 0
      BY <2>2, <2>4, <2>10 DEF LifecycleInv, OneJob, JobFits, Busy
    <3>2. MaxRedeliveries > 0
      BY <1>1, <3>1
    <3>3. Lifecycle!FinishAgain(x)
      BY <2>2, <2>4, <2>5, <2>8, <2>10, <3>2 DEF Lifecycle!FinishAgain
    <3>. QED BY <3>3 DEF Lifecycle!LifecycleNext
  <2>. QED BY <2>9, <2>10
<1>. QED
  BY <1>3, <1>4

-------------------------------------------------------------------------------
(* The implementation.                                                     *)

\* Unless messages are delivered twice there is one job for each execution, and
\* none once it is finished.
THEOREM SpecLifecycleInv == Spec => []LifecycleInv
<1>1. Init => LifecycleInv
  BY DEF Init, LifecycleInv, OneJob, NoneProcessing, Busy, Idle, Exists
<1>2. IndInv /\ LifecycleInv /\ [Next]_vars => LifecycleInv'
  BY ProcessingStep, OneJobStep DEF LifecycleInv
<1>. QED
  BY <1>1, <1>2, SpecIndInv, PTL DEF Spec

\* The pipeline implements the life cycle its clients see: an execution is
\* created once, finishes once, or again when its job runs again, becomes
\* downloadable in the step that shows it READY, and goes only with its project.
THEOREM Implements == Spec => ImplementsLifecycle
<1>1. Init => Lifecycle!LifecycleInit
  BY DEF Init, Lifecycle!LifecycleInit, lifecycleStatus, lifecycleResult, Exists, Ready
<1>2. ASSUME IndInv, LifecycleInv, [Next]_vars
      PROVE  [Lifecycle!LifecycleNext]_(Lifecycle!lifecycleVars)
  <2>1. DataInv
    BY <1>2 DEF IndInv
  <2>2. CASE UNCHANGED <<projects, reports, executions, originals, results, queue,
                         pc, args, outcome, work>>
    BY <2>2 DEF Lifecycle!lifecycleVars, lifecycleStatus, lifecycleResult, Exists, Ready
  <2>3. ASSUME NEW q \in Requests, Commit(q)
        PROVE  Lifecycle!LifecycleNext
    BY <2>1, <2>3, CommitLifecycle DEF Lifecycle!LifecycleNext
  <2>4. ASSUME NEW q \in Requests, DeleteCommit(q)
        PROVE  Lifecycle!LifecycleNext
    BY <2>1, <2>4, DeleteLifecycle DEF Lifecycle!LifecycleNext
  <2>. QED
    BY <1>2, <2>1, <2>2, <2>3, <2>4, StepKinds, RequestLifecycle, WorkerLifecycle
<1>. QED
  BY <1>1, <1>2, SpecIndInv, SpecLifecycleInv, PTL
  DEF Spec, ImplementsLifecycle, Lifecycle!LifecycleSpec
=============================================================================
