-------------------------- MODULE ReportPipelineProofs -------------------------
(***************************************************************************)
(* Proofs about ReportPipeline, for every set of requests, projects,       *)
(* columns and workers and every bound.                                    *)
(***************************************************************************)
EXTENDS ReportPipeline, TLAPS

-------------------------------------------------------------------------------
(* Types                                                                   *)

\* The types of a request's variables, and of the rest.
ReqTypeOK ==
  /\ pc \in [Requests -> Places]
  /\ args \in [Requests -> Args]
  /\ outcome \in [Requests -> Outcomes \cup {None}]

LEMMA NoArgsType == NoArgs \in Args
BY DEF NoArgs, Args

LEMMA IdleType == Idle \in Work
BY ConstantsAssumption DEF Idle, Work

LEMMA EndType ==
  ASSUME ReqTypeOK, NEW q \in Requests, NEW o \in Outcomes, End(q, o)
  PROVE  ReqTypeOK'
BY NoArgsType DEF ReqTypeOK, End, Places

\* A request that moves on with typed arguments stays typed.
LEMMA GotoType ==
  ASSUME ReqTypeOK, NEW q \in Requests, NEW a \in Args, NEW from, NEW to \in Places,
         Goto(q, from, to), args' = [args EXCEPT ![q] = a], UNCHANGED outcome
  PROVE  ReqTypeOK'
BY DEF ReqTypeOK, Goto

\* A worker that takes on a typed record stays typed.
LEMMA BecomeType ==
  ASSUME work \in [Workers -> Work], NEW w \in Workers, NEW from,
         NEW record \in Work, Become(w, from, record)
  PROVE  work' \in [Workers -> Work]
BY DEF Become

LEMMA EnqueueType ==
  ASSUME queue \subseteq Message, redelivered \in 0 .. MaxRedeliveries,
         unserved \subseteq Requests, NEW x \in Requests, Enqueue(x)
  PROVE  /\ queue' \subseteq Message /\ redelivered' \in 0 .. MaxRedeliveries
         /\ unserved' \subseteq Requests
BY ConstantsAssumption DEF Enqueue, Message

\* Every step keeps the types.
LEMMA TypeStep ==
  ASSUME TypeOK, ArgsOK, WorkOK, [Next]_vars
  PROVE  TypeOK'
<1> USE DEF TypeOK, vars, dbVars, queueVars, reqVars
<1>0. ReqTypeOK /\ (ReqTypeOK' => /\ pc' \in [Requests -> Places]
                                /\ args' \in [Requests -> Args]
                                /\ outcome' \in [Requests -> Outcomes \cup {None}])
  BY DEF ReqTypeOK
<1>1. ASSUME NEW q \in Requests, UploadTooLarge(q)
      PROVE  TypeOK'
  <2>1. ReqTypeOK'
    BY <1>1, EndType, <1>0 DEF UploadTooLarge, Outcomes
  <2>2. QED  BY <1>1, <2>1, <1>0 DEF UploadTooLarge
<1>2. ASSUME NEW q \in Requests, NEW p \in Projects, NEW f \in SUBSET Columns, UploadFindProject(q, p, f)
      PROVE  TypeOK'
  <2>1. CASE p \in projects
    <3>1. [project |-> p, report |-> q, file |-> f, snapshot |-> {}] \in Args
      BY DEF Args
    <3>2. ReqTypeOK'
      BY <1>2, <2>1, <3>1, GotoType, <1>0 DEF UploadFindProject, Places
    <3>3. QED  BY <1>2, <2>1, <3>2, <1>0 DEF UploadFindProject
  <2>2. CASE p \notin projects
    <3>1. End(q, "ProjectNotFound")
      BY <1>2, <2>2 DEF UploadFindProject
    <3>2. ReqTypeOK'
      BY <3>1, EndType, <1>0 DEF Outcomes
    <3>3. QED  BY <1>2, <3>2, <1>0 DEF UploadFindProject
  <2>3. QED  BY <2>1, <2>2
<1>3. ASSUME NEW q \in Requests, UploadCheckColumns(q)
      PROVE  TypeOK'
  <2>1. CASE config[args[q].project] \subseteq args[q].file
    <3> DEFINE a == [args[q] EXCEPT !.snapshot = config[args[q].project]]
    <3>0. args[q].project \in Projects
      BY <1>3 DEF UploadCheckColumns, ArgsOK, Uploading, Working
    <3>1. a \in Args
      BY <3>0 DEF Args
    <3>a. args' = [args EXCEPT ![q] = a] /\ Goto(q, "found", "checked")
          /\ UNCHANGED outcome
      BY <1>3, <2>1 DEF UploadCheckColumns
    <3> HIDE DEF a
    <3>2. ReqTypeOK'
      BY <3>a, <3>1, GotoType, <1>0 DEF Places
    <3>3. QED  BY <1>3, <2>1, <3>2, <1>0 DEF UploadCheckColumns
  <2>2. CASE ~(config[args[q].project] \subseteq args[q].file)
    <3>1. End(q, "ColumnsMismatch")
      BY <1>3, <2>2 DEF UploadCheckColumns
    <3>2. ReqTypeOK'
      BY <3>1, EndType, <1>0 DEF Outcomes
    <3>3. QED  BY <1>3, <3>2, <1>0 DEF UploadCheckColumns
  <2>3. QED  BY <2>1, <2>2
<1>4. ASSUME NEW q \in Requests, UploadSave(q)
      PROVE  TypeOK'
  <2>1. ReqTypeOK'
    BY <1>4, <1>0 DEF UploadSave, ReqTypeOK, Goto, Places, Outcomes
  <2>2. QED  BY <1>4, <2>1, <1>0 DEF UploadSave, Args
<1>5. ASSUME NEW q \in Requests, UploadInsert(q)
      PROVE  TypeOK'
  <2>1. ReqTypeOK'
    BY <1>5, <1>0 DEF UploadInsert, ReqTypeOK, Goto, Places
  <2>2. QED  BY <1>5, <2>1, <1>0, EnqueueType DEF UploadInsert
<1>6. ASSUME NEW q \in Requests, SaveFails(q)
      PROVE  TypeOK'
  <2>1. ReqTypeOK'
    BY <1>6, EndType, <1>0 DEF SaveFails, Outcomes
  <2>2. QED  BY <1>6, <2>1, <1>0 DEF SaveFails, Args
<1>7. ASSUME NEW q \in Requests, NEW r \in Requests, ReprocessRead(q, r)
      PROVE  TypeOK'
  <2>1. CASE reports[r] # None
    <3>1. [project |-> reports[r], report |-> r, file |-> {},
           snapshot |-> config[reports[r]]] \in Args
      BY <2>1 DEF Args
    <3>2. ReqTypeOK'
      BY <1>7, <2>1, <3>1, GotoType, <1>0 DEF ReprocessRead, Places
    <3>3. QED  BY <1>7, <2>1, <3>2, <1>0 DEF ReprocessRead
  <2>2. CASE reports[r] = None
    <3>1. End(q, "ReportNotFound")
      BY <1>7, <2>2 DEF ReprocessRead
    <3>2. ReqTypeOK'
      BY <3>1, EndType, <1>0 DEF Outcomes
    <3>3. QED  BY <1>7, <3>2, <1>0 DEF ReprocessRead
  <2>3. QED  BY <2>1, <2>2
<1>8. ASSUME NEW q \in Requests, ReprocessInsert(q)
      PROVE  TypeOK'
  <2>1. ReqTypeOK'
    BY <1>8, <1>0 DEF ReprocessInsert, ReqTypeOK, Goto, Places
  <2>2. QED  BY <1>8, <2>1, <1>0, EnqueueType DEF ReprocessInsert
<1>9. ASSUME NEW q \in Requests, NEW x \in Requests, DownloadCheck(q, x)
      PROVE  TypeOK'
  <2>1. CASE End(q, "ReportNotFound") \/ End(q, "ReportNotReady")
    <3>1. ReqTypeOK'
      BY <2>1, EndType, <1>0 DEF Outcomes
    <3>2. QED  BY <1>9, <3>1, <1>0 DEF DownloadCheck
  <2>2. CASE /\ Goto(q, "new", "ready")
             /\ args' = [args EXCEPT ![q].report = x]
             /\ UNCHANGED outcome
    <3> DEFINE a == [args[q] EXCEPT !.report = x]
    <3>1. a \in Args
      BY DEF Args
    <3>2. args' = [args EXCEPT ![q] = a]
      BY <2>2
    <3> HIDE DEF a
    <3>3. ReqTypeOK'
      BY <2>2, <3>1, <3>2, GotoType, <1>0 DEF Places
    <3>4. QED  BY <1>9, <3>3, <1>0 DEF DownloadCheck
  <2>3. QED  BY <1>9, <2>1, <2>2 DEF DownloadCheck
<1>10. ASSUME NEW q \in Requests, DownloadSign(q)
      PROVE  TypeOK'
  <2>1. ReqTypeOK'
    BY <1>10, <1>0 DEF DownloadSign, ReqTypeOK, Goto, Places, Outcomes
  <2>2. QED  BY <1>10, <2>1, <1>0 DEF DownloadSign
<1>11. ASSUME NEW q \in Requests, NEW p \in Projects, DeleteFind(q, p)
      PROVE  TypeOK'
  <2>1. CASE p \in projects
    <3> DEFINE a == [args[q] EXCEPT !.project = p]
    <3>1. a \in Args
      BY DEF Args
    <3>a. args' = [args EXCEPT ![q] = a] /\ Goto(q, "new", "toDelete")
          /\ UNCHANGED outcome
      BY <1>11, <2>1 DEF DeleteFind
    <3> HIDE DEF a
    <3>2. ReqTypeOK'
      BY <3>a, <3>1, GotoType, <1>0 DEF Places
    <3>3. QED  BY <1>11, <2>1, <3>2, <1>0 DEF DeleteFind
  <2>2. CASE p \notin projects
    <3>1. End(q, "ProjectNotFound")
      BY <1>11, <2>2 DEF DeleteFind
    <3>2. ReqTypeOK'
      BY <3>1, EndType, <1>0 DEF Outcomes
    <3>3. QED  BY <1>11, <3>2, <1>0 DEF DeleteFind
  <2>3. QED  BY <2>1, <2>2
<1>12. ASSUME NEW q \in Requests, DeleteFlush(q)
      PROVE  TypeOK'
  <2>1. ReqTypeOK'
    <3>1. CASE Goto(q, "toDelete", "deleted") /\ UNCHANGED <<args, outcome>>
      BY <3>1, <1>0 DEF ReqTypeOK, Goto, Places
    <3>2. CASE End(q, "ok")
      BY <3>2, EndType, <1>0 DEF Outcomes
    <3>3. QED  BY <1>12, <3>1, <3>2 DEF DeleteFlush
  <2>2. QED  BY <1>12, <2>1, <1>0 DEF DeleteFlush
<1>13. ASSUME NEW q \in Requests, DeleteCommit(q)
      PROVE  TypeOK'
  <2>1. ReqTypeOK'
    BY <1>13, EndType, <1>0 DEF DeleteCommit, Outcomes
  <2>2. QED  BY <1>13, <2>1, <1>0 DEF DeleteCommit
<1>14. ASSUME NEW q \in Requests, Answer(q)
      PROVE  TypeOK'
  <2>1. ReqTypeOK'
    BY <1>14, <1>0 DEF Answer, ReqTypeOK, Goto, Places, Outcomes
  <2>2. QED  BY <1>14, <2>1, <1>0 DEF Answer
<1>15. ASSUME NEW q \in Requests, Commit(q)
      PROVE  TypeOK'
  <2>1. ReqTypeOK'
    BY <1>15, EndType, <1>0 DEF Commit, Outcomes
  <2>2. args[q].project \in Projects /\ args[q].report \in Requests
    BY <1>15 DEF Commit, ArgsOK, Working
  <2>3. QueuedExecution(q) \in Execution
    BY <2>2 DEF QueuedExecution, Execution, Status, Args
  <2>4. QED  BY <1>15, <2>1, <2>2, <2>3, <1>0 DEF Commit
<1>16. ASSUME NEW q \in Requests, RequestFails(q)
      PROVE  TypeOK'
  <2>1. ReqTypeOK'
    BY <1>16, EndType, <1>0 DEF RequestFails, Outcomes
  <2>2. QED  BY <1>16, <2>1, <1>0 DEF RequestFails
<1>17. ASSUME NEW q \in Requests, CommitFails(q)
      PROVE  TypeOK'
  <2>1. ReqTypeOK'
    BY <1>17, EndType, <1>0 DEF CommitFails, Outcomes
  <2>2. QED  BY <1>17, <2>1, <1>0 DEF CommitFails
<1>18. ASSUME NEW p \in Projects, NEW c \in SUBSET Columns, ChangeConfig(p, c)
      PROVE  TypeOK'
  BY <1>18 DEF ChangeConfig
<1>19. ASSUME NEW w \in Workers, Load(w)
      PROVE  TypeOK'
  <2> DEFINE record == [work[w] EXCEPT !.pc = "loaded",
                                       !.row = executions[work[w].execution]]
  <2>1. work[w].execution \in Requests
    BY <1>19 DEF Load, WorkOK
  <2>2. record \in Work
    BY <2>1 DEF Work
  <2>3. work' \in [Workers -> Work]
    BY <1>19, <2>2 DEF Load, Become
  <2>4. QED  BY <1>19, <2>3 DEF Load
<1>20. ASSUME NEW w \in Workers, Begin(w)
      PROVE  TypeOK'
  <2> DEFINE row == work[w].row
             newRow == [row EXCEPT !.status = "PROCESSING"]
             record == [work[w] EXCEPT !.pc = "processing", !.row = newRow]
  <2>1. row \in Execution
    BY <1>20 DEF Begin, Become, WorkOK, Work
  <2>2. newRow \in Execution
    BY <2>1 DEF Execution, Status
  <2>3. record \in Work
    BY <2>2 DEF Work
  <2>4. work' = [work EXCEPT ![w] = record]
    BY <1>20, <2>1 DEF Begin, Become, Work, Execution
  <2> HIDE DEF record
  <2>5. QED  BY <1>20, <2>3, <2>4 DEF Begin
<1>21. ASSUME NEW w \in Workers, ProcessSucceeds(w)
      PROVE  TypeOK'
  <2> DEFINE row == work[w].row
             newRow == [row EXCEPT !.status = "READY", !.result = TRUE,
                                   !.log = FALSE]
             record == [work[w] EXCEPT !.pc = "finished", !.row = newRow]
  <2>1. row \in Execution
    BY <1>21 DEF ProcessSucceeds, Become, WorkOK, Work
  <2>2. newRow \in Execution
    BY <2>1 DEF Execution, Status
  <2>3. record \in Work
    BY <2>2 DEF Work
  <2>4. work' = [work EXCEPT ![w] = record]
    BY <1>21 DEF ProcessSucceeds, Become
  <2>5. originals[row.report] \in SUBSET Columns
    BY <1>21, <2>1 DEF ProcessSucceeds, Execution
  <2>6. Processed(row.snapshot, originals[row.report]) \in Result
    BY <2>1, <2>5 DEF Processed, Result, Execution
  <2>7. results' \in [Requests -> Result \cup {None}]
    BY <1>21, <2>6 DEF ProcessSucceeds
  <2> HIDE DEF record
  <2>8. QED  BY <1>21, <2>3, <2>4, <2>7 DEF ProcessSucceeds
<1>22. ASSUME NEW w \in Workers, ProcessFails(w)
      PROVE  TypeOK'
  <2> DEFINE row == work[w].row
             newRow == [row EXCEPT !.status = "ERROR", !.log = TRUE]
             record == [work[w] EXCEPT !.pc = "finished", !.row = newRow]
  <2>1. row \in Execution
    BY <1>22 DEF ProcessFails, Become, WorkOK, Work
  <2>2. newRow \in Execution
    BY <2>1 DEF Execution, Status
  <2>3. record \in Work
    BY <2>2 DEF Work
  <2>4. work' = [work EXCEPT ![w] = record]
    BY <1>22, <2>1 DEF ProcessFails, Become, Work, Execution
  <2> HIDE DEF record
  <2>5. QED  BY <1>22, <2>3, <2>4 DEF ProcessFails
<1>23. ASSUME NEW w \in Workers, TaskCommit(w)
      PROVE  TypeOK'
  <2>1. work[w].row \in Execution /\ work[w].execution \in Requests
    BY <1>23 DEF TaskCommit, Become, WorkOK, Work
  <2>2. work' \in [Workers -> Work]
    BY <1>23, IdleType DEF TaskCommit, Become
  <2>3. QED  BY <1>23, <2>1, <2>2 DEF TaskCommit
<1>24. ASSUME NEW w \in Workers, TaskFails(w)
      PROVE  TypeOK'
  <2>1. work[w].execution \in Requests
    BY <1>24 DEF TaskFails, WorkOK
  <2>2. work' \in [Workers -> Work]
    BY <1>24, IdleType DEF TaskFails
  <2>3. queue' \subseteq Message
    <3>1. work[w].retries \in 0 .. MaxRetries
      BY DEF Work
    <3>2. QED  BY <1>24, <2>1, <3>1, ConstantsAssumption DEF TaskFails, Message
  <2>4. unserved' \subseteq Requests
    BY <1>24, <2>1 DEF TaskFails
  <2>5. QED  BY <1>24, <2>2, <2>3, <2>4 DEF TaskFails
<1>25. ASSUME NEW w \in Workers, WorkerCrash(w)
      PROVE  TypeOK'
  <2>1. work[w].execution \in Requests
    BY <1>25 DEF WorkerCrash, WorkOK
  <2>2. work' \in [Workers -> Work]
    BY <1>25, IdleType DEF WorkerCrash
  <2>3. QED  BY <1>25, <2>1, <2>2 DEF WorkerCrash
<1>26. ASSUME NEW w \in Workers, NEW m \in queue, Receive(w, m)
      PROVE  TypeOK'
  <2> DEFINE record == [pc |-> "received", execution |-> m.execution,
                        retries |-> m.retries, row |-> None]
  <2>1. record \in Work
    BY DEF Work, Message
  <2>2. work' = [work EXCEPT ![w] = record]
    BY <1>26 DEF Receive, Become
  <2> HIDE DEF record
  <2>3. queue' \subseteq Message /\ redelivered' \in 0 .. MaxRedeliveries
    BY <1>26, ConstantsAssumption DEF Receive
  <2>4. QED  BY <1>26, <2>1, <2>2, <2>3 DEF Receive
<1>27. CASE UNCHANGED vars
  BY <1>27
<1>28. QED
  BY <1>1, <1>2, <1>3, <1>4, <1>5, <1>6, <1>7, <1>8, <1>9, <1>10, <1>11, <1>12, <1>13, <1>14, <1>15, <1>16, <1>17, <1>18, <1>19, <1>20, <1>21, <1>22, <1>23, <1>24, <1>25, <1>26, <1>27
  DEF Next, RequestStep, UploadStep, ReprocessStep, DownloadStep, DeleteStep,
      TaskStep

\* What changes of a worker's record when it moves on.
LEMMA BecomeFrame ==
  ASSUME work \in [Workers -> Work], NEW w \in Workers, NEW from, NEW record,
         Become(w, from, record)
  PROVE  /\ work[w].pc = from /\ work'[w] = record
         /\ \A v \in Workers \ {w} : work'[v] = work[v]
BY DEF Become

\* The row a worker holds while it processes, and what each step makes of it.
LEMMA RowFrame ==
  ASSUME TypeOK, WorkOK, NEW w \in Workers
  PROVE  /\ work[w].row # None => work[w].row \in Execution
         /\ Begin(w) => /\ work[w].row \in Execution
                        /\ work'[w].pc = "processing"
                        /\ work'[w].execution = work[w].execution
                        /\ work'[w].row \in Execution
                        /\ work'[w].row.status = "PROCESSING"
                        /\ SameRun(work'[w].row, work[w].row)
                        /\ \A v \in Workers \ {w} : work'[v] = work[v]
         /\ ProcessSucceeds(w) => /\ work[w].row \in Execution
                                  /\ work'[w].pc = "finished"
                                  /\ work'[w].execution = work[w].execution
                                  /\ work'[w].row \in Execution
                                  /\ work'[w].row.status = "READY"
                                  /\ work'[w].row.result /\ ~work'[w].row.log
                                  /\ SameRun(work'[w].row, work[w].row)
                                  /\ \A v \in Workers \ {w} : work'[v] = work[v]
         /\ ProcessFails(w) => /\ work[w].row \in Execution
                               /\ work'[w].pc = "finished"
                               /\ work'[w].execution = work[w].execution
                               /\ work'[w].row \in Execution
                               /\ work'[w].row.status = "ERROR"
                               /\ SameRun(work'[w].row, work[w].row)
                               /\ \A v \in Workers \ {w} : work'[v] = work[v]
<1>0. work \in [Workers -> Work]
  BY DEF TypeOK
<1>1. work[w].row # None => work[w].row \in Execution
  BY <1>0 DEF Work
<1>2. ASSUME Begin(w)
      PROVE  /\ work[w].row \in Execution
             /\ work'[w].pc = "processing"
             /\ work'[w].execution = work[w].execution
             /\ work'[w].row \in Execution
             /\ work'[w].row.status = "PROCESSING"
             /\ SameRun(work'[w].row, work[w].row)
             /\ \A v \in Workers \ {w} : work'[v] = work[v]
  <2> DEFINE newRow == [work[w].row EXCEPT !.status = "PROCESSING"]
  <2>1. work[w].row \in Execution
    BY <1>1, <1>2 DEF Begin, WorkOK
  <2>2. newRow \in Execution /\ newRow.status = "PROCESSING"
        /\ SameRun(newRow, work[w].row)
    BY <2>1 DEF Execution, Status, SameRun
  <2>3. work' = [work EXCEPT ![w] = [work[w] EXCEPT !.pc = "processing",
                                                    !.row = newRow]]
    BY <1>0, <1>2, <2>1 DEF Begin, Become, Work, Execution
  <2> HIDE DEF newRow
  <2>4. /\ work'[w].pc = "processing" /\ work'[w].row = newRow
        /\ work'[w].execution = work[w].execution
        /\ \A v \in Workers \ {w} : work'[v] = work[v]
    BY <1>0, <2>3 DEF Work
  <2>5. QED  BY <2>1, <2>2, <2>4
<1>3. ASSUME ProcessSucceeds(w)
      PROVE  /\ work[w].row \in Execution
             /\ work'[w].pc = "finished"
             /\ work'[w].execution = work[w].execution
             /\ work'[w].row \in Execution
             /\ work'[w].row.status = "READY"
             /\ work'[w].row.result /\ ~work'[w].row.log
             /\ SameRun(work'[w].row, work[w].row)
             /\ \A v \in Workers \ {w} : work'[v] = work[v]
  <2> DEFINE newRow == [work[w].row EXCEPT !.status = "READY", !.result = TRUE,
                                           !.log = FALSE]
  <2>1. work[w].row \in Execution
    BY <1>1, <1>3 DEF ProcessSucceeds, WorkOK
  <2>2. newRow \in Execution /\ newRow.status = "READY" /\ newRow.result
        /\ ~newRow.log /\ SameRun(newRow, work[w].row)
    BY <2>1 DEF Execution, Status, SameRun
  <2>3. work' = [work EXCEPT ![w] = [work[w] EXCEPT !.pc = "finished",
                                                    !.row = newRow]]
    BY <1>3 DEF ProcessSucceeds, Become
  <2> HIDE DEF newRow
  <2>4. /\ work'[w].pc = "finished" /\ work'[w].row = newRow
        /\ work'[w].execution = work[w].execution
        /\ \A v \in Workers \ {w} : work'[v] = work[v]
    BY <1>0, <2>3 DEF Work
  <2>5. QED  BY <2>1, <2>2, <2>4
<1>4. ASSUME ProcessFails(w)
      PROVE  /\ work[w].row \in Execution
             /\ work'[w].pc = "finished"
             /\ work'[w].execution = work[w].execution
             /\ work'[w].row \in Execution
             /\ work'[w].row.status = "ERROR"
             /\ SameRun(work'[w].row, work[w].row)
             /\ \A v \in Workers \ {w} : work'[v] = work[v]
  <2> DEFINE newRow == [work[w].row EXCEPT !.status = "ERROR", !.log = TRUE]
  <2>1. work[w].row \in Execution
    BY <1>1, <1>4 DEF ProcessFails, Become, WorkOK
  <2>2. newRow \in Execution /\ newRow.status = "ERROR"
        /\ SameRun(newRow, work[w].row)
    BY <2>1 DEF Execution, Status, SameRun
  <2>3. work' = [work EXCEPT ![w] = [work[w] EXCEPT !.pc = "finished",
                                                    !.row = newRow]]
    BY <1>0, <1>4 DEF ProcessFails, Become, Work
  <2> HIDE DEF newRow
  <2>4. /\ work'[w].pc = "finished" /\ work'[w].row = newRow
        /\ work'[w].execution = work[w].execution
        /\ \A v \in Workers \ {w} : work'[v] = work[v]
    BY <1>0, <2>3 DEF Work
  <2>5. QED  BY <2>1, <2>2, <2>4
<1>5. QED  BY <1>1, <1>2, <1>3, <1>4

\* A request that holds rows or is about to has its project and report in hand.
LEMMA ArgsStep ==
  ASSUME TypeOK, ArgsOK, [Next]_vars
  PROVE  ArgsOK'
<1> USE DEF vars, dbVars, queueVars, reqVars
<1>0. /\ pc \in [Requests -> Places] /\ args \in [Requests -> Args]
      /\ reports \in [Requests -> Projects \cup {None}]
  BY DEF TypeOK
<1>1. ASSUME NEW q \in Requests, UploadTooLarge(q)
      PROVE  ArgsOK'
  BY <1>1, <1>0 DEF UploadTooLarge, End, ArgsOK, Uploading, Working
<1>2. ASSUME NEW q \in Requests, NEW p \in Projects, NEW f \in SUBSET Columns, UploadFindProject(q, p, f)
      PROVE  ArgsOK'
  BY <1>2, <1>0 DEF UploadFindProject, Goto, End, ArgsOK, Uploading, Working
<1>3. ASSUME NEW q \in Requests, UploadCheckColumns(q)
      PROVE  ArgsOK'
  <2>1. CASE config[args[q].project] \subseteq args[q].file
    <3>1. /\ args'[q].project = args[q].project
          /\ args'[q].report = args[q].report
          /\ \A o \in Requests \ {q} : args'[o] = args[o]
      BY <1>3, <2>1, <1>0 DEF UploadCheckColumns, Args
    <3>2. QED  BY <1>3, <2>1, <3>1, <1>0
               DEF UploadCheckColumns, Goto, ArgsOK, Uploading, Working
  <2>2. CASE ~(config[args[q].project] \subseteq args[q].file)
    BY <1>3, <2>2, <1>0 DEF UploadCheckColumns, End, ArgsOK, Uploading, Working
  <2>3. QED  BY <2>1, <2>2
<1>4. ASSUME NEW q \in Requests, UploadSave(q)
      PROVE  ArgsOK'
  BY <1>4, <1>0 DEF UploadSave, Goto, ArgsOK, Uploading, Working
<1>5. ASSUME NEW q \in Requests, UploadInsert(q)
      PROVE  ArgsOK'
  BY <1>5, <1>0 DEF UploadInsert, Goto, ArgsOK, Uploading, Working
<1>6. ASSUME NEW q \in Requests, SaveFails(q)
      PROVE  ArgsOK'
  BY <1>6, <1>0 DEF SaveFails, End, ArgsOK, Uploading, Working
<1>7. ASSUME NEW q \in Requests, NEW r \in Requests, ReprocessRead(q, r)
      PROVE  ArgsOK'
  BY <1>7, <1>0 DEF ReprocessRead, Goto, End, ArgsOK, Uploading, Working
<1>8. ASSUME NEW q \in Requests, ReprocessInsert(q)
      PROVE  ArgsOK'
  BY <1>8, <1>0 DEF ReprocessInsert, Goto, ArgsOK, Uploading, Working
<1>9. ASSUME NEW q \in Requests, NEW x \in Requests, DownloadCheck(q, x)
      PROVE  ArgsOK'
  BY <1>9, <1>0 DEF DownloadCheck, Goto, End, ArgsOK, Uploading, Working
<1>10. ASSUME NEW q \in Requests, DownloadSign(q)
      PROVE  ArgsOK'
  BY <1>10, <1>0 DEF DownloadSign, Goto, ArgsOK, Uploading, Working
<1>11. ASSUME NEW q \in Requests, NEW p \in Projects, DeleteFind(q, p)
      PROVE  ArgsOK'
  <2>1. CASE p \in projects
    <3>1. args'[q].project = p /\ \A o \in Requests \ {q} : args'[o] = args[o]
      BY <1>11, <2>1, <1>0 DEF DeleteFind, Args
    <3>2. QED  BY <1>11, <2>1, <3>1, <1>0
               DEF DeleteFind, Goto, ArgsOK, Uploading, Working
  <2>2. CASE p \notin projects
    BY <1>11, <2>2, <1>0 DEF DeleteFind, End, ArgsOK, Uploading, Working
  <2>3. QED  BY <2>1, <2>2
<1>12. ASSUME NEW q \in Requests, DeleteFlush(q)
      PROVE  ArgsOK'
  BY <1>12, <1>0 DEF DeleteFlush, Goto, End, ArgsOK, Uploading, Working
<1>13. ASSUME NEW q \in Requests, DeleteCommit(q)
      PROVE  ArgsOK'
  BY <1>13, <1>0 DEF DeleteCommit, End, ArgsOK, Uploading, Working
<1>14. ASSUME NEW q \in Requests, Answer(q)
      PROVE  ArgsOK'
  BY <1>14, <1>0 DEF Answer, Goto, ArgsOK, Uploading, Working
<1>15. ASSUME NEW q \in Requests, Commit(q)
      PROVE  ArgsOK'
  BY <1>15, <1>0 DEF Commit, End, ArgsOK, Uploading, Working
<1>16. ASSUME NEW q \in Requests, RequestFails(q)
      PROVE  ArgsOK'
  BY <1>16, <1>0 DEF RequestFails, End, ArgsOK, Uploading, Working
<1>17. ASSUME NEW q \in Requests, CommitFails(q)
      PROVE  ArgsOK'
  BY <1>17, <1>0 DEF CommitFails, End, ArgsOK, Uploading, Working
<1>18. ASSUME NEW p \in Projects, NEW c \in SUBSET Columns, ChangeConfig(p, c)
      PROVE  ArgsOK'
  BY <1>18, <1>0 DEF ChangeConfig, ArgsOK
<1>19. ASSUME NEW w \in Workers, Load(w)
      PROVE  ArgsOK'
  BY <1>19, <1>0 DEF Load, ArgsOK
<1>20. ASSUME NEW w \in Workers, Begin(w)
      PROVE  ArgsOK'
  BY <1>20, <1>0 DEF Begin, ArgsOK
<1>21. ASSUME NEW w \in Workers, ProcessSucceeds(w)
      PROVE  ArgsOK'
  BY <1>21, <1>0 DEF ProcessSucceeds, ArgsOK
<1>22. ASSUME NEW w \in Workers, ProcessFails(w)
      PROVE  ArgsOK'
  BY <1>22, <1>0 DEF ProcessFails, ArgsOK
<1>23. ASSUME NEW w \in Workers, TaskCommit(w)
      PROVE  ArgsOK'
  BY <1>23, <1>0 DEF TaskCommit, ArgsOK
<1>24. ASSUME NEW w \in Workers, TaskFails(w)
      PROVE  ArgsOK'
  BY <1>24, <1>0 DEF TaskFails, ArgsOK
<1>25. ASSUME NEW w \in Workers, WorkerCrash(w)
      PROVE  ArgsOK'
  BY <1>25, <1>0 DEF WorkerCrash, ArgsOK
<1>26. ASSUME NEW w \in Workers, NEW m \in queue, Receive(w, m)
      PROVE  ArgsOK'
  BY <1>26, <1>0 DEF Receive, ArgsOK
<1>27. CASE UNCHANGED vars
  BY <1>27, <1>0 DEF ArgsOK
<1>28. QED
  BY <1>1, <1>2, <1>3, <1>4, <1>5, <1>6, <1>7, <1>8, <1>9, <1>10, <1>11, <1>12, <1>13, <1>14, <1>15, <1>16, <1>17, <1>18, <1>19, <1>20, <1>21, <1>22, <1>23, <1>24, <1>25, <1>26, <1>27
  DEF Next, RequestStep, UploadStep, ReprocessStep, DownloadStep, DeleteStep,
      TaskStep

\* A worker that is not idle has its execution, and its row from the load on.
LEMMA WorkStep ==
  ASSUME TypeOK, WorkOK, [Next]_vars
  PROVE  WorkOK'
<1> USE DEF vars, dbVars, queueVars, reqVars
<1>0. /\ work \in [Workers -> Work] /\ queue \subseteq Message
      /\ executions \in [Requests -> Execution \cup {None}]
      /\ None \notin Execution
  BY NoneAssumption DEF TypeOK
<1>1. ASSUME NEW q \in Requests, UploadTooLarge(q)
      PROVE  WorkOK'
  BY <1>1, <1>0 DEF UploadTooLarge, WorkOK
<1>2. ASSUME NEW q \in Requests, NEW p \in Projects, NEW f \in SUBSET Columns, UploadFindProject(q, p, f)
      PROVE  WorkOK'
  BY <1>2, <1>0 DEF UploadFindProject, WorkOK
<1>3. ASSUME NEW q \in Requests, UploadCheckColumns(q)
      PROVE  WorkOK'
  BY <1>3, <1>0 DEF UploadCheckColumns, WorkOK
<1>4. ASSUME NEW q \in Requests, UploadSave(q)
      PROVE  WorkOK'
  BY <1>4, <1>0 DEF UploadSave, WorkOK
<1>5. ASSUME NEW q \in Requests, UploadInsert(q)
      PROVE  WorkOK'
  BY <1>5, <1>0 DEF UploadInsert, WorkOK
<1>6. ASSUME NEW q \in Requests, SaveFails(q)
      PROVE  WorkOK'
  BY <1>6, <1>0 DEF SaveFails, WorkOK
<1>7. ASSUME NEW q \in Requests, NEW r \in Requests, ReprocessRead(q, r)
      PROVE  WorkOK'
  BY <1>7, <1>0 DEF ReprocessRead, WorkOK
<1>8. ASSUME NEW q \in Requests, ReprocessInsert(q)
      PROVE  WorkOK'
  BY <1>8, <1>0 DEF ReprocessInsert, WorkOK
<1>9. ASSUME NEW q \in Requests, NEW x \in Requests, DownloadCheck(q, x)
      PROVE  WorkOK'
  BY <1>9, <1>0 DEF DownloadCheck, WorkOK
<1>10. ASSUME NEW q \in Requests, DownloadSign(q)
      PROVE  WorkOK'
  BY <1>10, <1>0 DEF DownloadSign, WorkOK
<1>11. ASSUME NEW q \in Requests, NEW p \in Projects, DeleteFind(q, p)
      PROVE  WorkOK'
  BY <1>11, <1>0 DEF DeleteFind, WorkOK
<1>12. ASSUME NEW q \in Requests, DeleteFlush(q)
      PROVE  WorkOK'
  BY <1>12, <1>0 DEF DeleteFlush, WorkOK
<1>13. ASSUME NEW q \in Requests, DeleteCommit(q)
      PROVE  WorkOK'
  BY <1>13, <1>0 DEF DeleteCommit, WorkOK
<1>14. ASSUME NEW q \in Requests, Answer(q)
      PROVE  WorkOK'
  BY <1>14, <1>0 DEF Answer, WorkOK
<1>15. ASSUME NEW q \in Requests, Commit(q)
      PROVE  WorkOK'
  BY <1>15, <1>0 DEF Commit, WorkOK
<1>16. ASSUME NEW q \in Requests, RequestFails(q)
      PROVE  WorkOK'
  BY <1>16, <1>0 DEF RequestFails, WorkOK
<1>17. ASSUME NEW q \in Requests, CommitFails(q)
      PROVE  WorkOK'
  BY <1>17, <1>0 DEF CommitFails, WorkOK
<1>18. ASSUME NEW p \in Projects, NEW c \in SUBSET Columns, ChangeConfig(p, c)
      PROVE  WorkOK'
  BY <1>18, <1>0 DEF ChangeConfig, WorkOK
<1>19. ASSUME NEW w \in Workers, Load(w)
      PROVE  WorkOK'
  BY <1>19, <1>0 DEF Load, Become, Idle, WorkOK
<1>20. ASSUME NEW w \in Workers, Begin(w)
      PROVE  WorkOK'
  <2>1. work[w].pc # "idle"
    BY <1>20 DEF Begin, Become
  <2>2. QED  BY <1>20, <2>1, <1>0, RowFrame DEF WorkOK
<1>21. ASSUME NEW w \in Workers, ProcessSucceeds(w)
      PROVE  WorkOK'
  <2>1. work[w].pc # "idle"
    BY <1>21 DEF ProcessSucceeds, Become
  <2>2. QED  BY <1>21, <2>1, <1>0, RowFrame DEF WorkOK
<1>22. ASSUME NEW w \in Workers, ProcessFails(w)
      PROVE  WorkOK'
  <2>1. work[w].pc # "idle"
    BY <1>22 DEF ProcessFails, Become
  <2>2. QED  BY <1>22, <2>1, <1>0, RowFrame DEF WorkOK
<1>23. ASSUME NEW w \in Workers, TaskCommit(w)
      PROVE  WorkOK'
  BY <1>23, <1>0 DEF TaskCommit, Become, Idle, WorkOK
<1>24. ASSUME NEW w \in Workers, TaskFails(w)
      PROVE  WorkOK'
  BY <1>24, <1>0 DEF TaskFails, Idle, WorkOK
<1>25. ASSUME NEW w \in Workers, WorkerCrash(w)
      PROVE  WorkOK'
  BY <1>25, <1>0 DEF WorkerCrash, Idle, WorkOK
<1>26. ASSUME NEW w \in Workers, NEW m \in queue, Receive(w, m)
      PROVE  WorkOK'
  <2>1. m.execution \in Requests
    BY <1>26, <1>0 DEF Receive, Message
  <2>2. QED  BY <1>26, <2>1, <1>0, BecomeFrame DEF Receive, WorkOK
<1>27. CASE UNCHANGED vars
  BY <1>27, <1>0 DEF WorkOK
<1>28. QED
  BY <1>1, <1>2, <1>3, <1>4, <1>5, <1>6, <1>7, <1>8, <1>9, <1>10, <1>11, <1>12, <1>13, <1>14, <1>15, <1>16, <1>17, <1>18, <1>19, <1>20, <1>21, <1>22, <1>23, <1>24, <1>25, <1>26, <1>27
  DEF Next, RequestStep, UploadStep, ReprocessStep, DownloadStep, DeleteStep,
      TaskStep

\* Once the original of a request that is done is stored, it stays as it is.
LEMMA SettledStep ==
  ASSUME TypeOK, NEW s \in Requests, Settled(s), [Next]_vars
  PROVE  pc'[s] = "done" /\ originals'[s] = originals[s]
<1> USE DEF vars, dbVars, queueVars, reqVars
<1>0. /\ pc \in [Requests -> Places]
      /\ originals \in [Requests -> {None} \cup SUBSET Columns]
      /\ \A S \in SUBSET Columns : S # None
      /\ args \in [Requests -> Args]
  BY ConstantsAssumption DEF TypeOK
<1>1. ASSUME NEW q \in Requests, UploadTooLarge(q)
      PROVE  pc'[s] = "done" /\ originals'[s] = originals[s]
  BY <1>1, <1>0 DEF UploadTooLarge, End, Settled
<1>2. ASSUME NEW q \in Requests, NEW p \in Projects, NEW f \in SUBSET Columns, UploadFindProject(q, p, f)
      PROVE  pc'[s] = "done" /\ originals'[s] = originals[s]
  BY <1>2, <1>0 DEF UploadFindProject, Goto, End, Settled
<1>3. ASSUME NEW q \in Requests, UploadCheckColumns(q)
      PROVE  pc'[s] = "done" /\ originals'[s] = originals[s]
  BY <1>3, <1>0 DEF UploadCheckColumns, Goto, End, Settled
<1>4. ASSUME NEW q \in Requests, UploadSave(q)
      PROVE  pc'[s] = "done" /\ originals'[s] = originals[s]
  BY <1>4, <1>0 DEF UploadSave, Goto, Settled
<1>5. ASSUME NEW q \in Requests, UploadInsert(q)
      PROVE  pc'[s] = "done" /\ originals'[s] = originals[s]
  BY <1>5, <1>0 DEF UploadInsert, Goto, Settled
<1>6. ASSUME NEW q \in Requests, SaveFails(q)
      PROVE  pc'[s] = "done" /\ originals'[s] = originals[s]
  BY <1>6, <1>0 DEF SaveFails, End, Settled
<1>7. ASSUME NEW q \in Requests, NEW r \in Requests, ReprocessRead(q, r)
      PROVE  pc'[s] = "done" /\ originals'[s] = originals[s]
  BY <1>7, <1>0 DEF ReprocessRead, Goto, End, Settled
<1>8. ASSUME NEW q \in Requests, ReprocessInsert(q)
      PROVE  pc'[s] = "done" /\ originals'[s] = originals[s]
  BY <1>8, <1>0 DEF ReprocessInsert, Goto, Settled
<1>9. ASSUME NEW q \in Requests, NEW x \in Requests, DownloadCheck(q, x)
      PROVE  pc'[s] = "done" /\ originals'[s] = originals[s]
  BY <1>9, <1>0 DEF DownloadCheck, Goto, End, Settled
<1>10. ASSUME NEW q \in Requests, DownloadSign(q)
      PROVE  pc'[s] = "done" /\ originals'[s] = originals[s]
  BY <1>10, <1>0 DEF DownloadSign, Goto, Settled
<1>11. ASSUME NEW q \in Requests, NEW p \in Projects, DeleteFind(q, p)
      PROVE  pc'[s] = "done" /\ originals'[s] = originals[s]
  BY <1>11, <1>0 DEF DeleteFind, Goto, End, Settled
<1>12. ASSUME NEW q \in Requests, DeleteFlush(q)
      PROVE  pc'[s] = "done" /\ originals'[s] = originals[s]
  BY <1>12, <1>0 DEF DeleteFlush, Goto, End, Settled
<1>13. ASSUME NEW q \in Requests, DeleteCommit(q)
      PROVE  pc'[s] = "done" /\ originals'[s] = originals[s]
  BY <1>13, <1>0 DEF DeleteCommit, End, Settled
<1>14. ASSUME NEW q \in Requests, Answer(q)
      PROVE  pc'[s] = "done" /\ originals'[s] = originals[s]
  BY <1>14, <1>0 DEF Answer, Goto, Settled
<1>15. ASSUME NEW q \in Requests, Commit(q)
      PROVE  pc'[s] = "done" /\ originals'[s] = originals[s]
  BY <1>15, <1>0 DEF Commit, End, Settled
<1>16. ASSUME NEW q \in Requests, RequestFails(q)
      PROVE  pc'[s] = "done" /\ originals'[s] = originals[s]
  BY <1>16, <1>0 DEF RequestFails, End, Settled
<1>17. ASSUME NEW q \in Requests, CommitFails(q)
      PROVE  pc'[s] = "done" /\ originals'[s] = originals[s]
  BY <1>17, <1>0 DEF CommitFails, End, Settled
<1>18. ASSUME NEW p \in Projects, NEW c \in SUBSET Columns, ChangeConfig(p, c)
      PROVE  pc'[s] = "done" /\ originals'[s] = originals[s]
  BY <1>18, <1>0 DEF ChangeConfig, Settled
<1>19. ASSUME NEW w \in Workers, Load(w)
      PROVE  pc'[s] = "done" /\ originals'[s] = originals[s]
  BY <1>19, <1>0 DEF Load, Settled
<1>20. ASSUME NEW w \in Workers, Begin(w)
      PROVE  pc'[s] = "done" /\ originals'[s] = originals[s]
  BY <1>20, <1>0 DEF Begin, Settled
<1>21. ASSUME NEW w \in Workers, ProcessSucceeds(w)
      PROVE  pc'[s] = "done" /\ originals'[s] = originals[s]
  BY <1>21, <1>0 DEF ProcessSucceeds, Settled
<1>22. ASSUME NEW w \in Workers, ProcessFails(w)
      PROVE  pc'[s] = "done" /\ originals'[s] = originals[s]
  BY <1>22, <1>0 DEF ProcessFails, Settled
<1>23. ASSUME NEW w \in Workers, TaskCommit(w)
      PROVE  pc'[s] = "done" /\ originals'[s] = originals[s]
  BY <1>23, <1>0 DEF TaskCommit, Settled
<1>24. ASSUME NEW w \in Workers, TaskFails(w)
      PROVE  pc'[s] = "done" /\ originals'[s] = originals[s]
  BY <1>24, <1>0 DEF TaskFails, Settled
<1>25. ASSUME NEW w \in Workers, WorkerCrash(w)
      PROVE  pc'[s] = "done" /\ originals'[s] = originals[s]
  BY <1>25, <1>0 DEF WorkerCrash, Settled
<1>26. ASSUME NEW w \in Workers, NEW m \in queue, Receive(w, m)
      PROVE  pc'[s] = "done" /\ originals'[s] = originals[s]
  BY <1>26, <1>0 DEF Receive, Settled
<1>27. CASE UNCHANGED vars
  BY <1>27, <1>0 DEF Settled
<1>28. QED
  BY <1>1, <1>2, <1>3, <1>4, <1>5, <1>6, <1>7, <1>8, <1>9, <1>10, <1>11, <1>12, <1>13, <1>14, <1>15, <1>16, <1>17, <1>18, <1>19, <1>20, <1>21, <1>22, <1>23, <1>24, <1>25, <1>26, <1>27
  DEF Next, RequestStep, UploadStep, ReprocessStep, DownloadStep, DeleteStep,
      TaskStep

\* A report row appears only with its original stored.
LEMMA ReportsSettledStep ==
  ASSUME TypeOK, ArgsOK, WorkOK, OriginalsSettled, [Next]_vars
  PROVE  ReportsSettled'
<1> USE DEF vars, dbVars, queueVars, reqVars
<1>0. /\ pc \in [Requests -> Places]
      /\ reports \in [Requests -> Projects \cup {None}]
      /\ executions \in [Requests -> Execution \cup {None}]
      /\ originals \in [Requests -> {None} \cup SUBSET Columns]
      /\ args \in [Requests -> Args]
      /\ work \in [Workers -> Work]
      /\ \A S \in SUBSET Columns : S # None
      /\ ReportsSettled /\ ExecutionsSettled /\ CopiesSettled /\ RequestsSettled
  BY ConstantsAssumption DEF TypeOK, OriginalsSettled
<1>s. \A s \in Requests :
        pc[s] = "done" /\ originals[s] # None =>
          pc'[s] = "done" /\ originals'[s] # None
  BY SettledStep DEF Settled
<1>1. ASSUME NEW q \in Requests, UploadTooLarge(q)
      PROVE  ReportsSettled'
  BY <1>1, <1>0, <1>s DEF UploadTooLarge, End, ReportsSettled, Settled, RequestsSettled, HasInserted
<1>2. ASSUME NEW q \in Requests, NEW p \in Projects, NEW f \in SUBSET Columns, UploadFindProject(q, p, f)
      PROVE  ReportsSettled'
  BY <1>2, <1>0, <1>s DEF UploadFindProject, Goto, End, ReportsSettled, Settled, RequestsSettled, HasInserted
<1>3. ASSUME NEW q \in Requests, UploadCheckColumns(q)
      PROVE  ReportsSettled'
  BY <1>3, <1>0, <1>s DEF UploadCheckColumns, Goto, End, ReportsSettled, Settled, RequestsSettled, HasInserted
<1>4. ASSUME NEW q \in Requests, UploadSave(q)
      PROVE  ReportsSettled'
  BY <1>4, <1>0, <1>s DEF UploadSave, Goto, ReportsSettled, Settled, RequestsSettled, HasInserted
<1>5. ASSUME NEW q \in Requests, UploadInsert(q)
      PROVE  ReportsSettled'
  BY <1>5, <1>0, <1>s DEF UploadInsert, Goto, ReportsSettled, Settled, RequestsSettled, HasInserted
<1>6. ASSUME NEW q \in Requests, SaveFails(q)
      PROVE  ReportsSettled'
  BY <1>6, <1>0, <1>s DEF SaveFails, End, ReportsSettled, Settled, RequestsSettled, HasInserted
<1>7. ASSUME NEW q \in Requests, NEW r \in Requests, ReprocessRead(q, r)
      PROVE  ReportsSettled'
  BY <1>7, <1>0, <1>s DEF ReprocessRead, Goto, End, ReportsSettled, Settled, RequestsSettled, HasInserted
<1>8. ASSUME NEW q \in Requests, ReprocessInsert(q)
      PROVE  ReportsSettled'
  BY <1>8, <1>0, <1>s DEF ReprocessInsert, Goto, ReportsSettled, Settled, RequestsSettled, HasInserted
<1>9. ASSUME NEW q \in Requests, NEW x \in Requests, DownloadCheck(q, x)
      PROVE  ReportsSettled'
  BY <1>9, <1>0, <1>s DEF DownloadCheck, Goto, End, ReportsSettled, Settled, RequestsSettled, HasInserted
<1>10. ASSUME NEW q \in Requests, DownloadSign(q)
      PROVE  ReportsSettled'
  BY <1>10, <1>0, <1>s DEF DownloadSign, Goto, ReportsSettled, Settled, RequestsSettled, HasInserted
<1>11. ASSUME NEW q \in Requests, NEW p \in Projects, DeleteFind(q, p)
      PROVE  ReportsSettled'
  BY <1>11, <1>0, <1>s DEF DeleteFind, Goto, End, ReportsSettled, Settled, RequestsSettled, HasInserted
<1>12. ASSUME NEW q \in Requests, DeleteFlush(q)
      PROVE  ReportsSettled'
  BY <1>12, <1>0, <1>s DEF DeleteFlush, Goto, End, ReportsSettled, Settled, RequestsSettled, HasInserted
<1>13. ASSUME NEW q \in Requests, DeleteCommit(q)
      PROVE  ReportsSettled'
  BY <1>13, <1>0, <1>s DEF DeleteCommit, End, ReportsSettled, Settled, RequestsSettled, HasInserted
<1>14. ASSUME NEW q \in Requests, Answer(q)
      PROVE  ReportsSettled'
  BY <1>14, <1>0, <1>s DEF Answer, Goto, ReportsSettled, Settled, RequestsSettled, HasInserted
<1>15. ASSUME NEW q \in Requests, Commit(q)
      PROVE  ReportsSettled'
  BY <1>15, <1>0, <1>s DEF Commit, End, QueuedExecution, ReportsSettled, Settled, RequestsSettled, HasInserted
<1>16. ASSUME NEW q \in Requests, RequestFails(q)
      PROVE  ReportsSettled'
  BY <1>16, <1>0, <1>s DEF RequestFails, End, ReportsSettled, Settled, RequestsSettled, HasInserted
<1>17. ASSUME NEW q \in Requests, CommitFails(q)
      PROVE  ReportsSettled'
  BY <1>17, <1>0, <1>s DEF CommitFails, End, ReportsSettled, Settled, RequestsSettled, HasInserted
<1>18. ASSUME NEW p \in Projects, NEW c \in SUBSET Columns, ChangeConfig(p, c)
      PROVE  ReportsSettled'
  BY <1>18, <1>0, <1>s DEF ChangeConfig, ReportsSettled, Settled, RequestsSettled, HasInserted
<1>19. ASSUME NEW w \in Workers, Load(w)
      PROVE  ReportsSettled'
  BY <1>19, <1>0, <1>s DEF Load, Become, ReportsSettled, Settled, RequestsSettled, HasInserted
<1>20. ASSUME NEW w \in Workers, Begin(w)
      PROVE  ReportsSettled'
  BY <1>20, <1>0, <1>s DEF Begin, Become, ReportsSettled, Settled, RequestsSettled, HasInserted
<1>21. ASSUME NEW w \in Workers, ProcessSucceeds(w)
      PROVE  ReportsSettled'
  BY <1>21, <1>0, <1>s DEF ProcessSucceeds, Become, ReportsSettled, Settled, RequestsSettled, HasInserted
<1>22. ASSUME NEW w \in Workers, ProcessFails(w)
      PROVE  ReportsSettled'
  BY <1>22, <1>0, <1>s DEF ProcessFails, Become, ReportsSettled, Settled, RequestsSettled, HasInserted
<1>23. ASSUME NEW w \in Workers, TaskCommit(w)
      PROVE  ReportsSettled'
  BY <1>23, <1>0, <1>s DEF TaskCommit, Become, ReportsSettled, Settled, RequestsSettled, HasInserted
<1>24. ASSUME NEW w \in Workers, TaskFails(w)
      PROVE  ReportsSettled'
  BY <1>24, <1>0, <1>s DEF TaskFails, ReportsSettled, Settled, RequestsSettled, HasInserted
<1>25. ASSUME NEW w \in Workers, WorkerCrash(w)
      PROVE  ReportsSettled'
  BY <1>25, <1>0, <1>s DEF WorkerCrash, ReportsSettled, Settled, RequestsSettled, HasInserted
<1>26. ASSUME NEW w \in Workers, NEW m \in queue, Receive(w, m)
      PROVE  ReportsSettled'
  BY <1>26, <1>0, <1>s DEF Receive, Become, ReportsSettled, Settled, RequestsSettled, HasInserted
<1>27. CASE UNCHANGED vars
  BY <1>27, <1>0, <1>s DEF ReportsSettled, Settled, RequestsSettled, HasInserted
<1>28. QED
  BY <1>1, <1>2, <1>3, <1>4, <1>5, <1>6, <1>7, <1>8, <1>9, <1>10, <1>11, <1>12, <1>13, <1>14, <1>15, <1>16, <1>17, <1>18, <1>19, <1>20, <1>21, <1>22, <1>23, <1>24, <1>25, <1>26, <1>27
  DEF Next, RequestStep, UploadStep, ReprocessStep, DownloadStep, DeleteStep,
      TaskStep

\* An execution row names only a report whose original is stored.
LEMMA ExecutionsSettledStep ==
  ASSUME TypeOK, ArgsOK, WorkOK, OriginalsSettled, [Next]_vars
  PROVE  ExecutionsSettled'
<1> USE DEF vars, dbVars, queueVars, reqVars
<1>0. /\ pc \in [Requests -> Places]
      /\ reports \in [Requests -> Projects \cup {None}]
      /\ executions \in [Requests -> Execution \cup {None}]
      /\ originals \in [Requests -> {None} \cup SUBSET Columns]
      /\ args \in [Requests -> Args]
      /\ work \in [Workers -> Work]
      /\ \A S \in SUBSET Columns : S # None
      /\ ReportsSettled /\ ExecutionsSettled /\ CopiesSettled /\ RequestsSettled
  BY ConstantsAssumption DEF TypeOK, OriginalsSettled
<1>s. \A s \in Requests :
        pc[s] = "done" /\ originals[s] # None =>
          pc'[s] = "done" /\ originals'[s] # None
  BY SettledStep DEF Settled
<1>e. \A x \in Requests : Exists(x) => executions[x].report \in Requests
  BY <1>0 DEF Exists, Execution
<1>w. \A w \in Workers : work[w].row # None =>
        work[w].row.report \in Requests /\ work[w].execution \in Requests
  BY <1>0, RowFrame DEF Execution, WorkOK
<1>a. \A q \in Requests : HasInserted(q) => args[q].report \in Requests
  BY DEF ArgsOK, HasInserted, Working
<1>1. ASSUME NEW q \in Requests, UploadTooLarge(q)
      PROVE  ExecutionsSettled'
  BY <1>1, <1>0, <1>s, <1>e DEF UploadTooLarge, End, ExecutionsSettled, Settled, Exists, HasInserted
<1>2. ASSUME NEW q \in Requests, NEW p \in Projects, NEW f \in SUBSET Columns, UploadFindProject(q, p, f)
      PROVE  ExecutionsSettled'
  BY <1>2, <1>0, <1>s, <1>e DEF UploadFindProject, Goto, End, ExecutionsSettled, Settled, Exists, HasInserted
<1>3. ASSUME NEW q \in Requests, UploadCheckColumns(q)
      PROVE  ExecutionsSettled'
  BY <1>3, <1>0, <1>s, <1>e DEF UploadCheckColumns, Goto, End, ExecutionsSettled, Settled, Exists, HasInserted
<1>4. ASSUME NEW q \in Requests, UploadSave(q)
      PROVE  ExecutionsSettled'
  BY <1>4, <1>0, <1>s, <1>e DEF UploadSave, Goto, ExecutionsSettled, Settled, Exists, HasInserted
<1>5. ASSUME NEW q \in Requests, UploadInsert(q)
      PROVE  ExecutionsSettled'
  BY <1>5, <1>0, <1>s, <1>e DEF UploadInsert, Goto, ExecutionsSettled, Settled, Exists, HasInserted
<1>6. ASSUME NEW q \in Requests, SaveFails(q)
      PROVE  ExecutionsSettled'
  BY <1>6, <1>0, <1>s, <1>e DEF SaveFails, End, ExecutionsSettled, Settled, Exists, HasInserted
<1>7. ASSUME NEW q \in Requests, NEW r \in Requests, ReprocessRead(q, r)
      PROVE  ExecutionsSettled'
  BY <1>7, <1>0, <1>s, <1>e DEF ReprocessRead, Goto, End, ExecutionsSettled, Settled, Exists, HasInserted
<1>8. ASSUME NEW q \in Requests, ReprocessInsert(q)
      PROVE  ExecutionsSettled'
  BY <1>8, <1>0, <1>s, <1>e DEF ReprocessInsert, Goto, ExecutionsSettled, Settled, Exists, HasInserted
<1>9. ASSUME NEW q \in Requests, NEW x \in Requests, DownloadCheck(q, x)
      PROVE  ExecutionsSettled'
  BY <1>9, <1>0, <1>s, <1>e DEF DownloadCheck, Goto, End, ExecutionsSettled, Settled, Exists, HasInserted
<1>10. ASSUME NEW q \in Requests, DownloadSign(q)
      PROVE  ExecutionsSettled'
  BY <1>10, <1>0, <1>s, <1>e DEF DownloadSign, Goto, ExecutionsSettled, Settled, Exists, HasInserted
<1>11. ASSUME NEW q \in Requests, NEW p \in Projects, DeleteFind(q, p)
      PROVE  ExecutionsSettled'
  BY <1>11, <1>0, <1>s, <1>e DEF DeleteFind, Goto, End, ExecutionsSettled, Settled, Exists, HasInserted
<1>12. ASSUME NEW q \in Requests, DeleteFlush(q)
      PROVE  ExecutionsSettled'
  BY <1>12, <1>0, <1>s, <1>e DEF DeleteFlush, Goto, End, ExecutionsSettled, Settled, Exists, HasInserted
<1>13. ASSUME NEW q \in Requests, DeleteCommit(q)
      PROVE  ExecutionsSettled'
  BY <1>13, <1>0, <1>s, <1>e DEF DeleteCommit, End, ExecutionsSettled, Settled, Exists, HasInserted
<1>14. ASSUME NEW q \in Requests, Answer(q)
      PROVE  ExecutionsSettled'
  BY <1>14, <1>0, <1>s, <1>e DEF Answer, Goto, ExecutionsSettled, Settled, Exists, HasInserted
<1>15. ASSUME NEW q \in Requests, Commit(q)
      PROVE  ExecutionsSettled'
  <2>1. args[q].report \in Requests /\ executions'[q].report = args[q].report
    BY <1>15, <1>0, <1>a DEF Commit, QueuedExecution, HasInserted
  <2>2. pc'[q] = "done" /\ pc'[args[q].report] = "done"
        /\ originals'[args[q].report] # None
    BY <1>15, <1>0, <1>s, <2>1 DEF Commit, End, RequestsSettled, Settled, HasInserted
  <2>3. \A x \in Requests \ {q} :
          executions'[x] = executions[x] /\ pc'[x] = pc[x]
    BY <1>15, <1>0 DEF Commit, End
  <2>4. QED  BY <1>0, <1>s, <1>e, <2>1, <2>2, <2>3
             DEF ExecutionsSettled, Settled, Exists
<1>16. ASSUME NEW q \in Requests, RequestFails(q)
      PROVE  ExecutionsSettled'
  BY <1>16, <1>0, <1>s, <1>e DEF RequestFails, End, ExecutionsSettled, Settled, Exists, HasInserted
<1>17. ASSUME NEW q \in Requests, CommitFails(q)
      PROVE  ExecutionsSettled'
  BY <1>17, <1>0, <1>s, <1>e DEF CommitFails, End, ExecutionsSettled, Settled, Exists, HasInserted
<1>18. ASSUME NEW p \in Projects, NEW c \in SUBSET Columns, ChangeConfig(p, c)
      PROVE  ExecutionsSettled'
  BY <1>18, <1>0, <1>s, <1>e DEF ChangeConfig, ExecutionsSettled, Settled, Exists, HasInserted
<1>19. ASSUME NEW w \in Workers, Load(w)
      PROVE  ExecutionsSettled'
  BY <1>19, <1>0, <1>s, <1>e DEF Load, Become, ExecutionsSettled, Settled, Exists, HasInserted
<1>20. ASSUME NEW w \in Workers, Begin(w)
      PROVE  ExecutionsSettled'
  BY <1>20, <1>0, <1>s, <1>e DEF Begin, Become, ExecutionsSettled, Settled, Exists, HasInserted
<1>21. ASSUME NEW w \in Workers, ProcessSucceeds(w)
      PROVE  ExecutionsSettled'
  BY <1>21, <1>0, <1>s, <1>e DEF ProcessSucceeds, Become, ExecutionsSettled, Settled, Exists, HasInserted
<1>22. ASSUME NEW w \in Workers, ProcessFails(w)
      PROVE  ExecutionsSettled'
  BY <1>22, <1>0, <1>s, <1>e DEF ProcessFails, Become, ExecutionsSettled, Settled, Exists, HasInserted
<1>23. ASSUME NEW w \in Workers, TaskCommit(w)
      PROVE  ExecutionsSettled'
  <2> DEFINE x == work[w].execution
  <2>1. work[w].row # None /\ x \in Requests
    BY <1>23, <1>w DEF TaskCommit, Become, WorkOK
  <2>2. pc[x] = "done" /\ Settled(work[w].row.report)
    BY <1>0, <2>1 DEF CopiesSettled
  <2>3. QED  BY <1>23, <1>0, <1>s, <1>e, <1>w, <2>1, <2>2
             DEF TaskCommit, ExecutionsSettled, Settled, Exists
<1>24. ASSUME NEW w \in Workers, TaskFails(w)
      PROVE  ExecutionsSettled'
  BY <1>24, <1>0, <1>s, <1>e DEF TaskFails, ExecutionsSettled, Settled, Exists, HasInserted
<1>25. ASSUME NEW w \in Workers, WorkerCrash(w)
      PROVE  ExecutionsSettled'
  BY <1>25, <1>0, <1>s, <1>e DEF WorkerCrash, ExecutionsSettled, Settled, Exists, HasInserted
<1>26. ASSUME NEW w \in Workers, NEW m \in queue, Receive(w, m)
      PROVE  ExecutionsSettled'
  BY <1>26, <1>0, <1>s, <1>e DEF Receive, Become, ExecutionsSettled, Settled, Exists, HasInserted
<1>27. CASE UNCHANGED vars
  BY <1>27, <1>0, <1>s, <1>e DEF ExecutionsSettled, Settled, Exists, HasInserted
<1>28. QED
  BY <1>1, <1>2, <1>3, <1>4, <1>5, <1>6, <1>7, <1>8, <1>9, <1>10, <1>11, <1>12, <1>13, <1>14, <1>15, <1>16, <1>17, <1>18, <1>19, <1>20, <1>21, <1>22, <1>23, <1>24, <1>25, <1>26, <1>27
  DEF Next, RequestStep, UploadStep, ReprocessStep, DownloadStep, DeleteStep,
      TaskStep

\* A worker loads a row only after its commit.
LEMMA CopiesSettledStep ==
  ASSUME TypeOK, ArgsOK, WorkOK, OriginalsSettled, [Next]_vars
  PROVE  CopiesSettled'
<1> USE DEF vars, dbVars, queueVars, reqVars
<1>0. /\ pc \in [Requests -> Places]
      /\ reports \in [Requests -> Projects \cup {None}]
      /\ executions \in [Requests -> Execution \cup {None}]
      /\ originals \in [Requests -> {None} \cup SUBSET Columns]
      /\ args \in [Requests -> Args]
      /\ work \in [Workers -> Work]
      /\ \A S \in SUBSET Columns : S # None
      /\ ReportsSettled /\ ExecutionsSettled /\ CopiesSettled /\ RequestsSettled
  BY ConstantsAssumption DEF TypeOK, OriginalsSettled
<1>s. \A s \in Requests :
        pc[s] = "done" /\ originals[s] # None =>
          pc'[s] = "done" /\ originals'[s] # None
  BY SettledStep DEF Settled
<1>e. \A x \in Requests :
        Exists(x) => executions[x].report \in Requests
  BY <1>0 DEF Exists, Execution
<1>w. \A w \in Workers : work[w].row # None =>
        work[w].row.report \in Requests /\ work[w].execution \in Requests
  BY <1>0, RowFrame DEF Execution, WorkOK
<1>r. None \notin Execution
  BY NoneAssumption
<1>1. ASSUME NEW q \in Requests, UploadTooLarge(q)
      PROVE  CopiesSettled'
  BY <1>1, <1>0, <1>s, <1>e, <1>w DEF UploadTooLarge, End, CopiesSettled, Settled, Idle, ExecutionsSettled, Exists, WorkOK
<1>2. ASSUME NEW q \in Requests, NEW p \in Projects, NEW f \in SUBSET Columns, UploadFindProject(q, p, f)
      PROVE  CopiesSettled'
  BY <1>2, <1>0, <1>s, <1>e, <1>w DEF UploadFindProject, Goto, End, CopiesSettled, Settled, Idle, ExecutionsSettled, Exists, WorkOK
<1>3. ASSUME NEW q \in Requests, UploadCheckColumns(q)
      PROVE  CopiesSettled'
  BY <1>3, <1>0, <1>s, <1>e, <1>w DEF UploadCheckColumns, Goto, End, CopiesSettled, Settled, Idle, ExecutionsSettled, Exists, WorkOK
<1>4. ASSUME NEW q \in Requests, UploadSave(q)
      PROVE  CopiesSettled'
  BY <1>4, <1>0, <1>s, <1>e, <1>w DEF UploadSave, Goto, CopiesSettled, Settled, Idle, ExecutionsSettled, Exists, WorkOK
<1>5. ASSUME NEW q \in Requests, UploadInsert(q)
      PROVE  CopiesSettled'
  BY <1>5, <1>0, <1>s, <1>e, <1>w DEF UploadInsert, Goto, CopiesSettled, Settled, Idle, ExecutionsSettled, Exists, WorkOK
<1>6. ASSUME NEW q \in Requests, SaveFails(q)
      PROVE  CopiesSettled'
  BY <1>6, <1>0, <1>s, <1>e, <1>w DEF SaveFails, End, CopiesSettled, Settled, Idle, ExecutionsSettled, Exists, WorkOK
<1>7. ASSUME NEW q \in Requests, NEW r \in Requests, ReprocessRead(q, r)
      PROVE  CopiesSettled'
  BY <1>7, <1>0, <1>s, <1>e, <1>w DEF ReprocessRead, Goto, End, CopiesSettled, Settled, Idle, ExecutionsSettled, Exists, WorkOK
<1>8. ASSUME NEW q \in Requests, ReprocessInsert(q)
      PROVE  CopiesSettled'
  BY <1>8, <1>0, <1>s, <1>e, <1>w DEF ReprocessInsert, Goto, CopiesSettled, Settled, Idle, ExecutionsSettled, Exists, WorkOK
<1>9. ASSUME NEW q \in Requests, NEW x \in Requests, DownloadCheck(q, x)
      PROVE  CopiesSettled'
  BY <1>9, <1>0, <1>s, <1>e, <1>w DEF DownloadCheck, Goto, End, CopiesSettled, Settled, Idle, ExecutionsSettled, Exists, WorkOK
<1>10. ASSUME NEW q \in Requests, DownloadSign(q)
      PROVE  CopiesSettled'
  BY <1>10, <1>0, <1>s, <1>e, <1>w DEF DownloadSign, Goto, CopiesSettled, Settled, Idle, ExecutionsSettled, Exists, WorkOK
<1>11. ASSUME NEW q \in Requests, NEW p \in Projects, DeleteFind(q, p)
      PROVE  CopiesSettled'
  BY <1>11, <1>0, <1>s, <1>e, <1>w DEF DeleteFind, Goto, End, CopiesSettled, Settled, Idle, ExecutionsSettled, Exists, WorkOK
<1>12. ASSUME NEW q \in Requests, DeleteFlush(q)
      PROVE  CopiesSettled'
  BY <1>12, <1>0, <1>s, <1>e, <1>w DEF DeleteFlush, Goto, End, CopiesSettled, Settled, Idle, ExecutionsSettled, Exists, WorkOK
<1>13. ASSUME NEW q \in Requests, DeleteCommit(q)
      PROVE  CopiesSettled'
  BY <1>13, <1>0, <1>s, <1>e, <1>w DEF DeleteCommit, End, CopiesSettled, Settled, Idle, ExecutionsSettled, Exists, WorkOK
<1>14. ASSUME NEW q \in Requests, Answer(q)
      PROVE  CopiesSettled'
  BY <1>14, <1>0, <1>s, <1>e, <1>w DEF Answer, Goto, CopiesSettled, Settled, Idle, ExecutionsSettled, Exists, WorkOK
<1>15. ASSUME NEW q \in Requests, Commit(q)
      PROVE  CopiesSettled'
  BY <1>15, <1>0, <1>s, <1>e, <1>w DEF Commit, End, QueuedExecution, CopiesSettled, Settled, Idle, ExecutionsSettled, Exists, WorkOK
<1>16. ASSUME NEW q \in Requests, RequestFails(q)
      PROVE  CopiesSettled'
  BY <1>16, <1>0, <1>s, <1>e, <1>w DEF RequestFails, End, CopiesSettled, Settled, Idle, ExecutionsSettled, Exists, WorkOK
<1>17. ASSUME NEW q \in Requests, CommitFails(q)
      PROVE  CopiesSettled'
  BY <1>17, <1>0, <1>s, <1>e, <1>w DEF CommitFails, End, CopiesSettled, Settled, Idle, ExecutionsSettled, Exists, WorkOK
<1>18. ASSUME NEW p \in Projects, NEW c \in SUBSET Columns, ChangeConfig(p, c)
      PROVE  CopiesSettled'
  BY <1>18, <1>0, <1>s, <1>e, <1>w DEF ChangeConfig, CopiesSettled, Settled, Idle, ExecutionsSettled, Exists, WorkOK
<1>19. ASSUME NEW w \in Workers, Load(w)
      PROVE  CopiesSettled'
  BY <1>19, <1>0, <1>s, <1>e, <1>w, BecomeFrame DEF Load, Become, CopiesSettled, Settled, Idle, ExecutionsSettled, Exists, WorkOK
<1>20. ASSUME NEW w \in Workers, Begin(w)
      PROVE  CopiesSettled'
  <2>1. /\ work[w].row # None
        /\ work'[w].execution = work[w].execution
        /\ work'[w].row.report = work[w].row.report
        /\ \A v \in Workers \ {w} : work'[v] = work[v]
    BY <1>20, <1>r, RowFrame DEF SameRun
  <2>2. UNCHANGED <<pc, originals>>
    BY <1>20 DEF Begin
  <2>3. QED  BY <1>0, <2>1, <2>2 DEF CopiesSettled, Settled
<1>21. ASSUME NEW w \in Workers, ProcessSucceeds(w)
      PROVE  CopiesSettled'
  <2>1. /\ work[w].row # None
        /\ work'[w].execution = work[w].execution
        /\ work'[w].row.report = work[w].row.report
        /\ \A v \in Workers \ {w} : work'[v] = work[v]
    BY <1>21, <1>r, RowFrame DEF SameRun
  <2>2. UNCHANGED <<pc, originals>>
    BY <1>21 DEF ProcessSucceeds
  <2>3. QED  BY <1>0, <2>1, <2>2 DEF CopiesSettled, Settled
<1>22. ASSUME NEW w \in Workers, ProcessFails(w)
      PROVE  CopiesSettled'
  <2>1. /\ work[w].row # None
        /\ work'[w].execution = work[w].execution
        /\ work'[w].row.report = work[w].row.report
        /\ \A v \in Workers \ {w} : work'[v] = work[v]
    BY <1>22, <1>r, RowFrame DEF SameRun
  <2>2. UNCHANGED <<pc, originals>>
    BY <1>22 DEF ProcessFails
  <2>3. QED  BY <1>0, <2>1, <2>2 DEF CopiesSettled, Settled
<1>23. ASSUME NEW w \in Workers, TaskCommit(w)
      PROVE  CopiesSettled'
  BY <1>23, <1>0, <1>s, <1>e, <1>w DEF TaskCommit, Become, CopiesSettled, Settled, Idle, ExecutionsSettled, Exists, WorkOK
<1>24. ASSUME NEW w \in Workers, TaskFails(w)
      PROVE  CopiesSettled'
  BY <1>24, <1>0, <1>s, <1>e, <1>w DEF TaskFails, CopiesSettled, Settled, Idle, ExecutionsSettled, Exists, WorkOK
<1>25. ASSUME NEW w \in Workers, WorkerCrash(w)
      PROVE  CopiesSettled'
  BY <1>25, <1>0, <1>s, <1>e, <1>w DEF WorkerCrash, CopiesSettled, Settled, Idle, ExecutionsSettled, Exists, WorkOK
<1>26. ASSUME NEW w \in Workers, NEW m \in queue, Receive(w, m)
      PROVE  CopiesSettled'
  BY <1>26, <1>0, <1>s, <1>e, <1>w, BecomeFrame DEF Receive, Become, CopiesSettled, Settled, Idle, ExecutionsSettled, Exists, WorkOK
<1>27. CASE UNCHANGED vars
  BY <1>27, <1>0, <1>s, <1>e, <1>w DEF CopiesSettled, Settled, Idle, ExecutionsSettled, Exists, WorkOK
<1>28. QED
  BY <1>1, <1>2, <1>3, <1>4, <1>5, <1>6, <1>7, <1>8, <1>9, <1>10, <1>11, <1>12, <1>13, <1>14, <1>15, <1>16, <1>17, <1>18, <1>19, <1>20, <1>21, <1>22, <1>23, <1>24, <1>25, <1>26, <1>27
  DEF Next, RequestStep, UploadStep, ReprocessStep, DownloadStep, DeleteStep,
      TaskStep

\* A request names its own report, or one that is settled.
LEMMA RequestsSettledStep ==
  ASSUME TypeOK, ArgsOK, WorkOK, OriginalsSettled, [Next]_vars
  PROVE  RequestsSettled'
<1> USE DEF vars, dbVars, queueVars, reqVars
<1>0. /\ pc \in [Requests -> Places]
      /\ reports \in [Requests -> Projects \cup {None}]
      /\ executions \in [Requests -> Execution \cup {None}]
      /\ originals \in [Requests -> {None} \cup SUBSET Columns]
      /\ args \in [Requests -> Args]
      /\ work \in [Workers -> Work]
      /\ \A S \in SUBSET Columns : S # None
      /\ ReportsSettled /\ ExecutionsSettled /\ CopiesSettled /\ RequestsSettled
  BY ConstantsAssumption DEF TypeOK, OriginalsSettled
<1>s. \A s \in Requests :
        pc[s] = "done" /\ originals[s] # None =>
          pc'[s] = "done" /\ originals'[s] # None
  BY SettledStep DEF Settled
<1>a. \A q \in Requests : pc[q] \in Working => args[q].report \in Requests
  BY DEF ArgsOK
<1>1. ASSUME NEW q \in Requests, UploadTooLarge(q)
      PROVE  RequestsSettled'
  BY <1>1, <1>0, <1>s, <1>a DEF UploadTooLarge, End, RequestsSettled, Settled, ReportsSettled, HasInserted, Uploading, Working
<1>2. ASSUME NEW q \in Requests, NEW p \in Projects, NEW f \in SUBSET Columns, UploadFindProject(q, p, f)
      PROVE  RequestsSettled'
  BY <1>2, <1>0, <1>s, <1>a DEF UploadFindProject, Goto, End, RequestsSettled, Settled, ReportsSettled, HasInserted, Uploading, Working
<1>3. ASSUME NEW q \in Requests, UploadCheckColumns(q)
      PROVE  RequestsSettled'
  <2>1. pc[q] = "found" /\ pc'[q] \in {"checked", "done"}
    BY <1>3, <1>0 DEF UploadCheckColumns, Goto, End
  <2>2. pc'[q] = "checked" => args'[q].report = args[q].report
    BY <1>3, <1>0 DEF UploadCheckColumns, End, Args
  <2>3. \A o \in Requests \ {q} : pc'[o] = pc[o] /\ args'[o] = args[o]
    BY <1>3, <1>0 DEF UploadCheckColumns, Goto, End
  <2>4. QED  BY <1>3, <1>0, <1>s, <1>a, <2>1, <2>2, <2>3
             DEF UploadCheckColumns, RequestsSettled, Settled, HasInserted,
                 Uploading, Working
<1>4. ASSUME NEW q \in Requests, UploadSave(q)
      PROVE  RequestsSettled'
  <2>1. args[q].file # None
    BY <1>0 DEF Args
  <2>2. QED  BY <1>4, <1>0, <1>s, <1>a, <2>1
             DEF UploadSave, Goto, RequestsSettled, Settled, HasInserted,
                 Uploading, Working
<1>5. ASSUME NEW q \in Requests, UploadInsert(q)
      PROVE  RequestsSettled'
  BY <1>5, <1>0, <1>s, <1>a DEF UploadInsert, Goto, RequestsSettled, Settled, ReportsSettled, HasInserted, Uploading, Working
<1>6. ASSUME NEW q \in Requests, SaveFails(q)
      PROVE  RequestsSettled'
  BY <1>6, <1>0, <1>s, <1>a DEF SaveFails, End, RequestsSettled, Settled, ReportsSettled, HasInserted, Uploading, Working
<1>7. ASSUME NEW q \in Requests, NEW r \in Requests, ReprocessRead(q, r)
      PROVE  RequestsSettled'
  BY <1>7, <1>0, <1>s, <1>a DEF ReprocessRead, Goto, End, RequestsSettled, Settled, ReportsSettled, HasInserted, Uploading, Working
<1>8. ASSUME NEW q \in Requests, ReprocessInsert(q)
      PROVE  RequestsSettled'
  BY <1>8, <1>0, <1>s, <1>a DEF ReprocessInsert, Goto, RequestsSettled, Settled, ReportsSettled, HasInserted, Uploading, Working
<1>9. ASSUME NEW q \in Requests, NEW x \in Requests, DownloadCheck(q, x)
      PROVE  RequestsSettled'
  BY <1>9, <1>0, <1>s, <1>a DEF DownloadCheck, Goto, End, RequestsSettled, Settled, ReportsSettled, HasInserted, Uploading, Working
<1>10. ASSUME NEW q \in Requests, DownloadSign(q)
      PROVE  RequestsSettled'
  BY <1>10, <1>0, <1>s, <1>a DEF DownloadSign, Goto, RequestsSettled, Settled, ReportsSettled, HasInserted, Uploading, Working
<1>11. ASSUME NEW q \in Requests, NEW p \in Projects, DeleteFind(q, p)
      PROVE  RequestsSettled'
  BY <1>11, <1>0, <1>s, <1>a DEF DeleteFind, Goto, End, RequestsSettled, Settled, ReportsSettled, HasInserted, Uploading, Working
<1>12. ASSUME NEW q \in Requests, DeleteFlush(q)
      PROVE  RequestsSettled'
  BY <1>12, <1>0, <1>s, <1>a DEF DeleteFlush, Goto, End, RequestsSettled, Settled, ReportsSettled, HasInserted, Uploading, Working
<1>13. ASSUME NEW q \in Requests, DeleteCommit(q)
      PROVE  RequestsSettled'
  BY <1>13, <1>0, <1>s, <1>a DEF DeleteCommit, End, RequestsSettled, Settled, ReportsSettled, HasInserted, Uploading, Working
<1>14. ASSUME NEW q \in Requests, Answer(q)
      PROVE  RequestsSettled'
  BY <1>14, <1>0, <1>s, <1>a DEF Answer, Goto, RequestsSettled, Settled, ReportsSettled, HasInserted, Uploading, Working
<1>15. ASSUME NEW q \in Requests, Commit(q)
      PROVE  RequestsSettled'
  BY <1>15, <1>0, <1>s, <1>a DEF Commit, End, QueuedExecution, RequestsSettled, Settled, ReportsSettled, HasInserted, Uploading, Working
<1>16. ASSUME NEW q \in Requests, RequestFails(q)
      PROVE  RequestsSettled'
  BY <1>16, <1>0, <1>s, <1>a DEF RequestFails, End, RequestsSettled, Settled, ReportsSettled, HasInserted, Uploading, Working
<1>17. ASSUME NEW q \in Requests, CommitFails(q)
      PROVE  RequestsSettled'
  BY <1>17, <1>0, <1>s, <1>a DEF CommitFails, End, RequestsSettled, Settled, ReportsSettled, HasInserted, Uploading, Working
<1>18. ASSUME NEW p \in Projects, NEW c \in SUBSET Columns, ChangeConfig(p, c)
      PROVE  RequestsSettled'
  BY <1>18, <1>0, <1>s, <1>a DEF ChangeConfig, RequestsSettled, Settled, ReportsSettled, HasInserted, Uploading, Working
<1>19. ASSUME NEW w \in Workers, Load(w)
      PROVE  RequestsSettled'
  BY <1>19, <1>0, <1>s, <1>a DEF Load, Become, RequestsSettled, Settled, ReportsSettled, HasInserted, Uploading, Working
<1>20. ASSUME NEW w \in Workers, Begin(w)
      PROVE  RequestsSettled'
  BY <1>20, <1>0, <1>s, <1>a DEF Begin, Become, RequestsSettled, Settled, ReportsSettled, HasInserted, Uploading, Working
<1>21. ASSUME NEW w \in Workers, ProcessSucceeds(w)
      PROVE  RequestsSettled'
  BY <1>21, <1>0, <1>s, <1>a DEF ProcessSucceeds, Become, RequestsSettled, Settled, ReportsSettled, HasInserted, Uploading, Working
<1>22. ASSUME NEW w \in Workers, ProcessFails(w)
      PROVE  RequestsSettled'
  BY <1>22, <1>0, <1>s, <1>a DEF ProcessFails, Become, RequestsSettled, Settled, ReportsSettled, HasInserted, Uploading, Working
<1>23. ASSUME NEW w \in Workers, TaskCommit(w)
      PROVE  RequestsSettled'
  BY <1>23, <1>0, <1>s, <1>a DEF TaskCommit, Become, RequestsSettled, Settled, ReportsSettled, HasInserted, Uploading, Working
<1>24. ASSUME NEW w \in Workers, TaskFails(w)
      PROVE  RequestsSettled'
  BY <1>24, <1>0, <1>s, <1>a DEF TaskFails, RequestsSettled, Settled, ReportsSettled, HasInserted, Uploading, Working
<1>25. ASSUME NEW w \in Workers, WorkerCrash(w)
      PROVE  RequestsSettled'
  BY <1>25, <1>0, <1>s, <1>a DEF WorkerCrash, RequestsSettled, Settled, ReportsSettled, HasInserted, Uploading, Working
<1>26. ASSUME NEW w \in Workers, NEW m \in queue, Receive(w, m)
      PROVE  RequestsSettled'
  BY <1>26, <1>0, <1>s, <1>a DEF Receive, Become, RequestsSettled, Settled, ReportsSettled, HasInserted, Uploading, Working
<1>27. CASE UNCHANGED vars
  BY <1>27, <1>0, <1>s, <1>a DEF RequestsSettled, Settled, ReportsSettled, HasInserted, Uploading, Working
<1>28. QED
  BY <1>1, <1>2, <1>3, <1>4, <1>5, <1>6, <1>7, <1>8, <1>9, <1>10, <1>11, <1>12, <1>13, <1>14, <1>15, <1>16, <1>17, <1>18, <1>19, <1>20, <1>21, <1>22, <1>23, <1>24, <1>25, <1>26, <1>27
  DEF Next, RequestStep, UploadStep, ReprocessStep, DownloadStep, DeleteStep,
      TaskStep

\* Every reference to a report's original is to a stored object.
LEMMA OriginalsStep ==
  ASSUME TypeOK, ArgsOK, WorkOK, OriginalsSettled, [Next]_vars
  PROVE  OriginalsSettled'
BY ReportsSettledStep, ExecutionsSettledStep, CopiesSettledStep,
   RequestsSettledStep DEF OriginalsSettled

\* The copies of a row keep agreeing on report and snapshot.
LEMMA CopiesAgreeStep ==
  ASSUME TypeOK, ArgsOK, WorkOK, OriginalsSettled, CopiesAgree, [Next]_vars
  PROVE  CopiesAgree'
<1> USE DEF vars, dbVars, queueVars, reqVars
<1>0. /\ pc \in [Requests -> Places]
      /\ reports \in [Requests -> Projects \cup {None}]
      /\ executions \in [Requests -> Execution \cup {None}]
      /\ originals \in [Requests -> {None} \cup SUBSET Columns]
      /\ results \in [Requests -> Result \cup {None}]
      /\ args \in [Requests -> Args]
      /\ work \in [Workers -> Work]
      /\ ReportsSettled /\ ExecutionsSettled /\ CopiesSettled /\ RequestsSettled
  BY DEF TypeOK, OriginalsSettled
<1>s. \A s \in Requests :
        pc[s] = "done" /\ originals[s] # None =>
          pc'[s] = "done" /\ originals'[s] = originals[s]
  BY SettledStep DEF Settled
<1>e. \A x \in Requests :
        Exists(x) => executions[x] \in Execution /\ executions[x].report \in Requests
  BY <1>0 DEF Exists, Execution
<1>w. \A w \in Workers : work[w].row # None =>
        work[w].row \in Execution /\ work[w].row.report \in Requests
        /\ work[w].execution \in Requests
  BY <1>0, RowFrame DEF Execution, WorkOK
<1>1. ASSUME NEW q \in Requests, UploadTooLarge(q)
      PROVE  CopiesAgree'
  BY <1>1, <1>0
     DEF UploadTooLarge, End, CopiesAgree, SameRun, Exists, Idle
<1>2. ASSUME NEW q \in Requests, NEW p \in Projects, NEW f \in SUBSET Columns, UploadFindProject(q, p, f)
      PROVE  CopiesAgree'
  BY <1>2, <1>0
     DEF UploadFindProject, Goto, End, CopiesAgree, SameRun, Exists, Idle
<1>3. ASSUME NEW q \in Requests, UploadCheckColumns(q)
      PROVE  CopiesAgree'
  BY <1>3, <1>0
     DEF UploadCheckColumns, Goto, End, CopiesAgree, SameRun, Exists, Idle
<1>4. ASSUME NEW q \in Requests, UploadSave(q)
      PROVE  CopiesAgree'
  BY <1>4, <1>0
     DEF UploadSave, Goto, CopiesAgree, SameRun, Exists, Idle
<1>5. ASSUME NEW q \in Requests, UploadInsert(q)
      PROVE  CopiesAgree'
  BY <1>5, <1>0
     DEF UploadInsert, Goto, Enqueue, CopiesAgree, SameRun, Exists, Idle
<1>6. ASSUME NEW q \in Requests, SaveFails(q)
      PROVE  CopiesAgree'
  BY <1>6, <1>0
     DEF SaveFails, End, CopiesAgree, SameRun, Exists, Idle
<1>7. ASSUME NEW q \in Requests, NEW r \in Requests, ReprocessRead(q, r)
      PROVE  CopiesAgree'
  BY <1>7, <1>0
     DEF ReprocessRead, Goto, End, CopiesAgree, SameRun, Exists, Idle
<1>8. ASSUME NEW q \in Requests, ReprocessInsert(q)
      PROVE  CopiesAgree'
  BY <1>8, <1>0
     DEF ReprocessInsert, Goto, Enqueue, CopiesAgree, SameRun, Exists, Idle
<1>9. ASSUME NEW q \in Requests, NEW x \in Requests, DownloadCheck(q, x)
      PROVE  CopiesAgree'
  BY <1>9, <1>0
     DEF DownloadCheck, Goto, End, CopiesAgree, SameRun, Exists, Idle
<1>10. ASSUME NEW q \in Requests, DownloadSign(q)
      PROVE  CopiesAgree'
  BY <1>10, <1>0
     DEF DownloadSign, Goto, CopiesAgree, SameRun, Exists, Idle
<1>11. ASSUME NEW q \in Requests, NEW p \in Projects, DeleteFind(q, p)
      PROVE  CopiesAgree'
  BY <1>11, <1>0
     DEF DeleteFind, Goto, End, CopiesAgree, SameRun, Exists, Idle
<1>12. ASSUME NEW q \in Requests, DeleteFlush(q)
      PROVE  CopiesAgree'
  BY <1>12, <1>0
     DEF DeleteFlush, Goto, End, CopiesAgree, SameRun, Exists, Idle
<1>13. ASSUME NEW q \in Requests, DeleteCommit(q)
      PROVE  CopiesAgree'
  BY <1>13, <1>0, <1>w
     DEF DeleteCommit, End, CopiesAgree, SameRun, Exists, Idle
<1>14. ASSUME NEW q \in Requests, Answer(q)
      PROVE  CopiesAgree'
  BY <1>14, <1>0
     DEF Answer, Goto, CopiesAgree, SameRun, Exists, Idle
<1>15. ASSUME NEW q \in Requests, Commit(q)
      PROVE  CopiesAgree'
  <2>1. \A v \in Workers : work[v].row # None => work[v].execution # q
    BY <1>15, <1>0 DEF Commit, CopiesSettled
  <2>2. UNCHANGED work /\ \A x \in Requests \ {q} : executions'[x] = executions[x]
    BY <1>15, <1>0 DEF Commit
  <2>3. QED  BY <1>w, <2>1, <2>2 DEF CopiesAgree, Exists
<1>16. ASSUME NEW q \in Requests, RequestFails(q)
      PROVE  CopiesAgree'
  BY <1>16, <1>0
     DEF RequestFails, End, CopiesAgree, SameRun, Exists, Idle
<1>17. ASSUME NEW q \in Requests, CommitFails(q)
      PROVE  CopiesAgree'
  BY <1>17, <1>0
     DEF CommitFails, End, CopiesAgree, SameRun, Exists, Idle
<1>18. ASSUME NEW p \in Projects, NEW c \in SUBSET Columns, ChangeConfig(p, c)
      PROVE  CopiesAgree'
  BY <1>18, <1>0
     DEF ChangeConfig, CopiesAgree, SameRun, Exists, Idle
<1>19. ASSUME NEW w \in Workers, Load(w)
      PROVE  CopiesAgree'
  <2>1. Exists(work[w].execution) /\ work'[w].execution = work[w].execution
        /\ work'[w].row = executions[work[w].execution]
    BY <1>19, <1>0 DEF Load, Become, Exists, Work
  <2>2. UNCHANGED executions /\ \A v \in Workers \ {w} : work'[v] = work[v]
    BY <1>19, <1>0 DEF Load, Become
  <2>3. QED  BY <2>1, <2>2 DEF CopiesAgree, SameRun, Exists
<1>20. ASSUME NEW w \in Workers, Begin(w)
      PROVE  CopiesAgree'
  <2>1. UNCHANGED executions
    BY <1>20 DEF Begin
  <2>2. /\ work[w].row # None
        /\ work'[w].execution = work[w].execution
        /\ SameRun(work'[w].row, work[w].row)
        /\ \A v \in Workers \ {w} : work'[v] = work[v]
    BY <1>20, RowFrame, NoneAssumption
  <2>3. QED  BY <2>1, <2>2 DEF CopiesAgree, SameRun, Exists
<1>21. ASSUME NEW w \in Workers, ProcessSucceeds(w)
      PROVE  CopiesAgree'
  <2>1. UNCHANGED executions
    BY <1>21 DEF ProcessSucceeds
  <2>2. /\ work[w].row # None
        /\ work'[w].execution = work[w].execution
        /\ SameRun(work'[w].row, work[w].row)
        /\ \A v \in Workers \ {w} : work'[v] = work[v]
    BY <1>21, RowFrame, NoneAssumption
  <2>3. QED  BY <2>1, <2>2 DEF CopiesAgree, SameRun, Exists
<1>22. ASSUME NEW w \in Workers, ProcessFails(w)
      PROVE  CopiesAgree'
  <2>1. UNCHANGED executions
    BY <1>22 DEF ProcessFails
  <2>2. /\ work[w].row # None
        /\ work'[w].execution = work[w].execution
        /\ SameRun(work'[w].row, work[w].row)
        /\ \A v \in Workers \ {w} : work'[v] = work[v]
    BY <1>22, RowFrame, NoneAssumption
  <2>3. QED  BY <2>1, <2>2 DEF CopiesAgree, SameRun, Exists
<1>23. ASSUME NEW w \in Workers, TaskCommit(w)
      PROVE  CopiesAgree'
  <2>1. work[w].row # None /\ work[w].execution \in Requests
    BY <1>23, <1>w DEF TaskCommit, Become, WorkOK
  <2>2. executions'[work[w].execution] = work[w].row
        /\ \A x \in Requests \ {work[w].execution} : executions'[x] = executions[x]
    BY <1>23, <1>0, <2>1 DEF TaskCommit
  <2>3. work'[w].row = None /\ \A v \in Workers \ {w} : work'[v] = work[v]
    BY <1>23, <1>0 DEF TaskCommit, Become, Idle
  <2>4. QED  BY <1>w, <2>1, <2>2, <2>3 DEF CopiesAgree, SameRun, Exists
<1>24. ASSUME NEW w \in Workers, TaskFails(w)
      PROVE  CopiesAgree'
  BY <1>24, <1>0
     DEF TaskFails, CopiesAgree, SameRun, Exists, Idle
<1>25. ASSUME NEW w \in Workers, WorkerCrash(w)
      PROVE  CopiesAgree'
  BY <1>25, <1>0
     DEF WorkerCrash, CopiesAgree, SameRun, Exists, Idle
<1>26. ASSUME NEW w \in Workers, NEW m \in queue, Receive(w, m)
      PROVE  CopiesAgree'
  BY <1>26, <1>0
     DEF Receive, Become, CopiesAgree, SameRun, Exists, Idle
<1>27. CASE UNCHANGED vars
  BY <1>27, <1>0
     DEF CopiesAgree, SameRun, Exists, Idle
<1>28. QED
  BY <1>1, <1>2, <1>3, <1>4, <1>5, <1>6, <1>7, <1>8, <1>9, <1>10, <1>11, <1>12, <1>13, <1>14, <1>15, <1>16, <1>17, <1>18, <1>19, <1>20, <1>21, <1>22, <1>23, <1>24, <1>25, <1>26, <1>27
  DEF Next, RequestStep, UploadStep, ReprocessStep, DownloadStep, DeleteStep,
      TaskStep

\* A row that says READY keeps having its result, whoever runs the job again.
LEMMA RowsTruthfulStep ==
  ASSUME TypeOK, ArgsOK, WorkOK, OriginalsSettled, CopiesAgree, RowsTruthful, [Next]_vars
  PROVE  RowsTruthful'
<1> USE DEF vars, dbVars, queueVars, reqVars
<1>0. /\ pc \in [Requests -> Places]
      /\ reports \in [Requests -> Projects \cup {None}]
      /\ executions \in [Requests -> Execution \cup {None}]
      /\ originals \in [Requests -> {None} \cup SUBSET Columns]
      /\ results \in [Requests -> Result \cup {None}]
      /\ args \in [Requests -> Args]
      /\ work \in [Workers -> Work]
      /\ ReportsSettled /\ ExecutionsSettled /\ CopiesSettled /\ RequestsSettled
  BY DEF TypeOK, OriginalsSettled
<1>s. \A s \in Requests :
        pc[s] = "done" /\ originals[s] # None =>
          pc'[s] = "done" /\ originals'[s] = originals[s]
  BY SettledStep DEF Settled
<1>e. \A x \in Requests :
        Exists(x) => executions[x] \in Execution /\ executions[x].report \in Requests
  BY <1>0 DEF Exists, Execution
<1>w. \A w \in Workers : work[w].row # None =>
        work[w].row \in Execution /\ work[w].row.report \in Requests
        /\ work[w].execution \in Requests
  BY <1>0, RowFrame DEF Execution, WorkOK
<1>1. ASSUME NEW q \in Requests, UploadTooLarge(q)
      PROVE  RowsTruthful'
  BY <1>1, <1>0
     DEF UploadTooLarge, End, RowsTruthful, Truthful, Exists, Idle
<1>2. ASSUME NEW q \in Requests, NEW p \in Projects, NEW f \in SUBSET Columns, UploadFindProject(q, p, f)
      PROVE  RowsTruthful'
  BY <1>2, <1>0
     DEF UploadFindProject, Goto, End, RowsTruthful, Truthful, Exists, Idle
<1>3. ASSUME NEW q \in Requests, UploadCheckColumns(q)
      PROVE  RowsTruthful'
  BY <1>3, <1>0
     DEF UploadCheckColumns, Goto, End, RowsTruthful, Truthful, Exists, Idle
<1>4. ASSUME NEW q \in Requests, UploadSave(q)
      PROVE  RowsTruthful'
  <2>1. \A r \in Requests : Settled(r) => originals'[r] = originals[r]
    BY <1>s DEF Settled
  <2>2. UNCHANGED <<executions, results, work>>
    BY <1>4 DEF UploadSave
  <2>3. \A x \in Requests : Exists(x) => Settled(executions[x].report)
    BY <1>0 DEF ExecutionsSettled
  <2>4. \A w \in Workers : work[w].pc = "finished" =>
          work[w].row # None /\ Settled(work[w].row.report)
    BY <1>0 DEF CopiesSettled, WorkOK
  <2>5. QED  BY <1>e, <1>w, <2>1, <2>2, <2>3, <2>4
             DEF RowsTruthful, Truthful, Exists
<1>5. ASSUME NEW q \in Requests, UploadInsert(q)
      PROVE  RowsTruthful'
  BY <1>5, <1>0
     DEF UploadInsert, Goto, Enqueue, RowsTruthful, Truthful, Exists, Idle
<1>6. ASSUME NEW q \in Requests, SaveFails(q)
      PROVE  RowsTruthful'
  <2>1. \A r \in Requests : Settled(r) => originals'[r] = originals[r]
    BY <1>s DEF Settled
  <2>2. UNCHANGED <<executions, results, work>>
    BY <1>6 DEF SaveFails
  <2>3. \A x \in Requests : Exists(x) => Settled(executions[x].report)
    BY <1>0 DEF ExecutionsSettled
  <2>4. \A w \in Workers : work[w].pc = "finished" =>
          work[w].row # None /\ Settled(work[w].row.report)
    BY <1>0 DEF CopiesSettled, WorkOK
  <2>5. QED  BY <1>e, <1>w, <2>1, <2>2, <2>3, <2>4
             DEF RowsTruthful, Truthful, Exists
<1>7. ASSUME NEW q \in Requests, NEW r \in Requests, ReprocessRead(q, r)
      PROVE  RowsTruthful'
  BY <1>7, <1>0
     DEF ReprocessRead, Goto, End, RowsTruthful, Truthful, Exists, Idle
<1>8. ASSUME NEW q \in Requests, ReprocessInsert(q)
      PROVE  RowsTruthful'
  BY <1>8, <1>0
     DEF ReprocessInsert, Goto, Enqueue, RowsTruthful, Truthful, Exists, Idle
<1>9. ASSUME NEW q \in Requests, NEW x \in Requests, DownloadCheck(q, x)
      PROVE  RowsTruthful'
  BY <1>9, <1>0
     DEF DownloadCheck, Goto, End, RowsTruthful, Truthful, Exists, Idle
<1>10. ASSUME NEW q \in Requests, DownloadSign(q)
      PROVE  RowsTruthful'
  BY <1>10, <1>0
     DEF DownloadSign, Goto, RowsTruthful, Truthful, Exists, Idle
<1>11. ASSUME NEW q \in Requests, NEW p \in Projects, DeleteFind(q, p)
      PROVE  RowsTruthful'
  BY <1>11, <1>0
     DEF DeleteFind, Goto, End, RowsTruthful, Truthful, Exists, Idle
<1>12. ASSUME NEW q \in Requests, DeleteFlush(q)
      PROVE  RowsTruthful'
  BY <1>12, <1>0
     DEF DeleteFlush, Goto, End, RowsTruthful, Truthful, Exists, Idle
<1>13. ASSUME NEW q \in Requests, DeleteCommit(q)
      PROVE  RowsTruthful'
  BY <1>13, <1>0
     DEF DeleteCommit, End, RowsTruthful, Truthful, Exists, Idle
<1>14. ASSUME NEW q \in Requests, Answer(q)
      PROVE  RowsTruthful'
  BY <1>14, <1>0
     DEF Answer, Goto, RowsTruthful, Truthful, Exists, Idle
<1>15. ASSUME NEW q \in Requests, Commit(q)
      PROVE  RowsTruthful'
  BY <1>15, <1>0
     DEF Commit, End, QueuedExecution, RowsTruthful, Truthful, Exists, Idle
<1>16. ASSUME NEW q \in Requests, RequestFails(q)
      PROVE  RowsTruthful'
  BY <1>16, <1>0
     DEF RequestFails, End, RowsTruthful, Truthful, Exists, Idle
<1>17. ASSUME NEW q \in Requests, CommitFails(q)
      PROVE  RowsTruthful'
  BY <1>17, <1>0
     DEF CommitFails, End, RowsTruthful, Truthful, Exists, Idle
<1>18. ASSUME NEW p \in Projects, NEW c \in SUBSET Columns, ChangeConfig(p, c)
      PROVE  RowsTruthful'
  BY <1>18, <1>0
     DEF ChangeConfig, RowsTruthful, Truthful, Exists, Idle
<1>19. ASSUME NEW w \in Workers, Load(w)
      PROVE  RowsTruthful'
  BY <1>19, <1>0
     DEF Load, Become, RowsTruthful, Truthful, Exists, Idle
<1>20. ASSUME NEW w \in Workers, Begin(w)
      PROVE  RowsTruthful'
  <2>1. UNCHANGED <<executions, results, originals>>
    BY <1>20 DEF Begin
  <2>2. /\ work'[w].row.status # "READY"
        /\ \A v \in Workers \ {w} : work'[v] = work[v]
    BY <1>20, RowFrame
  <2>3. QED  BY <2>1, <2>2 DEF RowsTruthful, Truthful, Exists
<1>21. ASSUME NEW w \in Workers, ProcessSucceeds(w)
      PROVE  RowsTruthful'
  <2> DEFINE x == work[w].execution
             row == work[w].row
             made == Processed(row.snapshot, originals[row.report])
  <2>1. row # None /\ x \in Requests
    BY <1>21, RowFrame, NoneAssumption, <1>w
  <2>2. results'[x] = made /\ \A y \in Requests \ {x} : results'[y] = results[y]
    BY <1>21, <1>0, <2>1 DEF ProcessSucceeds
  <2>3. UNCHANGED <<executions, originals>>
    BY <1>21 DEF ProcessSucceeds
  <2>4. /\ work'[w].execution = x /\ work'[w].row.result /\ ~work'[w].row.log
        /\ SameRun(work'[w].row, row)
        /\ \A v \in Workers \ {w} : work'[v] = work[v]
    BY <1>21, RowFrame
  <2>5. Truthful(work[w].execution, work[w].row)'
    BY <2>2, <2>3, <2>4 DEF Truthful, SameRun
  <2>6. ASSUME NEW y \in Requests, Exists(y)
        PROVE  Truthful(y, executions[y])'
    <3>1. CASE y = x
      <4>1. SameRun(row, executions[y])
        BY <2>1, <2>6, <3>1 DEF CopiesAgree
      <4>2. Truthful(y, executions[y])
        BY <2>6 DEF RowsTruthful
      <4>3. QED  BY <2>2, <2>3, <3>1, <4>1, <4>2 DEF Truthful, SameRun
    <3>2. CASE y # x
      BY <2>2, <2>3, <2>6, <3>2 DEF RowsTruthful, Truthful
    <3>3. QED  BY <3>1, <3>2
  <2>7. ASSUME NEW v \in Workers \ {w}, work[v].pc = "finished"
        PROVE  Truthful(work[v].execution, work[v].row)'
    <3>1. work[v].row # None /\ work[v].execution \in Requests
      BY <1>w, <2>7 DEF WorkOK
    <3>2. Truthful(work[v].execution, work[v].row)
      BY <2>7 DEF RowsTruthful
    <3>3. CASE work[v].execution = x
      <4>1. SameRun(work[v].row, row)
        BY <2>1, <3>1, <3>3 DEF CopiesAgree
      <4>2. QED  BY <2>2, <2>3, <2>4, <3>2, <3>3, <4>1 DEF Truthful, SameRun
    <3>4. CASE work[v].execution # x
      BY <2>2, <2>3, <2>4, <3>1, <3>2, <3>4 DEF Truthful
    <3>5. QED  BY <3>3, <3>4
  <2>8. \A y \in Requests : Exists(y)' => Exists(y)
    BY <2>3 DEF Exists
  <2>9. \A v \in Workers \ {w} : work'[v].pc = work[v].pc
    BY <2>4
  <2>10. QED  BY <2>5, <2>6, <2>7, <2>8, <2>9 DEF RowsTruthful
<1>22. ASSUME NEW w \in Workers, ProcessFails(w)
      PROVE  RowsTruthful'
  <2>1. UNCHANGED <<executions, results, originals>>
    BY <1>22 DEF ProcessFails
  <2>2. /\ work'[w].row.status # "READY"
        /\ \A v \in Workers \ {w} : work'[v] = work[v]
    BY <1>22, RowFrame
  <2>3. QED  BY <2>1, <2>2 DEF RowsTruthful, Truthful, Exists
<1>23. ASSUME NEW w \in Workers, TaskCommit(w)
      PROVE  RowsTruthful'
  <2>1. work[w].pc = "finished" /\ work[w].execution \in Requests
    BY <1>23, <1>w DEF TaskCommit, Become, WorkOK
  <2>2. executions'[work[w].execution] = work[w].row
        /\ \A x \in Requests \ {work[w].execution} : executions'[x] = executions[x]
    BY <1>23, <1>0, <2>1 DEF TaskCommit
  <2>3. work'[w].pc = "idle" /\ \A v \in Workers \ {w} : work'[v] = work[v]
    BY <1>23, <1>0 DEF TaskCommit, Become, Idle
  <2>4. UNCHANGED <<results, originals>>
    BY <1>23 DEF TaskCommit
  <2>5. QED  BY <2>1, <2>2, <2>3, <2>4 DEF RowsTruthful, Truthful, Exists
<1>24. ASSUME NEW w \in Workers, TaskFails(w)
      PROVE  RowsTruthful'
  BY <1>24, <1>0
     DEF TaskFails, RowsTruthful, Truthful, Exists, Idle
<1>25. ASSUME NEW w \in Workers, WorkerCrash(w)
      PROVE  RowsTruthful'
  BY <1>25, <1>0
     DEF WorkerCrash, RowsTruthful, Truthful, Exists, Idle
<1>26. ASSUME NEW w \in Workers, NEW m \in queue, Receive(w, m)
      PROVE  RowsTruthful'
  BY <1>26, <1>0
     DEF Receive, Become, RowsTruthful, Truthful, Exists, Idle
<1>27. CASE UNCHANGED vars
  BY <1>27, <1>0
     DEF RowsTruthful, Truthful, Exists, Idle
<1>28. QED
  BY <1>1, <1>2, <1>3, <1>4, <1>5, <1>6, <1>7, <1>8, <1>9, <1>10, <1>11, <1>12, <1>13, <1>14, <1>15, <1>16, <1>17, <1>18, <1>19, <1>20, <1>21, <1>22, <1>23, <1>24, <1>25, <1>26, <1>27
  DEF Next, RequestStep, UploadStep, ReprocessStep, DownloadStep, DeleteStep,
      TaskStep

\* An upload in progress keeps a snapshot that its file covers.
LEMMA UploadsCoveredStep ==
  ASSUME TypeOK, ArgsOK, WorkOK, OriginalsSettled, UploadsCovered, [Next]_vars
  PROVE  UploadsCovered'
<1> USE DEF vars, dbVars, queueVars, reqVars
<1>0. /\ pc \in [Requests -> Places]
      /\ reports \in [Requests -> Projects \cup {None}]
      /\ executions \in [Requests -> Execution \cup {None}]
      /\ originals \in [Requests -> {None} \cup SUBSET Columns]
      /\ results \in [Requests -> Result \cup {None}]
      /\ args \in [Requests -> Args]
      /\ work \in [Workers -> Work]
      /\ ReportsSettled /\ ExecutionsSettled /\ CopiesSettled /\ RequestsSettled
  BY DEF TypeOK, OriginalsSettled
<1>s. \A s \in Requests :
        pc[s] = "done" /\ originals[s] # None =>
          pc'[s] = "done" /\ originals'[s] = originals[s]
  BY SettledStep DEF Settled
<1>e. \A x \in Requests :
        Exists(x) => executions[x] \in Execution /\ executions[x].report \in Requests
  BY <1>0 DEF Exists, Execution
<1>w. \A w \in Workers : work[w].row # None =>
        work[w].row \in Execution /\ work[w].row.report \in Requests
        /\ work[w].execution \in Requests
  BY <1>0, RowFrame DEF Execution, WorkOK
<1>1. ASSUME NEW q \in Requests, UploadTooLarge(q)
      PROVE  UploadsCovered'
  BY <1>1, <1>0, <1>s
     DEF UploadTooLarge, End, UploadsCovered, HasInserted, RequestsSettled, Uploading, Settled
<1>2. ASSUME NEW q \in Requests, NEW p \in Projects, NEW f \in SUBSET Columns, UploadFindProject(q, p, f)
      PROVE  UploadsCovered'
  BY <1>2, <1>0, <1>s
     DEF UploadFindProject, Goto, End, UploadsCovered, HasInserted, RequestsSettled, Uploading, Settled
<1>3. ASSUME NEW q \in Requests, UploadCheckColumns(q)
      PROVE  UploadsCovered'
  <2>1. CASE config[args[q].project] \subseteq args[q].file
    <3>1. /\ args'[q].snapshot = config[args[q].project]
          /\ args'[q].file = args[q].file
          /\ \A o \in Requests \ {q} : args'[o] = args[o] /\ pc'[o] = pc[o]
          /\ pc'[q] = "checked"
      BY <1>3, <2>1, <1>0 DEF UploadCheckColumns, Goto, Args
    <3>2. UNCHANGED originals
      BY <1>3 DEF UploadCheckColumns
    <3>3. QED  BY <2>1, <3>1, <3>2 DEF UploadsCovered, HasInserted
  <2>2. CASE ~(config[args[q].project] \subseteq args[q].file)
    BY <1>3, <2>2, <1>0 DEF UploadCheckColumns, End, UploadsCovered, HasInserted
  <2>3. QED  BY <2>1, <2>2
<1>4. ASSUME NEW q \in Requests, UploadSave(q)
      PROVE  UploadsCovered'
  BY <1>4, <1>0, <1>s
     DEF UploadSave, Goto, UploadsCovered, HasInserted, RequestsSettled, Uploading, Settled
<1>5. ASSUME NEW q \in Requests, UploadInsert(q)
      PROVE  UploadsCovered'
  BY <1>5, <1>0, <1>s
     DEF UploadInsert, Goto, Enqueue, UploadsCovered, HasInserted, RequestsSettled, Uploading, Settled
<1>6. ASSUME NEW q \in Requests, SaveFails(q)
      PROVE  UploadsCovered'
  BY <1>6, <1>0, <1>s
     DEF SaveFails, End, UploadsCovered, HasInserted, RequestsSettled, Uploading, Settled
<1>7. ASSUME NEW q \in Requests, NEW r \in Requests, ReprocessRead(q, r)
      PROVE  UploadsCovered'
  BY <1>7, <1>0, <1>s
     DEF ReprocessRead, Goto, End, UploadsCovered, HasInserted, RequestsSettled, Uploading, Settled
<1>8. ASSUME NEW q \in Requests, ReprocessInsert(q)
      PROVE  UploadsCovered'
  BY <1>8, <1>0, <1>s
     DEF ReprocessInsert, Goto, Enqueue, UploadsCovered, HasInserted, RequestsSettled, Uploading, Settled
<1>9. ASSUME NEW q \in Requests, NEW x \in Requests, DownloadCheck(q, x)
      PROVE  UploadsCovered'
  BY <1>9, <1>0, <1>s
     DEF DownloadCheck, Goto, End, UploadsCovered, HasInserted, RequestsSettled, Uploading, Settled
<1>10. ASSUME NEW q \in Requests, DownloadSign(q)
      PROVE  UploadsCovered'
  BY <1>10, <1>0, <1>s
     DEF DownloadSign, Goto, UploadsCovered, HasInserted, RequestsSettled, Uploading, Settled
<1>11. ASSUME NEW q \in Requests, NEW p \in Projects, DeleteFind(q, p)
      PROVE  UploadsCovered'
  BY <1>11, <1>0, <1>s
     DEF DeleteFind, Goto, End, UploadsCovered, HasInserted, RequestsSettled, Uploading, Settled
<1>12. ASSUME NEW q \in Requests, DeleteFlush(q)
      PROVE  UploadsCovered'
  BY <1>12, <1>0, <1>s
     DEF DeleteFlush, Goto, End, UploadsCovered, HasInserted, RequestsSettled, Uploading, Settled
<1>13. ASSUME NEW q \in Requests, DeleteCommit(q)
      PROVE  UploadsCovered'
  BY <1>13, <1>0, <1>s
     DEF DeleteCommit, End, UploadsCovered, HasInserted, RequestsSettled, Uploading, Settled
<1>14. ASSUME NEW q \in Requests, Answer(q)
      PROVE  UploadsCovered'
  BY <1>14, <1>0, <1>s
     DEF Answer, Goto, UploadsCovered, HasInserted, RequestsSettled, Uploading, Settled
<1>15. ASSUME NEW q \in Requests, Commit(q)
      PROVE  UploadsCovered'
  BY <1>15, <1>0, <1>s
     DEF Commit, End, QueuedExecution, UploadsCovered, HasInserted, RequestsSettled, Uploading, Settled
<1>16. ASSUME NEW q \in Requests, RequestFails(q)
      PROVE  UploadsCovered'
  BY <1>16, <1>0, <1>s
     DEF RequestFails, End, UploadsCovered, HasInserted, RequestsSettled, Uploading, Settled
<1>17. ASSUME NEW q \in Requests, CommitFails(q)
      PROVE  UploadsCovered'
  BY <1>17, <1>0, <1>s
     DEF CommitFails, End, UploadsCovered, HasInserted, RequestsSettled, Uploading, Settled
<1>18. ASSUME NEW p \in Projects, NEW c \in SUBSET Columns, ChangeConfig(p, c)
      PROVE  UploadsCovered'
  BY <1>18, <1>0, <1>s
     DEF ChangeConfig, UploadsCovered, HasInserted, RequestsSettled, Uploading, Settled
<1>19. ASSUME NEW w \in Workers, Load(w)
      PROVE  UploadsCovered'
  BY <1>19, <1>0, <1>s
     DEF Load, Become, UploadsCovered, HasInserted, RequestsSettled, Uploading, Settled
<1>20. ASSUME NEW w \in Workers, Begin(w)
      PROVE  UploadsCovered'
  BY <1>20, <1>0, <1>s
     DEF Begin, Become, UploadsCovered, HasInserted, RequestsSettled, Uploading, Settled
<1>21. ASSUME NEW w \in Workers, ProcessSucceeds(w)
      PROVE  UploadsCovered'
  BY <1>21, <1>0, <1>s
     DEF ProcessSucceeds, Become, UploadsCovered, HasInserted, RequestsSettled, Uploading, Settled
<1>22. ASSUME NEW w \in Workers, ProcessFails(w)
      PROVE  UploadsCovered'
  BY <1>22, <1>0, <1>s
     DEF ProcessFails, Become, UploadsCovered, HasInserted, RequestsSettled, Uploading, Settled
<1>23. ASSUME NEW w \in Workers, TaskCommit(w)
      PROVE  UploadsCovered'
  BY <1>23, <1>0, <1>s
     DEF TaskCommit, Become, UploadsCovered, HasInserted, RequestsSettled, Uploading, Settled
<1>24. ASSUME NEW w \in Workers, TaskFails(w)
      PROVE  UploadsCovered'
  BY <1>24, <1>0, <1>s
     DEF TaskFails, UploadsCovered, HasInserted, RequestsSettled, Uploading, Settled
<1>25. ASSUME NEW w \in Workers, WorkerCrash(w)
      PROVE  UploadsCovered'
  BY <1>25, <1>0, <1>s
     DEF WorkerCrash, UploadsCovered, HasInserted, RequestsSettled, Uploading, Settled
<1>26. ASSUME NEW w \in Workers, NEW m \in queue, Receive(w, m)
      PROVE  UploadsCovered'
  BY <1>26, <1>0, <1>s
     DEF Receive, Become, UploadsCovered, HasInserted, RequestsSettled, Uploading, Settled
<1>27. CASE UNCHANGED vars
  BY <1>27, <1>0, <1>s
     DEF UploadsCovered, HasInserted, RequestsSettled, Uploading, Settled
<1>28. QED
  BY <1>1, <1>2, <1>3, <1>4, <1>5, <1>6, <1>7, <1>8, <1>9, <1>10, <1>11, <1>12, <1>13, <1>14, <1>15, <1>16, <1>17, <1>18, <1>19, <1>20, <1>21, <1>22, <1>23, <1>24, <1>25, <1>26, <1>27
  DEF Next, RequestStep, UploadStep, ReprocessStep, DownloadStep, DeleteStep,
      TaskStep

\* Every queued execution keeps its job, or the loss is recorded.
LEMMA JobsAccountedStep ==
  ASSUME TypeOK, ArgsOK, WorkOK, OriginalsSettled, JobsAccounted, [Next]_vars
  PROVE  JobsAccounted'
<1> USE DEF vars, dbVars, queueVars, reqVars
<1>0. /\ pc \in [Requests -> Places]
      /\ reports \in [Requests -> Projects \cup {None}]
      /\ executions \in [Requests -> Execution \cup {None}]
      /\ originals \in [Requests -> {None} \cup SUBSET Columns]
      /\ results \in [Requests -> Result \cup {None}]
      /\ args \in [Requests -> Args]
      /\ work \in [Workers -> Work]
      /\ ReportsSettled /\ ExecutionsSettled /\ CopiesSettled /\ RequestsSettled
  BY DEF TypeOK, OriginalsSettled
<1>s. \A s \in Requests :
        pc[s] = "done" /\ originals[s] # None =>
          pc'[s] = "done" /\ originals'[s] = originals[s]
  BY SettledStep DEF Settled
<1>e. \A x \in Requests :
        Exists(x) => executions[x] \in Execution /\ executions[x].report \in Requests
  BY <1>0 DEF Exists, Execution
<1>w. \A w \in Workers : work[w].row # None =>
        work[w].row \in Execution /\ work[w].row.report \in Requests
        /\ work[w].execution \in Requests
  BY <1>0, RowFrame DEF Execution, WorkOK
<1>1. ASSUME NEW q \in Requests, UploadTooLarge(q)
      PROVE  JobsAccounted'
  BY <1>1, <1>0
     DEF UploadTooLarge, End, JobsAccounted, Accounted, HasInserted, Exists
<1>2. ASSUME NEW q \in Requests, NEW p \in Projects, NEW f \in SUBSET Columns, UploadFindProject(q, p, f)
      PROVE  JobsAccounted'
  BY <1>2, <1>0
     DEF UploadFindProject, Goto, End, JobsAccounted, Accounted, HasInserted, Exists
<1>3. ASSUME NEW q \in Requests, UploadCheckColumns(q)
      PROVE  JobsAccounted'
  BY <1>3, <1>0
     DEF UploadCheckColumns, Goto, End, JobsAccounted, Accounted, HasInserted, Exists
<1>4. ASSUME NEW q \in Requests, UploadSave(q)
      PROVE  JobsAccounted'
  BY <1>4, <1>0
     DEF UploadSave, Goto, JobsAccounted, Accounted, HasInserted, Exists
<1>5. ASSUME NEW q \in Requests, UploadInsert(q)
      PROVE  JobsAccounted'
  <2>1. Accounted(q)'
    <3>1. CASE BrokerConnected
      <4>1. [execution |-> q, retries |-> 0] \in queue'
        BY <1>5, <3>1 DEF UploadInsert, Enqueue
      <4>2. QED  BY <4>1 DEF Accounted
    <3>2. CASE ~BrokerConnected
      BY <1>5, <3>2 DEF UploadInsert, Enqueue, Accounted
    <3>3. QED  BY <3>1, <3>2
  <2>2. \A x \in Requests : Accounted(x) => Accounted(x)'
    BY <1>5 DEF UploadInsert, Enqueue, Accounted
  <2>3. \A x \in Requests \ {q} : HasInserted(x)' => HasInserted(x)
    BY <1>5, <1>0 DEF UploadInsert, Goto, HasInserted
  <2>4. UNCHANGED executions
    BY <1>5 DEF UploadInsert
  <2>5. QED  BY <2>1, <2>2, <2>3, <2>4 DEF JobsAccounted, Exists
<1>6. ASSUME NEW q \in Requests, SaveFails(q)
      PROVE  JobsAccounted'
  BY <1>6, <1>0
     DEF SaveFails, End, JobsAccounted, Accounted, HasInserted, Exists
<1>7. ASSUME NEW q \in Requests, NEW r \in Requests, ReprocessRead(q, r)
      PROVE  JobsAccounted'
  BY <1>7, <1>0
     DEF ReprocessRead, Goto, End, JobsAccounted, Accounted, HasInserted, Exists
<1>8. ASSUME NEW q \in Requests, ReprocessInsert(q)
      PROVE  JobsAccounted'
  <2>1. Accounted(q)'
    <3>1. CASE BrokerConnected
      <4>1. [execution |-> q, retries |-> 0] \in queue'
        BY <1>8, <3>1 DEF ReprocessInsert, Enqueue
      <4>2. QED  BY <4>1 DEF Accounted
    <3>2. CASE ~BrokerConnected
      BY <1>8, <3>2 DEF ReprocessInsert, Enqueue, Accounted
    <3>3. QED  BY <3>1, <3>2
  <2>2. \A x \in Requests : Accounted(x) => Accounted(x)'
    BY <1>8 DEF ReprocessInsert, Enqueue, Accounted
  <2>3. \A x \in Requests \ {q} : HasInserted(x)' => HasInserted(x)
    BY <1>8, <1>0 DEF ReprocessInsert, Goto, HasInserted
  <2>4. UNCHANGED executions
    BY <1>8 DEF ReprocessInsert
  <2>5. QED  BY <2>1, <2>2, <2>3, <2>4 DEF JobsAccounted, Exists
<1>9. ASSUME NEW q \in Requests, NEW x \in Requests, DownloadCheck(q, x)
      PROVE  JobsAccounted'
  BY <1>9, <1>0
     DEF DownloadCheck, Goto, End, JobsAccounted, Accounted, HasInserted, Exists
<1>10. ASSUME NEW q \in Requests, DownloadSign(q)
      PROVE  JobsAccounted'
  BY <1>10, <1>0
     DEF DownloadSign, Goto, JobsAccounted, Accounted, HasInserted, Exists
<1>11. ASSUME NEW q \in Requests, NEW p \in Projects, DeleteFind(q, p)
      PROVE  JobsAccounted'
  BY <1>11, <1>0
     DEF DeleteFind, Goto, End, JobsAccounted, Accounted, HasInserted, Exists
<1>12. ASSUME NEW q \in Requests, DeleteFlush(q)
      PROVE  JobsAccounted'
  BY <1>12, <1>0
     DEF DeleteFlush, Goto, End, JobsAccounted, Accounted, HasInserted, Exists
<1>13. ASSUME NEW q \in Requests, DeleteCommit(q)
      PROVE  JobsAccounted'
  BY <1>13, <1>0
     DEF DeleteCommit, End, JobsAccounted, Accounted, HasInserted, Exists
<1>14. ASSUME NEW q \in Requests, Answer(q)
      PROVE  JobsAccounted'
  BY <1>14, <1>0
     DEF Answer, Goto, JobsAccounted, Accounted, HasInserted, Exists
<1>15. ASSUME NEW q \in Requests, Commit(q)
      PROVE  JobsAccounted'
  <2>1. UNCHANGED <<queue, unserved, work>>
    BY <1>15 DEF Commit
  <2>2. \A x \in Requests : Accounted(x)' <=> Accounted(x)
    BY <2>1 DEF Accounted
  <2>3. HasInserted(q) /\ \A x \in Requests \ {q} :
          executions'[x] = executions[x] /\ pc'[x] = pc[x]
    BY <1>15, <1>0 DEF Commit, End, HasInserted
  <2>4. QED  BY <2>2, <2>3 DEF JobsAccounted, Exists, HasInserted
<1>16. ASSUME NEW q \in Requests, RequestFails(q)
      PROVE  JobsAccounted'
  BY <1>16, <1>0
     DEF RequestFails, End, JobsAccounted, Accounted, HasInserted, Exists
<1>17. ASSUME NEW q \in Requests, CommitFails(q)
      PROVE  JobsAccounted'
  BY <1>17, <1>0
     DEF CommitFails, End, JobsAccounted, Accounted, HasInserted, Exists
<1>18. ASSUME NEW p \in Projects, NEW c \in SUBSET Columns, ChangeConfig(p, c)
      PROVE  JobsAccounted'
  BY <1>18, <1>0
     DEF ChangeConfig, JobsAccounted, Accounted, HasInserted, Exists
<1>19. ASSUME NEW w \in Workers, Load(w)
      PROVE  JobsAccounted'
  <2>1. /\ work'[w].pc # "idle" /\ work'[w].execution = work[w].execution
        /\ \A v \in Workers \ {w} : work'[v] = work[v]
    BY <1>19, <1>0 DEF Load, Become, Work
  <2>2. UNCHANGED <<queue, unserved, executions, pc>>
    BY <1>19 DEF Load
  <2>3. \A x \in Requests : Accounted(x) => Accounted(x)'
    BY <2>1, <2>2 DEF Accounted
  <2>4. QED  BY <2>2, <2>3 DEF JobsAccounted, Exists, HasInserted
<1>20. ASSUME NEW w \in Workers, Begin(w)
      PROVE  JobsAccounted'
  <2>1. /\ work'[w].pc # "idle" /\ work'[w].execution = work[w].execution
        /\ \A v \in Workers \ {w} : work'[v] = work[v]
    BY <1>20, RowFrame
  <2>2. UNCHANGED <<queue, unserved, executions, pc>>
    BY <1>20 DEF Begin
  <2>3. \A x \in Requests : Accounted(x) => Accounted(x)'
    BY <2>1, <2>2 DEF Accounted
  <2>4. QED  BY <2>2, <2>3 DEF JobsAccounted, Exists, HasInserted
<1>21. ASSUME NEW w \in Workers, ProcessSucceeds(w)
      PROVE  JobsAccounted'
  <2>1. /\ work'[w].pc # "idle" /\ work'[w].execution = work[w].execution
        /\ \A v \in Workers \ {w} : work'[v] = work[v]
    BY <1>21, RowFrame
  <2>2. UNCHANGED <<queue, unserved, executions, pc>>
    BY <1>21 DEF ProcessSucceeds
  <2>3. \A x \in Requests : Accounted(x) => Accounted(x)'
    BY <2>1, <2>2 DEF Accounted
  <2>4. QED  BY <2>2, <2>3 DEF JobsAccounted, Exists, HasInserted
<1>22. ASSUME NEW w \in Workers, ProcessFails(w)
      PROVE  JobsAccounted'
  <2>1. /\ work'[w].pc # "idle" /\ work'[w].execution = work[w].execution
        /\ \A v \in Workers \ {w} : work'[v] = work[v]
    BY <1>22, RowFrame
  <2>2. UNCHANGED <<queue, unserved, executions, pc>>
    BY <1>22 DEF ProcessFails
  <2>3. \A x \in Requests : Accounted(x) => Accounted(x)'
    BY <2>1, <2>2 DEF Accounted
  <2>4. QED  BY <2>2, <2>3 DEF JobsAccounted, Exists, HasInserted
<1>23. ASSUME NEW w \in Workers, TaskCommit(w)
      PROVE  JobsAccounted'
  <2> DEFINE x == work[w].execution
  <2>1. work[w].pc = "finished" /\ work[w].row # None /\ x \in Requests
        /\ work[w].row.status # "QUEUED"
    BY <1>23, <1>w DEF TaskCommit, Become, WorkOK
  <2>2. executions'[x] = work[w].row
        /\ \A y \in Requests \ {x} : executions'[y] = executions[y]
    BY <1>23, <1>0, <2>1 DEF TaskCommit
  <2>3. \A v \in Workers \ {w} : work'[v] = work[v]
    BY <1>23, <1>0 DEF TaskCommit, Become
  <2>4. UNCHANGED <<queue, unserved, pc>>
    BY <1>23 DEF TaskCommit
  <2>5. \A y \in Requests \ {x} : Accounted(y) => Accounted(y)'
    BY <2>3, <2>4 DEF Accounted
  <2>6. ~HasInserted(x)
    BY <1>0, <2>1 DEF CopiesSettled, HasInserted
  <2>7. QED  BY <2>1, <2>2, <2>4, <2>5, <2>6 DEF JobsAccounted, Exists, HasInserted
<1>24. ASSUME NEW w \in Workers, TaskFails(w)
      PROVE  JobsAccounted'
  <2>1. ASSUME NEW x \in Requests, x = work[w].execution
        PROVE  Accounted(x)'
    <3> DEFINE again == [execution |-> x, retries |-> work[w].retries + 1]
    <3>1. CASE queue' = queue \cup {again}
      <4>1. again \in queue' /\ again.execution = x
        BY <3>1
      <4>2. QED  BY <4>1 DEF Accounted
    <3>2. CASE unserved' = unserved \cup {x}
      BY <3>2 DEF Accounted
    <3>3. QED  BY <1>24, <2>1, <3>1, <3>2 DEF TaskFails
  <2>2. \A v \in Workers \ {w} : work'[v] = work[v]
    BY <1>24, <1>0 DEF TaskFails
  <2>3. queue \subseteq queue' /\ unserved \subseteq unserved'
    BY <1>24 DEF TaskFails
  <2>4. \A x \in Requests : Accounted(x) => Accounted(x)'
    BY <2>1, <2>2, <2>3 DEF Accounted
  <2>5. UNCHANGED <<executions, pc>>
    BY <1>24 DEF TaskFails
  <2>6. QED  BY <2>4, <2>5 DEF JobsAccounted, Exists, HasInserted
<1>25. ASSUME NEW w \in Workers, WorkerCrash(w)
      PROVE  JobsAccounted'
  <2>1. ASSUME NEW x \in Requests, x = work[w].execution
        PROVE  Accounted(x)'
    BY <1>25, <2>1 DEF WorkerCrash, Accounted
  <2>2. \A v \in Workers \ {w} : work'[v] = work[v]
    BY <1>25, <1>0 DEF WorkerCrash
  <2>3. queue = queue' /\ unserved \subseteq unserved'
    BY <1>25 DEF WorkerCrash
  <2>4. \A x \in Requests : Accounted(x) => Accounted(x)'
    BY <2>1, <2>2, <2>3 DEF Accounted
  <2>5. UNCHANGED <<executions, pc>>
    BY <1>25 DEF WorkerCrash
  <2>6. QED  BY <2>4, <2>5 DEF JobsAccounted, Exists, HasInserted
<1>26. ASSUME NEW w \in Workers, NEW m \in queue, Receive(w, m)
      PROVE  JobsAccounted'
  <2>1. /\ work'[w].pc # "idle" /\ work'[w].execution = m.execution
        /\ work[w].pc = "idle"
        /\ \A v \in Workers \ {w} : work'[v] = work[v]
    BY <1>26, <1>0 DEF Receive, Become
  <2>2. queue \ {m} \subseteq queue' /\ UNCHANGED <<unserved, executions, pc>>
    BY <1>26 DEF Receive
  <2>3. \A x \in Requests : Accounted(x) => Accounted(x)'
    BY <2>1, <2>2 DEF Accounted
  <2>4. QED  BY <2>2, <2>3 DEF JobsAccounted, Exists, HasInserted
<1>27. CASE UNCHANGED vars
  BY <1>27, <1>0
     DEF JobsAccounted, Accounted, HasInserted, Exists
<1>28. QED
  BY <1>1, <1>2, <1>3, <1>4, <1>5, <1>6, <1>7, <1>8, <1>9, <1>10, <1>11, <1>12, <1>13, <1>14, <1>15, <1>16, <1>17, <1>18, <1>19, <1>20, <1>21, <1>22, <1>23, <1>24, <1>25, <1>26, <1>27
  DEF Next, RequestStep, UploadStep, ReprocessStep, DownloadStep, DeleteStep,
      TaskStep

\* A report keeps its original and a covering execution.
LEMMA ReportIsCompleteStep ==
  ASSUME TypeOK, ArgsOK, WorkOK, OriginalsSettled, CopiesAgree, UploadsCovered, ReportIsComplete, [Next]_vars
  PROVE  ReportIsComplete'
<1> USE DEF vars, dbVars, queueVars, reqVars
<1>0. /\ pc \in [Requests -> Places]
      /\ reports \in [Requests -> Projects \cup {None}]
      /\ executions \in [Requests -> Execution \cup {None}]
      /\ originals \in [Requests -> {None} \cup SUBSET Columns]
      /\ results \in [Requests -> Result \cup {None}]
      /\ args \in [Requests -> Args]
      /\ work \in [Workers -> Work]
      /\ ReportsSettled /\ ExecutionsSettled /\ CopiesSettled /\ RequestsSettled
  BY DEF TypeOK, OriginalsSettled
<1>s. \A s \in Requests :
        pc[s] = "done" /\ originals[s] # None =>
          pc'[s] = "done" /\ originals'[s] = originals[s]
  BY SettledStep DEF Settled
<1>e. \A x \in Requests :
        Exists(x) => executions[x] \in Execution /\ executions[x].report \in Requests
  BY <1>0 DEF Exists, Execution
<1>w. \A w \in Workers : work[w].row # None =>
        work[w].row \in Execution /\ work[w].row.report \in Requests
        /\ work[w].execution \in Requests
  BY <1>0, RowFrame DEF Execution, WorkOK
<1>1. ASSUME NEW q \in Requests, UploadTooLarge(q)
      PROVE  ReportIsComplete'
  BY <1>1, <1>0
     DEF UploadTooLarge, End, ReportIsComplete, Exists
<1>2. ASSUME NEW q \in Requests, NEW p \in Projects, NEW f \in SUBSET Columns, UploadFindProject(q, p, f)
      PROVE  ReportIsComplete'
  BY <1>2, <1>0
     DEF UploadFindProject, Goto, End, ReportIsComplete, Exists
<1>3. ASSUME NEW q \in Requests, UploadCheckColumns(q)
      PROVE  ReportIsComplete'
  BY <1>3, <1>0
     DEF UploadCheckColumns, Goto, End, ReportIsComplete, Exists
<1>4. ASSUME NEW q \in Requests, UploadSave(q)
      PROVE  ReportIsComplete'
  <2>1. UNCHANGED <<reports, executions>>
    BY <1>4 DEF UploadSave
  <2>2. \A r \in Requests : reports[r] # None => originals'[r] = originals[r]
    BY <1>0, <1>s DEF ReportsSettled, Settled
  <2>3. QED  BY <2>1, <2>2 DEF ReportIsComplete, Exists
<1>5. ASSUME NEW q \in Requests, UploadInsert(q)
      PROVE  ReportIsComplete'
  BY <1>5, <1>0
     DEF UploadInsert, Goto, Enqueue, ReportIsComplete, Exists
<1>6. ASSUME NEW q \in Requests, SaveFails(q)
      PROVE  ReportIsComplete'
  <2>1. UNCHANGED <<reports, executions>>
    BY <1>6 DEF SaveFails
  <2>2. \A r \in Requests : reports[r] # None => originals'[r] = originals[r]
    BY <1>0, <1>s DEF ReportsSettled, Settled
  <2>3. QED  BY <2>1, <2>2 DEF ReportIsComplete, Exists
<1>7. ASSUME NEW q \in Requests, NEW r \in Requests, ReprocessRead(q, r)
      PROVE  ReportIsComplete'
  BY <1>7, <1>0
     DEF ReprocessRead, Goto, End, ReportIsComplete, Exists
<1>8. ASSUME NEW q \in Requests, ReprocessInsert(q)
      PROVE  ReportIsComplete'
  BY <1>8, <1>0
     DEF ReprocessInsert, Goto, Enqueue, ReportIsComplete, Exists
<1>9. ASSUME NEW q \in Requests, NEW x \in Requests, DownloadCheck(q, x)
      PROVE  ReportIsComplete'
  BY <1>9, <1>0
     DEF DownloadCheck, Goto, End, ReportIsComplete, Exists
<1>10. ASSUME NEW q \in Requests, DownloadSign(q)
      PROVE  ReportIsComplete'
  BY <1>10, <1>0
     DEF DownloadSign, Goto, ReportIsComplete, Exists
<1>11. ASSUME NEW q \in Requests, NEW p \in Projects, DeleteFind(q, p)
      PROVE  ReportIsComplete'
  BY <1>11, <1>0
     DEF DeleteFind, Goto, End, ReportIsComplete, Exists
<1>12. ASSUME NEW q \in Requests, DeleteFlush(q)
      PROVE  ReportIsComplete'
  BY <1>12, <1>0
     DEF DeleteFlush, Goto, End, ReportIsComplete, Exists
<1>13. ASSUME NEW q \in Requests, DeleteCommit(q)
      PROVE  ReportIsComplete'
  BY <1>13, <1>0
     DEF DeleteCommit, End, ReportIsComplete, Exists
<1>14. ASSUME NEW q \in Requests, Answer(q)
      PROVE  ReportIsComplete'
  BY <1>14, <1>0
     DEF Answer, Goto, ReportIsComplete, Exists
<1>15. ASSUME NEW q \in Requests, Commit(q)
      PROVE  ReportIsComplete'
  <2>1. HasInserted(q) /\ args[q].project \in Projects /\ args[q].report \in Requests
    BY <1>15 DEF Commit, HasInserted, ArgsOK, Working
  <2>2. /\ executions'[q] = QueuedExecution(q)
        /\ \A x \in Requests \ {q} : executions'[x] = executions[x]
        /\ UNCHANGED originals
    BY <1>15, <1>0 DEF Commit
  <2>3. /\ executions'[q] # None /\ executions'[q].report = args[q].report
        /\ executions'[q].snapshot = args[q].snapshot
    <3>1. QueuedExecution(q) \in Execution
      BY <1>0, <2>1 DEF QueuedExecution, Execution, Status, Args
    <3>2. QueuedExecution(q).report = args[q].report
          /\ QueuedExecution(q).snapshot = args[q].snapshot
      BY DEF QueuedExecution
    <3>3. QueuedExecution(q) # None
      BY <3>1, NoneAssumption
    <3>4. QED  BY <2>2, <3>2, <3>3
  <2>4. \A r \in Requests \ {q} : reports'[r] = reports[r]
    BY <1>15, <1>0 DEF Commit
  <2>5. reports[q] = None
    BY <1>15, <1>0 DEF Commit, ReportsSettled, Settled
  <2>6. reports'[q] # None => args[q].report = q
    BY <1>15, <2>5 DEF Commit
  <2>7. args[q].report = q =>
          originals[q] # None /\ args[q].snapshot \subseteq originals[q]
    BY <1>15, <1>0, <2>1 DEF Commit, RequestsSettled, UploadsCovered, Settled
  <2>8. QED  BY <2>2, <2>3, <2>4, <2>6, <2>7 DEF ReportIsComplete, Exists
<1>16. ASSUME NEW q \in Requests, RequestFails(q)
      PROVE  ReportIsComplete'
  BY <1>16, <1>0
     DEF RequestFails, End, ReportIsComplete, Exists
<1>17. ASSUME NEW q \in Requests, CommitFails(q)
      PROVE  ReportIsComplete'
  BY <1>17, <1>0
     DEF CommitFails, End, ReportIsComplete, Exists
<1>18. ASSUME NEW p \in Projects, NEW c \in SUBSET Columns, ChangeConfig(p, c)
      PROVE  ReportIsComplete'
  BY <1>18, <1>0
     DEF ChangeConfig, ReportIsComplete, Exists
<1>19. ASSUME NEW w \in Workers, Load(w)
      PROVE  ReportIsComplete'
  BY <1>19, <1>0
     DEF Load, Become, ReportIsComplete, Exists
<1>20. ASSUME NEW w \in Workers, Begin(w)
      PROVE  ReportIsComplete'
  BY <1>20, <1>0
     DEF Begin, Become, ReportIsComplete, Exists
<1>21. ASSUME NEW w \in Workers, ProcessSucceeds(w)
      PROVE  ReportIsComplete'
  BY <1>21, <1>0
     DEF ProcessSucceeds, Become, ReportIsComplete, Exists
<1>22. ASSUME NEW w \in Workers, ProcessFails(w)
      PROVE  ReportIsComplete'
  BY <1>22, <1>0
     DEF ProcessFails, Become, ReportIsComplete, Exists
<1>23. ASSUME NEW w \in Workers, TaskCommit(w)
      PROVE  ReportIsComplete'
  <2> DEFINE x == work[w].execution
  <2>1. work[w].row # None /\ x \in Requests
    BY <1>23, <1>w DEF TaskCommit, Become, WorkOK
  <2>2. executions'[x] = work[w].row
        /\ \A y \in Requests \ {x} : executions'[y] = executions[y]
    BY <1>23, <1>0, <2>1 DEF TaskCommit
  <2>3. UNCHANGED <<reports, originals>>
    BY <1>23 DEF TaskCommit
  <2>4. Exists(x) => SameRun(work[w].row, executions[x])
    BY <2>1 DEF CopiesAgree
  <2>5. QED  BY <2>1, <2>2, <2>3, <2>4 DEF ReportIsComplete, SameRun, Exists
<1>24. ASSUME NEW w \in Workers, TaskFails(w)
      PROVE  ReportIsComplete'
  BY <1>24, <1>0
     DEF TaskFails, ReportIsComplete, Exists
<1>25. ASSUME NEW w \in Workers, WorkerCrash(w)
      PROVE  ReportIsComplete'
  BY <1>25, <1>0
     DEF WorkerCrash, ReportIsComplete, Exists
<1>26. ASSUME NEW w \in Workers, NEW m \in queue, Receive(w, m)
      PROVE  ReportIsComplete'
  BY <1>26, <1>0
     DEF Receive, Become, ReportIsComplete, Exists
<1>27. CASE UNCHANGED vars
  BY <1>27, <1>0
     DEF ReportIsComplete, Exists
<1>28. QED
  BY <1>1, <1>2, <1>3, <1>4, <1>5, <1>6, <1>7, <1>8, <1>9, <1>10, <1>11, <1>12, <1>13, <1>14, <1>15, <1>16, <1>17, <1>18, <1>19, <1>20, <1>21, <1>22, <1>23, <1>24, <1>25, <1>26, <1>27
  DEF Next, RequestStep, UploadStep, ReprocessStep, DownloadStep, DeleteStep,
      TaskStep

-------------------------------------------------------------------------------
(* The theorems                                                            *)

LEMMA InitDataInv == Init => DataInv
<1> SUFFICES ASSUME Init PROVE DataInv
  OBVIOUS
<1> USE DEF Init
<1>1. TypeOK
  BY ConstantsAssumption, NoArgsType, IdleType DEF TypeOK, Places
<1>2. ArgsOK /\ WorkOK /\ OriginalsSettled /\ UploadsCovered
  BY DEF ArgsOK, WorkOK, OriginalsSettled, ReportsSettled, ExecutionsSettled,
         CopiesSettled, RequestsSettled, UploadsCovered, Working, Uploading,
         HasInserted, Exists, Idle
<1>3. CopiesAgree /\ RowsTruthful /\ JobsAccounted /\ ReportIsComplete
  BY DEF CopiesAgree, RowsTruthful, JobsAccounted, ReportIsComplete,
         HasInserted, Exists, Idle
<1>4. QED  BY <1>1, <1>2, <1>3 DEF DataInv

LEMMA NextDataInv == DataInv /\ [Next]_vars => DataInv'
BY TypeStep, ArgsStep, WorkStep, OriginalsStep, CopiesAgreeStep,
   RowsTruthfulStep, UploadsCoveredStep, JobsAccountedStep,
   ReportIsCompleteStep DEF DataInv

\* What requests and workers hold and the rows they write fit together, in every
\* reachable state.
THEOREM SpecDataInv == Spec => []DataInv
<1>1. QED  BY InitDataInv, NextDataInv, PTL DEF Spec

\* Every variable always has its type.
THEOREM TypeCorrect == Spec => []TypeOK
<1>1. DataInv => TypeOK
  BY DEF DataInv
<1>2. QED  BY SpecDataInv, <1>1, PTL

\* A READY row always has its result in the store, made from the original of
\* its report under its own snapshot: whatever is retried, redelivered,
\* rolled back or reconfigured (process_report.py).
THEOREM ResultSafety == Spec => []ReadyHasResult
<1>1. DataInv => ReadyHasResult
  BY DEF DataInv, RowsTruthful, Truthful, ReadyHasResult, Ready, Exists
<1>2. QED  BY SpecDataInv, <1>1, PTL

\* A committed report always has its original and an execution whose snapshot
\* its file covers (upload_report.py).
THEOREM UploadSafety == Spec => []ReportIsComplete
<1>1. DataInv => ReportIsComplete
  BY DEF DataInv
<1>2. QED  BY SpecDataInv, <1>1, PTL

\* A queued execution is never silently forgotten (upload_report.py enqueues
\* before the commit, tasks.py retries).
THEOREM NoForgottenJob == Spec => []NoSilentStall
<1>1. DataInv => NoSilentStall
  BY DEF DataInv, JobsAccounted, NoSilentStall
<1>2. QED  BY SpecDataInv, <1>1, PTL

\* A finished execution stays finished, with its snapshot, until its project is
\* deleted (tasks.py commits once).
THEOREM FinishedForGood == Spec => FinishedStaysFinished
<1> DEFINE Kept(x) == Finished(x) /\ Exists(x)' =>
                        /\ Finished(x)'
                        /\ executions'[x].snapshot = executions[x].snapshot
<1>1. ASSUME DataInv, [Next]_vars, NEW x \in Requests
      PROVE  Kept(x)
  <2> USE DEF Finished, Exists, vars, dbVars
  <2>0. /\ executions \in [Requests -> Execution \cup {None}]
        /\ pc \in [Requests -> Places] /\ work \in [Workers -> Work]
        /\ ExecutionsSettled
    BY <1>1 DEF DataInv, TypeOK, OriginalsSettled
  <2>1. CASE UNCHANGED executions
    BY <2>1
  <2>2. ASSUME NEW q \in Requests, Commit(q)
        PROVE  Kept(x)
    <3>1. pc[q] = "answered"
      BY <2>2 DEF Commit
    <3>2. CASE x = q
      BY <2>0, <3>1, <3>2 DEF ExecutionsSettled
    <3>3. CASE x # q
      BY <2>0, <2>2, <3>3 DEF Commit
    <3>4. QED  BY <3>2, <3>3
  <2>3. ASSUME NEW q \in Requests, DeleteCommit(q)
        PROVE  Kept(x)
    BY <2>3 DEF DeleteCommit
  <2>4. ASSUME NEW w \in Workers, TaskCommit(w)
        PROVE  Kept(x)
    <3>1. work[w].pc = "finished" /\ work[w].row # None
          /\ work[w].row.status \in {"READY", "ERROR"}
      BY <1>1, <2>4 DEF TaskCommit, Become, DataInv, WorkOK
    <3>2. CASE work[w].execution = x
      <4>1. executions'[x] = work[w].row
        BY <2>0, <2>4, <3>2 DEF TaskCommit
      <4>2. Exists(x) => SameRun(work[w].row, executions[x])
        BY <1>1, <3>1, <3>2 DEF DataInv, CopiesAgree
      <4>3. QED  BY <3>1, <4>1, <4>2 DEF SameRun
    <3>3. CASE work[w].execution # x
      BY <2>0, <2>4, <3>3 DEF TaskCommit
    <3>4. QED  BY <3>2, <3>3
  <2>5. \/ UNCHANGED executions
        \/ \E q \in Requests : Commit(q) \/ DeleteCommit(q)
        \/ \E w \in Workers : TaskCommit(w)
    BY <1>1 DEF Next, RequestStep, UploadStep, ReprocessStep, DownloadStep,
         DeleteStep, TaskStep, UploadTooLarge, UploadFindProject,
         UploadCheckColumns, UploadSave, UploadInsert, SaveFails,
         ReprocessRead, ReprocessInsert, DownloadCheck, DownloadSign,
         DeleteFind, DeleteFlush, Answer, RequestFails, CommitFails,
         ChangeConfig, Load, Begin, ProcessSucceeds, ProcessFails, TaskFails,
         WorkerCrash, Receive
  <2>6. QED  BY <2>1, <2>2, <2>3, <2>4, <2>5
<1>2. DataInv /\ [Next]_vars =>
        [\A x \in Requests :
           Finished(x) /\ Exists(x)' =>
             Finished(x)' /\ executions'[x].snapshot = executions[x].snapshot]_vars
  BY <1>1
<1>3. QED  BY SpecDataInv, <1>2, PTL DEF Spec, FinishedStaysFinished
=============================================================================
