--------------------------- MODULE PipelineLifecycle ---------------------------
(***************************************************************************)
(* ReportPipeline implements ExecutionLifecycle: the mapping, and what     *)
(* makes it hold.                                                          *)
(***************************************************************************)
EXTENDS ReportPipeline

\* The pipeline as its clients see it: committed status and, for READY, an
\* object in the store.
lifecycleStatus ==
  [x \in Requests |-> IF Exists(x) THEN executions[x].status
                      ELSE IF pc[x] = "done" THEN "gone" ELSE "none"]
lifecycleResult == [x \in Requests |-> Ready(x) /\ results[x] # None]

Lifecycle == INSTANCE ExecutionLifecycle WITH
  Ids <- Requests, RunsAgain <- MaxRedeliveries > 0,
  status <- lifecycleStatus, result <- lifecycleResult

\* Every execution is created once, finishes once, unless its message is delivered
\* again, and becomes downloadable in the very step that shows it READY.
ImplementsLifecycle == Lifecycle!LifecycleSpec

-------------------------------------------------------------------------------
(* Unless messages are delivered twice, an execution has one job.          *)

Busy(w) == work[w].pc # "idle"

\* A job is there from the insertion on, and while it is, the row is QUEUED.
JobFits(x) ==
  /\ pc[x] \in {"inserted", "answered", "done"}
  /\ Exists(x) => executions[x].status = "QUEUED"

OneJob ==
  /\ \A m \in queue : JobFits(m.execution)
  /\ \A w \in Workers : Busy(w) => JobFits(work[w].execution)
  /\ \A m, n \in queue : m.execution = n.execution => m = n
  /\ \A m \in queue, w \in Workers : Busy(w) => work[w].execution # m.execution
  /\ \A v, w \in Workers :
       Busy(v) /\ Busy(w) /\ work[v].execution = work[w].execution => v = w

\* A worker shows no row that it has only begun.
NoneProcessing ==
  \A x \in Requests : Exists(x) => executions[x].status # "PROCESSING"

LifecycleInv == NoneProcessing /\ (MaxRedeliveries = 0 => OneJob)
=============================================================================
