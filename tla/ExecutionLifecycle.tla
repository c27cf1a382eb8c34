-------------------------- MODULE ExecutionLifecycle --------------------------
(***************************************************************************)
(* What the service promises about one execution, seen through the API: it *)
(* is queued once, it finishes once, or again when its job runs again, its *)
(* result appears together with READY, and it disappears only with its     *)
(* project.                                                                *)
(***************************************************************************)
CONSTANTS
  Ids,
  RunsAgain   \* whether the broker may deliver a job twice

VARIABLES
  status,     \* what polling shows
  result      \* whether the download has something to give

lifecycleVars == <<status, result>>

Phases == {"none", "QUEUED", "READY", "ERROR", "gone"}

LifecycleTypeOK ==
  /\ status \in [Ids -> Phases]
  /\ result \in [Ids -> BOOLEAN]

LifecycleInit ==
  /\ status = [x \in Ids |-> "none"]
  /\ result = [x \in Ids |-> FALSE]

Create(x) ==
  /\ status[x] = "none"
  /\ status' = [status EXCEPT ![x] = "QUEUED"]
  /\ UNCHANGED result

Succeed(x) ==
  /\ status[x] = "QUEUED"
  /\ status' = [status EXCEPT ![x] = "READY"]
  /\ result' = [result EXCEPT ![x] = TRUE]

Fail(x) ==
  /\ status[x] = "QUEUED"
  /\ status' = [status EXCEPT ![x] = "ERROR"]
  /\ UNCHANGED result

\* A second run of the job writes the row of a finished execution anew.
FinishAgain(x) ==
  /\ RunsAgain /\ status[x] \in {"READY", "ERROR"}
  /\ \E s \in {"READY", "ERROR"} :
       /\ status' = [status EXCEPT ![x] = s]
       /\ result' = [result EXCEPT ![x] = s = "READY"]

\* A project is deleted with its executions, or creations come to nothing.
Vanish(S) ==
  /\ status' = [x \in Ids |-> IF x \in S THEN "gone" ELSE status[x]]
  /\ result' = [x \in Ids |-> x \notin S /\ result[x]]

LifecycleNext ==
  \/ \E x \in Ids : Create(x) \/ Succeed(x) \/ Fail(x) \/ FinishAgain(x)
  \/ \E S \in SUBSET Ids : Vanish(S)

LifecycleSpec == LifecycleInit /\ [][LifecycleNext]_lifecycleVars
=============================================================================
