-------------------------------- MODULE Catalog --------------------------------
(***************************************************************************)
(* What one user keeps: projects, the dictionary, and the reports of the   *)
(* projects with their approval, under requests that run at once.          *)
(***************************************************************************)
EXTENDS ProjectCatalog, Dictionary, FeedbackApproval

CONSTANT Tables   \* the tables the old rows may make up

Rows == ProjectRow \cup EntryRow \cup ReportRow

Outcomes == {"ok", "Failure", "ProjectNotFound", "EntryNotFound", "ReportNotFound",
             "NameAlreadyExists", "InvalidApprovalTransition"}

ASSUME NoneAssumption == None \notin Rows \cup Outcomes

\* Old rows have gone through the same indexes and foreign keys.
ASSUME TablesAssumption ==
  \A t \in Tables :
    /\ t \in [Old -> Rows]
    /\ \A a, b \in Old : a # b => ~SameKey(t[a], t[b])
    /\ \A id \in Old :
         \/ t[id].project = None
         \/ t[id].project \in Old /\ t[t[id].project].table = "projects"

Init ==
  /\ \E t \in Tables :
       table = [id \in Ids |-> IF id \in Old THEN t[id] ELSE None]
  /\ RowsInit

Advance(q) ==
  \/ ProjectStep(q) \/ EntryStep(q) \/ FeedbackStep(q)
  \/ Answer(q) \/ Commit(q) \/ Deadlocks(q)

Next == \E q \in Requests : Advance(q) \/ RequestFails(q) \/ CommitFails(q)

Spec == Init /\ [][Next]_vars

-------------------------------------------------------------------------------
Places == {"new", "read", "selected", "written", "flushed", "answered", "done"}
Operations == {"create", "update", "delete"}
Args == [op : Operations \cup {None},
         on : {"projects", "entries", "reports", None}, id : Ids \cup {None},
         asked : Feedback \cup {None}, entity : Rows \cup {None},
         selected : Rows \cup {None}]

\* Every variable has its type.
TypeOK ==
  /\ table \in [Ids -> Rows \cup {None}]
  /\ pc \in [Requests -> Places]
  /\ args \in [Requests -> Args]
  /\ outcome \in [Requests -> Outcomes \cup {None}]

\* No project has the name of another, no term of the dictionary occurs twice in
\* its scope, whatever creates and renames run at once (models/project.py:25,
\* models/dictionary.py:37-48).
KeysAreUnique ==
  \A a, b \in Present : a # b => ~SameKey(table[a], table[b])

\* Entries and reports exist with their project only: the cascade of a delete
\* misses no row that a create, a PATCH or a feedback writes meanwhile.
NoOrphans ==
  \A id \in Present :
    table[id].project # None => table[id].project \in RowsOf("projects")

\* What a project sees has each of its own and the global terms once, and its
\* own where both have it (list_merged, "project entries override global ones").
MergedIsComplete ==
  \A p \in RowsOf("projects") :
    \A id \in Scope(p) \cup Scope(None) :
      \E e \in Merged(p) :
        /\ \A f \in Merged(p) : Term(f) = Term(id) <=> f = e
        /\ e \in Scope(p) \/ \A f \in Scope(p) : Term(f) # Term(id)

\* A row that was deleted, by its own request or with its project, never comes
\* back with a PATCH or a feedback that has read it before.
GoneForGood ==
  [][\A id \in Ids :
       table[id] = None /\ table'[id] # None =>
         id \in Requests /\ pc[id] = "answered"]_vars

AskedFor(q, id) == args[q].asked \in Feedback /\ args[q].asked.id = id

\* Who is refused because of a decision finds it decided, for ever: no feedback
\* that runs at once, no failed commit puts PENDING back (submit_feedback.py:23).
RefusedMeansDecided ==
  \A q \in Requests :
    outcome[q] = "InvalidApprovalTransition" /\ args[q].asked.status \in Decisions
      => table[args[q].asked.id] = None
         \/ table[args[q].asked.id].status \in Decisions

\* The first decision on a report is the whole of one answered feedback, status
\* and reason, whichever feedbacks overlap and fail (submit_feedback.py:25-33).
FirstDecisionIsOne ==
  [][\A id \in RowsOf("reports") :
       table'[id] \notin {None, table[id]} /\ table[id].status = "PENDING" =>
         \E q \in Requests : /\ AskedFor(q, id) /\ outcome[q] = "ok"
                             /\ table'[id] = Decided(table[id], args[q].asked)]_vars

-------------------------------------------------------------------------------
(* The inductive strengthening of the safety properties.                   *)

\* A row is held by one request, which has it in hand.
LocksAreExclusive ==
  \A q, r \in Requests : q # r => Held(q) \cap Held(r) = {}

\* An uncommitted key is in nobody else's hands, committed or not.
IndexOK ==
  \A q \in Requests :
    Entered(q) =>
      /\ ~Taken(q)
      /\ \A r \in Requests \ {q} : Entered(r) => ~SameKey(Stored(q), Stored(r))

\* A create writes the row of its own id, the others a row they have found: its
\* creator is done, and an update leaves it in its table and project.
InHand(q) ==
  /\ args[q].id \in Ids /\ args[q].op \in Operations
  /\ args[q].op = "create" =>
       args[q].id = q /\ Writing(q)
  /\ args[q].op # "create" =>
       /\ args[q].id \in Requests => pc[args[q].id] = "done"
       /\ args[q].id \in Present => table[args[q].id].table = args[q].on
  /\ args[q].op # "delete" =>
       args[q].entity \in Rows /\ args[q].entity.table = args[q].on
  /\ args[q].op = "update" /\ args[q].id \in Present =>
       args[q].entity.project = table[args[q].id].project

Busy(q) == pc[q] \in {"read", "selected"} \/ Writing(q)

ArgsOK == \A q \in Requests : Busy(q) => InHand(q)

\* A row a request creates is there only after it.
RowsAreSettled == \A q \in Requests : table[q] # None => pc[q] = "done"

\* An UPDATE that has matched its row keeps it there.
UpdatesHoldTheirRow ==
  \A q \in Requests :
    Writing(q) /\ args[q].op = "update" => args[q].id \in Present

\* The project of a row on its way in is there, and nobody is deleting it.
ScopesAreHeld ==
  \A q \in Requests :
    Entered(q) /\ args[q].op = "create" => ScopeExists(q) /\ ~ScopeHeld(q)

RowsInv ==
  /\ TypeOK /\ ArgsOK /\ RowsAreSettled /\ UpdatesHoldTheirRow
  /\ LocksAreExclusive /\ ScopesAreHeld /\ IndexOK /\ KeysAreUnique /\ NoOrphans

\* Only feedbacks change reports; the entity of one is decided as it was asked.
FeedbacksInHand ==
  \A q \in Requests :
    Busy(q) /\ args[q].on = "reports" =>
      /\ args[q].op = "update" /\ AskedFor(q, args[q].id)
      /\ args[q].asked.status \in Decisions
      /\ args[q].entity.status = args[q].asked.status
      /\ args[q].entity.reason = args[q].asked.reason

\* A commit comes after the answer, a refusal is the end.
AnswersStand ==
  \A q \in Requests :
    /\ pc[q] = "answered" => outcome[q] = "ok"
    /\ outcome[q] = "InvalidApprovalTransition" => pc[q] = "done"

\* What was refused is a report, as long as it is there; its id is used up.
Refused(q) ==
  LET id == args[q].asked.id IN
  /\ AskedFor(q, id) /\ id \in Ids
  /\ id \in Requests => pc[id] = "done"
  /\ id \in Present =>
       /\ table[id].table = "reports"
       /\ args[q].asked.status \in Decisions => table[id].status \in Decisions

RefusalsStand ==
  \A q \in Requests : outcome[q] = "InvalidApprovalTransition" => Refused(q)

\* What a feedback has selected of a report that is pending is what is there.
PendingAsSelected ==
  \A q \in Requests :
    /\ pc[q] = "selected" \/ Writing(q)
    /\ On(q, "reports") /\ args[q].id \in Present
    /\ table[args[q].id].status = "PENDING"
    => args[q].selected = table[args[q].id]

ApprovalInv == FeedbacksInHand /\ AnswersStand /\ RefusalsStand /\ PendingAsSelected

IndInv == RowsInv /\ ApprovalInv

-------------------------------------------------------------------------------
(* What documents and messages say, and the code does not do.              *)

\* docs/changelogs/CrudReportsChangelog.md:51: a decided report is not decided
\* again.
DecidedForGood ==
  [][\A id \in RowsOf("reports") :
       table[id].status \in Decisions /\ table'[id] # None =>
         table'[id].status = table[id].status
         /\ table'[id].reason = table[id].reason]_vars

\* docs/REQUISITOS.md:196-197: a report is marked as approved, or as rejected with
\* the reason, so its status and its reason are those of one feedback.
DecisionsAreWhole ==
  [][\A id \in RowsOf("reports") :
       table'[id] \notin {None, table[id]} =>
         \E q \in Requests : /\ AskedFor(q, id) /\ outcome[q] = "ok"
                             /\ args[q].asked.status = table'[id].status
                             /\ args[q].asked.reason = table'[id].reason]_vars
=============================================================================
